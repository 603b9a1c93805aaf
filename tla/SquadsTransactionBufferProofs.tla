-------------------- MODULE SquadsTransactionBufferProofs --------------------
(***************************************************************************)
(* Proofs about SquadsTransactionBuffer for every hash function, size      *)
(* limit, set of pieces and number of buffers.                             *)
(***************************************************************************)
EXTENDS SquadsTransactionBuffer, SequenceTheorems, TLAPS

\* The entries of a sequence, and of the sequence with one more.
LEMMA Appended ==
    ASSUME NEW T, NEW s \in Seq(T), NEW e \in T
    PROVE  /\ Append(s, e) \in Seq(T)
           /\ DOMAIN s = 1 .. Len(s) /\ Len(s) \in Nat
           /\ DOMAIN Append(s, e) = DOMAIN s \cup {Len(s) + 1}
           /\ \A i \in DOMAIN s : Append(s, e)[i] = s[i]
           /\ Append(s, e)[Len(s) + 1] = e
           /\ Len(s) + 1 \notin DOMAIN s
  OBVIOUS

\* Closing an account leaves the others as they are.
LEMMA Closed ==
    ASSUME NEW addr, buffers' = close(addr)
    PROVE  /\ DOMAIN buffers' = DOMAIN buffers \ {addr}
           /\ \A x \in DOMAIN buffers' : buffers'[x] = buffers[x]
  BY DEF close, Restrict

-----------------------------------------------------------------------------
(* Types *)

\* Extending a buffer leaves a buffer.
LEMMA ExtendedType ==
    ASSUME NEW b \in TransactionBuffer, NEW chunk \in Chunks
    PROVE  [b EXCEPT !.buffer = @ \o chunk] \in TransactionBuffer
  <1>1. b.buffer \o chunk \in Seq(Bytes)
    BY ChunksAssumption, ConcatProperties DEF TransactionBuffer
  <1> QED
    BY <1>1 DEF TransactionBuffer

LEMMA TypeStep == TypeOK /\ [Next]_vars => TypeOK'
  <1> SUFFICES ASSUME TypeOK, [Next]_vars PROVE TypeOK'
    OBVIOUS
  <1>1. ASSUME NEW creator \in Keys, NEW i \in BufferIndices, NEW args \in Declarations,
               NEW chunk \in Chunks, transaction_buffer_create(creator, i, args, chunk)
        PROVE  TypeOK'
    <2> DEFINE addr == <<creator, i>>
               b    == [life |-> Len(declared) + 1, creator |-> creator, args |-> args,
                        buffer |-> chunk]
               d    == [creator |-> creator, args |-> args]
    <2>1. args \in Declaration /\ chunk \in Seq(Bytes) /\ addr \in Address
      BY DeclarationsAssumption, ChunksAssumption DEF Address
    <2>2. d \in [creator : Keys, args : Declaration]
      BY <2>1
    <2>3. declared' \in Seq([creator : Keys, args : Declaration]) /\ Len(declared) \in Nat
      <3>1. declared' = Append(declared, d)
        BY <1>1 DEF transaction_buffer_create
      <3> HIDE DEF d
      <3> QED
        BY <2>2, <3>1, Appended DEF TypeOK
    <2>4. b \in TransactionBuffer /\ Len(b.buffer) <= b.args.final_buffer_size
      BY <1>1, <2>1, <2>3 DEF TransactionBuffer, transaction_buffer_create, invariant
    <2>5. /\ DOMAIN buffers' = DOMAIN buffers \cup {addr}
          /\ buffers'[addr] = b
          /\ \A x \in DOMAIN buffers : x # addr => buffers'[x] = buffers[x]
      BY <1>1 DEF transaction_buffer_create
    <2> HIDE DEF b, addr
    <2> QED
      BY <1>1, <2>1, <2>3, <2>4, <2>5 DEF TypeOK, transaction_buffer_create
  <1>2. ASSUME NEW creator \in Keys, NEW i \in BufferIndices, NEW chunk \in Chunks,
               transaction_buffer_extend(creator, i, chunk)
        PROVE  TypeOK'
    <2> DEFINE addr == <<creator, i>>
               new  == [buffers[addr] EXCEPT !.buffer = @ \o chunk]
    <2>1. addr \in DOMAIN buffers /\ buffers[addr] \in TransactionBuffer
      BY <1>2 DEF transaction_buffer_extend, TypeOK
    <2>2. new \in TransactionBuffer
      BY <2>1, ExtendedType
    <2>3. Len(new.buffer) <= new.args.final_buffer_size
      BY <1>2 DEF transaction_buffer_extend, invariant
    <2>4. buffers' = [buffers EXCEPT ![addr] = new]
      BY <1>2 DEF transaction_buffer_extend
    <2> HIDE DEF new, addr
    <2> QED
      BY <1>2, <2>1, <2>2, <2>3, <2>4 DEF TypeOK, transaction_buffer_extend
  <1>3. ASSUME NEW creator \in Keys, NEW i \in BufferIndices,
               transaction_buffer_close(creator, i)
        PROVE  TypeOK'
    <2>1. /\ DOMAIN buffers' \subseteq DOMAIN buffers
          /\ \A x \in DOMAIN buffers' : buffers'[x] = buffers[x]
      BY <1>3, Closed DEF transaction_buffer_close
    <2> QED
      BY <1>3, <2>1 DEF TypeOK, transaction_buffer_close
  <1>4. ASSUME NEW creator \in Keys, NEW i \in BufferIndices, NEW v \in VaultIndices,
               NEW m, vault_transaction_create_from_buffer(creator, i, v, m)
        PROVE  TypeOK'
    <2> DEFINE addr == <<creator, i>>
               t    == [life |-> buffers[addr].life, creator |-> creator,
                        vault_index |-> v, message |-> buffers[addr].buffer]
    <2>1. addr \in DOMAIN buffers /\ buffers[addr] \in TransactionBuffer
      BY <1>4 DEF vault_transaction_create_from_buffer, TypeOK
    <2>2. t \in VaultTransaction
      BY <2>1 DEF TransactionBuffer, VaultTransaction
    <2>3. transactions' = Append(transactions, t) /\ buffers' = close(addr)
      BY <1>4 DEF vault_transaction_create_from_buffer
    <2> HIDE DEF t, addr
    <2>4. transactions' \in Seq(VaultTransaction)
      BY <2>2, <2>3, Appended DEF TypeOK
    <2>5. /\ DOMAIN buffers' \subseteq DOMAIN buffers
          /\ \A x \in DOMAIN buffers' : buffers'[x] = buffers[x]
      BY <2>3, Closed
    <2> QED
      BY <1>4, <2>4, <2>5 DEF TypeOK, vault_transaction_create_from_buffer
  <1>5. ASSUME NEW k \in Keys, AddInitiator(k) \/ RemoveInitiator(k)
        PROVE  TypeOK'
    BY <1>5 DEF TypeOK, AddInitiator, RemoveInitiator
  <1>6. CASE UNCHANGED vars
    BY <1>6 DEF TypeOK, vars
  <1> QED
    BY <1>1, <1>2, <1>3, <1>4, <1>5, <1>6 DEF Next, BufferStep

LEMMA InitType == Init => TypeOK
  BY DEF Init, TypeOK

\* Buffers stay within the space their accounts were allocated with, however the
\* pieces arrive.
THEOREM BufferTypeCorrect == Spec => []TypeOK
  BY InitType, TypeStep, PTL DEF Spec

-----------------------------------------------------------------------------
(* What is created is what was declared, once *)

\* A buffer carries the declaration of its own life.
Carries == \A x \in DOMAIN buffers :
    /\ buffers[x].life \in DOMAIN declared
    /\ buffers[x].creator = declared[buffers[x].life].creator
    /\ buffers[x].args = declared[buffers[x].life].args

\* A life is that of one account, or of one transaction, or of neither.
Apart ==
    /\ \A x, y \in DOMAIN buffers : buffers[x].life = buffers[y].life => x = y
    /\ \A x \in DOMAIN buffers, i \in DOMAIN transactions :
          buffers[x].life # transactions[i].life

BufferInv == Carries /\ Apart /\ CreatedAsDeclared /\ UsedOnce

LEMMA BufferInvStep == TypeOK /\ TypeOK' /\ BufferInv /\ [Next]_vars => BufferInv'
  <1> SUFFICES ASSUME TypeOK, TypeOK', BufferInv, [Next]_vars PROVE BufferInv'
    OBVIOUS
  <1>1. ASSUME NEW creator \in Keys, NEW i \in BufferIndices, NEW args \in Declarations,
               NEW chunk \in Chunks, transaction_buffer_create(creator, i, args, chunk)
        PROVE  BufferInv'
    <2> DEFINE addr == <<creator, i>>
               d    == [creator |-> creator, args |-> args]
               n    == Len(declared) + 1
    <2>1. /\ DOMAIN buffers' = DOMAIN buffers \cup {addr} /\ addr \notin DOMAIN buffers
          /\ buffers'[addr].life = n
          /\ buffers'[addr].creator = creator
          /\ buffers'[addr].args = args
          /\ \A x \in DOMAIN buffers : buffers'[x] = buffers[x]
      BY <1>1 DEF transaction_buffer_create
    <2>2. /\ n \notin DOMAIN declared
          /\ DOMAIN declared' = DOMAIN declared \cup {n}
          /\ declared'[n] = d
          /\ \A k \in DOMAIN declared : declared'[k] = declared[k]
      <3>1. declared' = Append(declared, d)
        BY <1>1 DEF transaction_buffer_create
      <3>2. d \in [creator : Keys, args : Declaration]
        BY DeclarationsAssumption
      <3> HIDE DEF d
      <3> QED
        BY <3>1, <3>2, Appended DEF TypeOK
    <2>3. transactions' = transactions
      BY <1>1 DEF transaction_buffer_create
    <2>4. d.creator = creator /\ d.args = args
      OBVIOUS
    <2> HIDE DEF addr, d, n
    <2>5. Carries'
      BY <2>1, <2>2, <2>4 DEF BufferInv, Carries
    <2>6. Apart'
      BY <2>1, <2>2, <2>3 DEF BufferInv, Apart, Carries, CreatedAsDeclared
    <2>7. CreatedAsDeclared' /\ UsedOnce'
      BY <2>2, <2>3 DEF BufferInv, CreatedAsDeclared, UsedOnce
    <2> QED
      BY <2>5, <2>6, <2>7 DEF BufferInv
  <1>2. ASSUME NEW creator \in Keys, NEW i \in BufferIndices, NEW chunk \in Chunks,
               transaction_buffer_extend(creator, i, chunk)
        PROVE  BufferInv'
    <2>1. /\ DOMAIN buffers' = DOMAIN buffers
          /\ \A x \in DOMAIN buffers :
                /\ buffers'[x].life = buffers[x].life
                /\ buffers'[x].creator = buffers[x].creator
                /\ buffers'[x].args = buffers[x].args
      BY <1>2 DEF transaction_buffer_extend, TypeOK, TransactionBuffer
    <2>2. UNCHANGED <<transactions, declared>>
      BY <1>2 DEF transaction_buffer_extend
    <2> QED
      BY <2>1, <2>2 DEF BufferInv, Carries, Apart, CreatedAsDeclared, UsedOnce
  <1>3. ASSUME NEW creator \in Keys, NEW i \in BufferIndices,
               transaction_buffer_close(creator, i)
        PROVE  BufferInv'
    <2>1. /\ DOMAIN buffers' \subseteq DOMAIN buffers
          /\ \A x \in DOMAIN buffers' : buffers'[x] = buffers[x]
      BY <1>3, Closed DEF transaction_buffer_close
    <2>2. UNCHANGED <<transactions, declared>>
      BY <1>3 DEF transaction_buffer_close
    <2> QED
      BY <2>1, <2>2 DEF BufferInv, Carries, Apart, CreatedAsDeclared, UsedOnce
  <1>4. ASSUME NEW creator \in Keys, NEW i \in BufferIndices, NEW v \in VaultIndices,
               NEW m, vault_transaction_create_from_buffer(creator, i, v, m)
        PROVE  BufferInv'
    <2> DEFINE addr == <<creator, i>>
               b    == buffers[addr]
               t    == [life |-> b.life, creator |-> creator,
                        vault_index |-> v, message |-> b.buffer]
               n    == Len(transactions) + 1
    <2>1. /\ addr \in DOMAIN buffers /\ b.creator = creator
          /\ hash(b.buffer) = b.args.final_buffer_hash
          /\ Len(b.buffer) = b.args.final_buffer_size
          /\ transactions' = Append(transactions, t)
          /\ buffers' = close(addr)
          /\ declared' = declared
      BY <1>4 DEF vault_transaction_create_from_buffer, validate_hash, validate_size
    <2>2. t \in VaultTransaction
      BY <2>1 DEF TypeOK, TransactionBuffer, VaultTransaction
    <2>3. t.life = b.life /\ t.creator = creator /\ t.message = b.buffer
      OBVIOUS
    <2> HIDE DEF addr, t, n
    <2>4. /\ n \notin DOMAIN transactions
          /\ DOMAIN transactions' = DOMAIN transactions \cup {n}
          /\ transactions'[n] = t
          /\ \A k \in DOMAIN transactions : transactions'[k] = transactions[k]
      BY <2>1, <2>2, Appended DEF TypeOK, n
    <2>5. /\ DOMAIN buffers' = DOMAIN buffers \ {addr}
          /\ \A x \in DOMAIN buffers' : buffers'[x] = buffers[x]
      BY <2>1, Closed
    <2>6. Carries'
      BY <2>1, <2>5 DEF BufferInv, Carries
    <2>7. Apart'
      BY <2>1, <2>3, <2>4, <2>5 DEF BufferInv, Apart
    <2>8. CreatedAsDeclared'
      BY <2>1, <2>3, <2>4 DEF BufferInv, Carries, CreatedAsDeclared
    <2>9. UsedOnce'
      BY <2>1, <2>3, <2>4 DEF BufferInv, Apart, UsedOnce
    <2> QED
      BY <2>6, <2>7, <2>8, <2>9 DEF BufferInv
  <1>5. CASE UNCHANGED <<buffers, transactions, declared>>
    BY <1>5 DEF BufferInv, Carries, Apart, CreatedAsDeclared, UsedOnce
  <1> QED
    BY <1>1, <1>2, <1>3, <1>4, <1>5 DEF Next, BufferStep, AddInitiator, RemoveInitiator, vars

\* BufferInv holds in every state.
THEOREM BufferInvariant == Spec => []BufferInv
  <1>1. Init => BufferInv
    BY DEF Init, BufferInv, Carries, Apart, CreatedAsDeclared, UsedOnce
  <1> QED
    BY <1>1, BufferInvStep, BufferTypeCorrect, PTL DEF Spec

\* A transaction created from a buffer has the hash and the size its creator
\* declared, for any hash function and any order, loss or repetition of the
\* pieces.
THEOREM CreationIsFaithful == Spec => []CreatedAsDeclared
  <1>1. BufferInv => CreatedAsDeclared
    BY DEF BufferInv
  <1> QED
    BY <1>1, BufferInvariant, PTL

\* vault_transaction_create_from_buffer never makes two transactions of a buffer.
THEOREM CreationIsOnce == Spec => []UsedOnce
  <1>1. BufferInv => UsedOnce
    BY DEF BufferInv
  <1> QED
    BY <1>1, BufferInvariant, PTL

=============================================================================
