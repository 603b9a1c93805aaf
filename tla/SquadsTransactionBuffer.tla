----------------------- MODULE SquadsTransactionBuffer -----------------------
(***************************************************************************)
(* Transaction buffers of a Squads v4 multisig.  A message too large for   *)
(* one Solana transaction is uploaded in pieces to a buffer account, whose *)
(* creation declares the hash and the size of the whole, and a vault       *)
(* transaction is then created from the buffer.  The pieces are separate   *)
(* instructions of the creator: they may arrive in any order, twice or     *)
(* not at all, before or after the buffer is closed and created anew at    *)
(* the same address, while the multisig changes who may initiate.          *)
(***************************************************************************)
EXTENDS Integers, Sequences, Functions

CONSTANTS
    Keys,             \* keys that may be members of the multisig
    BufferIndices,    \* buffer_index values, seeds of the buffer's address
    VaultIndices,     \* vault_index values
    Bytes,            \* what messages are made of
    Hashes,           \* values of the hash function
    Chunks,           \* pieces that are uploaded
    Declarations,     \* arguments buffers are created with
    WellFormed,       \* byte strings TransactionMessage::deserialize accepts
    EmptyMessage,     \* the message argument that refers to the buffer
    ArgMessages,      \* message arguments tried
    hash(_),          \* solana_program::hash::hash
    MAX_BUFFER_SIZE,
    MaxBuffers        \* bound on the number of buffers created

\* The arguments that stay in the account when the upload goes on.
Declaration ==
    [vault_index : VaultIndices, final_buffer_hash : Hashes, final_buffer_size : Nat]

ASSUME ChunksAssumption == \A chunk \in Chunks : chunk \in Seq(Bytes)
ASSUME DeclarationsAssumption == Declarations \subseteq Declaration
ASSUME SizesAssumption == MAX_BUFFER_SIZE \in Nat /\ MaxBuffers \in Nat

VARIABLES
    buffers,       \* the TransactionBuffer accounts that exist, by their seeds
    initiators,    \* members of the multisig with Permission::Initiate
    transactions,  \* the vault transactions created from buffers, by index
    declared       \* history: creator and arguments of each buffer created

vars == <<buffers, initiators, transactions, declared>>

\* The seeds of a buffer's address.
Address == Keys \X BufferIndices

\* `life` tells apart the buffers that live at one address one after the other:
\* it is the place of the buffer in `declared`.
TransactionBuffer ==
    [life : Nat, creator : Keys, args : Declaration, buffer : Seq(Bytes)]

VaultTransaction ==
    [life : Nat, creator : Keys, vault_index : VaultIndices, message : Seq(Bytes)]

\* Variant that compares the buffer with the limit of all buffers only.
invariant_of_all(b) ==
    b.args.final_buffer_size <= MAX_BUFFER_SIZE /\ Len(b.buffer) <= MAX_BUFFER_SIZE

\* TransactionBuffer::invariant
invariant(b) ==
    /\ b.args.final_buffer_size <= MAX_BUFFER_SIZE
    /\ Len(b.buffer) <= MAX_BUFFER_SIZE
    /\ Len(b.buffer) <= b.args.final_buffer_size

\* Variant that compares nothing.
validate_nothing(b) == TRUE

validate_hash(b) == hash(b.buffer) = b.args.final_buffer_hash
validate_size(b) == Len(b.buffer) = b.args.final_buffer_size

\* Variant that leaves the account open.
no_close(addr) == buffers

\* Anchor's `close` on the account.
close(addr) == Restrict(buffers, DOMAIN buffers \ {addr})

-----------------------------------------------------------------------------

\* `init` requires that there is no account at the address.
transaction_buffer_create(creator, buffer_index, args, chunk) ==
    LET addr == <<creator, buffer_index>>
        b    == [life |-> Len(declared) + 1, creator |-> creator, args |-> args,
                 buffer |-> chunk]
    IN  /\ Len(declared) < MaxBuffers
        /\ addr \notin DOMAIN buffers
        /\ creator \in initiators
        /\ args.final_buffer_size <= MAX_BUFFER_SIZE
        /\ invariant(b)
        /\ buffers' = [x \in DOMAIN buffers \cup {addr} |->
                          IF x = addr THEN b ELSE buffers[x]]
        /\ declared' = Append(declared, [creator |-> creator, args |-> args])
        /\ UNCHANGED <<initiators, transactions>>

\* The subtraction is checked, and its unwrap aborts.
transaction_buffer_extend(creator, buffer_index, chunk) ==
    LET addr == <<creator, buffer_index>>
        b    == buffers[addr]
        new  == [b EXCEPT !.buffer = @ \o chunk]
    IN  /\ addr \in DOMAIN buffers
        /\ b.creator = creator
        /\ creator \in initiators
        /\ Len(b.buffer) <= b.args.final_buffer_size
        /\ Len(chunk) <= b.args.final_buffer_size - Len(b.buffer)
        /\ invariant(new)
        /\ buffers' = [buffers EXCEPT ![addr] = new]
        /\ UNCHANGED <<initiators, transactions, declared>>

\* The creator need not be a member any more.
transaction_buffer_close(creator, buffer_index) ==
    LET addr == <<creator, buffer_index>>
    IN  /\ addr \in DOMAIN buffers
        /\ buffers[addr].creator = creator
        /\ buffers' = close(addr)
        /\ UNCHANGED <<initiators, transactions, declared>>

\* vault_transaction_create is called with the content of the buffer and does
\* its own checks; the vault is the one of the arguments.
vault_transaction_create_from_buffer(creator, buffer_index, vault_index, transaction_message) ==
    LET addr == <<creator, buffer_index>>
        b    == buffers[addr]
    IN  /\ addr \in DOMAIN buffers
        /\ b.creator = creator
        /\ transaction_message = EmptyMessage
        /\ validate_hash(b)
        /\ validate_size(b)
        /\ creator \in initiators
        /\ b.buffer \in WellFormed
        /\ transactions' = Append(transactions,
                             [life |-> b.life, creator |-> creator,
                              vault_index |-> vault_index, message |-> b.buffer])
        /\ buffers' = close(addr)
        /\ UNCHANGED <<initiators, declared>>

\* Config changes of the multisig, which keeps a member who may initiate.
AddInitiator(k) ==
    /\ k \notin initiators
    /\ initiators' = initiators \cup {k}
    /\ UNCHANGED <<buffers, transactions, declared>>

RemoveInitiator(k) ==
    /\ k \in initiators
    /\ initiators # {k}
    /\ initiators' = initiators \ {k}
    /\ UNCHANGED <<buffers, transactions, declared>>

Init ==
    /\ buffers = [addr \in {} |-> 0]
    /\ initiators = Keys
    /\ transactions = <<>>
    /\ declared = <<>>

BufferStep(creator, i) ==
    \/ \E args \in Declarations, chunk \in Chunks :
          transaction_buffer_create(creator, i, args, chunk)
    \/ \E chunk \in Chunks : transaction_buffer_extend(creator, i, chunk)
    \/ transaction_buffer_close(creator, i)
    \/ \E vault_index \in VaultIndices, m \in ArgMessages :
          vault_transaction_create_from_buffer(creator, i, vault_index, m)

Next ==
    \/ \E creator \in Keys, i \in BufferIndices : BufferStep(creator, i)
    \/ \E k \in Keys : AddInitiator(k) \/ RemoveInitiator(k)

Spec == Init /\ [][Next]_vars

-----------------------------------------------------------------------------
(* Properties *)

\* The accounts hold values of their structs, and every buffer is as long as the
\* space its account was allocated with at most: the checked_sub of
\* transaction_buffer_extend never fails.
TypeOK ==
    /\ DOMAIN buffers \subseteq Address
    /\ \A addr \in DOMAIN buffers :
          /\ buffers[addr] \in TransactionBuffer
          /\ Len(buffers[addr].buffer) <= buffers[addr].args.final_buffer_size
    /\ initiators \subseteq Keys
    /\ transactions \in Seq(VaultTransaction)
    /\ declared \in Seq([creator : Keys, args : Declaration])

\* Whatever pieces arrived, were lost, repeated or meant for a buffer closed
\* since: a transaction made from a buffer has the hash and the size that its
\* creator declared when this very buffer was created.
CreatedAsDeclared ==
    \A i \in DOMAIN transactions :
        LET t == transactions[i]
        IN  /\ t.life \in DOMAIN declared
            /\ t.creator = declared[t.life].creator
            /\ hash(t.message) = declared[t.life].args.final_buffer_hash
            /\ Len(t.message) = declared[t.life].args.final_buffer_size

\* A buffer is used for one transaction at most, and never again once closed: a
\* repeated vault_transaction_create_from_buffer does not propose its message
\* twice.
UsedOnce ==
    \A i, j \in DOMAIN transactions : transactions[i].life = transactions[j].life => i = j
=============================================================================
