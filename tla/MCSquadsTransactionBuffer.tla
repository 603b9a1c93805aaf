---------------------- MODULE MCSquadsTransactionBuffer ----------------------
(* Two creators with one buffer address each, messages of one to three bits    *)
(* uploaded in pieces of up to two, one declaration beyond the maximum size.   *)
EXTENDS SquadsTransactionBuffer, SequencesExt

CONSTANTS alice, bob

MCChunks == BoundedSeq({0, 1}, 2)

\* A weak hash: strings that differ in leading zeros collide.
MCHash(m) == FoldLeft(LAMBDA h, bit : 2 * h + bit, 0, m)

MCDeclarations ==
    {[vault_index |-> 0, final_buffer_hash |-> 1, final_buffer_size |-> 1],
     [vault_index |-> 0, final_buffer_hash |-> 1, final_buffer_size |-> 2],
     [vault_index |-> 1, final_buffer_hash |-> 2, final_buffer_size |-> 3],
     [vault_index |-> 0, final_buffer_hash |-> 2, final_buffer_size |-> 4]}

\* <<1, 0>> does not parse.
MCWellFormed == {m \in BoundedSeq({0, 1}, 3) : m # <<1, 0>> /\ m # <<>>}
=============================================================================
