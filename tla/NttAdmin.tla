------------------------------ MODULE NttAdmin ------------------------------
(***************************************************************************)
(* Native Token Transfers: who owns a manager, who may upgrade its program *)
(* and who may mint its token.  The owner hands over in two steps; in      *)
(* between the authority to upgrade is held by an address of the program   *)
(* itself (upgrade_lock).  The authority to mint moves while the manager   *)
(* is paused, in one step or in two.                                       *)
(***************************************************************************)
CONSTANTS
    Users,              \* keys somebody can sign with
    Unusable,           \* addresses nobody can sign for
    SharedMultisigs,    \* SPL multisigs with m = 1 and token_authority among the signers
    OtherMultisigs,     \* other SPL multisigs
    upgrade_lock,       \* addresses derived from the program
    token_authority,
    None

Programs == {upgrade_lock, token_authority}
Multisigs == SharedMultisigs \cup OtherMultisigs
Addresses == Users \cup Unusable \cup Multisigs \cup Programs

ASSUME AddressAssumption ==
    /\ upgrade_lock # token_authority
    /\ None \notin Addresses
    /\ Users \cap (Unusable \cup Multisigs \cup Programs) = {}
    /\ Multisigs \cap (Unusable \cup Programs) = {}
    /\ SharedMultisigs \cap OtherMultisigs = {}
    /\ Unusable \cap Programs = {}

VARIABLES
    owner, pending_owner,       \* of the Config account
    paused,
    upgrade_authority,          \* of the program, kept by the loader
    mint_authority,             \* of the mint, kept by the token program
    pending_token_authority,    \* the PendingTokenAuthority account, or None
    unchecked                   \* history: ownership was handed over in one step

ownerVars == <<owner, pending_owner, upgrade_authority, unchecked>>
mintVars == <<mint_authority, pending_token_authority>>
vars == <<ownerVars, paused, mintVars>>

PendingTokenAuthority == [pending_authority : Addresses, rent_payer : Users]

(* The state initialize leaves, for a manager that mints.                  *)
Init ==
    /\ owner \in Users
    /\ pending_owner = None
    /\ paused = FALSE
    /\ upgrade_authority = owner
    /\ mint_authority \in {token_authority} \cup SharedMultisigs
    /\ pending_token_authority = None
    /\ unchecked = FALSE

-----------------------------------------------------------------------------
(* Ownership: transfer_ownership.rs                                        *)

\* set_upgrade_authority of the loader, signed by `current`.
set_upgrade_authority(current, new_authority) ==
    /\ upgrade_authority = current
    /\ upgrade_authority' = new_authority

\* Variant: the authority to upgrade stays with the owner until the claim.
transfer_without_lock(new_owner) ==
    /\ owner \in Users
    /\ pending_owner' = new_owner
    /\ UNCHANGED <<owner, paused, mintVars, upgrade_authority, unchecked>>

transfer_ownership(new_owner) ==
    /\ owner \in Users
    /\ pending_owner' = new_owner
    /\ IF upgrade_authority = upgrade_lock
       THEN UNCHANGED upgrade_authority
       ELSE set_upgrade_authority(owner, upgrade_lock)
    /\ UNCHANGED <<owner, paused, mintVars, unchecked>>

transfer_ownership_one_step_unchecked(new_owner) ==
    /\ owner \in Users
    /\ pending_owner' = None
    /\ owner' = new_owner
    /\ set_upgrade_authority(owner, new_owner)
    /\ unchecked' = TRUE
    /\ UNCHANGED <<paused, mintVars>>

\* Variant: whoever claims, the pending owner becomes the owner.
claim_for_pending(new_owner) ==
    /\ new_owner \in Users
    /\ new_owner = pending_owner \/ new_owner = owner
    /\ pending_owner' = None
    /\ owner' = IF pending_owner = None THEN new_owner ELSE pending_owner
    /\ set_upgrade_authority(upgrade_lock, owner')
    /\ UNCHANGED <<paused, mintVars, unchecked>>

claim_ownership(new_owner) ==
    /\ new_owner \in Users
    /\ new_owner = pending_owner \/ new_owner = owner
    /\ pending_owner' = None
    /\ owner' = new_owner
    /\ set_upgrade_authority(upgrade_lock, new_owner)
    /\ UNCHANGED <<paused, mintVars, unchecked>>

set_paused(pause) ==
    /\ owner \in Users
    /\ paused' = pause
    /\ UNCHANGED <<ownerVars, mintVars>>

-----------------------------------------------------------------------------
(* Authority to mint: transfer_token_authority.rs                          *)

\* What the program can sign for: its own address, or a multisig passed as
\* multisig_token_authority.
Signable == {token_authority} \cup SharedMultisigs

accept_token_authority(current, new_authority) ==
    /\ paused
    /\ new_authority \in Signable
    /\ current \in Users
    /\ mint_authority = current
    /\ mint_authority' = new_authority
    /\ UNCHANGED <<ownerVars, paused, pending_token_authority>>

accept_token_authority_from_multisig(current, new_authority) ==
    /\ paused
    /\ new_authority \in Signable
    /\ current \in Multisigs
    /\ mint_authority = current
    /\ mint_authority' = new_authority
    /\ UNCHANGED <<ownerVars, paused, pending_token_authority>>

set_token_authority_one_step_unchecked(new_authority) ==
    /\ owner \in Users
    /\ paused
    /\ mint_authority \in Signable
    /\ mint_authority' = new_authority
    /\ UNCHANGED <<ownerVars, paused, pending_token_authority>>

set_token_authority(new_authority, rent_payer) ==
    /\ owner \in Users
    /\ paused
    /\ mint_authority \in Signable
    /\ pending_token_authority' =
           [pending_authority |-> new_authority,
            rent_payer |-> IF pending_token_authority = None THEN rent_payer
                           ELSE pending_token_authority.rent_payer]
    /\ UNCHANGED <<ownerVars, paused, mint_authority>>

revert_token_authority ==
    /\ owner \in Users
    /\ paused
    /\ pending_token_authority # None
    /\ pending_token_authority' = None
    /\ UNCHANGED <<ownerVars, paused, mint_authority>>

\* Variant: works while transfers go on.
claim_while_running(new_authority) ==
    /\ pending_token_authority # None
    /\ pending_token_authority.pending_authority = new_authority
    /\ mint_authority \in Signable
    /\ mint_authority' = new_authority
    /\ pending_token_authority' = None
    /\ UNCHANGED <<ownerVars, paused>>

\* claim_token_authority and claim_token_authority_to_multisig after the check
\* of the new authority's signature.
Claim(new_authority) ==
    /\ paused
    /\ pending_token_authority # None
    /\ pending_token_authority.pending_authority = new_authority
    /\ mint_authority \in Signable
    /\ mint_authority' = new_authority
    /\ pending_token_authority' = None
    /\ UNCHANGED <<ownerVars, paused>>

claim_token_authority(new_authority) == new_authority \in Users /\ Claim(new_authority)

claim_token_authority_to_multisig(new_authority) ==
    new_authority \in Multisigs /\ Claim(new_authority)

-----------------------------------------------------------------------------
(* What holders of the authorities can do without this program             *)

external_set_upgrade_authority(new_authority) ==
    /\ upgrade_authority \in Users
    /\ upgrade_authority' = new_authority
    /\ UNCHANGED <<owner, pending_owner, unchecked, paused, mintVars>>

external_set_mint_authority(new_authority) ==
    /\ mint_authority \in Users \cup Multisigs
    /\ mint_authority' = new_authority
    /\ UNCHANGED <<ownerVars, paused, pending_token_authority>>

Next ==
    \/ \E a \in Addresses :
           \/ transfer_ownership(a)
           \/ transfer_ownership_one_step_unchecked(a)
           \/ claim_ownership(a)
           \/ set_token_authority_one_step_unchecked(a)
           \/ \E u \in Users : set_token_authority(a, u)
           \/ claim_token_authority(a)
           \/ claim_token_authority_to_multisig(a)
           \/ \E b \in Addresses : \/ accept_token_authority(a, b)
                                   \/ accept_token_authority_from_multisig(a, b)
           \/ external_set_upgrade_authority(a)
           \/ external_set_mint_authority(a)
    \/ revert_token_authority
    \/ \E pause \in BOOLEAN : set_paused(pause)

Spec == Init /\ [][Next]_vars

-----------------------------------------------------------------------------
(* Properties                                                              *)

(* The accounts hold values of their structs; above all, a pending token   *)
(* authority always names the payer its rent goes back to (rent_payer).    *)
TypeOK ==
    /\ owner \in Addresses
    /\ pending_owner \in Addresses \cup {None}
    /\ paused \in BOOLEAN
    /\ upgrade_authority \in Addresses
    /\ mint_authority \in Addresses
    /\ pending_token_authority \in PendingTokenAuthority \cup {None}
    /\ unchecked \in BOOLEAN

(* From transfer_ownership until the claim nobody can upgrade the program: *)
(* a started handover always finds the authority with upgrade_lock, so     *)
(* that the pending owner can complete it and the owner can cancel it,     *)
(* whatever instructions come in between.                                  *)
HandoverLocked ==
    pending_owner # None => upgrade_authority = upgrade_lock

(* The two-step handover never leaves the manager with an owner who cannot *)
(* sign, whatever address was named by mistake and whoever claims or       *)
(* cancels: only transfer_ownership_one_step_unchecked can.                *)
NeverLockedOut ==
    owner \notin Users => unchecked

(* The program loses the authority to mint only while it is paused; in a   *)
(* handover in two steps only to the address that was named last, which    *)
(* has signed.                                                             *)
MintHandover ==
    [][/\ mint_authority = token_authority /\ mint_authority' # token_authority => paused
       /\ pending_token_authority # None /\ mint_authority' # mint_authority
              /\ pending_token_authority' = None
              => mint_authority' = pending_token_authority.pending_authority
                 /\ mint_authority' \in Users \cup Multisigs]_vars
=============================================================================
