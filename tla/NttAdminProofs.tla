--------------------------- MODULE NttAdminProofs ---------------------------
(***************************************************************************)
(* The handovers of ownership and of the authority to mint are safe for    *)
(* any users, multisigs and addresses, with any other instruction, and any *)
(* use of the authorities outside the program, in between.                 *)
(***************************************************************************)
EXTENDS NttAdmin, TLAPS

AdminInv == TypeOK /\ HandoverLocked /\ NeverLockedOut

\* The state after initialize.
LEMMA InitInv == Init => AdminInv
BY AddressAssumption DEF Init, AdminInv, TypeOK, HandoverLocked, NeverLockedOut,
                         Addresses, Multisigs, Programs

\* transfer_ownership and its unchecked form, and claim_ownership.
LEMMA OwnershipInv ==
    ASSUME AdminInv, NEW new_owner \in Addresses,
           \/ transfer_ownership(new_owner)
           \/ transfer_ownership_one_step_unchecked(new_owner)
           \/ claim_ownership(new_owner)
    PROVE  AdminInv'
<1> USE DEF AdminInv, TypeOK, HandoverLocked, NeverLockedOut, mintVars
<1>1. upgrade_lock \in Addresses
    BY DEF Addresses, Programs
<1>2. CASE transfer_ownership(new_owner)
    BY <1>1, <1>2 DEF transfer_ownership, set_upgrade_authority
<1>3. CASE transfer_ownership_one_step_unchecked(new_owner)
    BY <1>3 DEF transfer_ownership_one_step_unchecked, set_upgrade_authority
<1>4. CASE claim_ownership(new_owner)
    BY <1>4 DEF claim_ownership, set_upgrade_authority
<1>. QED  BY <1>2, <1>3, <1>4

\* The instructions about the authority to mint leave ownership alone.
LEMMA TokenAuthorityInv ==
    ASSUME AdminInv, UNCHANGED <<ownerVars, paused>>,
           mint_authority' \in Addresses,
           pending_token_authority' \in PendingTokenAuthority \cup {None}
    PROVE  AdminInv'
BY DEF AdminInv, TypeOK, HandoverLocked, NeverLockedOut, ownerVars

\* Every step keeps the invariant.
LEMMA NextInv ==
    ASSUME AdminInv, [Next]_vars
    PROVE  AdminInv'
<1>0. /\ mint_authority \in Addresses
      /\ pending_token_authority \in PendingTokenAuthority \cup {None}
    BY DEF AdminInv, TypeOK
<1>1. ASSUME NEW x \in Addresses,
             \/ transfer_ownership(x)
             \/ transfer_ownership_one_step_unchecked(x)
             \/ claim_ownership(x)
      PROVE  AdminInv'
    BY <1>1, OwnershipInv
<1>2. ASSUME NEW x \in Addresses, set_token_authority_one_step_unchecked(x)
      PROVE  AdminInv'
    BY <1>0, <1>2, TokenAuthorityInv DEF set_token_authority_one_step_unchecked
<1>3. ASSUME NEW x \in Addresses, NEW u \in Users, set_token_authority(x, u)
      PROVE  AdminInv'
    <2>1. pending_token_authority' \in PendingTokenAuthority
        <3>1. CASE pending_token_authority = None
            BY <1>3, <3>1 DEF set_token_authority, PendingTokenAuthority
        <3>2. CASE pending_token_authority # None
            <4>1. pending_token_authority.rent_payer \in Users
                BY <1>0, <3>2 DEF PendingTokenAuthority
            <4>. QED  BY <1>3, <3>2, <4>1 DEF set_token_authority, PendingTokenAuthority
        <3>. QED  BY <3>1, <3>2
    <2>. QED  BY <1>0, <1>3, <2>1, TokenAuthorityInv DEF set_token_authority
<1>4. ASSUME NEW x \in Addresses,
             claim_token_authority(x) \/ claim_token_authority_to_multisig(x)
      PROVE  AdminInv'
    BY <1>0, <1>4, TokenAuthorityInv
       DEF claim_token_authority, claim_token_authority_to_multisig, Claim
<1>5. ASSUME NEW x \in Addresses, NEW y \in Addresses,
             accept_token_authority(x, y) \/ accept_token_authority_from_multisig(x, y)
      PROVE  AdminInv'
    BY <1>0, <1>5, TokenAuthorityInv
       DEF accept_token_authority, accept_token_authority_from_multisig
<1>6. ASSUME NEW x \in Addresses, external_set_upgrade_authority(x)
      PROVE  AdminInv'
    <2>1. upgrade_lock \notin Users
        BY AddressAssumption DEF Programs
    <2>. QED  BY <1>6, <2>1 DEF external_set_upgrade_authority, AdminInv, TypeOK,
                               HandoverLocked, NeverLockedOut, mintVars
<1>7. ASSUME NEW x \in Addresses, external_set_mint_authority(x)
      PROVE  AdminInv'
    BY <1>0, <1>7, TokenAuthorityInv DEF external_set_mint_authority
<1>8. CASE revert_token_authority
    BY <1>0, <1>8, TokenAuthorityInv DEF revert_token_authority
<1>9. ASSUME NEW pause \in BOOLEAN, set_paused(pause)
      PROVE  AdminInv'
    BY <1>9 DEF set_paused, ownerVars, mintVars, AdminInv, TypeOK, HandoverLocked, NeverLockedOut
<1>10. CASE UNCHANGED vars
    BY <1>10 DEF vars, ownerVars, mintVars, AdminInv, TypeOK, HandoverLocked, NeverLockedOut
<1>. QED  BY <1>1, <1>2, <1>3, <1>4, <1>5, <1>6, <1>7, <1>8, <1>9, <1>10 DEF Next

-----------------------------------------------------------------------------
(* Theorems                                                                *)

\* The types, the lock during a handover and the owner who can sign hold
\* together: each action needs the types, and the lock needs that no user holds
\* the address of upgrade_lock.
THEOREM AdminInvariant == Spec => []AdminInv
<1>1. AdminInv /\ [Next]_vars => AdminInv'
    BY NextInv
<1>. QED  BY <1>1, InitInv, PTL DEF Spec

\* The accounts keep the types of their structs; a PendingTokenAuthority account
\* always names the one who paid its rent.
THEOREM AdminTypeCorrect == Spec => []TypeOK
<1>1. AdminInv => TypeOK
    BY DEF AdminInv
<1>. QED  BY <1>1, AdminInvariant, PTL

\* Between transfer_ownership and claim_ownership upgrade_lock holds the
\* authority to upgrade.
THEOREM HandoverIsLocked == Spec => []HandoverLocked
<1>1. AdminInv => HandoverLocked
    BY DEF AdminInv
<1>. QED  BY <1>1, AdminInvariant, PTL

\* Without the unchecked instruction the owner is always somebody who can sign.
THEOREM OwnerCanSign == Spec => []NeverLockedOut
<1>1. AdminInv => NeverLockedOut
    BY DEF AdminInv
<1>. QED  BY <1>1, AdminInvariant, PTL

\* The authority to mint leaves the program only while it is paused, and by a
\* claim only to the address named.
THEOREM MintHandoverIsSafe == Spec => MintHandover
<1> DEFINE Safe ==
        /\ mint_authority = token_authority /\ mint_authority' # token_authority => paused
        /\ pending_token_authority # None /\ mint_authority' # mint_authority
               /\ pending_token_authority' = None
               => mint_authority' = pending_token_authority.pending_authority
                  /\ mint_authority' \in Users \cup Multisigs
<1>1. ASSUME Next PROVE Safe
    <2>1. ASSUME mint_authority' = mint_authority PROVE Safe
        BY <2>1
    <2>2. ASSUME NEW x \in Addresses, set_token_authority_one_step_unchecked(x)
          PROVE  Safe
        BY <2>2 DEF set_token_authority_one_step_unchecked
    <2>3. ASSUME NEW x \in Addresses,
                 claim_token_authority(x) \/ claim_token_authority_to_multisig(x)
          PROVE  Safe
        BY <2>3 DEF claim_token_authority, claim_token_authority_to_multisig, Claim
    <2>4. ASSUME NEW x \in Addresses, NEW y \in Addresses,
                 accept_token_authority(x, y) \/ accept_token_authority_from_multisig(x, y)
          PROVE  Safe
        BY <2>4 DEF accept_token_authority, accept_token_authority_from_multisig
    <2>5. ASSUME NEW x \in Addresses, external_set_mint_authority(x)
          PROVE  Safe
        <3>1. token_authority \notin Users \cup Multisigs
            BY AddressAssumption DEF Programs
        <3>. QED  BY <2>5, <3>1 DEF external_set_mint_authority
    <2>6. ASSUME NEW x \in Addresses,
                 \/ transfer_ownership(x)
                 \/ transfer_ownership_one_step_unchecked(x)
                 \/ claim_ownership(x)
                 \/ \E u \in Users : set_token_authority(x, u)
                 \/ external_set_upgrade_authority(x)
          PROVE  mint_authority' = mint_authority
        BY <2>6 DEF transfer_ownership, transfer_ownership_one_step_unchecked, claim_ownership,
                    set_token_authority, external_set_upgrade_authority, mintVars
    <2>7. ASSUME \/ revert_token_authority
                 \/ \E pause \in BOOLEAN : set_paused(pause)
          PROVE  mint_authority' = mint_authority
        BY <2>7 DEF revert_token_authority, set_paused, mintVars
    <2> HIDE DEF Safe
    <2>. QED  BY <1>1, <2>1, <2>2, <2>3, <2>4, <2>5, <2>6, <2>7 DEF Next
<1>2. [Next]_vars => [Safe]_vars
    BY <1>1
<1>. QED  BY <1>2, PTL DEF Spec, MintHandover
=============================================================================
