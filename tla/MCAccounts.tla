------------------------------ MODULE MCAccounts ------------------------------
(***************************************************************************)
(* Model-checking instances of Accounts: one about memberships, one about  *)
(* identities and the recovery of Owners.                                  *)
(***************************************************************************)
EXTENDS Accounts, TLC

CONSTANTS ann, bob, first, second

\* Two Users have signed in before.
BothSignedIn == {<<first, ann>>, <<second, bob>>}

\* A Custom Role that manages memberships, and one that manages everything.
TwoGrants == {{"manage_memberships"}, Permissions}
\* Roles that requests ask for.
OwnerOrPlayer == {"owner", "player"}
OwnerPlayerOrCustom == {"owner", "player"} \cup CustomRoles

\* The additive model kept several assignments; the newest counts.
OneLegacy == {<<[role |-> "player", wide |-> TRUE], [role |-> "manager", wide |-> TRUE],
                [role |-> "player", wide |-> FALSE]>>}
NoLegacy == {}

\* Requests, invitations and recovery codes are interchangeable.
RequestSymmetry == Permutations(Calls) \cup Permutations(Invitations) \cup Permutations(Codes)
===============================================================================
