------------------------------- MODULE Accounts -------------------------------
(***************************************************************************)
(* One GameWake Account: who belongs to it, with which Role, who is        *)
(* invited, which Discord Guild it is linked to, and how its Owners sign   *)
(* in and recover a lost identity.                                         *)
(*                                                                         *)
(* The whole account is one row with a version.  A request reads the row,  *)
(* asks for permissions with reads of their own, and saves what it made of *)
(* its snapshot if the version is still the one it read.  Requests overlap *)
(* and may stop, or be refused, between any two of these steps.            *)
(*                                                                         *)
(* The version appears only as whether a snapshot is current.  A User has  *)
(* at most one membership, so memberships are named by their Users.  A     *)
(* Role is wide when its scope is the account and not one World; only a    *)
(* wide one grants a permission of the account.  An invitation that has    *)
(* expired is one that nobody accepts any more.  Reauthentication, names   *)
(* and the text of activity events are left out.                           *)
(***************************************************************************)
EXTENDS Naturals, Sequences

CONSTANTS
  Users,        \* ids that users get when they first sign in
  DiscordIds,   \* the identities of Discord
  FirstLinks,   \* the identities that signed in before: <<identity, User>>
  CustomRoles,  \* ids of the Custom Roles an account may define
  RoleGrants,   \* the sets of permissions a Custom Role may be given
  Asked,        \* the Roles, Predefined or Custom, that requests ask for
  Legacy,       \* assignments that memberships of the additive model may have
  Invitations,  \* ids of invitations
  Guilds,       \* Discord Guilds
  Codes,        \* recovery codes
  Calls,        \* slots for the requests in flight at the same time
  None          \* the absent value

PredefinedRoles == {"owner", "manager", "player"}
\* The permissions that guard the operations of this module.
Permissions == {"manage_memberships", "manage_roles", "manage_integrations"}

Assignment == [role: PredefinedRoles \cup CustomRoles, wide: BOOLEAN]
AccountOwner == [role |-> "owner", wide |-> TRUE]
AccountPlayer == [role |-> "player", wide |-> TRUE]

ASSUME RolesAssumption ==
  /\ CustomRoles \cap PredefinedRoles = {}
  /\ Asked \subseteq PredefinedRoles \cup CustomRoles
  /\ RoleGrants \subseteq SUBSET Permissions
  /\ Legacy \subseteq Seq([role: PredefinedRoles, wide: BOOLEAN])
  /\ None \notin Assignment
ASSUME IdsAssumption ==
  /\ None \notin Users \cup DiscordIds \cup Guilds \cup Codes
  /\ FirstLinks \subseteq DiscordIds \X Users
  /\ \A k, l \in FirstLinks : k[1] = l[1] <=> k[2] = l[2]

VARIABLES
  account,    \* the row of the account, with its memberships and invitations
  elsewhere,  \* the Guilds linked to other accounts
  users,      \* the rows of users
  links,      \* the rows of linked identities: <<identity, User>>
  codes,      \* for each User, the recovery codes that were not used
  spent,      \* the recovery codes that were used or replaced (history)
  call        \* the requests in flight

identities == <<users, links, codes, spent>>
vars == <<account, elsewhere, identities, call>>

Invitation == [status: {"absent", "pending", "accepted"}, invited: Users \cup {None},
               grant: Assignment]
Account == [members: SUBSET Users, assigned: [Users -> Seq(Assignment)],
            defined: SUBSET CustomRoles, grants: [CustomRoles -> SUBSET Permissions],
            invitations: [Invitations -> Invitation], guild: Guilds \cup {None}]
NoAccount ==
  [members |-> {}, assigned |-> [u \in Users |-> <<>>],
   defined |-> {}, grants |-> [r \in CustomRoles |-> {}],
   invitations |-> [i \in Invitations |->
     [status |-> "absent", invited |-> None, grant |-> AccountPlayer]],
   guild |-> None]

\* "authorized" has no snapshot yet; "read" has one and no permission yet.
WithSnapshot == {"roles", "read", "members", "console", "integrations", "guild_free",
                 "accepting", "recovering", "entitled", "replaced"}
Call == [step: WithSnapshot \cup {"idle", "authorized", "unknown", "enabling"},
         actor: Users \cup {None},
         lost: Users \cup {None},                  \* the Owner whose identity was lost
         asked: DiscordIds \cup Guilds \cup {None},
         code: Codes \cup {None},                  \* the recovery code that was accepted
         seen: Account,
         current: BOOLEAN]                         \* the row still has the version seen

Idle == [step |-> "idle", actor |-> None, lost |-> None, asked |-> None, code |-> None,
         seen |-> NoAccount, current |-> FALSE]

-------------------------------------------------------------------------------
(* The policy. *)

\* The one assignment that counts, also of memberships that the additive model left with
\* several: an ownership of the account before all, and else the newest.
Effective(assignments) ==
  IF \E i \in DOMAIN assignments : assignments[i] = AccountOwner THEN AccountOwner
  ELSE IF assignments = <<>> THEN None
  ELSE assignments[Len(assignments)]

Owners(row) == {u \in row.members : Effective(row.assigned[u]) = AccountOwner}
OneOwner(row) == \E u \in Users : Owners(row) = {u}

PermissionsOf(row, role) ==
  IF role \in CustomRoles THEN row.grants[role]
  ELSE IF role = "owner" THEN Permissions ELSE {}

\* permissions_for an operation on the account.
Permits(row, u, permission) ==
  LET assignment == Effective(row.assigned[u])
  IN  /\ u \in row.members
      /\ assignment # None
      /\ assignment.wide
      /\ permission \in PermissionsOf(row, assignment.role)

\* Mutant: an Owner of one World counts as another Owner.
PreservesAnyOwner(row, u, replacement) ==
  \/ u \notin Owners(row)
  \/ replacement # None /\ replacement.role = "owner"
  \/ ~OneOwner(row)
\* The account has an Owner once u's Role is replaced, or taken away for None.
PreservesOwner(row, u, replacement) ==
  \/ u \notin Owners(row)
  \/ replacement = AccountOwner
  \/ ~OneOwner(row)

\* u is the Owner of something, if only of a World.
HasOwnerRole(row, u) ==
  LET assignment == Effective(row.assigned[u])
  IN  assignment # None /\ assignment.role = "owner"

Resolves(row, role) == role \in CustomRoles => role \in row.defined
-------------------------------------------------------------------------------
(* Requests, snapshots and saves. *)

\* A snapshot of the version before is stale; its save will fail, so what it says is dropped.
Outdated(request) == [request EXCEPT !.seen = NoAccount, !.current = FALSE]

\* The request c reads the row.
Begin(c, step, actor, lost, asked) ==
  /\ call[c].step = "idle"
  /\ call' = [call EXCEPT ![c] =
       [step |-> step, actor |-> actor, lost |-> lost, asked |-> asked, code |-> None,
        seen |-> account, current |-> TRUE]]
GoTo(c, step) == call' = [call EXCEPT ![c].step = step]
Finish(c) == call' = [call EXCEPT ![c] = Idle]

\* The request c saves its row if its snapshot is current, and ends.
Save(c, row) ==
  /\ call[c].current
  /\ account' = row
  /\ call' = [k \in Calls |-> IF k = c THEN Idle ELSE Outdated(call[k])]

\* A request is refused, finds its snapshot stale when it saves, or stops.
CallEnds(c) ==
  /\ call[c].step # "idle"
  /\ Finish(c)
  /\ UNCHANGED <<account, elsewhere, identities>>

-------------------------------------------------------------------------------
(* Roles.  These requests ask for their permission before they read what they change. *)

AuthorizeRoles(c, u) ==
  /\ call[c].step = "idle"
  /\ Permits(account, u, "manage_roles")
  /\ call' = [call EXCEPT ![c] = [Idle EXCEPT !.step = "authorized", !.actor = u]]
  /\ UNCHANGED <<account, elsewhere, identities>>

ReadForRoles(c) ==
  /\ call[c].step = "authorized"
  /\ call' = [call EXCEPT ![c] = [@ EXCEPT !.step = "roles", !.seen = account, !.current = TRUE]]
  /\ UNCHANGED <<account, elsewhere, identities>>

CreateCustomRole(c, role, grants) ==
  /\ call[c].step = "roles"
  /\ role \notin call[c].seen.defined
  /\ Save(c, [call[c].seen EXCEPT !.defined = @ \cup {role}, !.grants[role] = grants])
  /\ UNCHANGED <<elsewhere, identities>>

\* Mutant: the Role is not looked up in the account.
AssignUnresolved(c, u, assignment) ==
  LET row == call[c].seen
  IN  /\ call[c].step = "roles"
      /\ u \in row.members
      /\ PreservesOwner(row, u, assignment)
      /\ Save(c, [row EXCEPT !.assigned[u] = <<assignment>>])
      /\ UNCHANGED <<elsewhere, identities>>
\* assign_custom_role and assign_predefined_role
AssignRole(c, u, assignment) ==
  LET row == call[c].seen
  IN  /\ call[c].step = "roles"
      /\ u \in row.members
      /\ Resolves(row, assignment.role)
      /\ PreservesOwner(row, u, assignment)
      /\ Save(c, [row EXCEPT !.assigned[u] = <<assignment>>])
      /\ UNCHANGED <<elsewhere, identities>>

\* Mutant: only the assignment that counts is taken away.
RemoveOneAssignment(c, u) ==
  LET row == call[c].seen
  IN  /\ call[c].step = "roles"
      /\ u \in row.members /\ row.assigned[u] # <<>>
      /\ PreservesOwner(row, u, None)
      /\ Save(c, [row EXCEPT !.assigned[u] = SubSeq(@, 1, Len(@) - 1)])
      /\ UNCHANGED <<elsewhere, identities>>
\* The Role that counts is taken away, and the assignments it hid with it.
RemoveRoleAssignment(c, u) ==
  LET row == call[c].seen
  IN  /\ call[c].step = "roles"
      /\ u \in row.members /\ row.assigned[u] # <<>>
      /\ PreservesOwner(row, u, None)
      /\ Save(c, [row EXCEPT !.assigned[u] = <<>>])
      /\ UNCHANGED <<elsewhere, identities>>

-------------------------------------------------------------------------------
(* Memberships, invitations and integrations.  These requests read what they change before *)
(* they ask for their permission. *)

ReadAccount(c, u) ==
  /\ Begin(c, "read", u, None, None)
  /\ UNCHANGED <<account, elsewhere, identities>>

\* Mutant: every member may, as for the lists of members and roles.
AuthorizeMembers(c, step, next, permission) ==
  /\ call[c].step = step
  /\ call[c].actor \in account.members
  /\ GoTo(c, next)
  /\ UNCHANGED <<account, elsewhere, identities>>
\* The request reads the account again to see whether its User has the permission.
Authorize(c, step, next, permission) ==
  /\ call[c].step = step
  /\ Permits(account, call[c].actor, permission)
  /\ GoTo(c, next)
  /\ UNCHANGED <<account, elsewhere, identities>>

AuthorizeRequest(c) ==
  \/ Authorize(c, "read", "members", "manage_memberships")
  \/ Authorize(c, "members", "console", "manage_roles")
  \/ Authorize(c, "read", "integrations", "manage_integrations")

Invite(c, i, invited, grant) ==
  /\ call[c].seen.invitations[i].status = "absent"
  /\ Save(c, [call[c].seen EXCEPT !.invitations[i] =
                [status |-> "pending", invited |-> invited, grant |-> grant]])
  /\ UNCHANGED <<elsewhere, identities>>

\* A User who is no member is invited to play.
InviteMember(c, i, u) ==
  /\ call[c].step = "members"
  /\ u \notin call[c].seen.members
  /\ Invite(c, i, u, AccountPlayer)

\* A link for whoever opens it; one that opens the console needs both permissions.
CreateInvitationLink(c, i, grant) ==
  /\ call[c].step = IF grant.role = "player" THEN "members" ELSE "console"
  /\ grant.role # "owner"
  /\ Resolves(call[c].seen, grant.role)
  /\ Invite(c, i, None, grant)

ReadInvitation(c, u) ==
  /\ Begin(c, "accepting", u, None, None)
  /\ UNCHANGED <<account, elsewhere, identities>>

\* The invited User becomes a member.
Admit(row, i, u) ==
  [row EXCEPT !.members = @ \cup {u}, !.assigned[u] = <<row.invitations[i].grant>>,
              !.invitations[i].status = "accepted"]
\* Mutant: the invitation stays pending.
AcceptAgain(c, i) ==
  LET row == call[c].seen
      u == call[c].actor
  IN  /\ call[c].step = "accepting"
      /\ row.invitations[i].status = "pending"
      /\ row.invitations[i].invited \in {None, u}
      /\ u \notin row.members
      /\ Save(c, [Admit(row, i, u) EXCEPT !.invitations = row.invitations])
      /\ UNCHANGED <<elsewhere, identities>>
\* accept_invitation, and accept_pending_invitation once it has found which
AcceptInvitation(c, i) ==
  LET row == call[c].seen
      u == call[c].actor
  IN  /\ call[c].step = "accepting"
      /\ row.invitations[i].status = "pending"
      /\ row.invitations[i].invited \in {None, u}
      /\ u \notin row.members
      /\ Save(c, Admit(row, i, u))
      /\ UNCHANGED <<elsewhere, identities>>

\* Mutant: the row of the membership goes, its Role stays.
RemoveMemberOnly(c, u) ==
  LET row == call[c].seen
  IN  /\ call[c].step = "members"
      /\ u \in row.members
      /\ ~(HasOwnerRole(row, u) /\ OneOwner(row))
      /\ Save(c, [row EXCEPT !.members = @ \ {u}])
      /\ UNCHANGED <<elsewhere, identities>>
RemoveMembership(c, u) ==
  LET row == call[c].seen
  IN  /\ call[c].step = "members"
      /\ u \in row.members
      /\ ~(HasOwnerRole(row, u) /\ OneOwner(row))
      /\ Save(c, [row EXCEPT !.members = @ \ {u}, !.assigned[u] = <<>>])
      /\ UNCHANGED <<elsewhere, identities>>

\* The channel for notifications is not kept here; its save is.
ConfigureChannel(c) ==
  /\ call[c].step = "integrations"
  /\ Save(c, call[c].seen)
  /\ UNCHANGED <<elsewhere, identities>>

\* configure_discord_guild finds no other account with the Guild.
FindGuild(c, g) ==
  /\ call[c].step = "integrations"
  /\ g \notin elsewhere
  /\ call[c].seen.guild # g
  /\ call' = [call EXCEPT ![c].step = "guild_free", ![c].asked = g]
  /\ UNCHANGED <<account, elsewhere, identities>>

\* Mutant: nothing but the look-up before keeps the Guild unique.
LinkFoundGuild(c) ==
  /\ call[c].step = "guild_free"
  /\ Save(c, [call[c].seen EXCEPT !.guild = call[c].asked])
  /\ UNCHANGED <<elsewhere, identities>>
\* The save fails if another account has the Guild by now.
LinkGuild(c) ==
  /\ call[c].step = "guild_free"
  /\ call[c].asked \notin elsewhere
  /\ Save(c, [call[c].seen EXCEPT !.guild = call[c].asked])
  /\ UNCHANGED <<elsewhere, identities>>

\* Another account is created with the Guild, or linked to it.
LinkElsewhere(g) ==
  /\ g \notin elsewhere \cup {account.guild}
  /\ elsewhere' = elsewhere \cup {g}
  /\ UNCHANGED <<account, identities, call>>

\* Another account is linked to a Guild that is not told apart here.
UnlinkElsewhere(g) ==
  /\ g \in elsewhere
  /\ elsewhere' = elsewhere \ {g}
  /\ UNCHANGED <<account, identities, call>>

-------------------------------------------------------------------------------
(* Signing in, and the recovery of an Owner whose identity is lost. *)

IsLinked(d) == \E u \in Users : <<d, u>> \in links
LinkedToOthers(u) == {l \in links : l[2] # u}
IssuedCodes == spent \cup UNION {codes[u] : u \in Users}

\* sign_in_with_discord finds nobody with the identity.
SignInFindsNobody(c, d) ==
  /\ call[c].step = "idle"
  /\ ~IsLinked(d)
  /\ call' = [call EXCEPT ![c] = [Idle EXCEPT !.step = "unknown", !.asked = d]]
  /\ UNCHANGED <<account, elsewhere, identities>>

\* A new User and its identity, unless somebody has the identity by now.
CreateUser(c, u) ==
  /\ call[c].step = "unknown"
  /\ u \notin users
  /\ ~IsLinked(call[c].asked)
  /\ users' = users \cup {u}
  /\ links' = links \cup {<<call[c].asked, u>>}
  /\ Finish(c)
  /\ UNCHANGED <<account, elsewhere, codes, spent>>

\* enable_owner_recovery finds an Owner.
ReadToEnableRecovery(c, u) ==
  /\ call[c].step = "idle"
  /\ u \in Owners(account)
  /\ call' = [call EXCEPT ![c] = [Idle EXCEPT !.step = "enabling", !.actor = u]]
  /\ UNCHANGED <<account, elsewhere, identities>>

\* Mutant: the codes issued before stay valid.
AddRecoveryCodes(c, new) ==
  /\ call[c].step = "enabling"
  /\ new # {} /\ new \cap IssuedCodes = {}
  /\ codes' = [codes EXCEPT ![call[c].actor] = @ \cup new]
  /\ spent' = spent \cup codes[call[c].actor]
  /\ Finish(c)
  /\ UNCHANGED <<account, elsewhere, users, links>>
\* New codes take the place of those the Owner had.
PutRecoveryCodes(c, new) ==
  /\ call[c].step = "enabling"
  /\ new # {} /\ new \cap IssuedCodes = {}
  /\ codes' = [codes EXCEPT ![call[c].actor] = new]
  /\ spent' = spent \cup codes[call[c].actor]
  /\ Finish(c)
  /\ UNCHANGED <<account, elsewhere, users, links>>

\* The Owner u asks for the identity d with a recovery code.
ReadToRecover(c, u, d) ==
  /\ u \in Owners(account)
  /\ Begin(c, "recovering", u, u, d)
  /\ UNCHANGED <<account, elsewhere, identities>>

\* The code is deleted in the transaction that accepts it.
ConsumeCode(c, k) ==
  LET u == call[c].lost
  IN  /\ call[c].step = "recovering"
      /\ k \in codes[u]
      /\ codes' = [codes EXCEPT ![u] = @ \ {k}]
      /\ spent' = spent \cup {k}
      /\ call' = [call EXCEPT ![c].step = "entitled", ![c].code = k]
      /\ UNCHANGED <<account, elsewhere, users, links>>

\* Another Owner confirms the identity d for the Owner u.
ReadToRecoverCoOwner(c, actor, u, d) ==
  /\ actor # u /\ {actor, u} \subseteq Owners(account)
  /\ Begin(c, "entitled", actor, u, d)
  /\ UNCHANGED <<account, elsewhere, identities>>

\* Mutant: the transaction is not rolled back when the identity is taken.
ReplaceIdentityPartly(c) ==
  LET u == call[c].lost
      others == LinkedToOthers(u)
  IN  /\ call[c].step = "entitled"
      /\ links' = IF \E l \in others : l[1] = call[c].asked THEN others
                  ELSE others \cup {<<call[c].asked, u>>}
      /\ GoTo(c, "replaced")
      /\ UNCHANGED <<account, elsewhere, users, codes, spent>>
\* The Owner's identity is deleted and the new one inserted, unless somebody else has it.
ReplaceIdentity(c) ==
  LET u == call[c].lost
      others == LinkedToOthers(u)
  IN  /\ call[c].step = "entitled"
      /\ ~\E l \in others : l[1] = call[c].asked
      /\ links' = others \cup {<<call[c].asked, u>>}
      /\ GoTo(c, "replaced")
      /\ UNCHANGED <<account, elsewhere, users, codes, spent>>

\* The activity event of the recovery is saved with the row as it was read.
RecordRecovery(c) ==
  /\ call[c].step = "replaced"
  /\ Save(c, call[c].seen)
  /\ UNCHANGED <<elsewhere, identities>>

-------------------------------------------------------------------------------
(* The specification. *)

\* The account as it was created by one User, or as the additive model left it.
Init ==
  /\ users = {l[2] : l \in FirstLinks}
  /\ links = FirstLinks
  /\ codes = [u \in Users |-> {}]
  /\ spent = {}
  /\ elsewhere = {}
  /\ call = [c \in Calls |-> Idle]
  /\ \E founder \in users, others \in SUBSET users, g \in Guilds \cup {None} :
       \E legacy \in [others -> Legacy] :
         account = [NoAccount EXCEPT
           !.members = {founder} \cup others,
           !.assigned = [u \in Users |-> IF u = founder THEN <<AccountOwner>>
                                         ELSE IF u \in others THEN legacy[u] ELSE <<>>],
           !.guild = g]

RolesNext(c) ==
  \/ \E u \in users : AuthorizeRoles(c, u)
  \/ ReadForRoles(c)
  \/ \E r \in CustomRoles, grants \in RoleGrants : CreateCustomRole(c, r, grants)
  \/ \E u \in users, role \in Asked, wide \in BOOLEAN :
       AssignRole(c, u, [role |-> role, wide |-> wide])
  \/ \E u \in users : RemoveRoleAssignment(c, u)

MembersNext(c) ==
  \/ \E u \in users : ReadAccount(c, u)
  \/ AuthorizeRequest(c)
  \/ \E i \in Invitations, u \in users : InviteMember(c, i, u)
  \/ \E i \in Invitations, role \in Asked, wide \in BOOLEAN :
       CreateInvitationLink(c, i, [role |-> role, wide |-> wide])
  \/ \E u \in users : ReadInvitation(c, u)
  \/ \E i \in Invitations : AcceptInvitation(c, i)
  \/ \E u \in users : RemoveMembership(c, u)

IntegrationsNext(c) ==
  \/ ConfigureChannel(c)
  \/ \E g \in Guilds : FindGuild(c, g)
  \/ LinkGuild(c)

IdentitiesNext(c) ==
  \/ \E d \in DiscordIds : SignInFindsNobody(c, d)
  \/ \E u \in Users : CreateUser(c, u)
  \/ \E u \in users : ReadToEnableRecovery(c, u)
  \/ \E new \in SUBSET Codes : PutRecoveryCodes(c, new)
  \/ \E u \in users, d \in DiscordIds : ReadToRecover(c, u, d)
  \/ \E k \in Codes : ConsumeCode(c, k)
  \/ \E actor, u \in users, d \in DiscordIds : ReadToRecoverCoOwner(c, actor, u, d)
  \/ ReplaceIdentity(c)
  \/ RecordRecovery(c)

Next ==
  \/ \E c \in Calls :
       RolesNext(c) \/ MembersNext(c) \/ IntegrationsNext(c) \/ IdentitiesNext(c) \/ CallEnds(c)
  \/ \E g \in Guilds : LinkElsewhere(g) \/ UnlinkElsewhere(g)

Spec == Init /\ [][Next]_vars

-------------------------------------------------------------------------------
(* Properties. *)

\* Every row and request keeps values the code can store; who is no member has no Role.
TypeOK ==
  /\ account \in Account
  /\ \A u \in Users \ account.members : account.assigned[u] = <<>>
  /\ elsewhere \subseteq Guilds
  /\ users \subseteq Users
  /\ links \subseteq DiscordIds \X Users
  /\ codes \in [Users -> SUBSET Codes]
  /\ spent \subseteq Codes
  /\ call \in [Calls -> Call]

\* The account has an Owner, whatever overlapping requests demote, replace and remove
\* (LastOwnerRemovalError, and "an account must retain at least one Owner").
AccountKeepsAnOwner == Owners(account) # {}

\* A Custom Role that a membership or an invitation names is defined: permissions_for, which
\* every other service asks, would raise for its member otherwise.
CustomRolesResolve ==
  /\ \A u \in account.members : \A i \in DOMAIN account.assigned[u] :
       Resolves(account, account.assigned[u][i].role)
  /\ \A i \in Invitations : Resolves(account, account.invitations[i].grant.role)

\* A Guild is linked to one account, though it is looked up before it is saved.
GuildNamesOneAccount == account.guild \notin elsewhere

\* A User has one identity from the sign-in that created it on, through recoveries, and an
\* identity is of one User, whoever signs in with it or recovers with it at the same time.
IdentitiesNameUsers ==
  /\ \A u \in users : \E d \in DiscordIds : {l \in links : l[2] = u} = {<<d, u>>}
  /\ \A k, l \in links : k[1] = l[1] => k = l
  /\ \A l \in links : l[2] \in users

\* The request c changes the account in this step.
Changes(c) == call[c].step # "idle" /\ call'[c] = Idle /\ account' # account

\* A request that changes memberships, invitations or integrations had its permission in the
\* very version it replaces, also when it was granted or revoked while the request ran.
ChangesAreAuthorized ==
  [][\A c \in Calls : Changes(c) =>
       LET permitted(permission) == Permits(account, call[c].actor, permission)
       IN  /\ call[c].step \in {"members", "console"} => permitted("manage_memberships")
           /\ call[c].step = "console" => permitted("manage_roles")
           /\ call[c].step = "guild_free" => permitted("manage_integrations")]_vars

\* Who becomes a member does so by an invitation that was pending, for anyone or for that
\* User, that can admit nobody else any more, and with the Role it grants and no other.
AdmissionsUseUpInvitations ==
  [][\A u \in account'.members \ account.members : \E i \in Invitations :
       /\ account.invitations[i].status = "pending"
       /\ account.invitations[i].invited \in {None, u}
       /\ account'.invitations[i].status = "accepted"
       /\ account'.assigned[u] = <<account.invitations[i].grant>>]_vars

\* A change of a member's Role leaves the Role asked for or none: no older assignment of the
\* additive model comes back (ADR 0026).
OlderGrantsStayGone ==
  [][\A u \in Users : account'.assigned[u] # account.assigned[u] =>
       Len(account'.assigned[u]) <= 1]_vars

\* A recovery begins with a code that was never accepted before, and not with one that its
\* Owner has replaced.
CodesAreUsedOnce ==
  [][\A c \in Calls : call[c].step = "recovering" /\ call'[c].step = "entitled" =>
       call'[c].code \notin spent]_vars

===============================================================================
