---------------------------- MODULE AccountsProofs ----------------------------
(***************************************************************************)
(* Proofs about Accounts, for any number of Users, Roles, invitations,     *)
(* identities and overlapping requests: an account keeps an Owner, its     *)
(* Roles are defined, identities and Guilds are unique, and changes have   *)
(* the permissions and invitations they need.                              *)
(***************************************************************************)
EXTENDS Accounts, TLAPS

-------------------------------------------------------------------------------
(* The inductive invariant. *)

\* What a request keeps between its steps.  A snapshot that is current is the row itself, and
\* a permission it was given is one that its User still has.
RequestOK(r) ==
  /\ r.step \in WithSnapshot \cup {"authorized", "enabling"} => r.actor \in users
  /\ r.step \in {"recovering", "entitled", "replaced"} => r.lost \in users
  /\ r.step \in {"unknown", "recovering", "entitled"} => r.asked \in DiscordIds
  /\ r.step = "guild_free" => r.asked \in Guilds
  /\ r.current =>
       /\ r.step \in WithSnapshot
       /\ r.seen = account
       /\ r.step \in {"members", "console"} => Permits(account, r.actor, "manage_memberships")
       /\ r.step = "console" => Permits(account, r.actor, "manage_roles")
       /\ r.step \in {"integrations", "guild_free"} =>
            Permits(account, r.actor, "manage_integrations")
RequestsOK == \A c \in Calls : RequestOK(call[c])

\* A recovery code was issued to one Owner, and is not spent while it is valid.
CodesAreDistinct ==
  \A u \in Users : codes[u] \cap spent = {} /\ \A w \in Users \ {u} : codes[u] \cap codes[w] = {}

\* Who is no member has no Role.
RolesAreOfMembers == \A u \in Users \ account.members : account.assigned[u] = <<>>

AccountInv ==
  /\ account \in Account /\ RolesAreOfMembers
  /\ AccountKeepsAnOwner /\ CustomRolesResolve
GuildInv == elsewhere \subseteq Guilds /\ GuildNamesOneAccount
IdentityInv ==
  /\ users \subseteq Users /\ links \subseteq DiscordIds \X Users /\ IdentitiesNameUsers
CodeInv == codes \in [Users -> SUBSET Codes] /\ spent \subseteq Codes /\ CodesAreDistinct
RequestInv == call \in [Calls -> Call] /\ RequestsOK

IInv == AccountInv /\ GuildInv /\ IdentityInv /\ CodeInv /\ RequestInv

-------------------------------------------------------------------------------
(* Lemmas about the policy. *)

\* Of a single assignment it is the one that counts; of none, none does.
LEMMA EffectiveOfAtMostOne ==
  /\ \A a \in Assignment : Effective(<<a>>) = a
  /\ Effective(<<>>) = None
<1>1. ASSUME NEW a \in Assignment PROVE Effective(<<a>>) = a
  <2>1. DOMAIN <<a>> = {1} /\ <<a>>[1] = a /\ Len(<<a>>) = 1 /\ <<a>> # <<>>
    OBVIOUS
  <2> QED BY <2>1 DEF Effective
<1>2. Effective(<<>>) = None
  BY DEF Effective
<1> QED BY <1>1, <1>2

\* The ownership of the account is an assignment, the Role of a player too, and none is None.
LEMMA OwnershipIsAssignment ==
  AccountOwner \in Assignment /\ AccountPlayer \in Assignment /\ AccountOwner # None
<1>1. AccountOwner \in Assignment /\ AccountPlayer \in Assignment
  BY DEF AccountOwner, AccountPlayer, Assignment, PredefinedRoles
<1> QED BY <1>1, RolesAssumption

\* A row whose Role of one User is replaced, by one of its own or by none.
Assignments == Seq(Assignment)
WithRole(row, u, s) == [row EXCEPT !.assigned[u] = s]
LEMMA RolesAreTyped ==
  ASSUME NEW row \in Account, NEW u \in Users, NEW s \in Assignments,
         NEW new, new = WithRole(row, u, s)
  PROVE  /\ new \in Account /\ new.members = row.members /\ new.defined = row.defined
         /\ new.invitations = row.invitations /\ new.guild = row.guild
         /\ new.assigned = [row.assigned EXCEPT ![u] = s] /\ new.assigned[u] = s
         /\ \A w \in Users \ {u} : new.assigned[w] = row.assigned[w]
<1>1. row.assigned \in [Users -> Seq(Assignment)]
  BY DEF Account
<1>2. [row.assigned EXCEPT ![u] = s] \in [Users -> Seq(Assignment)]
  BY <1>1 DEF Assignments
<1> QED BY <1>1, <1>2 DEF Account, WithRole

\* Sequences of at most one assignment.
LEMMA ShortSequences == <<>> \in Assignments /\ \A a \in Assignment : <<a>> \in Assignments
BY DEF Assignments

\* A row whose other members and Roles stay keeps an Owner if the one that changes is not the
\* last, or becomes an Owner.
LEMMA AnotherOwnerStays ==
  ASSUME NEW row \in Account, NEW new \in Account, NEW u \in Users,
         Owners(row) # {},
         \A w \in Users \ {u} : w \in row.members =>
           w \in new.members /\ new.assigned[w] = row.assigned[w],
         u \notin Owners(row) \/ ~OneOwner(row) \/ u \in Owners(new)
  PROVE  Owners(new) # {}
<1>1. \A w \in Owners(row) : w # u => w \in Owners(new)
  BY DEF Owners, Account
<1>2. Owners(row) \subseteq Users
  BY DEF Owners, Account
<1>3. CASE u \in Owners(new)
  BY <1>3
<1>4. CASE u \notin Owners(row)
  BY <1>1, <1>4
<1>5. CASE u \in Owners(row) /\ ~OneOwner(row)
  <2>1. Owners(row) # {u}
    BY <1>5 DEF OneOwner
  <2>2. PICK w \in Owners(row) : w # u
    BY <1>5, <2>1
  <2> QED BY <1>1, <2>2
<1> QED BY <1>3, <1>4, <1>5

-------------------------------------------------------------------------------
(* How a step changes the requests. *)

\* One request moves and the row of the account stays.
LEMMA OneRequestMoves ==
  ASSUME IInv, NEW c \in Calls, NEW r \in Call, call' = [call EXCEPT ![c] = r],
         account' = account, users \subseteq users', RequestOK(r)
  PROVE  RequestInv'
<1>1. call' \in [Calls -> Call]
  BY DEF IInv, RequestInv
<1>2. ASSUME NEW k \in Calls PROVE RequestOK(call[k])'
  <2>1. RequestOK(call'[k])
    BY DEF IInv, RequestInv, RequestsOK
  <2> QED BY <2>1 DEF RequestOK, Permits
<1> QED BY <1>1, <1>2 DEF RequestInv, RequestsOK

\* A slot without a request needs nothing.
LEMMA IdleIsOK == Idle \in Call /\ RequestOK(Idle)
<1>1. NoAccount \in Account
  BY OwnershipIsAssignment DEF NoAccount, Account, Invitation
<1> QED BY <1>1 DEF Idle, Call, RequestOK, WithSnapshot

\* The request ends, and the row of the account stays.
LEMMA RequestEnds ==
  ASSUME IInv, NEW c \in Calls, Finish(c), account' = account, users \subseteq users'
  PROVE  RequestInv'
BY IdleIsOK, OneRequestMoves DEF Finish

\* A request that has read the row, and was given no permission yet.
LEMMA RequestBegins ==
  ASSUME IInv, NEW c \in Calls, NEW step \in {"read", "accepting", "recovering", "entitled"},
         NEW actor \in users, NEW lost \in users \cup {None},
         NEW asked \in DiscordIds \cup {None}, Begin(c, step, actor, lost, asked),
         step \in {"recovering", "entitled"} => lost \in users /\ asked \in DiscordIds,
         UNCHANGED <<account, elsewhere, identities>>
  PROVE  IInv'
<1> DEFINE r == [step |-> step, actor |-> actor, lost |-> lost, asked |-> asked, code |-> None,
                 seen |-> account, current |-> TRUE]
<1>1. r \in Call
  BY DEF IInv, AccountInv, IdentityInv, Call, WithSnapshot
<1>2. RequestOK(r)
  BY DEF RequestOK, WithSnapshot
<1>3. call' = [call EXCEPT ![c] = r]
  BY DEF Begin
<1> HIDE DEF r
<1>4. RequestInv'
  BY <1>1, <1>2, <1>3, OneRequestMoves DEF identities
<1> QED BY <1>4 DEF IInv, AccountInv, GuildInv, IdentityInv, CodeInv, identities,
          RolesAreOfMembers, AccountKeepsAnOwner, CustomRolesResolve, GuildNamesOneAccount,
          IdentitiesNameUsers, CodesAreDistinct

\* The save replaces the row that the request has seen, and makes every other snapshot stale.
LEMMA RequestSaves ==
  ASSUME IInv, NEW c \in Calls, NEW row, Save(c, row), users' = users
  PROVE  /\ account' = row /\ call[c].seen = account /\ RequestInv'
         /\ call[c].step \in WithSnapshot
<1>1. call[c].seen = account /\ account' = row /\ call[c].step \in WithSnapshot
  BY DEF IInv, RequestInv, RequestsOK, RequestOK, Save
<1>2. \A k \in Calls : Outdated(call[k]) \in Call /\ Idle \in Call
  BY IdleIsOK DEF IInv, RequestInv, Outdated, Call, Idle
<1>3. call' \in [Calls -> Call]
  BY <1>2 DEF Save
<1>4. ASSUME NEW k \in Calls PROVE RequestOK(call[k])'
  <2>1. CASE k = c
    BY <2>1 DEF Save, RequestOK, Idle, WithSnapshot
  <2>2. CASE k # c
    <3>1. call'[k] = Outdated(call[k])
      BY <2>2 DEF Save
    <3>2. call[k] \in Call /\ RequestOK(call[k])
      BY DEF IInv, RequestInv, RequestsOK
    <3>3. /\ call'[k].step = call[k].step /\ call'[k].actor = call[k].actor
          /\ call'[k].lost = call[k].lost /\ call'[k].asked = call[k].asked
          /\ call'[k].current = FALSE
      BY <3>1, <3>2 DEF Outdated, Call
    <3> QED BY <3>2, <3>3 DEF RequestOK
  <2> QED BY <2>1, <2>2
<1> QED BY <1>1, <1>3, <1>4 DEF RequestInv, RequestsOK

\* What a row saved by a request has to keep for the account.
RowIsSound(row) ==
  /\ row \in Account
  /\ \A u \in Users \ row.members : row.assigned[u] = <<>>
  /\ Owners(row) # {}
  /\ \A u \in row.members : \A i \in DOMAIN row.assigned[u] :
       Resolves(row, row.assigned[u][i].role)
  /\ \A i \in Invitations : Resolves(row, row.invitations[i].grant.role)

\* The row of the account is sound.
LEMMA TheRowIsSound == ASSUME IInv PROVE RowIsSound(account)
BY DEF IInv, AccountInv, RolesAreOfMembers, AccountKeepsAnOwner, CustomRolesResolve, RowIsSound

\* The save of a sound row with the Guild as it was, and nothing else, keeps the invariant.
LEMMA SoundRowIsSaved ==
  ASSUME IInv, NEW c \in Calls, NEW row, Save(c, row), RowIsSound(row),
         row.guild \notin elsewhere, UNCHANGED <<elsewhere, identities>>
  PROVE  IInv'
<1>1. account' = row /\ RequestInv'
  BY RequestSaves DEF identities
<1>2. AccountInv'
  BY <1>1 DEF AccountInv, RolesAreOfMembers, AccountKeepsAnOwner, CustomRolesResolve, RowIsSound
<1>3. GuildInv'
  BY <1>1 DEF IInv, GuildInv, GuildNamesOneAccount
<1> QED BY <1>1, <1>2, <1>3 DEF IInv, IdentityInv, CodeInv, identities,
          IdentitiesNameUsers, CodesAreDistinct

-------------------------------------------------------------------------------
(* The steps that save the row. *)

\* A new Custom Role takes no Role away.
LEMMA CreateCustomRoleStep ==
  ASSUME IInv, NEW c \in Calls, NEW role \in CustomRoles, NEW grants \in RoleGrants,
         CreateCustomRole(c, role, grants)
  PROVE  IInv'
<1> DEFINE row == [account EXCEPT !.defined = @ \cup {role}, !.grants[role] = grants]
<1>1. call[c].seen = account
  BY RequestSaves DEF CreateCustomRole, identities
<1>2. Save(c, row)
  BY <1>1 DEF CreateCustomRole
<1>3. RowIsSound(account)
  BY TheRowIsSound
<1>4. /\ row \in Account /\ row.members = account.members /\ row.assigned = account.assigned
      /\ row.defined = account.defined \cup {role} /\ row.invitations = account.invitations
      /\ row.guild = account.guild
  BY <1>3, RolesAssumption DEF RowIsSound, Account
<1> HIDE DEF row
<1>5. Owners(row) = Owners(account)
  BY <1>4 DEF Owners
<1>6. RowIsSound(row)
  BY <1>3, <1>4, <1>5 DEF RowIsSound, Resolves
<1> QED BY <1>2, <1>4, <1>6, SoundRowIsSaved
      DEF CreateCustomRole, IInv, GuildInv, GuildNamesOneAccount

\* A member's Role is replaced: not the last Owner's, and by a Role that is defined.
LEMMA AssignRoleStep ==
  ASSUME IInv, NEW c \in Calls, NEW u \in users, NEW a \in Assignment, AssignRole(c, u, a)
  PROVE  IInv'
<1> DEFINE row == [account EXCEPT !.assigned[u] = <<a>>]
<1>1. call[c].seen = account
  BY RequestSaves DEF AssignRole, identities
<1>2. /\ Save(c, row) /\ u \in account.members
      /\ Resolves(account, a.role) /\ PreservesOwner(account, u, a)
  BY <1>1 DEF AssignRole
<1>3. RowIsSound(account) /\ u \in Users
  BY TheRowIsSound DEF IInv, IdentityInv
<1>4. /\ row \in Account /\ row.members = account.members /\ row.defined = account.defined
      /\ row.invitations = account.invitations /\ row.guild = account.guild
      /\ row.assigned[u] = <<a>>
      /\ \A w \in Users \ {u} : row.assigned[w] = account.assigned[w]
  <2>1. PICK s : s = <<a>>
    OBVIOUS
  <2>2. s \in Assignments
    BY <2>1, <1>3, ShortSequences
  <2>3. account \in Account /\ row = WithRole(account, u, s)
    BY <2>1, <1>3 DEF RowIsSound, WithRole
  <2> HIDE DEF row
  <2>4. /\ row \in Account /\ row.members = account.members
       /\ row.defined = account.defined
       /\ row.invitations = account.invitations /\ row.guild = account.guild
       /\ row.assigned = [account.assigned EXCEPT ![u] = s]
    BY <1>3, <2>2, <2>3, RolesAreTyped
  <2>5. account.assigned \in [Users -> Assignments]
    BY <2>3 DEF Account, Assignments
  <2>6. row.assigned[u] = s
    BY <1>3, <2>4, <2>5
  <2>7. \A w \in Users \ {u} : row.assigned[w] = account.assigned[w]
    BY <1>3, <2>4, <2>5
  <2> QED BY <2>1, <2>4, <2>6, <2>7
<1> HIDE DEF row
<1>5. a = AccountOwner => u \in Owners(row)
  BY <1>2, <1>4, EffectiveOfAtMostOne DEF Owners
<1>6. Owners(row) # {}
  BY <1>2, <1>3, <1>4, <1>5, AnotherOwnerStays DEF RowIsSound, PreservesOwner
<1>7. \A w \in row.members : \A i \in DOMAIN row.assigned[w] :
        Resolves(row, row.assigned[w][i].role)
  <2>1. DOMAIN <<a>> = {1} /\ <<a>>[1] = a
    OBVIOUS
  <2>2. account.members \subseteq Users
    BY <1>3 DEF RowIsSound, Account
  <2> QED BY <1>2, <1>3, <1>4, <2>1, <2>2 DEF RowIsSound, Resolves
<1>8. RowIsSound(row)
  BY <1>2, <1>3, <1>4, <1>6, <1>7 DEF RowIsSound, Resolves
<1> QED BY <1>2, <1>4, <1>8, SoundRowIsSaved DEF AssignRole, IInv, GuildInv, GuildNamesOneAccount

\* A row in which a member has no Role any longer, and perhaps no membership.
LEMMA RoleTakenAway ==
  ASSUME RowIsSound(account), NEW u \in Users, NEW row \in Account,
         u \notin Owners(account) \/ ~OneOwner(account),
         row.members \in {account.members, account.members \ {u}},
         row.assigned = [account.assigned EXCEPT ![u] = <<>>],
         row.defined = account.defined, row.invitations = account.invitations
  PROVE  RowIsSound(row)
<1>1. /\ row.assigned[u] = <<>>
      /\ \A w \in Users \ {u} : row.assigned[w] = account.assigned[w]
      /\ account.members \subseteq Users
  BY DEF RowIsSound, Account
<1>2. Owners(row) # {}
  BY <1>1, AnotherOwnerStays DEF RowIsSound
<1>3. DOMAIN <<>> = {}
  OBVIOUS
<1> QED BY <1>1, <1>2, <1>3 DEF RowIsSound, Resolves

\* A Role is taken away, not from the last Owner.
LEMMA RemoveRoleAssignmentStep ==
  ASSUME IInv, NEW c \in Calls, NEW u \in users, RemoveRoleAssignment(c, u)
  PROVE  IInv'
<1> DEFINE row == [account EXCEPT !.assigned[u] = <<>>]
<1>1. call[c].seen = account
  BY RequestSaves DEF RemoveRoleAssignment, identities
<1>2. Save(c, row) /\ PreservesOwner(account, u, None)
  BY <1>1 DEF RemoveRoleAssignment
<1>3. RowIsSound(account) /\ u \in Users
  BY TheRowIsSound DEF IInv, IdentityInv
<1>4. /\ row \in Account /\ row.members = account.members /\ row.defined = account.defined
      /\ row.invitations = account.invitations /\ row.guild = account.guild
      /\ row.assigned = [account.assigned EXCEPT ![u] = <<>>]
  <2>1. account \in Account /\ row = WithRole(account, u, <<>>)
    BY <1>3 DEF RowIsSound, WithRole
  <2>2. <<>> \in Assignments
    BY <1>3, ShortSequences
  <2> HIDE DEF row
  <2> QED BY <1>3, <2>1, <2>2, RolesAreTyped
<1> HIDE DEF row
<1>5. RowIsSound(row)
  BY <1>2, <1>3, <1>4, RoleTakenAway, OwnershipIsAssignment DEF PreservesOwner
<1> QED BY <1>2, <1>4, <1>5, SoundRowIsSaved
      DEF RemoveRoleAssignment, IInv, GuildInv, GuildNamesOneAccount

\* A membership is removed with its Role, not that of the last Owner.
LEMMA RemoveMembershipStep ==
  ASSUME IInv, NEW c \in Calls, NEW u \in users, RemoveMembership(c, u)
  PROVE  IInv'
<1> DEFINE row == [account EXCEPT !.members = @ \ {u}, !.assigned[u] = <<>>]
<1>1. call[c].seen = account
  BY RequestSaves DEF RemoveMembership, identities
<1>2. Save(c, row) /\ ~(HasOwnerRole(account, u) /\ OneOwner(account))
  BY <1>1 DEF RemoveMembership
<1>3. RowIsSound(account) /\ u \in Users
  BY TheRowIsSound DEF IInv, IdentityInv
<1> DEFINE roles == [account EXCEPT !.assigned[u] = <<>>]
<1>4. /\ row \in Account /\ row.members = account.members \ {u}
      /\ row.defined = account.defined
      /\ row.invitations = account.invitations /\ row.guild = account.guild
      /\ row.assigned = [account.assigned EXCEPT ![u] = <<>>]
  <2>1. /\ roles \in Account /\ roles.members = account.members
        /\ roles.defined = account.defined
        /\ roles.invitations = account.invitations /\ roles.guild = account.guild
        /\ roles.assigned = [account.assigned EXCEPT ![u] = <<>>]
    <3>1. account \in Account /\ roles = WithRole(account, u, <<>>)
      BY <1>3 DEF RowIsSound, WithRole
    <3>2. <<>> \in Assignments
      BY <1>3, ShortSequences
    <3> HIDE DEF roles
    <3> QED BY <1>3, <3>1, <3>2, RolesAreTyped
  <2>2. row = [roles EXCEPT !.members = account.members \ {u}]
    BY <1>3 DEF RowIsSound, Account
  <2> HIDE DEF row, roles
  <2> QED BY <2>1, <2>2 DEF Account
<1> HIDE DEF row
<1>5. u \notin Owners(account) \/ ~OneOwner(account)
  BY <1>2, OwnershipIsAssignment DEF Owners, HasOwnerRole, AccountOwner
<1>6. RowIsSound(row)
  BY <1>3, <1>4, <1>5, RoleTakenAway
<1> QED BY <1>2, <1>4, <1>6, SoundRowIsSaved
      DEF RemoveMembership, IInv, GuildInv, GuildNamesOneAccount

\* An invitation is added, to a Role that is defined.
LEMMA InviteStep ==
  ASSUME IInv, NEW c \in Calls, NEW i \in Invitations, NEW invited \in users \cup {None},
         NEW grant \in Assignment, Resolves(call[c].seen, grant.role),
         Invite(c, i, invited, grant)
  PROVE  IInv'
<1> DEFINE new == [status |-> "pending", invited |-> invited, grant |-> grant]
           row == [account EXCEPT !.invitations[i] = new]
<1>1. call[c].seen = account
  BY RequestSaves DEF Invite, identities
<1>2. Save(c, row) /\ Resolves(account, grant.role)
  BY <1>1 DEF Invite
<1>3. RowIsSound(account) /\ users \subseteq Users
  BY TheRowIsSound DEF IInv, IdentityInv
<1>4. new \in Invitation /\ new.grant = grant
  BY <1>3 DEF Invitation
<1> HIDE DEF new
<1>5. /\ row \in Account /\ row.members = account.members /\ row.assigned = account.assigned
      /\ row.defined = account.defined /\ row.guild = account.guild
      /\ row.invitations[i].grant = grant
      /\ \A j \in Invitations : j # i => row.invitations[j] = account.invitations[j]
  BY <1>3, <1>4 DEF RowIsSound, Account
<1> HIDE DEF row
<1>6. Owners(row) = Owners(account)
  BY <1>5 DEF Owners
<1>7. RowIsSound(row)
  BY <1>2, <1>3, <1>5, <1>6 DEF RowIsSound, Resolves
<1> QED BY <1>2, <1>5, <1>7, SoundRowIsSaved DEF Invite, IInv, GuildInv, GuildNamesOneAccount

\* The Users and the Role that an invitation names are ones the code can store.
LEMMA InvitationsAreTyped ==
  ASSUME IInv, NEW i \in Invitations
  PROVE  account.invitations[i] \in Invitation
BY DEF IInv, AccountInv, Account

\* Somebody becomes a member, with the Role of an invitation.
LEMMA AcceptInvitationStep ==
  ASSUME IInv, NEW c \in Calls, NEW i \in Invitations, AcceptInvitation(c, i)
  PROVE  /\ IInv'
         /\ account' = Admit(account, i, call[c].actor)
         /\ account.invitations[i].status = "pending"
         /\ account.invitations[i].invited \in {None, call[c].actor}
         /\ call[c].actor \in Users
<1> DEFINE u == call[c].actor
           grant == account.invitations[i].grant
           row == Admit(account, i, u)
<1>2. call[c].seen = account
  BY RequestSaves DEF AcceptInvitation, identities
<1>3. /\ Save(c, row) /\ u \notin account.members
      /\ account.invitations[i].status = "pending"
      /\ account.invitations[i].invited \in {None, u}
  BY <1>2 DEF AcceptInvitation
<1>4. RowIsSound(account) /\ u \in users /\ u \in Users
  BY TheRowIsSound DEF IInv, IdentityInv, RequestInv, RequestsOK, RequestOK, AcceptInvitation,
     WithSnapshot
<1>5. account.invitations[i] \in Invitation /\ grant \in Assignment
  BY InvitationsAreTyped DEF Invitation
<1>6. [account.invitations[i] EXCEPT !.status = "accepted"] \in Invitation
  BY <1>5 DEF Invitation
<1>7. /\ row \in Account /\ row.members = account.members \cup {u}
      /\ row.defined = account.defined /\ row.guild = account.guild
      /\ row.assigned[u] = <<grant>>
      /\ \A w \in Users \ {u} : row.assigned[w] = account.assigned[w]
      /\ row.invitations[i].grant = grant
      /\ \A j \in Invitations : j # i => row.invitations[j] = account.invitations[j]
  <2> DEFINE roles == [account EXCEPT !.assigned[u] = <<grant>>]
             used == [account.invitations[i] EXCEPT !.status = "accepted"]
  <2>1. /\ roles \in Account /\ roles.members = account.members
        /\ roles.defined = account.defined
        /\ roles.invitations = account.invitations /\ roles.guild = account.guild
        /\ roles.assigned[u] = <<grant>>
        /\ \A w \in Users \ {u} : roles.assigned[w] = account.assigned[w]
    <3>1. PICK s : s = <<grant>>
      OBVIOUS
    <3>2. s \in Assignments
      BY <3>1, <1>4, <1>5, ShortSequences
    <3>3. account \in Account /\ roles = WithRole(account, u, s)
      BY <3>1, <1>4, <1>5 DEF RowIsSound, WithRole
    <3> HIDE DEF roles, grant, u
    <3>4. /\ roles \in Account /\ roles.members = account.members
         /\ roles.defined = account.defined
         /\ roles.invitations = account.invitations /\ roles.guild = account.guild
         /\ roles.assigned = [account.assigned EXCEPT ![u] = s]
      BY <1>4, <1>5, <3>2, <3>3, RolesAreTyped
    <3>5. account.assigned \in [Users -> Assignments]
      BY <3>3 DEF Account, Assignments
    <3>6. roles.assigned[u] = s
      BY <1>4, <1>5, <3>4, <3>5
    <3>7. \A w \in Users \ {u} : roles.assigned[w] = account.assigned[w]
      BY <1>4, <1>5, <3>4, <3>5
    <3> QED BY <3>1, <3>4, <3>6, <3>7
  <2>2. row = [roles EXCEPT !.members = account.members \cup {u}, !.invitations[i] = used]
    BY <1>4 DEF RowIsSound, Account, Admit
  <2>3. used \in Invitation /\ used.grant = grant
    BY <1>5, <1>6 DEF Invitation
  <2> HIDE DEF row, roles, used, grant, u
  <2> QED BY <1>4, <2>1, <2>2, <2>3 DEF Account
<1> HIDE DEF row, u
<1>8. Owners(row) # {}
  BY <1>3, <1>4, <1>7, AnotherOwnerStays DEF RowIsSound, Owners
<1>9. \A w \in row.members : \A j \in DOMAIN row.assigned[w] :
        Resolves(row, row.assigned[w][j].role)
  <2>1. DOMAIN <<grant>> = {1} /\ <<grant>>[1] = grant
    OBVIOUS
  <2>2. account.members \subseteq Users
    BY <1>4 DEF RowIsSound, Account
  <2> HIDE DEF grant
  <2>3. Resolves(account, grant.role)
    BY <1>4 DEF RowIsSound, grant
  <2> QED BY <1>4, <1>7, <2>1, <2>2, <2>3 DEF RowIsSound, Resolves
<1>10. RowIsSound(row)
  BY <1>4, <1>7, <1>8, <1>9 DEF RowIsSound, Resolves
<1>11. IInv'
  BY <1>3, <1>7, <1>10, SoundRowIsSaved DEF AcceptInvitation, IInv, GuildInv, GuildNamesOneAccount
<1>12. account' = row
  BY <1>3 DEF Save
<1> QED BY <1>3, <1>4, <1>11, <1>12 DEF row, u

\* The Guild that a request saves is linked to no other account.
LEMMA LinkGuildStep ==
  ASSUME IInv, NEW c \in Calls, LinkGuild(c)
  PROVE  IInv'
<1> DEFINE g == call[c].asked
           row == [account EXCEPT !.guild = g]
<1>1. call[c].seen = account
  BY RequestSaves DEF LinkGuild, identities
<1>2. Save(c, row) /\ g \notin elsewhere
  BY <1>1 DEF LinkGuild
<1>3. RowIsSound(account) /\ g \in Guilds
  BY TheRowIsSound DEF IInv, RequestInv, RequestsOK, RequestOK, LinkGuild
<1>4. /\ row \in Account /\ row.members = account.members /\ row.assigned = account.assigned
      /\ row.defined = account.defined /\ row.invitations = account.invitations
      /\ row.guild = g
  BY <1>3 DEF RowIsSound, Account
<1> HIDE DEF row, g
<1>5. Owners(row) = Owners(account)
  BY <1>4 DEF Owners
<1>6. RowIsSound(row)
  BY <1>3, <1>4, <1>5 DEF RowIsSound, Resolves
<1> QED BY <1>2, <1>4, <1>6, SoundRowIsSaved DEF LinkGuild

\* A save of the row as it was read.
LEMMA UnchangedRowStep ==
  ASSUME IInv, NEW c \in Calls, ConfigureChannel(c) \/ RecordRecovery(c)
  PROVE  IInv' /\ account' = account
<1>1. Save(c, account) /\ UNCHANGED <<elsewhere, identities>>
  BY RequestSaves DEF ConfigureChannel, RecordRecovery, identities
<1>2. IInv'
  BY <1>1, TheRowIsSound, SoundRowIsSaved DEF IInv, GuildInv, GuildNamesOneAccount
<1> QED BY <1>1, <1>2 DEF Save

-------------------------------------------------------------------------------
(* The steps that leave the row of the account. *)

\* What depends on the rows only, and not on the requests.
RowsInv == AccountInv /\ GuildInv /\ IdentityInv /\ CodeInv

\* The rows stay as they are.
LEMMA RowsStay ==
  ASSUME IInv, UNCHANGED <<account, elsewhere, identities>>
  PROVE  RowsInv'
BY DEF IInv, RowsInv, AccountInv, GuildInv, IdentityInv, CodeInv, identities, RolesAreOfMembers,
   AccountKeepsAnOwner, CustomRolesResolve, GuildNamesOneAccount, IdentitiesNameUsers,
   CodesAreDistinct

\* A request moves to another step, and the rows stay.
LEMMA RequestMoves ==
  ASSUME IInv, NEW c \in Calls, NEW r \in Call, RequestOK(r), call' = [call EXCEPT ![c] = r],
         UNCHANGED <<account, elsewhere, identities>>
  PROVE  IInv'
BY RowsStay, OneRequestMoves DEF IInv, RowsInv, identities

\* A permission that the row of the account gives.
LEMMA AuthorizeRequestStep ==
  ASSUME IInv, NEW c \in Calls, AuthorizeRequest(c)
  PROVE  IInv'
<1>1. ASSUME NEW step \in {"read", "members"},
             NEW next \in {"members", "console", "integrations"}, NEW permission,
             Authorize(c, step, next, permission),
             <<step, next, permission>> \in
               {<<"read", "members", "manage_memberships">>,
                <<"members", "console", "manage_roles">>,
                <<"read", "integrations", "manage_integrations">>}
      PROVE  IInv'
  <2> DEFINE r == [call[c] EXCEPT !.step = next]
  <2>1. call[c] \in Call /\ RequestOK(call[c]) /\ call[c].step = step
    BY <1>1 DEF IInv, RequestInv, RequestsOK, Authorize
  <2>2. /\ r \in Call /\ r.step = next /\ r.actor = call[c].actor
        /\ r.current = call[c].current /\ r.seen = call[c].seen
    BY <2>1 DEF Call, WithSnapshot
  <2>3. call' = [call EXCEPT ![c] = r]
    BY <1>1 DEF Authorize, GoTo
  <2> HIDE DEF r
  <2>4. Permits(account, call[c].actor, permission)
    BY <1>1 DEF Authorize
  <2>5. RequestOK(r)
    BY <1>1, <2>1, <2>2, <2>4 DEF RequestOK, WithSnapshot
  <2> QED BY <1>1, <2>2, <2>3, <2>5, RequestMoves DEF Authorize
<1> QED BY <1>1 DEF AuthorizeRequest

\* The other steps of requests that read and change no row.
LEMMA ReadingSteps ==
  ASSUME IInv, NEW c \in Calls,
         \/ \E u \in users : AuthorizeRoles(c, u) \/ ReadToEnableRecovery(c, u)
         \/ \E d \in DiscordIds : SignInFindsNobody(c, d)
         \/ CallEnds(c)
  PROVE  IInv'
<1>1. users \subseteq Users
  BY DEF IInv, IdentityInv
<1>2. ASSUME NEW u \in users, NEW step \in {"authorized", "enabling"},
             call' = [call EXCEPT ![c] = [Idle EXCEPT !.step = step, !.actor = u]],
             UNCHANGED <<account, elsewhere, identities>>
      PROVE  IInv'
  <2> DEFINE r == [Idle EXCEPT !.step = step, !.actor = u]
  <2>1. r \in Call /\ RequestOK(r)
    BY <1>1, <1>2, IdleIsOK DEF Idle, Call, RequestOK, WithSnapshot
  <2> QED BY <1>2, <2>1, RequestMoves
<1>3. ASSUME NEW d \in DiscordIds, SignInFindsNobody(c, d) PROVE IInv'
  <2> DEFINE r == [Idle EXCEPT !.step = "unknown", !.asked = d]
  <2>1. r \in Call /\ RequestOK(r)
    BY IdleIsOK DEF Idle, Call, RequestOK, WithSnapshot
  <2> QED BY <1>3, <2>1, RequestMoves DEF SignInFindsNobody
<1>4. ASSUME CallEnds(c) PROVE IInv'
  BY <1>4, IdleIsOK, RequestMoves DEF CallEnds, Finish
<1> QED BY <1>2, <1>3, <1>4 DEF AuthorizeRoles, ReadToEnableRecovery

\* A request that has its permission reads the row.
LEMMA ReadForRolesStep ==
  ASSUME IInv, NEW c \in Calls, ReadForRoles(c)
  PROVE  IInv'
<1> DEFINE r == [call[c] EXCEPT !.step = "roles", !.seen = account, !.current = TRUE]
<1>1. call[c] \in Call /\ RequestOK(call[c]) /\ account \in Account
  BY DEF IInv, RequestInv, RequestsOK, AccountInv
<1>2. r \in Call /\ RequestOK(r)
  BY <1>1 DEF Call, RequestOK, WithSnapshot, ReadForRoles
<1> QED BY <1>2, RequestMoves DEF ReadForRoles

\* A request that looked up the Guild it was asked for.
LEMMA FindGuildStep ==
  ASSUME IInv, NEW c \in Calls, NEW g \in Guilds, FindGuild(c, g)
  PROVE  IInv'
<1> DEFINE r == [call[c] EXCEPT !.step = "guild_free", !.asked = g]
<1>1. call[c] \in Call /\ RequestOK(call[c])
  BY DEF IInv, RequestInv, RequestsOK
<1>2. /\ r \in Call /\ r.step = "guild_free" /\ r.asked = g /\ r.actor = call[c].actor
      /\ r.current = call[c].current /\ r.seen = call[c].seen
  BY <1>1 DEF Call, WithSnapshot
<1>3. call' = [call EXCEPT ![c] = r] /\ UNCHANGED <<account, elsewhere, identities>>
  BY DEF FindGuild
<1> HIDE DEF r
<1>4. RequestOK(r)
  BY <1>1, <1>2 DEF RequestOK, FindGuild, WithSnapshot
<1> QED BY <1>2, <1>3, <1>4, RequestMoves

\* The requests that begin with a snapshot.
LEMMA BeginningSteps ==
  ASSUME IInv, NEW c \in Calls, NEW u \in users,
         \/ ReadAccount(c, u) \/ ReadInvitation(c, u)
         \/ \E d \in DiscordIds : \/ ReadToRecover(c, u, d)
                                 \/ \E actor \in users : ReadToRecoverCoOwner(c, actor, u, d)
  PROVE  IInv'
BY RequestBegins DEF ReadAccount, ReadInvitation, ReadToRecover, ReadToRecoverCoOwner

\* The Guilds of other accounts change, apart from this account's.
LEMMA ElsewhereSteps ==
  ASSUME IInv, NEW g \in Guilds, LinkElsewhere(g) \/ UnlinkElsewhere(g)
  PROVE  IInv'
<1>1. GuildInv'
  BY DEF IInv, GuildInv, GuildNamesOneAccount, LinkElsewhere, UnlinkElsewhere
<1>2. UNCHANGED <<account, identities, call>>
  BY DEF LinkElsewhere, UnlinkElsewhere
<1>3. RequestInv'
  BY <1>2 DEF IInv, RequestInv, RequestsOK, RequestOK, Permits, identities
<1> QED BY <1>1, <1>2, <1>3 DEF IInv, AccountInv, IdentityInv, CodeInv, identities,
          RolesAreOfMembers, AccountKeepsAnOwner, CustomRolesResolve, IdentitiesNameUsers,
          CodesAreDistinct

-------------------------------------------------------------------------------
(* Identities and recovery codes. *)

\* The rows of the account and the Guilds stay.
LEMMA AccountStays ==
  ASSUME IInv, UNCHANGED <<account, elsewhere>>
  PROVE  AccountInv' /\ GuildInv'
BY DEF IInv, AccountInv, GuildInv, RolesAreOfMembers, AccountKeepsAnOwner, CustomRolesResolve,
   GuildNamesOneAccount

\* A new User has the one identity that nobody had.
LEMMA CreateUserStep ==
  ASSUME IInv, NEW c \in Calls, NEW u \in Users, CreateUser(c, u)
  PROVE  IInv'
<1> DEFINE d == call[c].asked
<1>1. d \in DiscordIds /\ u \notin users /\ ~IsLinked(d)
  BY DEF IInv, RequestInv, RequestsOK, RequestOK, CreateUser
<1>2. users' = users \cup {u} /\ links' = links \cup {<<d, u>>}
  BY DEF CreateUser
<1> HIDE DEF d
<1>3. /\ users \subseteq Users /\ links \subseteq DiscordIds \X Users
      /\ \A l \in links : l[1] # d /\ l[2] # u
  BY <1>1 DEF IInv, IdentityInv, IdentitiesNameUsers, IsLinked
<1>4. ASSUME NEW w \in users' PROVE \E e \in DiscordIds : {l \in links' : l[2] = w} = {<<e, w>>}
  <2>1. CASE w = u
    BY <1>1, <1>2, <1>3, <2>1
  <2>2. CASE w # u
    <3>1. {l \in links' : l[2] = w} = {l \in links : l[2] = w}
      BY <1>2, <2>2
    <3> QED BY <1>2, <1>4, <2>2, <3>1 DEF IInv, IdentityInv, IdentitiesNameUsers
  <2> QED BY <2>1, <2>2
<1>5. IdentityInv'
  BY <1>1, <1>2, <1>3, <1>4 DEF IInv, IdentityInv, IdentitiesNameUsers
<1>6. CodeInv'
  BY DEF IInv, CodeInv, CodesAreDistinct, CreateUser
<1>7. RequestInv'
  BY <1>2, RequestEnds DEF CreateUser
<1> QED BY <1>5, <1>6, <1>7, AccountStays DEF IInv, CreateUser

\* The identity of a User is replaced by one that nobody else has.
LEMMA ReplaceIdentityStep ==
  ASSUME IInv, NEW c \in Calls, ReplaceIdentity(c)
  PROVE  IInv'
<1> DEFINE d == call[c].asked
           u == call[c].lost
           r == [call[c] EXCEPT !.step = "replaced"]
<1>1. call[c] \in Call /\ RequestOK(call[c]) /\ call[c].step = "entitled"
  BY DEF IInv, RequestInv, RequestsOK, ReplaceIdentity
<1>2. /\ d \in DiscordIds /\ u \in users /\ \A l \in LinkedToOthers(u) : l[1] # d
      /\ links' = LinkedToOthers(u) \cup {<<d, u>>}
  BY <1>1 DEF RequestOK, ReplaceIdentity
<1>3. UNCHANGED <<account, elsewhere, users, codes, spent>> /\ call' = [call EXCEPT ![c] = r]
  BY DEF ReplaceIdentity, GoTo
<1>4. r \in Call /\ RequestOK(r)
  BY <1>1 DEF Call, RequestOK, WithSnapshot
<1> HIDE DEF d, u, r
<1>5. users \subseteq Users /\ links \subseteq DiscordIds \X Users
  BY DEF IInv, IdentityInv
<1>6. ASSUME NEW w \in users PROVE \E e \in DiscordIds : {l \in links' : l[2] = w} = {<<e, w>>}
  <2>1. CASE w = u
    <3>1. {l \in links' : l[2] = w} = {<<d, w>>}
      BY <1>2, <2>1 DEF LinkedToOthers
    <3> QED BY <1>2, <3>1
  <2>2. CASE w # u
    <3>1. {l \in links' : l[2] = w} = {l \in links : l[2] = w}
      BY <1>2, <2>2 DEF LinkedToOthers
    <3> QED BY <1>6, <3>1 DEF IInv, IdentityInv, IdentitiesNameUsers
  <2> QED BY <2>1, <2>2
<1>7. IdentityInv'
  BY <1>2, <1>3, <1>5, <1>6 DEF IInv, IdentityInv, IdentitiesNameUsers, LinkedToOthers
<1>8. CodeInv'
  BY <1>3 DEF IInv, CodeInv, CodesAreDistinct
<1>9. RequestInv'
  BY <1>3, <1>4, OneRequestMoves
<1> QED BY <1>3, <1>7, <1>8, <1>9, AccountStays DEF IInv

\* New codes are ones that were never issued, and those they replace are spent.
LEMMA PutRecoveryCodesStep ==
  ASSUME IInv, NEW c \in Calls, NEW new \in SUBSET Codes, PutRecoveryCodes(c, new)
  PROVE  IInv'
<1> DEFINE u == call[c].actor
<1>1. u \in Users
  BY DEF IInv, IdentityInv, RequestInv, RequestsOK, RequestOK, PutRecoveryCodes
<1>2. /\ codes' = [codes EXCEPT ![u] = new] /\ spent' = spent \cup codes[u]
      /\ new \cap spent = {} /\ \A w \in Users : new \cap codes[w] = {}
  BY DEF PutRecoveryCodes, IssuedCodes
<1> HIDE DEF u
<1>3. CodeInv'
  BY <1>1, <1>2 DEF IInv, CodeInv, CodesAreDistinct
<1>4. IdentityInv'
  BY DEF IInv, IdentityInv, IdentitiesNameUsers, PutRecoveryCodes
<1>5. RequestInv'
  BY RequestEnds DEF PutRecoveryCodes
<1> QED BY <1>3, <1>4, <1>5, AccountStays DEF IInv, PutRecoveryCodes

\* An accepted code was valid, and is spent.
LEMMA ConsumeCodeStep ==
  ASSUME IInv, NEW c \in Calls, NEW k \in Codes, ConsumeCode(c, k)
  PROVE  IInv' /\ call'[c].code = k /\ k \notin spent
<1> DEFINE u == call[c].lost
           r == [call[c] EXCEPT !.step = "entitled", !.code = k]
<1>1. call[c] \in Call /\ RequestOK(call[c]) /\ call[c].step = "recovering" /\ k \in codes[u]
  BY DEF IInv, RequestInv, RequestsOK, ConsumeCode
<1>2. /\ codes' = [codes EXCEPT ![u] = @ \ {k}] /\ spent' = spent \cup {k}
      /\ call' = [call EXCEPT ![c] = r] /\ UNCHANGED <<account, elsewhere, users, links>>
  BY DEF ConsumeCode
<1>3. r \in Call /\ RequestOK(r) /\ r.code = k
  BY <1>1 DEF Call, RequestOK, WithSnapshot
<1>4. u \in Users
  BY <1>1 DEF IInv, IdentityInv, RequestOK
<1> HIDE DEF u, r
<1>5. CodeInv' /\ k \notin spent
  BY <1>1, <1>2, <1>4 DEF IInv, CodeInv, CodesAreDistinct
<1>6. IdentityInv'
  BY <1>2 DEF IInv, IdentityInv, IdentitiesNameUsers
<1>7. RequestInv' /\ call'[c].code = k
  BY <1>2, <1>3, OneRequestMoves DEF IInv, RequestInv
<1> QED BY <1>2, <1>5, <1>6, <1>7, AccountStays DEF IInv

-------------------------------------------------------------------------------
(* The invariant. *)

\* The assignments of the additive model are of Predefined Roles, which are always defined.
LEMMA LegacyIsSound ==
  ASSUME NEW s \in Legacy
  PROVE  s \in Seq(Assignment) /\ \A i \in DOMAIN s : s[i].role \notin CustomRoles
<1>1. s \in Seq([role: PredefinedRoles, wide: BOOLEAN])
  BY RolesAssumption
<1>2. Len(s) \in Nat /\ DOMAIN s = 1..Len(s)
  BY <1>1
<1>3. \A i \in DOMAIN s : s[i] \in [role: PredefinedRoles, wide: BOOLEAN]
  <2> DEFINE R == [role: PredefinedRoles, wide: BOOLEAN]
  <2>1. s \in Seq(R)
    BY <1>1
  <2> HIDE DEF R
  <2>2. \A i \in 1..Len(s) : s[i] \in R
    BY <2>1
  <2> QED BY <1>2, <2>2 DEF R
<1>4. \A i \in DOMAIN s : s[i] \in Assignment /\ s[i].role \notin CustomRoles
  BY <1>3, RolesAssumption DEF Assignment
<1>5. s = [i \in 1..Len(s) |-> s[i]]
  BY <1>1, <1>2
<1> QED BY <1>2, <1>4, <1>5

\* A new account has its founder as Owner, and only Predefined Roles.
LEMMA InitIsSound == ASSUME Init PROVE IInv
<1>1. PICK founder \in users, others \in SUBSET users, g \in Guilds \cup {None} :
        \E legacy \in [others -> Legacy] :
          account = [NoAccount EXCEPT
            !.members = {founder} \cup others,
            !.assigned = [u \in Users |-> IF u = founder THEN <<AccountOwner>>
                                          ELSE IF u \in others THEN legacy[u] ELSE <<>>],
            !.guild = g]
  BY DEF Init
<1>2. PICK legacy \in [others -> Legacy] :
        account = [NoAccount EXCEPT
          !.members = {founder} \cup others,
          !.assigned = [u \in Users |-> IF u = founder THEN <<AccountOwner>>
                                        ELSE IF u \in others THEN legacy[u] ELSE <<>>],
          !.guild = g]
  BY <1>1
<1>3. users = {l[2] : l \in FirstLinks} /\ links = FirstLinks /\ users \subseteq Users
  BY IdsAssumption DEF Init
<1>4. IdentityInv
  <2>1. \A u \in users : \E d \in DiscordIds : {l \in links : l[2] = u} = {<<d, u>>}
    <3> TAKE u \in users
    <3>1. PICK k \in FirstLinks : k[2] = u
      BY <1>3
    <3>2. k[1] \in DiscordIds /\ k = <<k[1], u>>
      BY <3>1, IdsAssumption
    <3>3. \A l \in FirstLinks : l[2] = u => l = k
      BY <3>1, <3>2, IdsAssumption
    <3> QED BY <1>3, <3>1, <3>2, <3>3
  <2>2. \A k, l \in links : k[1] = l[1] => k = l
    BY <1>3, IdsAssumption
  <2> QED BY <1>3, <2>1, <2>2, IdsAssumption DEF IdentityInv, IdentitiesNameUsers
<1>5. /\ account.members = {founder} \cup others /\ account.guild = g
      /\ account.assigned = [u \in Users |-> IF u = founder THEN <<AccountOwner>>
                                             ELSE IF u \in others THEN legacy[u] ELSE <<>>]
      /\ account.defined = {} /\ account.grants = NoAccount.grants
      /\ account.invitations = NoAccount.invitations
      /\ account = [members |-> account.members, assigned |-> account.assigned,
                    defined |-> account.defined, grants |-> account.grants,
                    invitations |-> account.invitations, guild |-> account.guild]
  BY <1>2 DEF NoAccount
<1>6. \A u \in Users : account.assigned[u] \in Assignments
  <2> TAKE u \in Users
  <2>1. <<AccountOwner>> \in Assignments
    BY OwnershipIsAssignment, ShortSequences
  <2>2. u \in others => legacy[u] \in Assignments
    BY <1>2, LegacyIsSound DEF Assignments
  <2>3. <<>> \in Assignments
    BY ShortSequences
  <2> QED BY <1>5, <2>1, <2>2, <2>3
<1>7. account \in Account
  <2>1. account.assigned \in [Users -> Seq(Assignment)]
    BY <1>5, <1>6 DEF Assignments
  <2>2. account.invitations \in [Invitations -> Invitation]
    BY <1>5, OwnershipIsAssignment DEF NoAccount, Invitation
  <2>3. /\ account.members \in SUBSET Users /\ account.defined \in SUBSET CustomRoles
        /\ account.grants \in [CustomRoles -> SUBSET Permissions]
        /\ account.guild \in Guilds \cup {None}
    BY <1>3, <1>5 DEF NoAccount
  <2> QED BY <1>5, <2>1, <2>2, <2>3 DEF Account
<1>8. founder \in Owners(account)
  <2>1. account.assigned[founder] = <<AccountOwner>> /\ founder \in account.members
    BY <1>3, <1>5
  <2>2. Effective(<<AccountOwner>>) = AccountOwner
    BY EffectiveOfAtMostOne, OwnershipIsAssignment
  <2> QED BY <2>1, <2>2 DEF Owners
<1>9. ASSUME NEW u \in account.members, NEW i \in DOMAIN account.assigned[u]
      PROVE  Resolves(account, account.assigned[u][i].role)
  <2>1. account.assigned[u] = IF u = founder THEN <<AccountOwner>> ELSE legacy[u]
    BY <1>3, <1>5
  <2>2. CASE u = founder
    <3>1. DOMAIN <<AccountOwner>> = {1} /\ <<AccountOwner>>[1].role = "owner"
      BY DEF AccountOwner
    <3> QED BY <1>9, <2>1, <2>2, <3>1, RolesAssumption DEF Resolves, PredefinedRoles
  <2>3. CASE u # founder
    <3>1. legacy[u] \in Legacy
      BY <1>2, <1>5, <2>3
    <3> QED BY <1>9, <2>1, <2>3, <3>1, LegacyIsSound DEF Resolves
  <2> QED BY <2>2, <2>3
<1>10. \A i \in Invitations : Resolves(account, account.invitations[i].grant.role)
  BY <1>5, RolesAssumption DEF NoAccount, AccountPlayer, Resolves, PredefinedRoles
<1>11. RolesAreOfMembers
  BY <1>5 DEF RolesAreOfMembers
<1>12. AccountInv
  BY <1>7, <1>8, <1>9, <1>10, <1>11 DEF AccountInv, AccountKeepsAnOwner, CustomRolesResolve
<1>13. GuildInv
  BY DEF Init, GuildInv, GuildNamesOneAccount
<1>14. CodeInv
  BY DEF Init, CodeInv, CodesAreDistinct
<1>15. RequestInv
  BY IdleIsOK DEF Init, RequestInv, RequestsOK
<1> QED BY <1>4, <1>12, <1>13, <1>14, <1>15 DEF IInv

\* Every step keeps the invariant.
LEMMA StepIsSound == ASSUME IInv, [Next]_vars PROVE IInv'
<1>1. ASSUME NEW c \in Calls, RolesNext(c) PROVE IInv'
  <2>1. \A role \in Asked, wide \in BOOLEAN : [role |-> role, wide |-> wide] \in Assignment
    BY RolesAssumption DEF Assignment
  <2> QED BY <1>1, <2>1, ReadingSteps, ReadForRolesStep, CreateCustomRoleStep, AssignRoleStep,
             RemoveRoleAssignmentStep DEF RolesNext
<1>2. ASSUME NEW c \in Calls, MembersNext(c) PROVE IInv'
  <2>1. ASSUME NEW i \in Invitations, NEW u \in users, InviteMember(c, i, u) PROVE IInv'
    BY <2>1, InviteStep, OwnershipIsAssignment, RolesAssumption
       DEF InviteMember, Resolves, AccountPlayer, PredefinedRoles
  <2>2. ASSUME NEW i \in Invitations, NEW role \in Asked, NEW wide \in BOOLEAN,
               CreateInvitationLink(c, i, [role |-> role, wide |-> wide])
        PROVE  IInv'
    <3>1. [role |-> role, wide |-> wide] \in Assignment
      BY RolesAssumption DEF Assignment
    <3> QED BY <2>2, <3>1, InviteStep DEF CreateInvitationLink
  <2> QED BY <1>2, <2>1, <2>2, BeginningSteps, AuthorizeRequestStep, AcceptInvitationStep,
             RemoveMembershipStep DEF MembersNext
<1>3. ASSUME NEW c \in Calls, IntegrationsNext(c) PROVE IInv'
  BY <1>3, UnchangedRowStep, FindGuildStep, LinkGuildStep DEF IntegrationsNext
<1>4. ASSUME NEW c \in Calls, IdentitiesNext(c) PROVE IInv'
  BY <1>4, ReadingSteps, BeginningSteps, CreateUserStep, PutRecoveryCodesStep, ConsumeCodeStep,
     ReplaceIdentityStep, UnchangedRowStep DEF IdentitiesNext
<1>5. ASSUME UNCHANGED vars PROVE IInv'
  <2>1. RowsInv'
    BY <1>5, RowsStay DEF vars
  <2>2. RequestInv'
    BY <1>5 DEF vars, identities, IInv, RequestInv, RequestsOK, RequestOK, Permits
  <2> QED BY <2>1, <2>2 DEF IInv, RowsInv
<1> QED BY <1>1, <1>2, <1>3, <1>4, <1>5, ReadingSteps, ElsewhereSteps DEF Next

\* The invariant holds in every behaviour.
LEMMA Invariance == Spec => []IInv
BY InitIsSound, StepIsSound, PTL DEF Spec

-------------------------------------------------------------------------------
(* What a step may do to the row of the account. *)

\* The steps of the request c that save.
Saves(c) ==
  \/ \E r \in CustomRoles, grants \in RoleGrants : CreateCustomRole(c, r, grants)
  \/ \E u \in users, a \in Assignment : AssignRole(c, u, a)
  \/ \E u \in users : RemoveRoleAssignment(c, u) \/ RemoveMembership(c, u)
  \/ \E i \in Invitations, u \in users \cup {None}, a \in Assignment : Invite(c, i, u, a)
  \/ \E i \in Invitations : AcceptInvitation(c, i)
  \/ ConfigureChannel(c) \/ LinkGuild(c) \/ RecordRecovery(c)

\* A step that changes the row is one of these, of a request whose snapshot is the row.
LEMMA ChangesAreSaves ==
  ASSUME IInv, [Next]_vars, account' # account
  PROVE  \E c \in Calls : Saves(c) /\ Save(c, account') /\ call[c].seen = account
                          /\ RequestOK(call[c])
<1>1. \E c \in Calls : Saves(c)
  <2>1. \A role \in Asked, wide \in BOOLEAN : [role |-> role, wide |-> wide] \in Assignment
    BY RolesAssumption DEF Assignment
  <2>2. ASSUME NEW c \in Calls, RolesNext(c) PROVE Saves(c)
    BY <2>1, <2>2 DEF RolesNext, Saves, AuthorizeRoles, ReadForRoles
  <2>3. ASSUME NEW c \in Calls, MembersNext(c) PROVE Saves(c)
    <3>1. ASSUME NEW i \in Invitations, NEW role \in Asked, NEW wide \in BOOLEAN,
                 CreateInvitationLink(c, i, [role |-> role, wide |-> wide])
          PROVE  Saves(c)
      BY <2>1, <3>1 DEF CreateInvitationLink, Saves
    <3>2. ASSUME NEW i \in Invitations, NEW u \in users, InviteMember(c, i, u) PROVE Saves(c)
      BY <3>2, OwnershipIsAssignment DEF InviteMember, Saves
    <3> QED BY <2>3, <3>1, <3>2 DEF MembersNext, Saves, ReadAccount, ReadInvitation,
               AuthorizeRequest, Authorize
  <2>4. ASSUME NEW c \in Calls, IntegrationsNext(c) PROVE Saves(c)
    BY <2>4 DEF IntegrationsNext, Saves, FindGuild
  <2>5. ASSUME NEW c \in Calls, IdentitiesNext(c) PROVE Saves(c)
    BY <2>5 DEF IdentitiesNext, Saves, SignInFindsNobody, CreateUser, ReadToEnableRecovery,
       PutRecoveryCodes, ReadToRecover, ConsumeCode, ReadToRecoverCoOwner, ReplaceIdentity
  <2> QED BY <2>2, <2>3, <2>4, <2>5 DEF Next, vars, CallEnds, LinkElsewhere, UnlinkElsewhere
<1>2. PICK c \in Calls : Saves(c)
  BY <1>1
<1>3. Save(c, account')
  BY <1>2 DEF Saves, Save, CreateCustomRole, AssignRole, RemoveRoleAssignment, RemoveMembership,
     Invite, AcceptInvitation, ConfigureChannel, LinkGuild, RecordRecovery
<1>4. users' = users
  BY <1>2 DEF Saves, CreateCustomRole, AssignRole, RemoveRoleAssignment, RemoveMembership,
     Invite, AcceptInvitation, ConfigureChannel, LinkGuild, RecordRecovery, identities
<1>5. RequestOK(call[c]) /\ call[c].seen = account
  BY <1>3, <1>4, RequestSaves DEF IInv, RequestInv, RequestsOK
<1> QED BY <1>2, <1>3, <1>5

\* What a save does to the members and their Roles.
LEMMA MembersAfterSave ==
  ASSUME IInv, NEW c \in Calls, Saves(c), Save(c, account'), call[c].seen = account
  PROVE  \/ account'.members = account.members /\ account'.assigned = account.assigned
         \/ \E u \in Users, a \in Assignment :
              /\ account'.members \in {account.members, account.members \ {u}}
              /\ account'.assigned \in {[account.assigned EXCEPT ![u] = <<a>>],
                                        [account.assigned EXCEPT ![u] = <<>>]}
         \/ \E i \in Invitations : AcceptInvitation(c, i)
<1> DEFINE P == account'.members = account.members /\ account'.assigned = account.assigned
           Q == \E u \in Users, a \in Assignment :
                  /\ account'.members \in {account.members, account.members \ {u}}
                  /\ account'.assigned \in {[account.assigned EXCEPT ![u] = <<a>>],
                                            [account.assigned EXCEPT ![u] = <<>>]}
<1>1. account \in Account /\ users \subseteq Users
  BY DEF IInv, AccountInv, IdentityInv
<1>2. ASSUME NEW r \in CustomRoles, NEW grants \in RoleGrants, CreateCustomRole(c, r, grants)
      PROVE  P
  BY <1>1, <1>2 DEF CreateCustomRole, Save, Account
<1>3. ASSUME NEW u \in users, NEW a \in Assignment, AssignRole(c, u, a) PROVE Q
  <2>1. account' = [account EXCEPT !.assigned[u] = <<a>>]
    BY <1>3 DEF AssignRole, Save
  <2>2. /\ account'.members = account.members
        /\ account'.assigned = [account.assigned EXCEPT ![u] = <<a>>]
    BY <1>1, <2>1 DEF Account
  <2> QED BY <1>1, <2>2
<1>4. ASSUME NEW u \in users, RemoveRoleAssignment(c, u) PROVE Q
  <2>1. account' = [account EXCEPT !.assigned[u] = <<>>]
    BY <1>4 DEF RemoveRoleAssignment, Save
  <2>2. /\ account'.members = account.members
        /\ account'.assigned = [account.assigned EXCEPT ![u] = <<>>]
    BY <1>1, <2>1 DEF Account
  <2> QED BY <1>1, <2>2, OwnershipIsAssignment
<1>5. ASSUME NEW u \in users, RemoveMembership(c, u) PROVE Q
  <2>1. account' = [account EXCEPT !.members = @ \ {u}, !.assigned[u] = <<>>]
    BY <1>5 DEF RemoveMembership, Save
  <2>2. /\ account'.members = account.members \ {u}
        /\ account'.assigned = [account.assigned EXCEPT ![u] = <<>>]
    BY <1>1, <2>1 DEF Account
  <2> QED BY <1>1, <2>2, OwnershipIsAssignment
<1>6. ASSUME NEW i \in Invitations, NEW u \in users \cup {None}, NEW a \in Assignment,
             Invite(c, i, u, a)
      PROVE  P
  BY <1>1, <1>6 DEF Invite, Save, Account
<1>7. ASSUME ConfigureChannel(c) \/ LinkGuild(c) \/ RecordRecovery(c) PROVE P
  BY <1>1, <1>7 DEF ConfigureChannel, LinkGuild, RecordRecovery, Save, Account
<1> QED BY <1>2, <1>3, <1>4, <1>5, <1>6, <1>7 DEF Saves

\* A recovery that is asked for with a code goes on when the code is accepted, and only then.
LEMMA OnlyConsumingEntitles ==
  ASSUME IInv, [Next]_vars, NEW c \in Calls, call[c].step = "recovering",
         call'[c].step = "entitled"
  PROVE  \E k \in Codes : ConsumeCode(c, k)
<1>1. call \in [Calls -> Call]
  BY DEF IInv, RequestInv
<1>2. Idle.step = "idle"
  BY DEF Idle
<1>3. ASSUME NEW k \in Calls, NEW row, Save(k, row) PROVE FALSE
  <2>1. k # c => call'[c].step = call[c].step
    BY <1>1, <1>3 DEF Save, Outdated, Call
  <2>2. k = c => call'[c].step = "idle"
    BY <1>1, <1>2, <1>3 DEF Save
  <2> QED BY <2>1, <2>2
<1>4. ASSUME NEW k \in Calls, RolesNext(k) PROVE FALSE
  BY <1>1, <1>2, <1>3, <1>4 DEF RolesNext, AuthorizeRoles, ReadForRoles, CreateCustomRole,
     AssignRole, RemoveRoleAssignment
<1>5. ASSUME NEW k \in Calls, MembersNext(k) PROVE FALSE
  BY <1>1, <1>2, <1>3, <1>5 DEF MembersNext, ReadAccount, ReadInvitation, Begin,
     AuthorizeRequest, Authorize, GoTo, InviteMember, CreateInvitationLink, Invite,
     AcceptInvitation, RemoveMembership
<1>6. ASSUME NEW k \in Calls, IntegrationsNext(k) PROVE FALSE
  BY <1>1, <1>2, <1>3, <1>6 DEF IntegrationsNext, ConfigureChannel, FindGuild, LinkGuild
<1>7. ASSUME NEW k \in Calls, IdentitiesNext(k), ~\E code \in Codes : ConsumeCode(c, code)
      PROVE  FALSE
  <2>1. ASSUME NEW code \in Codes, ConsumeCode(k, code) PROVE FALSE
    BY <1>1, <1>7, <2>1 DEF ConsumeCode
  <2> QED BY <1>1, <1>2, <1>3, <1>7, <2>1 DEF IdentitiesNext, SignInFindsNobody, CreateUser,
       ReadToEnableRecovery, PutRecoveryCodes, ReadToRecover, ReadToRecoverCoOwner, Begin,
       ReplaceIdentity, RecordRecovery, Finish, GoTo
<1> QED BY <1>1, <1>2, <1>4, <1>5, <1>6, <1>7 DEF Next, vars, CallEnds, Finish, LinkElsewhere,
      UnlinkElsewhere

-------------------------------------------------------------------------------
(* The results. *)

\* Rows and requests always keep values that the code can store, and who is no member has no
\* Role.
THEOREM TypesAreCorrect == Spec => []TypeOK
<1>1. IInv => TypeOK
  BY DEF IInv, AccountInv, GuildInv, IdentityInv, CodeInv, RequestInv, RolesAreOfMembers, TypeOK
<1> QED BY <1>1, Invariance, PTL

\* No overlap of requests leaves the account without an Owner.
THEOREM OwnersStay == Spec => []AccountKeepsAnOwner
<1>1. IInv => AccountKeepsAnOwner
  BY DEF IInv, AccountInv
<1> QED BY <1>1, Invariance, PTL

\* A Role that a membership or an invitation names is always defined.
THEOREM RolesResolve == Spec => []CustomRolesResolve
<1>1. IInv => CustomRolesResolve
  BY DEF IInv, AccountInv
<1> QED BY <1>1, Invariance, PTL

\* The Guild of the account is never linked to another.
THEOREM GuildsAreUnique == Spec => []GuildNamesOneAccount
<1>1. IInv => GuildNamesOneAccount
  BY DEF IInv, GuildInv
<1> QED BY <1>1, Invariance, PTL

\* A User always has one identity, and an identity is always of one User.
THEOREM IdentitiesAreUnique == Spec => []IdentitiesNameUsers
<1>1. IInv => IdentitiesNameUsers
  BY DEF IInv, IdentityInv
<1> QED BY <1>1, Invariance, PTL

\* A request changes the account with a permission that its User has in the version it
\* replaces.
THEOREM ChangesHavePermission == Spec => ChangesAreAuthorized
<1> DEFINE Permitted(c) ==
      Changes(c) =>
        /\ call[c].step \in {"members", "console"} =>
             Permits(account, call[c].actor, "manage_memberships")
        /\ call[c].step = "console" => Permits(account, call[c].actor, "manage_roles")
        /\ call[c].step = "guild_free" => Permits(account, call[c].actor, "manage_integrations")
<1>1. ASSUME IInv, [Next]_vars, NEW c \in Calls PROVE Permitted(c)
  <2>1. SUFFICES ASSUME Changes(c) PROVE call[c].current /\ RequestOK(call[c])
    BY DEF RequestOK
  <2>2. PICK k \in Calls : Save(k, account') /\ RequestOK(call[k])
    BY <1>1, <2>1, ChangesAreSaves DEF Changes
  <2>3. call[c] \in Call /\ call[c].step # "idle" /\ call'[c] = Idle
    BY <1>1, <2>1 DEF Changes, IInv, RequestInv
  <2>4. k = c
    <3>1. k # c => call'[c].step = call[c].step
      BY <2>2, <2>3 DEF Save, Outdated, Call
    <3> QED BY <2>3, <3>1 DEF Idle
  <2> QED BY <2>2, <2>4 DEF Save
<1>2. IInv /\ [Next]_vars =>
        [\A c \in Calls : Changes(c) =>
           LET permitted(permission) == Permits(account, call[c].actor, permission)
           IN  /\ call[c].step \in {"members", "console"} => permitted("manage_memberships")
               /\ call[c].step = "console" => permitted("manage_roles")
               /\ call[c].step = "guild_free" => permitted("manage_integrations")]_vars
  BY <1>1
<1> QED BY <1>2, Invariance, PTL DEF Spec, ChangesAreAuthorized

\* Nobody becomes a member but by an invitation that is pending and is used up.
THEOREM AdmissionsNeedInvitations == Spec => AdmissionsUseUpInvitations
<1>1. ASSUME IInv, [Next]_vars, NEW u \in account'.members \ account.members
      PROVE  \E i \in Invitations :
               /\ account.invitations[i].status = "pending"
               /\ account.invitations[i].invited \in {None, u}
               /\ account'.invitations[i].status = "accepted"
               /\ account'.assigned[u] = <<account.invitations[i].grant>>
  <2>1. PICK c \in Calls : Saves(c) /\ Save(c, account') /\ call[c].seen = account
    BY <1>1, ChangesAreSaves
  <2>2. PICK i \in Invitations : AcceptInvitation(c, i)
    BY <1>1, <2>1, MembersAfterSave
  <2> DEFINE w == call[c].actor
  <2>3. /\ account' = Admit(account, i, w) /\ account.invitations[i].status = "pending"
        /\ account.invitations[i].invited \in {None, w} /\ w \in Users
    BY <1>1, <2>2, AcceptInvitationStep
  <2>4. account \in Account /\ account.invitations[i] \in Invitation
    BY <1>1, InvitationsAreTyped DEF IInv, AccountInv
  <2> HIDE DEF w
  <2>5. account'.members = account.members \cup {w}
    BY <2>3, <2>4 DEF Admit, Account
  <2>6. u = w
    BY <1>1, <2>5
  <2>7. /\ account'.invitations[i].status = "accepted"
        /\ account'.assigned[w] = <<account.invitations[i].grant>>
    BY <2>3, <2>4 DEF Admit, Account, Invitation
  <2> QED BY <2>3, <2>6, <2>7
<1>2. IInv /\ [Next]_vars =>
        [\A u \in account'.members \ account.members : \E i \in Invitations :
           /\ account.invitations[i].status = "pending"
           /\ account.invitations[i].invited \in {None, u}
           /\ account'.invitations[i].status = "accepted"
           /\ account'.assigned[u] = <<account.invitations[i].grant>>]_vars
  BY <1>1
<1> QED BY <1>2, Invariance, PTL DEF Spec, AdmissionsUseUpInvitations

\* A Role that changes leaves at most one assignment: none of the older ones comes back.
THEOREM ChangedRolesAreSingle == Spec => OlderGrantsStayGone
<1>1. ASSUME IInv, [Next]_vars, NEW u \in Users, account'.assigned[u] # account.assigned[u]
      PROVE  Len(account'.assigned[u]) <= 1
  <2>1. PICK c \in Calls : Saves(c) /\ Save(c, account') /\ call[c].seen = account
    BY <1>1, ChangesAreSaves
  <2>2. account.assigned \in [Users -> Assignments]
    BY <1>1 DEF IInv, AccountInv, Account, Assignments
  <2>3. /\ \A a \in Assignment : Len(<<a>>) = 1
        /\ Len(<<>>) = 0
    OBVIOUS
  <2>4. ASSUME NEW w \in Users, NEW a \in Assignment,
               account'.assigned \in {[account.assigned EXCEPT ![w] = <<a>>],
                                      [account.assigned EXCEPT ![w] = <<>>]}
        PROVE  Len(account'.assigned[u]) <= 1
    <3>1. account'.assigned[u] = <<a>> \/ account'.assigned[u] = <<>>
      BY <1>1, <2>2, <2>4
    <3>2. PICK n \in {0, 1} : n = Len(account'.assigned[u])
      BY <2>3, <3>1, Zenon
    <3>3. n <= 1
      OBVIOUS
    <3> QED BY <3>2, <3>3, Zenon
  <2>5. ASSUME NEW i \in Invitations, AcceptInvitation(c, i)
        PROVE  Len(account'.assigned[u]) <= 1
    <3>1. account' = Admit(account, i, call[c].actor) /\ call[c].actor \in Users
      BY <1>1, <2>5, AcceptInvitationStep
    <3>2. account \in Account /\ account.invitations[i].grant \in Assignment
      BY <1>1, InvitationsAreTyped DEF IInv, AccountInv, Invitation
    <3>3. account'.assigned = [account.assigned EXCEPT ![call[c].actor] =
                                 <<account.invitations[i].grant>>]
      BY <3>1, <3>2 DEF Admit, Account
    <3> QED BY <2>4, <3>1, <3>2, <3>3
  <2> QED BY <1>1, <2>1, <2>4, <2>5, MembersAfterSave
<1>2. IInv /\ [Next]_vars =>
        [\A u \in Users : account'.assigned[u] # account.assigned[u] =>
           Len(account'.assigned[u]) <= 1]_vars
  BY <1>1
<1> QED BY <1>2, Invariance, PTL DEF Spec, OlderGrantsStayGone

\* A code that begins a recovery was not spent.
THEOREM CodesAreFresh == Spec => CodesAreUsedOnce
<1>1. ASSUME IInv, [Next]_vars, NEW c \in Calls,
             call[c].step = "recovering" /\ call'[c].step = "entitled"
      PROVE  call'[c].code \notin spent
  <2>1. \E k \in Codes : ConsumeCode(c, k)
    BY <1>1, OnlyConsumingEntitles
  <2> QED BY <1>1, <2>1, ConsumeCodeStep
<1>2. IInv /\ [Next]_vars =>
        [\A c \in Calls : call[c].step = "recovering" /\ call'[c].step = "entitled" =>
           call'[c].code \notin spent]_vars
  BY <1>1
<1> QED BY <1>2, Invariance, PTL DEF Spec, CodesAreUsedOnce

===============================================================================
