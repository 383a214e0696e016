SPECIFICATION Spec
CONSTANTS
  ann = ann  bob = bob  first = first  second = second
  Users = {ann, bob, cid}
  DiscordIds = {first, second, third}
  FirstLinks <- BothSignedIn
  CustomRoles = {}
  RoleGrants = {}
  Asked <- OwnerOrPlayer
  Legacy <- NoLegacy
  Invitations = {}
  Guilds = {guild}
  Codes = {k1, k2}
  Calls = {c1, c2, c3}
  None = None
SYMMETRY RequestSymmetry
INVARIANTS GuildNamesOneAccount 
PROPERTIES CodesAreUsedOnce
