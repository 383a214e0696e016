SPECIFICATION Spec
CONSTANTS
  ann = ann  bob = bob  first = first  second = second
  Users = {ann, bob}
  DiscordIds = {first, second}
  FirstLinks <- BothSignedIn
  CustomRoles = {custom}
  RoleGrants <- TwoGrants
  Asked <- OwnerPlayerOrCustom
  Legacy <- OneLegacy
  Invitations = {invitation1, invitation2}
  Guilds = {}
  Codes = {}
  Calls = {c1, c2}
  None = None
SYMMETRY RequestSymmetry
INVARIANTS TypeOK AccountKeepsAnOwner CustomRolesResolve
PROPERTIES ChangesAreAuthorized AdmissionsUseUpInvitations OlderGrantsStayGone
