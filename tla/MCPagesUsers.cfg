SPECIFICATION PagesSpec
CONSTANTS
  Slot = {r1, r2}
  User = {admin, member}
  Admin = {admin}
  NoUser = NoUser
  Snapshot <- MCSnapshot
  Stored <- MCStored
  s1 = s1
  s2 = s2
  Proposal = {p1}
  None = None
INVARIANT
  AdminListsUsers
