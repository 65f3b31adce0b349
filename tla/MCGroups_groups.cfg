\* An administrator and a user, two people, two groups, two pages.
SPECIFICATION Spec
CONSTANTS
  None = None
  a1 = a1
  u1 = u1
  e1 = e1
  e2 = e2
  en = en
  pl = pl
  Account = {a1, u1}
  Admins = {a1}
  RoleChanges = {a1, u1}
  Email = {e1, e2}
  Lang = {en, pl}
  Typed <- MCTyped
  Groups0 <- MCGroups0
  MaxRecipients = 2
  MaxGroups = 2
  MaxText = 1
  MaxPages = 2
PROPERTIES
  NobodyUnseen
  NobodyDropped
  SavedAsShown
  KeepersOnly
CHECK_DEADLOCK FALSE
