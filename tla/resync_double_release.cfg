CONSTANTS
  req = req
  mgr = mgr
  dir = dir
  fin = fin
  Users = {req, mgr, dir, fin}
  NoUser = NoUser
  DocType = "po"
  Creator = req
  TokenRole <- Tokens
  Chains <- DirectorChains
  Orgs <- DirectorOrgs
  Forms <- PlainForms
  Delegates <- NoDelegates
SPECIFICATION RaceSpec
INVARIANTS ReleasedOnce
