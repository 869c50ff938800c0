CONSTANTS
  req = req
  mgr = mgr
  dir = dir
  fin = fin
  boss = boss
  adm = adm
  Users = {req, mgr, dir, fin, boss, adm}
  NoUser = NoUser
  DocType = "pa"
  Creator = req
  TokenRole <- Tokens
  Chains <- PaChains
  Orgs <- PaOrgs
  Forms <- PaForms
  Delegates <- NoDelegates
SPECIFICATION DocSpec
INVARIANTS GrantedWasSigned ReleasedOnce CrossDeptApprovedAbove EveryZoneManagerAsked
PROPERTIES DecisionsStand
