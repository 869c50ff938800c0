CONSTANTS
  req = req
  mgr = mgr
  dir = dir
  fin = fin
  boss = boss
  adm = adm
  Users = {req, mgr, dir, fin, boss, adm}
  NoUser = NoUser
  DocType = "exp"
  Creator = req
  TokenRole <- Tokens
  Chains <- ClaimDirectorChains
  Orgs <- ClaimantOrgs
  Forms <- ClaimForms
  Delegates <- NoDelegates
SPECIFICATION Spec
INVARIANTS GrantedWasSigned
