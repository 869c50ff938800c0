CONSTANTS
  req = req
  mgr = mgr
  dir = dir
  fin = fin
  boss = boss
  adm = adm
  Users = {req, mgr, dir, fin, boss, adm}
  NoUser = NoUser
  DocType = "pr"
  Creator = req
  TokenRole <- Tokens
  Chains <- PrChains
  Orgs <- PrOrgs
  Forms <- PrForms
  Delegates <- MgrAway
SPECIFICATION Spec
INVARIANTS TypeOK EveryStepCleared TaskAtPendingStep ResyncSeesDrift
PROPERTIES ListFrozenInFlight SkipsWarranted ImplementsLifecycle ResyncAligns
