CONSTANTS
  officer = officer
  pm = pm
  opm = opm
  Users = {officer, pm, opm}
  NoUser = NoUser
  DocType = "posign"
  Creator = officer
  TokenRole <- Tokens
  Chains <- PaperForm
  Orgs <- MovingPosts
  Forms <- BlankForms
  Delegates <- PmAway
  Requests = {r1, r2}
  MaxLost = 1
  MaxEdits = 1
SPECIFICATION SignSpec
INVARIANTS PendingBoxesBlank SignaturesWereGranted
PROPERTIES ImplementsLifecycle
CHECK_DEADLOCK FALSE
