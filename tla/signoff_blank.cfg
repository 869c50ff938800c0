CONSTANTS
  officer = officer
  pm = pm
  opm = opm
  Users = {officer, pm, opm}
  NoUser = NoUser
  DocType = "posign"
  Creator = officer
  TokenRole <- Tokens
  Chains <- PaperForm
  Orgs <- FixedPosts
  Forms <- BlankForms
  Delegates <- NobodyAway
  Requests = {r1}
  MaxLost = 0
  MaxEdits = 0
SPECIFICATION SignSpec
INVARIANTS ApprovedFullySigned
CHECK_DEADLOCK FALSE
