CONSTANTS
  lab = lab
  plant = plant
  m1 = m1
  m2 = m2
  Zones = {lab, plant}
  Managers = {m1, m2}
  ZoneTables <- FreePlant
  Requests = {r1}
  Tick = tick
  Steps = 2
  MaxMoves = 1
SPECIFICATION Spec
INVARIANTS TypeOK StatusesAgree LetInOnlyCleared AwaitedIsAsked
PROPERTIES PendingEnds
CHECK_DEADLOCK FALSE
