CONSTANTS
  r1 = r1
  r2 = r2
  s1 = s1
  s2 = s2
  Requests = {r1}
  Occurrences = 2
  Slots = {s1, s2}
  Retries = 1
  MaxNotices = 3
  MaxUpsets = 1
  MaxTaken = 1
SPECIFICATION Spec
SYMMETRY SlotSymmetry
INVARIANTS BookingTypeOK NoDoubleBooking NothingMissing CancelledOccurrenceGone GivenUpIsAlerted FailedLabelsTrue
CHECK_DEADLOCK FALSE
