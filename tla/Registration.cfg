\* Two lost answers, two edits in NetBox, one restart with other settings.
SPECIFICATION FairSpec
CONSTANTS
  Urls = {u1, u2}
  Secrets = {s1, s2}
  NoSecret = NoSecret
  Absent = Absent
  MaxTroubles = 2
  MaxEdits = 2
  MaxStarts = 1
INVARIANTS TypeOK ConfirmedWired
PROPERTIES EventuallyConfirmed
CHECK_DEADLOCK FALSE
