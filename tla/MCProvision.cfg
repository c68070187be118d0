SPECIFICATION ProvFairSpec
CONSTANTS
  Users = {u1, u2, u3}
  Absent = Absent
  Empty = Empty
  Down = Down
INVARIANTS SavedLinkWorks RevokedStaysOut
PROPERTIES ServesDespiteKills
CONSTRAINT TwoOverlap
CHECK_DEADLOCK FALSE
