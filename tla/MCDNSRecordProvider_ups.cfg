SPECIFICATION FairSpec
CONSTANTS
  Resource = {r1, r2}
  Key <- AllKeys
  ValidKey <- GoodKeys
  Inputs <- SomeInputs
  None = None
  Empty = Empty
  a = a
  b = b
  invalid = invalid
  r1 = r1
  r2 = r2
  x = x
  y = y
  MaxEdits = 3
  MaxFaults = 2
  MaxRefreshes = 1
INVARIANTS TypeOK SettledServed NoOrphans RestlessOnly
PROPERTIES Converges
