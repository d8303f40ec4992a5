SPECIFICATION Spec
CONSTANTS
  Client = {c1, c2}
  Rekeyer = {c1}
  Compactor = {c2}
  MaxOp = 2
  Quota = {1}
  MaxRekeys = 1
  MaxTroubles = 2
  Challenge = {h1, h2}
  Request = {d1, d2}
  MaxAttempts = 2
  MaxStops = 2
  User = {d1, d2}
  Signup = {d1, d2}
  Registering = {d1, d2}
  Shelf = {l1}
  Nobody = Nobody
  Device = {d1, d2}
  Call = {d1, d2}
  Row = {x1, x2}
  Library = {d1, d2}
  MaxEnrolls = 3
  MaxCuts = 1
  Machine = {d1, d2}
  MaxMembers = 2
  MaxTokens = 2
  MaxMessages = 2
  MaxSlips = 1
  Migrator = {d1, d2}
  MaxWrites = 3
  MaxFresh = 2
  MaxKills = 2
SYMMETRY Symmetry
CHECK_DEADLOCK FALSE
INVARIANTS
  PushIsHonoured LibraryIsWhole
  OneSessionPerChallenge LockoutIsExact
  AccountsAreSound
  OneUnapproved DecidedOnce DisabledIsSignedOut
  OptInIsComplete
  NothingIsHidden NoKeyIsLost
