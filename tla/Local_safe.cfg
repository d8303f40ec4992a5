SPECIFICATION PartSpec
CONSTANTS
  Base = 3
  Pad = 3
  CounterMax = 4
  Device = {1, 2}
  MaxWall = 2
  MaxOps = 4
  Shell = {s1, s2}
  Status = {"reading", "read"}
  MaxReadings = 2
  MaxSessions = 2
  MaxEntries = 1
  MaxTime = 3
  MaxOutside = 1
  Plain = {"v", "u"}
  MaxWords = 7
  MaxOdd = 4
  Shelved = {b1, b2}
  Name = {"n", "N"}
  Twin = {"n", "N"}
  Adder = {s1, s2}
  MaxShelves = 2
  MaxUpkeeps = 2
  Title = {b1, b2}
  DaysPerMonth = 2
  MonthsPerYear = 2
  MaxDay = 4
  MaxFacts = 3
  Desk = {s1, s2}
  Number = {n1}
  Heading = {"n", "N"}
  MaxVolumes = 2
  MaxWorks = 2
  MaxEvents = 1
  Browser = {s1, s2}
  MaxRuns = 2
  MaxRows = 2
  Capacity = 2
  Visitor = {s1, s2}
  MaxFailed = 3
  Member = {b1, b2}
  Machine = {s1, s2}
  Password = {"", "p"}
  Blank = ""
  About = {"o1", "o2"}
  MaxDraws = 4
  MaxSealed = 2
  Tome = {b1, b2}
  TomeFormat = {"ebook"}
  Writer = {"n", "N"}
  Namesake = {"n", "N"}
  Mark = {"n"}
  Rating = {7}
  PageCount = {2}
  YearLength = 1
  MonthLength = 1
  LastDay = 1
  MaxFigures = 3
  MaxStints = 2
SYMMETRY Symmetry
CHECK_DEADLOCK FALSE
INVARIANTS
  ClocksKeepOrder
  ProgressJoinsItsReading
  FilterKeepsMeaning
  ShelvesAgree
  ReportsAddUp
  CatalogueFinds
  NobodyWaitsInVain
  WebLockoutIsExact
  KeysOpenTheLibrary
  OpenedAsSealed
