SPECIFICATION Spec
CONSTANTS
  Device = {p1, p2}
  Tag = {mood, v1, v2}
  Pace = {v1, v2}
  Reader = {r1}
  Editor = {p1, p2}
  Text = {v1, v2}
  Replica = {r1}
  Writer = {p1, p2}
  SettingId = {i1}
  Option = {x, y}
  MaxHlc = 4
  MaxEdits = 3
  MaxResolutions = 1
  MaxTears = 1
  Home = {h1, h2}
  Enrolled = {h1}
  MaxTick = 2
  MaxArchives = 2
  Record = {v1, v2}
  MaxFiles = 4
  Machine = {p1, p2}
  Goodreads = {g}
  Calibre = {c}
  StoryGraph = {s}
  MaxBooks = 3
  MaxImports = 2
  MaxChanges = 1
  Word = {w}
  Author = {a}
  Isbn = {n1}
  SourceId = {i1}
  Label = {"mine"}
  Tempo = {"fast", "slow"}
  DayRead = {1}
  MaxRows = 2
  MaxTitles = 2
  MaxTouches = 1
SYMMETRY Symmetry
CHECK_DEADLOCK FALSE
INVARIANTS
  TagsKeepOrder
  DocumentIsNewest ConflictsAreKept
  SettingIsNewest
  RestoreIsFaithful RowsSurvive
  ImportIsConsistent
  RowsImportOnce
PROPERTY ReplayKeepsText
