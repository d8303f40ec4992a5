SPECIFICATION PartSpec
CONSTANTS
  Device = {p1, p2}
  Rating = {0, 1}
  Status = {"reading"}
  Page = {1, 2}
  MaxHlc = 3
  Loose = {l1}
  MaxCopies = 2
  Format = {epub, pdf}
  Digest = {x, y}
  Book = {b1, b2}
  MaxLinks = 2
  Organizer = {o1}
  MaxRoom = 2
  MaxMishaps = 1
SYMMETRY Symmetry
CHECK_DEADLOCK FALSE
INVARIANTS
  RatingIsNewest DeletedStaysDeleted HighestProgressKept
  FilesAreKept
PROPERTY ReplayIsHarmless
