\* Parts that share no state, one of them in each behaviour.
SPECIFICATION MCSpec
CONSTANTS
  amina = amina  asha = asha
  north = north  south = south
  name1 = name1  name2 = name2
  Blank = Blank  Absent = Blank  Unset = Blank  None = Blank
  AtOnce = 2
  Students = {amina}
  \* interchangeable requests, and requests about letters, of which q1 may die
  Requests = {r1, r2, r3}
  Mailings = {q1, q2, q3}
  FailingMailings = {q1}
  FailingFinalisers = {1}
  \* Competitions
  Comps = {1, 2, 3}
  Items = {x1}
  PriorComps <- TwoComps
  \* Letters: a student, two categories
  Categories = {"juz1_10", "juz30"}
  MaxEdits = 1
  \* Questions: one question of a student
  Numbers = {1}
  Columns = {"envelope_number", "surah_name"}
  Values = {x1, x2}
  \* Documents
  Pupils = {amina, asha}
  Schools = {north, south}
  NationalId <- OwnIds
  Digits <- OwnDigits
  Names = {name1, name2}
  Stem <- Stems
  Clean <- OwnNames
  ColumnsOf <- UploadColumns
  Files = {"scan", "photo"}
  Texts <- SomeTexts
  MaxPatches = 1
  \* Leaderboard: two viewers, of whom v1 may leave, and a moderator; two rounds
  \* of a category, each finalised once
  Viewers = {v1, v2}
  Staff = {w}
  Finalisers = {1, 2}
  Rounds = {"first", "last"}
  Newest = "last"
  Leaving = {v1}
  \* Jobs
  Workers = {w1, w2}
  Dossiers = 2
  Faulty = {1, 2}
  MaxRetries = 1
  MaxCrashes = 1
SYMMETRY Symmetry
INVARIANTS
  CurrentIsUnique
  GalleryKeepsItems
  LastBoardReachesViewers
  DoneHasFile
  RunsAreBounded
  SettledInTheEnd
  RegretsAreLogged
  StudentsKnowTheirReview
  LinksLeadToOwnUploads
  SavedColumnsAreKept
PROPERTIES
  SetCurrentSettles
CHECK_DEADLOCK FALSE
