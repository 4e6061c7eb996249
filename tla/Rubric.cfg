\* Two servers that boot together, three switches, two judges that submit.
SPECIFICATION Spec
CONSTANTS
  v1 = v1  v2 = v2  s1 = s1  s2 = s2  s3 = s3  j1 = j1  j2 = j2
  Servers = {v1, v2}
  Switches = {s1, s2, s3}
  Judges = {j1, j2}
  Marked = {"Tajweed", "Tafsir", "Saut"}
  AtOnce = 2
  Failing = {v1, s1, s2, s3}
  Absent = Absent
INVARIANTS
  WholeRubric
  SwitchFailsOnlyByRace
CHECK_DEADLOCK FALSE
SYMMETRY Interchangeable
