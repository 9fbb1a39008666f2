CONSTANTS
  t1 = t1
  t2 = t2
  x = x
  y = y
  j1 = j1
  j2 = j2
  None = None
  Session = {"premarket", "after_hours"}
  Target = {t1, t2}
  RowClocks <- MCClocks
  ProbeClocks <- MCClocks
  PerDay = 3
  Minimum = 2
  Answers <- MCAnswers
  Job = {j1, j2}
  MaxTime = 3
  MaxProbes = 2
  MaxEvaluations = 2
SYMMETRY MCSymmetry
SPECIFICATION Spec
CHECK_DEADLOCK FALSE
INVARIANTS
  ReadinessIsEarned
PROPERTIES
  QualifiedDatesStay
