\* The parts of the program side by side.
SPECIFICATION Spec
CONSTANTS
  None = None
  missing = missing
  strange = strange
  torn = torn
  stranger = stranger
  home = home
  given = given
  b1 = b1
  b2 = b2
  c1 = c1
  d1 = d1
  da = da
  db = db
  f1 = f1
  f2 = f2
  g1 = g1
  g2 = g2
  n1 = n1
  n2 = n2
  p1 = p1
  p2 = p2
  r1 = r1
  r2 = r2
  s1 = s1
  s2 = s2
  t1 = t1
  t2 = t2
  u1 = u1
  x1 = x1
  x2 = x2
INVARIANTS
  OverCapIsLocked
  TimelineIsWhole
  ForgottenForCause
  CountedOnce
  InstallsCleanly
  PolicyBinds
  
  PlainStartsAgree
  ProjectsAreTrue
  NoneStays
  MirrorsTheServer
  CardsAreTheQueue
  ScreenIsSound
  AnswersMeetQuestions
  TextIsOneRun
  CursorsAreTrue
PROPERTIES
  UnlockOutlastsTheDay
  LedgerIsKept
CHECK_DEADLOCK FALSE
