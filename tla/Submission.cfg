SPECIFICATION SubmissionSpec
CONSTANTS
  r1 = r1 r2 = r2 r3 = r3
  w1 = w1 w2 = w2 f1 = f1 f2 = f2 s1 = s1 s2 = s2 s3 = s3
  NoLimit = NoLimit
  NoDate = NoDate
  None = None
  Requests = {r1, r2, r3}
  Tests = {}
  Editors = {}
  Limits = {2}
  Dates = {NoDate}
  MaxTime = 0
  MaxEdits = 0
  MaxFailures = 1
  Workspaces = {w1, w2}
  Forms = {f1, f2}
  Submissions = {s1, s2, s3}
  Prefers <- SameLetters
  Home <- OneHome
  Target <- TwoEach
  Space = 3
  MaxMoves = 1
INVARIANTS SubmissionSafe SharedOnlyAfterMove LettersDistinct
PROPERTIES ImplementsContract EverybodyAnswered FullFormCloses
CHECK_DEADLOCK FALSE
