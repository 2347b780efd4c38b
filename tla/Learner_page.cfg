SPECIFICATION LearnerSpec
CONSTANTS
  Courses = {"A", "B"}
  FirstCourse = "A"
  Levels <- MCLevels
  Strays = {"s"}
  Trackable <- MCTrackable
  None = None
  MaxLoads = 2
  MaxMounts = 2
  Queries = {"q1", "q2"}
  NoQuery = NoQuery
  Hits <- MCHits
  MaxTyped = 4
  QuizLessons = {"l1", "l2", "l3"}
  NoLesson = NoLesson
  Described <- MCDescribed
  Authored <- MCAuthored
  Concept <- MCConcept
  Accounts = {"u"}
  NoAccount = NoAccount
  Docs = {"d"}
  MaxVersions = 2
  MaxFetches = 1
INVARIANTS LevelsKept SearchShowsLatestQuery QuizIsSound NoRedirectLoop
PROPERTIES CurriculumArrives SignInCompletes OutdatedEntriesGo
\* Every question may be answered and every version stored.
CHECK_DEADLOCK FALSE
