------------------------------ MODULE Curriculum ------------------------------
(***************************************************************************)
(* Opening lessons: useCourseBootstrap, CurriculumSidebar, LessonSearch    *)
(* and LessonContent on top of learningStore.ts (all in frontend/src).     *)
(* Four components load courses and lessons into one store, answers arrive *)
(* in any order, and two of the four check that the level is unlocked.     *)
(*                                                                         *)
(* Abstractions.  A level is the set of its lessons, sorted by order_index *)
(* (which lesson of a level comes first is left open).  Progress is 0 or   *)
(* 100, as LessonContent is the only caller of markProgress.  The PUT of   *)
(* markProgress is left out: nothing reads its result or the stored row.   *)
(* activeLesson and currentLessonId are set together and are one variable; *)
(* equal requests in flight are one.  The content does not change while it *)
(* is loaded, except that a search finds lessons in levels that are newer  *)
(* than the course as it was loaded.                                       *)
(***************************************************************************)
EXTENDS Naturals, Sequences, FiniteSets

CONSTANTS Courses,
          FirstCourse, \* courses[0]
          Levels,      \* the levels of each course, each the set of its lessons
          Strays,      \* lessons of levels that no course as loaded has
          Trackable,   \* isTrackableLessonId: lessons that have a content ref
          None,
          MaxLoads,    \* bound: requests in flight when the student asks for another
          MaxMounts    \* bound: pages opened

Lessons == Strays \cup UNION {UNION {Levels[c][i] : i \in 1 .. Len(Levels[c])} : c \in Courses}
Places == UNION {{c} \X (1 .. Len(Levels[c])) : c \in Courses}

\* A level may be empty (its lessons are drafts), and two levels may have a lesson
\* in common (a duplicate that kept the id of its original).
ASSUME CurriculumAssumption ==
  /\ FirstCourse \in Courses /\ None \notin Courses \cup Lessons /\ Trackable \subseteq Lessons
  /\ \A c \in Courses : Levels[c] \in Seq(SUBSET Lessons)
  /\ \A p \in Places : Levels[p[1]][p[2]] \cap Strays = {}
  /\ MaxLoads \in Nat /\ MaxMounts \in Nat

VARIABLES courses,  \* learningStore: the list of courses is not empty
          course,   \* activeCourse
          lesson,   \* activeLesson, currentLessonId
          progress, \* the lessons with lessonProgress 100; survives a reload
          shell,    \* state of useCourseBootstrap, and the number of the mount
          due,      \* its effects whose dependencies changed
          loads     \* requests in flight

curriculumVars == <<courses, course, lesson, progress, shell, due, loads>>

-----------------------------------------------------------------------------
(* lib/curriculum.ts                                                       *)

IsModuleCompleted(c, i, p) == Levels[c][i] # {} /\ Levels[c][i] \subseteq p
IsModuleLocked(c, i, p) == IF i = 1 THEN FALSE ELSE ~IsModuleCompleted(c, i - 1, p)

\* What the bootstrap opens: an undone lesson of the first level that has one, or
\* a lesson of the first level that has any when all are done.
Filled(c) == {i \in 1 .. Len(Levels[c]) : Levels[c][i] # {}}
Undone(c) == {i \in 1 .. Len(Levels[c]) : ~(Levels[c][i] \subseteq progress)}
First(c, S) == UNION {Levels[c][i] : i \in {j \in S : \A k \in S : j <= k}}
MBootTargets(c) == UNION {Levels[c][i] \ progress : i \in 1 .. Len(Levels[c])}
BootTargets(c) == IF Undone(c) = {} THEN First(c, Filled(c)) ELSE First(c, Undone(c)) \ progress

-----------------------------------------------------------------------------
CurriculumInit ==
  /\ courses = FALSE /\ course = None /\ lesson = None /\ progress = {}
  /\ shell = [mount |-> 0, loading |-> FALSE, error |-> FALSE]
  /\ due = {} /\ loads = {}

store == <<courses, course, lesson>>

\* A request: what it loads, for whom, and the mount whose hook waits for it.
\* at is the level openResult will look at once the course is there.
Request(what, id, by, at) ==
  [what |-> what, id |-> id, by |-> by, at |-> at, mount |-> IF by = "boot" THEN shell'.mount ELSE 0]
Load ==
  [what : {"courses", "settle", "course", "lesson"}, id : Courses \cup Lessons \cup {None},
   by : {"boot", "sidebar", "search"}, at : (Lessons \cup {None}) \X Nat, mount : Nat]
Send(r) == loads' = loads \cup {r}
NoLevel == <<None, 0>>
MayAsk == Cardinality(loads) < MaxLoads

\* A page with a LabShell is opened: the effects of the hook run once, and the
\* first of them asks for the courses.
Mount ==
  /\ shell.mount < MaxMounts
  /\ shell' = [mount |-> shell.mount + 1, loading |-> TRUE, error |-> FALSE]
  /\ due' = {"course", "lesson"}
  /\ Send(Request("courses", None, "boot", NoLevel))
  /\ UNCHANGED <<store, progress>>

\* The browser reloads: of the store only the progress is persisted.
Reload ==
  /\ shell.mount < MaxMounts
  /\ shell' = [mount |-> shell.mount + 1, loading |-> TRUE, error |-> FALSE]
  /\ due' = {"course", "lesson"}
  /\ courses' = FALSE /\ course' = None /\ lesson' = None
  /\ loads' = {Request("courses", None, "boot", NoLevel)}
  /\ UNCHANGED progress

\* onRetry, offered by the sidebar with the error.
Retry ==
  /\ shell.error /\ MayAsk
  /\ shell' = [shell EXCEPT !.loading = TRUE, !.error = FALSE]
  /\ Send(Request("courses", None, "boot", NoLevel))
  /\ UNCHANGED <<store, progress, due>>

\* loadCourses answers, perhaps with an empty list: the store first,
\* coursesLoading in the finally.
CoursesLoaded(r) ==
  /\ r \in loads /\ r.what = "courses"
  /\ loads' = (loads \ {r}) \cup {[r EXCEPT !.what = "settle"]}
  /\ courses' \in BOOLEAN /\ due' = due \cup {"course"}
  /\ UNCHANGED <<course, lesson, progress, shell>>

MSettled(r) ==
  /\ r \in loads /\ r.what = "settle" /\ loads' = loads \ {r}
  /\ IF r.mount # shell.mount THEN UNCHANGED <<shell, due>>
     ELSE shell' = [shell EXCEPT !.loading = FALSE] /\ UNCHANGED due
  /\ UNCHANGED <<store, progress>>
Settled(r) ==
  /\ r \in loads /\ r.what = "settle" /\ loads' = loads \ {r}
  /\ IF r.mount # shell.mount THEN UNCHANGED <<shell, due>>
     ELSE shell' = [shell EXCEPT !.loading = FALSE] /\ due' = due \cup {"course"}
  /\ UNCHANGED <<store, progress>>

\* Any load fails.  The hook shows an error while it is mounted; a failed
\* search or click is a toast or nothing.
LoadFails(r) ==
  /\ r \in loads /\ r.what # "settle"
  /\ loads' = (loads \ {r}) \cup IF r.what = "courses" THEN {[r EXCEPT !.what = "settle"]} ELSE {}
  /\ shell' = IF r.by = "boot" /\ r.mount = shell.mount THEN [shell EXCEPT !.error = TRUE] ELSE shell
  /\ UNCHANGED <<store, progress, due>>

\* The second effect: the first course, once the list is there and has one.
EffectCourse ==
  /\ "course" \in due /\ due' = due \ {"course"}
  /\ IF ~shell.loading /\ course = None /\ courses
     THEN UNCHANGED shell /\ Send(Request("course", FirstCourse, "boot", NoLevel))
     ELSE UNCHANGED <<shell, loads>>
  /\ UNCHANGED <<store, progress>>

\* The third effect: a lesson of the course, while none is open.
EffectLesson ==
  /\ "lesson" \in due /\ due' = due \ {"lesson"}
  /\ IF course = None \/ lesson # None THEN UNCHANGED <<shell, loads>>
     ELSE \/ BootTargets(course) = {} /\ UNCHANGED <<shell, loads>>
          \/ \E l \in BootTargets(course) :
               UNCHANGED shell /\ Send(Request("lesson", l, "boot", NoLevel))
  /\ UNCHANGED <<store, progress>>

\* The rest of openResult, once the course of the result is the active one: the
\* level is locked only if it is found in the course (0: it is not).
OpenGated(c, i, l, others) ==
  IF i > 0 /\ IsModuleLocked(c, i, progress) THEN loads' = others
  ELSE loads' = others \cup {Request("lesson", l, "search", NoLevel)}

\* loadCourse answers, whoever asked.
CourseLoaded(r) ==
  /\ r \in loads /\ r.what = "course"
  /\ course' = r.id /\ due' = due \cup {"course", "lesson"} /\ UNCHANGED shell
  /\ IF r.by = "search" THEN OpenGated(r.id, r.at[2], r.at[1], loads \ {r})
     ELSE loads' = loads \ {r}
  /\ UNCHANGED <<courses, lesson, progress>>

\* loadLesson answers, whoever asked: the last answer wins, not the last click.
LessonLoaded(r) ==
  /\ r \in loads /\ r.what = "lesson" /\ loads' = loads \ {r}
  /\ lesson' = r.id /\ due' = due \cup {"lesson"}
  /\ UNCHANGED <<courses, course, progress, shell>>

-----------------------------------------------------------------------------
(* What the student does                                                   *)

SidebarShown == shell.mount > 0 /\ ~shell.error /\ ~shell.loading /\ course # None
LessonOpened == UNCHANGED <<store, progress, shell, due>>

\* A lesson in a level of the sidebar that toggleModule has opened: it opens no
\* locked level, and one that is locked is shown closed, expanded or not.
ClickLesson(i, l) ==
  /\ SidebarShown /\ MayAsk /\ ~IsModuleLocked(course, i, progress)
  /\ LessonOpened /\ Send(Request("lesson", l, "sidebar", NoLevel))

\* A search result, of any course; the search box is there without a sidebar.
OpenResult(c, i, l) ==
  /\ shell.mount > 0 /\ MayAsk /\ LessonOpened
  /\ IF course # c THEN Send(Request("course", c, "search", <<l, i>>))
     ELSE OpenGated(c, i, l, loads)

\* "Mark complete", offered by LessonContent, and the optimistic half of
\* markProgress.
CanComplete == shell.mount > 0 /\ lesson \in Trackable /\ lesson \notin progress
MarkComplete ==
  /\ CanComplete
  /\ progress' = progress \cup {lesson}
  /\ UNCHANGED <<store, shell, due, loads>>

Answered(r) == CoursesLoaded(r) \/ Settled(r) \/ LoadFails(r) \/ CourseLoaded(r) \/ LessonLoaded(r)
Choose ==
  \/ \E p \in Places, l \in Lessons :
       /\ l \in Levels[p[1]][p[2]]
       /\ OpenResult(p[1], p[2], l) \/ (p[1] = course /\ ClickLesson(p[2], l))
  \/ \E c \in Courses, l \in Strays : OpenResult(c, 0, l)

CurriculumNext ==
  \/ Mount \/ Reload \/ Retry \/ EffectCourse \/ EffectLesson \/ MarkComplete \/ Choose
  \/ \E r \in loads : Answered(r)

HookAnswered(w) == \E r \in loads : r.mount = shell.mount /\ r.what = w /\ Answered(r)

\* React runs the effects it owes, and the fetches of the mounted hook end one
\* way or another.
CurriculumFairness ==
  WF_curriculumVars(EffectCourse) /\ WF_curriculumVars(EffectLesson)
  /\ \A w \in {"courses", "settle", "course", "lesson"} : WF_curriculumVars(HookAnswered(w))

CurriculumSpec == CurriculumInit /\ [][CurriculumNext]_curriculumVars /\ CurriculumFairness

-----------------------------------------------------------------------------
(* The progress page (components/pages/ProgressView.tsx)                   *)

\* Math.round of a share in percent.
PercentOf(done, total) == IF total = 0 THEN 0 ELSE (200 * done + total) \div (2 * total)

\* The tiles above, and one line for each level.
Tiles(c) ==
  LET all == UNION {Levels[c][i] : i \in 1 .. Len(Levels[c])} IN
  [overall |-> PercentOf(Cardinality(all \cap progress), Cardinality(all)),
   levels  |-> Cardinality({i \in 1 .. Len(Levels[c]) : IsModuleCompleted(c, i, progress)}),
   lessons |-> Cardinality(all \cap progress)]
LevelLine(c, i) ==
  [done |-> Cardinality(Levels[c][i] \cap progress), total |-> Cardinality(Levels[c][i]),
   complete |-> IsModuleCompleted(c, i, progress)]

-----------------------------------------------------------------------------
(* Properties                                                              *)

CurriculumTypeOK ==
  /\ courses \in BOOLEAN /\ course \in Courses \cup {None} /\ lesson \in Lessons \cup {None}
  /\ progress \subseteq Lessons /\ due \subseteq {"course", "lesson"} 
  /\ shell \in [mount : Nat, loading : BOOLEAN, error : BOOLEAN]
  /\ loads \subseteq Load

Unlocked(l) == \E p \in Places : l \in Levels[p[1]][p[2]] /\ ~IsModuleLocked(p[1], p[2], progress)

\* A lesson that has its turn: its level is unlocked, or everything in front of
\* the level is done, or no course as loaded has it.
MayOpen(l) ==
  \/ l \in Strays
  \/ Unlocked(l)
  \/ \E p \in Places : /\ l \in Levels[p[1]][p[2]]
                       /\ \A j \in 1 .. p[2] - 1 : Levels[p[1]][j] \subseteq progress

\* Neither the bootstrap, which does not look at locks, nor a sidebar whose
\* levels stay expanded, nor a search across courses puts a lesson on the screen,
\* or asks for one, before its turn.
NoLessonAhead ==
  /\ lesson # None => MayOpen(lesson)
  /\ \A r \in loads : r.what = "lesson" => MayOpen(r.id)

\* ProgressView.tsx:84 and CurriculumSidebar.tsx:117: a level that one page ticks
\* off is shown with a padlock by the other only behind an empty level, or if
\* each of its lessons is in another level too.
OnlyIn(p, l) == \A q \in Places : l \in Levels[q[1]][q[2]] => q = p
MarkedInOrder ==
  \A p \in Places :
    /\ LevelLine(p[1], p[2]).complete /\ IsModuleLocked(p[1], p[2], progress)
    /\ \E l \in Levels[p[1]][p[2]] : OnlyIn(p, l)
    => Levels[p[1]][p[2] - 1] = {}

\* The levels are worked through in their order, whatever loads overlap, and
\* every page says so.
LevelsKept == NoLessonAhead /\ MarkedInOrder

\* The sequential unlock of curriculum.ts: nothing that is only in this level is
\* completed before the whole level in front of it is.
LevelsDoneInOrder ==
  \A p \in Places : p[2] > 1 /\ (\E l \in Levels[p[1]][p[2]] \cap progress : OnlyIn(p, l))
                      => Levels[p[1]][p[2] - 1] \subseteq progress

\* A page that loads its curriculum ends up with it, with an error and its Retry
\* button or, when there is no course, with saying so (CurriculumSidebar.tsx:181),
\* whatever other page was left while its requests ran.
CurriculumArrives ==
  shell.loading ~> (shell.error \/ (~shell.loading /\ (course # None \/ ~courses)))

-----------------------------------------------------------------------------
(* What the code does not keep                                             *)

\* "Pick any unlocked level" (CentralWorkspace.tsx:97): the lesson on the screen is
\* in a level without a padlock.  An empty level is never completed, so it locks the
\* next one for good (curriculum.ts:30), but the bootstrap opens its lessons.
NoLockedLessonOpened == lesson # None => lesson \in Strays \/ Unlocked(lesson)

\* ProgressView.tsx:27: a course is at 100 % when all of it is done.  From 200
\* lessons on the last one is rounded up.
FullMeansDone ==
  \A c \in Courses : Tiles(c).overall = 100 => Tiles(c).levels = Len(Levels[c])
===============================================================================
