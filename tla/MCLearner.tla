------------------------------ MODULE MCLearner ------------------------------
(***************************************************************************)
(* What a student's browser keeps, one part at a time: the levels, the     *)
(* search box, a quiz, the sign-in, and what the CMS has published.  The   *)
(* parts share no state but activeLesson, which Quiz lets any other        *)
(* component change.                                                       *)
(***************************************************************************)
EXTENDS Curriculum, LessonSearch, Quiz, SignIn, ContentDelivery

VARIABLE part
rest == <<searchVars, quizVars>>
learnerVars == <<curriculumVars, rest, signInVars, deliveryVars, part>>

\* An empty level in front of two, whose first lesson is the second course.
MCLevels == [c \in Courses |-> IF c = "A" THEN <<{}, {"a1"}, {"a2"}>> ELSE <<{"a1"}>>]
MCTrackable == {"a1", "a2"}

MCHits == [q \in Queries |-> IF q = "q1" THEN 2 ELSE 1]
MCDescribed == [l \in QuizLessons |-> IF l = "l1" THEN <<TRUE, FALSE>> ELSE <<>>]
MCConcept == [l \in QuizLessons |-> IF l = "l1" THEN <<"c1", "c2">> ELSE IF l = "l3" THEN <<"c2", "c2">> ELSE <<>>]
MCAuthored == [l \in QuizLessons |-> IF l = "l3" THEN 2 ELSE 0]

LearnerInit ==
  /\ CurriculumInit /\ SearchInit /\ QuizInit /\ SignInInit /\ DeliveryInit
  /\ part \in {"curriculum", "search", "quiz", "signIn", "delivery"}
LearnerNext ==
  /\ UNCHANGED part
  /\ \/ part = "curriculum" /\ CurriculumNext /\ UNCHANGED <<rest, signInVars, deliveryVars>>
     \/ part = "search" /\ SearchNext /\ UNCHANGED <<curriculumVars, quizVars, signInVars, deliveryVars>>
     \/ part = "quiz" /\ QuizNext /\ UNCHANGED <<curriculumVars, searchVars, signInVars, deliveryVars>>
     \/ part = "signIn" /\ SignInNext /\ UNCHANGED <<curriculumVars, rest, deliveryVars>>
     \/ part = "delivery" /\ DeliveryNext /\ UNCHANGED <<curriculumVars, rest, signInVars>>

\* The fairness of CurriculumSpec, SignInSpec and DeliverySpec, while that part
\* runs; that of loading a lesson is not needed.
Fairness ==
  /\ WF_curriculumVars(part = "curriculum" /\ EffectCourse)
  /\ \A w \in {"courses", "settle", "course"} :
       WF_curriculumVars(part = "curriculum" /\ HookAnswered(w))
  /\ WF_signInVars(part = "signIn" /\ Effects)
  /\ \A by \in {"completeSession", "hydrate"} : WF_signInVars(part = "signIn" /\ Attended(by))
  /\ \A k \in Keys :
       /\ WF_deliveryVars(part = "delivery" /\ Fetch(k)) /\ WF_deliveryVars(part = "delivery" /\ Store(k))
       /\ WF_deliveryVars(part = "delivery" /\ Expire(k))
LearnerSpec == LearnerInit /\ [][LearnerNext]_learnerVars /\ Fairness
===============================================================================
