--------------------------------- MODULE Quiz ---------------------------------
(***************************************************************************)
(* The practice page: quizStore.ts, lib/quiz-generator.ts and              *)
(* components/quiz/ (frontend/src), while the lesson may change under it.  *)
(*                                                                         *)
(* Abstractions.  A concept is its place in the lesson and whether it has a *)
(* description; options are numbers, 1 and 2 are True and False, and where *)
(* shuffle puts them is left out.                                          *)
(***************************************************************************)
EXTENDS Naturals, Sequences, FiniteSets

CONSTANTS QuizLessons, NoLesson,
          Described, \* for each lesson, which of its concepts have a description
          Authored,  \* how many quiz blocks it has,
          Concept    \* and the concept of each of its questions

ASSUME QuizAssumption ==
  /\ NoLesson \notin QuizLessons
  /\ \A l \in QuizLessons :
       /\ Described[l] \in Seq(BOOLEAN) /\ Authored[l] \in Nat
       /\ 1 .. (IF Authored[l] > 0 THEN Authored[l] ELSE Len(Described[l])) \subseteq DOMAIN Concept[l]

VARIABLES shown,     \* activeLesson
          reload,    \* the effect on activeLesson.id is due
          quiz,      \* quizStore: the questions,
          index,     \* the one on screen, currentIndex + 1,
          answers,   \* the option chosen for each, 0 for none,
          hints,     \* the questions whose hint was shown,
          score,     \* and the score
          submitted, \* state of QuizWorkspace
          mastered   \* concepts whose mastery is 1

quizVars == <<shown, reload, quiz, index, answers, hints, score, submitted, mastered>>

-----------------------------------------------------------------------------
(* lib/quiz-generator.ts.  A quiz is any of the set, as options are chosen  *)
(* at random.                                                              *)

Question(l, k, options, correct) == [id |-> <<l, k>>, options |-> options, correct |-> correct]

\* concept_id, which quiz blocks of one or of several lessons may share.
ConceptOf(q) == Concept[q.id[1]][q.id[2]]

\* "False" needs the description of another concept.
TrueFalse(l, k) ==
  LET others == {j \in DOMAIN Described[l] \ {k} : Described[l][j]} IN
  {Question(l, k, 1 .. 2, c) : c \in IF others = {} THEN {1} ELSE {1, 2}}
MultipleChoice(l, k) == {Question(l, k, DOMAIN Described[l], k)}

\* generateQuizFromLesson: authored questions first, whose correctAnswer is one
\* of their options, as the CMS validates.
Quizzes(l) ==
  IF Authored[l] > 0
  THEN {[k \in 1 .. Authored[l] |-> Question(l, k, 1 .. 2, right[k])] : right \in [1 .. Authored[l] -> 1 .. 2]}
  ELSE LET n == Len(Described[l])
           Possible(k) == IF n > 1 /\ Described[l][k] THEN MultipleChoice(l, k) ELSE TrueFalse(l, k)
       IN {q \in [1 .. n -> UNION {Possible(k) : k \in 1 .. n}] : \A k \in 1 .. n : q[k] \in Possible(k)}

-----------------------------------------------------------------------------
QuizInit ==
  /\ shown = NoLesson /\ reload = TRUE /\ quiz = <<>> /\ index = 1 /\ answers = <<>> /\ hints = {}
  /\ score = 0 /\ submitted = FALSE /\ mastered = {}

\* Any component changes activeLesson (Curriculum); the search box is on the
\* page, and the bootstrap may be late.
LessonChanges(l) ==
  /\ l # shown /\ shown' = l /\ reload' = TRUE
  /\ UNCHANGED <<quiz, index, answers, hints, score, submitted, mastered>>

\* loadQuizForLesson, from the effect.
MLoadQuiz ==
  /\ reload /\ reload' = FALSE /\ shown # NoLesson
  /\ quiz' \in Quizzes(shown) /\ answers' = [k \in DOMAIN quiz' |-> 0] /\ score' = 0
  /\ hints' = {} /\ UNCHANGED <<shown, submitted, mastered, index>>
LoadQuiz ==
  /\ reload /\ reload' = FALSE
  /\ IF shown = NoLesson THEN UNCHANGED <<quiz, index, answers, hints, score>>
     ELSE /\ quiz' \in Quizzes(shown) /\ index' = 1 /\ answers' = [k \in DOMAIN quiz' |-> 0]
          /\ hints' = {} /\ score' = 0
  /\ UNCHANGED <<shown, submitted, mastered>>

\* The questions are on the page.
OnScreen == shown # NoLesson /\ quiz # <<>> /\ ~submitted
onPage == <<shown, reload, quiz, submitted>>

\* AnswerOptions: an answer may be changed, not taken back.
SetAnswer(o) ==
  /\ OnScreen /\ o \in quiz[index].options
  /\ answers' = [answers EXCEPT ![index] = o]
  /\ UNCHANGED <<onPage, index, hints, score, mastered>>

UseHint ==
  /\ OnScreen /\ hints' = hints \cup {index}
  /\ UNCHANGED <<onPage, index, answers, score, mastered>>

Previous ==
  /\ OnScreen /\ index > 1 /\ index' = index - 1
  /\ UNCHANGED <<onPage, answers, hints, score, mastered>>

\* handleNext: QuizNavigation enables it once the question is answered.
NextQuestion ==
  /\ OnScreen /\ answers[index] # 0 /\ index < Len(quiz) /\ index' = index + 1
  /\ UNCHANGED <<onPage, answers, hints, score, mastered>>

\* Math.round of the percentage.
Percent(part, whole) == (200 * part + whole) \div (2 * whole)

\* The last question on a concept decides on its mastery.
Submit ==
  LET right == {k \in DOMAIN quiz : answers[k] = quiz[k].correct}
      IsLast(k) == \A j \in DOMAIN quiz : ConceptOf(quiz[j]) = ConceptOf(quiz[k]) => j <= k
  IN
  /\ OnScreen /\ answers[index] # 0 /\ index = Len(quiz)
  /\ score' = Percent(Cardinality(right), Len(quiz))
  /\ mastered' = (mastered \ {ConceptOf(quiz[k]) : k \in DOMAIN quiz})
                  \cup {ConceptOf(quiz[k]) : k \in {j \in right : IsLast(j)}}
  /\ submitted' = TRUE
  /\ UNCHANGED <<shown, reload, quiz, index, answers, hints>>

\* The page is left and opened again: quizStore stays.
Remount ==
  /\ submitted' = FALSE /\ reload' = TRUE
  /\ UNCHANGED <<shown, quiz, index, answers, hints, score, mastered>>

QuizNext ==
  \/ LoadQuiz \/ UseHint \/ Previous \/ NextQuestion \/ Submit \/ Remount
  \/ \E l \in QuizLessons : LessonChanges(l)
  \/ OnScreen /\ \E o \in quiz[index].options : SetAnswer(o)

QuizSpec == QuizInit /\ [][QuizNext]_quizVars

-----------------------------------------------------------------------------
\* However the lesson changes while a quiz is taken: there is a question on the
\* screen (QuizWorkspace reads quiz[currentIndex].options unchecked), it can be
\* answered right, and every question in front of it has been answered with one
\* of its own options, not with an answer to the question of another lesson.
QuizIsSound ==
  /\ DOMAIN answers = DOMAIN quiz
  /\ quiz # <<>> => index \in 1 .. Len(quiz)
  /\ \A k \in DOMAIN quiz : quiz[k].correct \in quiz[k].options /\ answers[k] \in quiz[k].options \cup {0}
  /\ \A k \in DOMAIN quiz : k < index => answers[k] # 0

\* A score, and the mastery it updates, counts answers to every question of
\* one lesson.
OnlyFullQuizzesAreScored ==
  [][submitted' /\ ~submitted => \A k \in DOMAIN quiz : answers[k] # 0 /\ quiz[k].id[1] = quiz[1].id[1]]_quizVars
===============================================================================
