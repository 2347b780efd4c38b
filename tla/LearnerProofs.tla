---------------------------- MODULE LearnerProofs ----------------------------
(***************************************************************************)
(* The safety of Curriculum, LessonSearch, Quiz and SignIn for every       *)
(* course, quiz and set of accounts.                                       *)
(***************************************************************************)
EXTENDS Curriculum, LessonSearch, Quiz, SignIn, SequenceTheorems, TLAPS

-----------------------------------------------------------------------------
(* SignIn.  hops alone is not inductive: how many redirects led to a page   *)
(* depends on the page, and one that has run its effect sends nobody away.  *)

HopsInv ==
  /\ hops \in Nat /\ page \in Pages
  /\ page \in {"home", "callback"} => hops = 0
  /\ page \in {"login", "register"} => hops <= 1
  /\ page = "app" => hops <= 2

LEMMA HopsInit == SignInInit => HopsInv
  BY DEF SignInInit, HopsInv, Pages

LEMMA HopsStep == HopsInv /\ [SignInNext]_signInVars => HopsInv'
<1> SUFFICES ASSUME HopsInv, [SignInNext]_signInVars PROVE HopsInv'
  OBVIOUS
<1> USE DEF HopsInv, Pages
<1>1. ASSUME NEW p \in Pages, Visit(p) PROVE HopsInv'
  BY <1>1 DEF Visit, Arrive, Middleware
<1>2. ASSUME NEW p \in Pages, LoadPage(p) PROVE HopsInv'
  BY <1>2 DEF LoadPage, Arrive, Middleware
<1>3. CASE ReturnFromGoogle
  BY <1>2, <1>3 DEF ReturnFromGoogle
<1>4. CASE Logout
  BY <1>4 DEF Logout, Arrive, Middleware
<1>5. CASE CookieExpires \/ SessionEnds \/ AskOther
  BY <1>5 DEF CookieExpires, SessionEnds, AskOther
<1>6. ASSUME NEW a \in Accounts, Login(a) PROVE HopsInv'
  BY <1>6 DEF Login, Arrive, Middleware
<1>7. ASSUME NEW a \in Accounts, CodeExchanged(a) PROVE HopsInv'
  BY <1>7 DEF CodeExchanged
<1>8. CASE LoginEffect
  BY <1>8 DEF LoginEffect, Arrive, Middleware
<1>9. CASE Hydrate
  BY <1>9 DEF Hydrate
<1>10. CASE HomeEffect
  BY <1>10 DEF HomeEffect, Arrive, Middleware
<1>11. CASE CallbackEffect
  BY <1>11 DEF CallbackEffect, CompleteSession, Arrive, Middleware
<1>12. ASSUME NEW r \in me, Served(r) PROVE HopsInv'
  BY <1>12 DEF Served, SelectUser, InsertUser, ProfileArrives, ProfileFails, browserSide
<1>13. CASE UNCHANGED signInVars
  BY <1>13 DEF signInVars
<1> QED
  BY <1>1, <1>2, <1>3, <1>4, <1>5, <1>6, <1>7, <1>8, <1>9, <1>10, <1>11, <1>12, <1>13 DEF SignInNext, Effects

\* The pages and the middleware redirect a visitor twice at most, whatever
\* became of cookie and session (hooks/useAuth.ts, middleware.ts).
THEOREM RedirectsEnd == SignInSpec => []NoRedirectLoop
<1>1. HopsInv => NoRedirectLoop
  BY DEF Pages, HopsInv, NoRedirectLoop
<1> QED
  BY HopsInit, HopsStep, <1>1, PTL DEF SignInSpec

LEMMA StagesOf ==
  ASSUME NEW r \in MeRequest, NEW s \in {"sent", "absent", "known"}
  PROVE  r.account \in Accounts /\ [r EXCEPT !.stage = s] \in MeRequest /\ Orphans({r}) \subseteq MeRequest
BY DEF MeRequest, Orphans

\* Whoever is signed in, has a token or a profile, or a row in the database is
\* an account, and each of its requests is at one of the awaits of _sync_user.
THEOREM SignInTypeCorrect == SignInSpec => []SignInTypeOK
<1>1. SignInInit => SignInTypeOK
  <2>1. 0 \in Nat /\ "home" \in Pages
    BY DEF Pages
  <2> QED
    BY <2>1 DEF SignInInit, SignInTypeOK
<1>2. SignInTypeOK /\ [SignInNext]_signInVars => SignInTypeOK'
  <2> SUFFICES ASSUME SignInTypeOK, [SignInNext]_signInVars PROVE SignInTypeOK'
    OBVIOUS
  <2> USE DEF SignInTypeOK
  <2>1. \A p \in Pages, flag \in BOOLEAN : Middleware(p, flag) \in Pages
    BY DEF Middleware, Pages
  <2>2. ASSUME NEW p \in Pages, NEW flag \in BOOLEAN, NEW n \in Nat, Arrive(p, flag, n)
        PROVE  page' \in Pages /\ effect' \in BOOLEAN /\ hops' \in Nat
    BY <2>1, <2>2 DEF Arrive
  <2>3. ASSUME NEW a \in Accounts, NEW by \in {"completeSession", "hydrate"}, AskForProfile(a, by)
        PROVE  me' \subseteq MeRequest /\ rows' \subseteq Accounts /\ quiet' \subseteq rows' /\ missed' \in BOOLEAN
    <3>1. me' \subseteq MeRequest
      BY <2>3 DEF AskForProfile, MeRequest
    <3> QED
      BY <2>3, <3>1 DEF AskForProfile
  <2>4. "app" \in Pages /\ "login" \in Pages /\ "callback" \in Pages /\ TRUE \in BOOLEAN /\ FALSE \in BOOLEAN
        /\ 0 \in Nat /\ hops + 1 \in Nat
    BY DEF Pages
  <2>5. ASSUME NEW p \in Pages, Visit(p) PROVE SignInTypeOK'
    BY <2>2, <2>4, <2>5 DEF Visit, profile
  <2>6. ASSUME NEW p \in Pages, LoadPage(p) PROVE SignInTypeOK'
    <3>1. me' \subseteq MeRequest
      BY <2>6 DEF LoadPage, Orphans, MeRequest
    <3> QED
      BY <2>2, <2>4, <2>6, <3>1 DEF LoadPage
  <2>17. CASE ReturnFromGoogle
    BY <2>4, <2>6, <2>17 DEF ReturnFromGoogle
  <2>18. CASE AskOther
    <3>1. me' \subseteq MeRequest
      BY <2>18 DEF AskOther, MeRequest
    <3> QED
      BY <2>18, <3>1 DEF AskOther
  <2>7. CASE Logout
    BY <2>2, <2>4, <2>7 DEF Logout, profile
  <2>8. CASE CookieExpires \/ SessionEnds
    <3>1. /\ cookie' \in {cookie, FALSE} /\ session' \in {session, NoAccount} /\ hops' = 0
          /\ UNCHANGED <<page, effect, jwt, user, me, rows, quiet, missed>>
      BY <2>8 DEF CookieExpires, SessionEnds, profile
    <3> QED
      BY <2>4, <3>1
  <2>9. ASSUME NEW a \in Accounts, Login(a) PROVE SignInTypeOK'
    BY <2>2, <2>3, <2>4, <2>9 DEF Login
  <2>10. ASSUME NEW a \in Accounts, CodeExchanged(a) PROVE SignInTypeOK'
    BY <2>4, <2>10 DEF CodeExchanged, profile
  <2>11. CASE LoginEffect
    BY <2>2, <2>4, <2>11 DEF LoginEffect, profile
  <2>12. CASE Hydrate
    BY <2>3, <2>12 DEF Hydrate, profile
  <2>13. CASE HomeEffect
    BY <2>2, <2>4, <2>13 DEF HomeEffect, profile
  <2>14. CASE CallbackEffect
    BY <2>2, <2>3, <2>4, <2>14 DEF CallbackEffect, CompleteSession, profile
  <2>15. ASSUME NEW r \in me, Served(r) PROVE SignInTypeOK'
    <3>1. r.account \in Accounts /\ Orphans({r}) \subseteq MeRequest
          /\ \A s \in {"absent", "known"} : [r EXCEPT !.stage = s] \in MeRequest
      BY StagesOf
    <3>2. UNCHANGED <<page, effect, cookie, session, jwt, hops>>
      BY <2>15 DEF Served, SelectUser, InsertUser, ProfileArrives, ProfileFails, browserSide
    <3>3. CASE SelectUser(r)
      <4>1. me' \subseteq MeRequest
        BY <3>1, <3>3 DEF SelectUser, MeMoves
      <4> QED
        BY <3>2, <3>3, <4>1 DEF SelectUser
    <3>4. CASE InsertUser(r)
      <4>1. me' \subseteq MeRequest /\ rows' \subseteq Accounts /\ quiet' \subseteq rows' /\ missed' \in BOOLEAN
        BY <3>1, <3>4 DEF InsertUser, MeMoves
      <4> QED
        BY <3>2, <3>4, <4>1 DEF InsertUser
    <3>5. CASE ProfileArrives(r)
      BY <3>1, <3>2, <3>5 DEF ProfileArrives
    <3>6. CASE ProfileFails(r)
      BY <3>1, <3>2, <3>6 DEF ProfileFails
    <3> QED
      BY <2>15, <3>3, <3>4, <3>5, <3>6 DEF Served
  <2>16. CASE UNCHANGED signInVars
    BY <2>16 DEF signInVars
  <2> QED
    BY <2>5, <2>6, <2>7, <2>8, <2>9, <2>10, <2>11, <2>12, <2>13, <2>14, <2>15, <2>16, <2>17, <2>18 DEF SignInNext, Effects
<1> QED
  BY <1>1, <1>2, PTL DEF SignInSpec

-----------------------------------------------------------------------------
(* LessonSearch.  A request that carries the latest number asks for what is *)
(* in the box, and then no timer runs.                                     *)

BoxType ==
  [query : Queries \cup {NoQuery}, open : BOOLEAN, loading : BOOLEAN, error : BOOLEAN, active : Nat]

SearchInv ==
  /\ box \in BoxType
  /\ results \in [of : Queries \cup {NoQuery}, n : Nat] /\ latest \in Nat
  /\ timer \in {NoQuery, box.query}
  /\ \A a \in asked : a \in [id : 0 .. latest, q : Queries]
  /\ \A a \in asked : a.id = latest => a.q = box.query /\ timer = NoQuery
  /\ SearchShowsLatestQuery

LEMMA SearchInitial == SearchInit => SearchInv
  BY SearchAssumption DEF SearchInit, SearchInv, BoxType, SearchShowsLatestQuery, NoResults

LEMMA QueryChangedKeeps ==
  ASSUME SearchInv, NEW q \in Queries \cup {NoQuery}, NEW o \in BOOLEAN, QueryChanged(q, o), asked' = asked
  PROVE  SearchInv'
<1> USE SearchAssumption
<1>1. CASE q = NoQuery
  <2>1. /\ box'.query = q /\ ~box'.loading /\ results' = NoResults /\ box' \in BoxType
        /\ latest' = latest + 1 /\ timer' = q
    BY <1>1 DEF QueryChanged, SearchInv, BoxType
  <2> QED
    BY <1>1, <2>1 DEF SearchInv, SearchShowsLatestQuery, NoResults
<1>2. CASE q # NoQuery
  <2>1. /\ box'.query = q /\ box'.loading = TRUE /\ box'.active = box.active /\ box' \in BoxType
        /\ results' = results /\ latest' = latest + 1 /\ timer' = q
    BY <1>2 DEF QueryChanged, SearchInv, BoxType
  <2> QED
    BY <1>2, <2>1 DEF SearchInv, SearchShowsLatestQuery
<1> QED
  BY <1>1, <1>2

LEMMA SearchStep == SearchInv /\ [SearchNext]_searchVars => SearchInv'
<1> SUFFICES ASSUME SearchInv, [SearchNext]_searchVars PROVE SearchInv'
  OBVIOUS
<1> USE SearchAssumption
<1>1. ASSUME NEW q \in Queries \cup {NoQuery}, Type(q) PROVE SearchInv'
  BY <1>1, QueryChangedKeeps DEF Type
<1>2. CASE DebounceEnds
  <2>1. timer = box.query /\ box.query \in Queries
    BY <1>2 DEF DebounceEnds, SearchInv, BoxType
  <2>2. [id |-> latest, q |-> box.query] \in [id : 0 .. latest, q : Queries]
    BY <2>1 DEF SearchInv
  <2> QED
    BY <1>2, <2>1, <2>2 DEF DebounceEnds, SearchInv, SearchShowsLatestQuery
<1>3. ASSUME NEW a \in asked, SearchAnswered(a) PROVE SearchInv'
  <2>1. a \in [id : 0 .. latest, q : Queries] /\ Hits[a.q] \in Nat
    BY DEF SearchInv
  <2>2. CASE a.id # latest
    <3>1. [id |-> latest, q |-> box.query] # a
      BY <2>2
    <3> QED
      BY <1>3, <2>2, <3>1 DEF SearchAnswered, Found, SearchInv, SearchShowsLatestQuery
  <2>3. CASE a.id = latest
    <3>1. /\ results' = [of |-> a.q, n |-> Hits[a.q]] /\ asked' = asked \ {a}
          /\ box' = [box EXCEPT !.active = 0, !.error = FALSE, !.loading = FALSE]
          /\ latest' = latest /\ timer' = timer
      BY <1>3, <2>3 DEF SearchAnswered, Found
    <3>3. results' \in [of : Queries \cup {NoQuery}, n : Nat] /\ results'.of = a.q
      BY <3>1, <2>1
    <3>4. box'.query = box.query /\ box'.active = 0 /\ box'.loading = FALSE /\ box' \in BoxType
      BY <3>1 DEF SearchInv, BoxType
    <3>2. a.q = box.query
      BY <2>3 DEF SearchInv
    <3> QED
      BY <3>1, <3>2, <3>3, <3>4 DEF SearchInv, SearchShowsLatestQuery
  <2> QED
    BY <2>2, <2>3
<1>4. ASSUME NEW a \in asked, SearchFails(a) PROVE SearchInv'
  <2>1. CASE a.id # latest
    <3>1. [id |-> latest, q |-> box.query] # a
      BY <2>1
    <3> QED
      BY <1>4, <2>1, <3>1 DEF SearchFails, SearchInv, SearchShowsLatestQuery
  <2>2. CASE a.id = latest
    <3>1. /\ box'.query = box.query /\ box'.error = TRUE /\ ~box'.loading /\ box' \in BoxType
          /\ results' = NoResults /\ UNCHANGED <<latest, timer>> /\ asked' = asked \ {a}
      BY <1>4, <2>2 DEF SearchFails, SearchInv, BoxType
    <3> QED
      BY <3>1 DEF SearchInv, SearchShowsLatestQuery, NoResults
  <2> QED
    BY <2>1, <2>2
<1>5. CASE ShowOrHide
  <2>1. /\ box'.query = box.query /\ box'.loading = box.loading /\ box'.error = box.error
        /\ box'.active = box.active /\ box' \in BoxType
    BY <1>5 DEF ShowOrHide, SearchInv, BoxType
  <2> QED
    BY <1>5, <2>1 DEF ShowOrHide, SearchInv, SearchShowsLatestQuery
<1>6. CASE Highlight
  <2>1. PICK i \in {(box.active + 1) % results.n, (box.active + results.n - 1) % results.n}
                     \cup 0 .. results.n - 1 : box' = [box EXCEPT !.active = i]
    BY <1>6 DEF Highlight
  <2>2. results.n \in Nat \ {0} /\ box.active \in Nat
    BY <1>6 DEF Highlight, SearchInv, BoxType
  <2>3. \A x \in Nat : x % results.n \in 0 .. results.n - 1
    BY <2>2
  <2>4. i \in Nat /\ i < results.n
    BY <2>1, <2>2, <2>3
  <2>5. /\ box'.query = box.query /\ box'.loading = box.loading /\ box'.error = box.error
        /\ box'.active = i /\ box' \in BoxType
    BY <2>1, <2>4 DEF SearchInv, BoxType
  <2> QED
    BY <1>6, <2>4, <2>5 DEF Highlight, SearchInv, SearchShowsLatestQuery
<1>7. CASE Pick
  BY <1>7 DEF Pick, SearchInv, SearchShowsLatestQuery
<1>8. CASE Picked
  <2>1. CASE box.query # NoQuery /\ QueryChanged(NoQuery, FALSE)
    BY <1>8, <2>1, QueryChangedKeeps DEF Picked
  <2>2. CASE box.query = NoQuery /\ box' = [box EXCEPT !.open = FALSE] /\ UNCHANGED <<results, latest, timer>>
    <3>1. /\ box'.query = box.query /\ box'.loading = box.loading /\ box'.error = box.error
          /\ box'.active = box.active /\ box' \in BoxType
      BY <2>2 DEF SearchInv, BoxType
    <3> QED
      BY <1>8, <2>2, <3>1 DEF Picked, SearchInv, SearchShowsLatestQuery
  <2>3. CASE UNCHANGED <<box, results, latest, timer>>
    BY <1>8, <2>3 DEF Picked, SearchInv, SearchShowsLatestQuery
  <2> QED
    BY <1>8, <2>1, <2>2, <2>3 DEF Picked
<1>9. CASE UNCHANGED searchVars
  BY <1>9 DEF searchVars, SearchInv, SearchShowsLatestQuery
<1> QED
  BY <1>1, <1>2, <1>3, <1>4, <1>5, <1>6, <1>7, <1>8, <1>9 DEF SearchNext

\* Responses for superseded queries are dropped (LessonSearch.tsx:38): the list
\* is that of the query in the box, for any number of requests in flight.
THEOREM SearchIsCurrent == SearchSpec => []SearchShowsLatestQuery
<1>1. SearchInv => SearchShowsLatestQuery
  BY DEF SearchInv
<1> QED
  BY SearchInitial, SearchStep, <1>1, PTL DEF SearchSpec

-----------------------------------------------------------------------------
(* Quiz.  A quiz is made of one lesson, and each of its questions has its    *)
(* right answer among its options.                                         *)

Questions == [id : QuizLessons \X Nat, options : SUBSET (Nat \ {0}), correct : Nat]

LEMMA QuizShape ==
  ASSUME NEW l \in QuizLessons, NEW q \in Quizzes(l)
  PROVE  /\ q \in Seq(Questions)
         /\ \A k \in 1 .. Len(q) : q[k].id[1] = l /\ q[k].correct \in q[k].options
<1> USE QuizAssumption
<1> DEFINE Fine(x) == x \in Questions /\ x.id[1] = l /\ x.correct \in x.options
<1>1. ASSUME NEW k \in Nat, NEW S \in SUBSET (Nat \ {0}), NEW c \in S PROVE Fine(Question(l, k, S, c))
  BY <1>1 DEF Question, Questions
<1>2. ASSUME NEW n \in Nat, DOMAIN q = 1 .. n, q = [k \in 1 .. n |-> q[k]], \A k \in 1 .. n : Fine(q[k])
      PROVE  q \in Seq(Questions) /\ \A k \in 1 .. Len(q) : Fine(q[k])
  <2>1. q \in [1 .. n -> Questions]
    BY <1>2
  <2>2. q \in Seq(Questions)
    BY <2>1
  <2> QED
    BY <1>2, <2>2, LenProperties
<1>3. CASE Authored[l] > 0
  <2>1. PICK right \in [1 .. Authored[l] -> 1 .. 2] :
          q = [k \in 1 .. Authored[l] |-> Question(l, k, 1 .. 2, right[k])]
    BY <1>3 DEF Quizzes
  <2> HIDE DEF Fine
  <2>2. \A k \in 1 .. Authored[l] : Fine(q[k])
    <3> SUFFICES ASSUME NEW k \in 1 .. Authored[l] PROVE Fine(q[k])
      OBVIOUS
    <3>1. q[k] = Question(l, k, 1 .. 2, right[k]) /\ k \in Nat /\ right[k] \in 1 .. 2 /\ 1 .. 2 \in SUBSET (Nat \ {0})
      BY <2>1
    <3> QED
      BY <1>1, <3>1
  <2>3. q \in Seq(Questions) /\ \A k \in 1 .. Len(q) : Fine(q[k])
    BY <1>2, <2>1, <2>2
  <2> QED
    BY <2>3 DEF Fine
<1>4. CASE ~(Authored[l] > 0)
  <2> DEFINE n == Len(Described[l])
             Possible(k) == IF n > 1 /\ Described[l][k] THEN MultipleChoice(l, k) ELSE TrueFalse(l, k)
  <2>1. n \in Nat /\ DOMAIN Described[l] = 1 .. n
    BY LenProperties
  <2>2. q \in [1 .. n -> UNION {Possible(k) : k \in 1 .. n}] /\ \A k \in 1 .. n : q[k] \in Possible(k)
    BY <1>4 DEF Quizzes
  <2>3. ASSUME NEW k \in 1 .. n, NEW x \in Possible(k) PROVE Fine(x)
    <3>1. CASE x \in MultipleChoice(l, k)
      <4>1. x = Question(l, k, 1 .. n, k) /\ 1 .. n \in SUBSET (Nat \ {0}) /\ k \in Nat
        BY <2>1, <3>1 DEF MultipleChoice
      <4> QED
        BY <1>1, <4>1
    <3>2. CASE x \in TrueFalse(l, k)
      <4>1. PICK c \in {1, 2} : x = Question(l, k, 1 .. 2, c)
        BY <3>2 DEF TrueFalse
      <4> QED
        BY <1>1, <2>1, <4>1
    <3> QED
      BY <2>3, <3>1, <3>2
  <2> HIDE DEF Fine, Possible, n
  <2>4. DOMAIN q = 1 .. n /\ q = [k \in 1 .. n |-> q[k]] /\ \A k \in 1 .. n : Fine(q[k])
    BY <2>2, <2>3
  <2>5. q \in Seq(Questions) /\ \A k \in 1 .. Len(q) : Fine(q[k])
    BY <1>2, <2>1, <2>4
  <2> QED
    BY <2>5 DEF Fine
<1> QED
  BY <1>3, <1>4

QuizInv ==
  /\ shown \in QuizLessons \cup {NoLesson}
  /\ quiz \in Seq(Questions) /\ answers \in Seq(Nat) /\ Len(answers) = Len(quiz) /\ index \in Nat
  /\ quiz # <<>> => index \in 1 .. Len(quiz)
  /\ \A k \in 1 .. Len(quiz) :
       /\ quiz[k].correct \in quiz[k].options /\ answers[k] \in quiz[k].options \cup {0}
       /\ quiz[k].id[1] = quiz[1].id[1]
       /\ k < index => answers[k] # 0

LEMMA QuizInitial == QuizInit => QuizInv
<1> SUFFICES ASSUME QuizInit PROVE QuizInv
  OBVIOUS
<1>1. <<>> \in Seq(Questions) /\ <<>> \in Seq(Nat) /\ Len(<<>>) = 0
  BY EmptySeq
<1> QED
  BY <1>1 DEF QuizInit, QuizInv

LEMMA NonEmptyQuiz ==
  ASSUME NEW s \in Seq(Questions) PROVE s # <<>> <=> Len(s) > 0
BY EmptySeq, LenProperties

LEMMA QuizStep == QuizInv /\ [QuizNext]_quizVars => QuizInv'
<1> SUFFICES ASSUME QuizInv, [QuizNext]_quizVars PROVE QuizInv'
  OBVIOUS
<1> USE QuizAssumption
<1>1. CASE LoadQuiz
  <2>1. CASE shown = NoLesson
    BY <1>1, <2>1 DEF LoadQuiz, QuizInv
  <2>2. CASE shown # NoLesson
    <3>1. /\ quiz' \in Quizzes(shown) /\ index' = 1 /\ answers' = [k \in DOMAIN quiz' |-> 0]
          /\ shown' = shown /\ shown \in QuizLessons
      BY <1>1, <2>2 DEF LoadQuiz, QuizInv
    <3>2. /\ quiz' \in Seq(Questions)
          /\ \A k \in 1 .. Len(quiz') : quiz'[k].id[1] = shown /\ quiz'[k].correct \in quiz'[k].options
      BY <3>1, QuizShape
    <3>3. Len(quiz') \in Nat /\ DOMAIN quiz' = 1 .. Len(quiz')
      BY <3>2, LenProperties
    <3>4. answers' \in [1 .. Len(quiz') -> Nat]
      BY <3>1, <3>3
    <3>5. answers' \in Seq(Nat) /\ Len(answers') = Len(quiz')
      BY <3>3, <3>4, LenProperties
    <3>6. quiz' # <<>> => Len(quiz') > 0
      BY <3>2, NonEmptyQuiz
    <3> QED
      BY <3>1, <3>2, <3>3, <3>5, <3>6 DEF QuizInv
  <2> QED
    BY <2>1, <2>2
<1>2. ASSUME OnScreen, NEW o \in quiz[index].options, SetAnswer(o) PROVE QuizInv'
  <2>1. index \in 1 .. Len(quiz) /\ Len(quiz) \in Nat /\ DOMAIN answers = 1 .. Len(quiz)
    BY <1>2, LenProperties DEF OnScreen, QuizInv
  <2>2. o \in Nat \ {0}
    <3>1. quiz[index] \in Questions
      BY <2>1, ElementOfSeq DEF QuizInv
    <3> QED
      BY <1>2, <3>1 DEF Questions
  <2>3. /\ answers' = [answers EXCEPT ![index] = o] /\ UNCHANGED <<shown, quiz, index>>
    BY <1>2 DEF SetAnswer, onPage
  <2>4. /\ answers' \in Seq(Nat) /\ Len(answers') = Len(answers)
    BY <2>1, <2>2, <2>3, ExceptSeq DEF QuizInv
  <2>5. \A k \in 1 .. Len(quiz) : answers'[k] = IF k = index THEN o ELSE answers[k]
    BY <2>1, <2>3
  <2> QED
    BY <1>2, <2>1, <2>2, <2>3, <2>4, <2>5 DEF QuizInv
<1>3. CASE UseHint
  BY <1>3 DEF UseHint, onPage, QuizInv
<1>4. CASE Previous
  BY <1>4, LenProperties DEF Previous, onPage, QuizInv
<1>5. CASE NextQuestion
  <2>1. index \in 1 .. Len(quiz) /\ Len(quiz) \in Nat
    BY <1>5, LenProperties DEF NextQuestion, OnScreen, QuizInv
  <2> QED
    BY <1>5, <2>1 DEF NextQuestion, onPage, QuizInv
<1>6. CASE Submit
  BY <1>6 DEF Submit, QuizInv
<1>7. CASE Remount
  BY <1>7 DEF Remount, QuizInv
<1>8. ASSUME NEW l \in QuizLessons, LessonChanges(l) PROVE QuizInv'
  BY <1>8 DEF LessonChanges, QuizInv
<1>9. CASE UNCHANGED quizVars
  BY <1>9 DEF quizVars, QuizInv
<1> QED
  BY <1>1, <1>2, <1>3, <1>4, <1>5, <1>6, <1>7, <1>8, <1>9 DEF QuizNext

\* The page always shows an existing question, each with a right answer among
\* its options and an answer of its own (QuizWorkspace.tsx, quizStore.ts), for
\* every number of lessons, concepts and questions.
THEOREM QuizStaysSound == QuizSpec => []QuizIsSound
<1>1. QuizInv => QuizIsSound
  BY LenProperties DEF QuizInv, QuizIsSound
<1> QED
  BY QuizInitial, QuizStep, <1>1, PTL DEF QuizSpec

\* The percentage that is shown and the mastery that is recorded come from
\* answers to all questions of one lesson.
THEOREM ScoresAreFull == QuizSpec => OnlyFullQuizzesAreScored
<1>1. QuizInv /\ [QuizNext]_quizVars
        => [submitted' /\ ~submitted => \A k \in DOMAIN quiz : answers[k] # 0 /\ quiz[k].id[1] = quiz[1].id[1]]_quizVars
  <2> SUFFICES ASSUME QuizInv, QuizNext, submitted', ~submitted
               PROVE  \A k \in DOMAIN quiz : answers[k] # 0 /\ quiz[k].id[1] = quiz[1].id[1]
    OBVIOUS
  <2>1. Submit
    BY DEF QuizNext, LoadQuiz, UseHint, Previous, NextQuestion, Remount, LessonChanges, SetAnswer, onPage
  <2>2. answers[index] # 0 /\ index = Len(quiz) /\ DOMAIN quiz = 1 .. Len(quiz) /\ Len(quiz) \in Nat
    BY <2>1, LenProperties DEF Submit, QuizInv
  <2> QED
    BY <2>2 DEF QuizInv
<1> QED
  BY QuizInitial, QuizStep, <1>1, PTL DEF QuizSpec, OnlyFullQuizzesAreScored

-----------------------------------------------------------------------------
(* Curriculum.  A lesson is opened by what was completed when the request   *)
(* was made; completed lessons stay completed, so the answer may be late.  *)

LoadFits(r) ==
  /\ "what" \in DOMAIN r
  /\ r.what = "lesson" => MayOpen(r.id)
  /\ r.what = "course" =>
       /\ r.id \in Courses
       /\ r.by = "search" =>
            \/ r.at[2] = 0 /\ r.at[1] \in Strays
            \/ <<r.id, r.at[2]>> \in Places /\ r.at[1] \in Levels[r.id][r.at[2]]

CurriculumInv ==
  /\ course \in Courses \cup {None}
  /\ lesson # None => MayOpen(lesson)
  /\ \A r \in loads : LoadFits(r)
  /\ \A l \in progress : MayOpen(l)

LEMMA PlacesAre ==
  \A c, i : <<c, i>> \in Places <=> c \in Courses /\ i \in 1 .. Len(Levels[c])
BY DEF Places

LEMMA PlaceParts ==
  ASSUME NEW p \in Places
  PROVE  p = <<p[1], p[2]>> /\ p[1] \in Courses /\ p[2] \in 1 .. Len(Levels[p[1]])
BY DEF Places

LEMMA MayOpenHere ==
  ASSUME NEW c \in Courses, NEW i \in 1 .. Len(Levels[c]), NEW l \in Levels[c][i],
         \A j \in 1 .. i - 1 : Levels[c][j] \subseteq progress
  PROVE  MayOpen(l)
<1>1. <<c, i>> \in Places /\ <<c, i>>[1] = c /\ <<c, i>>[2] = i
  BY PlacesAre
<1> QED
  BY <1>1 DEF MayOpen

\* A lock that was open stays open, and so does the way past empty levels.
LEMMA MayOpenStays ==
  ASSUME progress \subseteq progress', NEW l, MayOpen(l)
  PROVE  MayOpen(l)'
<1>1. CASE l \in Strays
  BY <1>1 DEF MayOpen
<1>2. CASE Unlocked(l)
  <2>1. PICK p \in Places : l \in Levels[p[1]][p[2]] /\ ~IsModuleLocked(p[1], p[2], progress)
    BY <1>2 DEF Unlocked
  <2>2. ~IsModuleLocked(p[1], p[2], progress')
    BY <2>1 DEF IsModuleLocked, IsModuleCompleted
  <2> QED
    BY <2>1, <2>2 DEF MayOpen, Unlocked
<1>3. CASE \E p \in Places : /\ l \in Levels[p[1]][p[2]]
                            /\ \A j \in 1 .. p[2] - 1 : Levels[p[1]][j] \subseteq progress
  BY <1>3 DEF MayOpen
<1> QED
  BY <1>1, <1>2, <1>3 DEF MayOpen

LEMMA LoadsStayFit ==
  ASSUME progress \subseteq progress', NEW r, LoadFits(r)
  PROVE  LoadFits(r)'
BY MayOpenStays DEF LoadFits

\* All levels in front of the first undone one are done, and those in front of the
\* first that is not empty are empty.
LEMMA BootTargetsMayOpen ==
  ASSUME course \in Courses, NEW l \in BootTargets(course)
  PROVE  MayOpen(l)
<1>1. Len(Levels[course]) \in Nat
  BY CurriculumAssumption, LenProperties
<1>2. CASE Undone(course) = {}
  <2>1. PICK i \in Filled(course) : l \in Levels[course][i] /\ \A k \in Filled(course) : i <= k
    BY <1>2 DEF BootTargets, First
  <2>2. i \in 1 .. Len(Levels[course])
    BY <2>1 DEF Filled
  <2>3. ASSUME NEW j \in 1 .. i - 1 PROVE Levels[course][j] \subseteq progress
    <3>1. j \in 1 .. Len(Levels[course])
      BY <1>1, <2>2
    <3> QED
      BY <1>2, <3>1 DEF Undone
  <2> QED
    BY <2>1, <2>2, <2>3, MayOpenHere
<1>3. CASE Undone(course) # {}
  <2>1. PICK i \in Undone(course) : l \in Levels[course][i] /\ \A k \in Undone(course) : i <= k
    BY <1>3 DEF BootTargets, First
  <2>2. i \in 1 .. Len(Levels[course])
    BY <2>1 DEF Undone
  <2>3. ASSUME NEW j \in 1 .. i - 1 PROVE Levels[course][j] \subseteq progress
    <3>1. j \in 1 .. Len(Levels[course]) /\ ~(i <= j)
      BY <1>1, <2>2
    <3>2. j \notin Undone(course)
      BY <2>1, <3>1
    <3> QED
      BY <3>1, <3>2 DEF Undone
  <2> QED
    BY <2>1, <2>2, <2>3, MayOpenHere
<1> QED
  BY <1>2, <1>3

LEMMA LessonRequestFits ==
  ASSUME NEW l, NEW by, NEW new, new = Request("lesson", l, by, NoLevel),
         MayOpen(l), progress \subseteq progress'
  PROVE  LoadFits(new)'
<1>1. "what" \in DOMAIN new /\ new.what = "lesson" /\ new.id = l
  BY DEF Request
<1>2. MayOpen(l)'
  BY MayOpenStays
<1> QED
  BY <1>1, <1>2 DEF LoadFits

\* What is no lesson, and no course that a search asked for, checks nothing.
LEMMA OtherRequestFits ==
  ASSUME NEW what, NEW id, NEW by, NEW at, NEW new, new = Request(what, id, by, at),
         what # "lesson", what = "course" => id \in Courses /\ by # "search"
  PROVE  LoadFits(new)'
BY DEF Request, LoadFits

LEMMA SearchRequestFits ==
  ASSUME NEW c \in Courses, NEW i, NEW l, NEW new, new = Request("course", c, "search", <<l, i>>),
         (i = 0 /\ l \in Strays) \/ (<<c, i>> \in Places /\ l \in Levels[c][i])
  PROVE  LoadFits(new)'
<1>1. "what" \in DOMAIN new /\ new.what = "course" /\ new.id = c /\ new.at[1] = l /\ new.at[2] = i
  BY DEF Request
<1> QED
  BY <1>1 DEF LoadFits

LEMMA OpenGatedFits ==
  ASSUME NEW c, NEW i, NEW l, NEW others, OpenGated(c, i, l, others),
         (i = 0 /\ l \in Strays) \/ (<<c, i>> \in Places /\ l \in Levels[c][i]),
         UNCHANGED progress, \A r \in others : LoadFits(r)
  PROVE  \A r \in loads' : LoadFits(r)'
<1>1. \A r \in others : LoadFits(r)'
  BY LoadsStayFit
<1>2. CASE loads' = others
  BY <1>1, <1>2
<1>3. CASE loads' # others
  <2>1. ~(i > 0 /\ IsModuleLocked(c, i, progress))
    BY <1>3 DEF OpenGated
  <2>2. MayOpen(l)
    <3>1. CASE i = 0 /\ l \in Strays
      BY <3>1 DEF MayOpen
    <3>2. CASE <<c, i>> \in Places /\ l \in Levels[c][i]
      <4>1. <<c, i>>[1] = c /\ <<c, i>>[2] = i
        OBVIOUS
      <4>2. i \in 1 .. Len(Levels[c]) /\ Len(Levels[c]) \in Nat
        BY <3>2, PlacesAre, CurriculumAssumption, LenProperties
      <4>3. ~IsModuleLocked(c, i, progress)
        BY <2>1, <4>2
      <4> QED
        BY <3>2, <4>1, <4>3 DEF MayOpen, Unlocked
    <3> QED
      BY <3>1, <3>2
  <2>3. PICK new : new = Request("lesson", l, "search", NoLevel)
    OBVIOUS
  <2>4. LoadFits(new)'
    BY <2>2, <2>3, LessonRequestFits
  <2> QED
    BY <1>1, <2>1, <2>3, <2>4 DEF OpenGated
<1> QED
  BY <1>2, <1>3

\* A request is sent or some are dropped, and the rest of the invariant stays.
LEMMA LoadsKeep ==
  ASSUME CurriculumInv, UNCHANGED <<course, lesson, progress>>, \A r \in loads' : LoadFits(r)'
  PROVE  CurriculumInv'
<1>1. \A l : MayOpen(l) => MayOpen(l)'
  BY MayOpenStays
<1> QED
  BY <1>1 DEF CurriculumInv

LEMMA Kept ==
  ASSUME CurriculumInv, UNCHANGED progress PROVE \A r \in loads : LoadFits(r)'
BY LoadsStayFit DEF CurriculumInv

LEMMA CurriculumInitial == CurriculumInit => CurriculumInv
  BY DEF CurriculumInit, CurriculumInv

LEMMA CurriculumStep == CurriculumInv /\ [CurriculumNext]_curriculumVars => CurriculumInv'
<1> SUFFICES ASSUME CurriculumInv, [CurriculumNext]_curriculumVars PROVE CurriculumInv'
  OBVIOUS
<1>1. CASE Mount
  <2>1. PICK new : new = Request("courses", None, "boot", NoLevel) /\ loads' = loads \cup {new}
    BY <1>1 DEF Mount, Send
  <2> QED
    BY <1>1, <2>1, OtherRequestFits, Kept, LoadsKeep DEF Mount, store
<1>2. CASE Reload
  <2>1. PICK new : new = Request("courses", None, "boot", NoLevel) /\ loads' = {new}
    BY <1>2 DEF Reload
  <2>2. LoadFits(new)'
    BY <2>1, OtherRequestFits
  <2> QED
    BY <1>2, <2>1, <2>2, MayOpenStays DEF Reload, CurriculumInv
<1>3. CASE Retry
  <2>1. PICK new : new = Request("courses", None, "boot", NoLevel) /\ loads' = loads \cup {new}
    BY <1>3 DEF Retry, Send
  <2> QED
    BY <1>3, <2>1, OtherRequestFits, Kept, LoadsKeep DEF Retry, store
<1>4. CASE EffectCourse
  <2>1. FirstCourse \in Courses
    BY CurriculumAssumption
  <2>2. CASE UNCHANGED loads
    BY <1>4, <2>2, Kept, LoadsKeep DEF EffectCourse, store
  <2>3. CASE Send(Request("course", FirstCourse, "boot", NoLevel))
    <3>1. PICK new : new = Request("course", FirstCourse, "boot", NoLevel) /\ loads' = loads \cup {new}
      BY <2>3 DEF Send
    <3> QED
      BY <1>4, <2>1, <3>1, OtherRequestFits, Kept, LoadsKeep DEF EffectCourse, store
  <2> QED
    BY <1>4, <2>2, <2>3 DEF EffectCourse
<1>5. CASE EffectLesson
  <2>1. CASE UNCHANGED loads
    BY <1>5, <2>1, Kept, LoadsKeep DEF EffectLesson, store
  <2>2. ASSUME course # None, NEW l \in BootTargets(course), Send(Request("lesson", l, "boot", NoLevel))
        PROVE CurriculumInv'
    <3>1. PICK new : new = Request("lesson", l, "boot", NoLevel) /\ loads' = loads \cup {new}
      BY <2>2 DEF Send
    <3>2. MayOpen(l)
      BY <2>2, BootTargetsMayOpen DEF CurriculumInv
    <3>3. UNCHANGED <<course, lesson, progress>>
      BY <1>5 DEF EffectLesson, store
    <3>4. LoadFits(new)'
      BY <3>1, <3>2, <3>3, LessonRequestFits
    <3> QED
      BY <3>1, <3>3, <3>4, Kept, LoadsKeep
  <2> QED
    BY <1>5, <2>1, <2>2 DEF EffectLesson
<1>6. CASE MarkComplete
  <2>1. progress' = progress \cup {lesson} /\ lesson # None /\ UNCHANGED <<course, lesson, loads>>
    BY <1>6, CurriculumAssumption DEF MarkComplete, CanComplete, store
  <2>2. \A l : MayOpen(l) => MayOpen(l)'
    BY <2>1, MayOpenStays
  <2>3. \A r \in loads' : LoadFits(r)'
    BY <2>1, LoadsStayFit DEF CurriculumInv
  <2> QED
    BY <2>1, <2>2, <2>3 DEF CurriculumInv
<1>7. ASSUME NEW c \in Courses, NEW i, NEW l, OpenResult(c, i, l),
             (i = 0 /\ l \in Strays) \/ (<<c, i>> \in Places /\ l \in Levels[c][i])
      PROVE  CurriculumInv'
  <2>1. UNCHANGED <<course, lesson, progress>>
    BY <1>7 DEF OpenResult, LessonOpened, store
  <2>2. CASE course # c
    <3>1. PICK new : new = Request("course", c, "search", <<l, i>>) /\ loads' = loads \cup {new}
      BY <1>7, <2>2 DEF OpenResult, Send
    <3>2. LoadFits(new)'
      BY <1>7, <3>1, SearchRequestFits
    <3> QED
      BY <2>1, <3>1, <3>2, Kept, LoadsKeep
  <2>3. CASE course = c
    <3>1. OpenGated(c, i, l, loads)
      BY <1>7, <2>3 DEF OpenResult
    <3>2. \A r \in loads' : LoadFits(r)'
      BY <1>7, <2>1, <3>1, OpenGatedFits DEF CurriculumInv
    <3> QED
      BY <2>1, <3>2, LoadsKeep
  <2> QED
    BY <2>2, <2>3
<1>8. ASSUME NEW p \in Places, NEW l \in Levels[p[1]][p[2]], p[1] = course, ClickLesson(p[2], l) PROVE CurriculumInv'
  <2>1. PICK new : new = Request("lesson", l, "sidebar", NoLevel) /\ loads' = loads \cup {new}
    BY <1>8 DEF ClickLesson, Send
  <2>2. MayOpen(l)
    BY <1>8 DEF ClickLesson, MayOpen, Unlocked
  <2>3. UNCHANGED <<course, lesson, progress>>
    BY <1>8 DEF ClickLesson, LessonOpened, store
  <2>4. LoadFits(new)'
    BY <2>1, <2>2, <2>3, LessonRequestFits
  <2> QED
    BY <2>1, <2>3, <2>4, Kept, LoadsKeep
<1>9. ASSUME NEW r \in loads, CoursesLoaded(r) \/ Settled(r) \/ LoadFails(r) PROVE CurriculumInv'
  <2>1. UNCHANGED <<course, lesson, progress>>
    BY <1>9 DEF CoursesLoaded, Settled, LoadFails, store
  <2>2. PICK new : new = [r EXCEPT !.what = "settle"]
    OBVIOUS
  <2>3. loads' \subseteq loads \cup {new}
    BY <1>9, <2>2 DEF CoursesLoaded, Settled, LoadFails
  <2>4. "what" \in DOMAIN new /\ new.what = "settle"
    BY <2>2 DEF CurriculumInv, LoadFits
  <2>5. LoadFits(new)'
    BY <2>4 DEF LoadFits
  <2>6. \A x \in loads' : LoadFits(x)'
    BY <2>1, <2>3, <2>5, Kept
  <2> QED
    BY <2>1, <2>6, LoadsKeep
<1>10. ASSUME NEW r \in loads, CourseLoaded(r) PROVE CurriculumInv'
  <2>1. r.what = "course" /\ LoadFits(r) /\ UNCHANGED <<lesson, progress>> /\ course' = r.id /\ r.id \in Courses
    BY <1>10 DEF CourseLoaded, CurriculumInv, LoadFits
  <2>2. \A x \in loads' : LoadFits(x)'
    <3>1. CASE r.by = "search"
      <4>1. OpenGated(r.id, r.at[2], r.at[1], loads \ {r})
        BY <1>10, <3>1 DEF CourseLoaded
      <4>2. \/ r.at[2] = 0 /\ r.at[1] \in Strays
            \/ <<r.id, r.at[2]>> \in Places /\ r.at[1] \in Levels[r.id][r.at[2]]
        BY <2>1, <3>1 DEF LoadFits
      <4> QED
        BY <2>1, <4>1, <4>2, OpenGatedFits DEF CurriculumInv
    <3>2. CASE r.by # "search"
      BY <1>10, <2>1, <3>2, Kept DEF CourseLoaded
    <3> QED
      BY <3>1, <3>2
  <2>3. \A l : MayOpen(l) => MayOpen(l)'
    BY <2>1, MayOpenStays
  <2> QED
    BY <2>1, <2>2, <2>3 DEF CurriculumInv
<1>11. ASSUME NEW r \in loads, LessonLoaded(r) PROVE CurriculumInv'
  <2>1. lesson' = r.id /\ MayOpen(r.id) /\ UNCHANGED <<course, progress>> /\ loads' \subseteq loads
    BY <1>11 DEF LessonLoaded, CurriculumInv, LoadFits
  <2>2. \A x \in loads' : LoadFits(x)'
    BY <2>1, Kept
  <2>3. \A l : MayOpen(l) => MayOpen(l)'
    BY <2>1, MayOpenStays
  <2> QED
    BY <2>1, <2>2, <2>3 DEF CurriculumInv
<1>12. CASE UNCHANGED curriculumVars
  BY <1>12, Kept, LoadsKeep DEF curriculumVars
<1>13. CASE Choose
  <2>1. ASSUME NEW p \in Places, NEW l \in Levels[p[1]][p[2]], OpenResult(p[1], p[2], l)
        PROVE  CurriculumInv'
    <3>1. p[1] \in Courses /\ <<p[1], p[2]>> \in Places
      BY PlaceParts
    <3> QED
      BY <1>7, <2>1, <3>1
  <2>2. ASSUME NEW c \in Courses, NEW l \in Strays, OpenResult(c, 0, l) PROVE CurriculumInv'
    BY <1>7, <2>2
  <2> QED
    BY <1>8, <1>13, <2>1, <2>2 DEF Choose
<1> QED
  BY <1>1, <1>2, <1>3, <1>4, <1>5, <1>6, <1>9, <1>10, <1>11, <1>12, <1>13
     DEF CurriculumNext, Answered

\* What is completed had its turn, where the lesson is.
LEMMA DoneHadItsTurn ==
  ASSUME CurriculumInv, NEW p \in Places, NEW l \in Levels[p[1]][p[2]] \cap progress, OnlyIn(p, l)
  PROVE  \/ ~IsModuleLocked(p[1], p[2], progress)
         \/ \A j \in 1 .. p[2] - 1 : Levels[p[1]][j] \subseteq progress
<1>1. l \notin Strays
  BY CurriculumAssumption
<1>2. CASE Unlocked(l)
  <2>1. PICK q \in Places : l \in Levels[q[1]][q[2]] /\ ~IsModuleLocked(q[1], q[2], progress)
    BY <1>2 DEF Unlocked
  <2>2. q = p
    BY <2>1 DEF OnlyIn
  <2> QED
    BY <2>1, <2>2
<1>3. CASE ~Unlocked(l)
  <2>1. PICK q \in Places : /\ l \in Levels[q[1]][q[2]]
                           /\ \A j \in 1 .. q[2] - 1 : Levels[q[1]][j] \subseteq progress
    BY <1>1, <1>3 DEF CurriculumInv, MayOpen
  <2>2. q = p
    BY <2>1 DEF OnlyIn
  <2> QED
    BY <2>1, <2>2
<1> QED
  BY <1>2, <1>3

LEMMA InFront ==
  ASSUME NEW p \in Places, p[2] # 1
  PROVE  p[2] > 1 /\ p[2] - 1 \in 1 .. p[2] - 1
<1>1. p[1] \in Courses /\ p[2] \in 1 .. Len(Levels[p[1]])
  BY PlaceParts
<1>2. Len(Levels[p[1]]) \in Nat
  BY <1>1, CurriculumAssumption, LenProperties
<1> QED
  BY <1>1, <1>2

LEMMA MarksFollowOrder == CurriculumInv => MarkedInOrder
<1> SUFFICES ASSUME CurriculumInv, NEW p \in Places, LevelLine(p[1], p[2]).complete,
                    IsModuleLocked(p[1], p[2], progress), NEW l \in Levels[p[1]][p[2]], OnlyIn(p, l)
             PROVE  Levels[p[1]][p[2] - 1] = {}
  BY DEF MarkedInOrder
<1>1. l \in progress
  BY DEF LevelLine, IsModuleCompleted
<1>2. \A j \in 1 .. p[2] - 1 : Levels[p[1]][j] \subseteq progress
  BY <1>1, DoneHadItsTurn
<1>3. p[2] # 1 /\ ~IsModuleCompleted(p[1], p[2] - 1, progress)
  BY DEF IsModuleLocked
<1>4. Levels[p[1]][p[2] - 1] \subseteq progress
  BY <1>2, <1>3, InFront
<1> QED
  BY <1>3, <1>4 DEF IsModuleCompleted

\* No component of the page opens or requests a lesson before its level is
\* unlocked or everything in front of it is done, and a level is ticked off on one
\* page while another shows it locked only behind an empty level or if all its
\* lessons are elsewhere too; for any courses, with empty levels and lessons in
\* several levels, however late answers arrive.
THEOREM LevelsStayKept == CurriculumSpec => []LevelsKept
<1>1. CurriculumInv => LevelsKept
  <2>1. CurriculumInv => NoLessonAhead
    BY DEF CurriculumInv, LoadFits, NoLessonAhead
  <2> QED BY <2>1, MarksFollowOrder DEF LevelsKept
<1> QED
  BY CurriculumInitial, CurriculumStep, <1>1, PTL DEF CurriculumSpec

\* The sequential unlock of curriculum.ts holds of the recorded progress, for
\* lessons that are in one level.
THEOREM LevelsAreDoneInOrder == CurriculumSpec => []LevelsDoneInOrder
<1>1. CurriculumInv => LevelsDoneInOrder
  <2> SUFFICES ASSUME CurriculumInv, NEW p \in Places, p[2] > 1,
                      NEW l \in Levels[p[1]][p[2]] \cap progress, OnlyIn(p, l)
               PROVE  Levels[p[1]][p[2] - 1] \subseteq progress
    BY DEF LevelsDoneInOrder
  <2>1. p[2] # 1
    OBVIOUS
  <2>2. CASE ~IsModuleLocked(p[1], p[2], progress)
    BY <2>1, <2>2 DEF IsModuleLocked, IsModuleCompleted
  <2>3. CASE \A j \in 1 .. p[2] - 1 : Levels[p[1]][j] \subseteq progress
    BY <2>1, <2>3, InFront
  <2> QED
    BY <2>2, <2>3, DoneHadItsTurn
<1> QED
  BY CurriculumInitial, CurriculumStep, <1>1, PTL DEF CurriculumSpec

LEMMA RequestIsLoad ==
  ASSUME NEW what \in {"courses", "settle", "course", "lesson"}, NEW id \in Courses \cup Lessons \cup {None},
         NEW by \in {"boot", "sidebar", "search"}, NEW at \in (Lessons \cup {None}) \X Nat, shell'.mount \in Nat
  PROVE  Request(what, id, by, at) \in Load
BY DEF Request, Load

LEMMA LessonsAre ==
  ASSUME NEW c \in Courses, NEW i \in 1 .. Len(Levels[c])
  PROVE  i \in Nat /\ Levels[c][i] \subseteq Lessons
<1>1. Levels[c] \in Seq(SUBSET Lessons)
  BY CurriculumAssumption
<1>2. Len(Levels[c]) \in Nat /\ Levels[c][i] \in SUBSET Lessons
  BY <1>1, LenProperties, ElementOfSeq
<1> QED
  BY <1>2

LEMMA StraysAre == Strays \subseteq Lessons
BY DEF Lessons

LEMMA SettlingIsLoad ==
  ASSUME NEW r \in Load
  PROVE  [r EXCEPT !.what = "settle"] \in Load
BY DEF Load

\* An answer brings the course or the lesson its request was for, whichever of
\* the four components sent it, and completed is what was open.
THEOREM CurriculumTypeCorrect == CurriculumSpec => []CurriculumTypeOK
<1>1. CurriculumInit => CurriculumTypeOK
  <2>1. [mount |-> 0, loading |-> FALSE, error |-> FALSE] \in [mount : Nat, loading : BOOLEAN, error : BOOLEAN]
    OBVIOUS
  <2> QED
    BY <2>1 DEF CurriculumInit, CurriculumTypeOK
<1>2. CurriculumInv /\ CurriculumTypeOK /\ [CurriculumNext]_curriculumVars => CurriculumTypeOK'
  <2> SUFFICES ASSUME CurriculumInv, CurriculumTypeOK, [CurriculumNext]_curriculumVars PROVE CurriculumTypeOK'
    OBVIOUS
  <2> USE DEF CurriculumTypeOK
  <2> NoLevel \in (Lessons \cup {None}) \X Nat
    BY DEF NoLevel
  <2>1. CASE Mount \/ Reload \/ Retry
    <3>1. /\ shell' \in [mount : Nat, loading : BOOLEAN, error : BOOLEAN] /\ due' \subseteq {"course", "lesson"}
          /\ shell'.mount \in Nat
      <4>1. CASE Mount \/ Reload
        <5>1. shell' = [mount |-> shell.mount + 1, loading |-> TRUE, error |-> FALSE] /\ due' = {"course", "lesson"}
          BY <4>1 DEF Mount, Reload
        <5> QED
          BY <5>1
      <4>2. CASE Retry
        <5>1. shell' = [shell EXCEPT !.loading = TRUE, !.error = FALSE] /\ due' = due
          BY <4>2 DEF Retry
        <5> QED
          BY <5>1
      <4> QED
        BY <2>1, <4>1, <4>2
    <3>2. Request("courses", None, "boot", NoLevel) \in Load
      BY <3>1, RequestIsLoad
    <3>3. loads' \subseteq Load
      BY <2>1, <3>2 DEF Mount, Reload, Retry, Send
    <3>4. courses' \in BOOLEAN /\ course' \in {course, None} /\ lesson' \in {lesson, None} /\ progress' = progress
      BY <2>1 DEF Mount, Reload, Retry, store
    <3> QED
      BY <3>1, <3>3, <3>4
  <2>2. CASE EffectCourse
    <3>1. shell' = shell /\ due' \subseteq due /\ UNCHANGED <<store, progress>>
      BY <2>2 DEF EffectCourse
    <3>2. Request("course", FirstCourse, "boot", NoLevel) \in Load
      BY <3>1, RequestIsLoad, CurriculumAssumption
    <3>3. loads' \subseteq Load
      BY <2>2, <3>2 DEF EffectCourse, Send
    <3> QED
      BY <3>1, <3>3 DEF store
  <2>3. CASE EffectLesson
    <3>1. shell' = shell /\ due' \subseteq due /\ UNCHANGED <<store, progress>>
      BY <2>3 DEF EffectLesson
    <3>2. CASE course = None
      BY <2>3, <3>1, <3>2 DEF EffectLesson, store
    <3>3. CASE course # None
      <4>2. \A i \in 1 .. Len(Levels[course]) : Levels[course][i] \subseteq Lessons
        BY <3>3, LessonsAre
      <4>3. BootTargets(course) \subseteq Lessons
        BY <4>2 DEF BootTargets, First, Undone, Filled
      <4>4. ASSUME NEW l \in BootTargets(course) PROVE Request("lesson", l, "boot", NoLevel) \in Load
        BY <3>1, <4>3, RequestIsLoad
      <4>5. loads' \subseteq Load
        BY <2>3, <4>4 DEF EffectLesson, Send
      <4> QED
        BY <3>1, <4>5 DEF store
    <3> QED
      BY <3>2, <3>3
  <2>4. CASE MarkComplete
    BY <2>4, CurriculumAssumption DEF MarkComplete, CanComplete, store
  <2>5. ASSUME NEW c, NEW i, NEW l \in Lessons, NEW others \in SUBSET Load,
               shell' = shell, OpenGated(c, i, l, others)
        PROVE  loads' \subseteq Load
    <3>1. Request("lesson", l, "search", NoLevel) \in Load
      BY <2>5, RequestIsLoad
    <3> QED
      BY <2>5, <3>1 DEF OpenGated
  <2>6. ASSUME NEW c \in Courses, NEW i \in Nat, NEW l \in Lessons,
               OpenResult(c, i, l) \/ (c = course /\ ClickLesson(i, l))
        PROVE  CurriculumTypeOK'
    <3>1. UNCHANGED <<store, progress, shell, due>>
      BY <2>6 DEF OpenResult, ClickLesson, LessonOpened
    <3>2. /\ Request("course", c, "search", <<l, i>>) \in Load
          /\ Request("lesson", l, "sidebar", NoLevel) \in Load
      BY <2>6, <3>1, RequestIsLoad
    <3>3. loads' \subseteq Load
      <4>1. CASE ClickLesson(i, l)
        BY <3>2, <4>1 DEF ClickLesson, Send
      <4>2. CASE OpenResult(c, i, l) /\ course # c
        BY <3>2, <4>2 DEF OpenResult, Send
      <4>3. CASE OpenResult(c, i, l) /\ course = c
        BY <3>1, <4>3, <2>5 DEF OpenResult
      <4> QED
        BY <2>6, <4>1, <4>2, <4>3
    <3> QED
      BY <3>1, <3>3 DEF store
  <2>7. ASSUME NEW r \in loads, CoursesLoaded(r) \/ Settled(r) \/ LoadFails(r) PROVE CurriculumTypeOK'
    <3>1. [r EXCEPT !.what = "settle"] \in Load
      BY SettlingIsLoad
    <3>2. loads' \subseteq Load
      BY <2>7, <3>1 DEF CoursesLoaded, Settled, LoadFails
    <3> QED
      BY <2>7, <3>2 DEF CoursesLoaded, Settled, LoadFails, store
  <2>8. ASSUME NEW r \in loads, CourseLoaded(r) PROVE CurriculumTypeOK'
    <3>1. /\ r.id \in Courses /\ course' = r.id /\ due' = due \cup {"course", "lesson"}
          /\ UNCHANGED <<courses, lesson, progress, shell>>
      BY <2>8 DEF CourseLoaded, CurriculumInv, LoadFits
    <3>2. loads' \subseteq Load
      <4>1. CASE r.by = "search"
        <5>1. r.at[1] \in Lessons
          BY <2>8, <4>1, PlacesAre, LessonsAre, StraysAre DEF CourseLoaded, CurriculumInv, LoadFits
        <5>2. OpenGated(r.id, r.at[2], r.at[1], loads \ {r}) /\ loads \ {r} \in SUBSET Load
          BY <2>8, <4>1 DEF CourseLoaded
        <5> QED
          BY <2>5, <3>1, <5>1, <5>2
      <4>2. CASE r.by # "search"
        BY <2>8, <4>2 DEF CourseLoaded
      <4> QED
        BY <4>1, <4>2
    <3> QED
      BY <3>1, <3>2
  <2>9. ASSUME NEW r \in loads, LessonLoaded(r) PROVE CurriculumTypeOK'
    <3>1. MayOpen(r.id)
      BY <2>9 DEF LessonLoaded, CurriculumInv, LoadFits
    <3>2. r.id \in Lessons
      BY <3>1, PlaceParts, LessonsAre, StraysAre DEF MayOpen, Unlocked
    <3> QED
      BY <2>9, <3>2 DEF LessonLoaded
  <2>10. CASE UNCHANGED curriculumVars
    BY <2>10 DEF curriculumVars
  <2>11. CASE Choose
    <3>1. ASSUME NEW p \in Places, NEW l \in Levels[p[1]][p[2]]
          PROVE  p[1] \in Courses /\ p[2] \in Nat /\ l \in Lessons
      BY <3>1, PlaceParts, LessonsAre
    <3>2. \A l \in Strays : l \in Lessons /\ 0 \in Nat
      BY StraysAre
    <3> QED
      BY <2>6, <2>11, <3>1, <3>2 DEF Choose
  <2> QED
    BY <2>1, <2>2, <2>3, <2>4, <2>7, <2>8, <2>9, <2>10, <2>11 DEF CurriculumNext, Answered
<1> QED
  BY CurriculumInitial, CurriculumStep, <1>1, <1>2, PTL DEF CurriculumSpec
===============================================================================
