----------------------------- MODULE LessonSearch -----------------------------
(***************************************************************************)
(* The search box of the header, frontend/src/components/dashboard/        *)
(* LessonSearch.tsx: a debounced request per query, answers in any order.  *)
(* What opening a result does to the course is in Curriculum.              *)
(*                                                                         *)
(* Abstractions.  A query is its trimmed text; NoQuery is one of less than *)
(* two characters.  A result list is the query it answers and its length.  *)
(***************************************************************************)
EXTENDS Naturals

CONSTANTS Queries, NoQuery,
          Hits,     \* how many lessons match each query
          MaxTyped  \* bound: queries typed

ASSUME SearchAssumption == NoQuery \notin Queries /\ Hits \in [Queries -> Nat] /\ MaxTyped \in Nat

VARIABLES box,     \* query, open, loading, error and activeIndex
          results, \* the list that is shown
          latest,  \* requestRef
          timer,   \* the query whose debounce timer runs
          asked,   \* requests in flight
          opening  \* openResult is under way

searchVars == <<box, results, latest, timer, asked, opening>>

NoResults == [of |-> NoQuery, n |-> 0]
Found(q) == [of |-> q, n |-> Hits[q]]   \* searchLessons: from the CMS, else the API
ShowPanel == box.open /\ box.query # NoQuery

SearchInit ==
  /\ box = [query |-> NoQuery, open |-> FALSE, loading |-> FALSE, error |-> FALSE, active |-> 0]
  /\ results = NoResults /\ latest = 0 /\ timer = NoQuery /\ asked = {} /\ opening = FALSE

\* The effect on the trimmed query, cleanup of the previous one included.  The
\* old list stays while the new query waits.
QueryChanged(q, open) ==
  /\ latest' = latest + 1
  /\ timer' = q
  /\ IF q = NoQuery
     THEN results' = NoResults /\ box' = [box EXCEPT !.query = q, !.open = open, !.loading = FALSE, !.error = FALSE]
     ELSE box' = [box EXCEPT !.query = q, !.open = open, !.loading = TRUE] /\ UNCHANGED results

\* onChange of the input.
Type(q) ==
  /\ latest < MaxTyped /\ q # box.query
  /\ QueryChanged(q, TRUE) /\ UNCHANGED <<asked, opening>>

\* 250 ms without a key.
DebounceEnds ==
  /\ timer # NoQuery /\ timer' = NoQuery
  /\ asked' = asked \cup {[id |-> latest, q |-> box.query]}
  /\ UNCHANGED <<box, results, latest, opening>>

\* then and catch, each with the finally after it.
MSearchAnswered(a) ==
  /\ a \in asked /\ asked' = asked \ {a}
  /\ results' = Found(a.q)
  /\ box' = [box EXCEPT !.active = 0, !.error = FALSE, !.loading = a.id # latest]
  /\ UNCHANGED <<latest, timer, opening>>
SearchAnswered(a) ==
  /\ a \in asked /\ asked' = asked \ {a}
  /\ IF a.id # latest THEN UNCHANGED <<box, results>>
     ELSE /\ results' = Found(a.q)
          /\ box' = [box EXCEPT !.active = 0, !.error = FALSE, !.loading = FALSE]
  /\ UNCHANGED <<latest, timer, opening>>

SearchFails(a) ==
  /\ a \in asked /\ asked' = asked \ {a}
  /\ IF a.id # latest THEN UNCHANGED <<box, results>>
     ELSE results' = NoResults /\ box' = [box EXCEPT !.error = TRUE, !.loading = FALSE]
  /\ UNCHANGED <<latest, timer, opening>>

\* Focus or Ctrl-K opens the panel, a click outside or Escape closes it.
ShowOrHide ==
  /\ box' = [box EXCEPT !.open = ~@]
  /\ UNCHANGED <<results, latest, timer, asked, opening>>

\* The arrow keys, modulo the length, or the pointer on an option.
Highlight ==
  /\ ShowPanel /\ results.n > 0
  /\ \E i \in {(box.active + 1) % results.n, (box.active + results.n - 1) % results.n}
                \cup 0 .. results.n - 1 :
       box' = [box EXCEPT !.active = i]
  /\ UNCHANGED <<results, latest, timer, asked, opening>>

\* Enter or a click on the list that is shown.
Pick ==
  /\ ShowPanel /\ results.n > 0 /\ opening' = TRUE
  /\ UNCHANGED <<box, results, latest, timer, asked>>

\* openResult ends: the lesson is there and the box is emptied, or it is locked
\* or could not be loaded.
Picked ==
  /\ opening /\ opening' = FALSE
  /\ \/ UNCHANGED <<box, results, latest, timer>>
     \/ box.query = NoQuery /\ box' = [box EXCEPT !.open = FALSE] /\ UNCHANGED <<results, latest, timer>>
     \/ box.query # NoQuery /\ QueryChanged(NoQuery, FALSE)
  /\ UNCHANGED asked

SearchNext ==
  \/ DebounceEnds \/ ShowOrHide \/ Highlight \/ Pick \/ Picked
  \/ \E q \in Queries \cup {NoQuery} : Type(q)
  \/ \E a \in asked : SearchAnswered(a) \/ SearchFails(a)

SearchSpec == SearchInit /\ [][SearchNext]_searchVars

-----------------------------------------------------------------------------
\* LessonSearch.tsx:38, "responses for superseded queries are dropped": a list
\* that is not marked as loading answers the query in the box, a query that is
\* loading has a timer or a request that will end it, and the highlighted
\* option that Enter opens exists.
SearchShowsLatestQuery ==
  /\ ~box.loading /\ ~box.error => results.of = box.query
  /\ box.loading => timer = box.query \/ [id |-> latest, q |-> box.query] \in asked
  /\ results.n > 0 => box.active < results.n
===============================================================================
