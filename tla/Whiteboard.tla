------------------------------ MODULE Whiteboard ------------------------------
(***************************************************************************)
(* The board of the AI Classroom, reduced twice: by the server, which      *)
(* stores snapshots of it (backend/app/schemas/whiteboard.py), and by the  *)
(* browser, which starts from a snapshot or from nothing and applies       *)
(* events (frontend/src/lib/whiteboard.ts).                                *)
(*                                                                         *)
(* Abstractions.  An object is its kind, what is written or drawn (a text),*)
(* and in the browser the step it belongs to.  Validation is whether the   *)
(* browser's validators, too, let a text that the server stored pass; the  *)
(* circuits the server stores all do.  Each id has one target that an      *)
(* annotation of that id points to.  That the server's snapshot is the     *)
(* replay of its log is the subject of ClassroomRuns, how events are put   *)
(* in order that of ClassroomClient.                                       *)
(***************************************************************************)
EXTENDS Lists

CONSTANTS Ids,        \* object ids
          Texts,      \* texts the server accepts
          Readable,   \* those of them the browser accepts
          Target,     \* [Ids -> Ids \cup {NoTarget}], the target_id of annotations
          NoTarget,
          Steps,      \* step ids
          NoStep,
          MaxLogged   \* bound: events of the session

ASSUME BoardAssumption ==
  /\ Readable \subseteq Texts /\ NoStep \notin Steps /\ MaxLogged \in Nat
  /\ NoTarget \notin Ids /\ Target \in [Ids -> Ids \cup {NoTarget}]

VARIABLES events,  \* the events of the session
          boards,  \* boards[n + 1] is the server's board after n events
          stored,  \* number of events in the stored snapshot
          view,    \* the browser's board
          seen     \* lastSeq: number of events in it

boardVars == <<events, boards, stored, view, seen>>

Draws == {"draw_quantum_circuit", "render_equation", "draw_annotation"}
Event ==
  [action : {"draw_quantum_circuit"}, object_id : Ids, text : Readable, step_id : Steps]
    \cup [action : Draws \ {"draw_quantum_circuit"}, object_id : Ids, text : Texts, step_id : Steps]
    \cup [action : {"step_started"}, text : Texts, step_id : Steps]
    \cup [action : {"highlight_object", "clear_annotation"}, object_id : Ids, step_id : Steps]
    \cup [action : {"step_completed", "tutor_error"}, step_id : Steps]

Kind(action) ==
  CASE action = "draw_quantum_circuit" -> "circuit"
    [] action = "render_equation" -> "equation"
    [] action = "draw_annotation" -> "annotation"

\* empty_board, emptyBoard
EmptyBoard ==
  [version |-> 0, active_step |-> NoStep, order |-> <<>>, objects |-> [i \in {} |-> 0], highlights |-> <<>>]

Has(b, id) == id \in DOMAIN b.objects

\* Give the object id the value obj.
Put(objects, id, obj) == [i \in DOMAIN objects \cup {id} |-> IF i = id THEN obj ELSE objects[i]]
Drop(objects, id) == [i \in DOMAIN objects \ {id} |-> objects[i]]

-----------------------------------------------------------------------------
(* The server's reducer                                                    *)

\* apply_event, without the version.
Applied(b, e) ==
  CASE e.action = "step_started" -> [b EXCEPT !.active_step = e.step_id]
    [] e.action = "step_completed" -> [b EXCEPT !.active_step = NoStep]
    [] e.action \in Draws ->
         [b EXCEPT !.order = IF Has(b, e.object_id) THEN @ ELSE Append(@, e.object_id),
                   !.objects = Put(@, e.object_id, [kind |-> Kind(e.action), text |-> e.text])]
    [] e.action = "highlight_object" ->
         IF Has(b, e.object_id) /\ ~Contains(b.highlights, e.object_id)
           THEN [b EXCEPT !.highlights = Append(@, e.object_id)] ELSE b
    [] e.action = "clear_annotation" ->
         LET c == [b EXCEPT !.highlights = RemoveFirst(@, e.object_id)] IN
         IF Has(b, e.object_id) /\ b.objects[e.object_id].kind = "annotation"
           THEN [c EXCEPT !.objects = Drop(@, e.object_id), !.order = RemoveFirst(@, e.object_id)]
           ELSE c
    [] OTHER -> b
Apply(b, e) == [Applied(b, e) EXCEPT !.version = b.version + 1]

-----------------------------------------------------------------------------
(* The browser's reducer                                                   *)

Without(ids, id) == Only(ids, Ids \ {id})

\* validateWhiteboardAction
Valid(e) == "text" \in DOMAIN e => e.text \in Readable

\* applyEvent for an event that is valid.
Shown(b, e) ==
  CASE e.action = "step_started" -> [b EXCEPT !.active_step = e.step_id]
    [] e.action = "step_completed" -> [b EXCEPT !.active_step = NoStep]
    [] e.action \in Draws ->
         [b EXCEPT !.order = IF Has(b, e.object_id) THEN @ ELSE Append(@, e.object_id),
                   !.objects = Put(@, e.object_id, [kind |-> Kind(e.action), text |-> e.text, step_id |-> e.step_id])]
    [] e.action = "highlight_object" ->
         IF ~Has(b, e.object_id) \/ Contains(b.highlights, e.object_id) THEN b
         ELSE [b EXCEPT !.highlights = Append(@, e.object_id)]
    [] e.action = "clear_annotation" ->
         LET c == [b EXCEPT !.highlights = Without(@, e.object_id)] IN
         IF Has(b, e.object_id) /\ b.objects[e.object_id].kind = "annotation"
           THEN [c EXCEPT !.objects = Drop(@, e.object_id), !.order = Without(@, e.object_id)]
           ELSE c
    [] OTHER -> b

\* An event that is not valid leaves the board as it is, version included.
ApplyEvent(b, e) == IF Valid(e) THEN [Shown(b, e) EXCEPT !.version = b.version + 1] ELSE b

\* parseBoardState: the server's objects carry no step.
MParse(b) ==
  [b EXCEPT !.objects = [i \in {j \in DOMAIN @ : @[j].text \in Readable} |->
                           [kind |-> @[i].kind, text |-> @[i].text, step_id |-> NoStep]],
            !.highlights = <<>>]
Parse(b) ==
  LET kept == {i \in DOMAIN b.objects : b.objects[i].text \in Readable} IN
  [b EXCEPT !.objects = [i \in kept |-> [kind |-> @[i].kind, text |-> @[i].text, step_id |-> NoStep]],
            !.order = Only(@, kept),
            !.highlights = Only(@, kept)]

-----------------------------------------------------------------------------
(* The page (components/classroom/Whiteboard.tsx)                          *)

IsNote(b, id) == Has(b, id) /\ b.objects[id].kind = "annotation"

\* BoardView: what is listed by itself, annotations if their target is not there.
Free(b) == Only(b.order, {i \in DOMAIN b.objects : ~IsNote(b, i) \/ ~Has(b, Target[i])})

\* ObjectCard: a circuit or an equation with the annotations that point to it.
Notes(b, id) == Only(b.order, {i \in DOMAIN b.objects : IsNote(b, i) /\ Target[i] = id})
Card(b, id) == <<id>> \o Notes(b, id)

\* Everything that is on the page, from top to bottom.
BoardView(b) ==
  LET cards == [n \in DOMAIN Free(b) |-> IF IsNote(b, Free(b)[n]) THEN <<Free(b)[n]>> ELSE Card(b, Free(b)[n])]
  IN FlattenSeq(cards)

-----------------------------------------------------------------------------
BoardInit ==
  /\ events = <<>> /\ boards = <<EmptyBoard>> /\ stored = 0
  /\ view = EmptyBoard /\ seen = 0

\* persist_whiteboard_event
Persist(e) ==
  /\ Len(events) < MaxLogged
  /\ events' = Append(events, e)
  /\ boards' = Append(boards, Apply(boards[Len(boards)], e))
  /\ UNCHANGED <<stored, view, seen>>

\* _write_snapshot: at the boundary of a step, and when the turn ends.
WriteSnapshot ==
  /\ stored < Len(events) /\ stored' = Len(events)
  /\ UNCHANGED <<events, boards, view, seen>>

\* commitDurable for the next event, live or replayed.
CommitDurable ==
  /\ seen < Len(events)
  /\ view' = ApplyEvent(view, events[seen + 1]) /\ seen' = seen + 1
  /\ UNCHANGED <<events, boards, stored>>

\* applyState with a snapshot that is newer than the board.
ApplySnapshot ==
  /\ stored > seen
  /\ view' = Parse(boards[stored + 1]) /\ seen' = stored
  /\ UNCHANGED <<events, boards, stored>>

\* The page is left and opened again.
Reopen ==
  /\ view' = EmptyBoard /\ seen' = 0 /\ seen # 0
  /\ UNCHANGED <<events, boards, stored>>

BoardNext == (\E e \in Event : Persist(e)) \/ WriteSnapshot \/ CommitDurable \/ ApplySnapshot \/ Reopen

BoardSpec == BoardInit /\ [][BoardNext]_boardVars

-----------------------------------------------------------------------------
BoardTypeOK ==
  /\ events \in Seq(Event) /\ Len(boards) = Len(events) + 1
  /\ stored \in 0 .. Len(events) /\ seen \in 0 .. Len(events)
  /\ view.version \in 0 .. MaxLogged /\ view.active_step \in Steps \cup {NoStep}
  /\ view.order \in Seq(Ids) /\ view.highlights \in Seq(Ids) /\ DOMAIN view.objects \subseteq Ids
  /\ \A i \in DOMAIN view.objects :
       view.objects[i] \in [kind : {"circuit", "equation", "annotation"}, text : Readable, step_id : Steps \cup {NoStep}]

\* A board without the steps of its objects.
Erased(b) == [b EXCEPT !.objects = [i \in DOMAIN @ |-> [kind |-> @[i].kind, text |-> @[i].text]]]

\* whiteboard.py:13, "the frontend must match exactly": the browser's board is
\* the server's after the same number of events.  Not so behind a text that the
\* browser refuses (whiteboard.ts:25, 48) and the server accepted and stored
\* (whiteboard.py:54).
MirrorsServer == Erased(view) = boards[seen + 1]
SeenIsReadable == \A n \in 1 .. seen : Valid(events[n])

\* The ids that none of the first n events drew with a text the browser refuses,
\* and what a board holds of some ids.
Trusted(n) ==
  {id \in Ids : \A m \in 1 .. n : events[m].action \in Draws /\ events[m].object_id = id => Valid(events[m])}
Part(b, ids) ==
  [order |-> Only(b.order, ids),
   objects |-> [i \in DOMAIN b.objects \cap ids |-> b.objects[i]],
   highlights |-> Only(b.highlights, ids)]
MirrorsTrusted == Part(Erased(view), Trusted(seen)) = Part(boards[seen + 1], Trusted(seen))

\* Whiteboard.tsx:71-73 and 111-114: the two filters divide the board: whatever
\* was drawn, redrawn as something else or cleared, and in whichever order,
\* nothing is on the page twice, and only an annotation of an annotation is
\* missing.
OnAnnotation(b, id) == IsNote(b, id) /\ IsNote(b, Target[id])
EachShownOnce ==
  /\ IsInjective(BoardView(view))
  /\ Range(BoardView(view)) = {id \in DOMAIN view.objects : ~OnAnnotation(view, id)}

\* Whichever mix of snapshots and events brought it there, the student sees the
\* server's board as long as the browser accepted every text; a text it refuses
\* costs the object it was for and nothing else: the other objects, their order
\* and what is highlighted of them stay the server's.  Nothing is shown twice.
BoardIsShown == (SeenIsReadable => MirrorsServer) /\ MirrorsTrusted /\ EachShownOnce

\* What is drawn is listed once, in both places, and only what is drawn is
\* highlighted, once: an id left in a list would be drawn as nothing, a
\* repeated one twice.
Listed(b) ==
  /\ IsInjective(b.order) /\ {b.order[n] : n \in DOMAIN b.order} = DOMAIN b.objects
  /\ IsInjective(b.highlights) /\ {b.highlights[n] : n \in DOMAIN b.highlights} \subseteq DOMAIN b.objects
BoardsListed == Listed(view) /\ Listed(boards[Len(boards)])

-----------------------------------------------------------------------------
(* What the code does not keep                                             *)

\* Whiteboard.tsx:113 and 120-127: everything on the board is on the page.  An
\* annotation of an annotation is neither free nor below a card, although the
\* server stores it; with nothing else the page calls the board empty.
EverythingIsShown == Range(BoardView(view)) = DOMAIN view.objects

\* Whiteboard.tsx:70: what is highlighted looks different.  A note does not.
HighlightsAreSeen == \A n \in DOMAIN view.highlights : ~IsNote(view, view.highlights[n])
===============================================================================
