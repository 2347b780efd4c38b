--------------------------- MODULE ClassroomClient ---------------------------
(***************************************************************************)
(* The classroom store of one browser tab                                  *)
(* (frontend/src/stores/classroomStore.ts) against the ledger.             *)
(*                                                                         *)
(* A published envelope is delivered, delivered again or lost; envelopes   *)
(* of one run arrive in the order they were sent, those of different runs  *)
(* in any order.  A request and its answer take any time and may fail.     *)
(* The store never waits: what follows an await is an action that finds    *)
(* whatever the other actions have left.                                   *)
(*                                                                         *)
(* Abstractions.  The board is the sequence of numbers applied to it, an   *)
(* envelope stands for its event_id, status is whether it is "running",    *)
(* and of a turn's answer only its bubble and the stored message are kept. *)
(* Other tabs and crashes are steps of the ledger.                         *)
(***************************************************************************)
EXTENDS ClassroomLedger, FiniteSets

CONSTANTS MaxRecover,  \* MAX_RECOVER_ATTEMPTS
          MaxSends,    \* bound: messages this tab sends
          MaxEpochs,   \* bound: the page is left before this epoch
          MaxFails,    \* bound: requests that fail
          MaxInFlight  \* bound: requests in flight when the student or the channel starts one

ASSUME ClientAssumption ==
  /\ MaxTurns \in Nat /\ MaxEvents \in Nat /\ MaxRecover \in Nat
  /\ MaxSends \in Nat /\ MaxEpochs \in Nat /\ MaxFails \in Nat
  /\ MaxInFlight \in Nat /\ NoRun \notin Nat

VARIABLES snap,    \* last_sequence_no of the stored snapshot
          failed,  \* turns whose run has published classroom.error
          heard,   \* per turn, the place of the last delivered envelope
          cl,      \* the store and its bookkeeping
          reqs,    \* requests in flight, and their answers
          sends, fails

server == <<ledgerVars, snap, failed>>
vars == <<server, heard, cl, reqs, sends, fails>>

Seqs == 1 .. MaxEvents
Envelope == [type : {"delta", "completed", "error"}, turn : Turns, seq : {0}]
              \cup [type : {"action"}, turn : Turns, seq : Seqs]

\* INITIAL and clearBookkeeping.
Fresh(epoch, open) ==
  [open |-> open, epoch |-> epoch, running |-> FALSE, board |-> <<>>, lastSeq |-> 0,
   active |-> NoRun, awaiting |-> FALSE, superseded |-> {}, pending |-> {}, seen |-> {},
   bubble |-> [t \in Turns |-> "none"], final |-> {},
   recovering |-> FALSE, attempts |-> 0, timer |-> FALSE]

\* A session that has been created and subscribed to.
Init ==
  /\ LedgerInit
  /\ snap = 0 /\ failed = {} /\ heard = [t \in Turns |-> 0]
  /\ cl = Fresh(1, TRUE) /\ reqs = {} /\ sends = 0 /\ fails = 0

-----------------------------------------------------------------------------
(* Pure parts of the store                                                 *)

\* finishStreaming
Stopped(bubble) == [t \in Turns |-> IF bubble[t] = "streaming" THEN "partial" ELSE bubble[t]]

\* applyContent for the events that are not durable.
Show(c, e) ==
  CASE e.type = "delta" -> [c EXCEPT !.bubble[e.turn] = "streaming", !.running = TRUE]
    [] e.type = "completed" ->
         [c EXCEPT !.bubble[e.turn] = IF e.turn \in c.final THEN @ ELSE "none",
                   !.final = @ \cup {e.turn}, !.running = FALSE]
    [] e.type = "error" -> [c EXCEPT !.bubble = Stopped(@), !.running = FALSE]

\* commitDurable: apply n, then everything buffered that follows it.
LastContiguous(n, buffered) ==
  CHOOSE k \in n .. MaxEvents : n + 1 .. k \subseteq buffered /\ k + 1 \notin buffered
Commit(c, n) ==
  LET last == LastContiguous(n, c.pending) IN
  [c EXCEPT !.board = @ \o [i \in 1 .. last - n + 1 |-> n + i - 1],
            !.lastSeq = last,
            !.pending = {k \in @ : k > last}]

\* acceptTurn: the turn filter of live events, and the store it leaves.
Adopts(c) == c.active = NoRun \/ c.awaiting
Accepts(c, t) == t \notin c.superseded /\ (c.active = t \/ Adopts(c))
Filtered(c, t) ==
  IF t \in c.superseded \/ c.active = t THEN c
  ELSE IF Adopts(c) THEN [c EXCEPT !.superseded = @ \cup ({c.active} \ {NoRun}), !.active = t]
  ELSE [c EXCEPT !.superseded = @ \cup {t}]

\* applyState: the snapshot if it is newer, then the events that follow the
\* floor of the answer; those that leave a hole are buffered.
MWithSnapshot(c, n) ==
  IF n > 0 THEN [c EXCEPT !.board = [i \in 1 .. n |-> i], !.lastSeq = n] ELSE c
WithSnapshot(c, n) ==
  IF n > c.lastSeq THEN [c EXCEPT !.board = [i \in 1 .. n |-> i], !.lastSeq = n] ELSE c
MReplayOverHole(c, floor, upto) ==
  IF upto <= c.lastSeq THEN c
  ELSE LET n == IF c.lastSeq < floor THEN floor ELSE c.lastSeq
       IN Commit([c EXCEPT !.pending = @ \cup (n + 1 .. upto)], n + 1)
Replay(c, floor, upto) ==
  IF upto <= c.lastSeq THEN c
  ELSE IF c.lastSeq < floor THEN [c EXCEPT !.pending = @ \cup (floor + 1 .. upto)]
  ELSE Commit([c EXCEPT !.pending = @ \cup (c.lastSeq + 1 .. upto)], c.lastSeq + 1)
ApplyState(c, r) ==
  LET d == Replay(WithSnapshot(c, r.snap), IF r.snap > r.after THEN r.snap ELSE r.after, r.upto)
  IN [d EXCEPT !.running = @ \/ r.run]

\* The buffered events that became contiguous (only recover() does this).
Drain(c) == IF c.lastSeq + 1 \in c.pending THEN Commit(c, c.lastSeq + 1) ELSE c

Settle(c, epoch) ==
  IF epoch # c.epoch THEN c
  ELSE LET done == [c EXCEPT !.recovering = FALSE] IN
       IF c.pending = {} THEN [done EXCEPT !.attempts = 0]
       ELSE IF c.attempts < MaxRecover THEN [done EXCEPT !.attempts = @ + 1, !.timer = TRUE]
       ELSE done

StateRequest(purpose, c) ==
  [kind |-> purpose, epoch |-> c.epoch, after |-> c.lastSeq, stage |-> "sent",
   run |-> FALSE, snap |-> 0, upto |-> 0]

Room == Cardinality(reqs) < MaxInFlight

\* Calling recover() with store c and the requests rest.
StartRecover(c, rest) ==
  IF c.open /\ ~c.recovering
    THEN cl' = [c EXCEPT !.recovering = TRUE] /\ reqs' = rest \cup {StateRequest("recover", c)}
    ELSE cl' = c /\ reqs' = rest

-----------------------------------------------------------------------------
(* The server                                                              *)

\* Another tab starts or stops a turn, or the owner's process dies.
OtherTab ==
  /\ Begin \/ Release
  /\ UNCHANGED <<snap, failed, heard, cl, reqs, sends, fails>>

\* The owner writes an event; at step boundaries the snapshot follows.
RunWrites ==
  /\ Write
  /\ snap' \in {snap, Len(log')}
  /\ UNCHANGED <<failed, heard, cl, reqs, sends, fails>>

RunAnswers ==
  /\ Answer
  /\ snap' = Len(log)
  /\ UNCHANGED <<failed, heard, cl, reqs, sends, fails>>

RunFails ==
  /\ Release
  /\ failed' = failed \cup {owner}
  /\ UNCHANGED <<snap, heard, cl, reqs, sends, fails>>

\* Request r becomes s.
Turned(r, s) == r \in reqs /\ reqs' = (reqs \ {r}) \cup {s}

\* POST /turns
ServeTurn(r) ==
  /\ r.kind = "turn" /\ r.stage = "sent"
  /\ Begin
  /\ Turned(r, [r EXCEPT !.stage = "answered", !.turn = begun'])
  /\ UNCHANGED <<snap, failed, heard, cl, sends, fails>>

\* POST /interrupt
ServeInterrupt(r) ==
  /\ r.kind = "interrupt" /\ r.stage = "sent"
  /\ IF owner # NoRun THEN Release ELSE UNCHANGED ledgerVars
  /\ Turned(r, [r EXCEPT !.stage = "answered"])
  /\ UNCHANGED <<snap, failed, heard, cl, sends, fails>>

\* GET /state: the session row, then (another statement) snapshot and events.
\* A row whose lease has expired is not reported as running.
ServeStatus(r) ==
  /\ r.kind \in {"recover", "restore"} /\ r.stage = "sent"
  /\ \E run \in {FALSE, owner # NoRun} : Turned(r, [r EXCEPT !.stage = "row", !.run = run])
  /\ UNCHANGED <<server, heard, cl, sends, fails>>
ServeBoard(r) ==
  /\ r.kind \in {"recover", "restore"} /\ r.stage = "row"
  /\ Turned(r, [r EXCEPT !.stage = "answered",
                         !.snap = IF snap > r.after THEN snap ELSE 0, !.upto = Len(log)])
  /\ UNCHANGED <<server, heard, cl, sends, fails>>

\* GET /sessions/{id}
ServeDetail(r) ==
  /\ r.kind = "detail" /\ r.stage = "sent"
  /\ \E run \in {FALSE, owner # NoRun} :
       Turned(r, [r EXCEPT !.stage = "answered", !.run = run, !.answered = answered])
  /\ UNCHANGED <<server, heard, cl, sends, fails>>

-----------------------------------------------------------------------------
(* Realtime                                                                *)

Published ==
  {[type |-> "action", turn |-> log[n], seq |-> n] : n \in DOMAIN log}
    \cup {[type |-> "delta", turn |-> t, seq |-> 0] : t \in 1 .. begun}
    \cup {[type |-> "completed", turn |-> t, seq |-> 0] : t \in answered}
    \cup {[type |-> "error", turn |-> t, seq |-> 0] : t \in failed}

\* The place of an envelope in its run: a delta fits anywhere before the end.
Place(e) == CASE e.type = "delta" -> heard[e.turn] [] e.type = "action" -> e.seq [] OTHER -> MaxEvents + 1

Skips(e) == e \in cl.seen \/ (e.type = "action" /\ e.seq <= cl.lastSeq)

\* ingest: duplicates, the turn filter, then apply, or buffer and recover.
Ingest(e) ==
  LET kept == [Filtered(cl, e.turn) EXCEPT !.seen = IF e.type = "delta" THEN @ ELSE @ \cup {e}] IN
  CASE Skips(e) -> cl' = cl /\ UNCHANGED reqs
    [] ~Skips(e) /\ ~Accepts(cl, e.turn) -> cl' = Filtered(cl, e.turn) /\ UNCHANGED reqs
    [] ~Skips(e) /\ Accepts(cl, e.turn) /\ e.type # "action" -> cl' = Show(kept, e) /\ UNCHANGED reqs
    [] ~Skips(e) /\ Accepts(cl, e.turn) /\ e.type = "action" ->
         IF e.seq = cl.lastSeq + 1 THEN cl' = Commit(kept, e.seq) /\ UNCHANGED reqs
         ELSE StartRecover([kept EXCEPT !.pending = @ \cup {e.seq}], reqs)

\* The channel delivers e, possibly again; what it skips is lost.
Deliver(e) ==
  /\ cl.open
  /\ heard[e.turn] <= Place(e) /\ (e.type = "delta" => heard[e.turn] <= MaxEvents)
  /\ heard' = [heard EXCEPT ![e.turn] = Place(e)]
  /\ Ingest(e)
  /\ UNCHANGED <<server, sends, fails>>

\* The channel reports SUBSCRIBED again.
Reconnect ==
  /\ cl.open /\ Room
  /\ StartRecover(cl, reqs)
  /\ UNCHANGED <<server, heard, sends, fails>>

-----------------------------------------------------------------------------
(* Sending and stopping                                                    *)

\* The composer lets the student send while nothing runs; sendMessage reads
\* the session and awaits the access token.
SendMessage ==
  /\ cl.open /\ ~cl.running /\ sends < MaxSends /\ Room
  /\ sends' = sends + 1
  /\ reqs' = reqs \cup {[kind |-> "token", id |-> sends + 1]}
  /\ UNCHANGED <<server, heard, cl, fails>>

\* sendMessage from the token to POST /turns.
PostTurn(r) ==
  /\ r.kind = "token"
  /\ cl' = [cl EXCEPT !.superseded = @ \cup ({cl.active} \ {NoRun}), !.awaiting = TRUE,
                      !.running = TRUE, !.active = NoRun, !.bubble = Stopped(@)]
  /\ Turned(r, [kind |-> "turn", id |-> r.id, stage |-> "sent", turn |-> NoRun])
  /\ UNCHANGED <<server, heard, sends, fails>>

Ends(r) == r \in reqs /\ r.stage = "answered" /\ reqs' = reqs \ {r}

\* The 202.
TurnAccepted(r) ==
  /\ r.kind = "turn" /\ Ends(r)
  /\ cl' = [cl EXCEPT !.superseded = @ \cup ({cl.active} \ {NoRun, r.turn}),
                      !.awaiting = FALSE, !.active = r.turn]
  /\ UNCHANGED <<server, heard, sends, fails>>

\* A request fails, before or after the server handled it.
Fails(r) == r \in reqs /\ fails < MaxFails /\ fails' = fails + 1

TurnFails(r) ==
  /\ r.kind = "turn" /\ Fails(r) /\ reqs' = reqs \ {r}
  /\ cl' = [cl EXCEPT !.awaiting = FALSE, !.running = FALSE, !.bubble = Stopped(@)]
  /\ UNCHANGED <<server, heard, sends>>

\* The student presses Stop.
Interrupt ==
  /\ cl.open /\ cl.running /\ Room
  /\ reqs' = reqs \cup {[kind |-> "interrupt", stage |-> "sent"]}
  /\ UNCHANGED <<server, heard, cl, sends, fails>>

InterruptDone(r) ==
  /\ r.kind = "interrupt" /\ r.stage = "answered"
  /\ StartRecover([cl EXCEPT !.superseded = @ \cup ({cl.active} \ {NoRun}), !.awaiting = FALSE,
                             !.running = FALSE, !.active = NoRun, !.bubble = Stopped(@)], reqs \ {r})
  /\ UNCHANGED <<server, heard, sends, fails>>

InterruptFails(r) ==
  /\ r.kind = "interrupt" /\ Fails(r) /\ reqs' = reqs \ {r}
  /\ UNCHANGED <<server, heard, cl, sends>>

-----------------------------------------------------------------------------
(* Recovering, leaving and restoring                                       *)

\* recover() continues.  It is the session that is compared, not the epoch.
RecoverDone(r) ==
  /\ r.kind = "recover" /\ Ends(r)
  /\ cl' = IF cl.open THEN Settle(Drain(ApplyState(cl, r)), r.epoch) ELSE cl
  /\ UNCHANGED <<server, heard, sends, fails>>

RecoverFails(r) ==
  /\ r.kind = "recover" /\ Fails(r) /\ reqs' = reqs \ {r}
  /\ cl' = Settle(cl, r.epoch)
  /\ UNCHANGED <<server, heard, sends>>

TimerFires ==
  /\ cl.timer
  /\ StartRecover([cl EXCEPT !.timer = FALSE], reqs)
  /\ UNCHANGED <<server, heard, sends, fails>>

\* reset: the page is left.  Requests stay in flight.
Reset ==
  /\ cl.open /\ cl.epoch < MaxEpochs
  /\ cl' = Fresh(cl.epoch + 1, FALSE)
  /\ UNCHANGED <<server, heard, reqs, sends, fails>>

\* restoreSaved: the page is opened again.
Restore ==
  /\ ~cl.open /\ Cardinality(reqs) <= MaxInFlight
  /\ cl' = Fresh(cl.epoch + 1, TRUE)
  /\ reqs' = reqs \cup {StateRequest("restore", cl'),
                        [kind |-> "detail", epoch |-> cl.epoch + 1, stage |-> "sent",
                         run |-> FALSE, answered |-> {}]}
  /\ UNCHANGED <<server, heard, sends, fails>>

\* Both answers are there; again only the session is compared.
RestoreDone(r, d) ==
  /\ r.kind = "restore" /\ d.kind = "detail" /\ r.epoch = d.epoch
  /\ r.stage = "answered" /\ d.stage = "answered"
  /\ reqs' = reqs \ {r, d}
  /\ cl' = IF cl.open
             THEN ApplyState([cl EXCEPT !.running = d.run, !.final = d.answered,
                                        !.bubble = [t \in Turns |-> "none"]], r)
             ELSE cl
  /\ UNCHANGED <<server, heard, sends, fails>>

RestoreFails(r, d) ==
  /\ r.kind = "restore" /\ d.kind = "detail" /\ r.epoch = d.epoch
  /\ Fails(r) /\ reqs' = reqs \ {r, d}
  /\ cl' = IF cl.open THEN Fresh(cl.epoch + 1, FALSE) ELSE cl
  /\ UNCHANGED <<server, heard, sends>>

RecoverStep(r) == ServeStatus(r) \/ ServeBoard(r) \/ RecoverDone(r) \/ RecoverFails(r)
RequestStep(r) ==
  \/ ServeTurn(r) \/ ServeInterrupt(r) \/ ServeDetail(r)
  \/ PostTurn(r) \/ TurnAccepted(r) \/ TurnFails(r) \/ InterruptDone(r) \/ InterruptFails(r)
  \/ \E d \in reqs : RestoreDone(r, d) \/ RestoreFails(r, d)

Next ==
  \/ OtherTab \/ RunWrites \/ RunAnswers \/ RunFails
  \/ \E e \in Published : Deliver(e)
  \/ SendMessage \/ Interrupt \/ Reconnect \/ TimerFires \/ Reset \/ Restore
  \/ \E r \in reqs : RecoverStep(r) \/ RequestStep(r)

Spec == Init /\ [][Next]_vars

\* Recoveries of the open session are answered or fail, and timers fire; of
\* the channel, the student and the other requests nothing is assumed.
FairSpec ==
  /\ Spec
  /\ WF_vars(\E r \in reqs : r.kind = "recover" /\ r.epoch = cl.epoch /\ RecoverStep(r))
  /\ WF_vars(TimerFires)

-----------------------------------------------------------------------------
(* Properties                                                              *)

TypeOK ==
  /\ begun \in 0 .. MaxTurns /\ owner \in Turns \cup {NoRun}
  /\ log \in Seq(Turns) /\ Len(log) <= MaxEvents /\ snap \in 0 .. Len(log)
  /\ answered \subseteq Turns /\ failed \subseteq Turns
  /\ heard \in [Turns -> 0 .. MaxEvents + 1]
  /\ cl.board \in Seq(Seqs) /\ cl.lastSeq \in 0 .. MaxEvents
  /\ cl.active \in Turns \cup {NoRun} /\ cl.superseded \subseteq Turns /\ cl.final \subseteq Turns
  /\ cl.pending \subseteq Seqs /\ cl.seen \subseteq Envelope /\ cl.attempts \in 0 .. MaxRecover
  /\ cl.bubble \in [Turns -> {"none", "streaming", "partial"}]
  /\ {cl.open, cl.running, cl.awaiting, cl.recovering, cl.timer} \subseteq BOOLEAN
  /\ \A r \in reqs : r.kind \in {"token", "turn", "interrupt", "recover", "restore", "detail"}

\* The board on screen is the replay of the first lastSeq events of the
\* session, each applied once and in order, however live events, snapshots,
\* replays and buffered events meet, also when an answer that was requested
\* before the page was left arrives after it was opened again.
BoardIsReplay ==
  /\ cl.lastSeq <= Len(log)
  /\ cl.board = [n \in 1 .. cl.lastSeq |-> n]

\* A state response computed before later events arrived live never takes the
\* board back: within one opening of the page it only grows.
BoardNeverGoesBack ==
  [][cl'.epoch = cl.epoch => cl'.lastSeq >= cl.lastSeq]_vars

\* The flags agree with the requests that will clear them: recovering cannot
\* stay set with no recovery in flight (no gap would be repaired again), and
\* the window in which any turn is adopted closes with the last POST.
FlagsHaveRequests ==
  /\ cl.recovering <=> \E r \in reqs : r.kind = "recover" /\ r.epoch = cl.epoch
  /\ cl.awaiting => \E r \in reqs : r.kind = "turn"

\* What the tab shows, and what it believes to be waiting for, is so
\* (classroomStore.ts:282-330): nothing on the board is invented, and no flag
\* outlives the request it stands for.
PageIsTrue == BoardIsReplay /\ FlagsHaveRequests

\* An event held back because an earlier one is missing is applied in the end,
\* whatever fails and whenever it arrived, as long as the page is not left: the
\* store gives up only when as many requests have failed as there are retries (one
\* retry may be used up by an answer asked for before the event was held back), and
\* then with no retry armed or in flight.  (After the page is opened again this
\* fails: restore applies a snapshot, classroomStore.ts:411, without draining what
\* was held back.)
GaveUp == fails >= MaxRecover /\ cl.attempts = MaxRecover /\ ~cl.timer /\ ~cl.recovering

-----------------------------------------------------------------------------
(* What a comment claims and the code does not keep                        *)

\* classroomStore.ts:357 says the 202 is authoritative: the events of the turn
\* it names are heard, so the followed turn is never one of the ignored.
FollowedTurnIsHeard == cl.active \notin cl.superseded
=============================================================================
