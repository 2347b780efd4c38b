---------------------------- MODULE ClassroomRuns ----------------------------
(***************************************************************************)
(* One AI Classroom session on the server                                  *)
(* (backend/app/services/classroom_service.py).                            *)
(*                                                                         *)
(* The row of classroom_sessions is the lock.  POST /turns stores the user *)
(* message and gives the row to a new run; the run executes in the         *)
(* background of the same process and, for each whiteboard action, a       *)
(* conditional UPDATE both allocates the next sequence number and proves   *)
(* that the run still owns an unexpired lease.  Each process also keeps    *)
(* _active_runs, a fast path written after the commit, in another step of  *)
(* the event loop.  Transactions hold the row lock to their commit, so     *)
(* each is one action; everything separated by an await is two.            *)
(*                                                                         *)
(* Abstractions.  A turn id (uuid4) is the number of the turn in the order *)
(* of the commits.  The clock is the action LeaseExpires.  A board is the  *)
(* set of events folded into it (Whiteboard models the reducer).           *)
(*                                                                         *)
(* Messages are read in the order of created_at, which PostgreSQL sets to  *)
(* the start of the transaction.  That of a POST starts when the token is  *)
(* checked, before the row is locked; _finish_success opens its own, and   *)
(* only a message stored before it can change what it does, so its start   *)
(* and its commit are one step.  The time of a start is the number of      *)
(* answers stored by then: an answer stored as number n has at = n and is  *)
(* read behind the questions with a smaller at, before the others.         *)
(***************************************************************************)
EXTENDS Integers, Sequences, FiniteSets

CONSTANTS Procs,          \* API processes
          ClientMsgs,     \* client_message_id values
          MaxTurns,       \* bound: turns started
          MaxEvents,      \* bound: whiteboard events
          SnapshotEvery,  \* SNAPSHOT_EVERY
          NoRun,          \* NULL run id, absent map entry
          Interrupted,    \* the "" entry of _active_runs
          NoProc, NoKey

ASSUME RunsAssumption ==
  /\ MaxTurns \in Nat
  /\ MaxEvents \in Nat
  /\ SnapshotEvery \in Nat \ {0}
  /\ NoRun \notin Nat
  /\ Interrupted \notin Nat
  /\ NoRun # Interrupted
  /\ NoProc \notin Procs
  /\ NoKey \notin ClientMsgs

Turns == 1 .. MaxTurns
Kinds == {"step", "draw"}   \* step_started / step_completed, or any other action

VARIABLES status, activeRun, lease, lastSeq,  \* the classroom_sessions row
          events,     \* whiteboard_events
          snapshot,   \* whiteboard_snapshots: the board and its last_sequence_no
          messages,   \* agent_messages in commit order, with created_at
          now,        \* the time, as the number of answers stored
          activeMap,  \* _active_runs of each process, for this session
          pc,         \* where each turn's run is
          home,       \* the process a run executes in
          marking,    \* processes inside interrupt(), past the commit
          replies     \* turn ids returned by POST /turns

row == <<status, activeRun, lease, lastSeq>>
board == <<events, snapshot>>
talk == <<messages, now>>
vars == <<row, board, talk, activeMap, pc, home, marking, replies>>

Event == [seq : 1 .. MaxEvents, turn : Turns, kind : Kinds]
Message == [role : {"user"}, turn : Turns, key : ClientMsgs, at : Nat]
             \cup [role : {"assistant"}, turn : Turns, key : {NoKey}, at : Nat]
Live == {"committed", "queued", "running", "persisting", "failing", "superseded", "closing"}

\* create_session: an idle session with no events.
Init ==
  /\ status = "idle" /\ activeRun = NoRun /\ lease = "none" /\ lastSeq = 0
  /\ events = {} /\ snapshot = [last |-> 0, board |-> {}]
  /\ messages = <<>> /\ now = 0
  /\ activeMap = [p \in Procs |-> NoRun]
  /\ pc = [t \in Turns |-> "unborn"]
  /\ home = [t \in Turns |-> NoProc]
  /\ marking = {} /\ replies = {}

\* What the read endpoints report.
MEffectiveStatus == status
EffectiveStatus == IF status = "running" /\ lease # "valid" THEN "failed" ELSE status

-----------------------------------------------------------------------------
(* Starting and interrupting a turn                                        *)

\* _existing_turn: the rows with this client_message_id.
MExistingTurn(key) == {}
ExistingTurn(key) == {i \in DOMAIN messages : messages[i].key = key}

\* start_turn up to its commit: a new client_message_id takes the row.  Its
\* transaction began at some earlier time at, when get_current_user read the user.
StartTurn(p, key, t, at) ==
  /\ ExistingTurn(key) = {}
  /\ pc[t] = "unborn" /\ \A u \in Turns : u < t => pc[u] # "unborn"
  /\ messages' = Append(messages, [role |-> "user", turn |-> t, key |-> key, at |-> at])
  /\ activeRun' = t /\ status' = "running" /\ lease' = "valid"
  /\ pc' = [pc EXCEPT ![t] = "committed"]
  /\ home' = [home EXCEPT ![t] = p]
  /\ UNCHANGED <<lastSeq, board, now, activeMap, marking, replies>>

\* start_turn for a client_message_id that is stored: the original turn id.
RetryTurn(key) ==
  /\ \E i \in ExistingTurn(key) :
       replies' = replies \cup {[key |-> key, turn |-> messages[i].turn]}
  /\ UNCHANGED <<row, board, talk, activeMap, pc, home, marking>>

\* start_turn after its commit: write the map, answer 202, queue the run.
RegisterRun(t) ==
  /\ pc[t] = "committed"
  /\ activeMap' = [activeMap EXCEPT ![home[t]] = t]
  /\ replies' = replies \cup
       {[key |-> messages[i].key, turn |-> t] : i \in
          {j \in DOMAIN messages : messages[j].role = "user" /\ messages[j].turn = t}}
  /\ pc' = [pc EXCEPT ![t] = "queued"]
  /\ UNCHANGED <<row, board, talk, home, marking>>

\* interrupt up to its commit.
Interrupt(p) ==
  /\ p \notin marking
  /\ activeRun # NoRun
  /\ activeRun' = NoRun /\ status' = "idle" /\ lease' = "none"
  /\ marking' = marking \cup {p}
  /\ UNCHANGED <<lastSeq, board, talk, activeMap, pc, home, replies>>

\* interrupt after its commit: mark the map.
MarkInterrupted(p) ==
  /\ p \in marking
  /\ activeMap' = [activeMap EXCEPT ![p] = Interrupted]
  /\ marking' = marking \ {p}
  /\ UNCHANGED <<row, board, talk, pc, home, replies>>

-----------------------------------------------------------------------------
(* A run                                                                   *)

Step(t, from, to) == pc[t] \in from /\ pc' = [pc EXCEPT ![t] = to]

\* run_turn starts: setdefault keeps an entry that is already there.
BeginRun(t) ==
  /\ Step(t, {"queued"}, "running")
  /\ activeMap' = [activeMap EXCEPT ![home[t]] = IF @ = NoRun THEN t ELSE @]
  /\ UNCHANGED <<row, board, talk, home, marking, replies>>

\* _RunEmitter._check: this process believes another run is current.
FastPathStops(t) == activeMap[home[t]] \notin {NoRun, t}

\* status, delta and action all check first; a failed check ends the run.
StopOnFastPath(t) ==
  /\ Step(t, {"running"}, "superseded")
  /\ FastPathStops(t)
  /\ UNCHANGED <<row, board, talk, activeMap, home, marking, replies>>

\* action(): the check passed and the text so far is flushed (an await).
BeginAction(t) ==
  /\ Step(t, {"running"}, "persisting")
  /\ ~FastPathStops(t)
  /\ UNCHANGED <<row, board, talk, activeMap, home, marking, replies>>

\* _write_snapshot: fold the events after the snapshot, up to sequence n.
MSnapshotThrough(n, evs) ==
  IF n <= snapshot.last THEN snapshot
  ELSE [last |-> n,
        board |-> snapshot.board \cup {e \in evs : snapshot.last < e.seq /\ e.seq < n}]
SnapshotThrough(n, evs) ==
  IF n <= snapshot.last THEN snapshot
  ELSE [last |-> n,
        board |-> snapshot.board \cup {e \in evs : snapshot.last < e.seq /\ e.seq <= n}]

\* WHERE of the conditional UPDATE.
MOwnsBoard(t) == lease = "valid"
OwnsBoard(t) == activeRun = t /\ lease = "valid"
NextSeq == lastSeq + 1

\* persist_whiteboard_event: one transaction.
PersistEvent(t, kind) ==
  /\ Step(t, {"persisting"}, "running")
  /\ OwnsBoard(t)
  /\ NextSeq <= MaxEvents
  /\ lastSeq' = NextSeq
  /\ lease' = "valid"
  /\ events' = events \cup {[seq |-> NextSeq, turn |-> t, kind |-> kind]}
  /\ snapshot' = IF kind = "step" \/ NextSeq % SnapshotEvery = 0
                   THEN SnapshotThrough(NextSeq, events') ELSE snapshot
  /\ UNCHANGED <<status, activeRun, talk, activeMap, home, marking, replies>>

\* The UPDATE matched no row: RunSupersededError.
MPersistRejected(t) ==
  /\ ~OwnsBoard(t)
  /\ Step(t, {"persisting"}, "running")
  /\ UNCHANGED <<row, board, talk, activeMap, home, marking, replies>>
PersistRejected(t) ==
  /\ ~OwnsBoard(t)
  /\ Step(t, {"persisting"}, "superseded")
  /\ UNCHANGED <<row, board, talk, activeMap, home, marking, replies>>

\* The graph, an action or the commit of _finish_success raises.
RunRaises(t) ==
  /\ Step(t, {"running", "persisting"}, "failing")
  /\ UNCHANGED <<row, board, talk, activeMap, home, marking, replies>>

\* The ownership check of _finish_success and _finish_failure: no lease test.
MStillOwner(t) == activeRun # NoRun
StillOwner(t) == activeRun = t

\* _finish_success; a commit whose acknowledgement is lost goes on to fail.
FinishSuccess(t) ==
  /\ StillOwner(t)
  /\ \E to \in {"closing", "failing"} : Step(t, {"running"}, to)
  /\ now' = now + 1
  /\ messages' = Append(messages, [role |-> "assistant", turn |-> t, key |-> NoKey, at |-> now'])
  /\ status' = "completed" /\ activeRun' = NoRun /\ lease' = "none"
  /\ snapshot' = SnapshotThrough(lastSeq, events)
  /\ UNCHANGED <<lastSeq, events, activeMap, home, marking, replies>>

\* _finish_failure.
FinishFailure(t) ==
  /\ StillOwner(t)
  /\ Step(t, {"failing"}, "closing")
  /\ status' = "failed" /\ activeRun' = NoRun /\ lease' = "none"
  /\ UNCHANGED <<lastSeq, board, talk, activeMap, home, marking, replies>>

\* Either finish finds that the run lost the row, or the failure report
\* itself fails and is only logged.
FinishNothing(t) ==
  /\ \/ ~StillOwner(t) /\ Step(t, {"running"}, "closing")
     \/ Step(t, {"failing"}, "closing")
  /\ UNCHANGED <<row, board, talk, activeMap, home, marking, replies>>

\* run_turn's finally clause.
EndRun(t) ==
  /\ Step(t, {"superseded", "closing"}, "done")
  /\ activeMap' = [activeMap EXCEPT ![home[t]] = IF @ \in {t, Interrupted} THEN NoRun ELSE @]
  /\ UNCHANGED <<row, board, talk, home, marking, replies>>

-----------------------------------------------------------------------------
(* The environment                                                         *)

\* classroom_run_lease_seconds pass without an event of the run.
LeaseExpires ==
  /\ lease = "valid"
  /\ lease' = "expired"
  /\ UNCHANGED <<status, activeRun, lastSeq, board, talk, activeMap, pc, home, marking, replies>>

\* A process dies with its runs, its handlers and its map.
Crash(p) ==
  /\ pc' = [t \in Turns |-> IF home[t] = p /\ pc[t] \in Live THEN "dead" ELSE pc[t]]
  /\ activeMap' = [activeMap EXCEPT ![p] = NoRun]
  /\ marking' = marking \ {p}
  /\ UNCHANGED <<row, board, talk, home, replies>>

RunStep(t) ==
  \/ RegisterRun(t) \/ BeginRun(t) \/ StopOnFastPath(t) \/ BeginAction(t)
  \/ \E kind \in Kinds : PersistEvent(t, kind)
  \/ PersistRejected(t) \/ RunRaises(t)
  \/ FinishSuccess(t) \/ FinishFailure(t) \/ FinishNothing(t) \/ EndRun(t)

Next ==
  \/ \E p \in Procs, key \in ClientMsgs, t \in Turns, at \in 0 .. now : StartTurn(p, key, t, at)
  \/ \E key \in ClientMsgs : RetryTurn(key)
  \/ \E t \in Turns : RunStep(t)
  \/ \E p \in Procs : Interrupt(p) \/ MarkInterrupted(p) \/ Crash(p)
  \/ LeaseExpires

Spec == Init /\ [][Next]_vars

\* A live run keeps executing until it ends or its process dies; time passes.
Fairness ==
  /\ \A t \in Turns : WF_vars(RunStep(t))
  /\ \A p \in Procs : WF_vars(MarkInterrupted(p))
  /\ WF_vars(LeaseExpires)

FairSpec == Spec /\ Fairness

-----------------------------------------------------------------------------
(* Safety                                                                  *)

TypeOK ==
  /\ status \in {"idle", "running", "completed", "failed"}
  /\ activeRun \in Turns \cup {NoRun}
  /\ lease \in {"none", "valid", "expired"}
  /\ lastSeq \in 0 .. MaxEvents
  /\ events \subseteq Event
  /\ snapshot \in [last : 0 .. MaxEvents, board : SUBSET Event]
  /\ messages \in Seq(Message) /\ now \in Nat
  /\ activeMap \in [Procs -> Turns \cup {NoRun, Interrupted}]
  /\ pc \in [Turns -> Live \cup {"unborn", "done", "dead"}]
  /\ home \in [Turns -> Procs \cup {NoProc}]
  /\ marking \subseteq Procs
  /\ replies \subseteq [key : ClientMsgs, turn : Turns]

\* The stored log has exactly one event for every number the row has handed
\* out, whatever crashed or was superseded in between: a client that asks for
\* the events after n never waits for a number that nobody will write.
LogContiguous ==
  /\ \A n \in 1 .. lastSeq : \E e \in events : e.seq = n
  /\ \A e, f \in events : e.seq = f.seq => e = f
  /\ \A e \in events : e.seq <= lastSeq

\* Turns write the board one after the other: once a later turn has an event,
\* no event of an earlier turn follows it, although both runs may still be
\* executing in different processes.
TurnsDoNotInterleave ==
  \A e, f \in events : e.seq < f.seq => e.turn <= f.turn

\* The snapshot is the replay of exactly the events up to its number, so
\* snapshot plus later events is the full replay.
SnapshotIsReplay ==
  /\ snapshot.last <= lastSeq
  /\ snapshot.board = {e \in events : e.seq <= snapshot.last}

Questions == {i \in DOMAIN messages : messages[i].role = "user"}
Answers == {i \in DOMAIN messages : messages[i].role = "assistant"}

\* What a reader of the conversation can rely on, although it is read in the
\* order in which transactions began and stored in the order of their commits:
\* answers come in the order of their turns and none twice, each behind its own
\* question; and an answer never comes from a turn that another had superseded,
\* so a later question read before it was still on its way when it was stored.
ConversationOrdered ==
  /\ \A i, j \in Answers : i < j =>
       messages[i].turn < messages[j].turn /\ messages[i].at < messages[j].at
  /\ \A i \in Answers : \E j \in Questions :
       j < i /\ messages[j].turn = messages[i].turn /\ messages[j].at < messages[i].at
  /\ \A i \in Answers, j \in Questions : messages[i].turn < messages[j].turn => i < j

\* A client that retries a message, also after a crash between the commit and
\* the 202, is told the same turn every time.
RetriesAgree ==
  \A r, s \in replies : r.key = s.key => r.turn = s.turn

\* The detailed service implements the ledger: one owner, an append-only log
\* written by the owner, one answer per turn.
Ledger == INSTANCE ClassroomLedger WITH
  begun <- CHOOSE n \in 0 .. MaxTurns : \A t \in Turns : pc[t] # "unborn" <=> t <= n,
  owner <- activeRun,
  log <- [n \in 1 .. lastSeq |-> (CHOOSE e \in events : e.seq = n).turn],
  answered <- {messages[i].turn : i \in Answers}

ImplementsLedger == Ledger!LedgerSpec

-----------------------------------------------------------------------------
(* What a comment claims and the code does not keep                        *)

\* classroom_service.py:76 says the in-process map only stops the streaming of
\* deltas and the database is authoritative: the map should never stop the run
\* that owns the row with a valid lease.
FastPathSparesOwner ==
  [][\A t \in Turns : OwnsBoard(t) /\ pc[t] = "running" => pc'[t] # "superseded"]_vars

-----------------------------------------------------------------------------
(* Liveness                                                                *)

\* A session never looks busy forever: whatever died or was stopped by the
\* fast path, the reported status leaves "running".
NeverRunningForever == EffectiveStatus = "running" ~> EffectiveStatus # "running"

\* A run that lost the row stops executing, in whichever process it is.
LosersStop ==
  \A t \in Turns : (pc[t] \in Live /\ activeRun # t) ~> pc[t] \notin Live
=============================================================================
