------------------------- MODULE ClassroomRunsProofs -------------------------
(***************************************************************************)
(* Theorems about ClassroomRuns, for every number of processes, turns,     *)
(* messages and events.                                                    *)
(***************************************************************************)
EXTENDS ClassroomRuns, TLAPS

\* Turns are numbered in the order in which they are born.
BornInOrder ==
  \A t, u \in Turns : t < u /\ pc[u] # "unborn" => pc[t] # "unborn"

\* The turn that owns the row is the youngest one.
OwnerIsYoungest ==
  activeRun # NoRun =>
    /\ pc[activeRun] # "unborn"
    /\ \A u \in Turns : activeRun < u => pc[u] = "unborn"

EventsAreOfBornTurns == \A e \in events : pc[e.turn] # "unborn"

\* The inductive invariant behind the order of the log.
LogInv ==
  /\ TypeOK
  /\ BornInOrder
  /\ OwnerIsYoungest
  /\ EventsAreOfBornTurns
  /\ LogContiguous
  /\ TurnsDoNotInterleave
  /\ SnapshotIsReplay

USE RunsAssumption DEF Turns, Kinds, Live

\* Folding events into the snapshot keeps it a board with a number.
LEMMA SnapshotType ==
  ASSUME TypeOK, NEW n \in 0 .. MaxEvents, NEW evs \in SUBSET Event
  PROVE  SnapshotThrough(n, evs) \in [last : 0 .. MaxEvents, board : SUBSET Event]
BY DEF TypeOK, SnapshotThrough

\* Folding the log through n gives exactly the events up to n.
LEMMA SnapshotReplays ==
  ASSUME TypeOK, NEW n \in 0 .. MaxEvents, NEW evs \in SUBSET Event,
         snapshot.board = {e \in evs : e.seq <= snapshot.last}, snapshot.last <= n
  PROVE  LET s == SnapshotThrough(n, evs) IN
         s.last = n /\ s.board = {e \in evs : e.seq <= n}
<1>. \A e \in Event : e.seq \in Nat
  BY DEF Event
<1>. snapshot.last \in Nat
  BY DEF TypeOK
<1>. QED
  BY DEF SnapshotThrough

LEMMA TypeInit == Init => TypeOK
BY DEF Init, TypeOK

LEMMA TypeStep == TypeOK /\ [Next]_vars => TypeOK'
<1>. SUFFICES ASSUME TypeOK, [Next]_vars PROVE TypeOK'
  OBVIOUS
<1>. USE DEF row, board, talk, Message
<1>0. \A i \in DOMAIN messages : messages[i] \in Message
  BY DEF TypeOK
<1>1. ASSUME NEW p \in Procs, NEW key \in ClientMsgs, NEW t \in Turns, NEW at \in 0 .. now,
             StartTurn(p, key, t, at)
      PROVE  TypeOK'
  BY <1>1 DEF TypeOK, StartTurn
<1>2. ASSUME NEW key \in ClientMsgs, RetryTurn(key)
      PROVE  TypeOK'
  <2>1. \A i \in ExistingTurn(key) : messages[i].turn \in Turns
    BY <1>0 DEF ExistingTurn
  <2>. QED
    BY <1>2, <2>1 DEF TypeOK, RetryTurn
<1>3. ASSUME NEW t \in Turns, RegisterRun(t)
      PROVE  TypeOK'
  <2>1. replies' \subseteq [key : ClientMsgs, turn : Turns]
    <3>1. \A i \in DOMAIN messages : messages[i].role = "user" => messages[i].key \in ClientMsgs
      BY <1>0
    <3>. QED
      BY <1>3, <3>1 DEF TypeOK, RegisterRun
  <2>. QED
    BY <1>3, <2>1 DEF TypeOK, RegisterRun
<1>4. ASSUME NEW t \in Turns, BeginRun(t) PROVE TypeOK'
  BY <1>4 DEF TypeOK, BeginRun, Step
<1>5. ASSUME NEW t \in Turns, StopOnFastPath(t) PROVE TypeOK'
  BY <1>5 DEF TypeOK, StopOnFastPath, Step
<1>6. ASSUME NEW t \in Turns, BeginAction(t) PROVE TypeOK'
  BY <1>6 DEF TypeOK, BeginAction, Step
<1>7. ASSUME NEW t \in Turns, NEW kind \in Kinds, PersistEvent(t, kind) PROVE TypeOK'
  <2>1. NextSeq \in 1 .. MaxEvents
    BY <1>7 DEF TypeOK, PersistEvent, NextSeq
  <2>2. events' \subseteq Event
    BY <1>7, <2>1 DEF TypeOK, PersistEvent, Event
  <2>3. snapshot' \in [last : 0 .. MaxEvents, board : SUBSET Event]
    BY <1>7, <2>1, <2>2, SnapshotType DEF TypeOK, PersistEvent
  <2>. QED
    <3>1. pc' \in [Turns -> Live \cup {"unborn", "done", "dead"}]
      BY <1>7 DEF TypeOK, PersistEvent, Step
    <3>2. /\ lastSeq' = NextSeq
          /\ lease' = "valid"
          /\ UNCHANGED <<status, activeRun, messages, now, activeMap, home, marking, replies>>
      BY <1>7 DEF PersistEvent
    <3>. QED
      BY <2>1, <2>2, <2>3, <3>1, <3>2 DEF TypeOK
<1>8. ASSUME NEW t \in Turns, PersistRejected(t) PROVE TypeOK'
  BY <1>8 DEF TypeOK, PersistRejected, Step
<1>9. ASSUME NEW t \in Turns, RunRaises(t) PROVE TypeOK'
  BY <1>9 DEF TypeOK, RunRaises, Step
<1>10. ASSUME NEW t \in Turns, FinishSuccess(t) PROVE TypeOK'
  <2>1. snapshot' \in [last : 0 .. MaxEvents, board : SUBSET Event]
    BY <1>10, SnapshotType DEF TypeOK, FinishSuccess
  <2>. QED
    BY <1>10, <2>1 DEF TypeOK, FinishSuccess, Step
<1>11. ASSUME NEW t \in Turns, FinishFailure(t) PROVE TypeOK'
  BY <1>11 DEF TypeOK, FinishFailure, Step
<1>12. ASSUME NEW t \in Turns, FinishNothing(t) PROVE TypeOK'
  BY <1>12 DEF TypeOK, FinishNothing, Step
<1>13. ASSUME NEW t \in Turns, EndRun(t) PROVE TypeOK'
  BY <1>13 DEF TypeOK, EndRun, Step
<1>14. ASSUME NEW p \in Procs, Interrupt(p) PROVE TypeOK'
  BY <1>14 DEF TypeOK, Interrupt
<1>15. ASSUME NEW p \in Procs, MarkInterrupted(p) PROVE TypeOK'
  BY <1>15 DEF TypeOK, MarkInterrupted
<1>16. ASSUME NEW p \in Procs, Crash(p) PROVE TypeOK'
  BY <1>16 DEF TypeOK, Crash
<1>17. CASE LeaseExpires
  BY <1>17 DEF TypeOK, LeaseExpires
<1>18. CASE UNCHANGED vars
  BY <1>18 DEF TypeOK, vars
<1>. QED
  BY <1>1, <1>2, <1>3, <1>4, <1>5, <1>6, <1>7, <1>8, <1>9, <1>10, <1>11, <1>12, <1>13,
     <1>14, <1>15, <1>16, <1>17, <1>18 DEF Next, RunStep

\* Every reachable state has the declared types.
THEOREM TypeCorrect == Spec => []TypeOK
BY TypeInit, TypeStep, PTL DEF Spec

-----------------------------------------------------------------------------
(* The log                                                                 *)

\* A step that gives birth to no turn.
SameBorn == \A u \in Turns : pc'[u] = "unborn" <=> pc[u] = "unborn"

LEMMA StepKeepsBorn ==
  ASSUME TypeOK, NEW t \in Turns, NEW from, NEW to,
         "unborn" \notin from, to # "unborn", Step(t, from, to)
  PROVE  SameBorn
BY DEF TypeOK, Step, SameBorn

\* A step that leaves the log alone and at most frees the row.
LEMMA QuietStep ==
  ASSUME LogInv, TypeOK', SameBorn, UNCHANGED <<lastSeq, events, snapshot>>,
         activeRun' = activeRun \/ activeRun' = NoRun
  PROVE  LogInv'
<1>. USE DEF LogInv, SameBorn
<1>1. BornInOrder'
  BY DEF BornInOrder
<1>2. OwnerIsYoungest'
  BY DEF OwnerIsYoungest, TypeOK
<1>3. EventsAreOfBornTurns'
  BY DEF EventsAreOfBornTurns, TypeOK, Event
<1>4. LogContiguous' /\ TurnsDoNotInterleave' /\ SnapshotIsReplay'
  BY DEF LogContiguous, TurnsDoNotInterleave, SnapshotIsReplay
<1>. QED
  BY <1>1, <1>2, <1>3, <1>4

LEMMA LogStart ==
  ASSUME LogInv, TypeOK', NEW p \in Procs, NEW key \in ClientMsgs, NEW t \in Turns,
         NEW at \in 0 .. now, StartTurn(p, key, t, at)
  PROVE  LogInv'
<1>. USE DEF LogInv, StartTurn, row, board, talk
<1>1. BornInOrder'
  BY DEF BornInOrder, TypeOK
<1>2. OwnerIsYoungest'
  BY DEF OwnerIsYoungest, BornInOrder, TypeOK
<1>3. EventsAreOfBornTurns'
  BY DEF EventsAreOfBornTurns, TypeOK, Event
<1>4. LogContiguous' /\ TurnsDoNotInterleave' /\ SnapshotIsReplay'
  BY DEF LogContiguous, TurnsDoNotInterleave, SnapshotIsReplay
<1>. QED
  BY <1>1, <1>2, <1>3, <1>4

LEMMA LogPersist ==
  ASSUME LogInv, TypeOK', NEW t \in Turns, NEW kind \in Kinds, PersistEvent(t, kind)
  PROVE  LogInv'
<1>. DEFINE new == [seq |-> lastSeq + 1, turn |-> t, kind |-> kind]
<1>1. /\ Step(t, {"persisting"}, "running")
      /\ activeRun = t /\ activeRun' = t
      /\ lastSeq \in Nat /\ lastSeq + 1 \in 0 .. MaxEvents
      /\ lastSeq' = lastSeq + 1
      /\ events' = events \cup {new}
      /\ snapshot' = snapshot \/ snapshot' = SnapshotThrough(lastSeq + 1, events')
  BY DEF LogInv, TypeOK, PersistEvent, OwnsBoard, NextSeq
<1>2. SameBorn
  BY <1>1, StepKeepsBorn DEF LogInv
<1>3. TypeOK /\ (\A e \in events : e.seq \in Nat /\ e.turn \in Turns /\ e.seq <= lastSeq)
  <2>1. TypeOK /\ (\A e \in events : e \in Event)
    BY DEF LogInv, TypeOK
  <2>2. \A e \in Event : e.seq \in Nat /\ e.turn \in Turns
    BY DEF Event
  <2>. QED
    BY <2>1, <2>2 DEF LogInv, LogContiguous
<1>4. \A e \in events : e.turn <= t
  BY <1>1, <1>3 DEF LogInv, OwnerIsYoungest, EventsAreOfBornTurns
<1>5. BornInOrder' /\ OwnerIsYoungest'
  <2>1. BornInOrder'
    BY <1>2 DEF LogInv, SameBorn, BornInOrder
  <2>2. OwnerIsYoungest'
    BY <1>1, <1>2 DEF LogInv, SameBorn, OwnerIsYoungest
  <2>. QED
    BY <2>1, <2>2
<1>6. EventsAreOfBornTurns'
  <2>1. pc[t] # "unborn"
    BY <1>1 DEF Step
  <2>. QED
    BY <1>1, <1>2, <1>3, <2>1 DEF LogInv, SameBorn, EventsAreOfBornTurns
<1>7. LogContiguous'
  <2>1. \A n \in 1 .. lastSeq + 1 : n \in 1 .. lastSeq \/ n = new.seq
    BY <1>1
  <2>2. \A n \in 1 .. lastSeq + 1 : \E e \in events' : e.seq = n
    BY <1>1, <2>1 DEF LogInv, LogContiguous
  <2>3. \A e \in events : e.seq # new.seq
    BY <1>1, <1>3
  <2>. QED
    BY <1>1, <1>3, <2>2, <2>3 DEF LogInv, LogContiguous
<1>8. TurnsDoNotInterleave'
  BY <1>1, <1>3, <1>4 DEF LogInv, TurnsDoNotInterleave
<1>9. SnapshotIsReplay'
  <2>. USE DEF SnapshotIsReplay
  <2>1. /\ snapshot.last \in Nat /\ snapshot.last <= lastSeq
        /\ snapshot.board = {e \in events' : e.seq <= snapshot.last}
    BY <1>1, <1>3 DEF LogInv, TypeOK
  <2>2. CASE snapshot' = snapshot
    BY <1>1, <2>1, <2>2
  <2>3. CASE snapshot' = SnapshotThrough(lastSeq + 1, events')
    <3>1. events' \in SUBSET Event
      BY DEF TypeOK
    <3>2. snapshot'.last = lastSeq + 1 /\ snapshot'.board = {e \in events' : e.seq <= lastSeq + 1}
      BY <1>1, <1>3, <2>1, <2>3, <3>1, SnapshotReplays
    <3>. QED
      BY <1>1, <3>2
  <2>. QED
    BY <1>1, <2>2, <2>3
<1>. QED
  BY <1>5, <1>6, <1>7, <1>8, <1>9 DEF LogInv

LEMMA LogFinish ==
  ASSUME LogInv, TypeOK', NEW t \in Turns, FinishSuccess(t)
  PROVE  LogInv'
<1>1. /\ activeRun' = NoRun
      /\ UNCHANGED <<lastSeq, events>>
      /\ snapshot' = SnapshotThrough(lastSeq, events)
      /\ \E to \in {"closing", "failing"} : Step(t, {"running"}, to)
  BY DEF FinishSuccess
<1>2. SameBorn
  BY <1>1, StepKeepsBorn DEF LogInv
<1>3. SnapshotIsReplay'
  <2>1. snapshot'.last = lastSeq /\ snapshot'.board = {e \in events : e.seq <= lastSeq}
    <3>1. lastSeq \in 0 .. MaxEvents /\ events \in SUBSET Event
      BY DEF LogInv, TypeOK
    <3>2. snapshot.board = {e \in events : e.seq <= snapshot.last} /\ snapshot.last <= lastSeq
      BY DEF LogInv, SnapshotIsReplay
    <3>3. TypeOK
      BY DEF LogInv
    <3> HIDE DEF Turns, Kinds, Live
    <3>. QED
      BY <1>1, <3>1, <3>2, <3>3, SnapshotReplays
  <2>. QED
    BY <1>1, <2>1 DEF LogInv, TypeOK, SnapshotIsReplay
<1>4. EventsAreOfBornTurns'
  BY <1>1, <1>2 DEF LogInv, SameBorn, EventsAreOfBornTurns, TypeOK, Event
<1>5. BornInOrder' /\ OwnerIsYoungest' /\ LogContiguous' /\ TurnsDoNotInterleave'
  BY <1>1, <1>2 DEF LogInv, SameBorn, BornInOrder, OwnerIsYoungest, LogContiguous, TurnsDoNotInterleave
<1>. QED
  BY <1>3, <1>4, <1>5 DEF LogInv

LEMMA LogInit == Init => LogInv
<1>. SUFFICES ASSUME Init PROVE LogInv
  OBVIOUS
<1>1. TypeOK
  BY TypeInit
<1>. QED
  BY <1>1 DEF Init, LogInv, BornInOrder, OwnerIsYoungest, EventsAreOfBornTurns,
              LogContiguous, TurnsDoNotInterleave, SnapshotIsReplay

LEMMA LogStep == LogInv /\ [Next]_vars => LogInv'
<1>. SUFFICES ASSUME LogInv, [Next]_vars PROVE LogInv'
  OBVIOUS
<1>0. TypeOK /\ TypeOK'
  BY TypeStep DEF LogInv
<1>. USE DEF row, board, talk
<1>1. ASSUME NEW p \in Procs, NEW key \in ClientMsgs, NEW t \in Turns, NEW at \in 0 .. now,
             StartTurn(p, key, t, at)
      PROVE  LogInv'
  BY <1>0, <1>1, LogStart
<1>2. ASSUME NEW key \in ClientMsgs, RetryTurn(key) PROVE LogInv'
  BY <1>0, <1>2, QuietStep DEF RetryTurn, SameBorn
<1>3. ASSUME NEW t \in Turns, RegisterRun(t) PROVE LogInv'
  <2>1. Step(t, {"committed"}, "queued")
    BY <1>3 DEF RegisterRun, Step
  <2>. QED
    BY <1>0, <1>3, <2>1, StepKeepsBorn, QuietStep DEF RegisterRun
<1>4. ASSUME NEW t \in Turns, BeginRun(t) PROVE LogInv'
  BY <1>0, <1>4, StepKeepsBorn, QuietStep DEF BeginRun
<1>5. ASSUME NEW t \in Turns, StopOnFastPath(t) PROVE LogInv'
  BY <1>0, <1>5, StepKeepsBorn, QuietStep DEF StopOnFastPath
<1>6. ASSUME NEW t \in Turns, BeginAction(t) PROVE LogInv'
  BY <1>0, <1>6, StepKeepsBorn, QuietStep DEF BeginAction
<1>7. ASSUME NEW t \in Turns, NEW kind \in Kinds, PersistEvent(t, kind) PROVE LogInv'
  BY <1>0, <1>7, LogPersist
<1>8. ASSUME NEW t \in Turns, PersistRejected(t) PROVE LogInv'
  BY <1>0, <1>8, StepKeepsBorn, QuietStep DEF PersistRejected
<1>9. ASSUME NEW t \in Turns, RunRaises(t) PROVE LogInv'
  BY <1>0, <1>9, StepKeepsBorn, QuietStep DEF RunRaises
<1>10. ASSUME NEW t \in Turns, FinishSuccess(t) PROVE LogInv'
  BY <1>0, <1>10, LogFinish
<1>11. ASSUME NEW t \in Turns, FinishFailure(t) PROVE LogInv'
  BY <1>0, <1>11, StepKeepsBorn, QuietStep DEF FinishFailure
<1>12. ASSUME NEW t \in Turns, FinishNothing(t) PROVE LogInv'
  <2>1. SameBorn
    BY <1>0, <1>12, StepKeepsBorn DEF FinishNothing
  <2>. QED
    BY <1>0, <1>12, <2>1, QuietStep DEF FinishNothing
<1>13. ASSUME NEW t \in Turns, EndRun(t) PROVE LogInv'
  BY <1>0, <1>13, StepKeepsBorn, QuietStep DEF EndRun
<1>14. ASSUME NEW p \in Procs, Interrupt(p) PROVE LogInv'
  BY <1>0, <1>14, QuietStep DEF Interrupt, SameBorn
<1>15. ASSUME NEW p \in Procs, MarkInterrupted(p) PROVE LogInv'
  BY <1>0, <1>15, QuietStep DEF MarkInterrupted, SameBorn
<1>16. ASSUME NEW p \in Procs, Crash(p) PROVE LogInv'
  <2>1. SameBorn
    BY <1>16 DEF Crash, SameBorn
  <2>. QED
    BY <1>0, <1>16, <2>1, QuietStep DEF Crash
<1>17. CASE LeaseExpires
  BY <1>0, <1>17, QuietStep DEF LeaseExpires, SameBorn
<1>18. CASE UNCHANGED vars
  BY <1>0, <1>18, QuietStep DEF vars, SameBorn
<1>. QED
  BY <1>1, <1>2, <1>3, <1>4, <1>5, <1>6, <1>7, <1>8, <1>9, <1>10, <1>11, <1>12, <1>13,
     <1>14, <1>15, <1>16, <1>17, <1>18 DEF Next, RunStep

LEMMA LogInvariant == Spec => []LogInv
BY LogInit, LogStep, PTL DEF Spec

\* The stored log has no holes and no duplicates, whatever process crashed.
THEOREM LogHasNoHoles == Spec => []LogContiguous
<1>1. LogInv => LogContiguous
  BY DEF LogInv
<1>. QED
  BY <1>1, LogInvariant, PTL

\* A superseded turn never writes behind its successor.
THEOREM LogInTurnOrder == Spec => []TurnsDoNotInterleave
<1>1. LogInv => TurnsDoNotInterleave
  BY DEF LogInv
<1>. QED
  BY <1>1, LogInvariant, PTL

\* Snapshot plus later events is the full replay.
THEOREM SnapshotReplaysLog == Spec => []SnapshotIsReplay
<1>1. LogInv => SnapshotIsReplay
  BY DEF LogInv
<1>. QED
  BY <1>1, LogInvariant, PTL

-----------------------------------------------------------------------------
(* The conversation                                                        *)

\* While a turn owns the row, its question is the message stored last.
QuestionIsLast ==
  activeRun # NoRun =>
    /\ messages # <<>>
    /\ messages[Len(messages)].role = "user"
    /\ messages[Len(messages)].turn = activeRun

\* Messages are stored in the order of their turns, nothing behind an answer
\* belongs to its turn, and each belongs to a turn that was started.
TurnsInOrder ==
  /\ \A i \in DOMAIN messages : pc[messages[i].turn] # "unborn"
  /\ \A i, j \in DOMAIN messages : i < j =>
       /\ messages[i].turn <= messages[j].turn
       /\ messages[i].role = "assistant" => messages[i].turn < messages[j].turn

\* No message was stored by a transaction of the future, and the answers'
\* transactions began in the order of their commits.
TimesInOrder ==
  /\ \A i \in DOMAIN messages : messages[i].at <= now
  /\ \A i, j \in Answers : i < j => messages[i].at < messages[j].at

\* An answer stands behind its own question.
AnswersBehind ==
  \A i \in Answers : \E j \in Questions :
    j < i /\ messages[j].turn = messages[i].turn /\ messages[j].at < messages[i].at

\* A client_message_id is stored once, and a reply names the turn stored with it.
KeysAreUnique ==
  \A i, j \in DOMAIN messages :
    messages[i].key = messages[j].key /\ messages[i].key \in ClientMsgs => i = j
RepliesAreStored ==
  \A r \in replies : \E i \in DOMAIN messages :
    messages[i].key = r.key /\ messages[i].turn = r.turn

\* The turns that have begun are the first ones.
BornCount == \E n \in 0 .. MaxTurns : \A t \in Turns : pc[t] # "unborn" <=> t <= n

TalkInv ==
  /\ TypeOK
  /\ QuestionIsLast
  /\ TurnsInOrder
  /\ TimesInOrder
  /\ AnswersBehind
  /\ KeysAreUnique
  /\ RepliesAreStored
  /\ BornCount

\* A step that stores no message, gives birth to no turn and at most frees the
\* row.
LEMMA QuietTalk ==
  ASSUME TalkInv, TypeOK', SameBorn, UNCHANGED talk, replies' = replies,
         activeRun' = activeRun \/ activeRun' = NoRun
  PROVE  TalkInv'
<1>1. messages' = messages /\ now' = now /\ Answers' = Answers /\ Questions' = Questions
  BY DEF talk, Answers, Questions
<1>2. QuestionIsLast' /\ TimesInOrder' /\ AnswersBehind' /\ KeysAreUnique' /\ RepliesAreStored'
  BY <1>1 DEF TalkInv, QuestionIsLast, TimesInOrder, AnswersBehind, KeysAreUnique, RepliesAreStored
<1>3. BornCount'
  BY DEF TalkInv, BornCount, SameBorn
<1>4. TurnsInOrder'
  <2>1. \A i \in DOMAIN messages : messages[i].turn \in Turns
    BY DEF TalkInv, TypeOK, Message
  <2>. QED
    BY <1>1, <2>1 DEF TalkInv, TurnsInOrder, SameBorn
<1>. QED
  BY <1>2, <1>3, <1>4 DEF TalkInv

LEMMA TalkReplies ==
  ASSUME TalkInv, TypeOK', SameBorn, UNCHANGED talk, activeRun' = activeRun,
         \A r \in replies' \ replies : \E i \in DOMAIN messages :
           messages[i].key = r.key /\ messages[i].turn = r.turn
  PROVE  TalkInv'
<1>1. messages' = messages /\ now' = now /\ Answers' = Answers /\ Questions' = Questions
  BY DEF talk, Answers, Questions
<1>2. QuestionIsLast' /\ TimesInOrder' /\ AnswersBehind' /\ KeysAreUnique'
  BY <1>1 DEF TalkInv, QuestionIsLast, TimesInOrder, AnswersBehind, KeysAreUnique
<1>3. RepliesAreStored'
  BY <1>1 DEF TalkInv, RepliesAreStored
<1>4. BornCount'
  BY DEF TalkInv, BornCount, SameBorn
<1>5. TurnsInOrder'
  <2>1. \A i \in DOMAIN messages : messages[i].turn \in Turns
    BY DEF TalkInv, TypeOK, Message
  <2>. QED
    BY <1>1, <2>1 DEF TalkInv, TurnsInOrder, SameBorn
<1>. QED
  BY <1>2, <1>3, <1>4, <1>5 DEF TalkInv

\* What a message at the end of the conversation leaves in place.
LEMMA AppendedMessage ==
  ASSUME TypeOK, NEW m \in Message, messages' = Append(messages, m)
  PROVE  /\ Len(messages) \in Nat /\ Len(messages') = Len(messages) + 1
         /\ DOMAIN messages = 1 .. Len(messages) /\ DOMAIN messages' = 1 .. Len(messages) + 1
         /\ messages' # <<>>
         /\ messages'[Len(messages) + 1] = m
         /\ \A i \in DOMAIN messages : messages'[i] = messages[i]
         /\ \A i \in DOMAIN messages : messages[i].at \in Nat /\ messages[i].turn \in Turns
         /\ Answers' = Answers \cup (IF m.role = "assistant" THEN {Len(messages) + 1} ELSE {})
         /\ Questions' = Questions \cup (IF m.role = "user" THEN {Len(messages) + 1} ELSE {})
<1>1. /\ Len(messages) \in Nat /\ Len(messages') = Len(messages) + 1
      /\ DOMAIN messages = 1 .. Len(messages) /\ DOMAIN messages' = 1 .. Len(messages) + 1
      /\ messages' # <<>>
      /\ messages'[Len(messages) + 1] = m
      /\ \A i \in DOMAIN messages : messages'[i] = messages[i]
  BY DEF TypeOK
<1>2. \A i \in DOMAIN messages : messages[i].at \in Nat /\ messages[i].turn \in Turns
  BY DEF TypeOK, Message
<1>3. DOMAIN messages' = DOMAIN messages \cup {Len(messages) + 1}
  BY <1>1
<1>4. Answers' = Answers \cup (IF m.role = "assistant" THEN {Len(messages) + 1} ELSE {})
  BY ONLY <1>1, <1>3 DEF Answers
<1>5. Questions' = Questions \cup (IF m.role = "user" THEN {Len(messages) + 1} ELSE {})
  BY ONLY <1>1, <1>3 DEF Questions
<1>. QED
  BY <1>1, <1>2, <1>4, <1>5

LEMMA TalkStart ==
  ASSUME TalkInv, TypeOK', NEW p \in Procs, NEW key \in ClientMsgs, NEW t \in Turns,
         NEW at \in 0 .. now, StartTurn(p, key, t, at)
  PROVE  TalkInv'
<1>. DEFINE m == [role |-> "user", turn |-> t, key |-> key, at |-> at]
            last == Len(messages) + 1
<1>1. /\ TypeOK /\ m \in Message
      /\ messages' = Append(messages, m) /\ activeRun' = t /\ replies' = replies /\ now' = now
      /\ pc' = [pc EXCEPT ![t] = "committed"]
      /\ pc[t] = "unborn" /\ \A u \in Turns : u < t => pc[u] # "unborn"
      /\ \A i \in DOMAIN messages : messages[i].key # key
  <2>1. now \in Nat
    BY DEF TalkInv, TypeOK
  <2>. QED
    BY <2>1 DEF TalkInv, StartTurn, Message, ExistingTurn
<1>. HIDE DEF m
<1>2. m.role = "user" /\ m.turn = t /\ m.key = key /\ m.at = at
  BY DEF m
<1>3. /\ Len(messages) \in Nat /\ Len(messages') = last
      /\ DOMAIN messages = 1 .. Len(messages) /\ DOMAIN messages' = 1 .. last
      /\ messages' # <<>>
      /\ messages'[last] = m
      /\ \A i \in DOMAIN messages : messages'[i] = messages[i]
      /\ \A i \in DOMAIN messages : messages[i].at \in Nat /\ messages[i].turn \in Turns
      /\ Answers' = Answers /\ Questions' = Questions \cup {last}
  BY <1>1, <1>2, AppendedMessage
<1>4. QuestionIsLast'
  BY <1>1, <1>2, <1>3 DEF QuestionIsLast
<1>5. \A i \in DOMAIN messages' : i \in DOMAIN messages \/ i = last
  BY <1>3
<1>6. PICK n \in 0 .. MaxTurns : \A u \in Turns : pc[u] # "unborn" <=> u <= n
  BY DEF TalkInv, BornCount
<1>7. t = n + 1 /\ n \in Nat
  <2>1. t > n
    BY <1>1, <1>6
  <2>2. CASE t > n + 1
    <3>1. n + 1 \in Turns /\ n + 1 < t
      BY <2>2
    <3>. QED
      BY <1>1, <1>6, <3>1
  <2>. QED
    BY <2>1, <2>2
<1>8. BornCount'
  <2>1. ASSUME NEW u \in Turns PROVE pc'[u] # "unborn" <=> u <= n + 1
    <3>1. CASE u = t
      BY <1>1, <1>7, <3>1 DEF TypeOK
    <3>2. CASE u # t
      <4>1. u <= n + 1 <=> u <= n
        BY <1>7, <3>2
      <4>. QED
        BY <1>1, <1>6, <3>2, <4>1 DEF TypeOK
    <3>. QED
      BY <3>1, <3>2
  <2>2. n + 1 \in 0 .. MaxTurns
    BY <1>7
  <2>3. \A u \in Turns : pc'[u] # "unborn" <=> u <= n + 1
    BY ONLY <2>1
  <2>. QED
    BY ONLY <2>2, <2>3 DEF BornCount
<1>9. TurnsInOrder'
  <2>1. \A i \in DOMAIN messages : messages[i].turn \in Turns /\ pc[messages[i].turn] # "unborn"
    BY <1>3 DEF TalkInv, TurnsInOrder
  <2>2. \A i \in DOMAIN messages : messages[i].turn < t
    BY <1>6, <1>7, <2>1
  <2>3. \A i \in DOMAIN messages' : pc'[messages'[i].turn] # "unborn"
    BY <1>1, <1>2, <1>3, <1>5, <2>1 DEF TypeOK
  <2>4. ASSUME NEW i \in DOMAIN messages', NEW j \in DOMAIN messages', i < j
        PROVE  /\ messages'[i].turn <= messages'[j].turn
               /\ messages'[i].role = "assistant" => messages'[i].turn < messages'[j].turn
    <3>1. i \in DOMAIN messages
      BY <1>3, <2>4
    <3>2. CASE j = last
      BY <1>2, <1>3, <2>1, <2>2, <3>1, <3>2
    <3>3. CASE j \in DOMAIN messages
      BY <1>3, <2>4, <3>1, <3>3 DEF TalkInv, TurnsInOrder
    <3>. QED
      BY <1>5, <3>2, <3>3
  <2>. QED
    BY <2>3, <2>4 DEF TurnsInOrder
<1>10. TimesInOrder'
  <2>1. \A i \in DOMAIN messages' : messages'[i].at <= now'
    BY <1>1, <1>2, <1>3, <1>5 DEF TalkInv, TimesInOrder, TypeOK
  <2>2. \A i \in Answers : i \in DOMAIN messages
    BY DEF Answers
  <2>3. \A i, j \in Answers' : i < j => messages'[i].at < messages'[j].at
    BY <1>3, <2>2 DEF TalkInv, TimesInOrder
  <2>. QED
    BY <2>1, <2>3 DEF TimesInOrder
<1>11. AnswersBehind'
  <2>1. \A i \in Answers \cup Questions : i \in DOMAIN messages
    BY DEF Answers, Questions
  <2>. QED
    BY <1>3, <2>1 DEF TalkInv, AnswersBehind
<1>12. KeysAreUnique'
  BY <1>1, <1>2, <1>3, <1>5 DEF TalkInv, KeysAreUnique
<1>13. RepliesAreStored'
  <2>1. DOMAIN messages \subseteq DOMAIN messages'
    BY <1>3
  <2>. QED
    BY <1>1, <1>3, <2>1 DEF TalkInv, RepliesAreStored
<1>. QED
  BY <1>4, <1>8, <1>9, <1>10, <1>11, <1>12, <1>13 DEF TalkInv

LEMMA TalkFinish ==
  ASSUME TalkInv, TypeOK', NEW t \in Turns, FinishSuccess(t)
  PROVE  TalkInv'
<1>. DEFINE m == [role |-> "assistant", turn |-> t, key |-> NoKey, at |-> now + 1]
            last == Len(messages) + 1
<1>1. /\ TypeOK /\ m \in Message /\ now \in Nat /\ now' = now + 1
      /\ messages' = Append(messages, m) /\ activeRun = t /\ activeRun' = NoRun /\ replies' = replies
      /\ \E to \in {"closing", "failing"} : Step(t, {"running"}, to)
  BY DEF TalkInv, TypeOK, FinishSuccess, StillOwner, Message
<1>. HIDE DEF m
<1>2. m.role = "assistant" /\ m.turn = t /\ m.key \notin ClientMsgs /\ m.at = now + 1
  BY DEF m
<1>3. /\ Len(messages) \in Nat /\ Len(messages') = last
      /\ DOMAIN messages = 1 .. Len(messages) /\ DOMAIN messages' = 1 .. last
      /\ messages' # <<>>
      /\ messages'[last] = m
      /\ \A i \in DOMAIN messages : messages'[i] = messages[i]
      /\ \A i \in DOMAIN messages : messages[i].at \in Nat /\ messages[i].turn \in Turns
      /\ Answers' = Answers \cup {last} /\ Questions' = Questions
  BY <1>1, <1>2, AppendedMessage
<1>4. QuestionIsLast'
  BY <1>1 DEF QuestionIsLast
<1>5. \A i \in DOMAIN messages' : i \in DOMAIN messages \/ i = last
  BY <1>3
<1>6. SameBorn
  BY <1>1, StepKeepsBorn
<1>7. /\ Len(messages) \in DOMAIN messages
      /\ messages[Len(messages)].role = "user" /\ messages[Len(messages)].turn = t
  <2>1. messages # <<>> /\ messages[Len(messages)].role = "user" /\ messages[Len(messages)].turn = t
    BY <1>1 DEF TalkInv, QuestionIsLast
  <2>2. Len(messages) > 0
    BY <1>1, <2>1 DEF TypeOK
  <2>. QED
    BY <1>3, <2>1, <2>2
<1>8. \A i \in DOMAIN messages :
         messages[i].turn <= t /\ (messages[i].role = "assistant" => messages[i].turn < t)
  <2>1. ASSUME NEW i \in DOMAIN messages
        PROVE  messages[i].turn <= t /\ (messages[i].role = "assistant" => messages[i].turn < t)
    <3>1. CASE i = Len(messages)
      BY <1>7, <3>1
    <3>2. CASE i # Len(messages)
      <4>1. i < Len(messages)
        BY <1>3, <3>2
      <4>. QED
        BY <1>7, <4>1 DEF TalkInv, TurnsInOrder
    <3>. QED
      BY <3>1, <3>2
  <2>. QED
    BY <2>1
<1>9. TurnsInOrder'
  <2>1. \A i \in DOMAIN messages' : pc'[messages'[i].turn] # "unborn"
    BY <1>2, <1>3, <1>5, <1>6, <1>7 DEF TalkInv, TurnsInOrder, SameBorn
  <2>2. ASSUME NEW i \in DOMAIN messages', NEW j \in DOMAIN messages', i < j
        PROVE  /\ messages'[i].turn <= messages'[j].turn
               /\ messages'[i].role = "assistant" => messages'[i].turn < messages'[j].turn
    <3>1. i \in DOMAIN messages
      BY <1>3, <2>2
    <3>2. CASE j = last
      BY <1>2, <1>3, <1>8, <3>1, <3>2
    <3>3. CASE j \in DOMAIN messages
      BY <1>3, <2>2, <3>1, <3>3 DEF TalkInv, TurnsInOrder
    <3>. QED
      BY <1>5, <3>2, <3>3
  <2>. QED
    BY <2>1, <2>2 DEF TurnsInOrder
<1>10. \A i \in DOMAIN messages : messages[i].at <= now /\ messages[i].at < now + 1
  BY <1>1, <1>3 DEF TalkInv, TimesInOrder
<1>11. \A i \in Answers \cup Questions : i \in DOMAIN messages /\ i < last
  BY <1>3 DEF Answers, Questions
<1>12. TimesInOrder'
  <2>1. \A i \in DOMAIN messages' : messages'[i].at <= now'
    BY <1>1, <1>2, <1>3, <1>5, <1>10
  <2>2. ASSUME NEW i \in Answers', NEW j \in Answers', i < j
        PROVE  messages'[i].at < messages'[j].at
    <3>1. i \in Answers
      BY <1>3, <1>11, <2>2
    <3>2. CASE j = last
      BY <1>2, <1>3, <1>10, <1>11, <3>1, <3>2
    <3>3. CASE j \in Answers
      BY <1>3, <1>11, <2>2, <3>1, <3>3 DEF TalkInv, TimesInOrder
    <3>. QED
      BY <1>3, <3>2, <3>3
  <2>. QED
    BY <2>1, <2>2 DEF TimesInOrder
<1>13. AnswersBehind'
  <2>1. ASSUME NEW i \in Answers'
        PROVE  \E j \in Questions' :
                 j < i /\ messages'[j].turn = messages'[i].turn /\ messages'[j].at < messages'[i].at
    <3>1. CASE i = last
      <4>1. Len(messages) \in Questions
        BY <1>7 DEF Questions
      <4>. QED
        BY <1>2, <1>3, <1>7, <1>10, <1>11, <3>1, <4>1
    <3>2. CASE i \in Answers
      BY <1>3, <1>11, <3>2 DEF TalkInv, AnswersBehind
    <3>. QED
      BY <1>3, <3>1, <3>2
  <2>. QED
    BY <2>1 DEF AnswersBehind
<1>14. KeysAreUnique'
  BY <1>1, <1>2, <1>3, <1>5 DEF TalkInv, KeysAreUnique
<1>15. RepliesAreStored'
  <2>1. DOMAIN messages \subseteq DOMAIN messages'
    BY <1>3
  <2>. QED
    BY <1>1, <1>3, <2>1 DEF TalkInv, RepliesAreStored
<1>16. BornCount'
  BY <1>6 DEF TalkInv, BornCount, SameBorn
<1>. QED
  BY <1>4, <1>9, <1>12, <1>13, <1>14, <1>15, <1>16 DEF TalkInv

LEMMA TalkInit == Init => TalkInv
<1>. SUFFICES ASSUME Init PROVE TalkInv
  OBVIOUS
<1>1. BornCount
  <2>1. 0 \in 0 .. MaxTurns /\ \A t \in Turns : pc[t] # "unborn" <=> t <= 0
    BY DEF Init
  <2>. QED
    BY <2>1 DEF BornCount
<1>. QED
  BY <1>1, TypeInit DEF Init, TalkInv, QuestionIsLast, TurnsInOrder, TimesInOrder, AnswersBehind,
                        Answers, Questions, KeysAreUnique, RepliesAreStored

LEMMA TalkStep == TalkInv /\ [Next]_vars => TalkInv'
<1>. SUFFICES ASSUME TalkInv, [Next]_vars PROVE TalkInv'
  OBVIOUS
<1>0. TypeOK /\ TypeOK'
  BY TypeStep DEF TalkInv
<1>. USE DEF row, board, talk
<1>1. ASSUME NEW p \in Procs, NEW key \in ClientMsgs, NEW t \in Turns, NEW at \in 0 .. now,
             StartTurn(p, key, t, at)
      PROVE  TalkInv'
  BY <1>0, <1>1, TalkStart
<1>2. ASSUME NEW key \in ClientMsgs, RetryTurn(key) PROVE TalkInv'
  BY <1>0, <1>2, TalkReplies DEF RetryTurn, ExistingTurn, SameBorn
<1>3. ASSUME NEW t \in Turns, RegisterRun(t) PROVE TalkInv'
  <2>1. Step(t, {"committed"}, "queued")
    BY <1>3 DEF RegisterRun, Step
  <2>. QED
    BY <1>0, <1>3, <2>1, StepKeepsBorn, TalkReplies DEF RegisterRun
<1>4. ASSUME NEW t \in Turns, BeginRun(t) PROVE TalkInv'
  BY <1>0, <1>4, StepKeepsBorn, QuietTalk DEF BeginRun
<1>5. ASSUME NEW t \in Turns, StopOnFastPath(t) PROVE TalkInv'
  BY <1>0, <1>5, StepKeepsBorn, QuietTalk DEF StopOnFastPath
<1>6. ASSUME NEW t \in Turns, BeginAction(t) PROVE TalkInv'
  BY <1>0, <1>6, StepKeepsBorn, QuietTalk DEF BeginAction
<1>7. ASSUME NEW t \in Turns, NEW kind \in Kinds, PersistEvent(t, kind) PROVE TalkInv'
  BY <1>0, <1>7, StepKeepsBorn, QuietTalk DEF PersistEvent
<1>8. ASSUME NEW t \in Turns, PersistRejected(t) PROVE TalkInv'
  BY <1>0, <1>8, StepKeepsBorn, QuietTalk DEF PersistRejected
<1>9. ASSUME NEW t \in Turns, RunRaises(t) PROVE TalkInv'
  BY <1>0, <1>9, StepKeepsBorn, QuietTalk DEF RunRaises
<1>10. ASSUME NEW t \in Turns, FinishSuccess(t) PROVE TalkInv'
  BY <1>0, <1>10, TalkFinish
<1>11. ASSUME NEW t \in Turns, FinishFailure(t) PROVE TalkInv'
  BY <1>0, <1>11, StepKeepsBorn, QuietTalk DEF FinishFailure
<1>12. ASSUME NEW t \in Turns, FinishNothing(t) PROVE TalkInv'
  <2>1. SameBorn
    BY <1>0, <1>12, StepKeepsBorn DEF FinishNothing
  <2>. QED
    BY <1>0, <1>12, <2>1, QuietTalk DEF FinishNothing
<1>13. ASSUME NEW t \in Turns, EndRun(t) PROVE TalkInv'
  BY <1>0, <1>13, StepKeepsBorn, QuietTalk DEF EndRun
<1>14. ASSUME NEW p \in Procs, Interrupt(p) PROVE TalkInv'
  BY <1>0, <1>14, QuietTalk DEF Interrupt, SameBorn
<1>15. ASSUME NEW p \in Procs, MarkInterrupted(p) PROVE TalkInv'
  BY <1>0, <1>15, QuietTalk DEF MarkInterrupted, SameBorn
<1>16. ASSUME NEW p \in Procs, Crash(p) PROVE TalkInv'
  <2>1. SameBorn
    BY <1>16 DEF Crash, SameBorn
  <2>. QED
    BY <1>0, <1>16, <2>1, QuietTalk DEF Crash
<1>17. CASE LeaseExpires
  BY <1>0, <1>17, QuietTalk DEF LeaseExpires, SameBorn
<1>18. CASE UNCHANGED vars
  BY <1>0, <1>18, QuietTalk DEF vars, SameBorn
<1>. QED
  BY <1>1, <1>2, <1>3, <1>4, <1>5, <1>6, <1>7, <1>8, <1>9, <1>10, <1>11, <1>12, <1>13,
     <1>14, <1>15, <1>16, <1>17, <1>18 DEF Next, RunStep

LEMMA TalkInvariant == Spec => []TalkInv
BY TalkInit, TalkStep, PTL DEF Spec

\* However the starts and the commits of transactions interleave, and although
\* _finish_success does not look at the lease: answers are read in the order of
\* their turns and none twice, each behind its question, and none is of a turn
\* that had been superseded when it was stored.
THEOREM AnswersFollowQuestions == Spec => []ConversationOrdered
<1>1. TalkInv => ConversationOrdered
  <2>. SUFFICES ASSUME TalkInv PROVE ConversationOrdered
    OBVIOUS
  <2>1. /\ \A i \in Answers : i \in DOMAIN messages /\ messages[i].role = "assistant"
        /\ \A i \in Questions : i \in DOMAIN messages
        /\ \A i \in DOMAIN messages : i \in Nat /\ messages[i].turn \in Nat
    BY DEF TalkInv, TypeOK, Message, Answers, Questions
  <2>2. \A i, j \in Answers : i < j =>
          messages[i].turn < messages[j].turn /\ messages[i].at < messages[j].at
    BY <2>1 DEF TalkInv, TurnsInOrder, TimesInOrder
  <2>3. ASSUME NEW i \in Answers, NEW j \in Questions, messages[i].turn < messages[j].turn
        PROVE  i < j
    <3>1. CASE j < i
      BY <2>1, <2>3, <3>1 DEF TalkInv, TurnsInOrder
    <3>2. i # j
      BY <2>1, <2>3
    <3>. QED
      BY <2>1, <3>1, <3>2
  <2>. QED
    BY <2>2, <2>3 DEF TalkInv, AnswersBehind, ConversationOrdered
<1>. QED
  BY <1>1, TalkInvariant, PTL

\* However often a message is posted again, start_turn names one turn for it.
THEOREM RetriesNameOneTurn == Spec => []RetriesAgree
<1>1. TalkInv => RetriesAgree
  <2>. SUFFICES ASSUME TalkInv, NEW r \in replies, NEW s \in replies, r.key = s.key
                PROVE  r.turn = s.turn
    BY DEF RetriesAgree
  <2>1. r.key \in ClientMsgs
    BY DEF TalkInv, TypeOK
  <2>2. PICK i \in DOMAIN messages : messages[i].key = r.key /\ messages[i].turn = r.turn
    BY DEF TalkInv, RepliesAreStored
  <2>3. PICK j \in DOMAIN messages : messages[j].key = s.key /\ messages[j].turn = s.turn
    BY DEF TalkInv, RepliesAreStored
  <2>4. i = j
    BY <2>1, <2>2, <2>3 DEF TalkInv, KeysAreUnique
  <2>. QED
    BY <2>2, <2>3, <2>4
<1>. QED
  BY <1>1, TalkInvariant, PTL

-----------------------------------------------------------------------------
(* The service implements the ledger                                       *)

\* The refinement mapping of ClassroomRuns.
Begun == CHOOSE n \in 0 .. MaxTurns : \A t \in Turns : pc[t] # "unborn" <=> t <= n
Writers == [n \in 1 .. lastSeq |-> (CHOOSE e \in events : e.seq = n).turn]
Answered == {messages[i].turn : i \in Answers}

LEMMA BegunIs ==
  ASSUME NEW n \in 0 .. MaxTurns, \A t \in Turns : pc[t] # "unborn" <=> t <= n
  PROVE  Begun = n
<1>1. ASSUME NEW k \in 0 .. MaxTurns, \A t \in Turns : pc[t] # "unborn" <=> t <= k
      PROVE  k = n
  <2>1. CASE k < n
    BY <1>1, <2>1, n \in Turns
  <2>2. CASE n < k
    BY <1>1, <2>2, k \in Turns
  <2>. QED
    BY <2>1, <2>2
<1>. QED
  BY <1>1 DEF Begun

LEMMA BegunIsPrimed ==
  ASSUME NEW n \in 0 .. MaxTurns, \A t \in Turns : pc'[t] # "unborn" <=> t <= n
  PROVE  Begun' = n
<1>1. ASSUME NEW k \in 0 .. MaxTurns, \A t \in Turns : pc'[t] # "unborn" <=> t <= k
      PROVE  k = n
  <2>1. CASE k < n
    BY <1>1, <2>1, n \in Turns
  <2>2. CASE n < k
    BY <1>1, <2>2, k \in Turns
  <2>. QED
    BY <2>1, <2>2
<1>. QED
  BY <1>1 DEF Begun

LEMMA BegunStays ==
  ASSUME BornCount, SameBorn
  PROVE  Begun' = Begun
<1>1. PICK n \in 0 .. MaxTurns : \A t \in Turns : pc[t] # "unborn" <=> t <= n
  BY DEF BornCount
<1>2. Begun = n
  BY <1>1, BegunIs
<1>3. \A t \in Turns : pc'[t] # "unborn" <=> t <= n
  BY <1>1 DEF SameBorn
<1>4. Begun' = n
  BY <1>3, BegunIsPrimed
<1>. QED
  BY <1>2, <1>4

\* A new turn takes the next number.
LEMMA StartBegins ==
  ASSUME TalkInv, TypeOK', NEW p \in Procs, NEW key \in ClientMsgs, NEW t \in Turns,
         NEW at \in 0 .. now, StartTurn(p, key, t, at)
  PROVE  Begun < MaxTurns /\ Begun' = Begun + 1 /\ activeRun' = Begun + 1
<1>1. /\ TypeOK /\ activeRun' = t
      /\ pc' = [pc EXCEPT ![t] = "committed"]
      /\ pc[t] = "unborn" /\ \A u \in Turns : u < t => pc[u] # "unborn"
  BY DEF TalkInv, StartTurn
<1>2. PICK n \in 0 .. MaxTurns : \A u \in Turns : pc[u] # "unborn" <=> u <= n
  BY DEF TalkInv, BornCount
<1>3. Begun = n
  BY <1>2, BegunIs
<1>4. t = n + 1
  <2>1. t > n
    BY <1>1, <1>2
  <2>2. CASE t > n + 1
    <3>1. n + 1 \in Turns /\ n + 1 < t
      BY <2>2
    <3>. QED
      BY <1>1, <1>2, <3>1
  <2>. QED
    BY <2>1, <2>2
<1>5. \A u \in Turns : pc'[u] # "unborn" <=> u <= n + 1
  BY <1>1, <1>2, <1>4 DEF TypeOK
<1>6. Begun' = n + 1
  BY <1>4, <1>5, BegunIsPrimed
<1>. QED
  BY <1>1, <1>3, <1>4, <1>6

LEMMA FunctionIsSeq ==
  ASSUME NEW S, NEW k \in Nat, NEW f \in [1 .. k -> S]
  PROVE  f \in Seq(S) /\ Len(f) = k
OBVIOUS

LEMMA AppendIs ==
  ASSUME NEW S, NEW s \in Seq(S), NEW x \in S, NEW r \in Seq(S), Len(r) = Len(s) + 1,
         \A n \in 1 .. Len(s) : r[n] = s[n], r[Len(s) + 1] = x
  PROVE  r = Append(s, x)
<1>1. /\ Append(s, x) \in Seq(S) /\ Len(Append(s, x)) = Len(r)
      /\ Len(s) \in Nat
      /\ Append(s, x)[Len(s) + 1] = x
      /\ \A n \in 1 .. Len(s) : Append(s, x)[n] = s[n]
  OBVIOUS
<1>2. \A n \in 1 .. Len(r) : n \in 1 .. Len(s) \/ n = Len(s) + 1
  BY <1>1
<1>3. \A n \in 1 .. Len(r) : r[n] = Append(s, x)[n]
  BY <1>1, <1>2
<1>. QED
  BY <1>1, <1>3

\* An event of the owner extends the list of writers by the owner.
LEMMA PersistWrites ==
  ASSUME LogInv, LogInv', NEW t \in Turns, NEW kind \in Kinds, PersistEvent(t, kind)
  PROVE  /\ Writers' = Append(Writers, t)
         /\ Len(Writers) < MaxEvents
<1>. DEFINE new == [seq |-> lastSeq + 1, turn |-> t, kind |-> kind]
<1>1. /\ lastSeq \in Nat /\ lastSeq + 1 <= MaxEvents /\ lastSeq' = lastSeq + 1
      /\ events' = events \cup {new}
  BY DEF LogInv, TypeOK, PersistEvent, NextSeq
<1>2. new.seq = lastSeq + 1 /\ new.turn = t
  OBVIOUS
<1>. HIDE DEF new
<1>3. \A e, f \in events' : e.seq = f.seq => e = f
  BY DEF LogInv, LogContiguous
<1>4. ASSUME NEW n \in 1 .. lastSeq
      PROVE  (CHOOSE e \in events' : e.seq = n) = (CHOOSE e \in events : e.seq = n)
  <2>1. PICK f \in events : f.seq = n
    BY DEF LogInv, LogContiguous
  <2>2. \A e \in events' : e.seq = n => e = f
    BY <1>1, <1>3, <2>1
  <2>3. (CHOOSE e \in events : e.seq = n) = f
    BY <1>1, <2>1, <2>2
  <2>4. (CHOOSE e \in events' : e.seq = n) = f
    BY <1>1, <2>1, <2>2
  <2>. QED
    BY <2>3, <2>4
<1>5. (CHOOSE e \in events' : e.seq = lastSeq + 1) = new
  BY <1>1, <1>2, <1>3
<1>6. Writers \in Seq(Turns) /\ Len(Writers) = lastSeq
  <2>1. \A n \in 1 .. lastSeq : (CHOOSE e \in events : e.seq = n).turn \in Turns
    <3>1. \A e \in events : e.turn \in Turns
      BY DEF LogInv, TypeOK, Event
    <3>. QED
      BY <3>1 DEF LogInv, LogContiguous
  <2>. QED
    BY <1>1, <2>1 DEF Writers
<1>7. /\ DOMAIN Writers' = 1 .. lastSeq + 1
      /\ Writers' = [n \in DOMAIN Writers' |-> Writers'[n]]
      /\ \A n \in 1 .. lastSeq + 1 : Writers'[n] = (CHOOSE e \in events' : e.seq = n).turn
  BY <1>1 DEF Writers
<1>8. ASSUME NEW n \in 1 .. lastSeq + 1
      PROVE  Writers'[n] = IF n <= lastSeq THEN Writers[n] ELSE t
  <2>1. CASE n <= lastSeq
    <3>1. n \in 1 .. lastSeq
      BY <1>1, <2>1
    <3>2. Writers[n] = (CHOOSE e \in events : e.seq = n).turn
      BY <3>1 DEF Writers
    <3>3. Writers'[n] = (CHOOSE e \in events : e.seq = n).turn
      BY <1>4, <1>7, <3>1
    <3>. QED
      BY <2>1, <3>2, <3>3
  <2>2. CASE n = lastSeq + 1
    BY <1>1, <1>2, <1>5, <1>7, <2>2
  <2>. QED
    BY <1>1, <2>1, <2>2
<1>9. Writers' \in Seq(Turns) /\ Len(Writers') = lastSeq + 1
  <2>1. \A n \in 1 .. lastSeq + 1 : Writers'[n] \in Turns
    BY <1>1, <1>6, <1>8
  <2>2. Writers' \in [1 .. lastSeq + 1 -> Turns]
    BY <1>7, <2>1
  <2>3. lastSeq + 1 \in Nat
    BY <1>1
  <2>. HIDE DEF Writers, Turns
  <2>. QED
    BY <2>2, <2>3, FunctionIsSeq
<1>10. /\ Len(Writers') = Len(Writers) + 1
       /\ \A n \in 1 .. Len(Writers) : Writers'[n] = Writers[n]
       /\ Writers'[Len(Writers) + 1] = t
  BY <1>1, <1>6, <1>8, <1>9
<1>11. Writers' = Append(Writers, t)
  <2>. HIDE DEF Turns, Writers
  <2>. QED
    BY <1>6, <1>9, <1>10, AppendIs
<1>. QED
  BY <1>1, <1>6, <1>11

LEMMA AnsweredTurns ==
  ASSUME TypeOK, NEW m \in Message, messages' = Append(messages, m)
  PROVE  Answered' = IF m.role = "assistant" THEN Answered \cup {m.turn} ELSE Answered
<1>1. /\ Len(messages) \in Nat /\ DOMAIN messages = 1 .. Len(messages)
      /\ messages'[Len(messages) + 1] = m
      /\ \A i \in DOMAIN messages : messages'[i] = messages[i]
      /\ Answers' = Answers \cup (IF m.role = "assistant" THEN {Len(messages) + 1} ELSE {})
  BY AppendedMessage
<1>2. \A i \in Answers : i \in DOMAIN messages
  BY DEF Answers
<1>. QED
  BY <1>1, <1>2 DEF Answered

\* The actions of the ledger in the terms of the service.
LEMMA LedgerActions ==
  /\ Begun < MaxTurns /\ Begun' = Begun + 1 /\ activeRun' = Begun + 1
       /\ Writers' = Writers /\ Answered' = Answered
     => Ledger!Begin
  /\ activeRun # NoRun /\ Len(Writers) < MaxEvents /\ Writers' = Append(Writers, activeRun)
       /\ Begun' = Begun /\ activeRun' = activeRun /\ Answered' = Answered
     => Ledger!Write
  /\ activeRun # NoRun /\ Answered' = Answered \cup {activeRun} /\ activeRun' = NoRun
       /\ Begun' = Begun /\ Writers' = Writers
     => Ledger!Answer
  /\ activeRun # NoRun /\ activeRun' = NoRun
       /\ Begun' = Begun /\ Writers' = Writers /\ Answered' = Answered
     => Ledger!Release
  /\ activeRun' = activeRun /\ Begun' = Begun /\ Writers' = Writers /\ Answered' = Answered
     => UNCHANGED Ledger!ledgerVars
BY DEF Ledger!Begin, Ledger!Write, Ledger!Answer, Ledger!Release, Ledger!ledgerVars,
       Begun, Writers, Answered, Answers

\* What the ledger sees of a step that writes neither event nor message.
LEMMA QuietLedger ==
  ASSUME TalkInv, SameBorn, UNCHANGED <<lastSeq, events, messages>>
  PROVE  Begun' = Begun /\ Writers' = Writers /\ Answered' = Answered
<1>1. Begun' = Begun
  BY BegunStays DEF TalkInv
<1>2. Writers' = Writers /\ Answered' = Answered
  BY DEF Writers, Answered, Answers
<1>. QED
  BY <1>1, <1>2

LEMMA LedgerStutters ==
  ASSUME TalkInv, SameBorn, UNCHANGED <<lastSeq, events, messages, activeRun>>
  PROVE  [Ledger!LedgerNext]_(Ledger!ledgerVars)
<1>1. Begun' = Begun /\ Writers' = Writers /\ Answered' = Answered
  BY QuietLedger
<1>. QED
  BY <1>1, LedgerActions

LEMMA LedgerReleases ==
  ASSUME TalkInv, SameBorn, UNCHANGED <<lastSeq, events, messages>>,
         activeRun # NoRun, activeRun' = NoRun
  PROVE  Ledger!LedgerNext
<1>1. Begun' = Begun /\ Writers' = Writers /\ Answered' = Answered
  BY QuietLedger
<1>. QED
  BY <1>1, LedgerActions DEF Ledger!LedgerNext

LEMMA LedgerBegins ==
  ASSUME TalkInv, TypeOK', NEW p \in Procs, NEW key \in ClientMsgs, NEW t \in Turns,
         NEW at \in 0 .. now, StartTurn(p, key, t, at)
  PROVE  Ledger!LedgerNext
<1>1. Begun < MaxTurns /\ Begun' = Begun + 1 /\ activeRun' = Begun + 1
  BY StartBegins
<1>2. Writers' = Writers
  BY DEF StartTurn, board, Writers
<1>3. Answered' = Answered
  <2>. DEFINE m == [role |-> "user", turn |-> t, key |-> key, at |-> at]
  <2>1. TypeOK /\ m \in Message /\ messages' = Append(messages, m) /\ m.role # "assistant"
    BY DEF TalkInv, TypeOK, StartTurn, Message
  <2>. HIDE DEF m
  <2>. QED
    BY <2>1, AnsweredTurns
<1>. QED
  BY <1>1, <1>2, <1>3, LedgerActions DEF Ledger!LedgerNext

LEMMA LedgerWrites ==
  ASSUME LogInv, LogInv', TalkInv, NEW t \in Turns, NEW kind \in Kinds, PersistEvent(t, kind)
  PROVE  Ledger!LedgerNext
<1>1. /\ Step(t, {"persisting"}, "running")
      /\ activeRun = t /\ activeRun' = t /\ messages' = messages
  BY DEF PersistEvent, OwnsBoard, talk
<1>2. Writers' = Append(Writers, t) /\ Len(Writers) < MaxEvents
  BY PersistWrites
<1>3. Begun' = Begun
  <2>1. SameBorn
    BY <1>1, StepKeepsBorn DEF LogInv
  <2>. QED
    BY <2>1, BegunStays DEF TalkInv
<1>4. Answered' = Answered
  BY <1>1 DEF Answered, Answers
<1>. QED
  BY <1>1, <1>2, <1>3, <1>4, LedgerActions DEF Ledger!LedgerNext

LEMMA LedgerAnswers ==
  ASSUME TalkInv, NEW t \in Turns, FinishSuccess(t)
  PROVE  Ledger!LedgerNext
<1>1. /\ activeRun = t /\ activeRun' = NoRun /\ UNCHANGED <<lastSeq, events>>
      /\ \E to \in {"closing", "failing"} : Step(t, {"running"}, to)
  BY DEF FinishSuccess, StillOwner
<1>2. Begun' = Begun
  <2>1. SameBorn
    BY <1>1, StepKeepsBorn DEF TalkInv
  <2>. QED
    BY <2>1, BegunStays DEF TalkInv
<1>3. Writers' = Writers
  BY <1>1 DEF Writers
<1>4. Answered' = Answered \cup {t}
  <2>. DEFINE m == [role |-> "assistant", turn |-> t, key |-> NoKey, at |-> now + 1]
  <2>1. TypeOK /\ m \in Message /\ messages' = Append(messages, m)
        /\ m.role = "assistant" /\ m.turn = t
    BY DEF TalkInv, TypeOK, FinishSuccess, Message
  <2>. HIDE DEF m
  <2>. QED
    BY <2>1, AnsweredTurns
<1>. QED
  BY <1>1, <1>2, <1>3, <1>4, LedgerActions DEF Ledger!LedgerNext

LEMMA LedgerStarts == Init => Ledger!LedgerInit
<1>. SUFFICES ASSUME Init PROVE Ledger!LedgerInit
  OBVIOUS
<1>1. Begun = 0
  <2>1. 0 \in 0 .. MaxTurns /\ \A t \in Turns : pc[t] # "unborn" <=> t <= 0
    BY DEF Init
  <2>. QED
    BY <2>1, BegunIs
<1>2. Writers = <<>> /\ Answered = {}
  BY DEF Init, Writers, Answered, Answers
<1>. QED
  BY <1>1, <1>2 DEF Init, Ledger!LedgerInit, Begun, Writers, Answered, Answers

LEMMA LedgerStep ==
  LogInv /\ LogInv' /\ TalkInv /\ [Next]_vars => [Ledger!LedgerNext]_(Ledger!ledgerVars)
<1>. SUFFICES ASSUME LogInv, LogInv', TalkInv, [Next]_vars
              PROVE  [Ledger!LedgerNext]_(Ledger!ledgerVars)
  OBVIOUS
<1>0. TypeOK /\ TypeOK'
  BY DEF LogInv
<1>. DEFINE Goal == [Ledger!LedgerNext]_(Ledger!ledgerVars)
<1>. USE DEF row, board, talk
<1>1. ASSUME NEW p \in Procs, NEW key \in ClientMsgs, NEW t \in Turns, NEW at \in 0 .. now,
             StartTurn(p, key, t, at)
      PROVE  Goal
  BY <1>0, <1>1, LedgerBegins
<1>2. ASSUME NEW key \in ClientMsgs, RetryTurn(key) PROVE Goal
  BY <1>2, LedgerStutters DEF RetryTurn, SameBorn
<1>3. ASSUME NEW t \in Turns, RegisterRun(t) PROVE Goal
  <2>1. Step(t, {"committed"}, "queued")
    BY <1>3 DEF RegisterRun, Step
  <2>. QED
    BY <1>0, <1>3, <2>1, StepKeepsBorn, LedgerStutters DEF RegisterRun
<1>4. ASSUME NEW t \in Turns, BeginRun(t) PROVE Goal
  BY <1>0, <1>4, StepKeepsBorn, LedgerStutters DEF BeginRun
<1>5. ASSUME NEW t \in Turns, StopOnFastPath(t) PROVE Goal
  BY <1>0, <1>5, StepKeepsBorn, LedgerStutters DEF StopOnFastPath
<1>6. ASSUME NEW t \in Turns, BeginAction(t) PROVE Goal
  BY <1>0, <1>6, StepKeepsBorn, LedgerStutters DEF BeginAction
<1>7. ASSUME NEW t \in Turns, NEW kind \in Kinds, PersistEvent(t, kind) PROVE Goal
  BY <1>7, LedgerWrites
<1>8. ASSUME NEW t \in Turns, PersistRejected(t) PROVE Goal
  BY <1>0, <1>8, StepKeepsBorn, LedgerStutters DEF PersistRejected
<1>9. ASSUME NEW t \in Turns, RunRaises(t) PROVE Goal
  BY <1>0, <1>9, StepKeepsBorn, LedgerStutters DEF RunRaises
<1>10. ASSUME NEW t \in Turns, FinishSuccess(t) PROVE Goal
  BY <1>10, LedgerAnswers
<1>11. ASSUME NEW t \in Turns, FinishFailure(t) PROVE Goal
  <2>1. SameBorn /\ activeRun # NoRun
    BY <1>0, <1>11, StepKeepsBorn DEF FinishFailure, StillOwner
  <2>. QED
    BY <1>11, <2>1, LedgerReleases DEF FinishFailure
<1>12. ASSUME NEW t \in Turns, FinishNothing(t) PROVE Goal
  <2>1. SameBorn
    BY <1>0, <1>12, StepKeepsBorn DEF FinishNothing
  <2>. QED
    BY <1>12, <2>1, LedgerStutters DEF FinishNothing
<1>13. ASSUME NEW t \in Turns, EndRun(t) PROVE Goal
  BY <1>0, <1>13, StepKeepsBorn, LedgerStutters DEF EndRun
<1>14. ASSUME NEW p \in Procs, Interrupt(p) PROVE Goal
  BY <1>14, LedgerReleases DEF Interrupt, SameBorn
<1>15. ASSUME NEW p \in Procs, MarkInterrupted(p) PROVE Goal
  BY <1>15, LedgerStutters DEF MarkInterrupted, SameBorn
<1>16. ASSUME NEW p \in Procs, Crash(p) PROVE Goal
  <2>1. SameBorn
    BY <1>16 DEF Crash, SameBorn
  <2>. QED
    BY <1>16, <2>1, LedgerStutters DEF Crash
<1>17. CASE LeaseExpires
  BY <1>17, LedgerStutters DEF LeaseExpires, SameBorn
<1>18. CASE UNCHANGED vars
  BY <1>18, LedgerStutters DEF vars, SameBorn
<1>. QED
  BY <1>1, <1>2, <1>3, <1>4, <1>5, <1>6, <1>7, <1>8, <1>9, <1>10, <1>11, <1>12, <1>13,
     <1>14, <1>15, <1>16, <1>17, <1>18 DEF Next, RunStep

\* The service with its processes, leases, crashes and retries does what the
\* ledger promises: one owner at a time, a log that only the owner extends, one
\* answer per turn, given by the owner.
THEOREM ServiceImplementsLedger == Spec => ImplementsLedger
BY LedgerStarts, LedgerStep, LogInvariant, TalkInvariant, PTL
   DEF Spec, ImplementsLedger, Ledger!LedgerSpec

=============================================================================
