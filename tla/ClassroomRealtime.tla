-------------------------- MODULE ClassroomRealtime --------------------------
(***************************************************************************)
(* How the runs of one classroom session publish from one API process      *)
(* (backend/app/services/realtime_service.py, and _RunEmitter and run_turn *)
(* of classroom_service.py, which drive it).                               *)
(*                                                                         *)
(* Everything is one event loop, so a step here is what runs between two   *)
(* awaits.  Each run has a main coroutine and at most one timer task of    *)
(* its token batcher; the runs share the session's cached channel.  What a *)
(* run produces is numbered in the order of production: a token, a         *)
(* whiteboard action, the completion or the error.  agent.status carries   *)
(* no number: the code does not order it.                                  *)
(*                                                                         *)
(* Abstractions.  A channel goes idle only when nothing is being published *)
(* (CHANNEL_IDLE_TTL_SECONDS is far above the library's own timeouts).     *)
(* close_all_classroom_channels runs at shutdown and is left out.          *)
(***************************************************************************)
EXTENDS Integers, Sequences, FiniteSets, Functions

CONSTANTS Runs,      \* runs of the session in this process
          MaxItems   \* bound: tokens and actions of each run

ASSUME RealtimeAssumption == MaxItems \in [Runs -> Nat]

Main(r) == <<r, "main">>
Timer(r) == <<r, "timer">>
Tasks == Runs \X {"main", "timer"}
None == <<>>

\* Where a task waits: in asyncio.sleep, for the lock of its batcher, in the
\* unsubscribe of an idle channel, for the lock of the channel, in subscribe or
\* in send_broadcast.  A main coroutine that publishes nothing is "off".
Publishing == {"evict", "wait", "subscribe", "send"}
Places == {"off", "asleep", "lock"} \cup Publishing

\* Where run_turn is.  Discarded: past batcher.discard().
Discarded == {"failing", "error", "failed", "dropped"}
Stages == {"graph", "status", "flushing", "persisting", "action",
           "flushingLast", "finishing", "completing", "done"} \cup Discarded

VARIABLES buffer,  \* _buffer of each batcher
          holder,  \* who holds its _lock
          at,      \* where each task waits
          load,    \* what each task is publishing
          stage,   \* where run_turn is
          made,    \* how much the run has produced
          out,     \* what reached the channel, in order
          lost,    \* what was in a publish that failed
          cache    \* _channels[name]: no entry, used lately, or idle

realtimeVars == <<buffer, holder, at, load, stage, made, out, lost, cache>>

RealtimeInit ==
  /\ buffer = [r \in Runs |-> <<>>]
  /\ holder = [r \in Runs |-> None]
  /\ at = [t \in Tasks |-> "off"]
  /\ load = [t \in Tasks |-> <<>>]
  /\ stage = [r \in Runs |-> "graph"]
  /\ made = [r \in Runs |-> 0]
  /\ out = [r \in Runs |-> <<>>] /\ lost = [r \in Runs |-> {}]
  /\ cache = "none"

-----------------------------------------------------------------------------
(* _broadcast_cached                                                       *)

\* _get_cached_channel: the cached channel, or the lock around subscribe.
MChannelFrom(c, others) == IF c # "none" THEN "send" ELSE "subscribe"
ChannelFrom(c, others) ==
  IF c # "none" THEN "send"
  ELSE IF \E u \in others : at[u] \in {"wait", "subscribe"} THEN "wait" ELSE "subscribe"

\* The first await of a publish by t.  _evict_idle_channels comes first and
\* takes an idle channel out of the cache before it awaits.
StartPublish(t, items) ==
  /\ at' = [at EXCEPT ![t] = IF cache = "idle" THEN "evict"
                             ELSE ChannelFrom(cache, Tasks \ {t})]
  /\ load' = [load EXCEPT ![t] = items]
  /\ cache' = IF cache = "idle" THEN "none" ELSE cache

\* Where run_turn goes on when what it awaited in this stage is over.
NextStage == [status |-> "graph", flushing |-> "persisting", action |-> "graph",
               flushingLast |-> "finishing", completing |-> "done", error |-> "failed"]

Resumed(t, s) == IF t[2] = "main" THEN [s EXCEPT ![t[1]] = NextStage[@]] ELSE s

\* The publish of t is over, and with it _send if t was in it.
MEndPublish(t) ==   \* the lock is not released
  /\ at' = [at EXCEPT ![t] = "off"] /\ load' = [load EXCEPT ![t] = <<>>]
  /\ stage' = Resumed(t, stage)
  /\ UNCHANGED <<buffer, made, holder>>
MEndPublishCleared(t) ==   \* the buffer is emptied after the publish, not before
  /\ at' = [at EXCEPT ![t] = "off"] /\ load' = [load EXCEPT ![t] = <<>>]
  /\ holder' = IF holder[t[1]] = t THEN [holder EXCEPT ![t[1]] = None] ELSE holder
  /\ buffer' = IF holder[t[1]] = t THEN [buffer EXCEPT ![t[1]] = <<>>] ELSE buffer
  /\ stage' = Resumed(t, stage)
  /\ UNCHANGED made
EndPublish(t) ==
  /\ at' = [at EXCEPT ![t] = "off"]
  /\ load' = [load EXCEPT ![t] = <<>>]
  /\ holder' = IF holder[t[1]] = t THEN [holder EXCEPT ![t[1]] = None] ELSE holder
  /\ stage' = Resumed(t, stage)
  /\ UNCHANGED <<buffer, made>>

\* The idle channel is unsubscribed.
Evicted(t) ==
  /\ at[t] = "evict"
  /\ at' = [at EXCEPT ![t] = ChannelFrom(cache, Tasks \ {t})]
  /\ UNCHANGED <<buffer, holder, load, stage, made, out, lost, cache>>

\* The lock of the channel is free: look into the cache again.
GetChannelLock(t) ==
  /\ at[t] = "wait"
  /\ \A u \in Tasks : at[u] # "subscribe"
  /\ at' = [at EXCEPT ![t] = IF cache # "none" THEN "send" ELSE "subscribe"]
  /\ cache' = IF cache = "none" THEN "none" ELSE "fresh"
  /\ UNCHANGED <<buffer, holder, load, stage, made, out, lost>>

Subscribed(t) ==
  /\ at[t] = "subscribe"
  /\ at' = [at EXCEPT ![t] = "send"]
  /\ cache' = "fresh"
  /\ UNCHANGED <<buffer, holder, load, stage, made, out, lost>>

Sent(t) ==
  /\ at[t] = "send"
  /\ out' = [out EXCEPT ![t[1]] = @ \o load[t]]
  /\ EndPublish(t)
  /\ UNCHANGED <<lost, cache>>

\* get_supabase, subscribe or send_broadcast raises.  The entry is taken out of
\* the cache, whichever channel it names by now.  A send that raises may have
\* reached the server.
PublishFails(t) ==
  /\ at[t] \in {"subscribe", "send"}
  /\ \/ out' = out
     \/ at[t] = "send" /\ out' = [out EXCEPT ![t[1]] = @ \o load[t]]
  /\ lost' = [lost EXCEPT ![t[1]] = @ \cup Range(load[t])]
  /\ cache' = "none"
  /\ EndPublish(t)

\* CHANNEL_IDLE_TTL_SECONDS pass without a publish.
ChannelIdles ==
  /\ cache = "fresh"
  /\ \A t \in Tasks : at[t] \notin Publishing
  /\ cache' = "idle"
  /\ UNCHANGED <<buffer, holder, at, load, stage, made, out, lost>>

-----------------------------------------------------------------------------
(* ClassroomTokenBatcher                                                   *)

\* _send inside its lock: swap the buffer for an empty one before the publish.
MTakeBuffer(r) == buffer
TakeBuffer(r) == [buffer EXCEPT ![r] = <<>>]

\* Whether t finds _lock taken, or a task that asked for it before.
Held(t) ==
  \/ holder[t[1]] # None
  \/ at[t] # "lock" /\ \E u \in Tasks : u[1] = t[1] /\ at[u] = "lock"

\* _send by t, for the main coroutine in stages s: wait for the lock, return at
\* once when there is no text, or publish the text under the lock.
Send(t, s) ==
  \/ /\ Held(t)
     /\ at' = [at EXCEPT ![t] = "lock"] /\ stage' = s
     /\ UNCHANGED <<buffer, holder, load, cache>>
  \/ /\ ~Held(t) /\ buffer[t[1]] = <<>>
     /\ at' = [at EXCEPT ![t] = "off"] /\ stage' = Resumed(t, s)
     /\ UNCHANGED <<buffer, holder, load, cache>>
  \/ /\ ~Held(t) /\ buffer[t[1]] # <<>>
     /\ holder' = [holder EXCEPT ![t[1]] = t]
     /\ buffer' = TakeBuffer(t[1])
     /\ StartPublish(t, buffer[t[1]])
     /\ stage' = s

GetBatchLock(t) ==
  /\ at[t] = "lock" /\ ~Held(t)
  /\ Send(t, stage)
  /\ UNCHANGED <<made, out, lost>>

\* _flush_later: the sleep is over.
BatchTimerFires(r) ==
  /\ at[Timer(r)] = "asleep"
  /\ Send(Timer(r), stage)
  /\ UNCHANGED <<made, out, lost>>

\* discard(): drop the text, cancel the timer wherever it waits.  A send that
\* is cancelled may have reached the server.
MCancelled(r) == IF at[Timer(r)] = "asleep" THEN {Timer(r)} ELSE {}
Cancelled(r) == {Timer(r)}

Discard(r) ==
  /\ buffer' = [buffer EXCEPT ![r] = <<>>]
  /\ at' = [t \in Tasks |-> IF t \in Cancelled(r) THEN "off" ELSE at[t]]
  /\ load' = [t \in Tasks |-> IF t \in Cancelled(r) THEN <<>> ELSE load[t]]
  /\ holder' = IF holder[r] \in Cancelled(r) THEN [holder EXCEPT ![r] = None] ELSE holder
  /\ \/ out' = out
     \/ /\ Timer(r) \in Cancelled(r) /\ at[Timer(r)] = "send"
        /\ out' = [out EXCEPT ![r] = @ \o load[Timer(r)]]
  /\ UNCHANGED <<made, lost, cache>>

-----------------------------------------------------------------------------
(* _RunEmitter and run_turn                                                *)

\* delta(): add() buffers the text and arms the timer if none is alive.
Delta(r) ==
  /\ stage[r] = "graph" /\ made[r] < MaxItems[r]
  /\ made' = [made EXCEPT ![r] = @ + 1]
  /\ buffer' = [buffer EXCEPT ![r] = Append(@, made[r] + 1)]
  /\ at' = IF at[Timer(r)] = "off" THEN [at EXCEPT ![Timer(r)] = "asleep"] ELSE at
  /\ UNCHANGED <<holder, load, stage, out, lost, cache>>

Status(r) ==
  /\ stage[r] = "graph"
  /\ stage' = [stage EXCEPT ![r] = "status"]
  /\ StartPublish(Main(r), <<>>)
  /\ UNCHANGED <<buffer, holder, made, out, lost>>

\* action(): flush, persist, publish.
Action(r) ==
  /\ stage[r] = "graph" /\ made[r] < MaxItems[r]
  /\ Send(Main(r), [stage EXCEPT ![r] = "flushing"])
  /\ UNCHANGED <<made, out, lost>>

PublishNext(r, s) ==
  /\ stage' = [stage EXCEPT ![r] = s]
  /\ made' = [made EXCEPT ![r] = @ + 1]
  /\ StartPublish(Main(r), <<made[r] + 1>>)
  /\ UNCHANGED <<buffer, holder, out, lost>>

Persisted(r) == stage[r] = "persisting" /\ PublishNext(r, "action")

\* The graph has returned an answer.
Finish(r) ==
  /\ stage[r] = "graph"
  /\ Send(Main(r), [stage EXCEPT ![r] = "flushingLast"])
  /\ UNCHANGED <<made, out, lost>>

Completed(r) == stage[r] = "finishing" /\ PublishNext(r, "completing")

\* _finish_success finds another owner: return.
SupersededAtFinish(r) ==
  /\ stage[r] = "finishing"
  /\ stage' = [stage EXCEPT ![r] = "done"]
  /\ UNCHANGED <<buffer, holder, at, load, made, out, lost, cache>>

\* RunSupersededError from _check or from persist_whiteboard_event.
Superseded(r) ==
  /\ stage[r] \in {"graph", "persisting"}
  /\ stage' = [stage EXCEPT ![r] = "dropped"]
  /\ Discard(r)

\* Any other exception.
GraphFails(r) ==
  /\ stage[r] \in {"graph", "persisting", "finishing"}
  /\ stage' = [stage EXCEPT ![r] = "failing"]
  /\ Discard(r)

\* _finish_failure: publish the error only if the run still owned the row.
FailureReported(r) == stage[r] = "failing" /\ PublishNext(r, "error")
FailureUnreported(r) ==
  /\ stage[r] = "failing"
  /\ stage' = [stage EXCEPT ![r] = "failed"]
  /\ UNCHANGED <<buffer, holder, at, load, made, out, lost, cache>>

-----------------------------------------------------------------------------
\* What a task that waits goes on to do.
Step(t) ==
  \/ GetBatchLock(t) \/ Evicted(t) \/ GetChannelLock(t)
  \/ Subscribed(t) \/ Sent(t) \/ PublishFails(t)

RunStep(r) ==
  \/ Delta(r) \/ Status(r) \/ Action(r) \/ Persisted(r) \/ Finish(r) \/ Completed(r)
  \/ SupersededAtFinish(r) \/ Superseded(r) \/ GraphFails(r)
  \/ FailureReported(r) \/ FailureUnreported(r)

RealtimeNext ==
  \/ \E t \in Tasks : Step(t)
  \/ \E r \in Runs : BatchTimerFires(r) \/ RunStep(r)
  \/ ChannelIdles

RealtimeSpec == RealtimeInit /\ [][RealtimeNext]_realtimeVars

\* Sleeps end, the calls into the realtime client return, and the lock of the
\* channel is given to those who wait for it in turn (asyncio.Lock wakes its
\* waiters in the order they came): who wants it is not passed over for good.
\* The runs themselves, which wait for a model, promise nothing.
FairRealtimeSpec ==
  /\ RealtimeSpec
  /\ \A t \in Tasks : WF_realtimeVars(Step(t)) /\ SF_realtimeVars(GetChannelLock(t))
  /\ \A r \in Runs : WF_realtimeVars(BatchTimerFires(r))

-----------------------------------------------------------------------------
(* Properties                                                              *)

RealtimeTypeOK ==
  /\ buffer \in [Runs -> Seq(Nat)] /\ load \in [Tasks -> Seq(Nat)]
  /\ holder \in [Runs -> Tasks \cup {None}]
  /\ at \in [Tasks -> Places] /\ stage \in [Runs -> Stages]
  /\ made \in [Runs -> Nat] /\ out \in [Runs -> Seq(Nat)]
  /\ lost \in [Runs -> SUBSET Nat] /\ cache \in {"none", "fresh", "idle"}
  /\ \A t \in Tasks : load[t] # <<>> => at[t] \in Publishing
  /\ \A r \in Runs : holder[r] # None => holder[r][1] = r /\ at[holder[r]] \in Publishing

\* What a run publishes reaches the channel in the order the run produced it:
\* no text overtakes other text, a whiteboard action or the completion, although
\* the timer and the main coroutine publish concurrently (realtime_service.py:216,
\* classroom_service.py:420 "text so far goes out before the board changes").
ProductionOrder ==
  \A r \in Runs : \A i, j \in DOMAIN out[r] : i < j => out[r][i] < out[r][j]

\* Nothing a run produces disappears unnoticed: until the text is discarded, each
\* item is still buffered, being published, on the channel, or was in a publish
\* that failed - also when tokens arrive while the buffer is being sent.
NothingForgotten ==
  \A r \in Runs : stage[r] \notin Discarded =>
    1 .. made[r] = Range(out[r]) \cup lost[r] \cup Range(buffer[r])
                     \cup Range(load[Main(r)]) \cup Range(load[Timer(r)])

\* From the flush before a whiteboard action on, until the graph goes on, no text
\* of the run is waiting or on its way; the same from the last flush on.
FlushedBeforeEvents ==
  \A r \in Runs : stage[r] \in {"persisting", "action", "finishing", "completing", "done"} =>
    buffer[r] = <<>> /\ load[Timer(r)] = <<>>

\* A run that was superseded or has failed sends no more text; all that may still
\* come is its error (realtime_service.py:229 "Drop buffered text").
DiscardedIsSilent ==
  [][\A r \in Runs : stage[r] \in Discarded /\ out'[r] # out[r] =>
       stage[r] = "error" /\ out'[r] = Append(out[r], made[r])]_realtimeVars

\* However many publishes meet an empty cache, one of them subscribes.
SubscribeOnce ==
  \A t, u \in Tasks : at[t] = "subscribe" /\ at[u] = "subscribe" => t = u

\* An armed timer gets the text out whatever the run does next: each token that is
\* buffered when the timer sleeps reaches the channel or is in a publish that fails,
\* unless the run is discarded first.  A timer or flush that waits for a lock for
\* good, the one of the batcher or the one of the channel, sends nothing.
ArmedTimerSends ==
  \A r \in Runs : \A i \in 1 .. MaxItems[r] :
    (at[Timer(r)] = "asleep" /\ i \in Range(buffer[r]))
      ~> (i \in Range(out[r]) \cup lost[r] \/ stage[r] \in Discarded)
=============================================================================
