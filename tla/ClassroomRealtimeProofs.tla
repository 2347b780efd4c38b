----------------------- MODULE ClassroomRealtimeProofs -----------------------
(***************************************************************************)
(* Proofs about ClassroomRealtime: for any number of runs and of items, at *)
(* most one coroutine subscribes, text is flushed before every event, a    *)
(* discarded run is silent, what a run publishes reaches the channel in    *)
(* the order of production, and nothing of it is forgotten.                *)
(***************************************************************************)
EXTENDS ClassroomRealtime, SequenceTheorems, TLAPS

\* Which await the main coroutine is in, in each stage of run_turn.
StageInv(r) ==
  /\ stage[r] \in {"graph", "persisting", "finishing", "done", "failing", "failed", "dropped"} =>
       at[Main(r)] = "off"
  /\ stage[r] \in {"status", "action", "completing", "error"} => at[Main(r)] \in Publishing
  /\ stage[r] \in {"flushing", "flushingLast"} => at[Main(r)] \in Publishing \cup {"lock"}

\* Who publishes text holds the lock of the batcher and who holds it publishes;
\* while the main coroutine does, the buffer stays empty.
LockInv(r) ==
  /\ load[Main(r)] # <<>> => at[Main(r)] \in Publishing
  /\ load[Timer(r)] # <<>> => at[Timer(r)] \in Publishing
  /\ \/ holder[r] = None
     \/ holder[r] = Main(r) /\ at[Main(r)] \in Publishing
     \/ holder[r] = Timer(r) /\ at[Timer(r)] \in Publishing
  /\ at[Timer(r)] \in Publishing => holder[r] = Timer(r)
  /\ stage[r] \in {"flushing", "flushingLast"} /\ at[Main(r)] \in Publishing =>
       holder[r] = Main(r) /\ buffer[r] = <<>>

\* From the flush before an event on, no text is buffered or on its way.
FlushInv(r) ==
  stage[r] \in {"persisting", "action", "finishing", "completing", "done"} =>
    buffer[r] = <<>> /\ load[Timer(r)] = <<>>

\* A status carries no item; after discard() nothing is left of the text.
DiscardInv(r) ==
  /\ stage[r] = "status" => load[Main(r)] = <<>>
  /\ stage[r] \in Discarded => buffer[r] = <<>> /\ at[Timer(r)] = "off"
  /\ stage[r] = "error" => load[Main(r)] = <<made[r]>>

RunInv(r) == StageInv(r) /\ LockInv(r) /\ FlushInv(r) /\ DiscardInv(r)

Types ==
  /\ buffer \in [Runs -> Seq(Nat)] /\ load \in [Tasks -> Seq(Nat)]
  /\ holder \in [Runs -> Tasks \cup {None}]
  /\ at \in [Tasks -> Places] /\ stage \in [Runs -> Stages]
  /\ made \in [Runs -> Nat] /\ out \in [Runs -> Seq(Nat)]
  /\ lost \in [Runs -> SUBSET Nat] /\ cache \in {"none", "fresh", "idle"}

IInv == Types /\ SubscribeOnce /\ \A r \in Runs : RunInv(r)

\* A step that does nothing to run r.
SameRun(r) ==
  /\ stage'[r] = stage[r] /\ made'[r] = made[r]
  /\ buffer'[r] = buffer[r] /\ holder'[r] = holder[r]
  /\ at'[Main(r)] = at[Main(r)] /\ at'[Timer(r)] = at[Timer(r)]
  /\ load'[Main(r)] = load[Main(r)] /\ load'[Timer(r)] = load[Timer(r)]

-----------------------------------------------------------------------------
(* Tasks and types                                                         *)

LEMMA TaskFacts ==
  /\ \A r \in Runs : Main(r) \in Tasks /\ Timer(r) \in Tasks /\ Main(r) # Timer(r)
  /\ \A r \in Runs : Main(r)[1] = r /\ Timer(r)[1] = r /\ Main(r)[2] = "main" /\ Timer(r)[2] = "timer"
  /\ \A r, s \in Runs : r # s => Main(r) # Main(s) /\ Timer(r) # Timer(s) /\ Main(r) # Timer(s)
  /\ \A t \in Tasks : t[1] \in Runs /\ (t = Main(t[1]) \/ t = Timer(t[1]))
  BY DEF Main, Timer, Tasks

LEMMA InvImpliesTypeOK == IInv => RealtimeTypeOK
<1> SUFFICES ASSUME IInv PROVE RealtimeTypeOK
  OBVIOUS
<1>1. ASSUME NEW t \in Tasks, load[t] # <<>> PROVE at[t] \in Publishing
  BY <1>1, TaskFacts DEF IInv, RunInv, LockInv
<1>2. ASSUME NEW r \in Runs, holder[r] # None PROVE holder[r][1] = r /\ at[holder[r]] \in Publishing
  BY <1>2, TaskFacts DEF IInv, RunInv, LockInv
<1> QED BY <1>1, <1>2 DEF IInv, Types, RealtimeTypeOK

LEMMA NoneIsNoTask == None \notin Tasks
  BY DEF None, Tasks

\* What a publish that starts does to where the tasks wait and to the cache.
LEMMA StartType ==
  ASSUME Types, NEW t \in Tasks, NEW items \in Seq(Nat), StartPublish(t, items)
  PROVE  /\ at' \in [Tasks -> Places] /\ at'[t] \in Publishing
         /\ \A u \in Tasks \ {t} : at'[u] = at[u]
         /\ load' \in [Tasks -> Seq(Nat)] /\ load'[t] = items
         /\ \A u \in Tasks \ {t} : load'[u] = load[u]
         /\ cache' \in {"none", "fresh", "idle"}
  BY DEF Types, StartPublish, ChannelFrom, Places, Publishing

LEMMA NextStageFacts ==
  /\ DOMAIN NextStage = {"status", "flushing", "action", "flushingLast", "completing", "error"}
  /\ NextStage["status"] = "graph" /\ NextStage["flushing"] = "persisting"
  /\ NextStage["action"] = "graph" /\ NextStage["flushingLast"] = "finishing"
  /\ NextStage["completing"] = "done" /\ NextStage["error"] = "failed"
  BY DEF NextStage

LEMMA ResumedType ==
  ASSUME NEW s \in [Runs -> Stages], NEW t \in Tasks, s[t[1]] \in DOMAIN NextStage \/ t[2] # "main"
  PROVE  /\ Resumed(t, s) \in [Runs -> Stages]
         /\ \A r \in Runs : t # Main(r) => Resumed(t, s)[r] = s[r]
         /\ t = Main(t[1]) => Resumed(t, s)[t[1]] = NextStage[s[t[1]]]
<1>1. \A x \in DOMAIN NextStage : NextStage[x] \in Stages
  BY DEF NextStage, Stages, Discarded
<1>2. t[1] \in Runs /\ t \in Tasks
  BY TaskFacts
<1>3. CASE t[2] = "main"
  <2>1. Resumed(t, s) = [s EXCEPT ![t[1]] = NextStage[s[t[1]]]]
    BY <1>3 DEF Resumed
  <2>2. \A r \in Runs : t # Main(r) => t[1] # r
    BY <1>2, <1>3, TaskFacts DEF Main, Tasks
  <2> QED BY <1>1, <1>2, <1>3, <2>1, <2>2
<1>4. CASE t[2] # "main"
  BY <1>2, <1>4, TaskFacts DEF Resumed
<1> QED BY <1>3, <1>4

LEMMA SameRunKeeps ==
  ASSUME NEW r \in Runs, RunInv(r), SameRun(r)
  PROVE  RunInv(r)'
  BY DEF RunInv, StageInv, LockInv, FlushInv, DiscardInv, SameRun

\* It is enough to look at the run that steps.
LEMMA OneRun ==
  ASSUME IInv, Types', SubscribeOnce', NEW r \in Runs, RunInv(r)',
         \A s \in Runs \ {r} : SameRun(s)
  PROVE  IInv'
<1>1. \A s \in Runs \ {r} : RunInv(s)'
  BY SameRunKeeps DEF IInv
<1> QED BY <1>1 DEF IInv

-----------------------------------------------------------------------------
(* Publishing                                                              *)

\* A publish goes from one of its awaits to another.
LEMMA MoveKeeps ==
  ASSUME IInv, NEW t \in Tasks, NEW place \in Publishing, at[t] \in Publishing,
         at' = [at EXCEPT ![t] = place], UNCHANGED <<buffer, holder, load, stage, made, out, lost>>,
         cache' \in {"none", "fresh", "idle"}, SubscribeOnce'
  PROVE  IInv'
<1> DEFINE r == t[1]
<1>1. r \in Runs /\ (t = Main(r) \/ t = Timer(r)) /\ Main(r) # Timer(r)
  BY TaskFacts
<1>2. Types'
  BY DEF IInv, Types, Publishing, Places
<1>3. \A s \in Runs \ {r} : SameRun(s)
  BY <1>1, TaskFacts DEF SameRun, IInv, Types
<1>4. RunInv(r)'
  BY <1>1, TaskFacts DEF IInv, Types, RunInv, StageInv, LockInv, FlushInv, DiscardInv, Publishing, Discarded
<1> QED BY <1>1, <1>2, <1>3, <1>4, OneRun

LEMMA EvictedKeeps ==
  ASSUME IInv, NEW t \in Tasks, Evicted(t)
  PROVE  IInv'
<1> DEFINE place == ChannelFrom(cache, Tasks \ {t})
<1>1. /\ at' = [at EXCEPT ![t] = place] /\ at[t] = "evict"
      /\ UNCHANGED <<buffer, holder, load, stage, made, out, lost, cache>>
  BY DEF Evicted
<1>2. place \in Publishing /\ at[t] \in Publishing
  BY <1>1 DEF ChannelFrom, Publishing
<1>3. SubscribeOnce'
  BY <1>1 DEF IInv, Types, SubscribeOnce, ChannelFrom
<1> HIDE DEF place
<1> QED BY <1>1, <1>2, <1>3, MoveKeeps DEF IInv, Types

LEMMA GetChannelLockKeeps ==
  ASSUME IInv, NEW t \in Tasks, GetChannelLock(t)
  PROVE  IInv'
<1> DEFINE place == IF cache # "none" THEN "send" ELSE "subscribe"
<1>1. /\ at' = [at EXCEPT ![t] = place] /\ at[t] = "wait"
      /\ UNCHANGED <<buffer, holder, load, stage, made, out, lost>>
      /\ \A u \in Tasks : at[u] # "subscribe"
      /\ cache' \in {"none", "fresh", "idle"}
  BY DEF GetChannelLock
<1>2. place \in Publishing /\ at[t] \in Publishing
  BY <1>1 DEF Publishing
<1>3. SubscribeOnce'
  BY <1>1 DEF IInv, Types, SubscribeOnce
<1> HIDE DEF place
<1> QED BY <1>1, <1>2, <1>3, MoveKeeps

LEMMA SubscribedKeeps ==
  ASSUME IInv, NEW t \in Tasks, Subscribed(t)
  PROVE  IInv'
<1>1. at' = [at EXCEPT ![t] = "send"] /\ at[t] = "subscribe" /\ cache' = "fresh"
      /\ UNCHANGED <<buffer, holder, load, stage, made, out, lost>>
  BY DEF Subscribed
<1>2. SubscribeOnce'
  BY <1>1 DEF IInv, Types, SubscribeOnce
<1> QED BY <1>1, <1>2, MoveKeeps DEF Publishing

-----------------------------------------------------------------------------
(* The end of a publish                                                    *)

LEMMA EndPublishKeeps ==
  ASSUME IInv, NEW t \in Tasks, at[t] \in Publishing, EndPublish(t),
         out' \in [Runs -> Seq(Nat)], lost' \in [Runs -> SUBSET Nat], cache' \in {"none", "fresh", "idle"}
  PROVE  IInv'
<1> DEFINE r == t[1]
<1>1. r \in Runs /\ (t = Main(r) \/ t = Timer(r)) /\ Main(r) # Timer(r)
  BY TaskFacts
<1>2. /\ at' = [at EXCEPT ![t] = "off"] /\ load' = [load EXCEPT ![t] = <<>>]
      /\ UNCHANGED <<buffer, made>>
  BY DEF EndPublish
<1>3. /\ holder' \in [Runs -> Tasks \cup {None}]
      /\ holder'[r] = IF holder[r] = t THEN None ELSE holder[r]
      /\ \A s \in Runs \ {r} : holder'[s] = holder[s]
  BY <1>1 DEF EndPublish, IInv, Types
<1>4. t[2] = "main" => stage[r] \in DOMAIN NextStage
  <2>1. StageInv(r) /\ stage[r] \in Stages
    BY <1>1 DEF IInv, Types, RunInv
  <2>2. t[2] = "main" => t = Main(r)
    BY <1>1, TaskFacts
  <2> QED BY <2>1, <2>2, NextStageFacts DEF StageInv, Stages, Publishing, Discarded
<1>5. /\ stage' \in [Runs -> Stages]
      /\ \A s \in Runs \ {r} : stage'[s] = stage[s]
      /\ t = Timer(r) => stage'[r] = stage[r]
      /\ t = Main(r) => stage'[r] = NextStage[stage[r]]
  <2>1. stage' = Resumed(t, stage) /\ stage \in [Runs -> Stages]
    BY DEF EndPublish, IInv, Types
  <2>2. /\ stage' \in [Runs -> Stages]
        /\ \A s \in Runs : t # Main(s) => stage'[s] = stage[s]
        /\ t = Main(t[1]) => stage'[t[1]] = NextStage[stage[t[1]]]
    BY <1>4, <2>1, ResumedType
  <2> QED BY <1>1, <2>2, TaskFacts
<1>6. Types'
  BY <1>2, <1>3, <1>5 DEF IInv, Types, Places
<1>7. SubscribeOnce'
  BY <1>2 DEF IInv, Types, SubscribeOnce
<1>8. \A s \in Runs \ {r} : SameRun(s)
  BY <1>1, <1>2, <1>3, <1>5, TaskFacts, SMTT(30) DEF SameRun, IInv, Types
<1>9. RunInv(r)'
  <2>1. StageInv(r) /\ LockInv(r) /\ FlushInv(r) /\ DiscardInv(r) /\ stage[r] \in Stages
    BY <1>1 DEF IInv, Types, RunInv
  <2>2. buffer'[r] = buffer[r] /\ made'[r] = made[r]
    BY <1>2
  <2>3. CASE t = Timer(r)
    <3>1. /\ at'[Timer(r)] = "off" /\ at'[Main(r)] = at[Main(r)]
          /\ load'[Timer(r)] = <<>> /\ load'[Main(r)] = load[Main(r)] /\ stage'[r] = stage[r]
      BY <1>1, <1>2, <1>5, <2>3, TaskFacts DEF IInv, Types
    <3>2. StageInv(r)' /\ FlushInv(r)' /\ DiscardInv(r)'
      BY <2>1, <2>2, <3>1 DEF StageInv, FlushInv, DiscardInv
    <3>3. LockInv(r)'
      BY <1>1, <1>3, <2>1, <2>2, <2>3, <3>1, TaskFacts DEF LockInv, Publishing
    <3> QED BY <3>2, <3>3 DEF RunInv
  <2>4. CASE t = Main(r)
    <3>1. /\ at'[Main(r)] = "off" /\ at'[Timer(r)] = at[Timer(r)]
          /\ load'[Main(r)] = <<>> /\ load'[Timer(r)] = load[Timer(r)] /\ stage'[r] = NextStage[stage[r]]
      BY <1>1, <1>2, <1>5, <2>4, TaskFacts DEF IInv, Types
    <3>2. /\ stage[r] \in {"status", "flushing", "action", "flushingLast", "completing", "error"}
          /\ stage'[r] \in {"graph", "persisting", "finishing", "done", "failed"}
      BY <1>1, <1>4, <2>4, <3>1, TaskFacts, NextStageFacts
    <3>3. StageInv(r)'
      BY <3>1, <3>2 DEF StageInv
    <3>4. LockInv(r)'
      BY <1>1, <1>3, <2>1, <2>2, <2>4, <3>1, <3>2, TaskFacts, NoneIsNoTask DEF LockInv, Publishing
    <3>5. DiscardInv(r)'
      BY <2>1, <2>2, <3>1, <3>2, NextStageFacts DEF DiscardInv, Discarded
    <3>6. FlushInv(r)'
      <4>1. CASE stage[r] \in {"flushing", "flushingLast"}
        <5>1. holder[r] = Main(r) /\ buffer[r] = <<>>
          BY <2>1, <2>4, <4>1 DEF LockInv
        <5>2. load[Timer(r)] = <<>>
          BY <1>1, <2>1, <5>1 DEF LockInv
        <5> QED BY <2>2, <3>1, <5>1, <5>2 DEF FlushInv
      <4>2. CASE stage[r] \notin {"flushing", "flushingLast"}
        BY <2>1, <2>2, <3>1, <3>2, <4>2, NextStageFacts DEF FlushInv
      <4> QED BY <4>1, <4>2
    <3> QED BY <3>3, <3>4, <3>5, <3>6 DEF RunInv
  <2> QED BY <1>1, <2>3, <2>4
<1> QED BY <1>1, <1>6, <1>7, <1>8, <1>9, OneRun

LEMMA SendType ==
  ASSUME Types, NEW t \in Tasks
  PROVE  [out EXCEPT ![t[1]] = @ \o load[t]] \in [Runs -> Seq(Nat)]
<1>1. t[1] \in Runs /\ out[t[1]] \in Seq(Nat) /\ load[t] \in Seq(Nat)
  BY TaskFacts DEF Types
<1>2. out[t[1]] \o load[t] \in Seq(Nat)
  BY <1>1
<1> QED BY <1>1, <1>2 DEF Types

LEMMA SentKeeps ==
  ASSUME IInv, NEW t \in Tasks, Sent(t)
  PROVE  IInv'
<1>1. out' \in [Runs -> Seq(Nat)]
  BY SendType DEF Sent, IInv, Types
<1>2. at[t] \in Publishing /\ EndPublish(t) /\ UNCHANGED <<lost, cache>>
  BY DEF Sent, Publishing
<1> QED BY <1>1, <1>2, EndPublishKeeps DEF IInv, Types

LEMMA PublishFailsKeeps ==
  ASSUME IInv, NEW t \in Tasks, PublishFails(t)
  PROVE  IInv'
<1>1. out' \in [Runs -> Seq(Nat)]
  BY SendType DEF PublishFails, IInv, Types
<1>2. lost' \in [Runs -> SUBSET Nat]
  <2>1. Range(load[t]) \subseteq Nat
    BY DEF IInv, Types, Range
  <2> QED BY <2>1, TaskFacts DEF PublishFails, IInv, Types
<1>3. at[t] \in Publishing /\ EndPublish(t) /\ cache' = "none"
  BY DEF PublishFails, Publishing
<1> QED BY <1>1, <1>2, <1>3, EndPublishKeeps

LEMMA ChannelIdlesKeeps == IInv /\ ChannelIdles => IInv'
  BY DEF ChannelIdles, IInv, Types, SubscribeOnce, RunInv, StageInv, LockInv, FlushInv, DiscardInv

-----------------------------------------------------------------------------
(* Sending the buffer                                                      *)

\* What _send by t does to its run, for the main coroutine in stage x.
SendEffect(t, r, x) ==
  /\ made'[r] = made[r]
  /\ \A u \in Tasks \ {t} : at'[u] = at[u] /\ load'[u] = load[u]
  /\ \/ /\ at'[t] = "lock" /\ load'[t] = load[t] /\ stage'[r] = x
        /\ buffer'[r] = buffer[r] /\ holder'[r] = holder[r]
     \/ /\ holder[r] = None /\ buffer[r] = <<>>
        /\ at'[t] = "off" /\ load'[t] = load[t] /\ buffer'[r] = <<>> /\ holder'[r] = None
        /\ t = Timer(r) => stage'[r] = x
        /\ t = Main(r) => stage'[r] = NextStage[x]
     \/ /\ holder[r] = None /\ buffer[r] # <<>>
        /\ at'[t] \in Publishing /\ buffer'[r] = <<>> /\ holder'[r] = t /\ stage'[r] = x

LEMMA SendCommon ==
  ASSUME IInv, NEW t \in Tasks, NEW s \in [Runs -> Stages],
         \A q \in Runs : q # t[1] => s[q] = stage[q],
         t[2] = "main" => s[t[1]] \in {"flushing", "flushingLast"},
         Send(t, s), UNCHANGED <<made, out, lost>>
  PROVE  Types' /\ SubscribeOnce' /\ SendEffect(t, t[1], s[t[1]]) /\ \A q \in Runs \ {t[1]} : SameRun(q)
<1> DEFINE r == t[1]
<1>1. r \in Runs /\ (t = Main(r) \/ t = Timer(r)) /\ Main(r) # Timer(r)
  BY TaskFacts
<1>2. \A q \in Runs : q # r => Main(q) # t /\ Timer(q) # t /\ Main(q) \in Tasks /\ Timer(q) \in Tasks
  BY <1>1, TaskFacts
<1>3. CASE /\ at' = [at EXCEPT ![t] = "lock"] /\ stage' = s
           /\ UNCHANGED <<buffer, holder, load, cache>>
  <2>1. Types'
    BY <1>3 DEF IInv, Types, Places
  <2>2. SubscribeOnce'
    BY <1>3 DEF IInv, Types, SubscribeOnce
  <2>3. SendEffect(t, r, s[r])
    BY <1>1, <1>3 DEF SendEffect, IInv, Types
  <2>4. \A q \in Runs \ {r} : SameRun(q)
    BY <1>1, <1>2, <1>3 DEF SameRun, IInv, Types
  <2> QED BY <2>1, <2>2, <2>3, <2>4
<1>4. CASE /\ ~Held(t) /\ buffer[t[1]] = <<>>
           /\ at' = [at EXCEPT ![t] = "off"] /\ stage' = Resumed(t, s)
           /\ UNCHANGED <<buffer, holder, load, cache>>
  <2>1. /\ stage' \in [Runs -> Stages]
        /\ \A q \in Runs : t # Main(q) => stage'[q] = s[q]
        /\ t = Main(r) => stage'[r] = NextStage[s[r]]
    BY <1>4, ResumedType, NextStageFacts
  <2>2. Types'
    BY <1>4, <2>1 DEF IInv, Types, Places
  <2>3. SubscribeOnce'
    BY <1>4 DEF IInv, Types, SubscribeOnce
  <2>4. SendEffect(t, r, s[r])
    BY <1>1, <1>4, <2>1 DEF SendEffect, IInv, Types, Held
  <2>5. \A q \in Runs \ {r} : SameRun(q)
    BY <1>1, <1>2, <1>4, <2>1 DEF SameRun, IInv, Types
  <2> QED BY <2>2, <2>3, <2>4, <2>5
<1>5. CASE /\ ~Held(t) /\ buffer[t[1]] # <<>>
           /\ holder' = [holder EXCEPT ![t[1]] = t] /\ buffer' = TakeBuffer(t[1])
           /\ StartPublish(t, buffer[t[1]]) /\ stage' = s
  <2>1. Types /\ buffer[r] \in Seq(Nat)
    BY <1>1 DEF IInv, Types
  <2>2. /\ at' \in [Tasks -> Places] /\ at'[t] \in Publishing
        /\ \A u \in Tasks \ {t} : at'[u] = at[u]
        /\ load' \in [Tasks -> Seq(Nat)] /\ load'[t] = buffer[r]
        /\ \A u \in Tasks \ {t} : load'[u] = load[u]
        /\ cache' \in {"none", "fresh", "idle"}
    BY <1>5, <2>1, StartType
  <2>3. buffer' = [buffer EXCEPT ![r] = <<>>] /\ holder' = [holder EXCEPT ![r] = t]
    BY <1>5 DEF TakeBuffer
  <2>4. Types'
    BY <1>1, <1>5, <2>2, <2>3 DEF IInv, Types
  <2>5. SubscribeOnce'
    BY <1>5 DEF IInv, Types, SubscribeOnce, StartPublish, ChannelFrom
  <2>6. SendEffect(t, r, s[r])
    BY <1>1, <1>5, <2>2, <2>3 DEF SendEffect, IInv, Types, Held
  <2>7. \A q \in Runs \ {r} : SameRun(q)
    BY <1>1, <1>2, <1>5, <2>2, <2>3 DEF SameRun, IInv, Types
  <2> QED BY <2>4, <2>5, <2>6, <2>7
<1> QED BY <1>3, <1>4, <1>5 DEF Send

LEMMA TimerSendKeeps ==
  ASSUME IInv, NEW r \in Runs, at[Timer(r)] \in {"asleep", "lock"},
         Send(Timer(r), stage), UNCHANGED <<made, out, lost>>
  PROVE  IInv'
<1>1. Timer(r) \in Tasks /\ Timer(r)[1] = r /\ Timer(r)[2] # "main" /\ Main(r) # Timer(r) /\ Main(r) \in Tasks
  BY TaskFacts
<1>2. Types' /\ SubscribeOnce' /\ SendEffect(Timer(r), r, stage[r]) /\ \A q \in Runs \ {r} : SameRun(q)
  BY <1>1, SendCommon DEF IInv, Types
<1>3. StageInv(r) /\ LockInv(r) /\ FlushInv(r) /\ DiscardInv(r)
  BY DEF IInv, RunInv
<1>4. /\ stage'[r] = stage[r] /\ made'[r] = made[r]
      /\ at'[Main(r)] = at[Main(r)] /\ load'[Main(r)] = load[Main(r)]
  BY <1>1, <1>2 DEF SendEffect
<1>5. stage[r] \notin Discarded
  BY <1>3 DEF DiscardInv
<1>6. StageInv(r)' /\ DiscardInv(r)'
  BY <1>3, <1>4, <1>5 DEF StageInv, DiscardInv, Discarded
<1>7. load[Timer(r)] = <<>>
  BY <1>3 DEF LockInv, Publishing
<1>8. LockInv(r)'
  BY <1>1, <1>2, <1>3, <1>4, <1>7, NoneIsNoTask DEF LockInv, SendEffect, Publishing
<1>9. FlushInv(r)'
  BY <1>2, <1>3, <1>4, <1>7 DEF FlushInv, SendEffect
<1> QED BY <1>2, <1>6, <1>8, <1>9, OneRun DEF RunInv

LEMMA MainSendKeeps ==
  ASSUME IInv, NEW r \in Runs, NEW x \in {"flushing", "flushingLast"},
         at[Main(r)] \in {"off", "lock"}, stage[r] \notin Discarded,
         Send(Main(r), [stage EXCEPT ![r] = x]), UNCHANGED <<made, out, lost>>
  PROVE  IInv'
<1> DEFINE s == [stage EXCEPT ![r] = x]
<1>1. Main(r) \in Tasks /\ Main(r)[1] = r /\ Main(r)[2] = "main" /\ Main(r) # Timer(r) /\ Timer(r) \in Tasks
  BY TaskFacts
<1>2. s \in [Runs -> Stages] /\ s[r] = x /\ \A q \in Runs : q # r => s[q] = stage[q]
  BY DEF IInv, Types, Stages
<1>3. Types' /\ SubscribeOnce' /\ SendEffect(Main(r), r, x) /\ \A q \in Runs \ {r} : SameRun(q)
  <2>1. Send(Main(r), s)
    OBVIOUS
  <2> HIDE DEF s
  <2>2. \A q \in Runs : q # Main(r)[1] => s[q] = stage[q]
    BY <1>1, <1>2
  <2>3. Main(r)[2] = "main" => s[Main(r)[1]] \in {"flushing", "flushingLast"}
    BY <1>1, <1>2
  <2>4. /\ Types' /\ SubscribeOnce' /\ SendEffect(Main(r), Main(r)[1], s[Main(r)[1]])
        /\ \A q \in Runs \ {Main(r)[1]} : SameRun(q)
    BY <1>1, <1>2, <2>1, <2>2, <2>3, SendCommon
  <2> QED BY <1>1, <1>2, <2>4
<1> HIDE DEF s
<1>4. StageInv(r) /\ LockInv(r)
  BY DEF IInv, RunInv
<1>5. at'[Timer(r)] = at[Timer(r)] /\ load'[Timer(r)] = load[Timer(r)]
  BY <1>1, <1>3 DEF SendEffect
<1>6. load[Main(r)] = <<>> /\ holder[r] # Main(r)
  BY <1>1, <1>4, NoneIsNoTask DEF LockInv, Publishing
<1>7. NextStage[x] \in {"persisting", "finishing"}
  BY NextStageFacts
<1>8. StageInv(r)'
  BY <1>1, <1>3, <1>7 DEF StageInv, SendEffect
<1>9. LockInv(r)'
  BY <1>1, <1>3, <1>4, <1>5, <1>6, <1>7, NoneIsNoTask DEF LockInv, SendEffect, Publishing
<1>10. FlushInv(r)'
  <2>1. CASE holder[r] = None
    BY <1>1, <1>3, <1>4, <1>5, <2>1, TaskFacts, NoneIsNoTask DEF FlushInv, LockInv, SendEffect
  <2>2. CASE holder[r] # None
    BY <1>3, <2>2 DEF FlushInv, SendEffect
  <2> QED BY <2>1, <2>2
<1>11. DiscardInv(r)'
  BY <1>1, <1>3, <1>7 DEF DiscardInv, SendEffect, Discarded
<1> QED BY <1>3, <1>8, <1>9, <1>10, <1>11, OneRun DEF RunInv

-----------------------------------------------------------------------------
(* run_turn                                                                *)

\* run_turn goes from a stage where it awaits nothing to a publish of its own
\* or to another such stage.
LEMMA StageKeeps ==
  ASSUME IInv, NEW r \in Runs, NEW x \in Stages, stage' = [stage EXCEPT ![r] = x],
         UNCHANGED <<buffer, holder, at, load, made, out, lost, cache>>,
         \/ stage[r] = "finishing" /\ x = "done"
         \/ stage[r] = "failing" /\ x = "failed"
  PROVE  IInv'
<1>1. Types' /\ SubscribeOnce'
  BY DEF IInv, Types, SubscribeOnce
<1>2. \A s \in Runs \ {r} : SameRun(s)
  BY DEF SameRun, IInv, Types
<1>3. stage'[r] = x
  BY DEF IInv, Types
<1>4. RunInv(r)'
  BY <1>3 DEF IInv, RunInv, StageInv, LockInv, FlushInv, DiscardInv, Discarded
<1> QED BY <1>1, <1>2, <1>4, OneRun

LEMMA DeltaKeeps ==
  ASSUME IInv, NEW r \in Runs, Delta(r)
  PROVE  IInv'
<1> DEFINE t == Timer(r)
<1>1. t \in Tasks /\ Main(r) \in Tasks /\ Main(r) # t
  BY TaskFacts
<1>2. /\ stage[r] = "graph" /\ UNCHANGED <<holder, load, stage, out, lost, cache>>
      /\ made' = [made EXCEPT ![r] = @ + 1]
      /\ buffer' = [buffer EXCEPT ![r] = Append(@, made[r] + 1)]
  BY DEF Delta
<1>3. /\ at' \in [Tasks -> Places] /\ at'[t] = IF at[t] = "off" THEN "asleep" ELSE at[t]
      /\ \A u \in Tasks \ {t} : at'[u] = at[u]
  BY <1>1 DEF Delta, IInv, Types, Places
<1>4. buffer' \in [Runs -> Seq(Nat)]
  <2>1. made[r] + 1 \in Nat /\ buffer[r] \in Seq(Nat)
    BY DEF IInv, Types
  <2>2. Append(buffer[r], made[r] + 1) \in Seq(Nat)
    BY <2>1
  <2> QED BY <1>2, <2>2 DEF IInv, Types
<1>5. Types'
  BY <1>2, <1>3, <1>4 DEF IInv, Types
<1>6. SubscribeOnce'
  BY <1>3 DEF IInv, SubscribeOnce
<1>7. \A s \in Runs \ {r} : SameRun(s)
  BY <1>1, <1>2, <1>3, TaskFacts DEF SameRun, IInv, Types
<1>8. RunInv(r)'
  <2>1. StageInv(r) /\ LockInv(r) /\ stage'[r] = "graph" /\ at'[Main(r)] = at[Main(r)]
        /\ holder'[r] = holder[r] /\ load' = load
    BY <1>1, <1>2, <1>3 DEF IInv, RunInv
  <2>2. StageInv(r)' /\ FlushInv(r)' /\ DiscardInv(r)'
    BY <1>2, <2>1 DEF StageInv, FlushInv, DiscardInv, Discarded
  <2>3. LockInv(r)'
    BY <1>2, <1>3, <2>1 DEF LockInv, Publishing
  <2> QED BY <2>2, <2>3 DEF RunInv
<1> QED BY <1>5, <1>6, <1>7, <1>8, OneRun

\* The main coroutine starts a publish of its own.
LEMMA OwnPublishKeeps ==
  ASSUME IInv, NEW r \in Runs, NEW items \in Seq(Nat),
         NEW x \in {"status", "action", "completing", "error"},
         stage' = [stage EXCEPT ![r] = x], made' \in [Runs -> Nat], \A s \in Runs \ {r} : made'[s] = made[s],
         StartPublish(Main(r), items), UNCHANGED <<buffer, holder, out, lost>>,
         \/ stage[r] = "graph" /\ x = "status" /\ items = <<>>
         \/ stage[r] = "persisting" /\ x = "action"
         \/ stage[r] = "finishing" /\ x = "completing"
         \/ stage[r] = "failing" /\ x = "error" /\ items = <<made'[r]>>
  PROVE  IInv'
<1> DEFINE t == Main(r)
<1>1. t \in Tasks /\ Timer(r) \in Tasks /\ Timer(r) # t
  BY TaskFacts
<1>2. /\ at' \in [Tasks -> Places] /\ at'[t] \in Publishing
      /\ \A u \in Tasks \ {t} : at'[u] = at[u]
      /\ load' \in [Tasks -> Seq(Nat)] /\ load'[t] = items
      /\ \A u \in Tasks \ {t} : load'[u] = load[u]
      /\ cache' \in {"none", "fresh", "idle"}
  BY <1>1, StartType DEF IInv
<1>3. Types'
  BY <1>2 DEF IInv, Types, Stages, Discarded
<1>4. SubscribeOnce'
  BY <1>1 DEF IInv, Types, SubscribeOnce, StartPublish, ChannelFrom
<1>5. \A s \in Runs \ {r} : SameRun(s)
  BY <1>1, <1>2, TaskFacts DEF SameRun, IInv, Types
<1>6. RunInv(r)'
  <2>1. StageInv(r) /\ LockInv(r) /\ FlushInv(r) /\ DiscardInv(r) /\ stage'[r] = x
        /\ at'[Timer(r)] = at[Timer(r)] /\ load'[Timer(r)] = load[Timer(r)]
    BY <1>1, <1>2 DEF IInv, Types, RunInv
  <2>2. StageInv(r)' /\ FlushInv(r)' /\ DiscardInv(r)'
    BY <1>2, <2>1 DEF StageInv, FlushInv, DiscardInv, Discarded
  <2>3. LockInv(r)'
    BY <1>2, <2>1 DEF LockInv
  <2> QED BY <2>2, <2>3 DEF RunInv
<1> QED BY <1>3, <1>4, <1>5, <1>6, OneRun

LEMMA StatusKeeps ==
  ASSUME IInv, NEW r \in Runs, Status(r)
  PROVE  IInv'
<1>1. <<>> \in Seq(Nat)
  OBVIOUS
<1> QED BY <1>1, OwnPublishKeeps DEF Status, IInv, Types

LEMMA PublishNextKeeps ==
  ASSUME IInv, NEW r \in Runs, NEW x \in {"action", "completing", "error"}, PublishNext(r, x),
         \/ stage[r] = "persisting" /\ x = "action"
         \/ stage[r] = "finishing" /\ x = "completing"
         \/ stage[r] = "failing" /\ x = "error"
  PROVE  IInv'
<1>1. made' \in [Runs -> Nat] /\ made'[r] = made[r] + 1 /\ \A s \in Runs \ {r} : made'[s] = made[s]
  BY DEF PublishNext, IInv, Types
<1>2. <<made'[r]>> \in Seq(Nat)
  BY <1>1 DEF IInv, Types
<1>3. StartPublish(Main(r), <<made'[r]>>) /\ stage' = [stage EXCEPT ![r] = x]
      /\ UNCHANGED <<buffer, holder, out, lost>>
  BY <1>1 DEF PublishNext
<1> QED BY <1>1, <1>2, <1>3, OwnPublishKeeps

LEMMA DiscardKeeps ==
  ASSUME IInv, NEW r \in Runs, NEW x \in {"dropped", "failing"}, Discard(r),
         stage' = [stage EXCEPT ![r] = x], stage[r] \in {"graph", "persisting", "finishing"}
  PROVE  IInv'
<1> DEFINE t == Timer(r)
<1>1. t \in Tasks /\ Main(r) \in Tasks /\ Main(r) # t /\ t[1] = r
  BY TaskFacts
<1>2. /\ at' \in [Tasks -> Places] /\ at'[t] = "off"
      /\ \A u \in Tasks \ {t} : at'[u] = at[u]
      /\ load' \in [Tasks -> Seq(Nat)] /\ load'[t] = <<>>
      /\ \A u \in Tasks \ {t} : load'[u] = load[u]
  BY <1>1 DEF Discard, Cancelled, IInv, Types, Places
<1>3. buffer' = [buffer EXCEPT ![r] = <<>>] /\ UNCHANGED <<made, lost, cache>>
  BY DEF Discard
<1>4. /\ holder' \in [Runs -> Tasks \cup {None}]
      /\ holder'[r] = IF holder[r] = t THEN None ELSE holder[r]
      /\ \A s \in Runs \ {r} : holder'[s] = holder[s]
  BY DEF Discard, Cancelled, IInv, Types
<1>5. out' \in [Runs -> Seq(Nat)]
  <2>1. [out EXCEPT ![r] = @ \o load[t]] \in [Runs -> Seq(Nat)]
    BY <1>1, SendType DEF IInv
  <2>2. out' = out \/ out' = [out EXCEPT ![r] = @ \o load[t]]
    BY DEF Discard
  <2> QED BY <2>1, <2>2 DEF IInv, Types
<1>6. Types'
  <2>1. stage' \in [Runs -> Stages] /\ buffer' \in [Runs -> Seq(Nat)]
    BY <1>3 DEF IInv, Types, Stages, Discarded
  <2> QED BY <1>2, <1>3, <1>4, <1>5, <2>1 DEF IInv, Types
<1>7. SubscribeOnce'
  BY <1>2 DEF IInv, SubscribeOnce
<1>8. \A s \in Runs \ {r} : SameRun(s)
  BY <1>1, <1>2, <1>3, <1>4, TaskFacts DEF SameRun, IInv, Types
<1>9. RunInv(r)'
  <2>1. StageInv(r) /\ LockInv(r) /\ stage'[r] = x /\ buffer'[r] = <<>>
        /\ at'[Main(r)] = at[Main(r)] /\ load'[Main(r)] = load[Main(r)]
    BY <1>1, <1>2, <1>3 DEF IInv, Types, RunInv
  <2>2. StageInv(r)' /\ FlushInv(r)' /\ DiscardInv(r)'
    BY <1>2, <2>1 DEF StageInv, FlushInv, DiscardInv
  <2>3. LockInv(r)'
    BY <1>1, <1>2, <1>4, <2>1, NoneIsNoTask DEF LockInv, Publishing
  <2> QED BY <2>2, <2>3 DEF RunInv
<1> QED BY <1>6, <1>7, <1>8, <1>9, OneRun

-----------------------------------------------------------------------------
(* The invariant                                                           *)

LEMMA RealtimeInitial == RealtimeInit => IInv
<1> SUFFICES ASSUME RealtimeInit PROVE IInv
  OBVIOUS
<1>1. Types
  BY DEF RealtimeInit, Types, Places, Stages
<1>2. SubscribeOnce
  BY DEF RealtimeInit, SubscribeOnce
<1>3. ASSUME NEW r \in Runs PROVE RunInv(r)
  <2>1. /\ stage[r] = "graph" /\ holder[r] = None /\ buffer[r] = <<>>
        /\ at[Main(r)] = "off" /\ at[Timer(r)] = "off" /\ load[Main(r)] = <<>> /\ load[Timer(r)] = <<>>
    BY TaskFacts DEF RealtimeInit
  <2>2. StageInv(r) /\ FlushInv(r) /\ DiscardInv(r)
    BY <2>1 DEF StageInv, FlushInv, DiscardInv, Discarded
  <2>3. LockInv(r)
    BY <2>1 DEF LockInv, Publishing
  <2> QED BY <2>2, <2>3 DEF RunInv
<1> QED BY <1>1, <1>2, <1>3 DEF IInv

LEMMA RealtimeStep == IInv /\ [RealtimeNext]_realtimeVars => IInv'
<1> SUFFICES ASSUME IInv, [RealtimeNext]_realtimeVars PROVE IInv'
  OBVIOUS
<1>1. ASSUME NEW t \in Tasks, Step(t) PROVE IInv'
  <2>1. CASE GetBatchLock(t)
    <3>1. at[t] = "lock" /\ Send(t, stage) /\ UNCHANGED <<made, out, lost>>
      BY <2>1 DEF GetBatchLock
    <3>2. t[1] \in Runs /\ (t = Main(t[1]) \/ t = Timer(t[1]))
      BY TaskFacts
    <3>3. CASE t = Timer(t[1])
      BY <3>1, <3>2, <3>3, TimerSendKeeps
    <3>4. CASE t = Main(t[1])
      <4>1. stage[t[1]] \in {"flushing", "flushingLast"}
        BY <3>1, <3>2, <3>4 DEF IInv, Types, RunInv, StageInv, Stages, Publishing, Discarded
      <4>2. stage = [stage EXCEPT ![t[1]] = stage[t[1]]]
        BY <3>2 DEF IInv, Types
      <4> QED BY <3>1, <3>2, <3>4, <4>1, <4>2, MainSendKeeps DEF Discarded
    <3> QED BY <3>2, <3>3, <3>4
  <2>2. CASE Evicted(t)
    BY <2>2, EvictedKeeps
  <2>3. CASE GetChannelLock(t)
    BY <2>3, GetChannelLockKeeps
  <2>4. CASE Subscribed(t)
    BY <2>4, SubscribedKeeps
  <2>5. CASE Sent(t)
    BY <2>5, SentKeeps
  <2>6. CASE PublishFails(t)
    BY <2>6, PublishFailsKeeps
  <2> QED BY <1>1, <2>1, <2>2, <2>3, <2>4, <2>5, <2>6 DEF Step
<1>2. ASSUME NEW r \in Runs, BatchTimerFires(r) PROVE IInv'
  BY <1>2, TimerSendKeeps DEF BatchTimerFires
<1>3. ASSUME NEW r \in Runs, RunStep(r) PROVE IInv'
  <2>1. CASE Delta(r)
    BY <2>1, DeltaKeeps
  <2>2. CASE Status(r)
    BY <2>2, StatusKeeps
  <2>3. CASE Action(r)
    <3>1. stage[r] = "graph" /\ at[Main(r)] = "off"
      BY <2>3 DEF Action, IInv, RunInv, StageInv
    <3> QED BY <2>3, <3>1, MainSendKeeps DEF Action, Discarded
  <2>4. CASE Persisted(r)
    BY <2>4, PublishNextKeeps DEF Persisted
  <2>5. CASE Finish(r)
    <3>1. stage[r] = "graph" /\ at[Main(r)] = "off"
      BY <2>5 DEF Finish, IInv, RunInv, StageInv
    <3> QED BY <2>5, <3>1, MainSendKeeps DEF Finish, Discarded
  <2>6. CASE Completed(r)
    BY <2>6, PublishNextKeeps DEF Completed
  <2>7. CASE SupersededAtFinish(r)
    BY <2>7, StageKeeps DEF SupersededAtFinish, Stages
  <2>8. CASE Superseded(r)
    BY <2>8, DiscardKeeps DEF Superseded
  <2>9. CASE GraphFails(r)
    BY <2>9, DiscardKeeps DEF GraphFails
  <2>10. CASE FailureReported(r)
    BY <2>10, PublishNextKeeps DEF FailureReported
  <2>11. CASE FailureUnreported(r)
    BY <2>11, StageKeeps DEF FailureUnreported, Stages, Discarded
  <2> QED BY <1>3, <2>1, <2>2, <2>3, <2>4, <2>5, <2>6, <2>7, <2>8, <2>9, <2>10, <2>11 DEF RunStep
<1>4. CASE ChannelIdles
  BY <1>4, ChannelIdlesKeeps
<1>5. CASE UNCHANGED realtimeVars
  BY <1>5 DEF realtimeVars, IInv, Types, SubscribeOnce, RunInv, StageInv, LockInv, FlushInv, DiscardInv
<1> QED BY <1>1, <1>2, <1>3, <1>4, <1>5 DEF RealtimeNext

LEMMA RealtimeInvariant == RealtimeSpec => []IInv
  BY RealtimeInitial, RealtimeStep, PTL DEF RealtimeSpec

\* Every reachable state has the declared types; text that is being published
\* is in an await of the publisher, and the lock of a batcher is held only by
\* one of its own coroutines while it publishes.
THEOREM RealtimeTypeCorrect == RealtimeSpec => []RealtimeTypeOK
  BY RealtimeInvariant, InvImpliesTypeOK, PTL

\* However many publishes meet an empty cache, one of them subscribes.
THEOREM OneSubscriber == RealtimeSpec => []SubscribeOnce
<1>1. IInv => SubscribeOnce
  BY DEF IInv
<1> QED BY <1>1, RealtimeInvariant, PTL

\* No text of a run is waiting or on its way while one of its whiteboard
\* actions is stored and published, nor while it is completed.
THEOREM EventsFollowTheirText == RealtimeSpec => []FlushedBeforeEvents
<1>1. IInv => FlushedBeforeEvents
  BY DEF IInv, RunInv, FlushInv, FlushedBeforeEvents
<1> QED BY <1>1, RealtimeInvariant, PTL

\* What a step adds to the channel is what some task was sending.
LEMMA WhoSends ==
  ASSUME Types, [RealtimeNext]_realtimeVars, NEW r \in Runs, out'[r] # out[r]
  PROVE  \E t \in {Main(r), Timer(r)} : at[t] = "send" /\ out'[r] = out[r] \o load[t]
<1>1. ASSUME NEW t \in Tasks, Sent(t) \/ PublishFails(t)
      PROVE  t[1] = r /\ at[t] = "send" /\ out'[r] = out[r] \o load[t]
  <2>1. /\ at[t] = "send" \/ out' = out
        /\ out' = out \/ out' = [out EXCEPT ![t[1]] = @ \o load[t]]
    BY <1>1 DEF Sent, PublishFails
  <2>2. out' # out
    OBVIOUS
  <2>3. at[t] = "send" /\ out' = [out EXCEPT ![t[1]] = out[t[1]] \o load[t]]
    BY <2>1, <2>2
  <2>4. t[1] \in Runs /\ DOMAIN out = Runs
    BY TaskFacts DEF Types
  <2>5. t[1] = r
    BY <2>3, <2>4
  <2> QED BY <2>3, <2>4, <2>5
<1>2. ASSUME NEW t \in Tasks, Step(t) PROVE Sent(t) \/ PublishFails(t)
  BY <1>2 DEF Step, GetBatchLock, Evicted, GetChannelLock, Subscribed
<1>3. ASSUME NEW q \in Runs, RunStep(q)
      PROVE  /\ r = q
             /\ at[Timer(q)] = "send" /\ out'[q] = out[q] \o load[Timer(q)]
  <2>1. Superseded(q) \/ GraphFails(q)
    BY <1>3 DEF RunStep, Delta, Status, Action, Persisted, Finish, Completed, SupersededAtFinish,
                FailureReported, FailureUnreported, PublishNext
  <2>2. Discard(q)
    BY <2>1 DEF Superseded, GraphFails
  <2> QED BY <2>2 DEF Discard, Types
<1>4. \/ \E t \in Tasks : Step(t)
      \/ \E q \in Runs : RunStep(q)
  BY DEF RealtimeNext, realtimeVars, BatchTimerFires, ChannelIdles
<1>5. CASE \E t \in Tasks : Step(t)
  <2>1. PICK t \in Tasks : Step(t)
    BY <1>5
  <2>2. t[1] = r /\ at[t] = "send" /\ out'[r] = out[r] \o load[t]
    BY <1>1, <1>2, <2>1
  <2> QED BY <2>2, TaskFacts
<1>6. CASE \E q \in Runs : RunStep(q)
  BY <1>3, <1>6
<1> QED BY <1>4, <1>5, <1>6

\* A run that was superseded or has failed sends nothing but its error.
THEOREM DiscardedRunsAreSilent == RealtimeSpec => DiscardedIsSilent
<1>1. ASSUME IInv, [RealtimeNext]_realtimeVars, NEW r \in Runs, stage[r] \in Discarded, out'[r] # out[r]
      PROVE  stage[r] = "error" /\ out'[r] = Append(out[r], made[r])
  <2>1. PICK t \in {Main(r), Timer(r)} : at[t] = "send" /\ out'[r] = out[r] \o load[t]
    BY <1>1, WhoSends DEF IInv
  <2>2. StageInv(r) /\ DiscardInv(r)
    BY <1>1 DEF IInv, RunInv
  <2>3. t = Main(r) /\ stage[r] = "error" /\ load[t] = <<made[r]>>
    BY <1>1, <2>1, <2>2 DEF StageInv, DiscardInv, Discarded
  <2>4. out[r] \in Seq(Nat) /\ made[r] \in Nat
    BY <1>1 DEF IInv, Types
  <2> QED BY <2>1, <2>3, <2>4
<1>2. IInv /\ [RealtimeNext]_realtimeVars =>
        [\A r \in Runs : stage[r] \in Discarded /\ out'[r] # out[r] =>
           stage[r] = "error" /\ out'[r] = Append(out[r], made[r])]_realtimeVars
  BY <1>1
<1> QED BY <1>2, RealtimeInvariant, PTL DEF RealtimeSpec, DiscardedIsSilent

-----------------------------------------------------------------------------
(* The line of a run: the items that are on the channel, then those one of *)
(* its two coroutines is publishing, then those in the buffer.             *)

Increasing(s) == \A i, j \in 1 .. Len(s) : i < j => s[i] < s[j]
Before(s, t) == \A i \in 1 .. Len(s) : \A j \in 1 .. Len(t) : s[i] < t[j]
UpTo(s, n) == \A i \in 1 .. Len(s) : s[i] <= n

\* o is on the channel, m and k are being published, b is buffered, n is the last.
InLine(o, m, k, b, n) ==
  /\ Increasing(o) /\ Increasing(m) /\ Increasing(k) /\ Increasing(b)
  /\ Before(o, m) /\ Before(o, k) /\ Before(o, b) /\ Before(m, b) /\ Before(k, b)
  /\ UpTo(o, n) /\ UpTo(m, n) /\ UpTo(k, n) /\ UpTo(b, n)
  /\ m = <<>> \/ k = <<>>

RunInLine(r) == InLine(out[r], load[Main(r)], load[Timer(r)], buffer[r], made[r])

OrderInv == \A r \in Runs : RunInLine(r)

-----------------------------------------------------------------------------
(* Sequences in line                                                       *)

LEMMA Elements == \A s \in Seq(Nat) : Len(s) \in Nat /\ \A i \in 1 .. Len(s) : s[i] \in Nat
  BY LenProperties, ElementOfSeq

LEMMA EmptyFits ==
  ASSUME NEW s \in Seq(Nat), NEW n \in Nat
  PROVE  /\ <<>> \in Seq(Nat) /\ Increasing(<<>>) /\ Before(<<>>, s) /\ Before(s, <<>>) /\ UpTo(<<>>, n)
  BY DEF Increasing, Before, UpTo

LEMMA ConcatFacts ==
  ASSUME NEW s \in Seq(Nat), NEW t \in Seq(Nat)
  PROVE  /\ s \o t \in Seq(Nat) /\ Len(s \o t) = Len(s) + Len(t)
         /\ \A i \in 1 .. Len(s \o t) :
              \/ i \in 1 .. Len(s) /\ (s \o t)[i] = s[i]
              \/ i > Len(s) /\ i - Len(s) \in 1 .. Len(t) /\ (s \o t)[i] = t[i - Len(s)]
<1>1. /\ s \o t \in Seq(Nat) /\ Len(s \o t) = Len(s) + Len(t)
      /\ \A i \in 1 .. Len(s) + Len(t) : (s \o t)[i] = IF i <= Len(s) THEN s[i] ELSE t[i - Len(s)]
  BY ConcatProperties
<1>2. Len(s) \in Nat /\ Len(t) \in Nat
  OBVIOUS
<1> QED BY <1>1, <1>2

LEMMA ConcatIncreasing ==
  ASSUME NEW s \in Seq(Nat), NEW t \in Seq(Nat), Increasing(s), Increasing(t), Before(s, t)
  PROVE  Increasing(s \o t)
<1>1. SUFFICES ASSUME NEW i \in 1 .. Len(s \o t), NEW j \in 1 .. Len(s \o t), i < j
               PROVE  (s \o t)[i] < (s \o t)[j]
  BY DEF Increasing
<1>2. /\ i \in 1 .. Len(s) + Len(t) /\ j \in 1 .. Len(s) + Len(t)
      /\ (s \o t)[i] = IF i <= Len(s) THEN s[i] ELSE t[i - Len(s)]
      /\ (s \o t)[j] = IF j <= Len(s) THEN s[j] ELSE t[j - Len(s)]
      /\ Len(s) \in Nat /\ Len(t) \in Nat
  BY ConcatProperties
<1>3. CASE j <= Len(s)
  <2>1. s[i] < s[j]
    BY <1>1, <1>2, <1>3 DEF Increasing
  <2> QED BY <1>1, <1>2, <1>3, <2>1
<1>4. CASE i <= Len(s) /\ ~(j <= Len(s))
  <2>1. s[i] < t[j - Len(s)]
    BY <1>2, <1>4 DEF Before
  <2> QED BY <1>2, <1>4, <2>1
<1>5. CASE ~(i <= Len(s)) /\ ~(j <= Len(s))
  <2> DEFINE x == i - Len(s)
             y == j - Len(s)
  <2>1. x \in 1 .. Len(t) /\ y \in 1 .. Len(t) /\ x < y
    BY <1>1, <1>2, <1>5
  <2> HIDE DEF x, y
  <2>2. t[x] < t[y]
    BY <2>1 DEF Increasing
  <2> USE DEF x, y
  <2> QED BY <1>2, <1>5, <2>2
<1> QED BY <1>1, <1>2, <1>3, <1>4, <1>5

LEMMA ConcatBefore ==
  ASSUME NEW s \in Seq(Nat), NEW t \in Seq(Nat), NEW u \in Seq(Nat), Before(s, u), Before(t, u)
  PROVE  Before(s \o t, u)
<1> DEFINE c == s \o t
<1>1. SUFFICES ASSUME NEW i \in 1 .. Len(c), NEW j \in 1 .. Len(u) PROVE c[i] < u[j]
  BY DEF Before
<1>2. \/ i \in 1 .. Len(s) /\ c[i] = s[i]
      \/ i - Len(s) \in 1 .. Len(t) /\ c[i] = t[i - Len(s)]
  BY ConcatFacts
<1> QED BY <1>2 DEF Before

LEMMA ConcatUpTo ==
  ASSUME NEW s \in Seq(Nat), NEW t \in Seq(Nat), NEW n \in Nat, UpTo(s, n), UpTo(t, n)
  PROVE  UpTo(s \o t, n)
  BY ConcatFacts DEF UpTo

\* What the main coroutine or the timer was publishing reaches the channel.
LEMMA LineSends ==
  ASSUME NEW o \in Seq(Nat), NEW m \in Seq(Nat), NEW k \in Seq(Nat), NEW b \in Seq(Nat), NEW n \in Nat,
         InLine(o, m, k, b, n)
  PROVE  InLine(o \o m, <<>>, k, b, n) /\ InLine(o \o k, m, <<>>, b, n)
<1>1. /\ o \o m \in Seq(Nat) /\ Increasing(o \o m) /\ Before(o \o m, b) /\ UpTo(o \o m, n)
      /\ o \o k \in Seq(Nat) /\ Increasing(o \o k) /\ Before(o \o k, b) /\ UpTo(o \o k, n)
  BY ConcatFacts, ConcatIncreasing, ConcatBefore, ConcatUpTo DEF InLine
<1>2. Before(o \o m, k) /\ Before(o \o k, m)
  <2>1. Before(m, k) /\ Before(k, m)
    BY EmptyFits DEF InLine
  <2> QED BY <2>1, ConcatBefore DEF InLine
<1> QED BY <1>1, <1>2, EmptyFits DEF InLine

\* A publish is over without reaching the channel.
LEMMA LineLoses ==
  ASSUME NEW o \in Seq(Nat), NEW m \in Seq(Nat), NEW k \in Seq(Nat), NEW b \in Seq(Nat), NEW n \in Nat,
         InLine(o, m, k, b, n)
  PROVE  InLine(o, <<>>, k, b, n) /\ InLine(o, m, <<>>, b, n) /\ InLine(o, m, k, <<>>, n)
  BY EmptyFits DEF InLine

\* The buffer is taken for a publish.
LEMMA LineTakes ==
  ASSUME NEW o \in Seq(Nat), NEW b \in Seq(Nat), NEW n \in Nat, InLine(o, <<>>, <<>>, b, n)
  PROVE  InLine(o, b, <<>>, <<>>, n) /\ InLine(o, <<>>, b, <<>>, n)
  BY EmptyFits DEF InLine

\* The run produces an item: it is buffered, or published at once when nothing waits.
LEMMA LineGrows ==
  ASSUME NEW o \in Seq(Nat), NEW m \in Seq(Nat), NEW k \in Seq(Nat), NEW b \in Seq(Nat), NEW n \in Nat,
         InLine(o, m, k, b, n)
  PROVE  /\ InLine(o, m, k, Append(b, n + 1), n + 1)
         /\ m = <<>> /\ k = <<>> /\ b = <<>> => InLine(o, <<n + 1>>, <<>>, <<>>, n + 1)
<1> DEFINE c == Append(b, n + 1)
<1>1. /\ c \in Seq(Nat) /\ <<n + 1>> \in Seq(Nat)
      /\ Len(c) = Len(b) + 1 /\ Len(b) \in Nat /\ c[Len(b) + 1] = n + 1
      /\ \A i \in 1 .. Len(b) : c[i] = b[i]
  <2>1. n + 1 \in Nat
    OBVIOUS
  <2> QED BY <2>1, AppendProperties
<1>2. \A i \in 1 .. Len(c) : (i \in 1 .. Len(b) /\ c[i] = b[i]) \/ (i = Len(b) + 1 /\ c[i] = n + 1)
  <2> HIDE DEF c
  <2> QED BY <1>1, SMTT(30)
<1> HIDE DEF c
<1>3. ASSUME NEW s \in Seq(Nat), UpTo(s, n) PROVE UpTo(s, n + 1)
  <2>1. ASSUME NEW i \in 1 .. Len(s) PROVE s[i] <= n + 1
    <3>1. s[i] \in Nat /\ s[i] <= n
      BY <1>3, Elements DEF UpTo
    <3> QED BY <3>1
  <2> QED BY <2>1 DEF UpTo
<1>4. UpTo(c, n + 1)
  <2>1. UpTo(b, n + 1)
    BY <1>3 DEF InLine
  <2>2. n + 1 <= n + 1
    OBVIOUS
  <2> QED BY <1>2, <2>1, <2>2 DEF UpTo
<1>5. ASSUME NEW s \in Seq(Nat), Before(s, b), UpTo(s, n) PROVE Before(s, c)
  <2>1. ASSUME NEW i \in 1 .. Len(s) PROVE s[i] < n + 1
    <3>1. s[i] \in Nat /\ s[i] <= n
      BY <1>5, Elements DEF UpTo
    <3> QED BY <3>1
  <2> QED BY <1>2, <1>5, <2>1 DEF Before
<1>6. Increasing(c)
  <2>1. SUFFICES ASSUME NEW i \in 1 .. Len(c), NEW j \in 1 .. Len(c), i < j PROVE c[i] < c[j]
    BY DEF Increasing
  <2>2. i \in 1 .. Len(b) /\ c[i] = b[i]
    BY <1>1, <1>2, <2>1, SMTT(30)
  <2>3. CASE j \in 1 .. Len(b) /\ c[j] = b[j]
    BY <2>1, <2>2, <2>3 DEF InLine, Increasing
  <2>4. CASE c[j] = n + 1
    <3>1. b[i] \in Nat /\ b[i] <= n
      BY <2>2, Elements DEF InLine, UpTo
    <3> QED BY <2>2, <2>4, <3>1
  <2> QED BY <1>2, <2>3, <2>4
<1>7. InLine(o, m, k, c, n + 1)
  BY <1>3, <1>4, <1>5, <1>6 DEF InLine
<1>8. ASSUME m = <<>>, k = <<>>, b = <<>> PROVE c = <<n + 1>>
  BY <1>8 DEF c
<1>9. m = <<>> /\ k = <<>> /\ b = <<>> => InLine(o, <<n + 1>>, <<>>, <<>>, n + 1)
  <2>1. SUFFICES ASSUME m = <<>>, k = <<>>, b = <<>> PROVE InLine(o, c, <<>>, <<>>, n + 1)
    BY <1>8
  <2>2. InLine(o, <<>>, <<>>, c, n + 1)
    BY <1>7, <2>1
  <2> QED BY <1>1, <2>2, EmptyFits DEF InLine
<1> QED BY <1>7, <1>9 DEF c

-----------------------------------------------------------------------------
(* The steps                                                               *)

LEMMA LineTypes ==
  ASSUME Types, NEW r \in Runs
  PROVE  /\ out[r] \in Seq(Nat) /\ load[Main(r)] \in Seq(Nat) /\ load[Timer(r)] \in Seq(Nat)
         /\ buffer[r] \in Seq(Nat) /\ made[r] \in Nat
  BY TaskFacts DEF Types

LEMMA SameLine ==
  ASSUME NEW r \in Runs, RunInLine(r),
         out'[r] = out[r], buffer'[r] = buffer[r], made'[r] = made[r],
         load'[Main(r)] = load[Main(r)], load'[Timer(r)] = load[Timer(r)]
  PROVE  RunInLine(r)'
  BY DEF RunInLine

LEMMA EndPublishInLine ==
  ASSUME IInv, OrderInv, NEW t \in Tasks, EndPublish(t),
         out' = out \/ out' = [out EXCEPT ![t[1]] = @ \o load[t]]
  PROVE  OrderInv'
<1> DEFINE r == t[1]
<1>1. r \in Runs /\ (t = Main(r) \/ t = Timer(r)) /\ Main(r) # Timer(r) /\ Main(r) \in Tasks /\ Timer(r) \in Tasks
  BY TaskFacts
<1>2. load' = [load EXCEPT ![t] = <<>>] /\ UNCHANGED <<buffer, made>>
  BY DEF EndPublish
<1>3. DOMAIN load = Tasks /\ DOMAIN out = Runs
  BY DEF IInv, Types
<1>4. ASSUME NEW q \in Runs \ {r} PROVE RunInLine(q)'
  <2>1. out'[q] = out[q]
    BY <1>1, <1>3
  <2>2. Main(q) # t /\ Timer(q) # t /\ Main(q) \in Tasks /\ Timer(q) \in Tasks
    BY <1>1, TaskFacts
  <2> QED BY <1>2, <1>3, <2>1, <2>2, SameLine DEF OrderInv
<1>5. RunInLine(r)'
  <2>1. InLine(out[r], load[Main(r)], load[Timer(r)], buffer[r], made[r])
    BY <1>1 DEF OrderInv, RunInLine
  <2>2. out'[r] = out[r] \/ out'[r] = out[r] \o load[t]
    BY <1>1, <1>3
  <2>3. load'[t] = <<>> /\ buffer'[r] = buffer[r] /\ made'[r] = made[r]
    BY <1>2, <1>3
  <2>4. t = Main(r) => load'[Timer(r)] = load[Timer(r)]
    BY <1>1, <1>2, <1>3
  <2>5. t = Timer(r) => load'[Main(r)] = load[Main(r)]
    BY <1>1, <1>2, <1>3
  <2> HIDE DEF r
  <2>6. /\ InLine(out[r] \o load[Main(r)], <<>>, load[Timer(r)], buffer[r], made[r])
        /\ InLine(out[r] \o load[Timer(r)], load[Main(r)], <<>>, buffer[r], made[r])
        /\ InLine(out[r], <<>>, load[Timer(r)], buffer[r], made[r])
        /\ InLine(out[r], load[Main(r)], <<>>, buffer[r], made[r])
    BY <1>1, <2>1, LineTypes, LineSends, LineLoses DEF IInv
  <2> QED BY <1>1, <2>2, <2>3, <2>4, <2>5, <2>6 DEF RunInLine
<1> QED BY <1>4, <1>5 DEF OrderInv

LEMMA SendInLine ==
  ASSUME IInv, OrderInv, NEW t \in Tasks, NEW s, Send(t, s), UNCHANGED <<made, out, lost>>,
         at[t] \in {"off", "asleep", "lock"}
  PROVE  OrderInv'
<1> DEFINE r == t[1]
<1>1. r \in Runs /\ (t = Main(r) \/ t = Timer(r)) /\ Main(r) # Timer(r) /\ Main(r) \in Tasks /\ Timer(r) \in Tasks
  BY TaskFacts
<1>2. CASE UNCHANGED <<buffer, load>>
  BY <1>2, SameLine DEF OrderInv
<1>3. CASE ~Held(t) /\ buffer[r] # <<>> /\ buffer' = TakeBuffer(r) /\ StartPublish(t, buffer[r])
  <2>1. load' = [load EXCEPT ![t] = buffer[r]] /\ buffer' = [buffer EXCEPT ![r] = <<>>]
    BY <1>3 DEF StartPublish, TakeBuffer
  <2>2. DOMAIN load = Tasks /\ DOMAIN buffer = Runs
    BY DEF IInv, Types
  <2>3. ASSUME NEW q \in Runs \ {r} PROVE RunInLine(q)'
    <3>1. buffer'[q] = buffer[q]
      BY <1>1, <2>1, <2>2
    <3>2. Main(q) # t /\ Timer(q) # t /\ Main(q) \in Tasks /\ Timer(q) \in Tasks
      BY <1>1, TaskFacts
    <3> QED BY <2>1, <2>2, <3>1, <3>2, SameLine DEF OrderInv
  <2>4. load[t] = <<>>
    BY <1>1 DEF IInv, RunInv, LockInv, Publishing
  <2>5. load[Main(r)] = <<>> /\ load[Timer(r)] = <<>>
    <3>1. StageInv(r) /\ LockInv(r) /\ FlushInv(r) /\ DiscardInv(r) /\ stage[r] \in Stages
      BY <1>1 DEF IInv, Types, RunInv
    <3>2. holder[r] = None
      BY <1>3 DEF Held
    <3>3. load[Timer(r)] = <<>>
      BY <1>1, <3>1, <3>2, NoneIsNoTask DEF LockInv
    <3>4. stage[r] \notin {"persisting", "action", "finishing", "completing", "done"}
      BY <1>3, <3>1 DEF FlushInv
    <3>5. stage[r] \notin Discarded
      BY <1>3, <3>1 DEF DiscardInv
    <3>6. stage[r] \in {"graph", "status", "flushing", "flushingLast"}
      BY <3>1, <3>4, <3>5 DEF Stages
    <3>7. CASE stage[r] = "status"
      BY <3>1, <3>3, <3>7 DEF DiscardInv
    <3>8. CASE stage[r] = "graph"
      BY <3>1, <3>3, <3>8 DEF StageInv, LockInv, Publishing
    <3>9. CASE stage[r] \in {"flushing", "flushingLast"}
      <4>1. at[Main(r)] \notin Publishing
        BY <1>1, <3>1, <3>2, <3>9, NoneIsNoTask DEF LockInv
      <4> QED BY <3>1, <3>3, <4>1 DEF LockInv
    <3> QED BY <3>6, <3>7, <3>8, <3>9
  <2>6. InLine(out[r], <<>>, <<>>, buffer[r], made[r])
    BY <1>1, <2>5 DEF OrderInv, RunInLine
  <2>7. /\ InLine(out[r], buffer[r], <<>>, <<>>, made[r])
        /\ InLine(out[r], <<>>, buffer[r], <<>>, made[r])
    BY <1>1, <2>6, LineTypes, LineTakes DEF IInv
  <2>8. load'[t] = buffer[r] /\ buffer'[r] = <<>> /\ out'[r] = out[r] /\ made'[r] = made[r]
    BY <1>1, <2>1, <2>2
  <2>9. \A u \in Tasks \ {t} : load'[u] = load[u]
    BY <2>1, <2>2
  <2>10. RunInLine(r)'
    BY <1>1, <2>5, <2>7, <2>8, <2>9 DEF RunInLine
  <2> QED BY <2>3, <2>10 DEF OrderInv
<1> QED BY <1>2, <1>3 DEF Send

LEMMA DiscardInLine ==
  ASSUME IInv, OrderInv, NEW r \in Runs, Discard(r)
  PROVE  OrderInv'
<1> DEFINE t == Timer(r)
<1>1. t \in Tasks /\ Main(r) \in Tasks /\ Main(r) # t /\ t[1] = r
  BY TaskFacts
<1>2. /\ load'[t] = <<>> /\ \A u \in Tasks \ {t} : load'[u] = load[u]
      /\ buffer' = [buffer EXCEPT ![r] = <<>>] /\ made' = made
      /\ out' = out \/ out' = [out EXCEPT ![r] = @ \o load[t]]
  BY <1>1 DEF Discard, Cancelled
<1>3. DOMAIN out = Runs /\ DOMAIN buffer = Runs
  BY DEF IInv, Types
<1>4. ASSUME NEW q \in Runs \ {r} PROVE RunInLine(q)'
  <2>1. out'[q] = out[q] /\ buffer'[q] = buffer[q]
    BY <1>2, <1>3
  <2>2. Main(q) # t /\ Timer(q) # t /\ Main(q) \in Tasks /\ Timer(q) \in Tasks
    BY <1>1, TaskFacts
  <2> QED BY <1>2, <2>1, <2>2, SameLine DEF OrderInv
<1>5. RunInLine(r)'
  <2>1. InLine(out[r], load[Main(r)], load[t], buffer[r], made[r])
    BY DEF OrderInv, RunInLine
  <2>2. out[r] \o load[t] \in Seq(Nat)
    BY LineTypes, ConcatProperties DEF IInv
  <2>3. /\ InLine(out[r] \o load[t], load[Main(r)], <<>>, buffer[r], made[r])
        /\ InLine(out[r], load[Main(r)], <<>>, buffer[r], made[r])
    BY <2>1, LineTypes, LineSends, LineLoses DEF IInv
  <2>4. /\ InLine(out[r] \o load[t], load[Main(r)], <<>>, <<>>, made[r])
        /\ InLine(out[r], load[Main(r)], <<>>, <<>>, made[r])
    BY <2>2, <2>3, LineTypes, LineLoses, EmptySeq DEF IInv
  <2>5. /\ out'[r] = out[r] \/ out'[r] = out[r] \o load[t]
        /\ buffer'[r] = <<>> /\ made'[r] = made[r] /\ load'[Main(r)] = load[Main(r)] /\ load'[t] = <<>>
    BY <1>1, <1>2, <1>3
  <2> QED BY <2>4, <2>5 DEF RunInLine
<1> QED BY <1>4, <1>5 DEF OrderInv

LEMMA DeltaInLine ==
  ASSUME IInv, OrderInv, NEW r \in Runs, Delta(r)
  PROVE  OrderInv'
<1>1. /\ made' = [made EXCEPT ![r] = @ + 1] /\ buffer' = [buffer EXCEPT ![r] = Append(@, made[r] + 1)]
      /\ UNCHANGED <<load, out>>
  BY DEF Delta
<1>2. DOMAIN made = Runs /\ DOMAIN buffer = Runs
  BY DEF IInv, Types
<1>3. ASSUME NEW q \in Runs \ {r} PROVE RunInLine(q)'
  BY <1>1, <1>2, SameLine DEF OrderInv
<1>4. RunInLine(r)'
  <2>1. InLine(out[r], load[Main(r)], load[Timer(r)], Append(buffer[r], made[r] + 1), made[r] + 1)
    BY LineTypes, LineGrows DEF OrderInv, RunInLine, IInv
  <2>2. buffer'[r] = Append(buffer[r], made[r] + 1) /\ made'[r] = made[r] + 1
    BY <1>1, <1>2
  <2> QED BY <1>1, <2>1, <2>2 DEF RunInLine
<1> QED BY <1>3, <1>4 DEF OrderInv

LEMMA StatusInLine ==
  ASSUME IInv, OrderInv, NEW r \in Runs, Status(r)
  PROVE  OrderInv'
<1>1. load' = [load EXCEPT ![Main(r)] = <<>>] /\ UNCHANGED <<buffer, made, out>>
  BY DEF Status, StartPublish
<1>2. load[Main(r)] = <<>>
  BY DEF Status, IInv, RunInv, StageInv, LockInv, Publishing
<1>3. load' = load
  BY <1>1, <1>2 DEF IInv, Types
<1> QED BY <1>1, <1>3, SameLine DEF OrderInv

\* An event is published when nothing of its run waits or is on its way.
LEMMA PublishNextInLine ==
  ASSUME IInv, OrderInv, NEW r \in Runs, NEW x, PublishNext(r, x),
         stage[r] \in {"persisting", "finishing", "failing"}
  PROVE  OrderInv'
<1> DEFINE t == Main(r)
<1>1. t \in Tasks /\ Timer(r) \in Tasks /\ Timer(r) # t
  BY TaskFacts
<1>2. /\ made' = [made EXCEPT ![r] = @ + 1] /\ load' = [load EXCEPT ![t] = <<made[r] + 1>>]
      /\ UNCHANGED <<buffer, out>>
  BY DEF PublishNext, StartPublish
<1>3. DOMAIN made = Runs /\ DOMAIN load = Tasks
  BY DEF IInv, Types
<1>4. ASSUME NEW q \in Runs \ {r} PROVE RunInLine(q)'
  <2>1. made'[q] = made[q]
    BY <1>2, <1>3
  <2>2. Main(q) # t /\ Timer(q) # t /\ Main(q) \in Tasks /\ Timer(q) \in Tasks
    BY TaskFacts
  <2> QED BY <1>2, <1>3, <2>1, <2>2, SameLine DEF OrderInv
<1>5. RunInLine(r)'
  <2>1. load[t] = <<>> /\ load[Timer(r)] = <<>> /\ buffer[r] = <<>>
    <3>1. StageInv(r) /\ LockInv(r) /\ FlushInv(r) /\ DiscardInv(r)
      BY DEF IInv, RunInv
    <3>2. load[t] = <<>>
      BY <3>1 DEF StageInv, LockInv, Publishing
    <3>3. CASE stage[r] = "failing"
      BY <3>1, <3>2, <3>3 DEF DiscardInv, LockInv, Discarded, Publishing
    <3>4. CASE stage[r] \in {"persisting", "finishing"}
      BY <3>1, <3>2, <3>4 DEF FlushInv
    <3> QED BY <3>3, <3>4
  <2>2. InLine(out[r], <<made[r] + 1>>, <<>>, <<>>, made[r] + 1)
    <3>1. InLine(out[r], load[t], load[Timer(r)], buffer[r], made[r])
      BY DEF OrderInv, RunInLine
    <3> QED BY <2>1, <3>1, LineTypes, LineGrows DEF IInv
  <2>3. /\ load'[t] = <<made[r] + 1>> /\ load'[Timer(r)] = <<>> /\ buffer'[r] = <<>>
        /\ out'[r] = out[r] /\ made'[r] = made[r] + 1
    BY <1>1, <1>2, <1>3, <2>1
  <2> QED BY <2>2, <2>3 DEF RunInLine
<1> QED BY <1>4, <1>5 DEF OrderInv

-----------------------------------------------------------------------------
(* The theorem                                                             *)

LEMMA OrderInit == RealtimeInit => OrderInv
<1> SUFFICES ASSUME RealtimeInit, NEW r \in Runs PROVE RunInLine(r)
  BY DEF OrderInv
<1>1. out[r] = <<>> /\ load[Main(r)] = <<>> /\ load[Timer(r)] = <<>> /\ buffer[r] = <<>> /\ made[r] = 0
  BY TaskFacts DEF RealtimeInit
<1>2. InLine(<<>>, <<>>, <<>>, <<>>, 0)
  BY EmptySeq DEF InLine, Increasing, Before, UpTo
<1> QED BY <1>1, <1>2 DEF RunInLine

LEMMA OrderStep == IInv /\ OrderInv /\ [RealtimeNext]_realtimeVars => OrderInv'
<1> SUFFICES ASSUME IInv, OrderInv, [RealtimeNext]_realtimeVars PROVE OrderInv'
  OBVIOUS
<1>1. ASSUME UNCHANGED <<out, load, buffer, made>> PROVE OrderInv'
  BY <1>1, SameLine DEF OrderInv
<1>2. ASSUME NEW t \in Tasks, Step(t) PROVE OrderInv'
  <2>1. CASE GetBatchLock(t)
    BY <2>1, SendInLine DEF GetBatchLock
  <2>2. CASE Evicted(t) \/ GetChannelLock(t) \/ Subscribed(t)
    BY <1>1, <2>2 DEF Evicted, GetChannelLock, Subscribed
  <2>3. CASE Sent(t)
    BY <2>3, EndPublishInLine DEF Sent
  <2>4. CASE PublishFails(t)
    BY <2>4, EndPublishInLine DEF PublishFails
  <2> QED BY <1>2, <2>1, <2>2, <2>3, <2>4 DEF Step
<1>3. ASSUME NEW r \in Runs, BatchTimerFires(r) PROVE OrderInv'
  BY <1>3, TaskFacts, SendInLine DEF BatchTimerFires
<1>4. ASSUME NEW r \in Runs, RunStep(r) PROVE OrderInv'
  <2>1. CASE Delta(r)
    BY <2>1, DeltaInLine
  <2>2. CASE Status(r)
    BY <2>2, StatusInLine
  <2>3. CASE Action(r) \/ Finish(r)
    <3>1. stage[r] = "graph" /\ at[Main(r)] = "off"
      BY <2>3 DEF Action, Finish, IInv, RunInv, StageInv
    <3>2. PICK s : Send(Main(r), s) /\ UNCHANGED <<made, out, lost>>
      BY <2>3 DEF Action, Finish
    <3> QED BY <3>1, <3>2, TaskFacts, SendInLine
  <2>4. CASE Persisted(r) \/ Completed(r) \/ FailureReported(r)
    BY <2>4, PublishNextInLine DEF Persisted, Completed, FailureReported
  <2>5. CASE SupersededAtFinish(r) \/ FailureUnreported(r)
    BY <1>1, <2>5 DEF SupersededAtFinish, FailureUnreported
  <2>6. CASE Superseded(r) \/ GraphFails(r)
    BY <2>6, DiscardInLine DEF Superseded, GraphFails
  <2> QED BY <1>4, <2>1, <2>2, <2>3, <2>4, <2>5, <2>6 DEF RunStep
<1>5. CASE ChannelIdles \/ UNCHANGED realtimeVars
  BY <1>1, <1>5 DEF ChannelIdles, realtimeVars
<1> QED BY <1>2, <1>3, <1>4, <1>5 DEF RealtimeNext

\* What a run publishes reaches the channel in the order the run produced it,
\* although its timer and its main coroutine publish concurrently, publishes fail,
\* the timer is cancelled and the channel is evicted and subscribed again.
THEOREM PublishedInOrder == RealtimeSpec => []ProductionOrder
<1>1. IInv /\ OrderInv => ProductionOrder
  <2> SUFFICES ASSUME IInv, OrderInv, NEW r \in Runs,
                      NEW i \in DOMAIN out[r], NEW j \in DOMAIN out[r], i < j
               PROVE  out[r][i] < out[r][j]
    BY DEF ProductionOrder
  <2>1. Increasing(out[r]) /\ DOMAIN out[r] = 1 .. Len(out[r])
    BY LineTypes, LenProperties DEF OrderInv, RunInLine, InLine, IInv
  <2> QED BY <2>1 DEF Increasing
<1>2. RealtimeSpec => []OrderInv
  BY OrderInit, OrderStep, RealtimeInvariant, PTL DEF RealtimeSpec
<1> QED BY <1>1, <1>2, RealtimeInvariant, PTL
-----------------------------------------------------------------------------
(* Nothing is forgotten                                                    *)

Kept(r) == Range(out[r]) \cup lost[r] \cup Range(buffer[r])
             \cup Range(load[Main(r)]) \cup Range(load[Timer(r)])

RunKept(r) == stage[r] \notin Discarded => 1 .. made[r] = Kept(r)

LEMMA RangeFacts ==
  ASSUME NEW s \in Seq(Nat), NEW t \in Seq(Nat), NEW x \in Nat
  PROVE  /\ Range(<<>>) = {} /\ Range(<<x>>) = {x}
         /\ Range(s \o t) = Range(s) \cup Range(t)
         /\ Range(Append(s, x)) = Range(s) \cup {x}
<1>1. Range(<<>>) = {} /\ Range(<<x>>) = {x}
  BY DEF Range
<1>2. Range(s \o t) = Range(s) \cup Range(t)
  BY RangeConcatenation
<1>3. Range(Append(s, x)) = Range(s) \cup {x}
  <2>1. /\ Len(Append(s, x)) = Len(s) + 1 /\ Len(s) \in Nat
        /\ DOMAIN Append(s, x) = 1 .. Len(s) + 1 /\ DOMAIN s = 1 .. Len(s)
        /\ Append(s, x)[Len(s) + 1] = x /\ \A i \in 1 .. Len(s) : Append(s, x)[i] = s[i]
    BY AppendProperties, LenProperties
  <2>2. 1 .. Len(s) + 1 = 1 .. Len(s) \cup {Len(s) + 1}
    BY <2>1
  <2> QED BY <2>1, <2>2 DEF Range
<1> QED BY <1>1, <1>2, <1>3

\* A step that leaves a run alone, or only what waits where.
LEMMA SameKept ==
  ASSUME NEW r \in Runs, RunKept(r), stage'[r] \notin Discarded => stage[r] \notin Discarded,
         made'[r] = made[r], Kept(r)' = Kept(r)
  PROVE  RunKept(r)'
  BY DEF RunKept

LEMMA EndPublishKept ==
  ASSUME IInv, NEW t \in Tasks, EndPublish(t), at[t] \in Publishing,
         \/ UNCHANGED lost /\ out' = [out EXCEPT ![t[1]] = @ \o load[t]]
         \/ /\ lost' = [lost EXCEPT ![t[1]] = @ \cup Range(load[t])]
            /\ out' = out \/ out' = [out EXCEPT ![t[1]] = @ \o load[t]],
         NEW q \in Runs, RunKept(q)
  PROVE  RunKept(q)'
<1> DEFINE r == t[1]
<1>1. r \in Runs /\ (t = Main(r) \/ t = Timer(r)) /\ Main(r) # Timer(r) /\ Main(q) \in Tasks /\ Timer(q) \in Tasks
  BY TaskFacts
<1>2. load' = [load EXCEPT ![t] = <<>>] /\ UNCHANGED <<buffer, made>> /\ stage' = Resumed(t, stage)
  BY DEF EndPublish
<1>3. DOMAIN load = Tasks /\ DOMAIN out = Runs /\ DOMAIN lost = Runs /\ stage \in [Runs -> Stages]
  BY DEF IInv, Types
<1>4. stage'[q] \notin Discarded => stage[q] \notin Discarded
  <2>1. CASE t # Main(q)
    <3>1. t[2] # "main" \/ t[1] # q
      BY <2>1, TaskFacts
    <3> QED BY <1>2, <1>3, <3>1 DEF Resumed
  <2>2. CASE t = Main(q)
    <3>1. t[2] = "main" /\ t[1] = q
      BY <2>2, TaskFacts
    <3>2. stage[q] \in DOMAIN NextStage
      <4>1. StageInv(q) /\ stage[q] \in Stages
        BY DEF IInv, Types, RunInv
      <4> QED BY <2>2, <4>1, NextStageFacts DEF StageInv, Stages, Publishing, Discarded
    <3>3. stage'[q] = NextStage[stage[q]]
      BY <1>2, <1>3, <3>1 DEF Resumed
    <3> QED BY <3>2, <3>3, NextStageFacts DEF Discarded
  <2> QED BY <2>1, <2>2
<1>5. CASE q # r
  <2>1. out'[q] = out[q] /\ lost'[q] = lost[q]
    BY <1>3, <1>5
  <2>2. load'[Main(q)] = load[Main(q)] /\ load'[Timer(q)] = load[Timer(q)]
    BY <1>1, <1>2, <1>3, <1>5, TaskFacts
  <2>3. Kept(q)' = Kept(q)
    BY <1>2, <2>1, <2>2 DEF Kept
  <2> QED BY <1>2, <1>4, <2>3, SameKept
<1>6. CASE q = r
  <2>1. Range(<<>>) = {} /\ Range(out[q] \o load[t]) = Range(out[q]) \cup Range(load[t])
    BY <1>1, RangeFacts DEF IInv, Types
  <2>2. \/ lost'[q] = lost[q] /\ out'[q] = out[q] \o load[t]
        \/ lost'[q] = lost[q] \cup Range(load[t]) /\ (out'[q] = out[q] \/ out'[q] = out[q] \o load[t])
    BY <1>3, <1>6
  <2>3. load'[t] = <<>> /\ \A u \in Tasks \ {t} : load'[u] = load[u]
    BY <1>2, <1>3
  <2>4. \/ t = Main(q) /\ load'[Timer(q)] = load[Timer(q)]
        \/ t = Timer(q) /\ load'[Main(q)] = load[Main(q)]
    BY <1>1, <1>6, <2>3
  <2>5. Range(load'[t]) = {}
    BY <2>1, <2>3
  <2>6. Range(out'[q]) \cup lost'[q] \cup Range(load'[t]) = Range(out[q]) \cup lost[q] \cup Range(load[t])
    BY <2>1, <2>2, <2>5
  <2>7. Kept(q)' = Kept(q)
    <3> HIDE DEF r
    <3> QED BY <1>2, <2>4, <2>6 DEF Kept
  <2> QED BY <1>2, <1>4, <2>7, SameKept
<1> QED BY <1>5, <1>6

LEMMA SendKept ==
  ASSUME IInv, NEW t \in Tasks, NEW s \in [Runs -> Stages], Send(t, s), UNCHANGED <<made, out, lost>>,
         at[t] \in {"off", "asleep", "lock"},
         \A q \in Runs : s[q] \notin Discarded => stage[q] \notin Discarded,
         t[2] = "main" => s[t[1]] \in {"flushing", "flushingLast"},
         NEW q \in Runs, RunKept(q)
  PROVE  RunKept(q)'
<1> DEFINE r == t[1]
<1>1. r \in Runs /\ (t = Main(r) \/ t = Timer(r)) /\ Main(r) # Timer(r) /\ Main(q) \in Tasks /\ Timer(q) \in Tasks
  BY TaskFacts
<1>2. stage'[q] \notin Discarded => stage[q] \notin Discarded
  <2>1. CASE stage' = s
    BY <2>1
  <2>2. CASE stage' = Resumed(t, s)
    <3>1. Resumed(t, s) = s \/ (t[2] = "main" /\ Resumed(t, s) = [s EXCEPT ![r] = NextStage[s[r]]])
      BY DEF Resumed
    <3>2. CASE t[2] = "main" /\ stage' = [s EXCEPT ![r] = NextStage[s[r]]] /\ q = r
      BY <3>2 DEF Discarded
    <3>3. CASE stage' = s \/ (q # r /\ stage' = [s EXCEPT ![r] = NextStage[s[r]]])
      <4>1. stage'[q] = s[q]
        BY <1>1, <3>3
      <4> QED BY <4>1
    <3> QED BY <2>2, <3>1, <3>2, <3>3
  <2> QED BY <2>1, <2>2 DEF Send
<1>3. CASE UNCHANGED <<buffer, load>>
  <2>1. Kept(q)' = Kept(q)
    BY <1>3 DEF Kept
  <2> QED BY <1>2, <2>1, SameKept
<1>4. CASE buffer' = TakeBuffer(r) /\ StartPublish(t, buffer[r])
  <2>1. load' = [load EXCEPT ![t] = buffer[r]] /\ buffer' = [buffer EXCEPT ![r] = <<>>]
    BY <1>4 DEF StartPublish, TakeBuffer
  <2>2. DOMAIN load = Tasks /\ DOMAIN buffer = Runs
    BY DEF IInv, Types
  <2>3. CASE q # r
    <3>1. buffer'[q] = buffer[q]
      BY <2>1, <2>2, <2>3
    <3>2. load'[Main(q)] = load[Main(q)] /\ load'[Timer(q)] = load[Timer(q)]
      BY <1>1, <2>1, <2>2, <2>3, TaskFacts
    <3>3. Kept(q)' = Kept(q)
      BY <3>1, <3>2 DEF Kept
    <3> QED BY <1>2, <3>3, SameKept
  <2>4. CASE q = r
    <3>1. load[t] = <<>>
      BY <1>1 DEF IInv, RunInv, LockInv, Publishing
    <3>2. Range(<<>>) = {}
      BY DEF Range
    <3>3. load'[t] = buffer[q] /\ buffer'[q] = <<>> /\ \A u \in Tasks \ {t} : load'[u] = load[u]
      BY <1>1, <2>1, <2>2, <2>4
    <3>4. \/ t = Main(q) /\ load'[Timer(q)] = load[Timer(q)]
          \/ t = Timer(q) /\ load'[Main(q)] = load[Main(q)]
      BY <1>1, <2>4, <3>3
    <3>5. Kept(q)' = Kept(q)
      <4> HIDE DEF r
      <4>1. Range(load'[t]) = Range(buffer[q]) /\ Range(buffer'[q]) = {} /\ Range(load[t]) = {}
        BY <3>1, <3>2, <3>3
      <4> QED BY <3>4, <4>1 DEF Kept
    <3> QED BY <1>2, <3>5, SameKept
  <2> QED BY <2>3, <2>4
<1> QED BY <1>3, <1>4 DEF Send

LEMMA DiscardKept ==
  ASSUME IInv, NEW r \in Runs, Discard(r), NEW x \in Discarded, stage' = [stage EXCEPT ![r] = x],
         NEW q \in Runs, RunKept(q)
  PROVE  RunKept(q)'
<1>1. Timer(r) \in Tasks /\ Main(q) \in Tasks /\ Timer(q) \in Tasks
  BY TaskFacts
<1>2. /\ \A u \in Tasks \ {Timer(r)} : load'[u] = load[u]
      /\ buffer' = [buffer EXCEPT ![r] = <<>>] /\ UNCHANGED <<made, lost>>
      /\ out' = out \/ out' = [out EXCEPT ![r] = @ \o load[Timer(r)]]
  BY <1>1 DEF Discard, Cancelled
<1>3. DOMAIN out = Runs /\ DOMAIN buffer = Runs /\ DOMAIN stage = Runs
  BY DEF IInv, Types
<1>4. CASE q = r
  BY <1>3, <1>4 DEF RunKept
<1>5. CASE q # r
  <2>1. out'[q] = out[q] /\ buffer'[q] = buffer[q] /\ stage'[q] = stage[q]
    BY <1>2, <1>3, <1>5
  <2>2. load'[Main(q)] = load[Main(q)] /\ load'[Timer(q)] = load[Timer(q)]
    BY <1>1, <1>2, <1>5, TaskFacts
  <2>3. Kept(q)' = Kept(q)
    BY <1>2, <2>1, <2>2 DEF Kept
  <2> QED BY <1>2, <2>1, <2>3, SameKept
<1> QED BY <1>4, <1>5

\* The next item is the number after the last.
LEMMA OneMore ==
  ASSUME NEW n \in Nat
  PROVE  1 .. n + 1 = 1 .. n \cup {n + 1}
  OBVIOUS

LEMMA DeltaKept ==
  ASSUME IInv, NEW r \in Runs, Delta(r), NEW q \in Runs, RunKept(q)
  PROVE  RunKept(q)'
<1>1. /\ made' = [made EXCEPT ![r] = @ + 1] /\ buffer' = [buffer EXCEPT ![r] = Append(@, made[r] + 1)]
      /\ UNCHANGED <<load, out, lost, stage>>
  BY DEF Delta
<1>2. DOMAIN made = Runs /\ DOMAIN buffer = Runs
  BY DEF IInv, Types
<1>3. CASE q # r
  <2>1. made'[q] = made[q] /\ buffer'[q] = buffer[q]
    BY <1>1, <1>2, <1>3
  <2>2. Kept(q)' = Kept(q)
    BY <1>1, <2>1 DEF Kept
  <2> QED BY <1>1, <2>1, <2>2, SameKept
<1>4. CASE q = r
  <2>1. made'[q] = made[q] + 1 /\ buffer'[q] = Append(buffer[q], made[q] + 1)
    BY <1>1, <1>2, <1>4
  <2>2. made[q] \in Nat /\ made[q] + 1 \in Nat /\ buffer[q] \in Seq(Nat)
    BY DEF IInv, Types
  <2>3. Range(buffer'[q]) = Range(buffer[q]) \cup {made[q] + 1}
    BY <2>1, <2>2, RangeFacts
  <2>4. 1 .. made'[q] = 1 .. made[q] \cup {made[q] + 1}
    BY <2>1, <2>2, OneMore
  <2>5. Kept(q)' = Kept(q) \cup {made[q] + 1}
    BY <1>1, <2>3 DEF Kept
  <2> QED BY <1>1, <2>4, <2>5 DEF RunKept
<1> QED BY <1>3, <1>4

LEMMA StatusKept ==
  ASSUME IInv, NEW r \in Runs, Status(r), NEW q \in Runs, RunKept(q)
  PROVE  RunKept(q)'
<1>1. load' = [load EXCEPT ![Main(r)] = <<>>] /\ UNCHANGED <<buffer, made, out, lost>>
  BY DEF Status, StartPublish
<1>2. load[Main(r)] = <<>>
  BY DEF Status, IInv, RunInv, StageInv, LockInv, Publishing
<1>3. Kept(q)' = Kept(q)
  BY <1>1, <1>2 DEF Kept, IInv, Types
<1>4. stage'[q] \notin Discarded => stage[q] \notin Discarded
  BY DEF Status, IInv, Types, Discarded
<1> QED BY <1>1, <1>3, <1>4, SameKept

LEMMA PublishNextKept ==
  ASSUME IInv, NEW r \in Runs, NEW x, PublishNext(r, x),
         stage[r] \in {"persisting", "finishing"} \/ (stage[r] = "failing" /\ x = "error"),
         NEW q \in Runs, RunKept(q)
  PROVE  RunKept(q)'
<1> DEFINE t == Main(r)
<1>1. t \in Tasks /\ Timer(r) \in Tasks /\ Timer(r) # t /\ Main(q) \in Tasks /\ Timer(q) \in Tasks
  BY TaskFacts
<1>2. /\ made' = [made EXCEPT ![r] = @ + 1] /\ load' = [load EXCEPT ![t] = <<made[r] + 1>>]
      /\ stage' = [stage EXCEPT ![r] = x] /\ UNCHANGED <<buffer, out, lost>>
  BY DEF PublishNext, StartPublish
<1>3. DOMAIN made = Runs /\ DOMAIN load = Tasks /\ DOMAIN stage = Runs
  BY DEF IInv, Types
<1>4. CASE q # r
  <2>1. made'[q] = made[q] /\ stage'[q] = stage[q]
    BY <1>2, <1>3, <1>4
  <2>2. load'[Main(q)] = load[Main(q)] /\ load'[Timer(q)] = load[Timer(q)]
    BY <1>1, <1>2, <1>3, <1>4, TaskFacts
  <2>3. Kept(q)' = Kept(q)
    BY <1>2, <2>2 DEF Kept
  <2> QED BY <2>1, <2>3, SameKept
<1>5. CASE q = r /\ stage[r] = "failing"
  BY <1>2, <1>3, <1>5 DEF RunKept, Discarded
<1>6. CASE q = r /\ stage[r] \in {"persisting", "finishing"}
  <2>1. load[Main(q)] = <<>>
    BY <1>6 DEF IInv, RunInv, StageInv, LockInv, Publishing
  <2>2. made'[q] = made[q] + 1 /\ load'[Main(q)] = <<made[q] + 1>> /\ load'[Timer(q)] = load[Timer(q)]
    BY <1>1, <1>2, <1>3, <1>6
  <2>3. made[q] \in Nat /\ made[q] + 1 \in Nat
    BY DEF IInv, Types
  <2>4. Range(load'[Main(q)]) = {made[q] + 1} /\ Range(load[Main(q)]) = {}
    BY <2>1, <2>2, <2>3, EmptySeq, RangeFacts
  <2>5. 1 .. made'[q] = 1 .. made[q] \cup {made[q] + 1}
    BY <2>2, <2>3, OneMore
  <2>6. Kept(q)' = Kept(q) \cup {made[q] + 1}
    BY <1>2, <2>2, <2>4 DEF Kept
  <2>7. stage[q] \notin Discarded
    BY <1>6 DEF Discarded
  <2> QED BY <2>5, <2>6, <2>7 DEF RunKept
<1> QED BY <1>4, <1>5, <1>6

LEMMA KeptInit == ASSUME RealtimeInit, NEW q \in Runs PROVE RunKept(q)
<1>1. out[q] = <<>> /\ load[Main(q)] = <<>> /\ load[Timer(q)] = <<>> /\ buffer[q] = <<>>
      /\ made[q] = 0 /\ lost[q] = {}
  BY TaskFacts DEF RealtimeInit
<1>2. Range(<<>>) = {} /\ 1 .. 0 = {}
  BY DEF Range
<1> QED BY <1>1, <1>2 DEF RunKept, Kept

LEMMA KeptStep ==
  ASSUME IInv, [RealtimeNext]_realtimeVars, NEW q \in Runs, RunKept(q)
  PROVE  RunKept(q)'
<1>1. ASSUME UNCHANGED <<out, lost, load, buffer, made>>, stage'[q] \notin Discarded => stage[q] \notin Discarded
      PROVE  RunKept(q)'
  BY <1>1, SameKept DEF Kept
<1>2. ASSUME NEW t \in Tasks, Step(t) PROVE RunKept(q)'
  <2>1. CASE GetBatchLock(t)
    <3>1. at[t] = "lock" /\ Send(t, stage) /\ UNCHANGED <<made, out, lost>> /\ stage \in [Runs -> Stages]
      BY <2>1 DEF GetBatchLock, IInv, Types
    <3>2. ASSUME t[2] = "main" PROVE stage[t[1]] \in {"flushing", "flushingLast"}
      <4>1. t[1] \in Runs /\ t = Main(t[1])
        BY <3>2, TaskFacts
      <4> QED BY <3>1, <4>1 DEF IInv, Types, RunInv, StageInv, Stages, Publishing, Discarded
    <3> QED BY <3>1, <3>2, SendKept
  <2>2. CASE Evicted(t) \/ GetChannelLock(t) \/ Subscribed(t)
    BY <1>1, <2>2 DEF Evicted, GetChannelLock, Subscribed
  <2>3. CASE Sent(t)
    BY <2>3, EndPublishKept DEF Sent, Publishing
  <2>4. CASE PublishFails(t)
    BY <2>4, EndPublishKept DEF PublishFails, Publishing
  <2> QED BY <1>2, <2>1, <2>2, <2>3, <2>4 DEF Step
<1>3. ASSUME NEW r \in Runs, BatchTimerFires(r) PROVE RunKept(q)'
  BY <1>3, TaskFacts, SendKept DEF BatchTimerFires, IInv, Types
<1>4. ASSUME NEW r \in Runs, RunStep(r) PROVE RunKept(q)'
  <2>1. CASE Delta(r)
    BY <2>1, DeltaKept
  <2>2. CASE Status(r)
    BY <2>2, StatusKept
  <2>3. CASE Action(r) \/ Finish(r)
    <3>1. stage[r] = "graph" /\ at[Main(r)] = "off" /\ stage \in [Runs -> Stages]
      BY <2>3 DEF Action, Finish, IInv, Types, RunInv, StageInv
    <3>2. PICK x \in {"flushing", "flushingLast"} :
            Send(Main(r), [stage EXCEPT ![r] = x]) /\ UNCHANGED <<made, out, lost>>
      BY <2>3 DEF Action, Finish
    <3> DEFINE s == [stage EXCEPT ![r] = x]
    <3>3. s \in [Runs -> Stages] /\ s[r] = x /\ \A p \in Runs \ {r} : s[p] = stage[p]
      BY <3>1 DEF Stages
    <3>4. \A p \in Runs : s[p] \notin Discarded => stage[p] \notin Discarded
      BY <3>1, <3>3 DEF Discarded
    <3> HIDE DEF s
    <3>5. Main(r) \in Tasks /\ Main(r)[1] = r
      BY TaskFacts
    <3> QED BY <3>1, <3>2, <3>3, <3>4, <3>5, SendKept DEF s
  <2>4. CASE Persisted(r) \/ Completed(r) \/ FailureReported(r)
    BY <2>4, PublishNextKept DEF Persisted, Completed, FailureReported
  <2>5. CASE SupersededAtFinish(r) \/ FailureUnreported(r)
    BY <1>1, <2>5 DEF SupersededAtFinish, FailureUnreported, Discarded, IInv, Types
  <2>6. CASE Superseded(r) \/ GraphFails(r)
    BY <2>6, DiscardKept DEF Superseded, GraphFails, Discarded
  <2> QED BY <1>4, <2>1, <2>2, <2>3, <2>4, <2>5, <2>6 DEF RunStep
<1>5. CASE ChannelIdles \/ UNCHANGED realtimeVars
  BY <1>1, <1>5 DEF ChannelIdles, realtimeVars
<1> QED BY <1>2, <1>3, <1>4, <1>5 DEF RealtimeNext

\* Until a run is discarded, each item it has produced is buffered, being published,
\* on the channel, or was in a publish that failed, and nothing else is there.
THEOREM NothingIsForgotten == RealtimeSpec => []NothingForgotten
<1>1. RealtimeInit => NothingForgotten
  BY KeptInit DEF NothingForgotten, RunKept, Kept
<1>2. IInv /\ NothingForgotten /\ [RealtimeNext]_realtimeVars => NothingForgotten'
  BY KeptStep DEF NothingForgotten, RunKept, Kept
<1> QED BY <1>1, <1>2, RealtimeInvariant, PTL DEF RealtimeSpec
=============================================================================
