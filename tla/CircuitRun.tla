------------------------------ MODULE CircuitRun ------------------------------
(***************************************************************************)
(* Simulating a circuit: runSimulation in                                  *)
(* frontend/src/stores/circuitStore.ts, the request it posts, the          *)
(* background task of backend/app/services/circuits_service.py and the     *)
(* Realtime channel the answer takes.                                      *)
(*                                                                         *)
(* Abstractions.  A run is its number; its circuit_id and execution_id are *)
(* fresh.  runGeneration equals the generation of a run exactly while that *)
(* run is ui.latest.  Of the circuit only whether it changed since the run *)
(* started is kept, and of an answer its status.                           *)
(***************************************************************************)
EXTENDS Naturals, FiniteSets

CONSTANTS MaxRuns,  \* bound: simulations started
          NoRun

ASSUME RunAssumption == MaxRuns \in Nat /\ NoRun \notin Nat

VARIABLES ui,      \* the store, runGeneration and activeUnsub
          subs,    \* runs whose channel has not been unsubscribed
          joined,  \* those of them the channel has confirmed
          post,    \* the POST of each run, seen from the browser
          row,     \* circuit_executions.status
          task,    \* run_and_publish
          wire,    \* broadcasts on their way to the browser
          started, \* number of runs started
          edited   \* history: the circuit changed since the latest run started

simVars == <<ui, subs, joined, post, row, task, wire, started, edited>>

Runs == 1 .. MaxRuns
Outcomes == {"completed", "failed"}
Answer == [run : Runs, status : Outcomes]
NoAnswer == [run |-> NoRun, status |-> "none"]

SimInit ==
  /\ ui = [latest |-> NoRun, active |-> NoRun, state |-> "idle", results |-> NoAnswer]
  /\ subs = {} /\ joined = {}
  /\ post = [r \in Runs |-> "none"] /\ row = [r \in Runs |-> "none"] /\ task = [r \in Runs |-> "none"]
  /\ wire = {} /\ started = 0 /\ edited = FALSE

server == <<row, task>>

-----------------------------------------------------------------------------
(* The browser                                                             *)

\* unsub() of the runs of S.
Unsubscribe(S) == subs' = subs \ S /\ joined' = joined \ S

\* runSimulation up to the POST: supersede, subscribe, send.  What is on
\* screen stays until the answer comes.
Run ==
  LET r == started + 1 IN
  /\ started < MaxRuns
  /\ started' = r
  /\ ui' = [ui EXCEPT !.latest = r, !.active = r, !.state = "running"]
  /\ subs' = (subs \ {ui.active}) \cup {r} /\ joined' = joined \ {ui.active}
  /\ post' = [post EXCEPT ![r] = "waiting"]
  /\ edited' = FALSE
  /\ UNCHANGED <<server, wire>>

\* clearCircuit, loadFromSpec and reset invalidate the run.
Invalidate ==
  /\ ui' = [latest |-> NoRun, active |-> NoRun, state |-> "idle", results |-> NoAnswer]
  /\ Unsubscribe({ui.active})
  /\ edited' = TRUE
  /\ UNCHANGED <<server, post, wire, started>>

\* Every other edit, undo and redo.
EditCircuit ==
  /\ edited' = TRUE
  /\ UNCHANGED <<ui, subs, joined, server, post, wire, started>>

\* subscribe() does not wait for the channel.
Join(r) ==
  /\ r \in subs /\ joined' = joined \cup {r}
  /\ UNCHANGED <<ui, subs, server, post, wire, started, edited>>

\* The callback of the channel.  It may still be called after unsub(), which
\* does not wait either.
Receive(a) ==
  /\ a \in wire /\ wire' = wire \ {a}
  /\ IF a.run # ui.latest THEN UNCHANGED <<ui, subs, joined>>
     ELSE /\ ui' = [ui EXCEPT !.results = a, !.state = IF a.status = "failed" THEN "error" ELSE "success",
                              !.active = IF @ = a.run THEN NoRun ELSE @]
          /\ Unsubscribe({a.run})
  /\ UNCHANGED <<server, post, started, edited>>

\* The 202, or nothing more is waited for.
PostDone(r) ==
  /\ post[r] = "waiting" /\ row[r] # "none"
  /\ post' = [post EXCEPT ![r] = "done"]
  /\ UNCHANGED <<ui, subs, joined, server, wire, started, edited>>

\* The request is refused, or its answer is lost: the catch clause.
PostFails(r) ==
  /\ post[r] \in {"waiting", "refused"}
  /\ post' = [post EXCEPT ![r] = "failed"]
  /\ IF r # ui.latest THEN UNCHANGED <<ui, subs, joined>>
     ELSE /\ ui' = [ui EXCEPT !.state = "error", !.active = IF @ = r THEN NoRun ELSE @]
          /\ Unsubscribe({r})
  /\ UNCHANGED <<server, wire, started, edited>>

browser == <<ui, subs, joined, post, started, edited>>

-----------------------------------------------------------------------------
(* The API process.  task: "queued" enqueued, "running" the row is loaded,  *)
(* "raised" in the except clause, "over" ended, "killed" with the process,  *)
(* else the status it is about to publish.                                  *)

\* start_execution: the circuit and the pending row in one commit, then the
\* background task.
StartExecution(r) ==
  /\ post[r] # "none" /\ post[r] # "refused" /\ row[r] = "none"
  /\ row' = [row EXCEPT ![r] = "pending"]
  /\ task' = [task EXCEPT ![r] = "queued"]
  /\ UNCHANGED <<browser, wire>>

\* It validates before any write.
Refuse(r) ==
  /\ post[r] = "waiting" /\ row[r] = "none"
  /\ post' = [post EXCEPT ![r] = "refused"]
  /\ UNCHANGED <<ui, subs, joined, started, edited, server, wire>>

\* The row is read outside the try.
LoadExecution(r) ==
  /\ task[r] = "queued"
  /\ \E next \in {"running", "over"} : task' = [task EXCEPT ![r] = next]
  /\ UNCHANGED <<browser, row, wire>>

\* The sandbox runs the circuit and the row is stored.  A commit that raises
\* may have taken effect.
Execute(r) ==
  /\ task[r] = "running"
  /\ \/ task' = [task EXCEPT ![r] = "raised"] /\ row' \in {row, [row EXCEPT ![r] = "completed"]}
     \/ task' = [task EXCEPT ![r] = "completed"] /\ row' = [row EXCEPT ![r] = "completed"]
  /\ UNCHANGED <<browser, wire>>

\* The except clause: a second commit, whose failure is ignored.
StoreFailure(r) ==
  /\ task[r] = "raised"
  /\ task' = [task EXCEPT ![r] = "failed"]
  /\ row' \in {row, [row EXCEPT ![r] = "failed"]}
  /\ UNCHANGED <<browser, wire>>

\* The broadcast reaches the channels that have joined, or is lost.
Publish(r) ==
  /\ task[r] \in Outcomes
  /\ task' = [task EXCEPT ![r] = "over"]
  /\ \/ r \in joined /\ wire' = wire \cup {[run |-> r, status |-> task[r]]}
     \/ UNCHANGED wire
  /\ UNCHANGED <<browser, row>>

\* The process dies, with every task of it.
Crash ==
  /\ \E r \in Runs : task[r] \notin {"none", "over", "killed"}
  /\ task' = [r \in Runs |-> IF task[r] \in {"none", "over"} THEN task[r] ELSE "killed"]
  /\ UNCHANGED <<browser, row, wire>>

RunStep(r) ==
  \/ Join(r) \/ PostDone(r) \/ PostFails(r)
  \/ StartExecution(r) \/ Refuse(r) \/ LoadExecution(r) \/ Execute(r) \/ StoreFailure(r) \/ Publish(r)

SimNext ==
  \/ Run \/ Invalidate \/ EditCircuit \/ Crash
  \/ \E a \in wire : Receive(a)
  \/ \E r \in Runs : RunStep(r)

SimSpec == SimInit /\ [][SimNext]_simVars

-----------------------------------------------------------------------------
SimTypeOK ==
  /\ ui \in [latest : Runs \cup {NoRun}, active : Runs \cup {NoRun},
              state : {"idle", "running", "success", "error"}, results : Answer \cup {NoAnswer}]
  /\ subs \subseteq 1 .. started /\ joined \subseteq subs /\ wire \subseteq Answer
  /\ post \in [Runs -> {"none", "waiting", "refused", "done", "failed"}]
  /\ row \in [Runs -> {"none", "pending"} \cup Outcomes]
  /\ task \in [Runs -> {"none", "queued", "running", "raised", "over", "killed"} \cup Outcomes]
  /\ started \in 0 .. MaxRuns /\ edited \in BOOLEAN

\* What the screen says of a run is true of the latest run, whatever answers
\* and errors of earlier runs are still on their way: success means that its
\* completed answer is shown and stored, an error that it failed, and after
\* clearing nothing is left.
OutcomeIsOfLatestRun ==
  CASE ui.state = "success" -> ui.results = [run |-> ui.latest, status |-> "completed"] /\ row[ui.latest] = "completed"
    [] ui.state = "error" -> post[ui.latest] = "failed" \/ ui.results = [run |-> ui.latest, status |-> "failed"]
    [] ui.state = "idle" -> ui.latest = NoRun /\ ui.results = NoAnswer
    [] OTHER -> TRUE

\* A run the screen waits for is listened to, and no other channel is left
\* open (lib/supabase.ts:41), in whatever order runs are superseded, answered,
\* refused and cleared.
OneOpenChannel == subs = IF ui.state = "running" THEN {ui.latest} ELSE {}

-----------------------------------------------------------------------------
(* What the comments claim and the code does not keep                      *)

\* circuitStore.ts:22, "a late result for the old circuit must not land on the
\* new one": only the clearing actions invalidate a run.
ResultFitsCircuit ==
  [][ui'.results # ui.results /\ ui'.results # NoAnswer => ~edited]_simVars
===============================================================================
