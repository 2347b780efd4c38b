---------------------------- MODULE SimulationBlock ---------------------------
(***************************************************************************)
(* The simulation of a lesson                                              *)
(* (frontend/src/components/learn/blocks/SimulationBlock.tsx): the same    *)
(* requests and channels as in CircuitRun, without the generation that     *)
(* tells a run from the ones before it.                                    *)
(*                                                                         *)
(* Abstractions.  Those of CircuitRun.  ui.active is unsubRef, and the     *)
(* state "done" is "success".  The lesson stays open: leaving it closes the*)
(* channel for good.                                                       *)
(***************************************************************************)
EXTENDS CircuitRun

\* The button is off while a run is under way; the last result stays.
BlockRun == ui.state # "running" /\ Run

\* Whatever channel is open is closed.
BlockReceive(a) ==
  /\ a \in wire /\ wire' = wire \ {a}
  /\ ui' = [ui EXCEPT !.results = a, !.state = IF a.status = "failed" THEN "error" ELSE "success", !.active = NoRun]
  /\ Unsubscribe({ui.active})
  /\ UNCHANGED <<server, post, started, edited>>

BlockPostFails(r) ==
  /\ post[r] \in {"waiting", "refused"}
  /\ post' = [post EXCEPT ![r] = "failed"]
  /\ ui' = [ui EXCEPT !.state = "error", !.active = NoRun]
  /\ Unsubscribe({ui.active})
  /\ UNCHANGED <<server, wire, started, edited>>

BlockNext ==
  \/ BlockRun \/ Crash
  \/ \E a \in wire : BlockReceive(a)
  \/ \E r \in Runs : \/ Join(r) \/ PostDone(r) \/ BlockPostFails(r) \/ StartExecution(r) \/ Refuse(r)
                     \/ LoadExecution(r) \/ Execute(r) \/ StoreFailure(r) \/ Publish(r)

BlockSpec == SimInit /\ [][BlockNext]_simVars

\* SimulationBlock.tsx:22, a simulation runs "like any circuit": what it says is
\* true of the run that was started last, as OutcomeIsOfLatestRun says of the
\* circuit laboratory.
BlockOutcomeIsOfLatestRun == OutcomeIsOfLatestRun
===============================================================================
