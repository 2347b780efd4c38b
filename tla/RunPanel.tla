------------------------------- MODULE RunPanel -------------------------------
(***************************************************************************)
(* What the page shows of a simulation (frontend/src/components/circuit:   *)
(* the Run button of CircuitToolbar.tsx and the analysis panels, and the   *)
(* results panel of the dashboard), on top of the runs of CircuitRun.      *)
(*                                                                         *)
(* Abstractions.  An effect runs with the state change that causes it.  Of *)
(* an error message only the run that it is about is kept, and of a result *)
(* its run and status; charts, insights and labels are left out.           *)
(***************************************************************************)
EXTENDS CircuitRun

VARIABLES message,    \* error: the run whose request failed
          completed,  \* justCompleted: the button reads "Simulation Complete"
          timer       \* the timer that puts the button back

panel == <<message, completed, timer>>
panelVars == <<simVars, panel>>

PanelInit == SimInit /\ message = NoRun /\ completed = FALSE /\ timer = FALSE

\* The effect of the button on a new runState; leaving a state stops its timer.
RunStateEffect ==
  IF ui'.state = ui.state THEN UNCHANGED <<completed, timer>>
  ELSE /\ timer' = (ui.state = "running" /\ ui'.state = "success")
       /\ completed' = (timer' \/ (completed /\ ui'.state # "running"))

\* Space and the Run buttons are off while a run is under way.
MPanelRun ==
  /\ ui.state # "running" /\ Run
  /\ UNCHANGED message /\ RunStateEffect
PanelRun ==
  /\ ui.state # "running" /\ Run
  /\ message' = NoRun /\ RunStateEffect

PanelInvalidate == Invalidate /\ message' = NoRun /\ RunStateEffect

PanelReceive(a) == Receive(a) /\ UNCHANGED message /\ RunStateEffect

PanelPostFails(r) ==
  /\ PostFails(r) /\ RunStateEffect
  /\ message' = IF r = ui.latest THEN r ELSE message

TimerFires == timer /\ timer' = FALSE /\ completed' = FALSE /\ UNCHANGED <<simVars, message>>

PanelRest ==
  /\ UNCHANGED panel
  /\ \/ EditCircuit \/ Crash
     \/ \E r \in Runs : Join(r) \/ PostDone(r) \/ StartExecution(r) \/ Refuse(r)
                         \/ LoadExecution(r) \/ Execute(r) \/ StoreFailure(r) \/ Publish(r)

PanelNext ==
  \/ PanelRun \/ PanelInvalidate \/ TimerFires \/ PanelRest
  \/ \E a \in wire : PanelReceive(a)
  \/ \E r \in Runs : PanelPostFails(r)

PanelSpec == PanelInit /\ [][PanelNext]_panelVars /\ WF_panelVars(TimerFires)

-----------------------------------------------------------------------------
(* What is on the screen                                                   *)

\* CircuitAnalysis: the alert names the error of the request, or else that of
\* the answer.
FailureShown ==
  IF ui.state # "error" THEN NoRun ELSE IF message # NoRun THEN message ELSE ui.results.run

\* CircuitResultsPanel: shown as soon as there are results, whatever they are.
Badge ==
  IF ui.results = NoAnswer THEN "none"
  ELSE IF ui.state = "error" THEN "Simulation failed" ELSE "Simulation completed"

\* WorkflowSteps: what the stepper above the panels marks.
WorkflowSteps(hasGates) ==
  LET observed == ui.state = "success" IN
  [build    |-> IF hasGates THEN "done" ELSE "current",
   simulate |-> IF observed THEN "done" ELSE IF hasGates THEN "current" ELSE "todo",
   observe  |-> IF observed THEN "done" ELSE "todo",
   explain  |-> IF observed THEN "current" ELSE "todo",
   practice |-> "todo"]

-----------------------------------------------------------------------------
(* Properties                                                              *)

FailureIsOfLatestRun == ui.state = "error" => FailureShown = ui.latest

\* What the page tells is true of the latest run: its outcome
\* (circuitStore.ts:405, latestRunId), and, after a failure, whose failure is
\* explained - whether the request failed, the answer says so, or an earlier run
\* failed in the other way.
PageTellsLatestRun == OutcomeIsOfLatestRun /\ FailureIsOfLatestRun

-----------------------------------------------------------------------------
(* What the code does not keep                                             *)

\* CircuitResultsPanel.tsx:36: only a circuit that did run is called completed.
BadgeIsTrue == Badge = "Simulation completed" => ui.results.status = "completed"

\* CircuitAnalysis.tsx:69: one step is aria-current.  Edits and undo leave
\* runState alone, so after a run an empty circuit has two.
OneStepIsCurrent ==
  \A hasGates \in BOOLEAN :
    LET steps == WorkflowSteps(hasGates) IN
    \A s, t \in DOMAIN steps : steps[s] = "current" /\ steps[t] = "current" => s = t

\* CircuitToolbar.test.tsx:84, "shows 'Simulation Complete' briefly".
CompleteIsBrief == completed ~> ~completed
===============================================================================
