----------------------------- MODULE TurnWorkflow -----------------------------
(***************************************************************************)
(* The graph that answers one classroom turn                               *)
(* (backend/app/agents/classroom): which nodes run, which of them spend a  *)
(* model call, what is drafted, verified, retried and put on the board.    *)
(*                                                                         *)
(* Abstractions.  A model call returns any outcome its node tells apart:   *)
(* a draft the validator will accept, one it will reject, or none.  Of the *)
(* equations of a turn only how many are drafted and valid is kept.        *)
(* Status lines and deltas only matter as places where a superseded run    *)
(* stops.                                                                  *)
(***************************************************************************)
EXTENDS Naturals, Sequences, FiniteSets

CONSTANTS MaxCalls,      \* MAX_LLM_CALLS
          MaxRetries,    \* MAX_VALIDATION_RETRIES
          MaxEquations   \* MAX_EQUATIONS

ASSUME WorkflowAssumption == MaxCalls \in Nat /\ MaxCalls >= 2 /\ MaxRetries \in Nat /\ MaxEquations \in Nat

VARIABLES node,      \* the node that runs next
          route,     \* wants_circuit, wants_math, needs_plan
          calls, retries,
          answer,    \* whether the teacher produced any text
          circuit,   \* circuit_draft, circuit_errors, circuit_action
          math,      \* equation_drafts, equation_errors, equation_actions
          sent       \* the actions the emitter has accepted, in order

turnVars == <<node, route, calls, retries, answer, circuit, math, sent>>

Route == [circuit : BOOLEAN, math : BOOLEAN, plan : BOOLEAN]
Draft == {"none", "good", "bad"}
Running == {"load_context", "orchestrate", "lesson_plan", "teacher", "teaching", "circuit_agent",
            "math_agent", "validate", "retry", "emit_circuit", "emit_highlight", "emit_caption",
            "emit_math", "emit_close", "finish"}
Ended == {"answered", "superseded", "failed"}
Action == {"step_started", "circuit", "highlight", "caption", "equation",
           "circuit_error", "math_error", "step_completed"}

\* initial_state
TurnInit ==
  /\ node = "load_context"
  /\ route = [circuit |-> FALSE, math |-> FALSE, plan |-> FALSE]
  /\ calls = 0 /\ retries = 0 /\ answer = FALSE
  /\ circuit = [draft |-> "none", errors |-> FALSE, drawn |-> FALSE]
  /\ math = [drafts |-> 0, valid |-> 0, errors |-> FALSE, accepted |-> 0]
  /\ sent = <<>>

Moves(from, to) == node = from /\ node' = to

LoadContext ==
  /\ Moves("load_context", "orchestrate")
  /\ UNCHANGED <<route, calls, retries, answer, circuit, math, sent>>

\* classify_heuristic: both visuals make the request complex; a follow-up is
\* a plain explanation.
HeuristicRoutes == {r \in Route : r.circuit /\ r.math => r.plan}
\* classify_with_llm never asks for a plan; on failure it explains.
ClassifierRoutes == {r \in Route : ~r.plan}

\* orchestrate_node: rules first, the model only when they do not match.
Orchestrate ==
  /\ node = "orchestrate"
  /\ \/ route' \in HeuristicRoutes /\ calls' = calls
     \/ calls < MaxCalls /\ route' \in ClassifierRoutes /\ calls' = calls + 1
     \/ calls >= MaxCalls /\ route' = [circuit |-> FALSE, math |-> FALSE, plan |-> FALSE] /\ calls' = calls
  /\ node' = IF route'.plan THEN "lesson_plan" ELSE "teacher"
  /\ UNCHANGED <<retries, answer, circuit, math, sent>>

LessonPlan ==
  /\ Moves("lesson_plan", "teacher")
  /\ calls' = IF calls >= MaxCalls THEN calls ELSE calls + 1
  /\ UNCHANGED <<route, retries, answer, circuit, math, sent>>

\* teacher_node opens the step; a title the schema refuses is only logged.
OpenStep ==
  /\ Moves("teacher", "teaching")
  /\ sent' \in {sent, Append(sent, "step_started")}
  /\ UNCHANGED <<route, calls, retries, answer, circuit, math>>

\* teacher_node streams the explanation, without looking at the budget.
Teach ==
  /\ node = "teaching"
  /\ node' = IF route.circuit \/ route.math THEN "circuit_agent" ELSE "emit_circuit"
  /\ calls' = calls + 1
  /\ answer' \in BOOLEAN
  /\ UNCHANGED <<route, retries, circuit, math, sent>>

\* circuit_agent_node
MCircuitAgent ==
  /\ Moves("circuit_agent", "math_agent")
  /\ IF ~route.circuit \/ calls >= MaxCalls
     THEN UNCHANGED <<calls, circuit>>
     ELSE /\ calls' = calls + 1
          /\ \E d \in Draft : circuit' = [circuit EXCEPT !.draft = d, !.errors = d = "none", !.drawn = FALSE]
  /\ UNCHANGED <<route, retries, answer, math, sent>>
CircuitAgent ==
  /\ Moves("circuit_agent", "math_agent")
  /\ IF ~route.circuit \/ (circuit.draft # "none" /\ ~circuit.errors)
       THEN UNCHANGED <<calls, circuit>>
     ELSE IF calls >= MaxCalls
       THEN calls' = calls /\ circuit' = [circuit EXCEPT !.draft = "none", !.errors = TRUE]
     ELSE /\ calls' = calls + 1
          /\ \E d \in Draft : circuit' = [circuit EXCEPT !.draft = d, !.errors = d = "none"]
  /\ UNCHANGED <<route, retries, answer, math, sent>>

\* math_agent_node: the model answers with a list, cut to MaxEquations, of
\* which some are valid, or with nothing usable.
MMathAgentUnbudgeted ==
  /\ Moves("math_agent", "validate")
  /\ IF ~route.math \/ (math.drafts > 0 /\ ~math.errors)
       THEN UNCHANGED <<calls, math>>
     ELSE /\ calls' = calls + 1
          /\ \E n \in 0 .. MaxEquations : \E v \in 0 .. n :
               math' = [math EXCEPT !.drafts = n, !.valid = v, !.errors = n = 0]
  /\ UNCHANGED <<route, retries, answer, circuit, sent>>
MathAgent ==
  /\ Moves("math_agent", "validate")
  /\ IF ~route.math \/ (math.drafts > 0 /\ ~math.errors)
       THEN UNCHANGED <<calls, math>>
     ELSE IF calls >= MaxCalls
       THEN calls' = calls /\ math' = [math EXCEPT !.drafts = 0, !.errors = TRUE]
     ELSE /\ calls' = calls + 1
          /\ \E n \in 0 .. MaxEquations : \E v \in 0 .. n :
               math' = [math EXCEPT !.drafts = n, !.valid = v, !.errors = n = 0]
  /\ UNCHANGED <<route, retries, answer, circuit, sent>>

\* validate_node: a draft that came with an error is not looked at.
ReviewedCircuit ==
  IF route.circuit /\ circuit.draft # "none" /\ ~circuit.errors
    THEN [circuit EXCEPT !.drawn = circuit.draft = "good", !.errors = circuit.draft # "good"]
    ELSE circuit
MReviewedMath ==
  IF route.math THEN [math EXCEPT !.accepted = math.drafts, !.errors = math.drafts = 0] ELSE math
ReviewedMath ==
  IF route.math /\ math.drafts > 0 /\ ~math.errors
    THEN [math EXCEPT !.accepted = math.valid, !.errors = math.valid = 0]
    ELSE math

\* route_after_validate
WantsRetry(c, m) == (c.errors \/ m.errors) /\ retries < MaxRetries /\ calls < MaxCalls

MValidate ==
  /\ node = "validate"
  /\ circuit' = ReviewedCircuit /\ math' = ReviewedMath
  /\ node' = IF circuit'.errors \/ math'.errors THEN "circuit_agent" ELSE "emit_circuit"
  /\ UNCHANGED <<route, calls, retries, answer, sent>>
Validate ==
  /\ node = "validate"
  /\ circuit' = ReviewedCircuit /\ math' = ReviewedMath
  /\ node' = IF WantsRetry(circuit', math') THEN "retry" ELSE "emit_circuit"
  /\ UNCHANGED <<route, calls, retries, answer, sent>>

Retry ==
  /\ Moves("retry", "circuit_agent")
  /\ retries' = retries + 1
  /\ UNCHANGED <<route, calls, answer, circuit, math, sent>>

-----------------------------------------------------------------------------
(* emit_node: one await per action                                         *)

Sends(from, action, to) ==
  /\ Moves(from, to)
  /\ sent' = Append(sent, action)
  /\ UNCHANGED <<route, calls, retries, answer, circuit, math>>

Passes(from, to) == Moves(from, to) /\ UNCHANGED <<route, calls, retries, answer, circuit, math, sent>>

\* The circuit, a highlight and perhaps a caption; or the apology.
EmitCircuit ==
  \/ route.circuit /\ circuit.drawn /\ Sends("emit_circuit", "circuit", "emit_highlight")
  \/ route.circuit /\ ~circuit.drawn /\ Sends("emit_circuit", "circuit_error", "emit_math")
  \/ ~route.circuit /\ Passes("emit_circuit", "emit_math")
EmitHighlight == Sends("emit_highlight", "highlight", "emit_caption")
EmitCaption == Sends("emit_caption", "caption", "emit_math") \/ Passes("emit_caption", "emit_math")

Count(a) == Cardinality({i \in DOMAIN sent : sent[i] = a})
Written == Count("equation")
EmitMath ==
  \/ route.math /\ math.accepted > Written /\ Sends("emit_math", "equation", "emit_math")
  \/ route.math /\ math.accepted > 0 /\ math.accepted = Written /\ Passes("emit_math", "emit_close")
  \/ route.math /\ math.accepted = 0 /\ Sends("emit_math", "math_error", "emit_close")
  \/ ~route.math /\ Passes("emit_math", "emit_close")
EmitClose == Sends("emit_close", "step_completed", "finish")

\* run_turn after the graph: an empty answer is a failure.
Finish ==
  /\ node = "finish"
  /\ node' = IF answer THEN "answered" ELSE "failed"
  /\ UNCHANGED <<route, calls, retries, answer, circuit, math, sent>>

\* The context loader, the teacher's model, the circuit backend, or an
\* action that cannot be stored ends the run.
RunRaises ==
  /\ node \in Running \ {"orchestrate", "lesson_plan", "circuit_agent", "math_agent", "retry"}
  /\ node' = "failed"
  /\ UNCHANGED <<route, calls, retries, answer, circuit, math, sent>>

\* Any call of the emitter may find that the run was superseded.
Superseded ==
  /\ node \in {"teacher", "teaching", "emit_circuit", "emit_highlight", "emit_caption", "emit_math", "emit_close"}
  /\ node' = "superseded"
  /\ UNCHANGED <<route, calls, retries, answer, circuit, math, sent>>

GraphStep ==
  \/ LoadContext \/ Orchestrate \/ LessonPlan \/ OpenStep \/ Teach \/ CircuitAgent \/ MathAgent
  \/ Validate \/ Retry \/ EmitCircuit \/ EmitHighlight \/ EmitCaption \/ EmitMath \/ EmitClose \/ Finish
TurnNext == GraphStep \/ RunRaises \/ Superseded
TurnSpec == TurnInit /\ [][TurnNext]_turnVars

\* Every awaited call returns or raises: the code sets no timeout of its own
\* on a model call, so this is an assumption about the providers.
FairTurnSpec == TurnSpec /\ WF_turnVars(TurnNext)

-----------------------------------------------------------------------------
TurnTypeOK ==
  /\ node \in Running \cup Ended
  /\ route \in Route
  /\ calls \in Nat /\ retries \in Nat /\ answer \in BOOLEAN
  /\ circuit \in [draft : Draft, errors : BOOLEAN, drawn : BOOLEAN]
  /\ math \in [drafts : 0 .. MaxEquations, valid : 0 .. MaxEquations, errors : BOOLEAN, accepted : 0 .. MaxEquations]
  /\ sent \in Seq(Action)

\* docs/security.md:58: at most MAX_LLM_CALLS model calls and one retry per
\* turn, although the teacher never looks at the budget and is the third or
\* fourth node that may spend from it.
BudgetKept == calls <= MaxCalls /\ retries <= MaxRetries

\* The student is told about each visual the turn promised: an answered turn
\* that wanted a circuit (an equation) has drawn it or apologised, never both,
\* never twice, and drew nothing it did not verify; one that did not want it
\* shows neither.
VisualsAccountedFor ==
  node = "answered" =>
    /\ Count("circuit") + Count("circuit_error") = (IF route.circuit THEN 1 ELSE 0)
    /\ Count("circuit") = 1 => circuit.draft = "good"
    /\ route.math => (Count("equation") > 0 <=> Count("math_error") = 0)
    /\ ~route.math => Count("equation") + Count("math_error") = 0
    /\ Count("equation") <= math.valid

\* A retry for one agent keeps what the other has had verified.
VerifiedIsKept ==
  [][(circuit.drawn => circuit'.drawn) /\ (math.accepted > 0 => math'.accepted = math.accepted)]_turnVars

\* A step is opened before anything else reaches the board and closed last,
\* and only an interrupted or failed turn leaves it open.
StepIsBracketed ==
  /\ \A i \in DOMAIN sent : sent[i] = "step_started" => i = 1
  /\ \A i \in DOMAIN sent : sent[i] = "step_completed" => i = Len(sent)
  /\ node = "answered" => Count("step_completed") = 1

\* graph.py:50-85: what the student is shown of an answered turn is one step
\* with every visual of it accounted for, after any number of retries.
StepIsAccounted == VisualsAccountedFor /\ StepIsBracketed

\* The loop through the drafting agents ends: every turn does.
TurnEnds == <>(node \in Ended)
===============================================================================
