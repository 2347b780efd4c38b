-------------------------- MODULE TurnWorkflowProofs --------------------------
(***************************************************************************)
(* The budget of a turn is kept, and what was verified is kept, for every  *)
(* value of the limits with at least two model calls.                      *)
(*                                                                         *)
(* The teacher spends a call without looking at the budget.  What makes    *)
(* this safe is that at most one call has been spent before it: a request  *)
(* that the model classified never gets a plan (ClassifierRoutes), and one *)
(* that gets a plan was not classified by the model.                       *)
(*                                                                         *)
(* What an answered turn shows is accounted for from how often each action *)
(* was sent by the time a node runs (ToldInv), and a circuit sent to the   *)
(* builder is handed over at most once (HandoffInv).                       *)
(*                                                                         *)
(* The router's account of a day holds because an attempt is reported once *)
(* and lies behind its chain (RouterInv), so that a callback corrects the  *)
(* level by as much as it changes what the call owes.                      *)
(*                                                                         *)
(* The browser's board is the server's and each object is drawn once, for  *)
(* any number of objects, texts, steps and events: both reducers keep the  *)
(* lists and the objects of a board together (FollowsListed), and, but for *)
(* the steps, agree on what they make of equal boards (FollowsErased), so  *)
(* that every board is a replay of the log (BoardInv).                     *)
(***************************************************************************)
EXTENDS TurnWorkflow, CircuitHandoff, ModelRouter, Whiteboard, ListLemmas, FiniteSetTheorems

\* How much may be spent at each node.
BudgetInv ==
  /\ calls \in Nat /\ calls <= MaxCalls
  /\ retries \in Nat /\ retries <= MaxRetries
  /\ node \in {"load_context", "orchestrate", "lesson_plan"} => calls = 0
  /\ node \in {"teacher", "teaching"} => calls <= 1
  /\ node = "retry" => retries < MaxRetries

\* Steps that spend nothing and lead neither to a drafting agent's retry nor
\* back to the nodes before the teacher.
LEMMA BudgetKeptByQuietStep ==
  ASSUME BudgetInv, UNCHANGED <<calls, retries>>,
         node' \notin {"load_context", "orchestrate", "lesson_plan", "teacher", "teaching", "retry"}
  PROVE  BudgetInv'
  BY DEF BudgetInv

LEMMA BudgetInit == TurnInit => BudgetInv
  BY WorkflowAssumption DEF TurnInit, BudgetInv

LEMMA BudgetStep == BudgetInv /\ [TurnNext]_turnVars => BudgetInv'
<1> SUFFICES ASSUME BudgetInv, [TurnNext]_turnVars PROVE BudgetInv'
  OBVIOUS
<1>1. CASE LoadContext
  BY <1>1 DEF LoadContext, Moves, BudgetInv
<1>2. CASE Orchestrate
  <2>0. calls = 0 /\ retries' = retries /\ node = "orchestrate"
    BY <1>2 DEF Orchestrate, BudgetInv
  <2>1. calls' = 0 \/ (calls' = 1 /\ route' \in ClassifierRoutes)
    BY <1>2, <2>0 DEF Orchestrate
  <2>2. node' = IF route'.plan THEN "lesson_plan" ELSE "teacher"
    BY <1>2 DEF Orchestrate
  <2>3. calls' = 1 => node' = "teacher"
    BY <2>1, <2>2 DEF ClassifierRoutes
  <2> QED
    BY <2>0, <2>1, <2>2, <2>3, WorkflowAssumption DEF BudgetInv
<1>3. CASE LessonPlan
  BY <1>3, WorkflowAssumption DEF LessonPlan, Moves, BudgetInv
<1>4. CASE OpenStep
  BY <1>4 DEF OpenStep, Moves, BudgetInv
<1>5. CASE Teach
  BY <1>5, WorkflowAssumption DEF Teach, BudgetInv
<1>6. CASE CircuitAgent
  <2>0. calls' = calls \/ (~(calls >= MaxCalls) /\ calls' = calls + 1)
    BY <1>6, Zenon DEF CircuitAgent
  <2>1. calls' = calls \/ (calls < MaxCalls /\ calls' = calls + 1)
    BY <2>0, WorkflowAssumption DEF BudgetInv
  <2>2. node' = "math_agent" /\ retries' = retries
    BY <1>6 DEF CircuitAgent, Moves
  <2> QED
    BY <2>1, <2>2, WorkflowAssumption DEF BudgetInv
<1>7. CASE MathAgent
  <2>0. calls' = calls \/ (~(calls >= MaxCalls) /\ calls' = calls + 1)
    BY <1>7, Zenon DEF MathAgent
  <2>1. calls' = calls \/ (calls < MaxCalls /\ calls' = calls + 1)
    BY <2>0, WorkflowAssumption DEF BudgetInv
  <2>2. node' = "validate" /\ retries' = retries
    BY <1>7 DEF MathAgent, Moves
  <2> QED
    BY <2>1, <2>2, WorkflowAssumption DEF BudgetInv
<1>8. CASE Validate
  <2>1. node' = "retry" => retries < MaxRetries
    BY <1>8 DEF Validate, WantsRetry
  <2>2. node' \in {"retry", "emit_circuit"} /\ UNCHANGED <<calls, retries>>
    BY <1>8 DEF Validate
  <2> QED
    BY <2>1, <2>2 DEF BudgetInv
<1>9. CASE Retry
  BY <1>9, WorkflowAssumption DEF Retry, Moves, BudgetInv
<1>10. CASE EmitCircuit
  BY <1>10, BudgetKeptByQuietStep DEF EmitCircuit, Sends, Passes, Moves
<1>11. CASE EmitHighlight
  BY <1>11, BudgetKeptByQuietStep DEF EmitHighlight, Sends, Moves
<1>12. CASE EmitCaption
  BY <1>12, BudgetKeptByQuietStep DEF EmitCaption, Sends, Passes, Moves
<1>13. CASE EmitMath
  BY <1>13, BudgetKeptByQuietStep DEF EmitMath, Sends, Passes, Moves
<1>14. CASE EmitClose
  BY <1>14, BudgetKeptByQuietStep DEF EmitClose, Sends, Moves
<1>15. CASE Finish
  BY <1>15, BudgetKeptByQuietStep DEF Finish
<1>16. CASE RunRaises
  BY <1>16, BudgetKeptByQuietStep DEF RunRaises
<1>17. CASE Superseded
  BY <1>17, BudgetKeptByQuietStep DEF Superseded
<1>18. CASE UNCHANGED turnVars
  BY <1>18 DEF turnVars, BudgetInv
<1> QED
  BY <1>1, <1>2, <1>3, <1>4, <1>5, <1>6, <1>7, <1>8, <1>9, <1>10, <1>11, <1>12, <1>13,
     <1>14, <1>15, <1>16, <1>17, <1>18 DEF TurnNext, GraphStep

\* A turn never spends more model calls, nor more retries, than the limits
\* (docs/security.md:58), for all limits with at least two calls.
THEOREM TurnKeepsBudget == TurnSpec => []BudgetKept
<1>1. BudgetInv => BudgetKept
  BY DEF BudgetInv, BudgetKept
<1> QED
  BY BudgetInit, BudgetStep, <1>1, PTL DEF TurnSpec

-----------------------------------------------------------------------------
\* What is verified has a clean draft behind it, which no agent replaces.
VerifiedInv ==
  /\ circuit.drawn => circuit.draft # "none" /\ ~circuit.errors
  /\ circuit.drawn => circuit.draft = "good"
  /\ math.accepted \in Nat
  /\ math.accepted > 0 => math.drafts > 0 /\ ~math.errors /\ math.accepted = math.valid

LEMMA VerifiedInit == TurnTypeOK /\ TurnInit => VerifiedInv
  BY DEF TurnInit, VerifiedInv

\* One step keeps the invariant and what is verified, given the types.
LEMMA VerifiedStep ==
  ASSUME TurnTypeOK, VerifiedInv, [TurnNext]_turnVars
  PROVE  /\ VerifiedInv'
         /\ circuit.drawn => circuit'.drawn
         /\ math.accepted > 0 => math'.accepted = math.accepted
<1>0. /\ circuit \in [draft : Draft, errors : BOOLEAN, drawn : BOOLEAN]
      /\ math \in [drafts : 0 .. MaxEquations, valid : 0 .. MaxEquations, errors : BOOLEAN,
                   accepted : 0 .. MaxEquations]
  BY DEF TurnTypeOK
<1>1. CASE UNCHANGED <<circuit, math>>
  BY <1>1 DEF VerifiedInv
<1>2. CASE CircuitAgent
  <2>1. math' = math
    BY <1>2 DEF CircuitAgent
  <2>2. circuit' = circuit \/ (~circuit.drawn /\ ~circuit'.drawn)
    BY <1>0, <1>2 DEF CircuitAgent, VerifiedInv, Draft
  <2> QED
    BY <2>1, <2>2 DEF VerifiedInv
<1>3. CASE MathAgent
  <2>1. circuit' = circuit
    BY <1>3 DEF MathAgent
  <2>2. math' = math \/ (math.accepted = 0 /\ math'.accepted = 0)
    <3>1. \/ math' = math
          \/ \E n \in 0 .. MaxEquations : \E v \in 0 .. n :
               math' = [math EXCEPT !.drafts = n, !.valid = v, !.errors = (n = 0)]
          \/ math' = [math EXCEPT !.drafts = 0, !.errors = TRUE]
      BY <1>3 DEF MathAgent
    <3>2. math.accepted > 0 => math' = math
      <4>1. math.accepted > 0 => math.drafts > 0 /\ ~math.errors
        BY DEF VerifiedInv
      <4> QED
        BY <1>3, <4>1 DEF MathAgent
    <3>3. math' = math \/ math'.accepted = math.accepted
      BY <1>0, <3>1
    <3> QED
      BY <1>0, <3>2, <3>3
  <2> QED
    BY <1>0, <2>1, <2>2 DEF VerifiedInv
<1>4. CASE Validate
  <2>1. circuit' = ReviewedCircuit /\ math' = ReviewedMath
    BY <1>4 DEF Validate
  <2>2. /\ circuit'.drawn => circuit'.draft = "good" /\ ~circuit'.errors
        /\ circuit.drawn => circuit'.drawn
    BY <1>0, <2>1 DEF ReviewedCircuit, VerifiedInv
  <2>3. math' = math \/ (/\ math.drafts > 0 /\ ~math.errors
                         /\ math' = [math EXCEPT !.accepted = math.valid, !.errors = math.valid = 0])
    BY <2>1 DEF ReviewedMath
  <2>4. CASE math' = math
    BY <2>2, <2>4 DEF VerifiedInv
  <2>5. CASE math' # math
    <3>1. /\ math'.drafts = math.drafts /\ math'.valid = math.valid
          /\ math'.accepted = math.valid /\ math'.errors = (math.valid = 0)
      BY <1>0, <2>3, <2>5
    <3> QED
      BY <1>0, <2>2, <2>3, <2>5, <3>1, WorkflowAssumption DEF VerifiedInv
  <2> QED
    BY <2>4, <2>5
<1>5. TurnNext => CircuitAgent \/ MathAgent \/ Validate \/ UNCHANGED <<circuit, math>>
  BY DEF TurnNext, GraphStep, LoadContext, Orchestrate, LessonPlan, OpenStep, Teach, Retry, EmitCircuit,
         EmitHighlight, EmitCaption, EmitMath, EmitClose, Sends, Passes, Finish, RunRaises, Superseded
<1> QED
  BY <1>1, <1>2, <1>3, <1>4, <1>5 DEF turnVars

-----------------------------------------------------------------------------
(* Types, and the theorem about what is verified                           *)

LEMMA TypeInit == TurnInit => TurnTypeOK
<1> SUFFICES ASSUME TurnInit PROVE TurnTypeOK
  OBVIOUS
<1>1. node \in Running \cup Ended /\ route \in Route
  BY DEF TurnInit, Running, Route
<1>2. calls \in Nat /\ retries \in Nat /\ answer \in BOOLEAN
  BY DEF TurnInit
<1>3. circuit \in [draft : Draft, errors : BOOLEAN, drawn : BOOLEAN]
  BY DEF TurnInit, Draft
<1>4. math \in [drafts : 0 .. MaxEquations, valid : 0 .. MaxEquations, errors : BOOLEAN,
                accepted : 0 .. MaxEquations]
  <2>1. 0 \in 0 .. MaxEquations
    BY WorkflowAssumption
  <2> QED
    BY <2>1 DEF TurnInit
<1>5. sent \in Seq(Action)
  BY DEF TurnInit
<1> QED
  BY <1>1, <1>2, <1>3, <1>4, <1>5 DEF TurnTypeOK

\* Sending appends an action of the alphabet.
LEMMA TypeSend ==
  ASSUME TurnTypeOK, NEW a \in Action, NEW from, NEW to \in Running \cup Ended, Sends(from, a, to)
  PROVE  TurnTypeOK'
  BY DEF Sends, Moves, TurnTypeOK

LEMMA TypePass ==
  ASSUME TurnTypeOK, NEW from, NEW to \in Running \cup Ended, Passes(from, to)
  PROVE  TurnTypeOK'
  BY DEF Passes, Moves, TurnTypeOK

LEMMA TypeStep == TurnTypeOK /\ [TurnNext]_turnVars => TurnTypeOK'
<1> SUFFICES ASSUME TurnTypeOK, [TurnNext]_turnVars PROVE TurnTypeOK'
  OBVIOUS
<1>1. CASE LoadContext \/ Retry
  BY <1>1 DEF LoadContext, Retry, Moves, TurnTypeOK, Running
<1>2. CASE Orchestrate
  <2>1. route' \in Route
    <3>1. [circuit |-> FALSE, math |-> FALSE, plan |-> FALSE] \in Route
      BY DEF Route
    <3>2. HeuristicRoutes \subseteq Route /\ ClassifierRoutes \subseteq Route
      BY DEF HeuristicRoutes, ClassifierRoutes
    <3> QED
      BY <1>2, <3>1, <3>2, Zenon DEF Orchestrate
  <2>2. calls' \in Nat
    BY <1>2 DEF Orchestrate, TurnTypeOK
  <2>3. node' \in Running /\ UNCHANGED <<retries, answer, circuit, math, sent>>
    BY <1>2 DEF Orchestrate, Running
  <2> QED
    BY <2>1, <2>2, <2>3 DEF TurnTypeOK
<1>3. CASE LessonPlan \/ Teach
  BY <1>3 DEF LessonPlan, Teach, Moves, TurnTypeOK, Running
<1>4. CASE OpenStep
  <2>1. sent' \in Seq(Action)
    BY <1>4 DEF OpenStep, TurnTypeOK, Action
  <2> QED
    BY <1>4, <2>1 DEF OpenStep, Moves, TurnTypeOK, Running
<1>5. CASE CircuitAgent
  <2>1. calls' = calls \/ calls' = calls + 1
    BY <1>5, Zenon DEF CircuitAgent
  <2>2. circuit' \in [draft : Draft, errors : BOOLEAN, drawn : BOOLEAN]
    <3>1. \/ circuit' = circuit
          \/ \E d \in Draft, e \in BOOLEAN : circuit' = [circuit EXCEPT !.draft = d, !.errors = e]
      BY <1>5 DEF CircuitAgent, Draft
    <3> QED
      BY <3>1 DEF TurnTypeOK
  <2>3. node' = "math_agent" /\ UNCHANGED <<route, retries, answer, math, sent>>
    BY <1>5 DEF CircuitAgent, Moves
  <2> QED
    BY <2>1, <2>2, <2>3 DEF TurnTypeOK, Running
<1>6. CASE MathAgent
  <2>1. calls' = calls \/ calls' = calls + 1
    BY <1>6, Zenon DEF MathAgent
  <2>2. \/ math' = math
        \/ \E n \in 0 .. MaxEquations : \E v \in 0 .. n :
             math' = [math EXCEPT !.drafts = n, !.valid = v, !.errors = (n = 0)]
        \/ math' = [math EXCEPT !.drafts = 0, !.errors = TRUE]
    BY <1>6 DEF MathAgent
  <2>3. math' \in [drafts : 0 .. MaxEquations, valid : 0 .. MaxEquations, errors : BOOLEAN,
                   accepted : 0 .. MaxEquations]
    <3>0. math \in [drafts : 0 .. MaxEquations, valid : 0 .. MaxEquations, errors : BOOLEAN,
                    accepted : 0 .. MaxEquations]
      BY DEF TurnTypeOK
    <3>1. CASE math' = math
      BY <3>0, <3>1
    <3>2. CASE \E n \in 0 .. MaxEquations : \E v \in 0 .. n :
                 math' = [math EXCEPT !.drafts = n, !.valid = v, !.errors = (n = 0)]
      <4>0. PICK n \in 0 .. MaxEquations : \E v \in 0 .. n :
                   math' = [math EXCEPT !.drafts = n, !.valid = v, !.errors = (n = 0)]
        BY <3>2
      <4>1. PICK v \in 0 .. n : math' = [math EXCEPT !.drafts = n, !.valid = v, !.errors = (n = 0)]
        BY <4>0
      <4>2. v \in 0 .. MaxEquations /\ (n = 0) \in BOOLEAN
        BY WorkflowAssumption
      <4> QED
        BY <3>0, <4>1, <4>2
    <3>3. CASE math' = [math EXCEPT !.drafts = 0, !.errors = TRUE]
      <4>1. 0 \in 0 .. MaxEquations
        BY WorkflowAssumption
      <4> QED
        BY <3>0, <3>3, <4>1
    <3> QED
      BY <2>2, <3>1, <3>2, <3>3
  <2>4. node' = "validate" /\ UNCHANGED <<route, retries, answer, circuit, sent>>
    BY <1>6 DEF MathAgent, Moves
  <2> QED
    BY <2>1, <2>3, <2>4 DEF TurnTypeOK, Running
<1>7. CASE Validate
  <2>1. ReviewedCircuit \in [draft : Draft, errors : BOOLEAN, drawn : BOOLEAN]
    BY DEF TurnTypeOK, ReviewedCircuit
  <2>2. ReviewedMath \in [drafts : 0 .. MaxEquations, valid : 0 .. MaxEquations, errors : BOOLEAN,
                          accepted : 0 .. MaxEquations]
    BY DEF TurnTypeOK, ReviewedMath
  <2> QED
    BY <1>7, <2>1, <2>2 DEF Validate, TurnTypeOK, Running
<1>8. CASE EmitCircuit
  BY <1>8, TypeSend, TypePass DEF EmitCircuit, Action, Running
<1>9. CASE EmitHighlight \/ EmitCaption
  BY <1>9, TypeSend, TypePass DEF EmitHighlight, EmitCaption, Action, Running
<1>10. CASE EmitMath
  BY <1>10, TypeSend, TypePass DEF EmitMath, Action, Running
<1>11. CASE EmitClose
  BY <1>11, TypeSend DEF EmitClose, Action, Running
<1>12. CASE Finish \/ RunRaises \/ Superseded
  BY <1>12 DEF Finish, RunRaises, Superseded, TurnTypeOK, Ended
<1>13. CASE UNCHANGED turnVars
  BY <1>13 DEF turnVars, TurnTypeOK
<1> QED
  BY <1>1, <1>2, <1>3, <1>4, <1>5, <1>6, <1>7, <1>8, <1>9, <1>10, <1>11, <1>12, <1>13 DEF TurnNext, GraphStep

\* Every reachable state of a turn has the declared types.
THEOREM TurnTypeCorrect == TurnSpec => []TurnTypeOK
  BY TypeInit, TypeStep, PTL DEF TurnSpec

\* A retry for one agent never loses or changes what the validator accepted
\* from the other, whatever the limits are.
THEOREM TurnKeepsVerified == TurnSpec => VerifiedIsKept
<1>1. TurnTypeOK /\ VerifiedInv /\ [TurnNext]_turnVars =>
        [(circuit.drawn => circuit'.drawn) /\ (math.accepted > 0 => math'.accepted = math.accepted)]_turnVars
  BY VerifiedStep
<1>2. TurnTypeOK /\ VerifiedInv /\ [TurnNext]_turnVars => VerifiedInv'
  BY VerifiedStep
<1> QED
  BY TypeInit, TypeStep, VerifiedInit, <1>1, <1>2, PTL DEF TurnSpec, VerifiedIsKept

-----------------------------------------------------------------------------
(* What the student is told.  Counting what was sent is only inductive with *)
(* what is still to be sent at each node of emit_node.                      *)

Visuals == {"circuit", "circuit_error", "equation", "math_error"}
Before == {"load_context", "orchestrate", "lesson_plan", "teacher"}
Drafting == {"teaching", "circuit_agent", "math_agent", "validate", "retry", "emit_circuit"}

CircuitTold ==
  /\ Count("circuit") + Count("circuit_error") = (IF route.circuit THEN 1 ELSE 0)
  /\ Count("circuit") = 1 => circuit.drawn
MathTold ==
  /\ route.math => (Count("equation") > 0 <=> Count("math_error") = 0)
  /\ ~route.math => Count("equation") + Count("math_error") = 0
  /\ Count("equation") <= math.accepted

BracketInv ==
  /\ \A i \in DOMAIN sent : sent[i] = "step_started" => i = 1
  /\ \A i \in DOMAIN sent : sent[i] = "step_completed" => i = Len(sent) /\ node \notin Running \ {"finish"}

ToldInv ==
  /\ node \in Before => sent = <<>>
  /\ node \in Drafting => \A a \in Visuals : Count(a) = 0
  /\ node \in {"emit_highlight", "emit_caption"} =>
       /\ route.circuit /\ circuit.drawn
       /\ Count("circuit") = 1 /\ Count("circuit_error") = 0
       /\ Count("equation") = 0 /\ Count("math_error") = 0
  /\ node = "emit_math" =>
       /\ CircuitTold /\ Count("math_error") = 0
       /\ Count("equation") <= math.accepted /\ (~route.math => Count("equation") = 0)
  /\ node \in {"emit_close", "finish", "answered"} => CircuitTold /\ MathTold
  /\ node \in {"finish", "answered"} => Count("step_completed") = 1

LEMMA CountType ==
  ASSUME TurnTypeOK, NEW a
  PROVE  Count(a) \in Nat
<1> DEFINE S == {i \in DOMAIN sent : sent[i] = a}
<1>1. IsFiniteSet(S)
  <2>1. Len(sent) \in Nat /\ DOMAIN sent = 1 .. Len(sent)
    BY DEF TurnTypeOK
  <2>2. IsFiniteSet(1 .. Len(sent)) /\ S \in SUBSET (1 .. Len(sent))
    BY <2>1, FS_Interval
  <2> QED
    BY <2>2, FS_Subset
<1> QED
  BY <1>1, FS_CardinalityType DEF Count

LEMMA CountNothing ==
  ASSUME NEW a, \A i \in DOMAIN sent : sent[i] # a
  PROVE  Count(a) = 0
<1>1. {i \in DOMAIN sent : sent[i] = a} = {}
  OBVIOUS
<1> QED
  BY <1>1, FS_EmptySet DEF Count

\* Sending b counts one more of b and of nothing else.
LEMMA CountSent ==
  ASSUME TurnTypeOK, NEW b \in Action, sent' = Append(sent, b), NEW a
  PROVE  Count(a)' = IF a = b THEN Count(a) + 1 ELSE Count(a)
<1> DEFINE S == {i \in DOMAIN sent : sent[i] = a}
           T == {i \in DOMAIN sent' : sent'[i] = a}
<1>1. /\ Len(sent) \in Nat /\ DOMAIN sent = 1 .. Len(sent) /\ DOMAIN sent' = 1 .. Len(sent) + 1
      /\ sent'[Len(sent) + 1] = b /\ \A i \in 1 .. Len(sent) : sent'[i] = sent[i]
  BY DEF TurnTypeOK
<1>2. IsFiniteSet(S)
  <2>1. 1 \in Int /\ Len(sent) \in Int
    BY <1>1
  <2>2. IsFiniteSet(1 .. Len(sent))
    BY ONLY <2>1, FS_Interval
  <2>3. S \in SUBSET (1 .. Len(sent))
    BY <1>1
  <2> QED
    BY <2>2, <2>3, FS_Subset
<1>3. T = IF a = b THEN S \cup {Len(sent) + 1} ELSE S
  <2>1. \A i : i \in 1 .. Len(sent) + 1 <=> i \in 1 .. Len(sent) \/ i = Len(sent) + 1
    BY <1>1
  <2> QED
    BY <1>1, <2>1
<1>4. Len(sent) + 1 \notin S
  BY <1>1
<1>5. Cardinality(T) = IF a = b THEN Cardinality(S) + 1 ELSE Cardinality(S)
  <2> HIDE DEF S, T
  <2> QED
    BY <1>2, <1>3, <1>4, FS_AddElement
<1> QED
  BY <1>5 DEF Count

LEMMA CountKept ==
  ASSUME UNCHANGED sent, NEW a
  PROVE  Count(a)' = Count(a)
  BY DEF Count

\* An action that is not the opening of the step is sent behind all others.
LEMMA BracketSend ==
  ASSUME TurnTypeOK, BracketInv, NEW b \in Action, sent' = Append(sent, b), node \in Running \ {"finish"},
         b = "step_started" => sent = <<>>,
         b = "step_completed" => node' = "finish"
  PROVE  BracketInv'
<1>1. /\ Len(sent) \in Nat /\ DOMAIN sent = 1 .. Len(sent) /\ DOMAIN sent' = 1 .. Len(sent) + 1
      /\ sent'[Len(sent) + 1] = b /\ \A i \in 1 .. Len(sent) : sent'[i] = sent[i]
      /\ Len(sent') = Len(sent) + 1
      /\ sent = <<>> => Len(sent) = 0
  BY DEF TurnTypeOK
<1>2. \A i \in DOMAIN sent' : i \in DOMAIN sent \/ (i = Len(sent) + 1 /\ sent'[i] = b)
  BY <1>1
<1>3. \A i \in DOMAIN sent' : sent'[i] = "step_started" => i = 1
  BY <1>1, <1>2 DEF BracketInv
<1>4. \A i \in DOMAIN sent' : sent'[i] = "step_completed" => i = Len(sent') /\ node' = "finish"
  BY <1>1, <1>2 DEF BracketInv
<1> QED
  BY <1>3, <1>4 DEF BracketInv

\* A step that sends nothing.
LEMMA BracketPass ==
  ASSUME BracketInv, UNCHANGED sent, node \in Running \ {"finish"} \/ node' \notin Running \ {"finish"}
  PROVE  BracketInv'
  BY DEF BracketInv

LEMMA BracketStep == TurnTypeOK /\ ToldInv /\ BracketInv /\ [TurnNext]_turnVars => BracketInv'
<1> SUFFICES ASSUME TurnTypeOK, ToldInv, BracketInv, [TurnNext]_turnVars PROVE BracketInv'
  OBVIOUS
<1> USE DEF Moves
<1>1. CASE OpenStep
  <2>1. node = "teacher" /\ (sent' = sent \/ sent' = Append(sent, "step_started"))
    BY <1>1 DEF OpenStep
  <2>2. sent = <<>>
    BY <2>1 DEF ToldInv, Before
  <2> QED
    BY <2>1, <2>2, BracketSend, BracketPass DEF Running, Action
<1>2. ASSUME NEW from \in Running \ {"finish"}, NEW b \in Action \ {"step_started"}, NEW to,
             Sends(from, b, to), b = "step_completed" => to = "finish"
      PROVE  BracketInv'
  BY <1>2, BracketSend DEF Sends
<1>3. CASE UNCHANGED sent
  <2>1. CASE node \in Running \ {"finish"}
    BY <1>3, <2>1, BracketPass
  <2>2. CASE node \notin Running \ {"finish"}
    <3>1. node' \notin Running \ {"finish"}
      BY <2>2 DEF TurnNext, GraphStep, LoadContext, Orchestrate, LessonPlan, OpenStep, Teach, CircuitAgent,
             MathAgent, Validate, Retry, EmitCircuit, EmitHighlight, EmitCaption, EmitMath, EmitClose,
             Sends, Passes, Finish, RunRaises, Superseded, Running, turnVars
    <3> QED
      BY <1>3, <3>1, BracketPass
  <2> QED
    BY <2>1, <2>2
<1>4. CASE EmitCircuit \/ EmitHighlight \/ EmitCaption \/ EmitMath
  BY <1>2, <1>3, <1>4 DEF EmitCircuit, EmitHighlight, EmitCaption, EmitMath, Passes, Running, Action
<1>5. CASE EmitClose
  BY <1>2, <1>5 DEF EmitClose, Running, Action
<1>6. TurnNext => OpenStep \/ EmitCircuit \/ EmitHighlight \/ EmitCaption \/ EmitMath \/ EmitClose \/ UNCHANGED sent
  BY DEF TurnNext, GraphStep, LoadContext, Orchestrate, LessonPlan, Teach, CircuitAgent, MathAgent, Validate,
         Retry, Finish, RunRaises, Superseded
<1> QED
  BY <1>1, <1>3, <1>4, <1>5, <1>6 DEF turnVars

LEMMA ToldInit == TurnInit => ToldInv /\ BracketInv
  BY DEF TurnInit, ToldInv, BracketInv, Before, Drafting

\* Up to the first emission nothing of a visual is sent, whatever is drafted.
LEMMA ToldWhileDrafting ==
  ASSUME TurnTypeOK, ToldInv, node \in Before \cup Drafting, node' \in Before \cup Drafting,
         node' \in Before => node \in Before /\ sent' = sent,
         sent' = sent \/ (sent = <<>> /\ sent' = Append(sent, "step_started"))
  PROVE  ToldInv'
<1>1. \A a \in Visuals : Count(a) = 0
  <2>1. CASE node \in Before
    BY <2>1, CountNothing DEF ToldInv
  <2>2. CASE node \in Drafting
    BY <2>2 DEF ToldInv
  <2> QED
    BY <2>1, <2>2
<1>2. \A a \in Visuals : Count(a)' = 0
  <2>1. CASE sent' = sent
    BY <1>1, <2>1, CountKept
  <2>2. CASE sent' = Append(sent, "step_started")
    BY <1>1, <2>2, CountSent DEF Visuals, Action
  <2> QED
    BY <2>1, <2>2
<1>3. node' \in Before => sent' = <<>>
  BY DEF ToldInv
<1>4. node' \notin {"emit_highlight", "emit_caption", "emit_math", "emit_close", "finish", "answered"}
  BY DEF Before, Drafting
<1> QED
  BY <1>2, <1>3, <1>4 DEF ToldInv

\* A run that is stopped tells nothing more.
LEMMA ToldStopped ==
  ASSUME node' \in {"failed", "superseded"}
  PROVE  ToldInv'
  BY DEF ToldInv, Before, Drafting

LEMMA ToldCircuit == TurnTypeOK /\ ToldInv /\ (EmitCircuit \/ EmitHighlight \/ EmitCaption) => ToldInv'
<1> SUFFICES ASSUME TurnTypeOK, ToldInv, EmitCircuit \/ EmitHighlight \/ EmitCaption PROVE ToldInv'
  OBVIOUS
<1> USE DEF Moves
<1>0. math.accepted \in Nat
  BY WorkflowAssumption DEF TurnTypeOK
<1>1. ASSUME node = "emit_circuit" PROVE \A a \in Visuals : Count(a) = 0
  BY <1>1 DEF ToldInv, Drafting
<1>2. ASSUME NEW b \in Action, sent' = Append(sent, b), NEW a
      PROVE  Count(a)' = IF a = b THEN Count(a) + 1 ELSE Count(a)
  BY <1>2, CountSent
<1>3. CASE route.circuit /\ circuit.drawn /\ Sends("emit_circuit", "circuit", "emit_highlight")
  <2>1. node = "emit_circuit" /\ node' = "emit_highlight" /\ sent' = Append(sent, "circuit")
        /\ UNCHANGED <<route, circuit, math>>
    BY <1>3 DEF Sends
  <2>2. /\ Count("circuit")' = 1 /\ Count("circuit_error")' = 0
        /\ Count("equation")' = 0 /\ Count("math_error")' = 0
    BY <1>1, <1>2, <2>1 DEF Visuals, Action
  <2> QED
    BY <1>3, <2>1, <2>2 DEF ToldInv, Before, Drafting
<1>4. CASE route.circuit /\ ~circuit.drawn /\ Sends("emit_circuit", "circuit_error", "emit_math")
  <2>1. node = "emit_circuit" /\ node' = "emit_math" /\ sent' = Append(sent, "circuit_error")
        /\ UNCHANGED <<route, circuit, math>>
    BY <1>4 DEF Sends
  <2>2. /\ Count("circuit")' = 0 /\ Count("circuit_error")' = 1
        /\ Count("equation")' = 0 /\ Count("math_error")' = 0
    BY <1>1, <1>2, <2>1 DEF Visuals, Action
  <2> QED
    BY <1>0, <1>4, <2>1, <2>2 DEF ToldInv, CircuitTold, Before, Drafting
<1>5. CASE ~route.circuit /\ Passes("emit_circuit", "emit_math")
  <2>1. node = "emit_circuit" /\ node' = "emit_math" /\ UNCHANGED <<sent, route, circuit, math>>
    BY <1>5 DEF Passes
  <2>2. /\ Count("circuit")' = 0 /\ Count("circuit_error")' = 0
        /\ Count("equation")' = 0 /\ Count("math_error")' = 0
    BY <1>1, <2>1, CountKept DEF Visuals
  <2> QED
    BY <1>0, <1>5, <2>1, <2>2 DEF ToldInv, CircuitTold, Before, Drafting
<1>6. CASE EmitHighlight \/ EmitCaption
  <2>1. /\ node \in {"emit_highlight", "emit_caption"} /\ node' \in {"emit_caption", "emit_math"}
        /\ UNCHANGED <<route, circuit, math>>
        /\ sent' = sent \/ sent' = Append(sent, "highlight") \/ sent' = Append(sent, "caption")
    BY <1>6 DEF EmitHighlight, EmitCaption, Sends, Passes
  <2>2. \A a \in Visuals : Count(a)' = Count(a)
    BY <1>2, <2>1, CountKept DEF Visuals, Action
  <2>3. /\ route.circuit /\ circuit.drawn
        /\ Count("circuit") = 1 /\ Count("circuit_error") = 0
        /\ Count("equation") = 0 /\ Count("math_error") = 0
    BY <2>1 DEF ToldInv
  <2> QED
    BY <1>0, <2>1, <2>2, <2>3 DEF ToldInv, CircuitTold, Before, Drafting, Visuals
<1> QED
  BY <1>3, <1>4, <1>5, <1>6 DEF EmitCircuit

LEMMA ToldMath == TurnTypeOK /\ ToldInv /\ BracketInv /\ (EmitMath \/ EmitClose \/ Finish) => ToldInv'
<1> SUFFICES ASSUME TurnTypeOK, ToldInv, BracketInv, EmitMath \/ EmitClose \/ Finish PROVE ToldInv'
  OBVIOUS
<1> USE DEF Moves
<1>0. /\ math.accepted \in Nat /\ Count("equation") \in Nat /\ Count("math_error") \in Nat
  BY WorkflowAssumption, CountType DEF TurnTypeOK
<1>1. ASSUME NEW b \in Action, sent' = Append(sent, b), NEW a
      PROVE  Count(a)' = IF a = b THEN Count(a) + 1 ELSE Count(a)
  BY <1>1, CountSent
<1>2. CASE EmitMath
  <2>1. /\ CircuitTold /\ Count("math_error") = 0
        /\ Count("equation") <= math.accepted /\ (~route.math => Count("equation") = 0)
        /\ UNCHANGED <<route, circuit, math>>
    BY <1>2 DEF EmitMath, Sends, Passes, ToldInv
  <2>2. ASSUME NEW b \in Action \ {"circuit", "circuit_error"}, sent' = sent \/ sent' = Append(sent, b)
        PROVE  CircuitTold'
    <3>1. Count("circuit")' = Count("circuit") /\ Count("circuit_error")' = Count("circuit_error")
      BY <1>1, <2>2, CountKept
    <3> QED
      BY <2>1, <3>1 DEF CircuitTold
  <2>3. CASE route.math /\ math.accepted > Written /\ Sends("emit_math", "equation", "emit_math")
    <3>1. node' = "emit_math" /\ sent' = Append(sent, "equation")
      BY <2>3 DEF Sends
    <3>2. Count("equation")' = Count("equation") + 1 /\ Count("math_error")' = 0
      BY <1>1, <2>1, <3>1 DEF Action
    <3>3. CircuitTold'
      BY <2>2, <3>1 DEF Action
    <3> QED
      BY <1>0, <2>1, <2>3, <3>1, <3>2, <3>3 DEF ToldInv, Written, Before, Drafting
  <2>4. CASE /\ \/ route.math /\ math.accepted > 0 /\ math.accepted = Written
                \/ ~route.math
             /\ Passes("emit_math", "emit_close")
    <3>1. node' = "emit_close" /\ sent' = sent
      BY <2>4 DEF Passes
    <3>2. Count("equation")' = Count("equation") /\ Count("math_error")' = Count("math_error")
      BY <3>1, CountKept
    <3>3. CircuitTold'
      BY <2>2, <3>1 DEF Action
    <3>4. MathTold'
      BY <1>0, <2>1, <2>4, <3>2 DEF MathTold, Written
    <3> QED
      BY <3>1, <3>3, <3>4 DEF ToldInv, Before, Drafting
  <2>5. CASE route.math /\ math.accepted = 0 /\ Sends("emit_math", "math_error", "emit_close")
    <3>1. node' = "emit_close" /\ sent' = Append(sent, "math_error")
      BY <2>5 DEF Sends
    <3>2. Count("equation")' = Count("equation") /\ Count("math_error")' = 1
      BY <1>1, <2>1, <3>1 DEF Action
    <3>3. CircuitTold'
      BY <2>2, <3>1 DEF Action
    <3>4. MathTold'
      BY <1>0, <2>1, <2>5, <3>2 DEF MathTold
    <3> QED
      BY <3>1, <3>3, <3>4 DEF ToldInv, Before, Drafting
  <2> QED
    BY <1>2, <2>3, <2>4, <2>5 DEF EmitMath
<1>3. CASE EmitClose
  <2>1. /\ node = "emit_close" /\ node' = "finish" /\ sent' = Append(sent, "step_completed")
        /\ UNCHANGED <<route, circuit, math>>
    BY <1>3 DEF EmitClose, Sends
  <2>2. CircuitTold /\ MathTold
    BY <2>1 DEF ToldInv
  <2>3. \A a \in Visuals : Count(a)' = Count(a)
    BY <1>1, <2>1 DEF Visuals, Action
  <2>4. CircuitTold' /\ MathTold'
    BY <2>1, <2>2, <2>3 DEF CircuitTold, MathTold, Visuals
  <2>5. Count("step_completed") = 0
    BY <2>1, CountNothing DEF BracketInv, Running
  <2>6. Count("step_completed")' = 1
    BY <1>1, <2>1, <2>5 DEF Action
  <2> QED
    BY <2>1, <2>4, <2>6 DEF ToldInv, Before, Drafting
<1>4. CASE Finish
  <2>1. /\ node = "finish" /\ node' \in {"answered", "failed"} /\ UNCHANGED <<sent, route, circuit, math>>
    BY <1>4 DEF Finish
  <2>2. CircuitTold /\ MathTold /\ Count("step_completed") = 1
    BY <2>1 DEF ToldInv
  <2>3. CircuitTold' /\ MathTold' /\ Count("step_completed")' = 1
    BY <2>1, <2>2 DEF CircuitTold, MathTold, Count
  <2> QED
    BY <2>1, <2>3 DEF ToldInv, Before, Drafting
<1> QED
  BY <1>2, <1>3, <1>4

LEMMA ToldStep == TurnTypeOK /\ ToldInv /\ BracketInv /\ [TurnNext]_turnVars => ToldInv'
<1> SUFFICES ASSUME TurnTypeOK, ToldInv, BracketInv, [TurnNext]_turnVars PROVE ToldInv'
  OBVIOUS
<1> USE DEF Moves
<1>1. CASE LoadContext \/ Orchestrate \/ LessonPlan
  BY <1>1, ToldWhileDrafting DEF LoadContext, Orchestrate, LessonPlan, Before
<1>2. CASE OpenStep
  <2>1. sent = <<>>
    BY <1>2 DEF OpenStep, ToldInv, Before
  <2> QED
    BY <1>2, <2>1, ToldWhileDrafting DEF OpenStep, Before, Drafting
<1>3. CASE Teach \/ CircuitAgent \/ MathAgent \/ Validate \/ Retry
  BY <1>3, ToldWhileDrafting DEF Teach, CircuitAgent, MathAgent, Validate, Retry, Before, Drafting
<1>4. CASE RunRaises \/ Superseded
  BY <1>4, ToldStopped DEF RunRaises, Superseded
<1>5. CASE UNCHANGED turnVars
  BY <1>5 DEF turnVars, ToldInv, CircuitTold, MathTold, Count
<1> QED
  BY <1>1, <1>2, <1>3, <1>4, <1>5, ToldCircuit, ToldMath DEF TurnNext, GraphStep

\* What is shown of an answered turn is one closed step, in which every visual the
\* turn promised is drawn once, as it was verified, or apologised for.
THEOREM TurnIsAccounted == TurnSpec => []StepIsAccounted
<1>1. TurnTypeOK /\ ToldInv /\ BracketInv /\ VerifiedInv => StepIsAccounted
  <2> SUFFICES ASSUME TurnTypeOK, ToldInv, BracketInv, VerifiedInv PROVE StepIsAccounted
    OBVIOUS
  <2>1. VisualsAccountedFor
    <3> SUFFICES ASSUME node = "answered" PROVE VisualsAccountedFor
      BY DEF VisualsAccountedFor
    <3>1. CircuitTold /\ MathTold
      BY DEF ToldInv
    <3>2. Count("circuit") = 1 => circuit.draft = "good"
      BY <3>1 DEF CircuitTold, VerifiedInv
    <3>3. Count("equation") \in Nat /\ math.accepted \in Nat /\ math.valid \in Nat
      BY WorkflowAssumption, CountType DEF TurnTypeOK
    <3>4. math.accepted <= math.valid
      BY <3>3 DEF VerifiedInv
    <3>5. Count("equation") <= math.valid
      BY <3>1, <3>3, <3>4 DEF MathTold
    <3> QED
      BY <3>1, <3>2, <3>5 DEF VisualsAccountedFor, CircuitTold, MathTold
  <2>2. StepIsBracketed
    BY DEF StepIsBracketed, ToldInv, BracketInv
  <2> QED
    BY <2>1, <2>2 DEF StepIsAccounted
<1>2. TurnTypeOK /\ VerifiedInv /\ [TurnNext]_turnVars => VerifiedInv'
  BY VerifiedStep
<1> QED
  BY TypeInit, TypeStep, VerifiedInit, ToldInit, ToldStep, BracketStep, <1>1, <1>2, PTL DEF TurnSpec

-----------------------------------------------------------------------------
(* The way of a circuit to the builder.  What waits in sessionStorage is    *)
(* the last press, and nothing waits once a mounted page has looked.        *)

HandoffInv ==
  /\ presses \in Nat /\ stash \in {0, presses}
  /\ handed \in Seq(Nat) /\ mounted \in 0 .. Len(handed)
  /\ \A i, j \in DOMAIN handed : i < j => handed[i] < handed[j]
  /\ \A i \in DOMAIN handed : handed[i] <= presses /\ (stash # 0 => handed[i] < stash)
  /\ hook \in [standalone : BOOLEAN, checked : BOOLEAN, consumed : BOOLEAN]
  /\ hook.consumed = hook.checked
  /\ hook.checked => page = "circuit" /\ stash = 0
  /\ hook.standalone => hook.checked /\ handed # <<>> /\ handed[Len(handed)] = presses
  /\ hook.standalone <=> Len(handed) > mounted
  /\ ran[1] = ran[2]

LEMMA HandoffInvInit == HandoffInit => HandoffInv
  BY DEF HandoffInit, HandoffInv, NewHook

\* Mounting a page, with nothing of the circuits changed.
LEMMA Mounting ==
  ASSUME HandoffInv, hook' = NewHook, mounted' = Len(handed),
         UNCHANGED <<presses, stash, handed, ran>>
  PROVE  HandoffInv'
  BY DEF HandoffInv, NewHook

\* The effect takes the circuit that waits, if any.
LEMMA Taking ==
  ASSUME HandoffInv, HandoffEffect
  PROVE  HandoffInv'
<1>1. CASE stash = 0
  <2>1. /\ hook' = [standalone |-> FALSE, checked |-> TRUE, consumed |-> TRUE] /\ stash' = 0
        /\ page' = "circuit" /\ UNCHANGED <<presses, handed, mounted, ran>>
    BY <1>1 DEF HandoffEffect, TakeStashed
  <2>2. ~hook.standalone
    BY DEF HandoffEffect, HandoffInv
  <2> QED
    BY <2>1, <2>2 DEF HandoffInv
<1>2. CASE stash # 0
  <2>1. /\ hook' = [standalone |-> TRUE, checked |-> TRUE, consumed |-> TRUE] /\ stash' = 0
        /\ page' = "circuit" /\ handed' = Append(handed, stash)
        /\ UNCHANGED <<presses, mounted, ran>>
    BY <1>2 DEF HandoffEffect, TakeStashed
  <2>2. /\ presses \in Nat /\ stash = presses /\ handed \in Seq(Nat) /\ ~hook.standalone
        /\ mounted \in Nat /\ ~(Len(handed) > mounted)
        /\ \A i \in DOMAIN handed : handed[i] < presses
    BY <1>2 DEF HandoffEffect, HandoffInv
  <2>3. /\ handed' \in Seq(Nat) /\ Len(handed) \in Nat /\ Len(handed') = Len(handed) + 1
        /\ DOMAIN handed' = 1 .. Len(handed) + 1 /\ DOMAIN handed = 1 .. Len(handed)
        /\ handed' # <<>> /\ handed'[Len(handed) + 1] = presses
        /\ \A i \in 1 .. Len(handed) : handed'[i] = handed[i]
    BY <2>1, <2>2
  <2>4. \A i, j \in DOMAIN handed' : i < j => handed'[i] < handed'[j]
    <3> SUFFICES ASSUME NEW i \in DOMAIN handed', NEW j \in DOMAIN handed', i < j
                 PROVE  handed'[i] < handed'[j]
      OBVIOUS
    <3>1. i \in 1 .. Len(handed) /\ (j \in 1 .. Len(handed) \/ j = Len(handed) + 1)
      BY <2>3
    <3> QED
      BY <2>2, <2>3, <3>1 DEF HandoffInv
  <2>5. \A i \in DOMAIN handed' : handed'[i] <= presses
    <3> SUFFICES ASSUME NEW i \in DOMAIN handed' PROVE handed'[i] <= presses
      OBVIOUS
    <3>1. i \in 1 .. Len(handed) \/ i = Len(handed) + 1
      BY <2>3
    <3> QED
      BY <2>2, <2>3, <3>1 DEF HandoffInv
  <2>6. Len(handed') > mounted
    <3>1. mounted <= Len(handed)
      BY DEF HandoffInv
    <3> QED
      BY <2>2, <2>3, <3>1
  <2> QED
    BY <2>1, <2>2, <2>3, <2>4, <2>5, <2>6 DEF HandoffInv
<1> QED
  BY <1>1, <1>2

LEMMA HandoffStep == HandoffInv /\ [HandoffNext]_handoffVars => HandoffInv'
<1> SUFFICES ASSUME HandoffInv, [HandoffNext]_handoffVars PROVE HandoffInv'
  OBVIOUS
<1>1. CASE RunInBuilder
  BY <1>1 DEF RunInBuilder, Stash, HandoffInv
<1>2. CASE Arrive \/ Reload
  BY <1>2, Mounting DEF Arrive, Reload
<1>3. CASE HandoffEffect
  BY <1>3, Taking
<1>4. CASE LessonArrives \/ EditBuilder \/ TypeCode \/ (\E to \in Routes : FollowLink(to))
  BY <1>4 DEF LessonArrives, EditBuilder, TypeCode, FollowLink, HandoffInv
<1>5. CASE RunCode
  BY <1>5 DEF RunCode, HandoffInv
<1>6. CASE UNCHANGED handoffVars
  BY <1>6 DEF handoffVars, HandoffInv
<1> QED
  BY <1>1, <1>2, <1>3, <1>4, <1>5, <1>6 DEF HandoffNext

\* However navigations are given up, overtaken or followed by a reload, a circuit
\* that was handed off is loaded once, in order, into the page that looks for it
\* (lib/circuit-handoff.ts:4, "one-shot bridge").
THEOREM CircuitsAreHandedOnce == HandoffSpec => []HandoffIsOneShot
<1>1. HandoffInv => HandoffIsOneShot
  <2> SUFFICES ASSUME HandoffInv PROVE HandoffIsOneShot
    OBVIOUS
  <2>1. page = "circuit" /\ (presses > 0 /\ stash = presses) => Workspace = "placeholder"
    BY DEF HandoffInv, Workspace
  <2> QED
    BY <2>1 DEF HandoffInv, HandoffIsOneShot
<1> QED
  BY HandoffInvInit, HandoffStep, <1>1, PTL DEF HandoffSpec

\* What waits and what was handed over are presses of the button, and the builder
\* holds one of them or an edit of the student's.
THEOREM HandoffTypeCorrect == HandoffSpec => []HandoffTypeOK
<1>1. HandoffInit => HandoffTypeOK
  <2>1. /\ 0 \in 0 .. 0 /\ 0 \in 0 .. MaxPresses /\ 0 \in 0 .. MaxEdits /\ 0 \in 0 .. MaxPresses + MaxEdits
        /\ <<>> \in Seq(1 .. MaxPresses) /\ Len(<<>>) = 0
    BY HandoffAssumption, EmptySeq
  <2>2. "classroom" \in Routes /\ NewHook \in [standalone : BOOLEAN, checked : BOOLEAN, consumed : BOOLEAN]
    BY DEF Routes, NewHook
  <2> QED
    BY <2>1, <2>2 DEF HandoffInit, HandoffTypeOK
<1>2. HandoffTypeOK /\ [HandoffNext]_handoffVars => HandoffTypeOK'
  <2> SUFFICES ASSUME HandoffTypeOK, [HandoffNext]_handoffVars PROVE HandoffTypeOK'
    OBVIOUS
  <2> USE DEF HandoffTypeOK
  <2>1. MaxPresses \in Nat /\ MaxEdits \in Nat /\ Len(handed) \in Nat
    BY HandoffAssumption, LenProperties
  <2>2. ASSUME NEW to, NEW lesson, NEW shown \in Nat
        PROVE  Mounted(to, lesson, shown) \in Nat \cup {OwnText, NoText}
    BY DEF Mounted
  <2>3. CASE RunInBuilder
    BY <2>1, <2>3 DEF RunInBuilder, Stash, Routes
  <2>4. CASE Arrive
    BY <2>1, <2>2, <2>4 DEF Arrive, NewHook
  <2>5. CASE Reload
    <3>1. hook' \in [standalone : BOOLEAN, checked : BOOLEAN, consumed : BOOLEAN] /\ lessonOpen' \in BOOLEAN
      BY <2>5 DEF Reload, NewHook
    <3>2. builder' \in 0 .. MaxPresses + MaxEdits /\ mounted' \in 0 .. Len(handed')
      BY <2>1, <2>5 DEF Reload
    <3> QED
      BY <2>5, <3>1, <3>2 DEF Reload
  <2>6. CASE HandoffEffect
    <3>1. stash # 0 => stash \in 1 .. MaxPresses
      BY <2>1
    <3>2. stash # 0 => /\ Append(handed, stash) \in Seq(1 .. MaxPresses)
                       /\ Len(Append(handed, stash)) = Len(handed) + 1
      BY <3>1
    <3>3. handed' \in Seq(1 .. MaxPresses) /\ mounted' \in 0 .. Len(handed')
      <4>1. mounted \in 0 .. Len(handed) /\ mounted' = mounted
        BY <2>6 DEF HandoffEffect
      <4>2. CASE stash = 0
        BY <2>6, <4>1, <4>2 DEF HandoffEffect
      <4>3. CASE stash # 0
        <5>1. handed' = Append(handed, stash)
          BY <2>6, <4>3 DEF HandoffEffect
        <5> QED
          BY <2>1, <3>2, <4>1, <4>3, <5>1
      <4> QED
        BY <4>2, <4>3
    <3>4. stash' \in 0 .. presses' /\ builder' \in 0 .. MaxPresses + MaxEdits
      BY <2>1, <2>6, <3>1 DEF HandoffEffect, TakeStashed
    <3>5. hook' \in [standalone : BOOLEAN, checked : BOOLEAN, consumed : BOOLEAN]
      BY <2>6 DEF HandoffEffect
    <3> QED
      BY <2>6, <3>3, <3>4, <3>5 DEF HandoffEffect
  <2>7. CASE LessonArrives
    <3>1. buffer' \in Nat \cup {OwnText, NoText}
      <4>1. builder \in Nat
        BY <2>1
      <4>2. Mounted(page, TRUE, builder) \in Nat \cup {OwnText, NoText}
        BY <2>2, <4>1
      <4> QED
        BY <2>7, <4>2 DEF LessonArrives
    <3> QED
      BY <2>7, <3>1 DEF LessonArrives
  <2>8. CASE EditBuilder
    BY <2>1, <2>8 DEF EditBuilder
  <2>9. CASE TypeCode \/ RunCode
    BY <2>1, <2>9 DEF TypeCode, RunCode
  <2>10. ASSUME NEW to \in Routes, FollowLink(to) PROVE HandoffTypeOK'
    BY <2>10 DEF FollowLink
  <2>11. CASE UNCHANGED handoffVars
    BY <2>11 DEF handoffVars
  <2> QED
    BY <2>3, <2>4, <2>5, <2>6, <2>7, <2>8, <2>9, <2>10, <2>11 DEF HandoffNext
<1> QED
  BY <1>1, <1>2, PTL DEF HandoffSpec

-----------------------------------------------------------------------------
(* The models it asks                                                      *)

Attempts == reports \cup settled

LevelOK(lev) ==
  /\ lev \in [Models -> UNION {[Buckets(m) -> Int] : m \in Models}]
  /\ \A m \in Models : lev[m] \in [Buckets(m) -> Int]

ChainOK(ch) ==
  /\ ch.order \in [1 .. Cardinality(Models) -> Models]
  /\ \A i, j \in 1 .. Cardinality(Models) : ch.order[i] = ch.order[j] => i = j
  /\ ch.tokens \in Nat /\ ch.at \in 1 .. Cardinality(Models) /\ ch.active \in BOOLEAN
Chain == [order : Seq(Models), tokens : Nat, at : Nat, active : BOOLEAN]

\* An attempt is behind where its chain is, and is reported once.
RouterInv ==
  /\ LevelOK(level) /\ ticks \in Nat
  /\ chains \in [Calls -> Chain]
  /\ \A c \in Called : ChainOK(chains[c])
  /\ \A t \in Attempts :
       /\ t.call \in Called /\ t.at \in 1 .. chains[t.call].at
       /\ chains[t.call].active => t.at < chains[t.call].at
       /\ t.usage \in Nat \cup {Unknown}
       /\ "tpd" \notin DOMAIN t.headers /\ \A b \in DOMAIN t.headers : t.headers[b] \in Int
  /\ \A t, u \in Attempts : t.call = u.call /\ t.at = u.at => t = u
  /\ reports \cap settled = {}

DayInv ==
  \A m \in Models : "tpd" \in Buckets(m) =>
    /\ IsFiniteSet(OwedTokens(m))
    /\ level[m]["tpd"] >= Capacity[m]["tpd"] - Cardinality(OwedTokens(m))
    /\ level[m]["tpd"] <= Capacity[m]["tpd"]
    /\ level[m]["tpd"] <= Capacity[m]["tpd"] - Cardinality(OwedTokens(m)) + ticks * Rate["tpd"]

-----------------------------------------------------------------------------
(* Sums over calls                                                         *)

TokenSet(C, f) == UNION {{c} \X (1 .. f[c]) : c \in C}

LEMMA TokensOfOne ==
  ASSUME NEW c, NEW n \in Nat
  PROVE  IsFiniteSet({c} \X (1 .. n)) /\ Cardinality({c} \X (1 .. n)) = n
<1>1. IsFiniteSet({c}) /\ Cardinality({c}) = 1
  BY FS_Singleton
<1>2. IsFiniteSet(1 .. n) /\ Cardinality(1 .. n) = n
  BY FS_Interval
<1>3. ASSUME NEW S, NEW T, IsFiniteSet(S), IsFiniteSet(T), Cardinality(S) = 1, Cardinality(T) = n
      PROVE  IsFiniteSet(S \X T) /\ Cardinality(S \X T) = n
  <2>1. IsFiniteSet(S \X T) /\ Cardinality(S \X T) = Cardinality(S) * Cardinality(T)
    BY <1>3, FS_Product
  <2> QED BY <1>3, <2>1
<1> QED BY <1>1, <1>2, <1>3

LEMMA DisjointUnion ==
  ASSUME NEW S, IsFiniteSet(S), NEW T, IsFiniteSet(T), S \cap T = {}
  PROVE  IsFiniteSet(S \cup T) /\ Cardinality(S \cup T) = Cardinality(S) + Cardinality(T)
<1>1. IsFiniteSet(S \cup T) /\ Cardinality(S \cup T) = Cardinality(S) + Cardinality(T) - Cardinality(S \cap T)
  BY FS_Union
<1>2. Cardinality(S \cap T) = 0 /\ Cardinality(S) \in Nat /\ Cardinality(T) \in Nat
  BY FS_EmptySet, FS_CardinalityType
<1> QED BY <1>1, <1>2

\* The sum changes by what changes of one summand.
SumFollows(C, f, g, c) ==
  /\ IsFiniteSet(TokenSet(C \cup {c}, g))
  /\ Cardinality(TokenSet(C, f)) \in Nat
  /\ Cardinality(TokenSet(C \cup {c}, g))
       = Cardinality(TokenSet(C, f)) - (IF c \in C THEN f[c] ELSE 0) + g[c]
LEMMA SumChanges ==
  ASSUME NEW C, NEW f, NEW g, NEW c, IsFiniteSet(TokenSet(C, f)),
         \A d \in C \ {c} : g[d] = f[d], g[c] \in Nat, c \in C => f[c] \in Nat
  PROVE  SumFollows(C, f, g, c)
<1> DEFINE R == TokenSet(C \ {c}, f)
           A == {c} \X (1 .. f[c])
           B == {c} \X (1 .. g[c])
<1>1. TokenSet(C \cup {c}, g) = R \cup B /\ R \cap B = {}
  BY DEF TokenSet
<1>2. R \subseteq TokenSet(C, f)
  BY DEF TokenSet
<1>3. IsFiniteSet(R) /\ Cardinality(R) \in Nat /\ Cardinality(TokenSet(C, f)) \in Nat
  BY <1>2, FS_Subset, FS_CardinalityType
<1>4. IsFiniteSet(B) /\ Cardinality(B) = g[c]
  BY TokensOfOne
<1>5. IsFiniteSet(R \cup B) /\ Cardinality(R \cup B) = Cardinality(R) + g[c]
  <2> HIDE DEF R, B
  <2> QED BY <1>1, <1>3, <1>4, DisjointUnion
<1> DEFINE K == TokenSet(C, f)
           L == TokenSet(C \cup {c}, g)
<1>6. IsFiniteSet(L) /\ Cardinality(L) = Cardinality(R) + g[c]
  <2> HIDE DEF R, B, L
  <2> QED BY <1>1, <1>5 DEF L
<1>7. Cardinality(K) = Cardinality(R) + (IF c \in C THEN f[c] ELSE 0)
  <2>1. CASE c \in C
    <3>1. K = R \cup A /\ R \cap A = {}
      BY <2>1 DEF TokenSet
    <3>2. IsFiniteSet(A) /\ Cardinality(A) = f[c]
      BY <2>1, TokensOfOne
    <3> HIDE DEF K, R, A
    <3>3. Cardinality(R \cup A) = Cardinality(R) + f[c]
      BY <1>3, <3>1, <3>2, DisjointUnion
    <3> QED BY <2>1, <3>1, <3>3
  <2>2. CASE c \notin C
    <3>1. K = R
      BY <2>2 DEF TokenSet
    <3> HIDE DEF K, R
    <3> QED BY <1>3, <2>2, <3>1
  <2> QED BY <2>1, <2>2
<1> HIDE DEF K, L, R
<1> QED BY <1>3, <1>6, <1>7 DEF K, L, SumFollows

-----------------------------------------------------------------------------
(* What a call owes                                                        *)

DueOf(ch, st, c, m) == {t \in st : t.call = c /\ ch[t.call].order[t.at] = m}
Estimate(ch, c, m) == IF ch[c].order[1] = m THEN ch[c].tokens ELSE 0
Final(t, e) == IF ~t.served THEN 0 ELSE IF t.usage = Unknown THEN e ELSE t.usage
OneOf(S) == CHOOSE t \in S : TRUE
Due(ch, st, c, m) ==
  IF DueOf(ch, st, c, m) = {} THEN Estimate(ch, c, m)
  ELSE Final(OneOf(DueOf(ch, st, c, m)), Estimate(ch, c, m))

LEMMA OwedIsDue ==
  ASSUME NEW c, NEW m
  PROVE  /\ Owed(c, m) = Due(chains, settled, c, m)
         /\ Owed(c, m)' = Due(chains', settled', c, m)
  BY DEF Owed, Due, DueOf, Estimate, Final, OneOf, Of

LEMMA DueIsNat ==
  ASSUME RouterInv, NEW c \in Called, NEW m
  PROVE  Due(chains, settled, c, m) \in Nat /\ Estimate(chains, c, m) \in Nat
<1>1. Estimate(chains, c, m) \in Nat
  BY DEF RouterInv, ChainOK, Estimate
<1>2. ASSUME DueOf(chains, settled, c, m) # {}
      PROVE  Final(OneOf(DueOf(chains, settled, c, m)), Estimate(chains, c, m)) \in Nat
  <2> DEFINE u == OneOf(DueOf(chains, settled, c, m))
  <2>1. u \in DueOf(chains, settled, c, m)
    BY <1>2 DEF OneOf
  <2>2. u.usage \in Nat \cup {Unknown}
    BY <2>1 DEF DueOf, RouterInv, Attempts
  <2> HIDE DEF u
  <2>3. Final(u, Estimate(chains, c, m)) \in Nat
    BY <1>1, <2>2 DEF Final
  <2> QED BY <2>3 DEF u
<1> QED BY <1>1, <1>2 DEF Due

LEMMA OwedIsSum ==
  ASSUME NEW m
  PROVE  /\ OwedTokens(m) = TokenSet(Called, [c \in Called |-> Due(chains, settled, c, m)])
         /\ OwedTokens(m)' = TokenSet(Called', [c \in Called' |-> Due(chains', settled', c, m)])
<1> DEFINE f == [c \in Called |-> Due(chains, settled, c, m)]
           g == [c \in Called' |-> Due(chains', settled', c, m)]
<1>1. \A c \in Called : f[c] = Owed(c, m)
  BY OwedIsDue
<1>2. \A c \in Called' : g[c] = Owed(c, m)'
  BY OwedIsDue
<1> HIDE DEF f, g
<1>3. OwedTokens(m) = TokenSet(Called, f)
  BY <1>1 DEF OwedTokens, TokenSet
<1>4. OwedTokens(m)' = TokenSet(Called', g)
  BY <1>2 DEF OwedTokens, TokenSet
<1> QED BY <1>3, <1>4 DEF f, g

\* Nothing is owed that was not owed before.
LEMMA SameDue ==
  ASSUME NEW m, Called' = Called,
         \A c \in Called : Due(chains', settled', c, m) = Due(chains, settled, c, m)
  PROVE  OwedTokens(m)' = OwedTokens(m)
<1>1. [c \in Called' |-> Due(chains', settled', c, m)] = [c \in Called |-> Due(chains, settled, c, m)]
  OBVIOUS
<1> QED BY <1>1, OwedIsSum

\* One call owes something else.
LEMMA OneDue ==
  ASSUME RouterInv, NEW m, NEW c, IsFiniteSet(OwedTokens(m)), Called' = Called \cup {c},
         \A d \in Called \ {c} : Due(chains', settled', d, m) = Due(chains, settled, d, m),
         Due(chains', settled', c, m) \in Nat
  PROVE  /\ IsFiniteSet(OwedTokens(m)') /\ Cardinality(OwedTokens(m)) \in Nat
         /\ Cardinality(OwedTokens(m)')
              = Cardinality(OwedTokens(m)) - (IF c \in Called THEN Due(chains, settled, c, m) ELSE 0)
                + Due(chains', settled', c, m)
<1> DEFINE f == [d \in Called |-> Due(chains, settled, d, m)]
           g == [d \in Called' |-> Due(chains', settled', d, m)]
<1>1. OwedTokens(m) = TokenSet(Called, f) /\ OwedTokens(m)' = TokenSet(Called \cup {c}, g)
  BY OwedIsSum
<1>2. /\ \A d \in Called \ {c} : g[d] = f[d]
      /\ g[c] \in Nat /\ g[c] = Due(chains', settled', c, m)
      /\ c \in Called => f[c] \in Nat /\ f[c] = Due(chains, settled, c, m)
  BY DueIsNat
<1> HIDE DEF f, g
<1>3. IsFiniteSet(TokenSet(Called, f))
  BY <1>1
<1>4. SumFollows(Called, f, g, c)
  BY <1>2, <1>3, SumChanges, Zenon
<1> QED BY <1>1, <1>2, <1>4 DEF SumFollows

-----------------------------------------------------------------------------
(* Buckets                                                                 *)

LEMMA MinOfTwo == \A a, b \in Int : Min({a, b}) = (IF a <= b THEN a ELSE b)
<1> SUFFICES ASSUME NEW a \in Int, NEW b \in Int PROVE Min({a, b}) = (IF a <= b THEN a ELSE b)
  OBVIOUS
<1> DEFINE m == IF a <= b THEN a ELSE b
<1>1. m \in {a, b} /\ (\A y \in {a, b} : m <= y)
  OBVIOUS
<1>2. \A x \in {a, b} : (\A y \in {a, b} : x <= y) => x = m
  OBVIOUS
<1> HIDE DEF m
<1>3. Min({a, b}) \in {a, b} /\ \A y \in {a, b} : Min({a, b}) <= y
  BY <1>1 DEF Min
<1>4. Min({a, b}) = m
  BY <1>2, <1>3
<1> QED BY <1>4 DEF m

LEMMA SetLevel ==
  ASSUME NEW lev, LevelOK(lev), NEW m \in Models, NEW f \in [Buckets(m) -> Int]
  PROVE  /\ LevelOK([lev EXCEPT ![m] = f])
         /\ \A n \in Models : [lev EXCEPT ![m] = f][n] = IF n = m THEN f ELSE lev[n]
<1>1. f \in UNION {[Buckets(n) -> Int] : n \in Models}
  OBVIOUS
<1>2. [lev EXCEPT ![m] = f] \in [Models -> UNION {[Buckets(n) -> Int] : n \in Models}]
  BY <1>1 DEF LevelOK
<1>3. \A n \in Models : [lev EXCEPT ![m] = f][n] = IF n = m THEN f ELSE lev[n]
  BY DEF LevelOK
<1> QED BY <1>2, <1>3 DEF LevelOK

LEMMA RecordedLevel ==
  ASSUME NEW lev, LevelOK(lev), NEW m \in Models, NEW tokens \in Int
  PROVE  /\ LevelOK(Recorded(lev, m, tokens))
         /\ \A n \in Models : "tpd" \in Buckets(n) =>
              Recorded(lev, m, tokens)[n]["tpd"] = lev[n]["tpd"] - (IF n = m THEN tokens ELSE 0)
<1> DEFINE f == [b \in Buckets(m) |-> lev[m][b] - Cost(b, tokens)]
<1>1. lev[m] \in [Buckets(m) -> Int] /\ \A n \in Models : lev[n] \in [Buckets(n) -> Int]
  BY DEF LevelOK
<1>2. f \in [Buckets(m) -> Int]
  BY <1>1 DEF Cost
<1>3. "tpd" \in Buckets(m) => f["tpd"] = lev[m]["tpd"] - tokens
  BY DEF Cost, RequestBuckets
<1>4. Recorded(lev, m, tokens) = [lev EXCEPT ![m] = f]
  BY DEF Recorded, LevelOK
<1> HIDE DEF f
<1>5. /\ LevelOK([lev EXCEPT ![m] = f])
      /\ \A n \in Models : [lev EXCEPT ![m] = f][n] = IF n = m THEN f ELSE lev[n]
  BY <1>2, SetLevel
<1> QED BY <1>1, <1>3, <1>4, <1>5

LEMMA AdjustedLevel ==
  ASSUME NEW lev, LevelOK(lev), NEW m \in Models, NEW delta \in Int
  PROVE  /\ LevelOK(Adjusted(lev, m, delta))
         /\ \A n \in Models : "tpd" \in Buckets(n) =>
              Adjusted(lev, m, delta)[n]["tpd"]
                = IF n = m THEN Min({Capacity[n]["tpd"], lev[n]["tpd"] - delta}) ELSE lev[n]["tpd"]
<1> DEFINE f == [b \in Buckets(m) |->
                   IF b \in RequestBuckets THEN lev[m][b] ELSE Min({Capacity[m][b], lev[m][b] - delta})]
<1>1. lev[m] \in [Buckets(m) -> Int] /\ \A n \in Models : lev[n] \in [Buckets(n) -> Int]
  BY DEF LevelOK
<1>2. f \in [Buckets(m) -> Int]
  <2>1. \A b \in Buckets(m) : Capacity[m][b] \in Int /\ lev[m][b] - delta \in Int
    BY <1>1, RouterAssumption
  <2>2. \A b \in Buckets(m) : Min({Capacity[m][b], lev[m][b] - delta}) \in Int
    BY <2>1, MinOfTwo
  <2> QED BY <1>1, <2>2
<1>3. "tpd" \in Buckets(m) => f["tpd"] = Min({Capacity[m]["tpd"], lev[m]["tpd"] - delta})
  BY DEF RequestBuckets
<1>4. Adjusted(lev, m, delta) = [lev EXCEPT ![m] = f]
  BY DEF Adjusted, LevelOK
<1> HIDE DEF f
<1>5. /\ LevelOK([lev EXCEPT ![m] = f])
      /\ \A n \in Models : [lev EXCEPT ![m] = f][n] = IF n = m THEN f ELSE lev[n]
  BY <1>2, SetLevel
<1> QED BY <1>1, <1>3, <1>4, <1>5

LEMMA SyncedLevel ==
  ASSUME NEW lev, LevelOK(lev), NEW m \in Models, NEW headers, "tpd" \notin DOMAIN headers,
         \A b \in DOMAIN headers : headers[b] \in Int
  PROVE  /\ LevelOK(Synced(lev, m, headers))
         /\ \A n \in Models : "tpd" \in Buckets(n) => Synced(lev, m, headers)[n]["tpd"] = lev[n]["tpd"]
<1> DEFINE f == [b \in Buckets(m) |->
                   IF b \in DOMAIN headers THEN Min({Capacity[m][b], headers[b]}) ELSE lev[m][b]]
<1>1. lev[m] \in [Buckets(m) -> Int] /\ \A n \in Models : lev[n] \in [Buckets(n) -> Int]
  BY DEF LevelOK
<1>2. f \in [Buckets(m) -> Int]
  <2>1. \A b \in Buckets(m) : b \in DOMAIN headers => Capacity[m][b] \in Int /\ headers[b] \in Int
    BY RouterAssumption
  <2>2. \A b \in Buckets(m) : b \in DOMAIN headers => Min({Capacity[m][b], headers[b]}) \in Int
    BY <2>1, MinOfTwo
  <2> QED BY <1>1, <2>2
<1>3. "tpd" \in Buckets(m) => f["tpd"] = lev[m]["tpd"]
  OBVIOUS
<1>4. Synced(lev, m, headers) = [lev EXCEPT ![m] = f]
  BY DEF Synced, LevelOK
<1> HIDE DEF f
<1>5. /\ LevelOK([lev EXCEPT ![m] = f])
      /\ \A n \in Models : [lev EXCEPT ![m] = f][n] = IF n = m THEN f ELSE lev[n]
  BY <1>2, SetLevel
<1> QED BY <1>1, <1>3, <1>4, <1>5

-----------------------------------------------------------------------------
(* The steps of the router                                                 *)

LEMMA CallIsAlive ==
  ASSUME RouterInv, NEW c \in Started
  PROVE  /\ c \in Called /\ chains[c] \in Chain /\ ChainOK(chains[c])
         /\ Len(chains[c].order) = Cardinality(Models) /\ Cardinality(Models) \in Nat
         /\ \A t \in Attempts : t.call = c => t.at < chains[c].at
<1>1. c \in Calls /\ chains[c].active /\ ~NotCalled.active
  BY DEF Started, NotCalled
<1>2. c \in Called /\ chains[c] \in Chain /\ ChainOK(chains[c])
  BY <1>1 DEF Called, RouterInv
<1>3. Cardinality(Models) \in Nat
  BY RouterAssumption, FS_CardinalityType
<1>4. Len(chains[c].order) = Cardinality(Models)
  BY <1>2, <1>3 DEF Chain, ChainOK
<1> QED BY <1>1, <1>2, <1>3, <1>4 DEF RouterInv

\* ch is where a chain may get on to from old, and what is reported of it then.
GetsOn(old, ch) ==
  /\ ch \in Chain /\ ch.order = old.order /\ ch.tokens = old.tokens
  /\ ch.at \in old.at .. Cardinality(Models) /\ (ch.active => ch.at > old.at)
Reports(c, old, new) ==
  /\ \A t, u \in new : t = u
  /\ \A t \in new : /\ t.call = c /\ t.at = old.at /\ t.usage \in Nat \cup {Unknown}
                    /\ "tpd" \notin DOMAIN t.headers /\ \A b \in DOMAIN t.headers : t.headers[b] \in Int

LEMMA Stopping ==
  ASSUME NEW old \in Chain, ChainOK(old), Cardinality(Models) \in Nat
  PROVE  GetsOn(old, [old EXCEPT !.active = FALSE])
<1> DEFINE ch == [old EXCEPT !.active = FALSE]
<1>1. ch.order = old.order /\ ch.tokens = old.tokens /\ ch.at = old.at
  BY DEF Chain
<1>2. ch.active = FALSE
  BY DEF Chain
<1>3. ch \in Chain
  BY DEF Chain
<1>4. old.at \in old.at .. Cardinality(Models)
  BY DEF Chain, ChainOK
<1> HIDE DEF ch
<1>5. GetsOn(old, ch)
  BY <1>1, <1>2, <1>3, <1>4 DEF GetsOn
<1> QED BY <1>5 DEF ch

LEMMA Advancing ==
  ASSUME NEW old \in Chain, ChainOK(old), Cardinality(Models) \in Nat, old.at # Cardinality(Models)
  PROVE  GetsOn(old, [old EXCEPT !.at = @ + 1])
<1> DEFINE ch == [old EXCEPT !.at = @ + 1]
<1>1. ch.order = old.order /\ ch.tokens = old.tokens /\ ch.at = old.at + 1
  BY DEF Chain
<1>2. ch \in Chain
  BY DEF Chain
<1>3. old.at + 1 \in old.at .. Cardinality(Models) /\ old.at + 1 > old.at
  BY DEF Chain, ChainOK
<1> HIDE DEF ch
<1>4. GetsOn(old, ch)
  BY <1>1, <1>2, <1>3 DEF GetsOn
<1> QED BY <1>4 DEF ch

\* A call that is under way gets on; what it has cost stays as it is.
LEMMA CallGetsOn ==
  ASSUME RouterInv, NEW c \in Started, NEW ch, NEW new, GetsOn(chains[c], ch), Reports(c, chains[c], new),
         chains' = [chains EXCEPT ![c] = ch], reports' = reports \cup new,
         UNCHANGED <<level, settled, ticks>>
  PROVE  RouterInv' /\ (DayInv => DayInv')
<1>0. /\ ch \in Chain /\ ch.order = chains[c].order /\ ch.tokens = chains[c].tokens
      /\ ch.at \in chains[c].at .. Cardinality(Models) /\ (ch.active => ch.at > chains[c].at)
      /\ \A t, u \in new : t = u
      /\ \A t \in new : /\ t.call = c /\ t.at = chains[c].at /\ t.usage \in Nat \cup {Unknown}
                        /\ "tpd" \notin DOMAIN t.headers /\ \A b \in DOMAIN t.headers : t.headers[b] \in Int
  BY DEF GetsOn, Reports
<1>1. /\ c \in Called /\ c \in Calls /\ chains[c] \in Chain /\ ChainOK(chains[c])
      /\ \A t \in Attempts : t.call = c => t.at < chains[c].at
      /\ Cardinality(Models) \in Nat
  BY CallIsAlive DEF Started
<1>2. chains' \in [Calls -> Chain] /\ \A d \in Calls : chains'[d] = IF d = c THEN ch ELSE chains[d]
  BY <1>0 DEF RouterInv
<1>3. ChainOK(ch) /\ chains[c].at \in Nat /\ chains[c].at >= 1 /\ ch.at \in Nat /\ ch.at >= chains[c].at
  BY <1>0, <1>1 DEF ChainOK, Chain
<1>4. ch # NotCalled
  BY <1>3 DEF NotCalled
<1>5. Called' = Called
  BY <1>1, <1>2, <1>4 DEF Called
<1>6. \A d \in Called : ChainOK(chains'[d])
  BY <1>2, <1>3 DEF RouterInv, Called
<1>7. ASSUME NEW t \in Attempts'
      PROVE  /\ t.call \in Called /\ t.at \in 1 .. chains'[t.call].at
             /\ chains'[t.call].active => t.at < chains'[t.call].at
             /\ t.usage \in Nat \cup {Unknown}
             /\ "tpd" \notin DOMAIN t.headers /\ \A b \in DOMAIN t.headers : t.headers[b] \in Int
  <2>1. CASE t \in new
    BY <1>0, <1>1, <1>2, <1>3, <2>1
  <2>2. CASE t \in Attempts
    <3>1. /\ t.call \in Called /\ t.call \in Calls /\ t.at \in 1 .. chains[t.call].at
          /\ chains[t.call].active => t.at < chains[t.call].at
          /\ t.usage \in Nat \cup {Unknown}
          /\ "tpd" \notin DOMAIN t.headers /\ \A b \in DOMAIN t.headers : t.headers[b] \in Int
      BY <2>2 DEF RouterInv, Called
    <3>2. CASE t.call = c
      BY <1>0, <1>1, <1>2, <1>3, <2>2, <3>1, <3>2
    <3>3. CASE t.call # c
      BY <1>2, <3>1, <3>3
    <3> QED BY <3>2, <3>3
  <2> QED BY <2>1, <2>2 DEF Attempts
<1>8. ASSUME NEW t \in Attempts', NEW u \in Attempts', t.call = u.call, t.at = u.at
      PROVE  t = u
  <2>1. CASE t \in Attempts /\ u \in Attempts
    BY <1>8, <2>1 DEF RouterInv
  <2>2. CASE t \in new /\ u \in new
    BY <1>0, <2>2
  <2>3. CASE (t \in new /\ u \in Attempts) \/ (t \in Attempts /\ u \in new)
    BY <1>0, <1>1, <1>3, <1>8, <2>3
  <2> QED BY <2>1, <2>2, <2>3 DEF Attempts
<1>9. reports' \cap settled' = {}
  <2>1. ASSUME NEW t \in new PROVE t \notin settled
    BY <1>0, <1>1, <1>3, <2>1 DEF Attempts
  <2> QED BY <2>1 DEF RouterInv
<1>10. RouterInv'
  BY <1>2, <1>5, <1>6, <1>7, <1>8, <1>9 DEF RouterInv
<1>11. ASSUME NEW m PROVE OwedTokens(m)' = OwedTokens(m)
  <2>1. ASSUME NEW d \in Called PROVE Due(chains', settled', d, m) = Due(chains, settled, d, m)
    <3>1. \A e \in Calls : chains'[e].order = chains[e].order /\ chains'[e].tokens = chains[e].tokens
      BY <1>0, <1>2
    <3>2. \A t \in settled : t.call \in Calls
      BY DEF RouterInv, Attempts, Called
    <3>3. DueOf(chains', settled', d, m) = DueOf(chains, settled, d, m)
      BY <3>1, <3>2 DEF DueOf
    <3>4. Estimate(chains', d, m) = Estimate(chains, d, m)
      BY <3>1 DEF Estimate, Called
    <3> QED BY <3>3, <3>4 DEF Due
  <2> QED BY <1>5, <2>1, SameDue
<1> QED BY <1>10, <1>11 DEF DayInv

LEMMA HeadersOf ==
  ASSUME RouterInv, NEW c \in Started, NEW headers \in SomeHeaders(c)
  PROVE  "tpd" \notin DOMAIN headers /\ \A b \in DOMAIN headers : headers[b] \in Int
<1>1. PICK S : headers \in [S -> Remaining] /\ S \subseteq {"rpd", "tpm"}
  BY DEF SomeHeaders
<1>2. DOMAIN headers = S /\ \A b \in S : headers[b] \in Remaining
  BY <1>1, Zenon
<1>3. \A n \in Remaining : n \in Int
  BY RouterAssumption
<1>4. "tpd" \notin DOMAIN headers
  <2>1. "tpd" \notin S
    BY <1>1
  <2> QED BY <1>2, <2>1, Zenon
<1>5. \A b \in DOMAIN headers : headers[b] \in Int
  <2>1. ASSUME NEW b \in DOMAIN headers PROVE headers[b] \in Remaining
    BY <1>2, <2>1, Zenon
  <2> QED BY <1>3, <2>1, Zenon
<1> QED BY <1>4, <1>5

LEMMA AnsweredKeeps ==
  ASSUME RouterInv, NEW c \in Started, NEW usage \in Usages, NEW headers \in SomeHeaders(c), Answered(c, usage, headers)
  PROVE  RouterInv' /\ (DayInv => DayInv')
<1> DEFINE ch == [chains[c] EXCEPT !.active = FALSE]
           t == [Attempt(c) EXCEPT !.served = TRUE, !.usage = usage, !.headers = headers]
<1>1. GetsOn(chains[c], ch)
  BY CallIsAlive, Stopping
<1>2. chains' = [chains EXCEPT ![c] = ch] /\ reports' = reports \cup {t} /\ UNCHANGED <<level, settled, ticks>>
  BY DEF Answered
<1>3. t.call = c /\ t.at = chains[c].at /\ t.usage \in Nat \cup {Unknown} /\ t.headers = headers
  BY RouterAssumption DEF Attempt
<1> HIDE DEF ch, t
<1>4. Reports(c, chains[c], {t})
  BY <1>3, HeadersOf DEF Reports
<1> QED BY <1>1, <1>2, <1>4, CallGetsOn

LEMMA RefusedKeeps ==
  ASSUME RouterInv, NEW c \in Started, NEW streaming \in BOOLEAN, NEW headers \in SomeHeaders(c),
         Refused(c, headers, streaming)
  PROVE  RouterInv' /\ (DayInv => DayInv')
<1> DEFINE ch == IF streaming \/ chains[c].at = Len(chains[c].order)
                   THEN [chains[c] EXCEPT !.active = FALSE] ELSE [chains[c] EXCEPT !.at = @ + 1]
           t == [Attempt(c) EXCEPT !.headers = headers]
<1>1. GetsOn(chains[c], ch)
  <2>1. CASE streaming \/ chains[c].at = Len(chains[c].order)
    BY <2>1, CallIsAlive, Stopping
  <2>2. CASE ~(streaming \/ chains[c].at = Len(chains[c].order))
    <3>1. GetsOn(chains[c], [chains[c] EXCEPT !.at = @ + 1])
      BY <2>2, CallIsAlive, Advancing
    <3> QED BY <2>2, <3>1
  <2> QED BY <2>1, <2>2
<1>2. chains' = [chains EXCEPT ![c] = ch] /\ reports' = reports \cup {t} /\ UNCHANGED <<level, settled, ticks>>
  BY DEF Refused
<1>3. t.call = c /\ t.at = chains[c].at /\ t.usage \in Nat \cup {Unknown} /\ t.headers = headers
  BY RouterAssumption DEF Attempt
<1> HIDE DEF ch, t
<1>4. Reports(c, chains[c], {t})
  BY <1>3, HeadersOf DEF Reports
<1> QED BY <1>1, <1>2, <1>4, CallGetsOn

LEMMA GivenUpKeeps ==
  ASSUME RouterInv, NEW c \in Started, GivenUp(c)
  PROVE  RouterInv' /\ (DayInv => DayInv')
<1> DEFINE ch == [chains[c] EXCEPT !.active = FALSE]
<1>1. GetsOn(chains[c], ch)
  BY CallIsAlive, Stopping
<1>2. chains' = [chains EXCEPT ![c] = ch] /\ reports' = reports \cup {} /\ UNCHANGED <<level, settled, ticks>>
  BY DEF GivenUp
<1>3. Reports(c, chains[c], {})
  BY DEF Reports
<1> HIDE DEF ch
<1> QED BY <1>1, <1>2, <1>3, CallGetsOn

\* Time passes: no bucket loses, and none gains more than its rate.
LEMMA TickKeeps ==
  ASSUME RouterInv, Tick
  PROVE  RouterInv' /\ (DayInv => DayInv')
<1>1. /\ UNCHANGED <<chains, reports, settled>> /\ ticks' = ticks + 1 /\ ticks \in Nat
      /\ level' = [m \in Models |-> [b \in Buckets(m) |-> Min({Capacity[m][b], level[m][b] + Rate[b]})]]
  BY DEF Tick, RouterInv
<1>2. \A m \in Models : \A b \in Buckets(m) :
        /\ Capacity[m][b] \in Nat /\ Rate[b] \in Nat /\ level[m][b] \in Int
        /\ Capacity[m][b] \in Int /\ level[m][b] + Rate[b] \in Int
  BY <1>1, RouterAssumption DEF RouterInv, LevelOK
<1>2b. \A m \in Models : \A b \in Buckets(m) :
         level'[m][b] = Min({Capacity[m][b], level[m][b] + Rate[b]})
  BY <1>1, Zenon
<1>3. \A m \in Models : \A b \in Buckets(m) :
        level'[m][b] = IF Capacity[m][b] <= level[m][b] + Rate[b] THEN Capacity[m][b] ELSE level[m][b] + Rate[b]
  <2> SUFFICES ASSUME NEW m \in Models, NEW b \in Buckets(m)
               PROVE  level'[m][b] = IF Capacity[m][b] <= level[m][b] + Rate[b]
                                       THEN Capacity[m][b] ELSE level[m][b] + Rate[b]
    OBVIOUS
  <2> DEFINE k == Capacity[m][b]
             x == level[m][b] + Rate[b]
  <2>1. k \in Int /\ x \in Int
    BY <1>2, Zenon
  <2>1a. level'[m][b] = Min({k, x})
    BY <1>2b, Zenon
  <2> HIDE DEF k, x
  <2>2. level'[m][b] = IF k <= x THEN k ELSE x
    BY <2>1, <2>1a, MinOfTwo
  <2> QED BY <2>2 DEF k, x
<1>4. LevelOK(level')
  <2>0. \A x, y \in Int : Min({x, y}) \in Int
    BY MinOfTwo
  <2>1. \A m \in Models : [b \in Buckets(m) |-> Min({Capacity[m][b], level[m][b] + Rate[b]})] \in [Buckets(m) -> Int]
    BY <1>2, <2>0, Zenon
  <2> DEFINE F(m) == [b \in Buckets(m) |-> Min({Capacity[m][b], level[m][b] + Rate[b]})]
  <2>2. \A m \in Models : F(m) \in [Buckets(m) -> Int]
    BY <2>1
  <2>3. level' = [m \in Models |-> F(m)]
    BY <1>1
  <2> HIDE DEF F
  <2> QED BY <2>2, <2>3 DEF LevelOK
<1>5. Called' = Called /\ Attempts' = Attempts
  BY <1>1 DEF Called, Attempts
<1>6. RouterInv'
  BY <1>1, <1>4, <1>5 DEF RouterInv
<1>7. ASSUME NEW m PROVE OwedTokens(m)' = OwedTokens(m)
  <2>1. \A c \in Called : Due(chains', settled', c, m) = Due(chains, settled, c, m)
    BY <1>1
  <2> QED BY <1>5, <2>1, SameDue
<1>8. ASSUME DayInv PROVE DayInv'
  <2> SUFFICES ASSUME NEW m \in Models, "tpd" \in Buckets(m)
               PROVE  /\ IsFiniteSet(OwedTokens(m)')
                      /\ level'[m]["tpd"] >= Capacity[m]["tpd"] - Cardinality(OwedTokens(m)')
                      /\ level'[m]["tpd"] <= Capacity[m]["tpd"]
                      /\ level'[m]["tpd"] <= Capacity[m]["tpd"] - Cardinality(OwedTokens(m)') + ticks' * Rate["tpd"]
    BY DEF DayInv
  <2> DEFINE k == Capacity[m]["tpd"]
             l == level[m]["tpd"]
             r == Rate["tpd"]
             d == Cardinality(OwedTokens(m))
  <2>1. IsFiniteSet(OwedTokens(m)) /\ l >= k - d /\ l <= k /\ l <= k - d + ticks * r
    BY <1>8 DEF DayInv
  <2>2. d \in Nat /\ k \in Nat /\ r \in Nat /\ l \in Int
    BY <1>2, <2>1, FS_CardinalityType
  <2>3. level'[m]["tpd"] = IF k <= l + r THEN k ELSE l + r
    BY <1>3
  <2>4. OwedTokens(m)' = OwedTokens(m) /\ Cardinality(OwedTokens(m)') = d
    BY <1>7
  <2> HIDE DEF k, l, r, d
  <2>5. (ticks + 1) * r = ticks * r + r /\ ticks * r \in Nat
    BY <1>1, <2>2
  <2>6. level'[m]["tpd"] >= k - d /\ level'[m]["tpd"] <= k /\ level'[m]["tpd"] <= k - d + (ticks + 1) * r
    BY <2>1, <2>2, <2>3, <2>5
  <2> QED BY <1>1, <2>1, <2>4, <2>6 DEF k, r
<1> QED BY <1>6, <1>8

\* A call is ranked and the tokens it may cost are taken from the first model.
LEMMA GetLlmKeeps ==
  ASSUME RouterInv, NEW c \in Calls, NEW tokens \in Estimates, GetLlm(c, tokens)
  PROVE  RouterInv' /\ (DayInv => DayInv')
<1> DEFINE n == Cardinality(Models)
<1>1. n \in Nat /\ n # 0 /\ 1 \in 1 .. n /\ tokens \in Nat
  BY RouterAssumption, FS_CardinalityType, FS_EmptySet
<1>2. PICK o : /\ o \in SetToSeqs(Models)
               /\ chains' = [chains EXCEPT ![c] = [order |-> o, tokens |-> tokens, at |-> 1, active |-> TRUE]]
               /\ level' = Recorded(level, o[1], tokens)
  BY DEF GetLlm, Orders
<1>3. o \in [1 .. n -> Models] /\ \A i, j \in 1 .. n : o[i] = o[j] => i = j
  BY <1>2 DEF SetToSeqs
<1> DEFINE ch == [order |-> o, tokens |-> tokens, at |-> 1, active |-> TRUE]
<1>4. ch.order = o /\ ch.tokens = tokens /\ ch.at = 1 /\ ch.active = TRUE
  OBVIOUS
<1>5. ch \in Chain
  <2>1. o \in Seq(Models)
    BY <1>1, <1>3
  <2> QED BY <1>1, <2>1 DEF Chain
<1>6. /\ chains' = [chains EXCEPT ![c] = ch] /\ chains[c] = NotCalled
      /\ UNCHANGED <<reports, settled, ticks>>
  BY <1>2 DEF GetLlm
<1>7. ch # NotCalled
  BY <1>4 DEF NotCalled
<1> HIDE DEF ch
<1>8. ChainOK(ch)
  BY <1>1, <1>3, <1>4 DEF ChainOK
<1>9. chains' \in [Calls -> Chain] /\ \A d \in Calls : chains'[d] = IF d = c THEN ch ELSE chains[d]
  BY <1>5, <1>6 DEF RouterInv
<1>10. Called' = Called \cup {c} /\ c \notin Called
  BY <1>6, <1>7, <1>9 DEF Called
<1>11. \A t \in Attempts : t.call \in Called /\ t.call \in Calls /\ t.call # c
  BY <1>10 DEF RouterInv, Called
<1>12. Attempts' = Attempts
  BY <1>6 DEF Attempts
<1>13. o[1] \in Models
  BY <1>1, <1>3
<1>14. /\ LevelOK(level')
       /\ \A m \in Models : "tpd" \in Buckets(m) =>
            level'[m]["tpd"] = level[m]["tpd"] - (IF m = o[1] THEN tokens ELSE 0)
  <2>1. LevelOK(level) /\ tokens \in Int
    BY <1>1 DEF RouterInv
  <2> QED BY <1>2, <1>13, <2>1, RecordedLevel
<1>15. RouterInv'
  <2>1. \A d \in Called' : ChainOK(chains'[d])
    BY <1>8, <1>9, <1>10 DEF RouterInv, Called
  <2>2. \A t \in Attempts :
          /\ t.call \in Called' /\ t.at \in 1 .. chains'[t.call].at
          /\ chains'[t.call].active => t.at < chains'[t.call].at
    BY <1>9, <1>10, <1>11 DEF RouterInv
  <2> QED BY <1>6, <1>9, <1>12, <1>14, <2>1, <2>2 DEF RouterInv
<1>16. ASSUME NEW m, NEW d \in Called PROVE Due(chains', settled', d, m) = Due(chains, settled, d, m)
  <2>1. d \in Calls /\ d # c
    BY <1>10 DEF Called
  <2>2. DueOf(chains', settled', d, m) = DueOf(chains, settled, d, m)
    BY <1>6, <1>9, <1>11 DEF DueOf, Attempts
  <2>3. Estimate(chains', d, m) = Estimate(chains, d, m)
    BY <1>9, <2>1 DEF Estimate
  <2> QED BY <2>2, <2>3 DEF Due
<1>17. ASSUME NEW m PROVE Due(chains', settled', c, m) = IF o[1] = m THEN tokens ELSE 0
  <2>1. DueOf(chains', settled', c, m) = {}
    BY <1>6, <1>11 DEF DueOf, Attempts
  <2>2. Estimate(chains', c, m) = IF o[1] = m THEN tokens ELSE 0
    BY <1>4, <1>9 DEF Estimate
  <2> QED BY <2>1, <2>2 DEF Due
<1>18. ASSUME DayInv PROVE DayInv'
  <2> SUFFICES ASSUME NEW m \in Models, "tpd" \in Buckets(m)
               PROVE  /\ IsFiniteSet(OwedTokens(m)')
                      /\ level'[m]["tpd"] >= Capacity[m]["tpd"] - Cardinality(OwedTokens(m)')
                      /\ level'[m]["tpd"] <= Capacity[m]["tpd"]
                      /\ level'[m]["tpd"] <= Capacity[m]["tpd"] - Cardinality(OwedTokens(m)') + ticks' * Rate["tpd"]
    BY DEF DayInv
  <2> DEFINE k == Capacity[m]["tpd"]
             l == level[m]["tpd"]
             q == ticks * Rate["tpd"]
             d == Cardinality(OwedTokens(m))
             e == IF o[1] = m THEN tokens ELSE 0
  <2>1. IsFiniteSet(OwedTokens(m)) /\ l >= k - d /\ l <= k /\ l <= k - d + q
    BY <1>18 DEF DayInv
  <2>2. d \in Nat /\ k \in Int /\ q \in Int /\ l \in Int /\ e \in Nat
    <3>1. ticks \in Int /\ Rate["tpd"] \in Int /\ k \in Int /\ l \in Int
      BY RouterAssumption DEF RouterInv, LevelOK
    <3> QED BY <1>1, <2>1, <3>1, FS_CardinalityType
  <2>3. /\ IsFiniteSet(OwedTokens(m)') /\ Cardinality(OwedTokens(m)') = d + e
    <3>1. \A x \in Called \ {c} : Due(chains', settled', x, m) = Due(chains, settled, x, m)
      BY <1>16
    <3>2. Due(chains', settled', c, m) = e /\ Due(chains', settled', c, m) \in Nat
      BY <1>17, <2>2
    <3>3. /\ IsFiniteSet(OwedTokens(m)')
          /\ Cardinality(OwedTokens(m)')
               = d - (IF c \in Called THEN Due(chains, settled, c, m) ELSE 0) + Due(chains', settled', c, m)
      BY <1>10, <2>1, <3>1, <3>2, OneDue
    <3> HIDE DEF d, e
    <3> QED BY <1>10, <2>2, <3>2, <3>3
  <2>4. level'[m]["tpd"] = l - e
    BY <1>14
  <2> HIDE DEF k, l, q, d, e
  <2>5. l - e >= k - (d + e) /\ l - e <= k /\ l - e <= k - (d + e) + q
    BY <2>1, <2>2
  <2> QED BY <1>6, <2>3, <2>4, <2>5 DEF k, q
<1> QED BY <1>15, <1>18

\* What call t is about and how much its callback corrects.
LEMMA ReportIsOf ==
  ASSUME RouterInv, NEW t \in reports
  PROVE  /\ t.call \in Called /\ t.call \in Calls /\ Of(t) \in Models
         /\ DueOf(chains, settled, t.call, Of(t)) = {}
         /\ Estimate(chains, t.call, Of(t)) = IF Reserved(t) THEN chains[t.call].tokens ELSE 0
         /\ chains[t.call].tokens \in Nat
         /\ t.usage \in Nat \cup {Unknown}
         /\ "tpd" \notin DOMAIN t.headers /\ \A b \in DOMAIN t.headers : t.headers[b] \in Int
<1> DEFINE ch == chains[t.call]
           n == Cardinality(Models)
<1>1. t \in Attempts /\ t.call \in Called /\ t.call \in Calls
  BY DEF Attempts, RouterInv, Called
<1>2. ChainOK(ch)
  BY <1>1 DEF RouterInv
<1>3. n \in Nat /\ ch.at \in 1 .. n /\ t.at \in 1 .. ch.at /\ ch.tokens \in Nat
  BY <1>1, <1>2, RouterAssumption, FS_CardinalityType DEF ChainOK, RouterInv
<1>4. t.at \in 1 .. n /\ 1 \in 1 .. n
  BY <1>3
<1>5. ch.order[t.at] \in Models /\ (ch.order[1] = ch.order[t.at] <=> t.at = 1)
  BY <1>2, <1>4 DEF ChainOK
<1>6. DueOf(chains, settled, t.call, Of(t)) = {}
  <2> SUFFICES ASSUME NEW u \in settled, u.call = t.call, chains[u.call].order[u.at] = Of(t)
               PROVE  FALSE
    BY DEF DueOf
  <2>1. u \in Attempts /\ u.at \in 1 .. ch.at
    BY DEF Attempts, RouterInv
  <2>2. u.at \in 1 .. n
    BY <1>3, <2>1
  <2>3. u.at = t.at
    BY <1>2, <1>4, <2>2 DEF ChainOK, Of
  <2>4. u = t
    BY <1>1, <2>1, <2>3 DEF RouterInv
  <2> QED BY <2>4 DEF RouterInv
<1>7. /\ t.usage \in Nat \cup {Unknown}
      /\ "tpd" \notin DOMAIN t.headers /\ \A b \in DOMAIN t.headers : t.headers[b] \in Int
  BY <1>1 DEF RouterInv
<1> QED BY <1>1, <1>3, <1>5, <1>6, <1>7 DEF Of, Reserved, Estimate

\* What a settled attempt has cost its model, which had the estimate taken from it.
Spent(t) == Final(t, Estimate(chains, t.call, Of(t)))
Kept(t) == Estimate(chains, t.call, Of(t)) - Spent(t)

\* What lev says of the day is what level says of it with t's correction, up to
\* the capacity.
Corrects(lev, t) ==
  /\ LevelOK(lev)
  /\ \A m \in Models \ {Of(t)} : "tpd" \in Buckets(m) => lev[m]["tpd"] = level[m]["tpd"]
  /\ LET m == Of(t) IN
       "tpd" \in Buckets(m) =>
         \/ Kept(t) <= 0 /\ lev[m]["tpd"] = level[m]["tpd"] + Kept(t)
         \/ lev[m]["tpd"] = Min({Capacity[m]["tpd"], level[m]["tpd"] + Kept(t)})

LEMMA RecordedCorrects ==
  ASSUME RouterInv, NEW t \in reports, NEW tokens \in Nat, Kept(t) = - tokens
  PROVE  Corrects(Recorded(level, Of(t), tokens), t)
<1> DEFINE lev == Recorded(level, Of(t), tokens)
           mt == Of(t)
<1>1. LevelOK(level) /\ mt \in Models
  BY ReportIsOf DEF RouterInv
<1>2. /\ LevelOK(lev)
      /\ \A n \in Models : "tpd" \in Buckets(n) =>
           lev[n]["tpd"] = level[n]["tpd"] - (IF n = mt THEN tokens ELSE 0)
  BY <1>1, RecordedLevel
<1>3. \A n \in Models : "tpd" \in Buckets(n) => level[n]["tpd"] \in Int
  BY <1>1 DEF LevelOK
<1> HIDE DEF lev, mt
<1>4. Kept(t) = - tokens /\ Kept(t) <= 0
  OBVIOUS
<1>5. \A m \in Models \ {mt} : "tpd" \in Buckets(m) => lev[m]["tpd"] = level[m]["tpd"]
  BY <1>2, <1>3
<1>6. "tpd" \in Buckets(mt) => lev[mt]["tpd"] = level[mt]["tpd"] + Kept(t)
  BY <1>1, <1>2, <1>3, <1>4
<1> QED BY <1>2, <1>4, <1>5, <1>6 DEF lev, mt, Corrects

LEMMA AdjustedCorrects ==
  ASSUME RouterInv, NEW t \in reports, NEW delta \in Int, Kept(t) = - delta
  PROVE  Corrects(Adjusted(level, Of(t), delta), t)
<1> DEFINE lev == Adjusted(level, Of(t), delta)
           mt == Of(t)
<1>1. LevelOK(level) /\ mt \in Models
  BY ReportIsOf DEF RouterInv
<1>2. /\ LevelOK(lev)
      /\ \A n \in Models : "tpd" \in Buckets(n) =>
           lev[n]["tpd"] = IF n = mt THEN Min({Capacity[n]["tpd"], level[n]["tpd"] - delta}) ELSE level[n]["tpd"]
  BY <1>1, AdjustedLevel
<1>3. "tpd" \in Buckets(mt) => level[mt]["tpd"] - delta = level[mt]["tpd"] + Kept(t)
  BY <1>1 DEF LevelOK
<1> HIDE DEF lev, mt
<1>4. \A m \in Models \ {mt} : "tpd" \in Buckets(m) => lev[m]["tpd"] = level[m]["tpd"]
  BY <1>2, Zenon
<1>5. "tpd" \in Buckets(mt) => lev[mt]["tpd"] = Min({Capacity[mt]["tpd"], level[mt]["tpd"] - delta})
  BY <1>1, <1>2, Zenon
<1>6. "tpd" \in Buckets(mt) => lev[mt]["tpd"] = Min({Capacity[mt]["tpd"], level[mt]["tpd"] + Kept(t)})
  BY <1>3, <1>5, Zenon
<1> QED BY <1>2, <1>4, <1>6, Zenon DEF lev, mt, Corrects

\* A header never tells of the tokens of the day.
LEMMA SyncedCorrects ==
  ASSUME RouterInv, NEW t \in reports, NEW lev, Corrects(lev, t)
  PROVE  Corrects(Synced(lev, Of(t), t.headers), t)
<1> DEFINE new == Synced(lev, Of(t), t.headers)
<1>1. LevelOK(lev) /\ Of(t) \in Models
  BY ReportIsOf DEF Corrects
<1>2. "tpd" \notin DOMAIN t.headers /\ \A b \in DOMAIN t.headers : t.headers[b] \in Int
  BY ReportIsOf
<1>3. LevelOK(new) /\ \A n \in Models : "tpd" \in Buckets(n) => new[n]["tpd"] = lev[n]["tpd"]
  BY <1>1, <1>2, SyncedLevel
<1> HIDE DEF new
<1>4. Corrects(new, t)
  BY <1>1, <1>3, Zenon DEF Corrects
<1> QED BY <1>4 DEF new

LEMMA LogCorrects ==
  ASSUME RouterInv, NEW t \in reports, Log(t)
  PROVE  Corrects(level', t) /\ Spent(t) \in Nat
<1> DEFINE tokens == chains[t.call].tokens
           e == Estimate(chains, t.call, Of(t))
<1>1. /\ tokens \in Nat /\ e = (IF Reserved(t) THEN tokens ELSE 0)
      /\ t.usage \in Nat \cup {Unknown}
  BY ReportIsOf
<1>2. Unknown \notin Nat /\ LevelOK(level)
  BY RouterAssumption DEF RouterInv
<1>3. Spent(t) = (IF ~t.served THEN 0 ELSE IF t.usage = Unknown THEN e ELSE t.usage) /\ Kept(t) = e - Spent(t)
  BY DEF Spent, Kept, Final
<1> HIDE DEF e, tokens
<1>4. Spent(t) \in Nat
  BY <1>1, <1>3
<1>5. CASE t.served
  <2> DEFINE billed == IF ~Reserved(t) THEN Recorded(level, Of(t), Known(t.usage))
                       ELSE IF t.usage = Unknown THEN level
                       ELSE Adjusted(level, Of(t), t.usage - tokens)
  <2>1. level' = Synced(billed, Of(t), t.headers)
    BY <1>5 DEF Log, LogSuccess, tokens
  <2>2. Corrects(billed, t)
    <3>1. CASE ~Reserved(t)
      <4>1. Known(t.usage) \in Nat /\ Kept(t) = - Known(t.usage)
        BY <1>1, <1>2, <1>3, <1>5, <3>1 DEF Known
      <4> QED BY <3>1, <4>1, RecordedCorrects
    <3>2. CASE Reserved(t) /\ t.usage = Unknown
      <4>1. Kept(t) = 0 /\ Kept(t) <= 0
        BY <1>1, <1>3, <1>5, <3>2
      <4>2. Of(t) \in Models /\ \A m \in Models : "tpd" \in Buckets(m) => level[m]["tpd"] \in Int
        BY <1>2, ReportIsOf DEF LevelOK
      <4>3. "tpd" \in Buckets(Of(t)) => level[Of(t)]["tpd"] = level[Of(t)]["tpd"] + Kept(t)
        BY <4>1, <4>2
      <4>4. Corrects(level, t)
        BY <1>2, <4>1, <4>3, Zenon DEF Corrects
      <4> QED BY <3>2, <4>4
    <3>3. CASE Reserved(t) /\ t.usage # Unknown
      <4>1. t.usage - tokens \in Int /\ Kept(t) = - (t.usage - tokens)
        BY <1>1, <1>3, <1>5, <3>3
      <4> QED BY <3>3, <4>1, AdjustedCorrects
    <3> QED BY <3>1, <3>2, <3>3
  <2> HIDE DEF billed
  <2> QED BY <1>4, <2>1, <2>2, SyncedCorrects
<1>6. CASE ~t.served
  <2> DEFINE billed == IF Reserved(t) THEN Adjusted(level, Of(t), -tokens) ELSE Recorded(level, Of(t), 0)
  <2>1. level' = Synced(billed, Of(t), t.headers)
    BY <1>6 DEF Log, LogFailure, tokens
  <2>2. Corrects(billed, t)
    <3>1. CASE Reserved(t)
      <4>1. -tokens \in Int /\ Kept(t) = - (-tokens)
        BY <1>1, <1>3, <1>6, <3>1
      <4> QED BY <3>1, <4>1, AdjustedCorrects
    <3>2. CASE ~Reserved(t)
      <4>1. 0 \in Nat /\ Kept(t) = - 0
        BY <1>1, <1>3, <1>6, <3>2
      <4> QED BY <3>2, <4>1, RecordedCorrects
    <3> QED BY <3>1, <3>2
  <2> HIDE DEF billed
  <2> QED BY <1>4, <2>1, <2>2, SyncedCorrects
<1> QED BY <1>5, <1>6

\* A callback corrects what the call owes and the level alike.
LEMMA LogKeeps ==
  ASSUME RouterInv, NEW t \in reports, Log(t)
  PROVE  RouterInv' /\ (DayInv => DayInv')
<1> DEFINE c == t.call
           mt == Of(t)
<1>1. /\ reports' = reports \ {t} /\ settled' = settled \cup {t}
      /\ UNCHANGED <<chains, ticks>>
  BY DEF Log
<1>2. Called' = Called /\ Attempts' = Attempts
  BY <1>1 DEF Called, Attempts
<1>3. Corrects(level', t) /\ Spent(t) \in Nat
  BY LogCorrects
<1>4. RouterInv'
  <2>1. LevelOK(level')
    BY <1>3 DEF Corrects
  <2>2. reports' \cap settled' = {}
    BY <1>1 DEF RouterInv
  <2> QED BY <1>1, <1>2, <2>1, <2>2 DEF RouterInv
<1>5. c \in Called /\ DueOf(chains, settled, c, mt) = {}
  BY ReportIsOf
<1>6. ASSUME NEW m, NEW d \in Called, d # c \/ m # mt
      PROVE  Due(chains', settled', d, m) = Due(chains, settled, d, m)
  <2>1. DueOf(chains', settled', d, m) = DueOf(chains, settled, d, m)
    BY <1>1, <1>6 DEF DueOf, Of
  <2>2. Estimate(chains', d, m) = Estimate(chains, d, m)
    BY <1>1
  <2> QED BY <2>1, <2>2 DEF Due
<1>7. Due(chains, settled, c, mt) = Estimate(chains, c, mt) /\ Due(chains', settled', c, mt) = Spent(t)
  <2>1. DueOf(chains', settled', c, mt) = {t}
    BY <1>1, <1>5 DEF DueOf, Of
  <2>2. OneOf({t}) = t
    BY DEF OneOf
  <2>3. Estimate(chains', c, mt) = Estimate(chains, c, mt)
    BY <1>1
  <2> QED BY <1>5, <2>1, <2>2, <2>3 DEF Due, Spent
<1>8. ASSUME NEW m \in Models \ {mt} PROVE OwedTokens(m)' = OwedTokens(m)
  BY <1>2, <1>6, SameDue
<1>9. ASSUME DayInv, NEW m \in Models, "tpd" \in Buckets(m)
      PROVE  /\ IsFiniteSet(OwedTokens(m)')
             /\ level'[m]["tpd"] >= Capacity[m]["tpd"] - Cardinality(OwedTokens(m)')
             /\ level'[m]["tpd"] <= Capacity[m]["tpd"]
             /\ level'[m]["tpd"] <= Capacity[m]["tpd"] - Cardinality(OwedTokens(m)') + ticks' * Rate["tpd"]
  <2> DEFINE k == Capacity[m]["tpd"]
             l == level[m]["tpd"]
             new == level'[m]["tpd"]
             q == ticks * Rate["tpd"]
             d == Cardinality(OwedTokens(m))
             due == Cardinality(OwedTokens(m)')
             y == Kept(t)
  <2>1. IsFiniteSet(OwedTokens(m)) /\ l >= k - d /\ l <= k /\ l <= k - d + q
    BY <1>9 DEF DayInv
  <2>2. d \in Nat /\ k \in Int /\ q \in Nat /\ l \in Int
    <3>1. ticks \in Nat /\ Rate["tpd"] \in Nat /\ k \in Int /\ l \in Int
      BY <1>9, RouterAssumption DEF RouterInv, LevelOK
    <3> QED BY <2>1, <3>1, FS_CardinalityType
  <2>3. CASE m # mt
    <3>1. OwedTokens(m)' = OwedTokens(m)
      BY <1>8, <2>3
    <3>2. level'[m]["tpd"] = level[m]["tpd"]
      BY <1>3, <1>9, <2>3 DEF Corrects
    <3>3. Cardinality(OwedTokens(m)') = d /\ IsFiniteSet(OwedTokens(m)')
      BY <2>1, <3>1
    <3> QED BY <1>1, <2>1, <3>2, <3>3
  <2>4. CASE m = mt
    <3>1. /\ IsFiniteSet(OwedTokens(m)') /\ due = d - Estimate(chains, c, m) + Spent(t)
      <4>1. \A x \in Called \ {c} : Due(chains', settled', x, m) = Due(chains, settled, x, m)
        BY <1>6
      <4>2. Due(chains', settled', c, m) \in Nat /\ Called' = Called \cup {c}
        BY <1>2, <1>3, <1>5, <1>7, <2>4
      <4>3. /\ IsFiniteSet(OwedTokens(m)')
            /\ due = d - (IF c \in Called THEN Due(chains, settled, c, m) ELSE 0) + Due(chains', settled', c, m)
        BY <2>1, <4>1, <4>2, OneDue
      <4>4. Due(chains, settled, c, m) = Estimate(chains, c, m) /\ Due(chains', settled', c, m) = Spent(t)
        BY <1>7, <2>4
      <4> HIDE DEF c, d, due
      <4> QED BY <1>5, <4>3, <4>4
    <3>2. Estimate(chains, c, m) \in Nat /\ y = Estimate(chains, c, m) - Spent(t)
      BY <1>5, <2>4, DueIsNat DEF Kept
    <3>3. (y <= 0 /\ new = l + y) \/ new = Min({k, l + y})
      BY <1>3, <1>9, <2>4 DEF Corrects
    <3>4. due \in Nat
      BY <3>1, FS_CardinalityType
    <3> HIDE DEF c, k, l, new, q, d, due, y
    <3>5. y \in Int /\ due = d - y
      BY <1>3, <2>2, <3>1, <3>2
    <3>6. (y <= 0 /\ new = l + y) \/ new = (IF k <= l + y THEN k ELSE l + y)
      BY <2>2, <3>3, <3>5, MinOfTwo
    <3>7. new >= k - due /\ new <= k - due + q
      BY <2>1, <2>2, <3>4, <3>5, <3>6
    <3>8. new <= k
      BY <2>1, <2>2, <3>4, <3>5, <3>6
    <3> QED BY <1>1, <3>1, <3>7, <3>8 DEF k, new, q, due
  <2> QED BY <2>3, <2>4
<1>10. DayInv => DayInv'
  BY <1>9 DEF DayInv
<1> QED BY <1>4, <1>10

LEMMA RouterInvInit == RouterInit => RouterInv /\ DayInv
<1> SUFFICES ASSUME RouterInit PROVE RouterInv /\ DayInv
  OBVIOUS
<1>1. /\ Called = {} /\ Attempts = {} /\ reports \cap settled = {} /\ ticks = 0
      /\ chains \in [Calls -> Chain]
  BY DEF RouterInit, Called, Attempts, Chain, NotCalled
<1>2. \A m \in Models : \A b \in Buckets(m) : Capacity[m][b] \in Int
  BY RouterAssumption
<1> DEFINE F(m) == [b \in Buckets(m) |-> Capacity[m][b]]
<1>3. level = [m \in Models |-> F(m)] /\ \A m \in Models : F(m) \in [Buckets(m) -> Int]
  BY <1>2 DEF RouterInit
<1>4. \A m \in Models : "tpd" \in Buckets(m) => level[m]["tpd"] = Capacity[m]["tpd"]
  BY DEF RouterInit
<1> HIDE DEF F
<1>5. LevelOK(level)
  BY <1>3 DEF LevelOK
<1>6. RouterInv
  BY <1>1, <1>5 DEF RouterInv
<1>7. ASSUME NEW m PROVE IsFiniteSet(OwedTokens(m)) /\ Cardinality(OwedTokens(m)) = 0
  <2>1. OwedTokens(m) = {}
    BY <1>1 DEF OwedTokens
  <2> QED BY <2>1, FS_EmptySet
<1>8. DayInv
  <2> SUFFICES ASSUME NEW m \in Models, "tpd" \in Buckets(m)
               PROVE  /\ IsFiniteSet(OwedTokens(m))
                      /\ level[m]["tpd"] >= Capacity[m]["tpd"] - Cardinality(OwedTokens(m))
                      /\ level[m]["tpd"] <= Capacity[m]["tpd"]
                      /\ level[m]["tpd"] <= Capacity[m]["tpd"] - Cardinality(OwedTokens(m)) + ticks * Rate["tpd"]
    BY DEF DayInv
  <2>1. 0 * Rate["tpd"] = 0 /\ Capacity[m]["tpd"] \in Int
    BY <1>2, RouterAssumption
  <2> QED BY <1>1, <1>4, <1>7, <2>1
<1> QED BY <1>6, <1>8

LEMMA RouterStep == RouterInv /\ DayInv /\ [RouterNext]_routerVars => RouterInv' /\ DayInv'
<1> SUFFICES ASSUME RouterInv, DayInv, [RouterNext]_routerVars PROVE RouterInv' /\ DayInv'
  OBVIOUS
<1>1. CASE Tick
  BY <1>1, TickKeeps
<1>2. ASSUME NEW c \in Calls, NEW tokens \in Estimates, GetLlm(c, tokens) PROVE RouterInv' /\ DayInv'
  BY <1>2, GetLlmKeeps
<1>3. ASSUME NEW c \in Started, NEW headers \in SomeHeaders(c), NEW usage \in Usages,
             Answered(c, usage, headers)
      PROVE  RouterInv' /\ DayInv'
  BY <1>3, AnsweredKeeps
<1>4. ASSUME NEW c \in Started, NEW headers \in SomeHeaders(c), NEW streaming \in BOOLEAN,
             Refused(c, headers, streaming)
      PROVE  RouterInv' /\ DayInv'
  BY <1>4, RefusedKeeps
<1>5. ASSUME NEW c \in Started, GivenUp(c) PROVE RouterInv' /\ DayInv'
  BY <1>5, GivenUpKeeps
<1>6. ASSUME NEW t \in reports, Log(t) PROVE RouterInv' /\ DayInv'
  BY <1>6, LogKeeps
<1>7. CASE UNCHANGED routerVars
  <2>1. UNCHANGED <<level, chains, reports, settled, ticks>>
    BY <1>7 DEF routerVars
  <2>2. Called' = Called /\ Attempts' = Attempts
    BY <2>1 DEF Called, Attempts
  <2>3. RouterInv'
    BY <2>1, <2>2 DEF RouterInv
  <2>4. ASSUME NEW m PROVE OwedTokens(m)' = OwedTokens(m)
    <3>1. \A c \in Called : Due(chains', settled', c, m) = Due(chains, settled, c, m)
      BY <2>1
    <3> QED BY <2>2, <3>1, SameDue
  <2> QED BY <2>1, <2>3, <2>4 DEF DayInv
<1> QED BY <1>1, <1>2, <1>3, <1>4, <1>5, <1>6, <1>7, Zenon DEF RouterNext

\* In whatever order calls run, fail over, are given up and are reported, what a
\* model's day has left is its capacity less what calls have cost it, but for what
\* the refill gave back: no callback refunds the wrong model or bills twice
\* (router.py's RouterUsageLogger).
THEOREM TokensStayAccounted == RouterSpec => []TokensAreAccounted
<1>1. RouterInv /\ DayInv => TokensAreAccounted
  <2> SUFFICES ASSUME RouterInv, DayInv, NEW m \in Models, "tpd" \in Buckets(m)
               PROVE  /\ level[m]["tpd"] >= Capacity[m]["tpd"] - Cardinality(OwedTokens(m))
                      /\ level[m]["tpd"] <= Min({Capacity[m]["tpd"],
                                                 Capacity[m]["tpd"] - Cardinality(OwedTokens(m)) + ticks * Rate["tpd"]})
    BY DEF TokensAreAccounted
  <2> DEFINE k == Capacity[m]["tpd"]
             x == Capacity[m]["tpd"] - Cardinality(OwedTokens(m)) + ticks * Rate["tpd"]
  <2>1. /\ IsFiniteSet(OwedTokens(m)) /\ level[m]["tpd"] >= k - Cardinality(OwedTokens(m))
        /\ level[m]["tpd"] <= k /\ level[m]["tpd"] <= x
    BY DEF DayInv
  <2>2. k \in Int /\ x \in Int
    <3>1. k \in Int /\ ticks \in Int /\ Rate["tpd"] \in Int /\ Cardinality(OwedTokens(m)) \in Int
      BY <2>1, RouterAssumption, FS_CardinalityType DEF RouterInv
    <3> QED BY <3>1
  <2> HIDE DEF x
  <2>3. Min({k, x}) = IF k <= x THEN k ELSE x
    BY <2>2, MinOfTwo
  <2>4. level[m]["tpd"] <= Min({k, x})
    BY <2>1, <2>3
  <2> QED BY <2>1, <2>4 DEF x
<1> QED BY RouterInvInit, RouterStep, <1>1, PTL DEF RouterSpec

-----------------------------------------------------------------------------
(* The board                                                               *)


Drawn == [kind : {"circuit", "equation", "annotation"}, text : Texts]
Rendered == [kind : {"circuit", "equation", "annotation"}, text : Readable, step_id : Steps \cup {NoStep}]
Board(Object) ==
  [version : Nat, active_step : Steps \cup {NoStep}, order : Seq(Ids),
   objects : UNION {[D -> Object] : D \in SUBSET Ids}, highlights : Seq(Ids)]

LEMMA BoardFields ==
  ASSUME NEW Object, NEW b \in Board(Object)
  PROVE  /\ b.version \in Nat /\ b.active_step \in Steps \cup {NoStep}
         /\ b.order \in Seq(Ids) /\ b.highlights \in Seq(Ids)
         /\ DOMAIN b.objects \subseteq Ids /\ b.objects \in [DOMAIN b.objects -> Object]
         /\ b = [version |-> b.version, active_step |-> b.active_step, order |-> b.order,
                 objects |-> b.objects, highlights |-> b.highlights]
  BY DEF Board

LEMMA BoardIntro ==
  ASSUME NEW Object, NEW v \in Nat, NEW a \in Steps \cup {NoStep}, NEW o \in Seq(Ids),
         NEW D \in SUBSET Ids, NEW f \in [D -> Object], NEW h \in Seq(Ids)
  PROVE  [version |-> v, active_step |-> a, order |-> o, objects |-> f, highlights |-> h] \in Board(Object)
  BY DEF Board

LEMMA EventFields ==
  ASSUME NEW e \in Event
  PROVE  /\ e.action \in Draws \cup {"step_started", "highlight_object", "clear_annotation", "step_completed", "tutor_error"}
         /\ e.step_id \in Steps
         /\ e.action \in Draws => /\ e.object_id \in Ids /\ e.text \in Texts /\ "text" \in DOMAIN e
                                  /\ Kind(e.action) \in {"circuit", "equation", "annotation"}
         /\ e.action \in {"highlight_object", "clear_annotation"} => e.object_id \in Ids
  BY BoardAssumption DEF Event, Draws, Kind

\* What an event does to a board.
Clears(b, e) == e.action = "clear_annotation" /\ IsNote(b, e.object_id)
Marks(b, e) == e.action = "highlight_object" /\ Has(b, e.object_id) /\ ~Contains(b.highlights, e.object_id)
StepAfter(b, e) ==
  IF e.action = "step_started" THEN e.step_id ELSE IF e.action = "step_completed" THEN NoStep ELSE b.active_step
After(b, e, object, ordered, marked) ==
  [version |-> b.version + 1, active_step |-> StepAfter(b, e),
   order |-> IF e.action \in Draws /\ ~Has(b, e.object_id) THEN Append(b.order, e.object_id)
             ELSE IF Clears(b, e) THEN ordered ELSE b.order,
   objects |-> IF e.action \in Draws THEN Put(b.objects, e.object_id, object)
               ELSE IF Clears(b, e) THEN Drop(b.objects, e.object_id) ELSE b.objects,
   highlights |-> IF Marks(b, e) THEN Append(b.highlights, e.object_id)
                  ELSE IF e.action = "clear_annotation" THEN marked ELSE b.highlights]

\* A board with one of its fields changed.
LEMMA FieldChanged ==
  ASSUME NEW v, NEW a, NEW o, NEW f, NEW h, NEW x, NEW b,
         b = [version |-> v, active_step |-> a, order |-> o, objects |-> f, highlights |-> h]
  PROVE  /\ b.version = v /\ b.active_step = a /\ b.order = o /\ b.objects = f /\ b.highlights = h
         /\ [b EXCEPT !.version = x] =
              [version |-> x, active_step |-> a, order |-> o, objects |-> f, highlights |-> h]
         /\ [b EXCEPT !.active_step = x] =
              [version |-> v, active_step |-> x, order |-> o, objects |-> f, highlights |-> h]
         /\ [b EXCEPT !.order = x] =
              [version |-> v, active_step |-> a, order |-> x, objects |-> f, highlights |-> h]
         /\ [b EXCEPT !.objects = x] =
              [version |-> v, active_step |-> a, order |-> o, objects |-> x, highlights |-> h]
         /\ [b EXCEPT !.highlights = x] =
              [version |-> v, active_step |-> a, order |-> o, objects |-> f, highlights |-> x]
  OBVIOUS

\* The server's reducer, in one formula for all events.
LEMMA ApplyIs ==
  ASSUME NEW Object, NEW b \in Board(Object), NEW e \in Event
  PROVE  Apply(b, e) = After(b, e, [kind |-> Kind(e.action), text |-> e.text],
                             RemoveFirst(b.order, e.object_id), RemoveFirst(b.highlights, e.object_id))
<1> DEFINE v == b.version + 1
           r == RemoveFirst(b.order, e.object_id)
           h == RemoveFirst(b.highlights, e.object_id)
           obj == [kind |-> Kind(e.action), text |-> e.text]
           New(a, o, f, m) == [version |-> v, active_step |-> a, order |-> o, objects |-> f, highlights |-> m]
           Now(a, o, f, m) == [version |-> b.version, active_step |-> a, order |-> o, objects |-> f, highlights |-> m]
<1>0. b = Now(b.active_step, b.order, b.objects, b.highlights)
  BY BoardFields
<1>1. \A a, o, f, m : Applied(b, e) = Now(a, o, f, m) => Apply(b, e) = New(a, o, f, m)
  <2> TAKE a, o, f, m
  <2> HAVE Applied(b, e) = Now(a, o, f, m)
  <2> HIDE DEF v
  <2>1. [Applied(b, e) EXCEPT !.version = v] = New(a, o, f, m)
    BY FieldChanged
  <2> QED BY <2>1 DEF Apply, v
<1>2. e.action \in Draws \cup {"step_started", "highlight_object", "clear_annotation", "step_completed", "tutor_error"}
  BY EventFields
<1>3. CASE e.action \in Draws
  <2> DEFINE o == IF Has(b, e.object_id) THEN b.order ELSE Append(b.order, e.object_id)
             f == Put(b.objects, e.object_id, obj)
             c == [b EXCEPT !.order = o]
             d == [c EXCEPT !.objects = f]
  <2>1. Applied(b, e) = d
    BY <1>3 DEF Applied, Draws
  <2>2. After(b, e, obj, r, h) = New(b.active_step, o, f, b.highlights)
    BY <1>3 DEF After, StepAfter, Clears, Marks, Draws
  <2> HIDE DEF o, f, v, r, h, obj, New
  <2>3. c = Now(b.active_step, o, b.objects, b.highlights)
    BY <1>0
  <2> HIDE DEF c
  <2>4. d = Now(b.active_step, o, f, b.highlights)
    BY <2>3
  <2> HIDE DEF d, Now
  <2> QED BY <1>1, <2>1, <2>2, <2>4 DEF r, h, obj
<1>4. CASE Marks(b, e)
  <2> DEFINE m == Append(b.highlights, e.object_id)
             c == [b EXCEPT !.highlights = m]
  <2>1. Applied(b, e) = c
    BY <1>4 DEF Applied, Draws, Marks
  <2>2. After(b, e, obj, r, h) = New(b.active_step, b.order, b.objects, m)
    BY <1>4 DEF After, StepAfter, Clears, Marks, Draws
  <2> HIDE DEF m, v, r, h, obj, New
  <2>3. c = Now(b.active_step, b.order, b.objects, m)
    BY <1>0
  <2> HIDE DEF c, Now
  <2> QED BY <1>1, <2>1, <2>2, <2>3 DEF r, h, obj
<1>5. CASE e.action = "clear_annotation" /\ IsNote(b, e.object_id)
  <2> DEFINE f == Drop(b.objects, e.object_id)
             c == [b EXCEPT !.highlights = h]
             d == [c EXCEPT !.objects = f]
             g == [d EXCEPT !.order = r]
  <2>1. Applied(b, e) = [c EXCEPT !.objects = Drop(@, e.object_id), !.order = RemoveFirst(@, e.object_id)]
    BY <1>5 DEF Applied, Draws, IsNote
  <2>2. After(b, e, obj, r, h) = New(b.active_step, r, f, h)
    BY <1>5 DEF After, StepAfter, Clears, Marks, Draws
  <2> HIDE DEF v, obj, New, h
  <2>3. c = Now(b.active_step, b.order, b.objects, h)
    BY <1>0
  <2> HIDE DEF c
  <2>4. c.objects = b.objects /\ c.order = b.order
    BY <2>3
  <2>5. Applied(b, e) = g
    BY <2>1, <2>4
  <2> HIDE DEF f, r
  <2>6. d = Now(b.active_step, b.order, f, h)
    BY <2>3
  <2> HIDE DEF d
  <2>7. g = Now(b.active_step, r, f, h)
    BY <2>6
  <2> HIDE DEF g, Now
  <2> QED BY <1>1, <2>2, <2>5, <2>7 DEF r, h, obj
<1>6. CASE e.action = "clear_annotation" /\ ~IsNote(b, e.object_id)
  <2> DEFINE c == [b EXCEPT !.highlights = h]
  <2>1. Applied(b, e) = c
    BY <1>6 DEF Applied, Draws, IsNote
  <2>2. After(b, e, obj, r, h) = New(b.active_step, b.order, b.objects, h)
    BY <1>6 DEF After, StepAfter, Clears, Marks, Draws
  <2> HIDE DEF v, r, h, obj, New
  <2>3. c = Now(b.active_step, b.order, b.objects, h)
    BY <1>0
  <2> HIDE DEF c, Now
  <2> QED BY <1>1, <2>1, <2>2, <2>3 DEF r, h, obj
<1>7. CASE e.action \in {"step_started", "step_completed"}
  <2> DEFINE a == IF e.action = "step_started" THEN e.step_id ELSE NoStep
             c == [b EXCEPT !.active_step = a]
  <2>1. Applied(b, e) = c
    BY <1>7 DEF Applied, Draws
  <2>2. After(b, e, obj, r, h) = New(a, b.order, b.objects, b.highlights)
    BY <1>7 DEF After, StepAfter, Clears, Marks, Draws
  <2> HIDE DEF a, v, r, h, obj, New
  <2>3. c = Now(a, b.order, b.objects, b.highlights)
    BY <1>0
  <2> HIDE DEF c, Now
  <2> QED BY <1>1, <2>1, <2>2, <2>3 DEF r, h, obj
<1>8. CASE e.action = "tutor_error" \/ (e.action = "highlight_object" /\ ~Marks(b, e))
  <2>1. Applied(b, e) = b
    BY <1>8 DEF Applied, Draws, Marks
  <2>2. After(b, e, obj, r, h) = New(b.active_step, b.order, b.objects, b.highlights)
    BY <1>8 DEF After, StepAfter, Clears, Marks, Draws
  <2> HIDE DEF v, r, h, obj, New, Now
  <2> QED BY <1>0, <1>1, <2>1, <2>2 DEF r, h, obj
<1> QED BY <1>2, <1>3, <1>4, <1>5, <1>6, <1>7, <1>8 DEF Draws

\* The browser's reducer, in the same.
LEMMA ShownIs ==
  ASSUME NEW Object, NEW b \in Board(Object), NEW e \in Event, Valid(e)
  PROVE  ApplyEvent(b, e) =
           After(b, e, [kind |-> Kind(e.action), text |-> e.text, step_id |-> e.step_id],
                 Without(b.order, e.object_id), Without(b.highlights, e.object_id))
<1>1. b = [version |-> b.version, active_step |-> b.active_step, order |-> b.order,
           objects |-> b.objects, highlights |-> b.highlights]
  BY BoardFields
<1>2. e.action \in Draws \cup {"step_started", "highlight_object", "clear_annotation", "step_completed", "tutor_error"}
  BY EventFields
<1> USE DEF ApplyEvent, Shown, After, StepAfter, Clears, Marks, IsNote
<1>3. CASE e.action \in Draws
  BY <1>1, <1>3 DEF Draws
<1>4. CASE e.action = "highlight_object"
  BY <1>1, <1>4 DEF Draws
<1>5. CASE e.action = "clear_annotation"
  BY <1>1, <1>5 DEF Draws
<1>6. CASE e.action \in {"step_started", "step_completed", "tutor_error"}
  BY <1>1, <1>6 DEF Draws
<1> QED BY <1>2, <1>3, <1>4, <1>5, <1>6

\* The board after an event, with what is no longer there filtered out.
Follows(b, e, object) ==
  After(b, e, object, Without(b.order, e.object_id), Without(b.highlights, e.object_id))

\* A list without an id.
LEMMA WithoutIs ==
  ASSUME NEW s \in Seq(Ids), NEW id
  PROVE  /\ Without(s, id) \in Seq(Ids) /\ Range(Without(s, id)) = Range(s) \ {id}
         /\ IsInjective(s) => IsInjective(Without(s, id))
<1>1. Range(s) \subseteq Ids
  BY RangeOfSeq
<1> QED BY <1>1, OnlyType, OnlyInjective DEF Without

\* Listed, in terms of the lists' ranges.
LEMMA ListedIs ==
  ASSUME NEW b
  PROVE  Listed(b) <=> /\ IsInjective(b.order) /\ Range(b.order) = DOMAIN b.objects
                       /\ IsInjective(b.highlights) /\ Range(b.highlights) \subseteq DOMAIN b.objects
  BY DEF Listed, Range

LEMMA ApplyFollows ==
  ASSUME NEW Object, NEW b \in Board(Object), NEW e \in Event, Listed(b)
  PROVE  Apply(b, e) = Follows(b, e, [kind |-> Kind(e.action), text |-> e.text])
<1> DEFINE obj == [kind |-> Kind(e.action), text |-> e.text]
           r == RemoveFirst(b.order, e.object_id)
           h == RemoveFirst(b.highlights, e.object_id)
           o == Without(b.order, e.object_id)
           m == Without(b.highlights, e.object_id)
<1>1. Apply(b, e) = After(b, e, obj, r, h)
  BY ApplyIs
<1>2. e.action = "clear_annotation" => r = o /\ h = m
  <2> HAVE e.action = "clear_annotation"
  <2>1. e.object_id \in Ids
    BY EventFields
  <2>2. b.order \in Seq(Ids) /\ b.highlights \in Seq(Ids)
    BY BoardFields
  <2>3. IsInjective(b.order) /\ IsInjective(b.highlights)
    BY ListedIs
  <2> QED BY <2>1, <2>2, <2>3, RemoveFirstIsOnly DEF Without
<1> HIDE DEF r, h, o, m, obj
<1>3. CASE e.action = "clear_annotation"
  BY <1>1, <1>2, <1>3 DEF Follows, o, m, obj
<1>4. CASE e.action # "clear_annotation"
  BY <1>1, <1>4 DEF Follows, After, Clears, obj
<1> QED BY <1>3, <1>4

LEMMA FollowsBoard ==
  ASSUME NEW Object, NEW b \in Board(Object), NEW e \in Event, NEW object, e.action \in Draws => object \in Object
  PROVE  Follows(b, e, object) \in Board(Object)
<1> DEFINE c == Follows(b, e, object)
<1>1. /\ b.version \in Nat /\ b.active_step \in Steps \cup {NoStep} /\ b.order \in Seq(Ids)
      /\ b.highlights \in Seq(Ids) /\ DOMAIN b.objects \subseteq Ids /\ b.objects \in [DOMAIN b.objects -> Object]
  BY BoardFields
<1>2. /\ e.action \in Draws => e.object_id \in Ids
      /\ e.action \in {"highlight_object", "clear_annotation"} => e.object_id \in Ids
      /\ e.step_id \in Steps
  BY EventFields
<1>3. Without(b.order, e.object_id) \in Seq(Ids) /\ Without(b.highlights, e.object_id) \in Seq(Ids)
  BY <1>1, WithoutIs
<1>4. StepAfter(b, e) \in Steps \cup {NoStep} /\ b.version + 1 \in Nat
  BY <1>1, <1>2 DEF StepAfter
<1>5. c.order \in Seq(Ids) /\ c.highlights \in Seq(Ids)
  <2>1. c.order \in Seq(Ids)
    BY <1>1, <1>2, <1>3 DEF Follows, After
  <2>2. Marks(b, e) => e.object_id \in Ids
    BY <1>2 DEF Marks
  <2>3. c.highlights \in Seq(Ids)
    BY <1>1, <1>3, <2>2 DEF Follows, After
  <2> QED BY <2>1, <2>3
<1>6. PICK D \in SUBSET Ids : c.objects \in [D -> Object]
  <2>1. CASE e.action \in Draws
    <3>1. c.objects = Put(b.objects, e.object_id, object)
      BY <2>1 DEF Follows, After
    <3>2. Put(b.objects, e.object_id, object) \in [DOMAIN b.objects \cup {e.object_id} -> Object]
      BY <1>1, <2>1 DEF Put
    <3> QED BY <1>1, <1>2, <2>1, <3>1, <3>2
  <2>2. CASE e.action \notin Draws /\ Clears(b, e)
    <3>1. c.objects = Drop(b.objects, e.object_id)
      BY <2>2 DEF Follows, After
    <3>2. Drop(b.objects, e.object_id) \in [DOMAIN b.objects \ {e.object_id} -> Object]
      BY <1>1 DEF Drop
    <3> QED BY <1>1, <3>1, <3>2
  <2>3. CASE e.action \notin Draws /\ ~Clears(b, e)
    <3>1. c.objects = b.objects
      BY <2>3 DEF Follows, After
    <3> QED BY <1>1, <3>1
  <2> QED BY <2>1, <2>2, <2>3
<1>7. c = [version |-> b.version + 1, active_step |-> StepAfter(b, e), order |-> c.order, objects |-> c.objects,
           highlights |-> c.highlights]
  BY DEF Follows, After
<1> HIDE DEF c
<1>8. [version |-> b.version + 1, active_step |-> StepAfter(b, e), order |-> c.order, objects |-> c.objects,
       highlights |-> c.highlights] \in Board(Object)
  BY <1>4, <1>5, <1>6, BoardIntro
<1>9. c \in Board(Object)
  BY <1>7, <1>8
<1> QED BY <1>9 DEF c

\* An event keeps the lists and the objects of a board together.
LEMMA FollowsListed ==
  ASSUME NEW Object, NEW b \in Board(Object), NEW e \in Event, NEW object, Listed(b)
  PROVE  Listed(Follows(b, e, object))
<1> DEFINE c == Follows(b, e, object)
           id == e.object_id
           o == Without(b.order, id)
           m == Without(b.highlights, id)
<1>1. /\ b.order \in Seq(Ids) /\ b.highlights \in Seq(Ids)
  BY BoardFields
<1>2. /\ IsInjective(b.order) /\ Range(b.order) = DOMAIN b.objects
      /\ IsInjective(b.highlights) /\ Range(b.highlights) \subseteq DOMAIN b.objects
  BY ListedIs
<1>3. /\ e.action \in Draws => id \in Ids
      /\ e.action \in {"highlight_object", "clear_annotation"} => id \in Ids
  BY EventFields
<1>4. /\ IsInjective(o) /\ Range(o) = Range(b.order) \ {id}
      /\ IsInjective(m) /\ Range(m) = Range(b.highlights) \ {id}
  BY <1>1, <1>2, WithoutIs
<1>5. /\ c.order = IF e.action \in Draws /\ ~Has(b, id) THEN Append(b.order, id) ELSE IF Clears(b, e) THEN o ELSE b.order
      /\ c.objects = IF e.action \in Draws THEN Put(b.objects, id, object)
                     ELSE IF Clears(b, e) THEN Drop(b.objects, id) ELSE b.objects
      /\ c.highlights = IF Marks(b, e) THEN Append(b.highlights, id)
                        ELSE IF e.action = "clear_annotation" THEN m ELSE b.highlights
  BY DEF Follows, After
<1>6. /\ e.action \in Draws => e.action \notin {"highlight_object", "clear_annotation"}
      /\ Clears(b, e) => e.action = "clear_annotation" /\ ~Marks(b, e)
  BY DEF Draws, Clears, Marks
<1> SUFFICES Listed(c)
  OBVIOUS
<1> HIDE DEF c, id, o, m
<1>7. CASE e.action \in Draws
  <2>1. DOMAIN c.objects = DOMAIN b.objects \cup {id}
    BY <1>5, <1>7 DEF Put
  <2>2. c.highlights = b.highlights
    BY <1>5, <1>6, <1>7 DEF Marks
  <2>3. CASE Has(b, id)
    BY <1>2, <1>5, <1>6, <1>7, <2>1, <2>2, <2>3, ListedIs DEF Has
  <2>4. CASE ~Has(b, id)
    <3>1. Range(Append(b.order, id)) = Range(b.order) \cup {id} /\ IsInjective(Append(b.order, id))
      BY <1>1, <1>2, <1>3, <1>7, <2>4, RangeAppend, InjectiveAppend DEF Has
    <3> QED BY <1>2, <1>5, <1>7, <2>1, <2>2, <2>4, <3>1, ListedIs
  <2> QED BY <2>3, <2>4
<1>8. CASE Clears(b, e)
  <2>1. DOMAIN c.objects = DOMAIN b.objects \ {id} /\ c.order = o /\ c.highlights = m
    BY <1>5, <1>6, <1>8 DEF Drop
  <2> QED BY <1>2, <1>4, <2>1, ListedIs
<1>9. CASE e.action \notin Draws /\ ~Clears(b, e)
  <2>1. c.objects = b.objects /\ c.order = b.order
    BY <1>5, <1>9
  <2>2. IsInjective(c.highlights) /\ Range(c.highlights) \subseteq DOMAIN b.objects
    <3>1. CASE Marks(b, e)
      <4>1. id \in Ids /\ id \in DOMAIN b.objects /\ ~Contains(b.highlights, id)
        BY <1>3, <3>1 DEF Marks, Has, id
      <4>2. id \notin Range(b.highlights)
        BY <4>1 DEF Contains, Range
      <4>3. Range(Append(b.highlights, id)) = Range(b.highlights) \cup {id} /\ IsInjective(Append(b.highlights, id))
        BY <1>1, <1>2, <4>1, <4>2, RangeAppend, InjectiveAppend
      <4> QED BY <1>2, <1>5, <3>1, <4>1, <4>3
    <3>2. CASE ~Marks(b, e)
      BY <1>2, <1>4, <1>5, <3>2
    <3> QED BY <3>1, <3>2
  <2> QED BY <1>2, <2>1, <2>2, ListedIs
<1> QED BY <1>7, <1>8, <1>9

\* A board without the steps of its objects, field by field.
LEMMA ErasedIs ==
  ASSUME NEW b \in Board(Rendered)
  PROVE  /\ Erased(b) \in Board(Drawn)
         /\ Erased(b).version = b.version /\ Erased(b).active_step = b.active_step
         /\ Erased(b).order = b.order /\ Erased(b).highlights = b.highlights
         /\ Erased(b).objects = [i \in DOMAIN b.objects |-> [kind |-> b.objects[i].kind, text |-> b.objects[i].text]]
<1> DEFINE f == [i \in DOMAIN b.objects |-> [kind |-> b.objects[i].kind, text |-> b.objects[i].text]]
<1>1. b = [version |-> b.version, active_step |-> b.active_step, order |-> b.order,
           objects |-> b.objects, highlights |-> b.highlights]
  BY BoardFields
<1>2. Erased(b) = [b EXCEPT !.objects = f]
  BY DEF Erased
<1>3. /\ b.version \in Nat /\ b.active_step \in Steps \cup {NoStep} /\ b.order \in Seq(Ids)
      /\ b.highlights \in Seq(Ids) /\ DOMAIN b.objects \in SUBSET Ids /\ b.objects \in [DOMAIN b.objects -> Rendered]
  BY BoardFields
<1>4. f \in [DOMAIN b.objects -> Drawn]
  BY <1>3, BoardAssumption DEF Drawn, Rendered
<1> HIDE DEF f
<1>5. Erased(b) = [version |-> b.version, active_step |-> b.active_step, order |-> b.order,
                   objects |-> f, highlights |-> b.highlights]
  BY <1>1, <1>2
<1>6. [version |-> b.version, active_step |-> b.active_step, order |-> b.order, objects |-> f,
       highlights |-> b.highlights] \in Board(Drawn)
  BY <1>3, <1>4, BoardIntro
<1> QED BY <1>5, <1>6 DEF f

\* Without their steps the objects of the two boards agree, and stay in
\* agreement with an event.
LEMMA FollowsErased ==
  ASSUME NEW b \in Board(Rendered), NEW e \in Event, NEW kind, NEW text, NEW step,
         Follows(b, e, [kind |-> kind, text |-> text, step_id |-> step]) \in Board(Rendered)
  PROVE  Erased(Follows(b, e, [kind |-> kind, text |-> text, step_id |-> step]))
           = Follows(Erased(b), e, [kind |-> kind, text |-> text])
<1> DEFINE a == Erased(b)
           drawn == [kind |-> kind, text |-> text]
           shown == [kind |-> kind, text |-> text, step_id |-> step]
           c == Follows(b, e, shown)
           d == Follows(a, e, drawn)
           id == e.object_id
           E(f) == [i \in DOMAIN f |-> [kind |-> f[i].kind, text |-> f[i].text]]
<1>1. /\ a.version = b.version /\ a.active_step = b.active_step /\ a.order = b.order
      /\ a.highlights = b.highlights /\ a.objects = E(b.objects)
  BY ErasedIs
<1>2. DOMAIN a.objects = DOMAIN b.objects /\ \A i \in DOMAIN b.objects : a.objects[i].kind = b.objects[i].kind
  BY <1>1
<1> HIDE DEF a
<1>3. Has(a, id) = Has(b, id) /\ Clears(a, e) = Clears(b, e) /\ Marks(a, e) = Marks(b, e) /\ StepAfter(a, e) = StepAfter(b, e)
  <2>1. Has(a, id) <=> Has(b, id)
    BY <1>2 DEF Has
  <2>2. Clears(a, e) <=> Clears(b, e)
    BY <1>2 DEF Clears, IsNote, Has
  <2>3. Marks(a, e) <=> Marks(b, e)
    BY <1>1, <2>1 DEF Marks
  <2>4. StepAfter(a, e) = StepAfter(b, e)
    BY <1>1 DEF StepAfter
  <2>5. Has(a, id) \in BOOLEAN /\ Has(b, id) \in BOOLEAN /\ Clears(a, e) \in BOOLEAN /\ Clears(b, e) \in BOOLEAN
        /\ Marks(a, e) \in BOOLEAN /\ Marks(b, e) \in BOOLEAN
    BY DEF Has, Clears, Marks
  <2> QED BY <2>1, <2>2, <2>3, <2>4, <2>5
<1>4. E(Put(b.objects, id, shown)) = Put(a.objects, id, drawn)
  BY <1>1 DEF Put
<1>5. E(Drop(b.objects, id)) = Drop(a.objects, id)
  BY <1>1 DEF Drop
<1>6. E(c.objects) = d.objects
  <2>1. /\ c.objects = IF e.action \in Draws THEN Put(b.objects, id, shown)
                       ELSE IF Clears(b, e) THEN Drop(b.objects, id) ELSE b.objects
        /\ d.objects = IF e.action \in Draws THEN Put(a.objects, id, drawn)
                       ELSE IF Clears(a, e) THEN Drop(a.objects, id) ELSE a.objects
    BY DEF Follows, After
  <2> HIDE DEF E, drawn, shown, c, d, id
  <2> QED BY <1>1, <1>3, <1>4, <1>5, <2>1
<1>7. /\ d.version = c.version /\ d.active_step = c.active_step /\ d.order = c.order /\ d.highlights = c.highlights
  <2>1. /\ c.version = b.version + 1 /\ c.active_step = StepAfter(b, e)
        /\ c.order = IF e.action \in Draws /\ ~Has(b, id) THEN Append(b.order, id)
                     ELSE IF Clears(b, e) THEN Without(b.order, id) ELSE b.order
        /\ c.highlights = IF Marks(b, e) THEN Append(b.highlights, id)
                          ELSE IF e.action = "clear_annotation" THEN Without(b.highlights, id) ELSE b.highlights
    BY DEF Follows, After
  <2>2. /\ d.version = a.version + 1 /\ d.active_step = StepAfter(a, e)
        /\ d.order = IF e.action \in Draws /\ ~Has(a, id) THEN Append(a.order, id)
                     ELSE IF Clears(a, e) THEN Without(a.order, id) ELSE a.order
        /\ d.highlights = IF Marks(a, e) THEN Append(a.highlights, id)
                          ELSE IF e.action = "clear_annotation" THEN Without(a.highlights, id) ELSE a.highlights
    BY DEF Follows, After
  <2> HIDE DEF c, d, id
  <2> QED BY <1>1, <1>3, <2>1, <2>2
<1>8. d = [version |-> d.version, active_step |-> d.active_step, order |-> d.order, objects |-> d.objects,
           highlights |-> d.highlights]
  BY DEF Follows, After
<1>9. c \in Board(Rendered)
  OBVIOUS
<1> SUFFICES Erased(c) = d
  BY DEF a
<1> HIDE DEF c, d, drawn, shown, id
<1>10. /\ Erased(c) = [version |-> c.version, active_step |-> c.active_step, order |-> c.order,
                       objects |-> Erased(c).objects, highlights |-> c.highlights]
       /\ Erased(c).objects = E(c.objects)
  <2>1. /\ Erased(c) \in Board(Drawn)
        /\ Erased(c).version = c.version /\ Erased(c).active_step = c.active_step
        /\ Erased(c).order = c.order /\ Erased(c).highlights = c.highlights
        /\ Erased(c).objects = E(c.objects)
    BY <1>9, ErasedIs
  <2>2. Erased(c) = [version |-> Erased(c).version, active_step |-> Erased(c).active_step, order |-> Erased(c).order,
                     objects |-> Erased(c).objects, highlights |-> Erased(c).highlights]
    BY <2>1, BoardFields
  <2> HIDE DEF E
  <2> QED BY <2>1, <2>2
<1> HIDE DEF E
<1> QED BY <1>6, <1>7, <1>8, <1>10

\* The texts on a board are all such that the browser accepts them.
IsReadable(b) == \A i \in DOMAIN b.objects : b.objects[i].text \in Readable

LEMMA FollowsReadable ==
  ASSUME NEW Object, NEW b \in Board(Object), NEW e \in Event, Valid(e), IsReadable(b)
  PROVE  IsReadable(Follows(b, e, [kind |-> Kind(e.action), text |-> e.text]))
<1> DEFINE obj == [kind |-> Kind(e.action), text |-> e.text]
           c == Follows(b, e, obj)
<1>1. e.action \in Draws => e.text \in Readable
  BY EventFields DEF Valid
<1>2. c.objects = IF e.action \in Draws THEN Put(b.objects, e.object_id, obj)
                  ELSE IF Clears(b, e) THEN Drop(b.objects, e.object_id) ELSE b.objects
  BY DEF Follows, After
<1>3. obj.text = e.text
  OBVIOUS
<1> SUFFICES IsReadable(c)
  OBVIOUS
<1> HIDE DEF c, obj
<1>4. CASE e.action \in Draws
  BY <1>1, <1>2, <1>3, <1>4 DEF IsReadable, Put
<1>5. CASE e.action \notin Draws /\ Clears(b, e)
  BY <1>2, <1>5 DEF IsReadable, Drop
<1>6. CASE e.action \notin Draws /\ ~Clears(b, e)
  BY <1>2, <1>6 DEF IsReadable
<1> QED BY <1>4, <1>5, <1>6

\* What the browser makes of a snapshot is a board of its own; where it accepts
\* every text it is the server's board.
LEMMA ParseIs ==
  ASSUME NEW b \in Board(Drawn), Listed(b)
  PROVE  /\ Parse(b) \in Board(Rendered) /\ Listed(Parse(b))
         /\ IsReadable(b) => Erased(Parse(b)) = b
         /\ Parse(b).version = b.version
<1> DEFINE kept == {i \in DOMAIN b.objects : b.objects[i].text \in Readable}
           f == [i \in kept |-> [kind |-> b.objects[i].kind, text |-> b.objects[i].text, step_id |-> NoStep]]
           o == Only(b.order, kept)
           h == Only(b.highlights, kept)
           p == [version |-> b.version, active_step |-> b.active_step, order |-> o, objects |-> f, highlights |-> h]
<1>1. /\ b.version \in Nat /\ b.active_step \in Steps \cup {NoStep} /\ b.order \in Seq(Ids)
      /\ b.highlights \in Seq(Ids) /\ DOMAIN b.objects \subseteq Ids /\ b.objects \in [DOMAIN b.objects -> Drawn]
      /\ b = [version |-> b.version, active_step |-> b.active_step, order |-> b.order,
              objects |-> b.objects, highlights |-> b.highlights]
  BY BoardFields
<1>2. /\ IsInjective(b.order) /\ Range(b.order) = DOMAIN b.objects
      /\ IsInjective(b.highlights) /\ Range(b.highlights) \subseteq DOMAIN b.objects
  BY ListedIs
<1>3. Parse(b) = p
  <2> DEFINE c == [b EXCEPT !.objects = f]
             d == [c EXCEPT !.order = o]
             g == [d EXCEPT !.highlights = h]
  <2>1. Parse(b) = g
    BY DEF Parse
  <2> HIDE DEF f, o, h
  <2>2. c = [version |-> b.version, active_step |-> b.active_step, order |-> b.order, objects |-> f,
             highlights |-> b.highlights]
    BY <1>1
  <2> HIDE DEF c
  <2>3. d = [version |-> b.version, active_step |-> b.active_step, order |-> o, objects |-> f,
             highlights |-> b.highlights]
    BY <2>2
  <2> HIDE DEF d
  <2>4. g = p
    BY <2>3
  <2> QED BY <2>1, <2>4
<1>4. /\ o \in Seq(Ids) /\ Range(o) = Range(b.order) \cap kept /\ IsInjective(o)
      /\ h \in Seq(Ids) /\ Range(h) = Range(b.highlights) \cap kept /\ IsInjective(h)
  BY <1>1, <1>2, OnlyType, OnlyInjective
<1>5. f \in [kept -> Rendered] /\ kept \in SUBSET Ids
  BY <1>1 DEF Drawn, Rendered
<1>6. p.order = o /\ p.objects = f /\ p.highlights = h /\ DOMAIN f = kept /\ kept \subseteq DOMAIN b.objects
  OBVIOUS
<1>7. p \in Board(Rendered)
  <2> HIDE DEF f, o, h, kept
  <2> QED BY <1>1, <1>4, <1>5, BoardIntro
<1>8. Listed(p)
  <2> HIDE DEF p, f, o, h, kept
  <2> QED BY <1>2, <1>4, <1>6, ListedIs
<1>9. ASSUME IsReadable(b) PROVE Erased(p) = b
  <2>1. kept = DOMAIN b.objects
    BY <1>9 DEF IsReadable
  <2>2. o = b.order /\ h = b.highlights
    BY <1>1, <1>2, <2>1, OnlyAll
  <2>3. [i \in DOMAIN f |-> [kind |-> f[i].kind, text |-> f[i].text]] = b.objects
    <3>1. \A i \in DOMAIN b.objects : [kind |-> f[i].kind, text |-> f[i].text] = b.objects[i]
      BY <1>1, <2>1 DEF Drawn
    <3>2. DOMAIN f = DOMAIN b.objects
      BY <2>1
    <3> HIDE DEF f
    <3> QED BY <1>1, <3>1, <3>2
  <2>4. p.version = b.version /\ p.active_step = b.active_step
    OBVIOUS
  <2> HIDE DEF p, f, o, h, kept
  <2>5. /\ Erased(p) \in Board(Drawn)
        /\ Erased(p).version = b.version /\ Erased(p).active_step = b.active_step
        /\ Erased(p).order = b.order /\ Erased(p).highlights = b.highlights
        /\ Erased(p).objects = b.objects
    BY <1>6, <1>7, <2>2, <2>3, <2>4, ErasedIs
  <2>6. Erased(p) = [version |-> Erased(p).version, active_step |-> Erased(p).active_step, order |-> Erased(p).order,
                     objects |-> Erased(p).objects, highlights |-> Erased(p).highlights]
    BY <2>5, BoardFields
  <2> QED BY <1>1, <2>5, <2>6
<1>10. p.version = b.version
  OBVIOUS
<1> HIDE DEF p
<1> QED BY <1>3, <1>7, <1>8, <1>9, <1>10

-----------------------------------------------------------------------------
(* The part of a board that some ids make up                               *)

LEMMA PartType ==
  ASSUME NEW Object, NEW b \in Board(Object), NEW T
  PROVE  /\ Part(b, T).order \in Seq(Ids) /\ Range(Part(b, T).order) = Range(b.order) \cap T
         /\ Part(b, T).highlights \in Seq(Ids) /\ Range(Part(b, T).highlights) = Range(b.highlights) \cap T
         /\ DOMAIN Part(b, T).objects = DOMAIN b.objects \cap T
         /\ \A i \in DOMAIN b.objects \cap T : Part(b, T).objects[i] = b.objects[i]
<1>1. b.order \in Seq(Ids) /\ b.highlights \in Seq(Ids)
  BY BoardFields
<1>2. /\ Only(b.order, T) \in Seq(Ids) /\ Range(Only(b.order, T)) = Range(b.order) \cap T
      /\ Only(b.highlights, T) \in Seq(Ids) /\ Range(Only(b.highlights, T)) = Range(b.highlights) \cap T
  BY <1>1, OnlyType
<1> QED BY <1>2 DEF Part

\* The part of fewer ids is a part of the part.
LEMMA PartOfPart ==
  ASSUME NEW Object, NEW b \in Board(Object), NEW T, NEW U \in SUBSET T
  PROVE  Part(b, U) = Part(Part(b, T), U)
<1>1. b.order \in Seq(Ids) /\ b.highlights \in Seq(Ids)
  BY BoardFields
<1>2. T \cap U = U
  OBVIOUS
<1>3. Only(Only(b.order, T), U) = Only(b.order, U) /\ Only(Only(b.highlights, T), U) = Only(b.highlights, U)
  BY <1>1, <1>2, OnlyTwice
<1>4. [i \in DOMAIN [j \in DOMAIN b.objects \cap T |-> b.objects[j]] \cap U |->
         [j \in DOMAIN b.objects \cap T |-> b.objects[j]][i]] = [i \in DOMAIN b.objects \cap U |-> b.objects[i]]
  BY <1>2
<1> QED BY <1>3, <1>4 DEF Part

\* What an event does to the part: nothing, unless it is about one of its ids.
Concerns(e, T) == e.action \in Draws \cup {"highlight_object", "clear_annotation"} /\ e.object_id \in T
ClearsPart(p, e) ==
  e.action = "clear_annotation" /\ e.object_id \in DOMAIN p.objects /\ p.objects[e.object_id].kind = "annotation"
PartAfter(p, e, object) ==
  [order |-> IF e.action \in Draws /\ e.object_id \notin DOMAIN p.objects THEN Append(p.order, e.object_id)
             ELSE IF ClearsPart(p, e) THEN Without(p.order, e.object_id) ELSE p.order,
   objects |-> IF e.action \in Draws THEN Put(p.objects, e.object_id, object)
               ELSE IF ClearsPart(p, e) THEN Drop(p.objects, e.object_id) ELSE p.objects,
   highlights |-> IF e.action = "highlight_object" /\ e.object_id \in DOMAIN p.objects
                       /\ e.object_id \notin Range(p.highlights) THEN Append(p.highlights, e.object_id)
                  ELSE IF e.action = "clear_annotation" THEN Without(p.highlights, e.object_id) ELSE p.highlights]

LEMMA PartWithout ==
  ASSUME NEW s \in Seq(Ids), NEW T \in SUBSET Ids, NEW id
  PROVE  /\ Only(Without(s, id), T) = Without(Only(s, T), id)
         /\ id \notin T => Only(Without(s, id), T) = Only(s, T)
<1>1. Only(Only(s, Ids \ {id}), T) = Only(s, (Ids \ {id}) \cap T)
  BY OnlyTwice
<1>2. Only(Only(s, T), Ids \ {id}) = Only(s, T \cap (Ids \ {id}))
  BY OnlyTwice
<1>3. (Ids \ {id}) \cap T = T \cap (Ids \ {id}) /\ (id \notin T => (Ids \ {id}) \cap T = T)
  OBVIOUS
<1> QED BY <1>1, <1>2, <1>3 DEF Without

LEMMA PartFollows ==
  ASSUME NEW Object, NEW b \in Board(Object), NEW e \in Event, NEW T \in SUBSET Ids, NEW object
  PROVE  Part(Follows(b, e, object), T) =
           IF Concerns(e, T) THEN PartAfter(Part(b, T), e, object) ELSE Part(b, T)
<1> DEFINE c == Follows(b, e, object)
           p == Part(b, T)
           id == e.object_id
           R(f) == [i \in DOMAIN f \cap T |-> f[i]]
<1>1. b.order \in Seq(Ids) /\ b.highlights \in Seq(Ids)
  BY BoardFields
<1>2. /\ e.action \in Draws \cup {"step_started", "highlight_object", "clear_annotation", "step_completed", "tutor_error"}
      /\ e.action \in Draws \cup {"highlight_object", "clear_annotation"} => id \in Ids
  BY EventFields
<1>3. /\ c.order = IF e.action \in Draws /\ ~Has(b, id) THEN Append(b.order, id)
                   ELSE IF Clears(b, e) THEN Without(b.order, id) ELSE b.order
      /\ c.objects = IF e.action \in Draws THEN Put(b.objects, id, object)
                     ELSE IF Clears(b, e) THEN Drop(b.objects, id) ELSE b.objects
      /\ c.highlights = IF Marks(b, e) THEN Append(b.highlights, id)
                        ELSE IF e.action = "clear_annotation" THEN Without(b.highlights, id) ELSE b.highlights
  BY DEF Follows, After
<1>4. /\ p = [order |-> Only(b.order, T), objects |-> R(b.objects), highlights |-> Only(b.highlights, T)]
      /\ Part(c, T) = [order |-> Only(c.order, T), objects |-> R(c.objects), highlights |-> Only(c.highlights, T)]
      /\ p.order = Only(b.order, T) /\ p.objects = R(b.objects) /\ p.highlights = Only(b.highlights, T)
  BY DEF Part
<1>5. /\ DOMAIN p.objects = DOMAIN b.objects \cap T /\ Range(p.highlights) = Range(b.highlights) \cap T
      /\ \A i \in DOMAIN b.objects \cap T : p.objects[i] = b.objects[i]
  BY PartType
<1>6. id \in Ids => /\ Only(Append(b.order, id), T) = IF id \in T THEN Append(p.order, id) ELSE p.order
                    /\ Only(Append(b.highlights, id), T) = IF id \in T THEN Append(p.highlights, id) ELSE p.highlights
  <2>1. ASSUME NEW s \in Seq(Ids), id \in Ids
        PROVE  Only(Append(s, id), T) = IF id \in T THEN Append(Only(s, T), id) ELSE Only(s, T)
    <3> HIDE DEF id
    <3> QED BY <2>1, OnlyAppend
  <2> HIDE DEF p, id
  <2> QED BY <1>1, <1>4, <2>1
<1>7. /\ Only(Without(b.order, id), T) = Without(p.order, id)
      /\ Only(Without(b.highlights, id), T) = Without(p.highlights, id)
      /\ id \notin T => /\ Only(Without(b.order, id), T) = p.order
                        /\ Only(Without(b.highlights, id), T) = p.highlights
  BY <1>1, <1>4, PartWithout
<1>8. Draws \cap {"step_started", "highlight_object", "clear_annotation", "step_completed", "tutor_error"} = {}
  BY DEF Draws
<1>9. CASE Concerns(e, T)
  <2>1. id \in T /\ id \in Ids
    BY <1>9 DEF Concerns
  <2>2. Has(b, id) <=> id \in DOMAIN p.objects
    BY <1>5, <2>1 DEF Has
  <2>3. Clears(b, e) <=> ClearsPart(p, e)
    BY <1>5, <2>1, <2>2 DEF Clears, ClearsPart, IsNote, Has
  <2>4. Marks(b, e) <=> e.action = "highlight_object" /\ id \in DOMAIN p.objects /\ id \notin Range(p.highlights)
    <3>1. Contains(b.highlights, id) <=> id \in Range(b.highlights)
      BY <1>1 DEF Contains, Range
    <3> QED BY <1>5, <2>1, <2>2, <3>1 DEF Marks
  <2>5. R(Put(b.objects, id, object)) = Put(R(b.objects), id, object)
    BY <2>1 DEF Put
  <2>6. R(Drop(b.objects, id)) = Drop(R(b.objects), id)
    BY DEF Drop
  <2> HIDE DEF c, p, id, R
  <2>7. Only(c.order, T) = PartAfter(p, e, object).order
    BY <1>3, <1>4, <1>6, <1>7, <2>1, <2>2, <2>3 DEF PartAfter, id
  <2>8. R(c.objects) = PartAfter(p, e, object).objects
    BY <1>3, <1>4, <2>3, <2>5, <2>6 DEF PartAfter, id
  <2>9. Only(c.highlights, T) = PartAfter(p, e, object).highlights
    BY <1>3, <1>4, <1>6, <1>7, <2>1, <2>4 DEF PartAfter, id
  <2>10. PartAfter(p, e, object) = [order |-> PartAfter(p, e, object).order, objects |-> PartAfter(p, e, object).objects,
                                    highlights |-> PartAfter(p, e, object).highlights]
    BY DEF PartAfter
  <2>11. Part(c, T) = PartAfter(p, e, object)
    BY <1>4, <2>7, <2>8, <2>9, <2>10
  <2> QED BY <1>9, <2>11 DEF c, p
<1>10. CASE ~Concerns(e, T)
  <2>1. e.action \in Draws \cup {"highlight_object", "clear_annotation"} => id \notin T /\ id \in Ids
    BY <1>2, <1>10 DEF Concerns
  <2>2. Clears(b, e) => e.action = "clear_annotation"
    BY DEF Clears
  <2>3. Marks(b, e) => e.action = "highlight_object"
    BY DEF Marks
  <2>4. id \notin T => R(Put(b.objects, id, object)) = R(b.objects)
    BY DEF Put
  <2>5. id \notin T => R(Drop(b.objects, id)) = R(b.objects)
    BY DEF Drop
  <2> HIDE DEF c, p, id, R
  <2>6. Only(c.order, T) = p.order
    BY <1>3, <1>4, <1>6, <1>7, <2>1, <2>2
  <2>7. R(c.objects) = p.objects
    BY <1>3, <1>4, <2>1, <2>2, <2>4, <2>5
  <2>8. Only(c.highlights, T) = p.highlights
    BY <1>3, <1>4, <1>6, <1>7, <2>1, <2>3
  <2>9. Part(c, T) = p
    BY <1>4, <2>6, <2>7, <2>8
  <2> QED BY <1>10, <2>9 DEF c, p
<1> QED BY <1>9, <1>10

\* Boards that agree on some ids agree on them after any event.
LEMMA PartStaysEqual ==
  ASSUME NEW b \in Board(Drawn), NEW c \in Board(Drawn), Listed(b), Listed(c), NEW e \in Event,
         NEW T \in SUBSET Ids, Part(b, T) = Part(c, T)
  PROVE  /\ Part(Apply(b, e), T) = Part(Apply(c, e), T)
         /\ ~Concerns(e, T) => Part(Apply(c, e), T) = Part(b, T)
<1> DEFINE obj == [kind |-> Kind(e.action), text |-> e.text]
<1>1. Apply(b, e) = Follows(b, e, obj) /\ Apply(c, e) = Follows(c, e, obj)
  BY ApplyFollows
<1> HIDE DEF obj
<1> QED BY <1>1, PartFollows

\* The snapshot's objects whose texts are accepted are all on the board.
LEMMA PartParse ==
  ASSUME NEW b \in Board(Drawn), Listed(b), NEW T,
         \A i \in DOMAIN b.objects \cap T : b.objects[i].text \in Readable
  PROVE  Part(Erased(Parse(b)), T) = Part(b, T)
<1> DEFINE kept == {i \in DOMAIN b.objects : b.objects[i].text \in Readable}
           q == Parse(b)
           c == Erased(q)
<1>1. /\ b.order \in Seq(Ids) /\ b.highlights \in Seq(Ids) /\ b.objects \in [DOMAIN b.objects -> Drawn]
  BY BoardFields
<1>2. Range(b.order) = DOMAIN b.objects /\ Range(b.highlights) \subseteq DOMAIN b.objects
  BY ListedIs
<1>3. q \in Board(Rendered)
  BY ParseIs
<1>4. /\ q.order = Only(b.order, kept) /\ q.highlights = Only(b.highlights, kept)
      /\ q.objects = [i \in kept |-> [kind |-> b.objects[i].kind, text |-> b.objects[i].text, step_id |-> NoStep]]
  <2>1. b = [version |-> b.version, active_step |-> b.active_step, order |-> b.order,
             objects |-> b.objects, highlights |-> b.highlights]
    BY BoardFields
  <2> QED BY <2>1 DEF Parse
<1> HIDE DEF q
<1>5. /\ c.order = q.order /\ c.highlights = q.highlights
      /\ c.objects = [i \in DOMAIN q.objects |-> [kind |-> q.objects[i].kind, text |-> q.objects[i].text]]
  BY <1>3, ErasedIs
<1>6. c.objects = [i \in kept |-> b.objects[i]]
  <2>1. DOMAIN q.objects = kept
    BY <1>4
  <2>2. \A i \in kept : [kind |-> q.objects[i].kind, text |-> q.objects[i].text] = b.objects[i]
    BY <1>1, <1>4 DEF Drawn
  <2> HIDE DEF kept
  <2> QED BY <1>5, <2>1, <2>2
<1> HIDE DEF c
<1>7. DOMAIN b.objects \cap T = kept \cap T
  OBVIOUS
<1>8. /\ Only(Only(b.order, kept), T) = Only(b.order, kept \cap T)
      /\ Only(Only(b.highlights, kept), T) = Only(b.highlights, kept \cap T)
  BY <1>1, OnlyTwice
<1>9. Range(b.order) \cap (kept \cap T) = Range(b.order) \cap T
      /\ Range(b.highlights) \cap (kept \cap T) = Range(b.highlights) \cap T
  BY <1>2, <1>7
<1> HIDE DEF kept
<1>10. Only(b.order, kept \cap T) = Only(b.order, T) /\ Only(b.highlights, kept \cap T) = Only(b.highlights, T)
  BY <1>1, <1>9, OnlyWhere
<1>11. [i \in DOMAIN c.objects \cap T |-> c.objects[i]] = [i \in DOMAIN b.objects \cap T |-> b.objects[i]]
  BY <1>6, <1>7
<1>12. Part(c, T) = Part(b, T)
  BY <1>4, <1>5, <1>8, <1>10, <1>11 DEF Part
<1> QED BY <1>12 DEF c, q

-----------------------------------------------------------------------------
\* What belongs to a free object on the page: itself, and the annotations that
\* point to it if it is none.
Below(b, id) == IF IsNote(b, id) THEN {id} ELSE {id} \cup {i \in DOMAIN b.objects : IsNote(b, i) /\ Target[i] = id}

LEMMA NotesIs ==
  ASSUME NEW b \in Board(Rendered), Listed(b), NEW id \in Ids
  PROVE  /\ Notes(b, id) \in Seq(Ids) /\ IsInjective(Notes(b, id))
         /\ Range(Notes(b, id)) = {i \in DOMAIN b.objects : IsNote(b, i) /\ Target[i] = id}
<1>1. b.order \in Seq(Ids) /\ IsInjective(b.order) /\ Range(b.order) = DOMAIN b.objects
  BY BoardFields, ListedIs
<1> QED BY <1>1, OnlyType, OnlyInjective DEF Notes

LEMMA FreeIs ==
  ASSUME NEW b \in Board(Rendered), Listed(b)
  PROVE  /\ Free(b) \in Seq(Ids) /\ IsInjective(Free(b))
         /\ Range(Free(b)) = {i \in DOMAIN b.objects : ~IsNote(b, i) \/ ~Has(b, Target[i])}
<1>1. b.order \in Seq(Ids) /\ IsInjective(b.order) /\ Range(b.order) = DOMAIN b.objects
  BY BoardFields, ListedIs
<1> QED BY <1>1, OnlyType, OnlyInjective DEF Free

LEMMA SingleIs ==
  ASSUME NEW S, NEW x \in S
  PROVE  <<x>> \in Seq(S) /\ Range(<<x>>) = {x} /\ IsInjective(<<x>>)
  BY DEF Range, IsInjective

LEMMA CardIs ==
  ASSUME NEW b \in Board(Rendered), Listed(b), NEW id \in Ids, ~IsNote(b, id)
  PROVE  Card(b, id) \in Seq(Ids) /\ Range(Card(b, id)) = Below(b, id) /\ IsInjective(Card(b, id))
<1>1. /\ Notes(b, id) \in Seq(Ids) /\ IsInjective(Notes(b, id))
      /\ Range(Notes(b, id)) = {i \in DOMAIN b.objects : IsNote(b, i) /\ Target[i] = id}
  BY NotesIs
<1> DEFINE s == <<id>>
<1>2. s \in Seq(Ids) /\ Range(s) = {id} /\ IsInjective(s)
  BY SingleIs
<1>3. Card(b, id) = s \o Notes(b, id)
  BY DEF Card
<1>4. {id} \cap Range(Notes(b, id)) = {}
  BY <1>1
<1> HIDE DEF s
<1>5. Range(s \o Notes(b, id)) = Range(s) \cup Range(Notes(b, id))
  BY <1>1, <1>2, RangeConcatenation
<1>6. IsInjective(s \o Notes(b, id))
  BY <1>1, <1>2, <1>4, ConcatInjective
<1>7. s \o Notes(b, id) \in Seq(Ids)
  BY <1>1, <1>2, ConcatProperties
<1> QED BY <1>1, <1>2, <1>3, <1>5, <1>6, <1>7 DEF Below

\* The two filters of the page divide the board.
LEMMA ShownOnce ==
  ASSUME NEW b \in Board(Rendered), Listed(b)
  PROVE  /\ IsInjective(BoardView(b))
         /\ Range(BoardView(b)) = {id \in DOMAIN b.objects : ~OnAnnotation(b, id)}
<1> DEFINE free == Free(b)
           cards == [n \in DOMAIN free |-> IF IsNote(b, free[n]) THEN <<free[n]>> ELSE Card(b, free[n])]
<1>1. /\ free \in Seq(Ids) /\ IsInjective(free)
      /\ Range(free) = {i \in DOMAIN b.objects : ~IsNote(b, i) \/ ~Has(b, Target[i])}
  BY FreeIs
<1>2. BoardView(b) = FlattenSeq(cards)
  BY DEF BoardView
<1> HIDE DEF free
<1>3. \A n \in DOMAIN free : free[n] \in Ids /\ free[n] \in Range(free)
  BY <1>1 DEF Range
<1>4. ASSUME NEW n \in DOMAIN free
      PROVE  cards[n] \in Seq(Ids) /\ Range(cards[n]) = Below(b, free[n]) /\ IsInjective(cards[n])
  <2>1. CASE IsNote(b, free[n])
    <3>1. cards[n] = <<free[n]>>
      BY <2>1
    <3> HIDE DEF cards
    <3> QED BY <1>3, <2>1, <3>1, SingleIs DEF Below
  <2>2. CASE ~IsNote(b, free[n])
    <3>1. cards[n] = Card(b, free[n])
      BY <2>2
    <3> HIDE DEF cards
    <3> QED BY <1>3, <2>2, <3>1, CardIs
  <2> QED BY <2>1, <2>2
<1>5. cards \in Seq(Seq(Ids)) /\ DOMAIN cards = DOMAIN free
  <2>1. DOMAIN free = 1 .. Len(free) /\ Len(free) \in Nat
    BY <1>1
  <2>2. cards \in [1 .. Len(free) -> Seq(Ids)]
    BY <1>4, <2>1
  <2> QED BY <2>1, <2>2
<1> HIDE DEF cards
<1>6. ASSUME NEW m \in DOMAIN cards, NEW n \in DOMAIN cards, m # n
      PROVE  Range(cards[m]) \cap Range(cards[n]) = {}
  <2>1. free[m] # free[n]
    BY <1>1, <1>5, <1>6 DEF IsInjective
  <2>2. \A k \in {m, n} : free[k] \in DOMAIN b.objects /\ (~IsNote(b, free[k]) \/ ~Has(b, Target[free[k]]))
    BY <1>1, <1>3, <1>5
  <2>3. Below(b, free[m]) \cap Below(b, free[n]) = {}
    BY <2>1, <2>2 DEF Below, Has
  <2> QED BY <1>4, <1>5, <2>3
<1>7. IsInjective(FlattenSeq(cards))
  BY <1>4, <1>5, <1>6, FlattenInjective
<1>8. Range(FlattenSeq(cards)) = UNION {Range(r) : r \in Range(cards)}
  BY <1>5, FlattenRange
<1>9. UNION {Range(r) : r \in Range(cards)} = UNION {Below(b, i) : i \in Range(free)}
  <2>1. Range(cards) = {cards[n] : n \in DOMAIN free} /\ Range(free) = {free[n] : n \in DOMAIN free}
    BY <1>5 DEF Range
  <2>2. \A r \in Range(cards) : \E i \in Range(free) : Range(r) = Below(b, i)
    BY <1>4, <2>1
  <2>3. \A i \in Range(free) : \E r \in Range(cards) : Range(r) = Below(b, i)
    BY <1>4, <2>1
  <2> QED BY <2>2, <2>3
<1>10. UNION {Below(b, i) : i \in Range(free)} = {id \in DOMAIN b.objects : ~OnAnnotation(b, id)}
  <2>1. ASSUME NEW i \in Range(free), NEW x \in Below(b, i) PROVE x \in DOMAIN b.objects /\ ~OnAnnotation(b, x)
    BY <1>1, <2>1 DEF Below, OnAnnotation, IsNote, Has
  <2>2. ASSUME NEW x \in DOMAIN b.objects, ~OnAnnotation(b, x) PROVE \E i \in Range(free) : x \in Below(b, i)
    <3>1. CASE x \in Range(free)
      BY <3>1 DEF Below
    <3>2. CASE x \notin Range(free)
      <4>1. IsNote(b, x) /\ Has(b, Target[x]) /\ ~IsNote(b, Target[x])
        BY <1>1, <2>2, <3>2 DEF OnAnnotation
      <4>2. Target[x] \in Range(free) /\ x \in Below(b, Target[x])
        BY <1>1, <4>1 DEF Below, Has
      <4> QED BY <4>2
    <3> QED BY <3>1, <3>2
  <2> QED BY <2>1, <2>2
<1> QED BY <1>2, <1>7, <1>8, <1>9, <1>10

-----------------------------------------------------------------------------

\* The boards are the replay of the log, each with its lists and its objects
\* together.
Replayed ==
  /\ events \in Seq(Event) /\ boards \in Seq(Board(Drawn)) /\ Len(boards) = Len(events) + 1
  /\ \A n \in 1 .. Len(boards) : Listed(boards[n])
  /\ boards[1] = EmptyBoard
  /\ \A n \in 1 .. Len(events) : boards[n + 1] = Apply(boards[n], events[n])

\* After events whose texts the browser accepts, all the texts are such.
StaysReadable ==
  \A n \in 0 .. Len(events) : (\A m \in 1 .. n : Valid(events[m])) => IsReadable(boards[n + 1])

\* What the browser refuses to draw, it knows the ids of.
TrustedReadable ==
  \A n \in 0 .. Len(events), i \in Ids :
    i \in Trusted(n) /\ i \in DOMAIN boards[n + 1].objects => boards[n + 1].objects[i].text \in Readable

ViewMirrors ==
  /\ stored \in 0 .. Len(events) /\ seen \in 0 .. Len(events)
  /\ view \in Board(Rendered) /\ Listed(view)
  /\ SeenIsReadable => MirrorsServer
  /\ MirrorsTrusted

\* A board's version counts its events; the browser's leaves out those it refused.
VersionsCount ==
  /\ Len(events) <= MaxLogged /\ view.version <= seen
  /\ \A n \in 1 .. Len(boards) : boards[n].version = n - 1

BoardInv == Replayed /\ StaysReadable /\ TrustedReadable /\ ViewMirrors /\ VersionsCount

LEMMA EmptyIs ==
  ASSUME NEW Object
  PROVE  EmptyBoard \in Board(Object) /\ Listed(EmptyBoard) /\ IsReadable(EmptyBoard)
<1> DEFINE f == [i \in {} |-> 0]
<1>1. f \in [{} -> Object] /\ DOMAIN f = {}
  OBVIOUS
<1>2. <<>> \in Seq(Ids) /\ IsInjective(<<>>) /\ Range(<<>>) = {}
  BY DEF IsInjective, Range
<1>3. /\ EmptyBoard = [version |-> 0, active_step |-> NoStep, order |-> <<>>, objects |-> f, highlights |-> <<>>]
      /\ EmptyBoard.order = <<>> /\ EmptyBoard.objects = f /\ EmptyBoard.highlights = <<>>
  BY DEF EmptyBoard
<1> HIDE DEF f
<1>4. [version |-> 0, active_step |-> NoStep, order |-> <<>>, objects |-> f, highlights |-> <<>>] \in Board(Object)
  BY <1>1, <1>2, BoardIntro
<1> QED BY <1>1, <1>2, <1>3, <1>4, ListedIs DEF IsReadable

LEMMA EmptyMirrors == Erased(EmptyBoard) = EmptyBoard
<1>1. EmptyBoard \in Board(Rendered)
  BY EmptyIs
<1>2. /\ Erased(EmptyBoard) \in Board(Drawn)
      /\ Erased(EmptyBoard).version = EmptyBoard.version /\ Erased(EmptyBoard).active_step = EmptyBoard.active_step
      /\ Erased(EmptyBoard).order = EmptyBoard.order /\ Erased(EmptyBoard).highlights = EmptyBoard.highlights
      /\ Erased(EmptyBoard).objects =
           [i \in DOMAIN EmptyBoard.objects |->
              [kind |-> EmptyBoard.objects[i].kind, text |-> EmptyBoard.objects[i].text]]
  BY <1>1, ErasedIs
<1>3. DOMAIN EmptyBoard.objects = {} /\ EmptyBoard.objects = [i \in {} |-> 0]
  BY DEF EmptyBoard
<1>4. Erased(EmptyBoard).objects = EmptyBoard.objects
  BY <1>2, <1>3
<1>5. Erased(EmptyBoard) = [version |-> Erased(EmptyBoard).version, active_step |-> Erased(EmptyBoard).active_step,
                            order |-> Erased(EmptyBoard).order, objects |-> Erased(EmptyBoard).objects,
                            highlights |-> Erased(EmptyBoard).highlights]
  BY <1>2, BoardFields
<1>6. EmptyBoard = [version |-> EmptyBoard.version, active_step |-> EmptyBoard.active_step,
                    order |-> EmptyBoard.order, objects |-> EmptyBoard.objects,
                    highlights |-> EmptyBoard.highlights]
  BY <1>1, BoardFields
<1> QED BY <1>2, <1>4, <1>5, <1>6

LEMMA BoardInvInit == BoardInit => BoardInv
<1> SUFFICES ASSUME BoardInit PROVE BoardInv
  OBVIOUS
<1>1. EmptyBoard \in Board(Drawn) /\ EmptyBoard \in Board(Rendered) /\ Listed(EmptyBoard) /\ IsReadable(EmptyBoard)
  BY EmptyIs
<1>2. events = <<>> /\ boards = <<EmptyBoard>> /\ stored = 0 /\ view = EmptyBoard /\ seen = 0
  BY DEF BoardInit
<1>3. /\ events \in Seq(Event) /\ Len(events) = 0 /\ boards \in Seq(Board(Drawn)) /\ Len(boards) = 1
      /\ boards[1] = EmptyBoard
  BY <1>1, <1>2
<1>4. Replayed
  BY <1>1, <1>3 DEF Replayed
<1>5. StaysReadable
  BY <1>1, <1>3 DEF StaysReadable
<1>6. ViewMirrors
  BY <1>1, <1>2, <1>3, EmptyMirrors DEF ViewMirrors, MirrorsServer, MirrorsTrusted
<1>7. VersionsCount
  BY <1>2, <1>3, BoardAssumption DEF VersionsCount, EmptyBoard
<1>8. TrustedReadable
  BY <1>3 DEF TrustedReadable, EmptyBoard
<1> QED BY <1>4, <1>5, <1>6, <1>7, <1>8 DEF BoardInv

\* The server's board after an event.
LEMMA ApplyIsDrawn ==
  ASSUME NEW b \in Board(Drawn), NEW e \in Event, Listed(b)
  PROVE  /\ Apply(b, e) \in Board(Drawn) /\ Listed(Apply(b, e))
         /\ Valid(e) /\ IsReadable(b) => IsReadable(Apply(b, e))
         /\ Apply(b, e).version = b.version + 1
<1> DEFINE obj == [kind |-> Kind(e.action), text |-> e.text]
<1>1. Apply(b, e) = Follows(b, e, obj)
  BY ApplyFollows
<1>2. e.action \in Draws => obj \in Drawn
  BY EventFields DEF Drawn
<1>3. Valid(e) /\ IsReadable(b) => IsReadable(Follows(b, e, obj))
  BY FollowsReadable
<1> HIDE DEF obj
<1>4. Follows(b, e, obj).version = b.version + 1
  BY DEF Follows, After
<1> QED BY <1>1, <1>2, <1>3, <1>4, FollowsBoard, FollowsListed

\* The browser's board after an event.
LEMMA ApplyEventIsRendered ==
  ASSUME NEW b \in Board(Rendered), NEW e \in Event, Listed(b)
  PROVE  /\ ApplyEvent(b, e) \in Board(Rendered) /\ Listed(ApplyEvent(b, e))
         /\ Valid(e) => Erased(ApplyEvent(b, e)) = Apply(Erased(b), e)
         /\ ApplyEvent(b, e).version <= b.version + 1
<1>1. CASE ~Valid(e)
  BY <1>1, BoardFields DEF ApplyEvent
<1>2. CASE Valid(e)
  <2> DEFINE drawn == [kind |-> Kind(e.action), text |-> e.text]
             shown == [kind |-> Kind(e.action), text |-> e.text, step_id |-> e.step_id]
  <2>1. ApplyEvent(b, e) = Follows(b, e, shown)
    BY <1>2, ShownIs DEF Follows
  <2>2. e.action \in Draws => shown \in Rendered
    BY <1>2, EventFields DEF Rendered, Valid
  <2> HIDE DEF drawn
  <2>3. Follows(b, e, shown) \in Board(Rendered) /\ Listed(Follows(b, e, shown))
    <3> HIDE DEF shown
    <3> QED BY <2>2, FollowsBoard, FollowsListed
  <2>4. Erased(Follows(b, e, shown)) = Follows(Erased(b), e, drawn)
    BY <2>3, FollowsErased DEF drawn
  <2>5. Erased(b) \in Board(Drawn) /\ Listed(Erased(b))
    <3>1. /\ Erased(b) \in Board(Drawn) /\ Erased(b).order = b.order /\ Erased(b).highlights = b.highlights
          /\ DOMAIN Erased(b).objects = DOMAIN b.objects
      BY ErasedIs
    <3> QED BY <3>1, ListedIs
  <2>6. Apply(Erased(b), e) = Follows(Erased(b), e, drawn)
    BY <2>5, ApplyFollows DEF drawn
  <2>7. Follows(b, e, shown).version = b.version + 1 /\ b.version \in Nat
    BY BoardFields DEF Follows, After
  <2> HIDE DEF shown
  <2> QED BY <2>1, <2>3, <2>4, <2>6, <2>7
<1> QED BY <1>1, <1>2

LEMMA PersistKeeps ==
  ASSUME BoardInv, NEW e \in Event, Persist(e)
  PROVE  BoardInv'
<1> DEFINE k == Len(events)
           b == boards[k + 1]
           c == Apply(b, e)
<1>1. /\ events \in Seq(Event) /\ boards \in Seq(Board(Drawn)) /\ Len(boards) = k + 1 /\ k \in Nat
      /\ \A n \in 1 .. k + 1 : Listed(boards[n])
      /\ boards[1] = EmptyBoard
      /\ \A n \in 1 .. k : boards[n + 1] = Apply(boards[n], events[n])
  BY DEF BoardInv, Replayed
<1>2. /\ k < MaxLogged /\ events' = Append(events, e) /\ boards' = Append(boards, c)
      /\ stored' = stored /\ view' = view /\ seen' = seen
  BY <1>1 DEF Persist
<1>3. b \in Board(Drawn) /\ Listed(b)
  BY <1>1
<1>4. /\ c \in Board(Drawn) /\ Listed(c) /\ c.version = b.version + 1
      /\ Valid(e) /\ IsReadable(b) => IsReadable(c)
  BY <1>3, ApplyIsDrawn
<1>5. /\ events' \in Seq(Event) /\ Len(events') = k + 1 /\ events'[k + 1] = e /\ \A n \in 1 .. k : events'[n] = events[n]
  BY <1>1, <1>2
<1>6. /\ boards' \in Seq(Board(Drawn)) /\ Len(boards') = k + 2 /\ boards'[k + 2] = c
      /\ \A n \in 1 .. k + 1 : boards'[n] = boards[n]
  <2> HIDE DEF c, k
  <2> QED BY <1>1, <1>2, <1>4
<1>7. boards'[k + 2] = Apply(boards'[k + 1], events'[k + 1])
  BY <1>1, <1>5, <1>6
<1> HIDE DEF c
<1>8. Replayed'
  <2>1. \A n \in 1 .. k + 2 : Listed(boards'[n])
    BY <1>1, <1>4, <1>6
  <2>2. \A n \in 1 .. k + 1 : boards'[n + 1] = Apply(boards'[n], events'[n])
    <3> TAKE n \in 1 .. k + 1
    <3>1. CASE n = k + 1
      BY <1>1, <1>7, <3>1
    <3>2. CASE n \in 1 .. k
      BY <1>1, <1>5, <1>6, <3>2
    <3> QED BY <1>1, <3>1, <3>2
  <2>3. boards'[1] = EmptyBoard
    BY <1>1, <1>6
  <2> QED BY <1>1, <1>5, <1>6, <2>1, <2>2, <2>3 DEF Replayed
<1>9. StaysReadable'
  <2>1. \A n \in 0 .. k : (\A m \in 1 .. n : Valid(events[m])) => IsReadable(boards[n + 1])
    BY DEF BoardInv, StaysReadable
  <2>2. ASSUME NEW n \in 0 .. k + 1, \A m \in 1 .. n : Valid(events'[m]) PROVE IsReadable(boards'[n + 1])
    <3>1. CASE n \in 0 .. k
      <4>1. \A m \in 1 .. n : Valid(events[m])
        BY <1>1, <1>5, <2>2, <3>1
      <4>2. boards'[n + 1] = boards[n + 1]
        BY <1>1, <1>6, <3>1
      <4> QED BY <2>1, <3>1, <4>1, <4>2
    <3>2. CASE n = k + 1
      <4>1. Valid(e) /\ \A m \in 1 .. k : Valid(events[m])
        BY <1>1, <1>5, <2>2, <3>2
      <4>2. IsReadable(b)
        BY <1>1, <2>1, <4>1
      <4>3. boards'[n + 1] = c
        BY <1>1, <1>6, <3>2
      <4> QED BY <1>4, <4>1, <4>2, <4>3
    <3> QED BY <1>1, <3>1, <3>2
  <2> QED BY <1>5, <2>2 DEF StaysReadable
<1>13. \A n \in 0 .. k : Trusted(n)' = Trusted(n)
  <2> TAKE n \in 0 .. k
  <2>1. \A m \in 1 .. n : events'[m] = events[m]
    BY <1>1, <1>5
  <2> QED BY <2>1 DEF Trusted, Valid
<1>10. ViewMirrors'
  <2>1. /\ stored \in 0 .. k /\ seen \in 0 .. k /\ view \in Board(Rendered) /\ Listed(view)
        /\ SeenIsReadable => MirrorsServer
        /\ MirrorsTrusted
    BY DEF BoardInv, ViewMirrors
  <2>2. SeenIsReadable' => SeenIsReadable
    BY <1>1, <1>2, <1>5, <2>1 DEF SeenIsReadable
  <2>3. boards'[seen' + 1] = boards[seen + 1]
    BY <1>1, <1>2, <1>6, <2>1
  <2>4. MirrorsServer => MirrorsServer'
    BY <1>2, <2>3 DEF MirrorsServer
  <2>5. stored' \in 0 .. Len(events') /\ seen' \in 0 .. Len(events')
    BY <1>1, <1>2, <1>5, <2>1
  <2>6. view' \in Board(Rendered) /\ Listed(view')
    BY <1>2, <2>1
  <2>7. Trusted(seen)' = Trusted(seen)
    <3>1. seen' = seen /\ \A m \in 1 .. seen : events'[m] = events[m]
      BY <1>1, <1>2, <1>5, <2>1
    <3> QED BY <3>1 DEF Trusted, Valid
  <2>8. MirrorsTrusted'
    BY <1>2, <2>1, <2>3, <2>7 DEF MirrorsTrusted
  <2> QED BY <2>1, <2>2, <2>4, <2>5, <2>6, <2>8 DEF ViewMirrors
<1>12. TrustedReadable'
  <2>1. ASSUME NEW n \in 0 .. k, NEW i \in Ids, i \in Trusted(n)', i \in DOMAIN boards'[n + 1].objects
        PROVE  boards'[n + 1].objects[i].text \in Readable
    <3>1. boards'[n + 1] = boards[n + 1] /\ i \in Trusted(n)
      BY <1>1, <1>6, <1>13, <2>1
    <3> QED BY <2>1, <3>1 DEF BoardInv, TrustedReadable
  <2>2. ASSUME NEW n \in 0 .. k + 1, n = k + 1, NEW i \in Ids, i \in Trusted(n)', i \in DOMAIN c.objects
        PROVE  c.objects[i].text \in Readable
    <3>1. i \in Trusted(k) /\ (e.action \in Draws /\ e.object_id = i => Valid(e))
      <4>1. \A m \in 1 .. k + 1 : events'[m].action \in Draws /\ events'[m].object_id = i => Valid(events'[m])
        <5>1. \A m \in 1 .. n : events'[m].action \in Draws /\ events'[m].object_id = i => Valid(events'[m])
          BY <2>2 DEF Trusted, Valid
        <5> QED BY <2>2, <5>1
      <4>2. \A m \in 1 .. k : events[m].action \in Draws /\ events[m].object_id = i => Valid(events[m])
        BY <1>1, <1>5, <4>1
      <4>3. e.action \in Draws /\ e.object_id = i => Valid(e)
        BY <1>1, <1>5, <4>1
      <4> QED BY <4>2, <4>3 DEF Trusted
    <3>2. i \in DOMAIN b.objects => b.objects[i].text \in Readable
      BY <1>1, <3>1 DEF BoardInv, TrustedReadable
    <3>3. c = Follows(b, e, [kind |-> Kind(e.action), text |-> e.text])
      BY <1>3, ApplyFollows DEF c
    <3> DEFINE obj == [kind |-> Kind(e.action), text |-> e.text]
    <3>4. c.objects = IF e.action \in Draws THEN Put(b.objects, e.object_id, obj)
                      ELSE IF Clears(b, e) THEN Drop(b.objects, e.object_id) ELSE b.objects
      BY <3>3 DEF Follows, After
    <3>5. obj.text = e.text /\ (e.action \in Draws /\ Valid(e) => e.text \in Readable)
      BY EventFields DEF Valid
    <3> HIDE DEF obj, b
    <3> QED BY <2>2, <3>1, <3>2, <3>4, <3>5 DEF Put, Drop
  <2>3. ASSUME NEW n \in 0 .. k + 1, NEW i \in Ids, i \in Trusted(n)', i \in DOMAIN boards'[n + 1].objects
        PROVE  boards'[n + 1].objects[i].text \in Readable
    <3>1. CASE n \in 0 .. k
      BY <2>1, <2>3, <3>1
    <3>2. CASE n = k + 1
      <4>1. boards'[n + 1] = c
        BY <1>1, <1>6, <3>2
      <4> QED BY <2>2, <2>3, <3>2, <4>1
    <3> QED BY <1>1, <3>1, <3>2
  <2> QED BY <1>5, <2>3 DEF TrustedReadable
<1>11. VersionsCount'
  <2>1. view.version <= seen /\ \A n \in 1 .. k + 1 : boards[n].version = n - 1
    BY <1>1 DEF BoardInv, VersionsCount
  <2>2. \A n \in 1 .. k + 2 : boards'[n].version = n - 1
    <3> TAKE n \in 1 .. k + 2
    <3>1. CASE n \in 1 .. k + 1
      BY <1>6, <2>1, <3>1
    <3>2. CASE n = k + 2
      <4>1. b.version = k
        BY <1>1, <2>1
      <4> QED BY <1>1, <1>4, <1>6, <3>2, <4>1
    <3> QED BY <1>1, <3>1, <3>2
  <2> QED BY <1>1, <1>2, <1>5, <1>6, <2>1, <2>2, BoardAssumption DEF VersionsCount
<1> QED BY <1>8, <1>9, <1>10, <1>11, <1>12 DEF BoardInv

\* The steps of the browser leave the log and the server's boards alone.
LEMMA BrowserKeeps ==
  ASSUME BoardInv, UNCHANGED <<events, boards>>,
         stored' \in 0 .. Len(events), seen' \in 0 .. Len(events),
         view' \in Board(Rendered), Listed(view'), view'.version <= seen',
         (\A n \in 1 .. seen' : Valid(events[n])) => Erased(view') = boards[seen' + 1],
         Part(Erased(view'), Trusted(seen')) = Part(boards[seen' + 1], Trusted(seen'))
  PROVE  BoardInv'
<1>1. Replayed' /\ StaysReadable' /\ TrustedReadable'
  BY DEF BoardInv, Replayed, StaysReadable, TrustedReadable, Trusted, Valid
<1>2. ViewMirrors'
  BY DEF ViewMirrors, SeenIsReadable, MirrorsServer, MirrorsTrusted, Trusted, Valid
<1>3. VersionsCount'
  BY DEF BoardInv, VersionsCount
<1> QED BY <1>1, <1>2, <1>3 DEF BoardInv

LEMMA CommitKeeps ==
  ASSUME BoardInv, CommitDurable
  PROVE  BoardInv'
<1> DEFINE e == events[seen + 1]
<1>1. /\ events \in Seq(Event) /\ stored \in 0 .. Len(events) /\ seen \in 0 .. Len(events) /\ Len(events) \in Nat
      /\ view \in Board(Rendered) /\ Listed(view) /\ view.version <= seen
  BY DEF BoardInv, Replayed, ViewMirrors, VersionsCount
<1>2. /\ seen < Len(events) /\ view' = ApplyEvent(view, e) /\ seen' = seen + 1 /\ UNCHANGED <<events, boards, stored>>
  BY DEF CommitDurable
<1>3. seen + 1 \in 1 .. Len(events) /\ e \in Event
  BY <1>1, <1>2
<1> HIDE DEF e
<1>4. /\ view' \in Board(Rendered) /\ Listed(view') /\ view'.version <= view.version + 1
      /\ Valid(e) => Erased(view') = Apply(Erased(view), e)
  BY <1>1, <1>2, <1>3, ApplyEventIsRendered
<1>5. view.version \in Nat /\ view'.version \in Nat
  BY <1>1, <1>4, BoardFields
<1>6. ASSUME \A n \in 1 .. seen' : Valid(events[n]) PROVE Erased(view') = boards[seen' + 1]
  <2>1. Valid(e) /\ SeenIsReadable
    BY <1>1, <1>2, <1>6 DEF SeenIsReadable, e
  <2>2. Erased(view) = boards[seen + 1]
    BY <2>1 DEF BoardInv, ViewMirrors, MirrorsServer
  <2>3. boards[(seen + 1) + 1] = Apply(boards[seen + 1], e)
    BY <1>3 DEF BoardInv, Replayed, e
  <2> QED BY <1>2, <1>4, <2>1, <2>2, <2>3
<1>7. Part(Erased(view'), Trusted(seen + 1)) = Part(boards[(seen + 1) + 1], Trusted(seen + 1))
  <2> DEFINE T == Trusted(seen)
             U == Trusted(seen + 1)
             a == Erased(view)
             b == boards[seen + 1]
  <2>1. U \in SUBSET T /\ U \in SUBSET Ids /\ T \in SUBSET Ids
    BY <1>1 DEF Trusted
  <2>2. \A i \in U : e.action \in Draws /\ e.object_id = i => Valid(e)
    BY <1>1, <1>3 DEF Trusted, e
  <2>3. b \in Board(Drawn) /\ Listed(b) /\ boards[(seen + 1) + 1] = Apply(b, e)
    BY <1>1, <1>3 DEF BoardInv, Replayed, e
  <2>4. a \in Board(Drawn) /\ Listed(a)
    <3>1. /\ a \in Board(Drawn) /\ a.order = view.order /\ a.highlights = view.highlights
          /\ DOMAIN a.objects = DOMAIN view.objects
      BY <1>1, ErasedIs
    <3> QED BY <1>1, <3>1, ListedIs
  <2>5. Part(a, T) = Part(b, T)
    BY DEF BoardInv, ViewMirrors, MirrorsTrusted
  <2> HIDE DEF T, U, a, b
  <2>6. Part(a, U) = Part(b, U)
    BY <2>1, <2>3, <2>4, <2>5, PartOfPart
  <2>7. CASE Valid(e)
    <3>1. Erased(view') = Apply(a, e)
      BY <1>4, <2>7 DEF a
    <3> QED BY <1>3, <2>1, <2>3, <2>4, <2>6, <3>1, PartStaysEqual DEF U
  <2>8. CASE ~Valid(e)
    <3>1. Erased(view') = a
      BY <1>2, <2>8 DEF ApplyEvent, a
    <3>2. e.action \notin {"highlight_object", "clear_annotation"}
      <4>1. "text" \in DOMAIN e
        BY <2>8 DEF Valid
      <4> QED BY <1>3, <4>1 DEF Event, Draws
    <3>3. ~Concerns(e, U)
      BY <2>2, <2>8, <3>2 DEF Concerns
    <3>4. Part(Apply(b, e), U) = Part(a, U)
      BY <1>3, <2>1, <2>3, <2>4, <2>6, <3>3, PartStaysEqual
    <3> QED BY <2>3, <3>1, <3>4 DEF U
  <2> QED BY <2>7, <2>8
<1> QED BY <1>1, <1>2, <1>3, <1>4, <1>5, <1>6, <1>7, BrowserKeeps

LEMMA BoardInvNext == BoardInv /\ [BoardNext]_boardVars => BoardInv'
<1> SUFFICES ASSUME BoardInv, [BoardNext]_boardVars PROVE BoardInv'
  OBVIOUS
<1>0. /\ events \in Seq(Event) /\ boards \in Seq(Board(Drawn)) /\ Len(boards) = Len(events) + 1 /\ Len(events) \in Nat
      /\ \A n \in 1 .. Len(boards) : Listed(boards[n]) /\ boards[n].version = n - 1
      /\ boards[1] = EmptyBoard
      /\ stored \in 0 .. Len(events) /\ seen \in 0 .. Len(events) /\ view \in Board(Rendered) /\ Listed(view)
      /\ view.version <= seen
      /\ SeenIsReadable => MirrorsServer
      /\ Part(Erased(view), Trusted(seen)) = Part(boards[seen + 1], Trusted(seen))
  BY DEF BoardInv, Replayed, ViewMirrors, VersionsCount, MirrorsTrusted
<1>1. ASSUME NEW e \in Event, Persist(e) PROVE BoardInv'
  BY <1>1, PersistKeeps
<1>2. CASE WriteSnapshot
  <2>1. UNCHANGED <<events, boards, view, seen>> /\ stored' \in 0 .. Len(events)
    BY <1>0, <1>2 DEF WriteSnapshot
  <2> QED BY <1>0, <2>1, BrowserKeeps DEF SeenIsReadable, MirrorsServer
<1>3. CASE CommitDurable
  BY <1>3, CommitKeeps
<1>4. CASE ApplySnapshot
  <2> DEFINE b == boards[stored + 1]
  <2>1. view' = Parse(b) /\ seen' = stored /\ UNCHANGED <<events, boards, stored>>
    BY <1>4 DEF ApplySnapshot
  <2>2. b \in Board(Drawn) /\ Listed(b) /\ b.version = stored
    BY <1>0
  <2>3. (\A m \in 1 .. stored : Valid(events[m])) => IsReadable(b)
    BY <1>0 DEF BoardInv, StaysReadable
  <2> HIDE DEF b
  <2>4. /\ view' \in Board(Rendered) /\ Listed(view') /\ view'.version = stored
        /\ IsReadable(b) => Erased(view') = b
    BY <2>1, <2>2, ParseIs
  <2>5. stored <= stored
    BY <1>0
  <2>6. \A i \in DOMAIN b.objects \cap Trusted(stored) : b.objects[i].text \in Readable
    BY <1>0 DEF BoardInv, TrustedReadable, Trusted, b
  <2>7. Part(Erased(view'), Trusted(stored)) = Part(b, Trusted(stored))
    BY <2>1, <2>2, <2>6, PartParse
  <2> QED BY <1>0, <2>1, <2>3, <2>4, <2>5, <2>7, BrowserKeeps DEF b
<1>5. CASE Reopen
  <2>1. view' = EmptyBoard /\ seen' = 0 /\ UNCHANGED <<events, boards, stored>>
    BY <1>5 DEF Reopen
  <2>2. EmptyBoard \in Board(Rendered) /\ Listed(EmptyBoard) /\ EmptyBoard.version = 0 /\ Erased(EmptyBoard) = EmptyBoard
    BY EmptyIs, EmptyMirrors DEF EmptyBoard
  <2> QED BY <1>0, <2>1, <2>2, BrowserKeeps
<1>6. CASE UNCHANGED boardVars
  <2>1. UNCHANGED <<events, boards, stored, view, seen>>
    BY <1>6 DEF boardVars
  <2> QED BY <1>0, <2>1, BrowserKeeps DEF SeenIsReadable, MirrorsServer
<1> QED BY <1>1, <1>2, <1>3, <1>4, <1>5, <1>6 DEF BoardNext

LEMMA BoardInvHolds == BoardSpec => []BoardInv
<1> QED BY BoardInvInit, BoardInvNext, PTL DEF BoardSpec

\* Every reachable state of the boards has the declared types: whatever the
\* server draws, the browser keeps to the ids, kinds and texts it accepts.
THEOREM BoardTypeCorrect == BoardSpec => []BoardTypeOK
<1>1. BoardInv => BoardTypeOK
  <2> SUFFICES ASSUME BoardInv PROVE BoardTypeOK
    OBVIOUS
  <2>1. /\ events \in Seq(Event) /\ Len(boards) = Len(events) + 1 /\ Len(events) \in Nat /\ Len(events) <= MaxLogged
        /\ stored \in 0 .. Len(events) /\ seen \in 0 .. Len(events) /\ view \in Board(Rendered) /\ view.version <= seen
    BY DEF BoardInv, Replayed, ViewMirrors, VersionsCount
  <2>2. /\ view.version \in Nat /\ view.active_step \in Steps \cup {NoStep}
        /\ view.order \in Seq(Ids) /\ view.highlights \in Seq(Ids)
        /\ DOMAIN view.objects \subseteq Ids /\ view.objects \in [DOMAIN view.objects -> Rendered]
    BY <2>1, BoardFields
  <2>3. \A i \in DOMAIN view.objects : view.objects[i] \in Rendered
    BY <2>2
  <2>4. view.version \in 0 .. MaxLogged
    BY <2>1, <2>2, BoardAssumption
  <2> QED BY <2>1, <2>2, <2>3, <2>4 DEF BoardTypeOK, Rendered
<1> QED BY <1>1, BoardInvHolds, PTL

\* Nothing is on the page twice and only an annotation of an annotation is
\* missing (Whiteboard.tsx, BoardView and ObjectCard), whichever texts the
\* browser refuses and however its board came about.
THEOREM BoardNothingTwice == BoardSpec => []EachShownOnce
<1>1. BoardInv => EachShownOnce
  BY ShownOnce DEF BoardInv, ViewMirrors, EachShownOnce
<1> QED BY <1>1, BoardInvHolds, PTL

\* Whichever mix of snapshots and events brought it there, the browser's board is
\* the server's while it has accepted every text, what it refused costs no other
\* object, and all of the board is shown once.
THEOREM BoardShown == BoardSpec => []BoardIsShown
<1>1. BoardInv => BoardIsShown
  BY ShownOnce DEF BoardInv, ViewMirrors, EachShownOnce, BoardIsShown
<1> QED BY <1>1, BoardInvHolds, PTL

\* On both boards what is drawn is listed once, and only what is drawn is
\* highlighted, once: no id is left over in a list.
THEOREM BoardsStayListed == BoardSpec => []BoardsListed
<1>1. BoardInv => BoardsListed
  <2> SUFFICES ASSUME BoardInv PROVE BoardsListed
    OBVIOUS
  <2>1. Listed(view) /\ events \in Seq(Event) /\ Len(boards) = Len(events) + 1 /\ \A n \in 1 .. Len(boards) : Listed(boards[n])
    BY DEF BoardInv, Replayed, ViewMirrors
  <2>2. Len(boards) \in 1 .. Len(boards)
    BY <2>1
  <2> QED BY <2>1, <2>2 DEF BoardsListed
<1> QED BY <1>1, BoardInvHolds, PTL

===============================================================================
