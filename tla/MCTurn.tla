-------------------------------- MODULE MCTurn --------------------------------
(***************************************************************************)
(* A classroom turn and what surrounds it, on small instances.  A          *)
(* behaviour is either one turn through the graph, or, after a turn that   *)
(* was stopped at once, the two reducers of the board over any events, the *)
(* router under any calls, the pages of the lab under any visits, a tab    *)
(* that repairs the gaps in what it hears, or a tab that moves between     *)
(* sessions.                                                               *)
(***************************************************************************)
EXTENDS TurnWorkflow, Whiteboard, ModelRouter, CircuitHandoff, MCClassroomClient, ClassroomSession

VARIABLE part
listening == <<scenarioVars, sessionVars>>
allVars == <<turnVars, boardVars, routerVars, handoffVars, listening, part>>

\* The limits of the models: one without a limit per minute, and one with
\* every bucket that a header or the day can refill.
Limits == [m \in Models |-> IF m = CHOOSE x \in Models : TRUE THEN [tpm |-> 3, tpd |-> 3]
                             ELSE [rpd |-> 2, tpd |-> 3]]
Refill == [rpm |-> 1, rpd |-> 1, tpm |-> 2, tpd |-> 1]

\* One of two ids annotates the other.
Targets == LET a == CHOOSE i \in Ids : TRUE IN [i \in Ids |-> IF i = a THEN NoTarget ELSE a]

StoppedAtOnce == Moves("load_context", "superseded") /\ UNCHANGED <<route, calls, retries, answer, circuit, math, sent>>

AllInit ==
  /\ TurnInit /\ BoardInit /\ RouterInit /\ HandoffInit
  /\ Init /\ scenario \in Scenarios /\ SessionInit
  /\ part \in {"turn", "board", "router", "handoff", "gaps", "sessions"}
  /\ part = "sessions" \/ saved = NoSession
TurnPart == (part = "turn" /\ TurnNext) \/ (part # "turn" /\ StoppedAtOnce)
After(p) == part = p /\ node = "superseded" /\ UNCHANGED turnVars
BoardPart == After("board") /\ BoardNext
RouterPart == After("router") /\ RouterNext
HandoffPart == After("handoff") /\ HandoffNext
GapsPart == After("gaps") /\ Next /\ UNCHANGED scenario /\ Within'
SessionsPart == After("sessions") /\ SessionNext
AllNext ==
  /\ UNCHANGED part
  /\ \/ TurnPart /\ UNCHANGED <<boardVars, routerVars, handoffVars, listening>>
     \/ BoardPart /\ UNCHANGED <<routerVars, handoffVars, listening>>
     \/ RouterPart /\ UNCHANGED <<boardVars, handoffVars, listening>>
     \/ HandoffPart /\ UNCHANGED <<boardVars, routerVars, listening>>
     \/ GapsPart /\ UNCHANGED <<boardVars, routerVars, handoffVars, sessionVars>>
     \/ SessionsPart /\ UNCHANGED <<boardVars, routerVars, handoffVars, scenarioVars>>

\* The fairness of FairTurnSpec, and of ClassroomClient's FairSpec for the tab
\* that repairs gaps.
AllSpec ==
  /\ AllInit /\ [][AllNext]_allVars /\ WF_turnVars(TurnPart)
  /\ WF_vars(part = "gaps" /\ node = "superseded"
              /\ \E r \in reqs : r.kind = "recover" /\ r.epoch = cl.epoch /\ RecoverStep(r))
  /\ WF_vars(part = "gaps" /\ node = "superseded" /\ TimerFires)
===============================================================================
