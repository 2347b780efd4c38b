-------------------------- MODULE MCClassroomClient --------------------------
(***************************************************************************)
(* ClassroomClient on small instances.  Each behaviour is one scenario,    *)
(* with bounds of its own below those of the constants.                    *)
(***************************************************************************)
EXTENDS ClassroomClient

CONSTANT Scenarios   \* bound: the scenarios of a run

VARIABLE scenario
scenarioVars == <<vars, scenario>>

\* A tab that sends, stops and reconnects while two turns overlap.
Overlap == [turns |-> 2, sends |-> 1, fails |-> 0, errors |-> 0, leaves |-> FALSE]
\* A tab that sends and stops one turn, which may fail on the server.
Erring == [turns |-> 1, sends |-> 1, fails |-> 0, errors |-> 1, leaves |-> FALSE]
\* A page that is left and opened again while requests may fail.
Reopened == [turns |-> 1, sends |-> 0, fails |-> 1, errors |-> 0, leaves |-> TRUE]
\* Events that are lost, with more failing requests than there are retries.
Gap == [turns |-> 1, sends |-> 1, fails |-> MaxRecover + 1, errors |-> 1, leaves |-> FALSE]
\* Answers that overtake the events of overlapping turns.
Overtaken == [turns |-> 2, sends |-> 2, fails |-> 0, errors |-> 1, leaves |-> FALSE]

MCBoard == {Overlap, Erring, Reopened}
MCGap == {Gap}
MCOvertaken == {Overtaken}

Within ==
  /\ begun <= scenario.turns /\ sends <= scenario.sends /\ fails <= scenario.fails
  /\ Cardinality(failed) <= scenario.errors
  /\ scenario.leaves \/ cl.epoch = 1

MCInit == Init /\ scenario \in Scenarios
MCNext == Next /\ UNCHANGED scenario /\ Within'
MCSpec == MCInit /\ [][MCNext]_scenarioVars
=============================================================================
