------------------------------- MODULE MCCircuit ------------------------------
(***************************************************************************)
(* The circuit laboratory on small instances.  Its parts - the store's     *)
(* edits, the canvas around them, what leaves the editor, the runs with    *)
(* what the page shows of them, what is read out of a circuit, and the     *)
(* questions to the tutor - share no state that the others' actions read,  *)
(* so each behaviour moves one of them only: `part`.                       *)
(***************************************************************************)
EXTENDS CircuitCanvas, CircuitExport, RunPanel, Readout, TutorStream

CONSTANTS CanvasQubits   \* bound: qubits while the canvas is driven

VARIABLE part
allVars == <<labVars, exportVars, panelVars, readoutVars, tutorVars, part>>

Single(q) == [targets |-> <<q>>, control |-> -1, two |-> FALSE]
Controlled(c, q) == [targets |-> <<q>>, control |-> c, two |-> TRUE]

\* A wide gate, and a gate that does not fit its circuit.
MCSpecs ==
  {[qubits |-> 3, gates |-> <<Single(1), Controlled(0, 2)>>],
   [qubits |-> 1, gates |-> <<Controlled(1, 0), Single(0)>>]}

\* Circuits with measurements and decomposed gates, and a wide gate between
\* others in a diagram.
Placed ==
  {g \in [type : Types, qubit : Qubits, control : Qubits, two : BOOLEAN, column : Columns] :
     (g.two <=> g.qubit # g.control) /\ (g.type = "M" => ~g.two) /\ (g.type = "RYY" => g.two)}
Listed == {Single(0), Single(1), Controlled(2, 0), Controlled(0, 1)}

MCInit ==
  /\ LabInit /\ PanelInit /\ ReadoutInit /\ TutorInit /\ exported = circuit /\ diagram = <<>>
  /\ part \in {"edits", "canvas", "export", "runs", "readout", "tutor"}
  /\ part # "readout" => psi = Zeros(1)

Export ==
  /\ exported.gates = NoGates /\ diagram = <<>>
  /\ \/ /\ \E n \in 1 .. MaxGates : exported' \in [gates : [1 .. n -> Placed], qubits : {MaxQubits}]
        /\ WellPlaced(exported')
        /\ UNCHANGED diagram
     \/ /\ \E n \in 1 .. 3 : diagram' \in [1 .. n -> Listed]
        /\ UNCHANGED exported

MCNext ==
  /\ UNCHANGED part
  /\ \/ part = "edits" /\ Next /\ UNCHANGED <<lab, exportVars, panelVars, readoutVars, tutorVars>>
     \/ /\ part = "canvas" /\ LabNext /\ circuit'.qubits <= CanvasQubits
        /\ UNCHANGED <<exportVars, panelVars, readoutVars, tutorVars>>
     \/ part = "export" /\ Export /\ UNCHANGED <<labVars, panelVars, readoutVars, tutorVars>>
     \/ part = "runs" /\ PanelNext /\ UNCHANGED <<labVars, exportVars, readoutVars, tutorVars>>
     \/ part = "readout" /\ ReadoutNext /\ UNCHANGED <<labVars, exportVars, panelVars, tutorVars>>
     \/ part = "tutor" /\ TutorNext /\ UNCHANGED <<labVars, exportVars, panelVars, readoutVars>>

MCSpec == MCInit /\ [][MCNext]_allVars
===============================================================================
