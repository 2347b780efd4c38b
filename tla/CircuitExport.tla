---------------------------- MODULE CircuitExport -----------------------------
(***************************************************************************)
(* What leaves the editor: the specification that is posted to the         *)
(* simulator and written to .json files, the OpenQASM and Qiskit programs  *)
(* made from it (frontend/src/lib/circuit-spec.ts), the backend's own      *)
(* translation (backend/app/quantum/sandbox_adapter.py), and the diagram   *)
(* that lessons and the whiteboard draw of such a specification            *)
(* (components/learn/CircuitPreview.tsx).                                  *)
(*                                                                         *)
(* Abstractions.  A gate is "M", "RYY" or of a type with one instruction;  *)
(* angles, names and the syntax of the programs are left out.  A program   *)
(* is the sequence of its instructions, each with the qubits it acts on.   *)
(***************************************************************************)
EXTENDS CircuitEditor, SequencesExt

VARIABLES exported,  \* a circuit of the editor, whose gates also have a type
          diagram    \* a list of gates: targets, and a control or -1

exportVars == <<exported, diagram>>

Types == {"M", "RYY", "gate"}

-----------------------------------------------------------------------------
(* nodesToCircuitSpec                                                      *)

\* By column, then by row.
Earlier(g, h) == g.column < h.column \/ (g.column = h.column /\ g.qubit < h.qubit)

\* A measurement and a one-qubit gate lose their control.
SpecGate(g) == [type |-> g.type, targets |-> <<g.qubit>>, control |-> IF g.two THEN g.control ELSE -1]
\* The gates in an order that Earlier nowhere contradicts.
Sorted(c) ==
  CHOOSE s \in SetToSeqs(Gates(c, Ids(c))) : \A m, n \in DOMAIN s : m < n => ~Earlier(s[n], s[m])
CircuitSpec(c) == [n \in DOMAIN Sorted(c) |-> SpecGate(Sorted(c)[n])]

-----------------------------------------------------------------------------
(* Programs                                                                *)

Does(name, on) == [name |-> name, on |-> on]
Operands(g) == IF g.control = -1 THEN g.targets ELSE <<g.control, Target(g)>>

\* ryy is not in qelib1.inc.
Decomposed(a, b) ==
  <<Does("rx(pi/2)", <<a>>), Does("rx(pi/2)", <<b>>), Does("cx", <<a, b>>), Does("rz", <<b>>),
    Does("cx", <<a, b>>), Does("rx(-pi/2)", <<a>>), Does("rx(-pi/2)", <<b>>)>>

\* circuitSpecToQasm
MQasmGate(g) ==
  CASE g.type = "M" -> [n \in DOMAIN g.targets |-> Does("measure", <<g.targets[n]>>)]
    [] g.type = "RYY" -> Decomposed(Target(g), g.control)
    [] OTHER -> <<Does("gate", Operands(g))>>
QasmGate(g) ==
  CASE g.type = "M" -> [n \in DOMAIN g.targets |-> Does("measure", <<g.targets[n]>>)]
    [] g.type = "RYY" -> Decomposed(IF g.control = -1 THEN Target(g) ELSE g.control, Target(g))
    [] OTHER -> <<Does("gate", Operands(g))>>
Qasm(spec) == FlattenSeq([n \in DOMAIN spec |-> QasmGate(spec[n])])

\* _spec_to_qasm, which what is simulated is made with
BackendGate(g) ==
  CASE g.type = "RYY" ->
         Decomposed(IF g.control # -1 THEN g.control ELSE Target(g),
                    IF g.control # -1 THEN g.targets[Len(g.targets)] ELSE g.targets[2])
    [] g.type = "M" -> [n \in DOMAIN g.targets |-> Does("measure", <<g.targets[n]>>)]
    [] g.type = "gate" /\ g.control # -1 -> <<Does("gate", <<g.control, Target(g)>>)>>
    [] OTHER -> <<Does("gate", g.targets)>>
BackendQasm(spec) == FlattenSeq([n \in DOMAIN spec |-> BackendGate(spec[n])])

\* circuitSpecToQiskitSource: one line for each gate, and one measurement at
\* the end.
Measured(g) == g.type = "M"
QiskitSource(spec) ==
  LET steps == SelectSeq(spec, LAMBDA g : ~Measured(g))
      read == FlattenSeq([n \in DOMAIN SelectSeq(spec, Measured) |-> SelectSeq(spec, Measured)[n].targets])
  IN [n \in DOMAIN steps |-> Does("gate", Operands(steps[n]))]
     \o (IF read = <<>> THEN <<>> ELSE <<Does("measure", read)>>)

-----------------------------------------------------------------------------
(* The diagram, packed as on the whiteboard                                *)

Least(S) == CHOOSE q \in S : \A r \in S : q <= r
Greatest(S) == CHOOSE q \in S : \A r \in S : r <= q
Wires(g) == Acts(g) \cap Qubits
Span(g) == IF Wires(g) = {} THEN {} ELSE Least(Wires(g)) .. Greatest(Wires(g))

\* next: the first column that is free on each wire after the first n gates.
NextColumns(gates) ==
  LET next[n \in 0 .. Len(gates)] ==
        IF n = 0 THEN [q \in Qubits |-> 0]
        ELSE LET col == Greatest({0} \cup {next[n - 1][q] : q \in Span(gates[n])})
             IN [q \in Qubits |-> IF q \in Span(gates[n]) THEN col + 1 ELSE next[n - 1][q]]
  IN next
AssignColumns(gates) ==
  [n \in DOMAIN gates |-> Greatest({0} \cup {NextColumns(gates)[n - 1][q] : q \in Span(gates[n])})]

\* A box on every target, a dot on the control, and a line between them.
Drawn(g) ==
  IF g.control # -1
    THEN Acts(g) \cup Least({Target(g), g.control}) .. Greatest({Target(g), g.control})
    ELSE Least(Acts(g)) .. Greatest(Acts(g))

-----------------------------------------------------------------------------
(* Properties                                                              *)

SpecKeepsWires ==
  \A m, n \in DOMAIN CircuitSpec(exported) :
    m < n /\ Acts(CircuitSpec(exported)[m]) \cap Acts(CircuitSpec(exported)[n]) # {} =>
      Sorted(exported)[m].column < Sorted(exported)[n].column

DiagramKeepsWires ==
  LET col == AssignColumns(diagram)
  IN \A m, n \in DOMAIN diagram :
       m < n => /\ Drawn(diagram[m]) \cap Drawn(diagram[n]) # {} => col[m] # col[n]
                /\ Wires(diagram[m]) \cap Wires(diagram[n]) # {} => col[m] < col[n]

\* circuit-spec.ts:191: the file mirrors the backend's _spec_to_qasm.
MirrorsBackend == Qasm(CircuitSpec(exported)) = BackendQasm(CircuitSpec(exported))

\* What leaves the editor is the circuit in it.  A wire sees its gates in the
\* order of the grid's columns: neither the posted specification nor the QASM
\* file reorders gates that share a qubit, whatever order they were placed in,
\* and both programs are the same.  The diagram of a specification in turn
\* never draws a gate over another one (CircuitPreview.tsx:45, the span), nor
\* before a gate that acts earlier on one of its qubits.
ExportIsTheCircuit == SpecKeepsWires /\ MirrorsBackend /\ DiagramKeepsWires
===============================================================================
