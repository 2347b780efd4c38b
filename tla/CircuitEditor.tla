---------------------------- MODULE CircuitEditor -----------------------------
(***************************************************************************)
(* The circuit builder's editor                                            *)
(* (frontend/src/stores/circuitStore.ts): gates on a grid of qubit rows    *)
(* and columns, the edits, and their undo history.                         *)
(*                                                                         *)
(* Abstractions.  A gate is where it lies; its type is kept only as one- or*)
(* two-qubit, and its angles, pixel positions and the circuit's name are   *)
(* left out.  A one-qubit gate has control = qubit.  The position of a gate*)
(* in the array of nodes is its index here.  The grid has MaxColumns       *)
(* columns and holds MaxGates gates: these two bound the model, not the    *)
(* code.                                                                   *)
(***************************************************************************)
EXTENDS Integers, Sequences, FiniteSets

CONSTANTS MaxQubits,      \* MAX_QUBITS
          HistoryLimit,   \* HISTORY_LIMIT
          Specs,          \* the circuits a whiteboard may hand over
          MaxColumns, MaxGates

WhiteboardGate == [targets : Seq(Nat), control : Nat \cup {-1}, two : BOOLEAN]

ASSUME EditorAssumption ==
  /\ MaxQubits \in Nat /\ MaxQubits >= 2 /\ HistoryLimit \in Nat \ {0} /\ MaxColumns \in Nat /\ MaxGates \in Nat
  /\ \A s \in Specs : /\ s.qubits \in 1 .. MaxQubits
                     /\ s.gates \in Seq(WhiteboardGate) /\ Len(s.gates) <= MaxGates

VARIABLES circuit,    \* the gates on the grid and the number of qubits
          selected,   \* indices of the selected gates
          past, future

vars == <<circuit, selected, past, future>>

Qubits == 0 .. MaxQubits - 1
Columns == 0 .. MaxColumns - 1
Indices == 1 .. MaxGates
Gate == [qubit : Qubits, control : Qubits, two : BOOLEAN, column : Columns]
Circuit == [gates : UNION {[S -> Gate] : S \in SUBSET Indices}, qubits : 1 .. MaxQubits]

Ids(c) == DOMAIN c.gates
NoGates == [i \in {} |-> 0]

\* The rows a gate covers: those between its qubits too.
Rows(g) ==
  {q \in Qubits : \/ g.qubit <= q /\ q <= g.control
                  \/ g.control <= q /\ q <= g.qubit}
Covers(g, q, col) == g.column = col /\ q \in Rows(g)
Overlap(g, h) == g.column = h.column /\ Rows(g) \cap Rows(h) # {}

InRange(g, n) == g.qubit \in 0 .. n - 1 /\ g.control \in 0 .. n - 1

\* nextFreeColumn: the first column from `from` on where g, moved there, is
\* clear of the others.
Free(g, col, others) == \A h \in others : ~Overlap([g EXCEPT !.column = col], h)
IsNextFree(col, g, from, others) ==
  /\ col >= from /\ Free(g, col, others)
  /\ \A earlier \in Columns : earlier >= from /\ earlier < col => ~Free(g, earlier, others)

Gates(c, S) == {c.gates[i] : i \in S}

\* Of the gates of S that are packed one by one, those packed before the i-th.
PackedBefore(i, S) == {j \in S : j < i}

Init ==
  /\ circuit = [gates |-> NoGates, qubits |-> 2]
  /\ selected = {} /\ past = <<>> /\ future = <<>>

-----------------------------------------------------------------------------
(* History                                                                 *)

Latest(h) == IF Len(h) > HistoryLimit THEN Tail(h) ELSE h        \* slice(-HISTORY_LIMIT)
Earliest(h) == IF Len(h) > HistoryLimit THEN SubSeq(h, 1, HistoryLimit) ELSE h

\* commit, then the edit.
Edit(c) == circuit' = c /\ past' = Latest(Append(past, circuit)) /\ future' = <<>>

Undo ==
  /\ past # <<>>
  /\ circuit' = past[Len(past)]
  /\ past' = SubSeq(past, 1, Len(past) - 1)
  /\ future' = Earliest(<<circuit>> \o future)
  /\ selected' = {}

Redo ==
  /\ future # <<>>
  /\ circuit' = Head(future)
  /\ past' = Latest(Append(past, circuit))
  /\ future' = Tail(future)
  /\ selected' = {}

-----------------------------------------------------------------------------
(* Edits                                                                   *)

AddQubit ==
  /\ circuit.qubits < MaxQubits
  /\ Edit([circuit EXCEPT !.qubits = @ + 1])
  /\ UNCHANGED selected

Kept(keep) == [i \in keep |-> circuit.gates[i]]

\* Gates on the row go; the rows below move up, and a gate that only spans
\* the row gets shorter.
RemoveQubit(q) ==
  /\ circuit.qubits > 1 /\ q < circuit.qubits
  /\ LET shift(r) == IF r > q THEN r - 1 ELSE r
         keep == {i \in Ids(circuit) : circuit.gates[i].qubit # q /\ circuit.gates[i].control # q}
     IN /\ Edit([qubits |-> circuit.qubits - 1,
                 gates |-> [i \in keep |-> [circuit.gates[i] EXCEPT !.qubit = shift(@), !.control = shift(@)]]])
        /\ selected' = selected \cap keep

SetQubitCount(n) ==
  /\ n # circuit.qubits
  /\ LET keep == {i \in Ids(circuit) : InRange(circuit.gates[i], n)}
     IN Edit([qubits |-> n, gates |-> Kept(keep)]) /\ selected' = selected \cap keep

\* A new node goes to the end of the array.
With(id, g) == [i \in Ids(circuit) \cup {id} |-> IF i = id THEN g ELSE circuit.gates[i]]
IsLast(id) == \A i \in Ids(circuit) : i < id
IsNew(id) == IsLast(id) /\ \A j \in Indices : j < id => ~IsLast(j)

\* The canvas and placeAtNextFreeColumn aim inside the grid and put the
\* control of a two-qubit gate on the row above its target.
Aimed(q, two) ==
  IF ~two THEN [qubit |-> q, control |-> q]
  ELSE LET top == IF q <= circuit.qubits - 2 THEN q ELSE circuit.qubits - 2
       IN [qubit |-> top + 1, control |-> top]
PlaceGate(q, two, from) ==
  /\ q < circuit.qubits /\ (two => circuit.qubits >= 2)
  /\ \E id \in Indices, col \in Columns :
       LET g == [qubit |-> Aimed(q, two).qubit, control |-> Aimed(q, two).control, two |-> two, column |-> col]
       IN /\ IsNew(id)
          /\ IsNextFree(col, g, from, Gates(circuit, Ids(circuit)))
          /\ Edit([circuit EXCEPT !.gates = With(id, g)])
  /\ UNCHANGED selected

Others(id) == Gates(circuit, Ids(circuit) \ {id})

\* A blocked or outside drop snaps back and changes nothing.
MMoveGate(id, q, col) ==
  LET g == circuit.gates[id]
      next == [g EXCEPT !.qubit = q, !.control = @ + (q - g.qubit), !.column = col]
  IN /\ next # g /\ InRange(next, circuit.qubits)
     /\ \A h \in Others(id) : ~Covers(h, next.qubit, col) /\ ~Covers(h, next.control, col)
     /\ Edit([circuit EXCEPT !.gates[id] = next])
     /\ UNCHANGED selected
MoveGate(id, q, col) ==
  LET g == circuit.gates[id]
      next == [g EXCEPT !.qubit = q, !.control = @ + (q - g.qubit), !.column = col]
  IN /\ next # g /\ InRange(next, circuit.qubits)
     /\ Free(next, col, Others(id))
     /\ Edit([circuit EXCEPT !.gates[id] = next])
     /\ UNCHANGED selected

\* The inspector: q and c are the rows after the patch.  It pushes to the
\* history even when nothing changes.
UpdateGate(id, q, c) ==
  LET g == circuit.gates[id]
      next == [g EXCEPT !.qubit = q, !.control = IF g.two THEN c ELSE q]
  IN /\ g.two => c # q
     /\ InRange(next, circuit.qubits)
     /\ \E col \in Columns :
          /\ IsNextFree(col, next, g.column, Others(id))
          /\ Edit([circuit EXCEPT !.gates[id] = [next EXCEPT !.column = col]])
     /\ UNCHANGED selected

\* React Flow reports any selection; so do the shortcuts.
Select(S) == selected' = S /\ S # selected /\ UNCHANGED <<circuit, past, future>>

\* Copies are packed one after the other, each from the column after its
\* original, and go to the end of the array in the order of the originals.
DuplicateSelected ==
  /\ selected # {}
  /\ \E at \in [selected -> Indices], col \in [selected -> Columns] :
       LET copy(i) == [circuit.gates[i] EXCEPT !.column = col[i]]
           added == {at[i] : i \in selected}
       IN /\ \A i \in selected :
               /\ IsNextFree(col[i], circuit.gates[i], circuit.gates[i].column + 1,
                             Gates(circuit, Ids(circuit)) \cup {copy(j) : j \in PackedBefore(i, selected)})
               /\ IsLast(at[i])
               /\ \A j \in selected : j < i => at[j] < at[i]
          /\ \A j \in Indices : IsLast(j) /\ (\E i \in selected : j < at[i]) => j \in added
          /\ Edit([circuit EXCEPT !.gates =
                    [n \in Ids(circuit) \cup added |->
                       IF n \in Ids(circuit) THEN circuit.gates[n] ELSE copy(CHOOSE i \in selected : at[i] = n)]])
          /\ selected' = added

RemoveSelected ==
  /\ selected # {}
  /\ Edit([circuit EXCEPT !.gates = Kept(Ids(circuit) \ selected)])
  /\ selected' = {}

MClearCircuit ==
  /\ circuit' = [circuit EXCEPT !.gates = NoGates]
  /\ selected' = {}
  /\ UNCHANGED <<past, future>>
\* An empty circuit is cleared without a step of history.
ClearCircuit ==
  /\ IF Ids(circuit) = {}
       THEN UNCHANGED <<circuit, past, future>>
       ELSE Edit([circuit EXCEPT !.gates = NoGates])
  /\ selected' = {}

Reset ==
  /\ circuit' = [circuit EXCEPT !.gates = NoGates]
  /\ selected' = {} /\ past' = <<>> /\ future' = <<>>

-----------------------------------------------------------------------------
(* loadFromSpec: a circuit drawn on the whiteboard.  A gate of it without  *)
(* a control has control = -1.                                             *)

\* Only the first target is read; a two-qubit gate without a control gets
\* the neighbour of its target.
Target(w) == w.targets[1]
Control(w) ==
  IF ~w.two THEN Target(w)
  ELSE IF w.control # -1 THEN w.control
  ELSE IF Target(w) > 0 THEN Target(w) - 1 ELSE Target(w) + 1

\* Gates that do not fit are dropped.
Fits(w, n) == (w.two => Control(w) # Target(w)) /\ Target(w) \in 0 .. n - 1 /\ Control(w) \in 0 .. n - 1

Loaded(w, col) == [qubit |-> Target(w), control |-> Control(w), two |-> w.two, column |-> col]

LoadFromSpec(s) ==
  \E col \in [{i \in DOMAIN s.gates : Fits(s.gates[i], s.qubits)} -> Columns] :
    LET g(i) == Loaded(s.gates[i], col[i])
    IN /\ \A i \in DOMAIN col : IsNextFree(col[i], g(i), 0, {g(j) : j \in PackedBefore(i, DOMAIN col)})
       /\ Edit([qubits |-> s.qubits, gates |-> [i \in DOMAIN col |-> g(i)]])
       /\ selected' = {}

Next ==
  \/ Undo \/ Redo \/ AddQubit \/ DuplicateSelected \/ RemoveSelected \/ ClearCircuit \/ Reset
  \/ \E q \in Qubits : RemoveQubit(q)
  \/ \E n \in 1 .. MaxQubits : SetQubitCount(n)
  \/ \E q \in Qubits, two \in BOOLEAN, from \in Columns : PlaceGate(q, two, from)
  \/ \E id \in Ids(circuit), q \in Qubits, col \in Columns : MoveGate(id, q, col)
  \/ \E id \in Ids(circuit), q, c \in Qubits : UpdateGate(id, q, c)
  \/ \E S \in SUBSET Ids(circuit) : Select(S)
  \/ \E s \in Specs : LoadFromSpec(s)

Spec == Init /\ [][Next]_vars

-----------------------------------------------------------------------------
TypeOK ==
  /\ circuit \in Circuit
  /\ selected \in SUBSET Ids(circuit)
  /\ past \in Seq(Circuit) /\ future \in Seq(Circuit)

\* Gates lie inside the grid, a two-qubit gate on two rows, and no two gates
\* cover the same cell (circuit-spec.ts, occupiedCells).
WellPlaced(c) ==
  /\ \A i \in Ids(c) : InRange(c.gates[i], c.qubits) /\ (c.gates[i].two <=> c.gates[i].qubit # c.gates[i].control)
  /\ \A i, j \in Ids(c) : i # j => ~Overlap(c.gates[i], c.gates[j])

\* Not only on the screen: also in every circuit that undo or redo can bring
\* back, which neither checks.
CircuitsWellPlaced ==
  /\ WellPlaced(circuit)
  /\ \A i \in DOMAIN past : WellPlaced(past[i])
  /\ \A i \in DOMAIN future : WellPlaced(future[i])

\* The two stacks share one limit: moving along the history never drops an end
\* of it, so redo takes back exactly what undo did, also at the limit.
HistoryBounded == Len(past) + Len(future) <= HistoryLimit

\* Whatever changed the circuit, one undo (or redo, after an undo) leads back
\* to exactly what was there; only reset forgets.
EveryEditIsUndoable ==
  [][circuit' # circuit =>
       \/ past' # <<>> /\ past'[Len(past')] = circuit
       \/ future' # <<>> /\ Head(future') = circuit
       \/ past' = <<>> /\ future' = <<>> /\ Ids(circuit') = {}]_vars

\* circuitStore.ts:96, "packing gates into columns in the given order": gates
\* that act on the same qubit keep their order.
Acts(w) == {w.targets[n] : n \in DOMAIN w.targets} \cup (IF w.control = -1 THEN {} ELSE {w.control})
LoadKeepsOrder ==
  [][\A s \in Specs : LoadFromSpec(s) =>
       \A i, j \in Ids(circuit') :
         i < j /\ Acts(s.gates[i]) \cap Acts(s.gates[j]) # {} => circuit'.gates[i].column < circuit'.gates[j].column]_vars
===============================================================================
