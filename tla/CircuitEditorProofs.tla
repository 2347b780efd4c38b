-------------------------- MODULE CircuitEditorProofs -------------------------
(***************************************************************************)
(* No edit, undo or redo ever shows overlapping gates or a gate outside    *)
(* the circuit, for any grid, any length of history and any circuits       *)
(* handed over by the whiteboard; and one undo or redo takes back exactly  *)
(* one edit.                                                               *)
(*                                                                         *)
(* Undo and redo restore circuits without checking them, so the invariant  *)
(* is about the whole history.  Each edit is then shown to turn a well     *)
(* placed circuit into another one.                                        *)
(*                                                                         *)
(* The page around the editor (CircuitCanvas) makes no other change to the *)
(* circuit, and drops a gate where it had previewed it, because a drag and *)
(* the circuit under it do not change without the preview (LabInv).        *)
(*                                                                         *)
(* What leaves the editor is the circuit in it: gates that are well placed *)
(* can be put in the order of the grid (OrderExists), which is the order   *)
(* on every wire, and a diagram's wires fill up from left to right         *)
(* (NextNeverGoesBack).  Both are inductions over numbers, as least        *)
(* counterexamples (LeastNumber).                                          *)
(*                                                                         *)
(* What the page shows of a request whose answer comes over a channel: a   *)
(* question to the tutor (TutorStream) and a simulation (CircuitRun, with  *)
(* its panel, RunPanel).                                                   *)
(*                                                                         *)
(* Whatever a student asks and whatever is lost, a closed bubble of the    *)
(* tutor is accounted for and the streaming flag has a question behind it, *)
(* for every number of questions and tokens.  What a closed bubble shows   *)
(* depends on the last message its channel delivered, so the invariant     *)
(* speaks of the messages still on the way: a final one agrees with what   *)
(* the task has committed (Honest), and an open bubble has no mark of an   *)
(* error yet.                                                              *)
(*                                                                         *)
(* What the screen says of a simulation is true of the latest run, and     *)
(* only its channel is open, for any number of runs.  OutcomeIsOfLatestRun *)
(* is not inductive: an answer is believed when it arrives, so it must be  *)
(* known that every answer on its way, or shown, comes from a task that is *)
(* over and had stored what it says.  And superseding closes the channel   *)
(* of activeUnsub, so activeUnsub must be the latest run's exactly while   *)
(* the screen waits.                                                       *)
(***************************************************************************)
EXTENDS CircuitCanvas, CircuitExport, TutorStream, RunPanel, ListLemmas, FiniteSetTheorems

GoodCircuits == {c \in Circuit : WellPlaced(c)}

EditorInv ==
  /\ circuit \in GoodCircuits
  /\ past \in Seq(GoodCircuits) /\ future \in Seq(GoodCircuits)
  /\ selected \subseteq Ids(circuit)

-----------------------------------------------------------------------------
(* Circuits and overlaps                                                   *)

LEMMA GoodElim ==
  ASSUME NEW c \in GoodCircuits
  PROVE  /\ c.gates \in [Ids(c) -> Gate] /\ Ids(c) \subseteq Indices
         /\ c.qubits \in 1 .. MaxQubits
         /\ WellPlaced(c)
  BY DEF GoodCircuits, Circuit, Ids

LEMMA GoodIntro ==
  ASSUME NEW S \in SUBSET Indices, NEW f \in [S -> Gate], NEW n \in 1 .. MaxQubits,
         \A i \in S : InRange(f[i], n) /\ (f[i].two <=> f[i].qubit # f[i].control),
         \A i, j \in S : i # j => ~Overlap(f[i], f[j])
  PROVE  [gates |-> f, qubits |-> n] \in GoodCircuits
<1>1. [gates |-> f, qubits |-> n] \in Circuit
  BY DEF Circuit
<1>2. WellPlaced([gates |-> f, qubits |-> n])
  BY DEF WellPlaced, Ids
<1> QED
  BY <1>1, <1>2 DEF GoodCircuits

LEMMA OverlapSymmetric == \A g, h : Overlap(g, h) <=> Overlap(h, g)
  BY DEF Overlap

\* Fewer gates, in a circuit with enough rows for them, stay well placed.
LEMMA FewerGates ==
  ASSUME NEW c \in GoodCircuits, NEW S \in SUBSET Ids(c), NEW n \in 1 .. MaxQubits,
         \A i \in S : InRange(c.gates[i], n)
  PROVE  [gates |-> [i \in S |-> c.gates[i]], qubits |-> n] \in GoodCircuits
<1> DEFINE f == [i \in S |-> c.gates[i]]
<1>1. S \in SUBSET Indices /\ f \in [S -> Gate]
  BY GoodElim
<1>2. \A i \in S : f[i] = c.gates[i] /\ i \in Ids(c)
  OBVIOUS
<1>3. \A i \in S : InRange(f[i], n) /\ (f[i].two <=> f[i].qubit # f[i].control)
  BY <1>2, GoodElim DEF WellPlaced
<1>4. \A i, j \in S : i # j => ~Overlap(f[i], f[j])
  BY <1>2, GoodElim DEF WellPlaced
<1> HIDE DEF f
<1>5. [gates |-> f, qubits |-> n] \in GoodCircuits
  BY <1>1, <1>3, <1>4, GoodIntro
<1> QED
  BY <1>5 DEF f

\* One gate put in place of another one, or at a new index.
LEMMA OneGate ==
  ASSUME NEW c \in GoodCircuits, NEW id \in Indices, NEW g \in Gate,
         InRange(g, c.qubits), g.two <=> g.qubit # g.control,
         \A i \in Ids(c) \ {id} : ~Overlap(g, c.gates[i])
  PROVE  [gates |-> [i \in Ids(c) \cup {id} |-> IF i = id THEN g ELSE c.gates[i]], qubits |-> c.qubits]
           \in GoodCircuits
<1> DEFINE S == Ids(c) \cup {id}
           f == [i \in S |-> IF i = id THEN g ELSE c.gates[i]]
<1>1. S \in SUBSET Indices /\ f \in [S -> Gate] /\ c.qubits \in 1 .. MaxQubits
  BY GoodElim
<1>2. f[id] = g /\ \A i \in S : i # id => f[i] = c.gates[i] /\ i \in Ids(c)
  OBVIOUS
<1>3. \A i \in S : InRange(f[i], c.qubits) /\ (f[i].two <=> f[i].qubit # f[i].control)
  BY <1>2, GoodElim DEF WellPlaced
<1>4. ASSUME NEW i \in S, NEW j \in S, i # j PROVE ~Overlap(f[i], f[j])
  BY <1>2, <1>4, GoodElim, OverlapSymmetric DEF WellPlaced
<1> HIDE DEF f, S
<1>5. [gates |-> f, qubits |-> c.qubits] \in GoodCircuits
  BY <1>1, <1>3, <1>4, GoodIntro
<1> QED
  BY <1>5 DEF f, S

-----------------------------------------------------------------------------
(* The history                                                             *)

LEMMA EditKeepsHistory ==
  ASSUME EditorInv, NEW c \in GoodCircuits, Edit(c), selected' \subseteq Ids(c)
  PROVE  EditorInv'
<1>1. Append(past, circuit) \in Seq(GoodCircuits)
  BY DEF EditorInv
<1>2. past' \in Seq(GoodCircuits)
  <2>1. Append(past, circuit) # <<>>
    BY DEF EditorInv
  <2>2. Tail(Append(past, circuit)) \in Seq(GoodCircuits)
    BY <1>1, <2>1
  <2> QED
    BY <1>1, <2>2 DEF Edit, Latest
<1>3. circuit' = c /\ future' = <<>>
  BY DEF Edit
<1> QED
  BY <1>2, <1>3 DEF EditorInv

LEMMA UndoKeeps ==
  ASSUME EditorInv, Undo
  PROVE  EditorInv'
<1>1. past \in Seq(GoodCircuits) /\ future \in Seq(GoodCircuits) /\ circuit \in GoodCircuits
  BY DEF EditorInv
<1>2. Len(past) \in 1 .. Len(past)
  BY <1>1 DEF Undo
<1>3. past[Len(past)] \in GoodCircuits /\ SubSeq(past, 1, Len(past) - 1) \in Seq(GoodCircuits)
  BY <1>1, <1>2
<1>4. <<circuit>> \o future \in Seq(GoodCircuits)
  BY <1>1
<1>5. Earliest(<<circuit>> \o future) \in Seq(GoodCircuits)
  <2> DEFINE h == <<circuit>> \o future
  <2>1. CASE Len(h) > HistoryLimit
    <3>1. SubSeq(h, 1, HistoryLimit) \in Seq(GoodCircuits)
      BY <1>4, <2>1, EditorAssumption
    <3> QED
      BY <2>1, <3>1 DEF Earliest
  <2>2. CASE ~(Len(h) > HistoryLimit)
    BY <1>4, <2>2 DEF Earliest
  <2> QED
    BY <2>1, <2>2
<1> QED
  BY <1>3, <1>5 DEF Undo, EditorInv

LEMMA RedoKeeps ==
  ASSUME EditorInv, Redo
  PROVE  EditorInv'
<1>1. past \in Seq(GoodCircuits) /\ future \in Seq(GoodCircuits) /\ future # <<>> /\ circuit \in GoodCircuits
  BY DEF EditorInv, Redo
<1>2. Head(future) \in GoodCircuits /\ Tail(future) \in Seq(GoodCircuits)
  BY <1>1
<1>3. Append(past, circuit) \in Seq(GoodCircuits) /\ Append(past, circuit) # <<>>
  BY <1>1
<1>4. Latest(Append(past, circuit)) \in Seq(GoodCircuits)
  <2>1. Tail(Append(past, circuit)) \in Seq(GoodCircuits)
    BY <1>3
  <2> QED
    BY <1>3, <2>1 DEF Latest
<1> QED
  BY <1>2, <1>4 DEF Redo, EditorInv

-----------------------------------------------------------------------------
(* The edits                                                               *)

LEMMA AddQubitKeeps ==
  ASSUME EditorInv, AddQubit
  PROVE  EditorInv'
<1> DEFINE c == [circuit EXCEPT !.qubits = @ + 1]
<1>0. circuit \in GoodCircuits /\ circuit.qubits < MaxQubits /\ selected \subseteq Ids(circuit)
  BY DEF EditorInv, AddQubit
<1>1. circuit.qubits + 1 \in 1 .. MaxQubits
  BY <1>0, GoodElim, EditorAssumption
<1>2. \A i \in Ids(circuit) : InRange(circuit.gates[i], circuit.qubits + 1)
  <2>1. \A i \in Ids(circuit) : InRange(circuit.gates[i], circuit.qubits)
    BY <1>0, GoodElim DEF WellPlaced
  <2> QED
    BY <1>0, <2>1, GoodElim DEF InRange
<1>3. c = [gates |-> [i \in Ids(circuit) |-> circuit.gates[i]], qubits |-> circuit.qubits + 1]
  <2>1. circuit \in [gates : UNION {[S -> Gate] : S \in SUBSET Indices}, qubits : 1 .. MaxQubits]
    BY <1>0 DEF GoodCircuits, Circuit
  <2>2. circuit.gates = [i \in Ids(circuit) |-> circuit.gates[i]]
    BY <1>0, GoodElim
  <2> QED
    BY <2>1, <2>2
<1>6. Edit(c) /\ selected' = selected
  BY DEF AddQubit
<1> HIDE DEF c
<1>4. c \in GoodCircuits
  BY <1>0, <1>1, <1>2, <1>3, FewerGates
<1>5. Ids(c) = Ids(circuit)
  BY <1>0, <1>3 DEF Ids
<1> QED
  BY <1>0, <1>4, <1>5, <1>6, EditKeepsHistory

\* Keeping some of the gates, on enough rows.
LEMMA KeptKeeps ==
  ASSUME EditorInv, NEW S \in SUBSET Ids(circuit), NEW n \in 1 .. MaxQubits,
         \A i \in S : InRange(circuit.gates[i], n),
         Edit([gates |-> Kept(S), qubits |-> n]), selected' \subseteq S
  PROVE  EditorInv'
<1>1. [gates |-> Kept(S), qubits |-> n] \in GoodCircuits
  BY FewerGates DEF Kept, EditorInv
<1>2. Ids([gates |-> Kept(S), qubits |-> n]) = S
  BY DEF Ids, Kept
<1> QED
  BY <1>1, <1>2, EditKeepsHistory

LEMMA SetQubitCountKeeps ==
  ASSUME EditorInv, NEW n \in 1 .. MaxQubits, SetQubitCount(n)
  PROVE  EditorInv'
<1> DEFINE S == {i \in Ids(circuit) : InRange(circuit.gates[i], n)}
<1>1. Edit([gates |-> Kept(S), qubits |-> n]) /\ selected' = selected \cap S
  BY DEF SetQubitCount
<1>2. selected' \subseteq S
  BY <1>1
<1> QED
  BY <1>1, <1>2, KeptKeeps

LEMMA SameQubits ==
  ASSUME NEW c \in GoodCircuits, NEW f
  PROVE  [c EXCEPT !.gates = f] = [gates |-> f, qubits |-> c.qubits]
  BY DEF GoodCircuits, Circuit

LEMMA RemoveSelectedKeeps ==
  ASSUME EditorInv, RemoveSelected
  PROVE  EditorInv'
<1> DEFINE S == Ids(circuit) \ selected
<1>1. circuit \in GoodCircuits
  BY DEF EditorInv
<1>2. Edit([gates |-> Kept(S), qubits |-> circuit.qubits]) /\ selected' = {}
  BY <1>1, SameQubits DEF RemoveSelected
<1>3. \A i \in S : InRange(circuit.gates[i], circuit.qubits)
  BY <1>1, GoodElim DEF WellPlaced
<1> QED
  BY <1>1, <1>2, <1>3, GoodElim, KeptKeeps

\* Nothing on the grid.
LEMMA NoGatesGood ==
  ASSUME NEW n \in 1 .. MaxQubits
  PROVE  [gates |-> NoGates, qubits |-> n] \in GoodCircuits
<1>1. NoGates \in [{} -> Gate]
  BY DEF NoGates
<1> QED
  BY <1>1, GoodIntro

LEMMA ClearKeeps ==
  ASSUME EditorInv, ClearCircuit \/ Reset
  PROVE  EditorInv'
<1>1. circuit \in GoodCircuits /\ circuit.qubits \in 1 .. MaxQubits
  BY GoodElim DEF EditorInv
<1>2. [circuit EXCEPT !.gates = NoGates] \in GoodCircuits
  BY <1>1, SameQubits, NoGatesGood
<1>3. CASE Reset
  BY <1>2, <1>3 DEF Reset, EditorInv
<1>4. CASE ClearCircuit /\ Ids(circuit) = {}
  BY <1>4 DEF ClearCircuit, EditorInv
<1>5. CASE ClearCircuit /\ Ids(circuit) # {}
  BY <1>2, <1>5, EditKeepsHistory DEF ClearCircuit
<1> QED
  BY <1>3, <1>4, <1>5

\* Taking out a row: two gates that overlap afterwards overlapped before.
Shift(q, r) == IF r > q THEN r - 1 ELSE r
Shifted(q, g) == [g EXCEPT !.qubit = Shift(q, @), !.control = Shift(q, @)]

LEMMA ShiftedRow ==
  ASSUME NEW q \in Qubits, NEW g \in Gate, g.qubit # q, g.control # q, NEW r \in Rows(Shifted(q, g))
  PROVE  (IF r >= q THEN r + 1 ELSE r) \in Rows(g)
<1>1. Shifted(q, g).qubit = Shift(q, g.qubit) /\ Shifted(q, g).control = Shift(q, g.control)
  BY DEF Shifted, Gate
<1>2. r \in Qubits /\ (\/ Shift(q, g.qubit) <= r /\ r <= Shift(q, g.control)
                       \/ Shift(q, g.control) <= r /\ r <= Shift(q, g.qubit))
  BY <1>1 DEF Rows
<1>3. g.qubit \in Qubits /\ g.control \in Qubits
  BY DEF Gate
<1> QED
  BY <1>2, <1>3, EditorAssumption DEF Rows, Shift, Qubits

LEMMA ShiftedOverlap ==
  ASSUME NEW q \in Qubits, NEW g \in Gate, NEW h \in Gate,
         g.qubit # q, g.control # q, h.qubit # q, h.control # q,
         Overlap(Shifted(q, g), Shifted(q, h))
  PROVE  Overlap(g, h)
<1>1. g.column = h.column
  BY DEF Overlap, Shifted, Gate
<1>2. PICK r : r \in Rows(Shifted(q, g)) /\ r \in Rows(Shifted(q, h))
  BY DEF Overlap
<1>3. (IF r >= q THEN r + 1 ELSE r) \in Rows(g) \cap Rows(h)
  BY <1>2, ShiftedRow
<1> QED
  BY <1>1, <1>3 DEF Overlap

LEMMA RemoveQubitKeeps ==
  ASSUME EditorInv, NEW q \in Qubits, RemoveQubit(q)
  PROVE  EditorInv'
<1> DEFINE S == {i \in Ids(circuit) : circuit.gates[i].qubit # q /\ circuit.gates[i].control # q}
           f == [i \in S |-> Shifted(q, circuit.gates[i])]
           n == circuit.qubits - 1
<1>0. circuit \in GoodCircuits /\ circuit.qubits > 1 /\ q < circuit.qubits
  BY DEF EditorInv, RemoveQubit
<1>1. n \in 1 .. MaxQubits /\ S \in SUBSET Indices
  BY <1>0, GoodElim, EditorAssumption
<1>2. ASSUME NEW i \in S
      PROVE  /\ f[i] \in Gate /\ InRange(f[i], n)
             /\ f[i].two <=> f[i].qubit # f[i].control
  <2> DEFINE g == circuit.gates[i]
  <2>1. g \in Gate /\ InRange(g, circuit.qubits) /\ (g.two <=> g.qubit # g.control)
    BY <1>0, GoodElim DEF WellPlaced
  <2>2. g.qubit # q /\ g.control # q
    OBVIOUS
  <2>3. f[i] = Shifted(q, g)
    OBVIOUS
  <2> HIDE DEF g, f
  <2>4. /\ f[i].qubit = Shift(q, g.qubit) /\ f[i].control = Shift(q, g.control)
        /\ f[i].two = g.two /\ f[i].column = g.column
        /\ f[i] = [g EXCEPT !.qubit = Shift(q, g.qubit), !.control = Shift(q, g.control)]
    BY <2>1, <2>3 DEF Shifted, Gate
  <2>5. g.qubit \in 0 .. circuit.qubits - 1 /\ g.control \in 0 .. circuit.qubits - 1
    BY <2>1 DEF InRange
  <2>6. circuit.qubits \in 1 .. MaxQubits
    BY <1>0, GoodElim
  <2>7. Shift(q, g.qubit) \in 0 .. n - 1 /\ Shift(q, g.control) \in 0 .. n - 1
    BY <1>0, <2>2, <2>5, <2>6, EditorAssumption, SMTT(30) DEF Shift, Qubits
  <2>8. Shift(q, g.qubit) # Shift(q, g.control) <=> g.qubit # g.control
    BY <1>0, <2>2, <2>5, <2>6, EditorAssumption, SMTT(30) DEF Shift, Qubits
  <2>9. Shift(q, g.qubit) \in Qubits /\ Shift(q, g.control) \in Qubits
    BY <2>6, <2>7, EditorAssumption DEF Qubits
  <2>10. f[i] \in Gate
    BY <2>1, <2>4, <2>9 DEF Gate
  <2> QED
    BY <2>1, <2>4, <2>7, <2>8, <2>10 DEF InRange
<1>3. ASSUME NEW i \in S, NEW j \in S, i # j PROVE ~Overlap(f[i], f[j])
  <2>1. circuit.gates[i] \in Gate /\ circuit.gates[j] \in Gate /\ ~Overlap(circuit.gates[i], circuit.gates[j])
    BY <1>0, <1>3, GoodElim DEF WellPlaced
  <2> QED
    BY <2>1, ShiftedOverlap
<1>4. f \in [S -> Gate]
  BY <1>2
<1>5. Edit([gates |-> f, qubits |-> n]) /\ selected' = selected \cap S
  BY DEF RemoveQubit, Shifted, Shift
<1>6. Ids([gates |-> f, qubits |-> n]) = S
  BY DEF Ids
<1> HIDE DEF f, n, S
<1>7. [gates |-> f, qubits |-> n] \in GoodCircuits
  BY <1>1, <1>2, <1>3, <1>4, GoodIntro
<1> QED
  BY <1>5, <1>6, <1>7, EditKeepsHistory

\* A gate placed at a new index, moved, or changed by the inspector.
LEMMA PlaceKeeps ==
  ASSUME EditorInv, NEW q \in Qubits, NEW two \in BOOLEAN, NEW from \in Columns, PlaceGate(q, two, from)
  PROVE  EditorInv'
<1>0. circuit \in GoodCircuits /\ circuit.qubits \in 1 .. MaxQubits /\ Ids(circuit) \subseteq Indices
  BY GoodElim DEF EditorInv
<1> DEFINE gate(col) == [qubit |-> Aimed(q, two).qubit, control |-> Aimed(q, two).control,
                         two |-> two, column |-> col]
<1>1. PICK id \in Indices, col \in Columns :
             /\ IsNew(id)
             /\ IsNextFree(col, gate(col), from, Gates(circuit, Ids(circuit)))
             /\ Edit([circuit EXCEPT !.gates = With(id, gate(col))])
  BY DEF PlaceGate
<1>2. /\ q < circuit.qubits /\ (two => circuit.qubits >= 2)
      /\ selected' = selected
  BY DEF PlaceGate
<1> DEFINE g == gate(col)
<1>3. /\ g \in Gate /\ InRange(g, circuit.qubits)
      /\ g.two <=> g.qubit # g.control
  BY <1>0, <1>2, EditorAssumption DEF Aimed, Gate, InRange, Qubits
<1>4. \A i \in Ids(circuit) : ~Overlap(g, circuit.gates[i])
  <2>1. [g EXCEPT !.column = col] = g
    OBVIOUS
  <2>2. \A h \in Gates(circuit, Ids(circuit)) : ~Overlap(g, h)
    BY <1>1, <2>1 DEF IsNextFree, Free
  <2> QED
    BY <2>2 DEF Gates
<1>5. Edit([circuit EXCEPT !.gates = With(id, g)])
  BY <1>1
<1> HIDE DEF g, gate
<1> DEFINE c == [gates |-> With(id, g), qubits |-> circuit.qubits]
<1>6. c \in GoodCircuits
  BY <1>0, <1>3, <1>4, OneGate DEF With
<1>7. Edit(c) /\ Ids(circuit) \subseteq Ids(c)
  BY <1>0, <1>5, SameQubits DEF Ids, With
<1> QED
  BY <1>2, <1>6, <1>7, EditKeepsHistory DEF EditorInv

\* In place of the gate at id, next is clear of the other gates.
LEMMA ReplaceKeeps ==
  ASSUME EditorInv, NEW id \in Ids(circuit), NEW next \in Gate, InRange(next, circuit.qubits),
         next.two <=> next.qubit # next.control,
         \A h \in Others(id) : ~Overlap(next, h),
         Edit([circuit EXCEPT !.gates[id] = next]), selected' = selected
  PROVE  EditorInv'
<1>0. circuit \in GoodCircuits /\ Ids(circuit) \subseteq Indices /\ circuit.gates \in [Ids(circuit) -> Gate]
  BY GoodElim DEF EditorInv
<1>1. \A i \in Ids(circuit) \ {id} : ~Overlap(next, circuit.gates[i])
  BY DEF Others, Gates
<1> DEFINE f == [i \in Ids(circuit) \cup {id} |-> IF i = id THEN next ELSE circuit.gates[i]]
           c == [gates |-> f, qubits |-> circuit.qubits]
<1>2. c \in GoodCircuits
  BY <1>0, <1>1, OneGate
<1>3. [circuit.gates EXCEPT ![id] = next] = f
  BY <1>0
<1>4. [circuit EXCEPT !.gates[id] = next] = [circuit EXCEPT !.gates = [circuit.gates EXCEPT ![id] = next]]
  OBVIOUS
<1>5. Ids(c) = Ids(circuit)
  BY DEF Ids
<1> HIDE DEF f
<1>6. Edit(c)
  BY <1>0, <1>3, <1>4, SameQubits
<1> QED
  BY <1>2, <1>5, <1>6, EditKeepsHistory DEF EditorInv

LEMMA GateUpdate ==
  ASSUME NEW g \in Gate, NEW a, NEW b, NEW d
  PROVE  [g EXCEPT !.qubit = a, !.control = b, !.column = d]
           = [qubit |-> a, control |-> b, two |-> g.two, column |-> d]
<1> DEFINE h == [g EXCEPT !.qubit = a, !.control = b, !.column = d]
<1>1. h \in [qubit : {a}, control : {b}, two : {g.two}, column : {d}]
  BY DEF Gate
<1> HIDE DEF h
<1>2. h = [qubit |-> h.qubit, control |-> h.control, two |-> h.two, column |-> h.column]
  BY <1>1
<1>3. h.qubit = a /\ h.control = b /\ h.two = g.two /\ h.column = d
  BY <1>1
<1>4. h = [qubit |-> a, control |-> b, two |-> g.two, column |-> d]
  BY <1>2, <1>3
<1> QED
  BY <1>4 DEF h

LEMMA MoveKeeps ==
  ASSUME EditorInv, NEW id \in Ids(circuit), NEW q \in Qubits, NEW col \in Columns, MoveGate(id, q, col)
  PROVE  EditorInv'
<1> DEFINE g == circuit.gates[id]
           next == [g EXCEPT !.qubit = q, !.control = @ + (q - g.qubit), !.column = col]
<1>0. circuit \in GoodCircuits /\ circuit.qubits \in 1 .. MaxQubits
  BY GoodElim DEF EditorInv
<1>1. g \in Gate /\ (g.two <=> g.qubit # g.control)
  BY <1>0, GoodElim DEF WellPlaced
<1>2. /\ InRange(next, circuit.qubits) /\ Free(next, col, Others(id))
      /\ Edit([circuit EXCEPT !.gates[id] = next]) /\ selected' = selected
  BY DEF MoveGate
<1> HIDE DEF g
<1>3. next = [qubit |-> q, control |-> g.control + (q - g.qubit), two |-> g.two, column |-> col]
  BY <1>1, GateUpdate
<1> HIDE DEF next
<1>4. next \in Gate
  BY <1>0, <1>1, <1>2, <1>3, EditorAssumption, SMTT(30) DEF Gate, InRange, Qubits
<1>5. next.two <=> next.qubit # next.control
  BY <1>1, <1>3, EditorAssumption DEF Gate, Qubits
<1>6. \A h \in Others(id) : ~Overlap(next, h)
  <2>1. [next EXCEPT !.column = col] = next
    BY <1>3
  <2> QED
    BY <1>2, <2>1 DEF Free
<1> QED
  BY <1>2, <1>4, <1>5, <1>6, ReplaceKeeps

LEMMA UpdateKeeps ==
  ASSUME EditorInv, NEW id \in Ids(circuit), NEW q \in Qubits, NEW ctl \in Qubits, UpdateGate(id, q, ctl)
  PROVE  EditorInv'
<1> DEFINE g == circuit.gates[id]
           moved == [g EXCEPT !.qubit = q, !.control = IF g.two THEN ctl ELSE q]
<1>0. circuit \in GoodCircuits
  BY DEF EditorInv
<1>1. g \in Gate
  BY <1>0, GoodElim
<1>2. PICK col \in Columns :
         /\ IsNextFree(col, moved, g.column, Others(id))
         /\ Edit([circuit EXCEPT !.gates[id] = [moved EXCEPT !.column = col]])
  BY DEF UpdateGate
<1>3. /\ g.two => ctl # q
      /\ InRange(moved, circuit.qubits) /\ selected' = selected
  BY DEF UpdateGate
<1> HIDE DEF g
<1> DEFINE next == [moved EXCEPT !.column = col]
<1>4. /\ next.qubit = q /\ next.control = (IF g.two THEN ctl ELSE q) /\ next.two = g.two
      /\ next.qubit = moved.qubit /\ next.control = moved.control
      /\ next \in Gate
  BY <1>1 DEF Gate
<1>5. \A h \in Others(id) : ~Overlap(next, h)
  BY <1>2 DEF IsNextFree, Free
<1>6. Edit([circuit EXCEPT !.gates[id] = next])
  BY <1>2
<1> HIDE DEF next, moved
<1>7. InRange(next, circuit.qubits) /\ (next.two <=> next.qubit # next.control)
  BY <1>1, <1>3, <1>4 DEF InRange, Gate
<1> QED
  BY <1>3, <1>4, <1>5, <1>6, <1>7, ReplaceKeeps

-----------------------------------------------------------------------------
(* Several gates packed one after the other                                *)

LEMMA DuplicateKeeps ==
  ASSUME EditorInv, DuplicateSelected
  PROVE  EditorInv'
<1>0. circuit \in GoodCircuits /\ circuit.qubits \in 1 .. MaxQubits /\ Ids(circuit) \subseteq Indices
      /\ selected \subseteq Ids(circuit) /\ circuit.gates \in [Ids(circuit) -> Gate]
  BY GoodElim DEF EditorInv
<1> DEFINE copies(col) == [i \in selected |-> [circuit.gates[i] EXCEPT !.column = col[i]]]
<1>1. PICK at \in [selected -> Indices], col \in [selected -> Columns] :
        LET copy(i) == [circuit.gates[i] EXCEPT !.column = col[i]]
            added == {at[i] : i \in selected}
        IN /\ \A i \in selected :
                /\ IsNextFree(col[i], circuit.gates[i], circuit.gates[i].column + 1,
                              Gates(circuit, Ids(circuit)) \cup {copy(j) : j \in PackedBefore(i, selected)})
                /\ IsLast(at[i])
                /\ \A j \in selected : j < i => at[j] < at[i]
           /\ \A j \in Indices : IsLast(j) /\ (\E i \in selected : j < at[i]) => j \in added
           /\ Edit([circuit EXCEPT !.gates =
                     [n \in Ids(circuit) \cup added |->
                        IF n \in Ids(circuit) THEN circuit.gates[n] ELSE copy(CHOOSE i \in selected : at[i] = n)]])
           /\ selected' = added
  BY DEF DuplicateSelected
<1> DEFINE copy(i) == [circuit.gates[i] EXCEPT !.column = col[i]]
           added == {at[i] : i \in selected}
           orig(n) == CHOOSE i \in selected : at[i] = n
           S == Ids(circuit) \cup added
           f == [n \in S |-> IF n \in Ids(circuit) THEN circuit.gates[n] ELSE copy(orig(n))]
           c == [gates |-> f, qubits |-> circuit.qubits]
<1>2. ASSUME NEW i \in selected
      PROVE  /\ copy(i) \in Gate /\ InRange(copy(i), circuit.qubits)
             /\ copy(i).two <=> copy(i).qubit # copy(i).control
  <2>1. circuit.gates[i] \in Gate /\ InRange(circuit.gates[i], circuit.qubits)
        /\ (circuit.gates[i].two <=> circuit.gates[i].qubit # circuit.gates[i].control)
    BY <1>0, GoodElim DEF WellPlaced
  <2>2. col[i] \in Columns
    OBVIOUS
  <2> QED
    BY <2>1, <2>2 DEF Gate, InRange
<1>3. ASSUME NEW i \in selected
      PROVE  /\ \A n \in Ids(circuit) : ~Overlap(copy(i), circuit.gates[n])
             /\ \A j \in selected : j < i => ~Overlap(copy(i), copy(j))
  <2>1. Free(circuit.gates[i], col[i],
             Gates(circuit, Ids(circuit)) \cup {copy(j) : j \in PackedBefore(i, selected)})
    BY <1>1 DEF IsNextFree
  <2> QED
    BY <2>1 DEF Free, Gates, PackedBefore
<1>4. ASSUME NEW i \in selected, NEW j \in selected, i # j PROVE ~Overlap(copy(i), copy(j))
  <2>1. i \in Nat /\ j \in Nat
    BY <1>0 DEF Indices
  <2>2. i < j \/ j < i
    BY <2>1, <1>4
  <2> HIDE DEF copy
  <2> QED
    BY <1>3, <2>2, OverlapSymmetric
<1>5. \A n \in added : orig(n) \in selected /\ at[orig(n)] = n
  OBVIOUS
<1>6. Edit([circuit EXCEPT !.gates = f]) /\ selected' = added
  BY <1>1
<1>7. S \in SUBSET Indices
  BY <1>0
<1> HIDE DEF copy, orig
<1>8. \A n \in S : \/ n \in Ids(circuit) /\ f[n] = circuit.gates[n]
                   \/ n \notin Ids(circuit) /\ n \in added /\ f[n] = copy(orig(n))
  OBVIOUS
<1>9. f \in [S -> Gate]
  BY <1>0, <1>2, <1>5
<1> HIDE DEF f
<1>10. \A n \in S : InRange(f[n], circuit.qubits) /\ (f[n].two <=> f[n].qubit # f[n].control)
  BY <1>0, <1>2, <1>5, <1>8, GoodElim DEF WellPlaced
<1>11. ASSUME NEW m \in S, NEW n \in S, m # n PROVE ~Overlap(f[m], f[n])
  <2>1. CASE m \in Ids(circuit) /\ n \in Ids(circuit)
    BY <1>0, <1>8, <1>11, <2>1, GoodElim DEF WellPlaced
  <2>2. CASE m \in Ids(circuit) /\ n \notin Ids(circuit)
    BY <1>3, <1>5, <1>8, <2>2, OverlapSymmetric
  <2>3. CASE m \notin Ids(circuit) /\ n \in Ids(circuit)
    BY <1>3, <1>5, <1>8, <2>3
  <2>4. CASE m \notin Ids(circuit) /\ n \notin Ids(circuit)
    <3>1. /\ orig(m) \in selected /\ orig(n) \in selected
          /\ at[orig(m)] = m /\ at[orig(n)] = n
          /\ f[m] = copy(orig(m)) /\ f[n] = copy(orig(n))
      BY <1>5, <1>8, <2>4
    <3>2. orig(m) # orig(n)
      BY <1>11, <3>1
    <3> QED
      BY <1>4, <3>1, <3>2
  <2> QED
    BY <2>1, <2>2, <2>3, <2>4
<1>12. c \in GoodCircuits
  BY <1>0, <1>7, <1>9, <1>10, <1>11, GoodIntro
<1>13. Ids(c) = S
  BY <1>9 DEF Ids
<1>14. Edit(c)
  BY <1>0, <1>6, SameQubits
<1> QED
  BY <1>6, <1>12, <1>13, <1>14, EditKeepsHistory

LEMMA LoadKeeps ==
  ASSUME EditorInv, NEW s \in Specs, LoadFromSpec(s)
  PROVE  EditorInv'
<1> DEFINE S == {i \in DOMAIN s.gates : Fits(s.gates[i], s.qubits)}
<1>0. /\ s.qubits \in 1 .. MaxQubits /\ S \in SUBSET Indices
      /\ \A i \in S : s.gates[i].two \in BOOLEAN
  <2>1. s.qubits \in 1 .. MaxQubits /\ s.gates \in Seq(WhiteboardGate) /\ Len(s.gates) <= MaxGates
    BY EditorAssumption
  <2>2. \A i \in DOMAIN s.gates : i \in Indices /\ s.gates[i] \in WhiteboardGate
    BY <2>1, EditorAssumption DEF Indices
  <2> QED
    BY <2>1, <2>2 DEF WhiteboardGate
<1>1. PICK col \in [S -> Columns] :
        LET g(i) == Loaded(s.gates[i], col[i])
        IN /\ \A i \in DOMAIN col : IsNextFree(col[i], g(i), 0, {g(j) : j \in PackedBefore(i, DOMAIN col)})
           /\ Edit([qubits |-> s.qubits, gates |-> [i \in DOMAIN col |-> g(i)]])
           /\ selected' = {}
  BY DEF LoadFromSpec
<1> DEFINE g(i) == Loaded(s.gates[i], col[i])
           f == [i \in S |-> g(i)]
<1> HIDE DEF S
<1>2. DOMAIN col = S
  OBVIOUS
<1>3. /\ \A i \in S : IsNextFree(col[i], g(i), 0, {g(j) : j \in PackedBefore(i, S)})
      /\ Edit([qubits |-> s.qubits, gates |-> f])
      /\ selected' = {}
  BY <1>1, <1>2
<1>4. ASSUME NEW i \in S
      PROVE  /\ g(i) \in Gate /\ InRange(g(i), s.qubits)
             /\ g(i).two <=> g(i).qubit # g(i).control
             /\ [g(i) EXCEPT !.column = col[i]] = g(i)
  <2> DEFINE w == s.gates[i]
  <2>1. Fits(w, s.qubits) /\ w.two \in BOOLEAN /\ col[i] \in Columns
    BY <1>0 DEF S
  <2>2. ~w.two => Control(w) = Target(w)
    BY DEF Control
  <2> HIDE DEF w
  <2>3. Target(w) \in Qubits /\ Control(w) \in Qubits
    BY <1>0, <2>1, EditorAssumption DEF Fits, Qubits
  <2>4. g(i) = [qubit |-> Target(w), control |-> Control(w), two |-> w.two, column |-> col[i]]
    BY DEF Loaded, w
  <2> HIDE DEF g
  <2>5. g(i) \in Gate
    BY <2>1, <2>3, <2>4 DEF Gate
  <2>6. [g(i) EXCEPT !.column = col[i]] = g(i)
    BY <2>4
  <2> QED
    BY <2>1, <2>2, <2>4, <2>5, <2>6 DEF Fits, InRange
<1>5. ASSUME NEW i \in S, NEW j \in S, j < i PROVE ~Overlap(g(i), g(j))
  <2>1. Free(g(i), col[i], {g(k) : k \in PackedBefore(i, S)})
    BY <1>3 DEF IsNextFree
  <2>2. g(j) \in {g(k) : k \in PackedBefore(i, S)}
    BY <1>5 DEF PackedBefore
  <2> HIDE DEF g
  <2> QED
    BY <1>4, <2>1, <2>2 DEF Free
<1>6. ASSUME NEW i \in S, NEW j \in S, i # j PROVE ~Overlap(f[i], f[j])
  <2>1. i < j \/ j < i
    BY <1>0, <1>6 DEF Indices
  <2>2. f[i] = g(i) /\ f[j] = g(j)
    OBVIOUS
  <2> HIDE DEF f, g
  <2> QED
    BY <1>5, <2>1, <2>2, OverlapSymmetric
<1>7. f \in [S -> Gate] /\ \A i \in S : InRange(f[i], s.qubits) /\ (f[i].two <=> f[i].qubit # f[i].control)
  BY <1>4
<1> HIDE DEF f, g
<1>8. [gates |-> f, qubits |-> s.qubits] \in GoodCircuits
  BY <1>0, <1>6, <1>7, GoodIntro
<1>9. [gates |-> f, qubits |-> s.qubits] = [qubits |-> s.qubits, gates |-> f]
  OBVIOUS
<1> QED
  BY <1>3, <1>8, <1>9, EditKeepsHistory

-----------------------------------------------------------------------------
LEMMA EditorInit == Init => EditorInv
<1> SUFFICES ASSUME Init PROVE EditorInv
  OBVIOUS
<1>1. circuit \in GoodCircuits
  BY NoGatesGood, EditorAssumption DEF Init
<1> QED
  BY <1>1 DEF Init, EditorInv

LEMMA EditorStep == EditorInv /\ [Next]_vars => EditorInv'
<1> SUFFICES ASSUME EditorInv, [Next]_vars PROVE EditorInv'
  OBVIOUS
<1>1. CASE Undo \/ Redo
  BY <1>1, UndoKeeps, RedoKeeps
<1>2. CASE AddQubit \/ DuplicateSelected \/ RemoveSelected \/ ClearCircuit \/ Reset
  BY <1>2, AddQubitKeeps, DuplicateKeeps, RemoveSelectedKeeps, ClearKeeps
<1>3. CASE \E q \in Qubits : RemoveQubit(q)
  BY <1>3, RemoveQubitKeeps
<1>4. CASE \E n \in 1 .. MaxQubits : SetQubitCount(n)
  BY <1>4, SetQubitCountKeeps
<1>5. CASE \E q \in Qubits, two \in BOOLEAN, from \in Columns : PlaceGate(q, two, from)
  BY <1>5, PlaceKeeps
<1>6. CASE \E id \in Ids(circuit), q \in Qubits, col \in Columns : MoveGate(id, q, col)
  BY <1>6, MoveKeeps
<1>7. CASE \E id \in Ids(circuit), q, c \in Qubits : UpdateGate(id, q, c)
  BY <1>7, UpdateKeeps
<1>8. CASE \E S \in SUBSET Ids(circuit) : Select(S)
  BY <1>8 DEF Select, EditorInv
<1>9. CASE \E s \in Specs : LoadFromSpec(s)
  BY <1>9, LoadKeeps
<1>10. CASE UNCHANGED vars
  BY <1>10 DEF vars, EditorInv
<1> QED
  BY <1>1, <1>2, <1>3, <1>4, <1>5, <1>6, <1>7, <1>8, <1>9, <1>10 DEF Next

\* Every circuit of the editor and of its history has the declared type, and
\* the selection only holds gates of the circuit.
THEOREM EditorTypeCorrect == Spec => []TypeOK
<1>1. EditorInv => TypeOK
  BY DEF EditorInv, TypeOK, GoodCircuits
<1> QED
  BY EditorInit, EditorStep, <1>1, PTL DEF Spec

\* Overlapping gates or a gate outside the circuit are never shown, and never
\* waiting in the history either.
THEOREM EditorWellPlaced == Spec => []CircuitsWellPlaced
<1>1. EditorInv => CircuitsWellPlaced
  BY DEF EditorInv, CircuitsWellPlaced, GoodCircuits
<1> QED
  BY EditorInit, EditorStep, <1>1, PTL DEF Spec

-----------------------------------------------------------------------------
(* The history leads back                                                  *)

LEMMA EditorInvariant == Spec => []EditorInv
  BY EditorInit, EditorStep, PTL DEF Spec

\* Every step is an edit, a move along the history, a reset, or leaves the circuit.
LEMMA StepKinds ==
  ASSUME [Next]_vars
  PROVE  \/ Undo \/ Redo \/ Reset
         \/ \E c : Edit(c)
         \/ UNCHANGED <<circuit, past, future>>
<1>1. CASE AddQubit \/ DuplicateSelected \/ RemoveSelected \/ ClearCircuit
  BY <1>1 DEF AddQubit, DuplicateSelected, RemoveSelected, ClearCircuit
<1>2. CASE \E q \in Qubits : RemoveQubit(q)
  BY <1>2 DEF RemoveQubit
<1>3. CASE \E n \in 1 .. MaxQubits : SetQubitCount(n)
  BY <1>3 DEF SetQubitCount
<1>4. CASE \E q \in Qubits, two \in BOOLEAN, from \in Columns : PlaceGate(q, two, from)
  BY <1>4 DEF PlaceGate
<1>5. CASE \E id \in Ids(circuit), q \in Qubits, col \in Columns : MoveGate(id, q, col)
  BY <1>5 DEF MoveGate
<1>6. CASE \E id \in Ids(circuit), q, c \in Qubits : UpdateGate(id, q, c)
  BY <1>6 DEF UpdateGate
<1>7. CASE \E S \in SUBSET Ids(circuit) : Select(S)
  BY <1>7 DEF Select
<1>8. CASE \E s \in Specs : LoadFromSpec(s)
  BY <1>8 DEF LoadFromSpec
<1>9. CASE UNCHANGED vars
  BY <1>9 DEF vars
<1> QED
  BY <1>1, <1>2, <1>3, <1>4, <1>5, <1>6, <1>7, <1>8, <1>9 DEF Next

\* What an edit or redo puts on the stack of undo ...
LEMMA PushedOnPast ==
  ASSUME NEW h \in Seq(Circuit), NEW c \in Circuit
  PROVE  LET p == Latest(Append(h, c))
         IN /\ p # <<>> /\ p[Len(p)] = c
            /\ Len(p) <= Len(h) + 1 /\ (Len(h) <= HistoryLimit => Len(p) <= HistoryLimit)
<1> DEFINE a == Append(h, c)
<1>1. /\ a \in Seq(Circuit) /\ Len(a) = Len(h) + 1 /\ a[Len(h) + 1] = c
      /\ Len(h) \in Nat /\ HistoryLimit \in Nat \ {0}
  BY AppendProperties, LenProperties, EditorAssumption
<1> HIDE DEF a
<1>2. a # <<>>
  BY <1>1, EmptySeq
<1>3. CASE Len(a) > HistoryLimit
  <2>1. /\ Len(Tail(a)) = Len(h) /\ Tail(a) \in Seq(Circuit)
        /\ \A i \in 1 .. Len(h) : Tail(a)[i] = a[i + 1]
    BY <1>1, <1>2, HeadTailProperties
  <2>2. Len(h) \in 1 .. Len(h)
    BY <1>1, <1>3
  <2>3. Tail(a)[Len(h)] = c /\ Tail(a) # <<>>
    BY <1>1, <2>1, <2>2, EmptySeq
  <2>4. Latest(a) = Tail(a)
    BY <1>3 DEF Latest
  <2> QED
    BY <1>1, <2>1, <2>3, <2>4 DEF a
<1>4. CASE ~(Len(a) > HistoryLimit)
  <2>1. Latest(a) = a
    BY <1>4 DEF Latest
  <2> QED
    BY <1>1, <1>2, <1>4, <2>1 DEF a
<1> QED
  BY <1>3, <1>4

\* ... and undo on that of redo.
LEMMA PushedOnFuture ==
  ASSUME NEW h \in Seq(Circuit), NEW c \in Circuit
  PROVE  LET f == Earliest(<<c>> \o h)
         IN f # <<>> /\ Head(f) = c /\ Len(f) <= Len(h) + 1
<1> DEFINE e == <<c>> \o h
<1>1. /\ e \in Seq(Circuit) /\ Len(e) = Len(h) + 1 /\ e[1] = c
      /\ Len(h) \in Nat /\ HistoryLimit \in Nat \ {0}
  <2>1. <<c>> \in Seq(Circuit) /\ Len(<<c>>) = 1 /\ <<c>>[1] = c
    OBVIOUS
  <2> QED
    BY <2>1, ConcatProperties, LenProperties, EditorAssumption
<1> HIDE DEF e
<1>2. CASE Len(e) > HistoryLimit
  <2> DEFINE f == SubSeq(e, 1, HistoryLimit)
  <2>1. \A i \in 1 .. HistoryLimit : e[i] \in Circuit
    BY <1>1, <1>2, ElementOfSeq
  <2>2. f \in Seq(Circuit) /\ Len(f) = HistoryLimit /\ f[1] = e[1]
    BY <1>1, <2>1, SubSeqProperties
  <2>3. Earliest(e) = f
    BY <1>2 DEF Earliest
  <2> HIDE DEF f
  <2>4. f # <<>> /\ Head(f) = c
    BY <1>1, <2>2, EmptySeq
  <2> QED
    BY <1>1, <1>2, <2>2, <2>3, <2>4 DEF e
<1>3. CASE ~(Len(e) > HistoryLimit)
  <2>1. Earliest(e) = e
    BY <1>3 DEF Earliest
  <2>2. e # <<>> /\ Head(e) = c
    BY <1>1, EmptySeq
  <2> QED
    BY <1>1, <2>1, <2>2 DEF e
<1> QED
  BY <1>2, <1>3

\* Moving along the history never drops an end of it, so redo takes back what
\* undo did also at the limit.
THEOREM EditorHistoryBounded == Spec => []HistoryBounded
<1>1. Init => HistoryBounded
  BY EditorAssumption DEF Init, HistoryBounded
<1>2. EditorInv /\ HistoryBounded /\ [Next]_vars => HistoryBounded'
  <2> SUFFICES ASSUME EditorInv, HistoryBounded, [Next]_vars PROVE HistoryBounded'
    OBVIOUS
  <2>1. /\ circuit \in Circuit /\ past \in Seq(Circuit) /\ future \in Seq(Circuit)
        /\ Len(past) \in Nat /\ Len(future) \in Nat /\ HistoryLimit \in Nat
    BY EditorAssumption DEF EditorInv, GoodCircuits
  <2>2. Len(past) <= HistoryLimit
    BY <2>1 DEF HistoryBounded
  <2>3. EditorInv'
    BY EditorStep
  <2>4. Len(past') \in Nat /\ Len(future') \in Nat
    BY <2>3 DEF EditorInv
  <2>5. CASE \E c : Edit(c)
    <3>1. past' = Latest(Append(past, circuit)) /\ future' = <<>>
      BY <2>5 DEF Edit
    <3>2. Len(past') <= HistoryLimit
      BY <2>1, <2>2, <3>1, PushedOnPast
    <3>3. Len(future') = 0
      BY <3>1
    <3> QED
      BY <2>1, <2>4, <3>2, <3>3 DEF HistoryBounded
  <2>6. CASE Undo
    <3>1. Len(past') = Len(past) - 1
      <4> DEFINE n == Len(past) - 1
      <4>1. n \in Nat /\ \A i \in 1 .. n : past[i] \in Circuit
        BY <2>1, <2>6, ElementOfSeq, EmptySeq DEF Undo
      <4>2. past' = SubSeq(past, 1, n)
        BY <2>6 DEF Undo
      <4> HIDE DEF n
      <4>3. Len(SubSeq(past, 1, n)) = IF 1 <= n THEN n - 1 + 1 ELSE 0
        <5>1. 1 \in Int /\ n \in Int
          BY <4>1
        <5> QED
          BY <4>1, <5>1, SubSeqProperties
      <4>4. Len(SubSeq(past, 1, n)) = n
        BY <4>1, <4>3
      <4> QED
        BY <4>2, <4>4 DEF n
    <3>2. Len(future') <= Len(future) + 1
      BY <2>1, <2>6, PushedOnFuture DEF Undo
    <3> QED
      BY <2>1, <2>4, <3>1, <3>2 DEF HistoryBounded
  <2>7. CASE Redo
    <3>1. Len(past') <= Len(past) + 1
      BY <2>1, <2>7, PushedOnPast DEF Redo
    <3>2. Len(future') = Len(future) - 1
      BY <2>1, <2>7, HeadTailProperties DEF Redo
    <3> QED
      BY <2>1, <2>4, <3>1, <3>2 DEF HistoryBounded
  <2>8. CASE Reset
    BY <2>8, EditorAssumption DEF Reset, HistoryBounded
  <2>9. CASE UNCHANGED <<circuit, past, future>>
    BY <2>9 DEF HistoryBounded
  <2> QED
    BY StepKinds, <2>5, <2>6, <2>7, <2>8, <2>9
<1> QED
  BY <1>1, <1>2, EditorInvariant, PTL DEF Spec

\* Whatever changed the circuit, one undo (or redo, after an undo) leads back
\* to exactly what was there; only reset forgets.
THEOREM EditorUndoes == Spec => EveryEditIsUndoable
<1>1. ASSUME EditorInv, [Next]_vars, circuit' # circuit
      PROVE  \/ past' # <<>> /\ past'[Len(past')] = circuit
             \/ future' # <<>> /\ Head(future') = circuit
             \/ past' = <<>> /\ future' = <<>> /\ Ids(circuit') = {}
  <2>1. circuit \in Circuit /\ past \in Seq(Circuit) /\ future \in Seq(Circuit)
    BY <1>1 DEF EditorInv, GoodCircuits
  <2>2. CASE Redo \/ \E c : Edit(c)
    <3>1. past' = Latest(Append(past, circuit))
      BY <2>2 DEF Redo, Edit
    <3> QED
      BY <2>1, <3>1, PushedOnPast
  <2>3. CASE Undo
    BY <2>1, <2>3, PushedOnFuture DEF Undo
  <2>4. CASE Reset
    <3>1. circuit' = [gates |-> NoGates, qubits |-> circuit.qubits]
      BY <1>1, <2>4, SameQubits DEF Reset, EditorInv
    <3> QED
      BY <2>4, <3>1 DEF Reset, Ids, NoGates
  <2> QED
    BY <1>1, StepKinds, <2>2, <2>3, <2>4
<1>2. EditorInv /\ [Next]_vars =>
        [circuit' # circuit =>
           \/ past' # <<>> /\ past'[Len(past')] = circuit
           \/ future' # <<>> /\ Head(future') = circuit
           \/ past' = <<>> /\ future' = <<>> /\ Ids(circuit') = {}]_vars
  BY <1>1
<1> QED
  BY <1>2, EditorInvariant, PTL DEF Spec, EveryEditIsUndoable

-----------------------------------------------------------------------------
(* The page around the editor                                              *)

\* The preview is computed with what the drop will use: a drag of this window
\* carries its own card or the armed one, and while it is over the canvas
\* neither the circuit nor the armed gate changes.
LabInv ==
  /\ armed \in Kinds \cup {"none"} /\ dragging \in Kinds \cup {"none"}
  /\ over = NoDrag => preview = NoPreview
  /\ over # NoDrag =>
       /\ over.gate \in Kinds \cup {"none"} /\ over.row \in Aims /\ over.column \in Columns
       /\ dragging # "none" => over.gate = dragging
       /\ preview.column \in Columns
       /\ over.gate \in {"none", dragging} =>
            preview = IF Dropped = "none" THEN NoPreview ELSE Resolve(Dropped, over.row, over.column)

\* The column past the last one is free, so the search ends.
LEMMA FreeColumnIsFree ==
  ASSUME EditorInv, NEW rows, NEW from \in Columns
  PROVE  /\ FreeColumn(rows, from) \in from .. MaxColumns
         /\ \A q \in rows : ~Occupied(q, FreeColumn(rows, from))
<1> DEFINE S == {col \in from .. MaxColumns : \A q \in rows : ~Occupied(q, col)}
           First(col) == /\ \A q \in rows : ~Occupied(q, col)
                         /\ \A earlier \in from .. col - 1 : \E q \in rows : Occupied(q, earlier)
<1>1. MaxColumns \in Nat /\ from \in 0 .. MaxColumns - 1
  BY EditorAssumption DEF Columns
<1>2. ASSUME NEW q PROVE ~Occupied(q, MaxColumns)
  <2>1. \A i \in Ids(circuit) : circuit.gates[i].column \in Columns
    BY GoodElim DEF EditorInv, Gate
  <2> QED BY <1>1, <2>1 DEF Occupied, Covers, Columns
<1>3. S \in SUBSET Nat /\ MaxColumns \in S
  BY <1>1, <1>2
<1>4. PICK m \in S : \A n \in S : m <= n
  BY <1>3, LeastNumber
<1>5. m \in from .. MaxColumns /\ First(m)
  BY <1>1, <1>4
<1>6. FreeColumn(rows, from) \in from .. MaxColumns /\ First(FreeColumn(rows, from))
  BY <1>5 DEF FreeColumn
<1> QED BY <1>6

\* The upper row of a gate of this kind aimed at q.
Top(kind, q) == IF kind = "one" \/ q <= circuit.qubits - 2 THEN q ELSE circuit.qubits - 2

LEMMA TopRow ==
  ASSUME EditorInv, NEW kind \in Kinds, NEW q \in Int, Inside(kind, q)
  PROVE  /\ Top(kind, q) \in Qubits /\ Top(kind, q) < circuit.qubits /\ (kind = "two" => circuit.qubits >= 2)
         /\ (CHOOSE top \in RowsFor(kind, q) : \A r \in RowsFor(kind, q) : top <= r) = Top(kind, q)
         /\ RowsFor(kind, q) = {Aimed(Top(kind, q), kind = "two").qubit, Aimed(Top(kind, q), kind = "two").control}
<1> DEFINE t == Top(kind, q)
           R == RowsFor(kind, q)
<1>1. circuit.qubits \in 1 .. MaxQubits /\ MaxQubits \in Nat
  BY GoodElim, EditorAssumption DEF EditorInv
<1>2. t \in Int /\ t \in Qubits /\ t < circuit.qubits /\ (kind = "two" => circuit.qubits >= 2)
  BY <1>1 DEF Inside, Top, Qubits, Kinds
<1>3. R = IF kind = "one" THEN {t} ELSE {t, t + 1}
  <2>1. CASE kind = "one" \/ q <= circuit.qubits - 2
    BY <2>1 DEF RowsFor, Top
  <2>2. CASE kind # "one" /\ ~(q <= circuit.qubits - 2)
    <3>1. t = circuit.qubits - 2 /\ t + 1 = circuit.qubits - 1
      BY <1>1, <2>2 DEF Top
    <3>2. R = {circuit.qubits - 2, circuit.qubits - 1}
      BY <2>2 DEF RowsFor
    <3> HIDE DEF R, t
    <3> QED BY <2>2, <3>1, <3>2
  <2> QED BY <2>1, <2>2
<1>4. \A x \in R : (\A r \in R : x <= r) <=> x = t
  BY <1>2, <1>3
<1>5. t \in R
  BY <1>3
<1>6. (CHOOSE top \in R : \A r \in R : top <= r) = t
  <2> HIDE DEF R, t
  <2> DEFINE c == CHOOSE top \in R : \A r \in R : top <= r
  <2>1. \A r \in R : t <= r
    BY <1>4, <1>5
  <2>2. c \in R /\ \A r \in R : c <= r
    BY <1>5, <2>1, Zenon
  <2> QED BY <1>4, <2>2
<1>7. R = {Aimed(t, kind = "two").qubit, Aimed(t, kind = "two").control}
  <2>1. CASE kind = "one"
    BY <1>3, <2>1 DEF Aimed
  <2>2. CASE kind = "two"
    <3>1. t <= circuit.qubits - 2
      BY <1>1, <2>2 DEF Top, Inside
    <3> QED BY <1>2, <1>3, <2>2, <3>1 DEF Aimed
  <2> QED BY <2>1, <2>2 DEF Kinds
<1> QED BY <1>2, <1>6, <1>7

\* A gate is placed from the column on that the preview would show.
LEMMA PlaceTarget ==
  ASSUME EditorInv, NEW kind \in Kinds, NEW q \in Int, NEW col \in Columns, Place(kind, q, col), ~UNCHANGED vars
  PROVE  /\ Inside(kind, q)
         /\ PlaceGate(Top(kind, q), kind = "two", FreeColumn(RowsFor(kind, q), col))
         /\ FreeColumn(RowsFor(kind, q), col) \in Columns
<1>1. Inside(kind, q) /\ PlaceGate(CHOOSE top \in RowsFor(kind, q) : \A r \in RowsFor(kind, q) : top <= r,
                                    kind = "two", FreeColumn(RowsFor(kind, q), col))
  BY DEF Place, Resolve
<1>2. PlaceGate(Top(kind, q), kind = "two", FreeColumn(RowsFor(kind, q), col))
  BY <1>1, TopRow
<1>3. FreeColumn(RowsFor(kind, q), col) \in col .. MaxColumns
  BY FreeColumnIsFree
<1>4. \E c \in Columns : c >= FreeColumn(RowsFor(kind, q), col)
  BY <1>2 DEF PlaceGate, IsNextFree
<1> QED BY <1>1, <1>2, <1>3, <1>4, EditorAssumption DEF Columns

LEMMA MoveToMoves ==
  ASSUME NEW id, NEW q, NEW col, MoveTo(id, q, col)
  PROVE  MoveGate(id, q, col) \/ UNCHANGED vars
  BY DEF MoveTo

LEMMA MovesInside ==
  ASSUME EditorInv, NEW id \in Ids(circuit), NEW q, NEW col, MoveGate(id, q, col)
  PROVE  q \in Qubits
<1>1. circuit.gates[id] \in Gate /\ circuit.qubits \in 1 .. MaxQubits /\ MaxQubits \in Nat
  BY GoodElim, EditorAssumption DEF EditorInv
<1> DEFINE next == [circuit.gates[id] EXCEPT !.qubit = q, !.control = @ + (q - circuit.gates[id].qubit), !.column = col]
<1>2. InRange(next, circuit.qubits)
  BY DEF MoveGate
<1>3. next.qubit = q
  BY <1>1 DEF Gate
<1>4. q \in 0 .. circuit.qubits - 1
  BY <1>2, <1>3 DEF InRange
<1> QED BY <1>1, <1>4 DEF Qubits

\* What the page asks of the store is one of its edits, or nothing.
LEMMA PlaceIsStep ==
  ASSUME EditorInv, NEW kind \in Kinds, NEW q \in Int, NEW col \in Columns, Place(kind, q, col)
  PROVE  [Next]_vars
<1>1. CASE ~UNCHANGED vars
  <2>1. PlaceGate(Top(kind, q), kind = "two", FreeColumn(RowsFor(kind, q), col))
        /\ FreeColumn(RowsFor(kind, q), col) \in Columns /\ Inside(kind, q)
    BY <1>1, PlaceTarget
  <2>2. Top(kind, q) \in Qubits /\ (kind = "two") \in BOOLEAN
    BY <2>1, TopRow
  <2> QED BY <2>1, <2>2 DEF Next
<1> QED BY <1>1

LEMMA ArrowIsStep ==
  ASSUME EditorInv, NEW d \in {<<-1, 0>>, <<1, 0>>, <<0, -1>>, <<0, 1>>}, ArrowKey(d[1], d[2])
  PROVE  [Next]_vars
<1>1. PICK id \in selected :
        LET col == circuit.gates[id].column + d[2]
        IN col < MaxColumns /\ MoveTo(id, circuit.gates[id].qubit + d[1], IF col < 0 THEN 0 ELSE col)
  BY DEF ArrowKey
<1> DEFINE q == circuit.gates[id].qubit + d[1]
           col == IF circuit.gates[id].column + d[2] < 0 THEN 0 ELSE circuit.gates[id].column + d[2]
<1>2. id \in Ids(circuit) /\ circuit.gates[id].column \in Columns
  BY GoodElim DEF EditorInv, Gate
<1>3. d[2] \in Int
  OBVIOUS
<1>4. col \in Columns /\ MoveTo(id, q, col)
  BY <1>1, <1>2, <1>3, EditorAssumption DEF Columns
<1> HIDE DEF q, col
<1>5. MoveGate(id, q, col) \/ UNCHANGED vars
  BY <1>4, MoveToMoves
<1>6. MoveGate(id, q, col) => q \in Qubits
  BY <1>2, MovesInside
<1> QED BY <1>2, <1>4, <1>5, <1>6 DEF Next

LEMMA AppendIsStep ==
  ASSUME EditorInv, LabInv, NEW q \in Qubits, AppendToWire(q)
  PROVE  [Next]_vars
<1>1. CASE PlaceGate(q, armed = "two", 0)
  <2>1. \E col \in Columns : TRUE
    BY <1>1 DEF PlaceGate
  <2>2. 0 \in Columns /\ (armed = "two") \in BOOLEAN
    BY <2>1, EditorAssumption DEF Columns
  <2> QED BY <1>1, <2>2 DEF Next
<1> QED BY <1>1 DEF AppendToWire

LEMMA LabStepIsEditorStep ==
  ASSUME EditorInv, LabInv, [LabNext]_labVars
  PROVE  [Next]_vars
<1>1. CASE DragEnd \/ DragLeave \/ CancelPlacement \/ (\E kind \in Kinds : DragCard(kind) \/ ClickCard(kind) \/ ArmKey(kind))
  BY <1>1 DEF DragEnd, DragLeave, CancelPlacement, DragCard, ClickCard, ArmKey, Arm, vars
<1>2. CASE \E gate \in Kinds \cup {"none"}, q \in Aims, col \in Columns : q <= circuit.qubits /\ DragOver(gate, q, col)
  BY <1>2 DEF DragOver, vars
<1>3. CASE Drop
  <2>1. CASE Dropped = "none"
    BY <1>3, <2>1 DEF Drop
  <2>2. CASE Dropped # "none"
    <3>1. Dropped \in Kinds /\ over.row \in Aims /\ over.column \in Columns
          /\ Place(Dropped, over.row, over.column)
      BY <1>3, <2>2 DEF Drop, Dropped, LabInv
    <3>2. over.row \in Int
      BY <3>1, EditorAssumption DEF Aims
    <3> QED BY <3>1, <3>2, PlaceIsStep
  <2> QED BY <2>1, <2>2
<1>4. CASE \E q \in Qubits, col \in Columns : ClickCell(q, col)
  <2>1. PICK q \in Qubits, col \in Columns : ClickCell(q, col)
    BY <1>4
  <2>2. armed \in Kinds /\ Place(armed, q, col) /\ q \in Int
    BY <2>1, EditorAssumption DEF ClickCell, LabInv, Qubits
  <2> QED BY <2>2, PlaceIsStep
<1>5. CASE \E q \in Qubits : AppendToWire(q)
  BY <1>5, AppendIsStep
<1>6. CASE EscapeKey \/ (\E S \in SUBSET Ids(circuit) : SelectOnCanvas(S))
  <2>1. {} \in SUBSET Ids(circuit)
    OBVIOUS
  <2>2. \E S \in SUBSET Ids(circuit) : Select(S)
    BY <1>6, <2>1 DEF EscapeKey, SelectOnCanvas
  <2> QED BY <2>2 DEF Next
<1>7. CASE UndoKey \/ RedoKey \/ DuplicateButton \/ DeleteKey \/ AddQubitButton \/ ClearButton
  BY <1>7 DEF UndoKey, RedoKey, DuplicateButton, DeleteKey, AddQubitButton, ClearButton, Next
<1>8. CASE \E n \in 1 .. MaxQubits : QubitMenu(n)
  BY <1>8 DEF QubitMenu, Next
<1>9. CASE \E id \in Ids(circuit), q \in Qubits, col \in Columns : DragGate(id, q, col)
  <2>1. PICK id \in Ids(circuit), q \in Qubits, col \in Columns : MoveTo(id, q, col)
    BY <1>9 DEF DragGate
  <2>2. MoveGate(id, q, col) \/ UNCHANGED vars
    BY <2>1, MoveToMoves
  <2> QED BY <2>2 DEF Next
<1>10. CASE \E d \in {<<-1, 0>>, <<1, 0>>, <<0, -1>>, <<0, 1>>} : ArrowKey(d[1], d[2])
  BY <1>10, ArrowIsStep
<1>11. CASE \E q, c \in Qubits : ChooseQubits(q, c)
  <2>1. PICK q \in Qubits, c \in Qubits : \E id \in selected : UpdateGate(id, q, c)
    BY <1>11 DEF ChooseQubits
  <2>2. selected \subseteq Ids(circuit)
    BY DEF EditorInv
  <2> QED BY <2>1, <2>2 DEF Next
<1>12. CASE UNCHANGED labVars
  BY <1>12 DEF labVars
<1> QED
  BY <1>1, <1>2, <1>3, <1>4, <1>5, <1>6, <1>7, <1>8, <1>9, <1>10, <1>11, <1>12 DEF LabNext

LEMMA NoDragKeeps ==
  ASSUME over' = NoDrag, preview' = NoPreview, armed' \in Kinds \cup {"none"}, dragging' \in Kinds \cup {"none"}
  PROVE  LabInv'
  BY DEF LabInv

LEMMA DragOverKeeps ==
  ASSUME LabInv, NEW gate \in Kinds \cup {"none"}, NEW q \in Aims, NEW col \in Columns, DragOver(gate, q, col)
  PROVE  LabInv'
<1> DEFINE kind == IF dragging # "none" THEN dragging ELSE armed
<1>1. /\ IF dragging # "none" THEN gate = dragging ELSE over.gate \in {"nothing", gate}
      /\ over' = [gate |-> gate, row |-> q, column |-> col]
      /\ preview' = IF kind = "none" THEN preview ELSE Resolve(kind, q, col)
      /\ preview'.column \in Columns
      /\ circuit' = circuit /\ armed' = armed /\ dragging' = dragging
  BY DEF DragOver, vars
<1>2. over' # NoDrag /\ over'.gate = gate /\ over'.row = q /\ over'.column = col
  BY <1>1 DEF NoDrag, Kinds
<1>3. armed \in Kinds \cup {"none"} /\ dragging \in Kinds \cup {"none"}
  BY DEF LabInv
<1>4. Dropped' = IF gate \in Kinds THEN gate ELSE armed
  BY <1>1, <1>2 DEF Dropped
<1>5. ASSUME gate \in {"none", dragging} PROVE Dropped' = kind
  BY <1>1, <1>3, <1>4, <1>5 DEF Kinds
<1>6. ASSUME gate \in {"none", dragging}, kind = "none" PROVE preview = NoPreview
  <2>1. dragging = "none" /\ armed = "none" /\ gate = "none"
    BY <1>3, <1>6 DEF Kinds
  <2>2. CASE over = NoDrag
    BY <2>2 DEF LabInv
  <2>3. CASE over # NoDrag
    <3>1. over.gate = "none"
      BY <1>1, <2>1, <2>3 DEF LabInv, Kinds
    <3>2. Dropped = "none"
      BY <2>1, <3>1 DEF Dropped, Kinds
    <3> QED BY <2>3, <3>1, <3>2 DEF LabInv
  <2> QED BY <2>2, <2>3
<1>7. ASSUME gate \in {"none", dragging}
      PROVE  preview' = IF Dropped' = "none" THEN NoPreview ELSE Resolve(Dropped, over.row, over.column)'
  <2>1. CASE kind = "none"
    BY <1>1, <1>5, <1>6, <1>7, <2>1
  <2>2. CASE kind # "none"
    <3>1. preview' = Resolve(Dropped', over'.row, over'.column)
      BY <1>1, <1>2, <1>5, <1>7, <2>2
    <3>2. Resolve(Dropped, over.row, over.column)' = Resolve(Dropped', over'.row, over'.column)
      BY <1>1 DEF Resolve, Inside, RowsFor, FreeColumn, Occupied
    <3> QED BY <1>5, <1>7, <2>2, <3>1, <3>2
  <2> QED BY <2>1, <2>2
<1> QED BY <1>1, <1>2, <1>3, <1>7 DEF LabInv

LEMMA LabStep ==
  ASSUME LabInv, [LabNext]_labVars
  PROVE  LabInv'
<1>0. /\ armed \in Kinds \cup {"none"} /\ dragging \in Kinds \cup {"none"}
      /\ over = NoDrag => preview = NoPreview
  BY DEF LabInv
<1>1. CASE \E gate \in Kinds \cup {"none"}, q \in Aims, col \in Columns : q <= circuit.qubits /\ DragOver(gate, q, col)
  BY <1>1, DragOverKeeps
<1>2. CASE DragEnd \/ DragLeave \/ Drop
  BY <1>0, <1>2, NoDragKeeps DEF DragEnd, DragLeave, Drop
<1>3. CASE CancelPlacement \/ (\E kind \in Kinds : DragCard(kind) \/ ClickCard(kind) \/ ArmKey(kind))
  BY <1>0, <1>3, NoDragKeeps DEF CancelPlacement, DragCard, ClickCard, ArmKey, Arm, Idle
<1>4. CASE (\E q \in Qubits, col \in Columns : ClickCell(q, col)) \/ (\E q \in Qubits : AppendToWire(q))
  BY <1>0, <1>4, NoDragKeeps DEF ClickCell, AppendToWire, Idle
<1>5. CASE Idle /\ Still
  BY <1>0, <1>5, NoDragKeeps DEF Idle, Still
<1>6. CASE UNCHANGED labVars
  <2>1. UNCHANGED <<circuit, armed, dragging, over, preview>>
    BY <1>6 DEF labVars, vars, lab
  <2>2. Dropped' = Dropped
    BY <2>1 DEF Dropped
  <2>3. Resolve(Dropped, over.row, over.column)' = Resolve(Dropped, over.row, over.column)
    BY <2>1, <2>2 DEF Resolve, Inside, RowsFor, FreeColumn, Occupied
  <2> QED BY <2>1, <2>2, <2>3 DEF LabInv
<1>7. LabNext => \/ Idle /\ Still
                 \/ DragEnd \/ DragLeave \/ Drop \/ CancelPlacement
                 \/ \E kind \in Kinds : DragCard(kind) \/ ClickCard(kind) \/ ArmKey(kind)
                 \/ \E gate \in Kinds \cup {"none"}, q \in Aims, col \in Columns : q <= circuit.qubits /\ DragOver(gate, q, col)
                 \/ \E q \in Qubits, col \in Columns : ClickCell(q, col)
                 \/ \E q \in Qubits : AppendToWire(q)
  BY DEF LabNext, EscapeKey, SelectOnCanvas, UndoKey, RedoKey, DuplicateButton, DeleteKey, AddQubitButton,
         ClearButton, QubitMenu, DragGate, ArrowKey, ChooseQubits
<1> QED BY <1>1, <1>2, <1>3, <1>4, <1>5, <1>6, <1>7

LEMMA LabInvariant == LabSpec => [](EditorInv /\ LabInv)
<1>1. LabInit => EditorInv /\ LabInv
  BY EditorInit DEF LabInit, LabInv
<1>2. EditorInv /\ LabInv /\ [LabNext]_labVars => EditorInv' /\ LabInv'
  BY LabStepIsEditorStep, EditorStep, LabStep
<1> QED BY <1>1, <1>2, PTL DEF LabSpec

\* Every click, key and drag of the page is an edit of the store or none, so all
\* that is proved of the editor holds on the page (CircuitCanvas.tsx:65-340).
THEOREM LabImplementsEditor == LabSpec => Spec
<1>1. LabInit => Init
  BY DEF LabInit
<1>2. EditorInv /\ LabInv /\ [LabNext]_labVars => [Next]_vars
  BY LabStepIsEditorStep
<1> QED BY <1>1, <1>2, LabInvariant, PTL DEF LabSpec, Spec

\* No preview outlives its drag, and what the canvas previews of a drag of this
\* window is what its drop would do now (CircuitCanvas.tsx:83-102).
THEOREM PreviewStaysLive == LabSpec => []PreviewIsLive
<1>1. LabInv => PreviewIsLive
  BY DEF LabInv, PreviewIsLive
<1> QED BY <1>1, LabInvariant, PTL

\* A gate placed from a column on that is free of others lands in that column.
LEMMA PlacedThere ==
  ASSUME EditorInv, NEW q \in Qubits, NEW two \in BOOLEAN, NEW from \in Columns, PlaceGate(q, two, from),
         NEW rows, rows = {Aimed(q, two).qubit, Aimed(q, two).control},
         \A r \in rows : ~Occupied(r, from),
         NEW id \in Ids(circuit') \ Ids(circuit)
  PROVE  /\ circuit'.gates[id].column = from
         /\ {circuit'.gates[id].qubit, circuit'.gates[id].control} = rows
<1> DEFINE gate(col) == [qubit |-> Aimed(q, two).qubit, control |-> Aimed(q, two).control,
                         two |-> two, column |-> col]
<1>1. PICK new \in Indices, col \in Columns :
             /\ IsNew(new)
             /\ IsNextFree(col, gate(col), from, Gates(circuit, Ids(circuit)))
             /\ Edit([circuit EXCEPT !.gates = With(new, gate(col))])
  BY DEF PlaceGate
<1>2. circuit \in GoodCircuits /\ circuit.qubits \in 1 .. MaxQubits /\ MaxQubits \in Nat
      /\ q < circuit.qubits /\ (two => circuit.qubits >= 2)
  BY GoodElim, EditorAssumption DEF EditorInv, PlaceGate
<1>3. Rows([gate(col) EXCEPT !.column = from]) = rows
  <2> DEFINE a == Aimed(q, two)
  <2>1. a.qubit \in Qubits /\ a.control \in Qubits /\ a.qubit \in {a.control, a.control + 1}
    BY <1>2 DEF Aimed, Qubits
  <2>2. [gate(col) EXCEPT !.column = from].qubit = a.qubit /\ [gate(col) EXCEPT !.column = from].control = a.control
    OBVIOUS
  <2>3. Rows([gate(col) EXCEPT !.column = from])
          = {r \in Qubits : (a.qubit <= r /\ r <= a.control) \/ (a.control <= r /\ r <= a.qubit)}
    BY <2>2 DEF Rows
  <2> HIDE DEF a, gate
  <2>4. \A r \in Qubits : (a.qubit <= r /\ r <= a.control) \/ (a.control <= r /\ r <= a.qubit)
                            <=> r = a.qubit \/ r = a.control
    BY <2>1, EditorAssumption DEF Qubits
  <2>5. rows = {a.qubit, a.control}
    BY DEF a
  <2> QED BY <2>1, <2>3, <2>4, <2>5
<1>4. Free(gate(col), from, Gates(circuit, Ids(circuit)))
  <2>1. [gate(col) EXCEPT !.column = from].column = from
    OBVIOUS
  <2>2. \A i \in Ids(circuit) : from = circuit.gates[i].column => rows \cap Rows(circuit.gates[i]) = {}
    BY DEF Occupied, Covers
  <2> HIDE DEF gate
  <2> QED BY <1>3, <2>1, <2>2 DEF Free, Gates, Overlap
<1>5. col = from
  BY <1>1, <1>4 DEF IsNextFree, Columns, Free
<1>6. circuit' = [circuit EXCEPT !.gates = With(new, gate(col))]
  BY <1>1 DEF Edit
<1>7. circuit'.gates = With(new, gate(col))
  BY <1>2, <1>6 DEF GoodCircuits, Circuit
<1>8. id = new /\ circuit'.gates[id] = gate(col)
  BY <1>7 DEF Ids, With
<1> QED BY <1>5, <1>8

\* Where a gate lands is computed for the preview and again for the drop, from a
\* store that may have changed: yet the drop fills the cells that were previewed,
\* and none when the preview was invalid (CircuitCanvas.tsx:252-268).
THEOREM DropsLandWherePreviewed == LabSpec => DropLandsWherePreviewed
<1>1. ASSUME EditorInv, LabInv, [LabNext]_labVars, NEW id \in Ids(circuit') \ Ids(circuit),
             over # NoDrag, over.gate \in {"none", dragging}
      PROVE  /\ preview.valid
             /\ circuit'.gates[id].column = preview.column
             /\ {circuit'.gates[id].qubit, circuit'.gates[id].control} = preview.rows
  <2> DEFINE col == FreeColumn(RowsFor(Dropped, over.row), over.column)
  <2>1. circuit' # circuit
    BY <1>1
  <2>2. Drop
    BY <1>1, <2>1
       DEF LabNext, labVars, vars, Idle, DragEnd, DragLeave, DragOver, CancelPlacement, EscapeKey, SelectOnCanvas,
           UndoKey, RedoKey, DuplicateButton, DeleteKey, AddQubitButton, ClearButton, QubitMenu,
           DragCard, ClickCard, ArmKey, Arm, ClickCell, AppendToWire, DragGate, ArrowKey, ChooseQubits
  <2>3. Dropped \in Kinds /\ over.row \in Int /\ over.column \in Columns /\ Place(Dropped, over.row, over.column)
    <3>1. Dropped # "none"
      BY <2>1, <2>2 DEF Drop, vars
    <3>2. armed \in Kinds \cup {"none"} /\ over.row \in Aims /\ over.column \in Columns
      BY <1>1 DEF LabInv
    <3> QED BY <2>2, <3>1, <3>2, EditorAssumption DEF Drop, Dropped, Aims
  <2>4. ~UNCHANGED vars
    BY <2>1 DEF vars
  <2>5. Inside(Dropped, over.row) /\ PlaceGate(Top(Dropped, over.row), Dropped = "two", col) /\ col \in Columns
    BY <1>1, <2>3, <2>4, PlaceTarget
  <2>6. preview = [rows |-> RowsFor(Dropped, over.row), column |-> col, valid |-> TRUE]
    <3>1. Dropped # "none"
      BY <2>3 DEF Kinds
    <3> QED BY <1>1, <2>5, <3>1 DEF LabInv, Resolve
  <2>7. \A r \in RowsFor(Dropped, over.row) : ~Occupied(r, col)
    BY <1>1, <2>3, FreeColumnIsFree
  <2>8. /\ Top(Dropped, over.row) \in Qubits /\ (Dropped = "two") \in BOOLEAN
        /\ RowsFor(Dropped, over.row)
             = {Aimed(Top(Dropped, over.row), Dropped = "two").qubit, Aimed(Top(Dropped, over.row), Dropped = "two").control}
    BY <1>1, <2>3, <2>5, TopRow
  <2> DEFINE t == Top(Dropped, over.row)
             two == Dropped = "two"
             rows == RowsFor(Dropped, over.row)
  <2>9. preview.valid /\ preview.column = col /\ preview.rows = rows
    BY <2>6
  <2> HIDE DEF col, t, two, rows
  <2>10. circuit'.gates[id].column = col /\ {circuit'.gates[id].qubit, circuit'.gates[id].control} = rows
    <3>1. t \in Qubits /\ two \in BOOLEAN /\ col \in Columns /\ PlaceGate(t, two, col)
          /\ rows = {Aimed(t, two).qubit, Aimed(t, two).control} /\ \A r \in rows : ~Occupied(r, col)
      BY <2>5, <2>7, <2>8 DEF t, two, rows
    <3> QED BY <1>1, <3>1, PlacedThere
  <2> QED BY <2>9, <2>10
<1>2. ASSUME EditorInv, LabInv, [LabNext]_labVars
      PROVE  [\A id \in Ids(circuit') \ Ids(circuit) :
                over # NoDrag /\ over.gate \in {"none", dragging} =>
                  /\ preview.valid
                  /\ circuit'.gates[id].column = preview.column
                  /\ {circuit'.gates[id].qubit, circuit'.gates[id].control} = preview.rows]_labVars
  BY <1>1, <1>2
<1> QED BY <1>2, LabInvariant, PTL DEF LabSpec, DropLandsWherePreviewed

-----------------------------------------------------------------------------
(* What leaves the editor                                                  *)

TypedGate == [type : Types, qubit : Qubits, control : Qubits, two : BOOLEAN, column : Columns]
\* A circuit of the editor with the types of its gates: a measurement has one
\* qubit, an RYY two.
Exportable(c) ==
  /\ Ids(c) \subseteq Indices /\ c.gates \in [Ids(c) -> TypedGate] /\ c.qubits \in 1 .. MaxQubits
  /\ WellPlaced(c)
  /\ \A i \in Ids(c) : /\ c.gates[i].type = "M" => ~c.gates[i].two
                       /\ c.gates[i].type = "RYY" => c.gates[i].two
\* A gate of a specification that fits the diagram.
DiagramGate == {g \in [targets : Seq(Qubits), control : Qubits \cup {-1}, two : BOOLEAN] : g.targets # <<>>}

LEMMA FirstGate ==
  ASSUME NEW S \in SUBSET TypedGate, S # {}
  PROVE  \E x \in S : \A y \in S : ~Earlier(y, x)
<1>1. \A g \in S : g.column \in Nat /\ g.qubit \in Nat
  BY EditorAssumption DEF TypedGate, Columns, Qubits
<1> DEFINE C == {g.column : g \in S}
<1>2. C \in SUBSET Nat /\ C # {}
  BY <1>1
<1>3. PICK col \in C : \A n \in C : col <= n
  BY <1>2, LeastNumber
<1> DEFINE T == {g \in S : g.column = col}
           R == {g.qubit : g \in T}
<1>4. T # {}
  BY <1>3
<1>5. R \in SUBSET Nat /\ R # {}
  BY <1>1, <1>4
<1>6. PICK least \in R : \A n \in R : least <= n
  BY <1>5, LeastNumber
<1>7. PICK x \in T : x.qubit = least
  BY <1>6
<1>8. ASSUME NEW y \in S PROVE ~Earlier(y, x)
  <2>1. col <= y.column /\ x.column = col
    BY <1>3, <1>7
  <2>2. y.column = col => least <= y.qubit
    BY <1>6
  <2>3. col \in Nat /\ least \in Nat
    BY <1>2, <1>5
  <2> HIDE DEF C, R, T
  <2> QED BY <1>1, <1>7, <2>1, <2>2, <2>3 DEF Earlier
<1> QED BY <1>7, <1>8

InOrder(S, s) ==
  /\ s \in [1 .. Cardinality(S) -> S]
  /\ \A m, n \in 1 .. Cardinality(S) : m # n => s[m] # s[n]
  /\ \A m, n \in 1 .. Cardinality(S) : m < n => ~Earlier(s[n], s[m])

LEMMA OrderExtends ==
  ASSUME NEW S \in SUBSET TypedGate, IsFiniteSet(S), NEW x \in S, \A y \in S : ~Earlier(y, x),
         NEW t, InOrder(S \ {x}, t)
  PROVE  \E s : InOrder(S, s)
<1> DEFINE T == S \ {x}
           k == Cardinality(S)
           s == [i \in 1 .. k |-> IF i = 1 THEN x ELSE t[i - 1]]
<1>1. k \in Nat /\ Cardinality(T) = k - 1 /\ Cardinality(T) \in Nat
  BY FS_CardinalityType, FS_RemoveElement, FS_Subset
<1>2. t \in [1 .. k - 1 -> T]
  BY <1>1 DEF InOrder
<1>3. \A i \in 1 .. k : (i = 1 => s[i] = x) /\ (i # 1 => i - 1 \in 1 .. k - 1 /\ s[i] = t[i - 1] /\ s[i] \in T)
  BY <1>1, <1>2
<1>4. s \in [1 .. k -> S]
  BY <1>1, <1>2
<1>5. /\ \A m, n \in 1 .. k - 1 : m # n => t[m] # t[n]
      /\ \A m, n \in 1 .. k - 1 : m < n => ~Earlier(t[n], t[m])
  BY <1>1 DEF InOrder
<1> HIDE DEF s, k, T
<1>6. ASSUME NEW m \in 1 .. k, NEW n \in 1 .. k, m # n PROVE s[m] # s[n]
  <2>1. CASE m = 1 \/ n = 1
    BY <1>3, <1>6, <2>1 DEF T
  <2>2. CASE m # 1 /\ n # 1
    <3>1. m - 1 \in 1 .. k - 1 /\ n - 1 \in 1 .. k - 1 /\ m - 1 # n - 1
      BY <1>1, <1>6, <2>2
    <3> QED BY <1>3, <1>5, <2>2, <3>1
  <2> QED BY <2>1, <2>2
<1>7. ASSUME NEW m \in 1 .. k, NEW n \in 1 .. k, m < n PROVE ~Earlier(s[n], s[m])
  <2>1. n # 1
    BY <1>1, <1>7
  <2>2. CASE m = 1
    <3>1. s[m] = x /\ s[n] \in S
      BY <1>3, <1>4, <2>2
    <3> QED BY <3>1
  <2>3. CASE m # 1
    <3>1. m - 1 \in 1 .. k - 1 /\ n - 1 \in 1 .. k - 1 /\ m - 1 < n - 1
      BY <1>1, <1>7, <2>1, <2>3
    <3>2. s[m] = t[m - 1] /\ s[n] = t[n - 1]
      BY <1>3, <2>1, <2>3
    <3> QED BY <1>5, <3>1, <3>2
  <2> QED BY <2>2, <2>3
<1>8. InOrder(S, s)
  BY <1>4, <1>6, <1>7 DEF InOrder, k
<1> QED BY <1>8

\* Any gates can be put in the order of the grid.
LEMMA OrderExists ==
  ASSUME NEW S \in SUBSET TypedGate, IsFiniteSet(S)
  PROVE  \E s : InOrder(S, s)
<1> DEFINE Bad(X) == IsFiniteSet(X) /\ ~\E s : InOrder(X, s)
           B == {Cardinality(X) : X \in {Y \in SUBSET TypedGate : Bad(Y)}}
<1> SUFFICES ASSUME Bad(S) PROVE FALSE
  OBVIOUS
<1>1. B \in SUBSET Nat /\ B # {}
  BY FS_CardinalityType
<1>2. PICK k \in B : \A n \in B : k <= n
  BY <1>1, LeastNumber
<1>3. PICK X \in SUBSET TypedGate : Bad(X) /\ Cardinality(X) = k
  BY <1>2
<1>4. X # {}
  <2> SUFFICES ASSUME X = {} PROVE FALSE
    OBVIOUS
  <2> DEFINE s == [i \in {} |-> i]
  <2>1. 1 .. Cardinality(X) = {}
    BY FS_EmptySet
  <2>2. s \in [{} -> X]
    OBVIOUS
  <2> HIDE DEF s
  <2>3. InOrder(X, s)
    BY <2>1, <2>2 DEF InOrder
  <2> QED BY <1>3, <2>3
<1>5. PICK x \in X : \A y \in X : ~Earlier(y, x)
  BY <1>4, FirstGate
<1>6. IsFiniteSet(X \ {x}) /\ Cardinality(X \ {x}) = k - 1 /\ k \in Nat
  BY <1>1, <1>3, FS_RemoveElement
<1>7. X \ {x} \in SUBSET TypedGate
  OBVIOUS
<1>8. ~Bad(X \ {x})
  <2> SUFFICES ASSUME Bad(X \ {x}) PROVE FALSE
    OBVIOUS
  <2>1. Cardinality(X \ {x}) \in B
    BY <1>7
  <2>2. k <= k - 1
    BY <1>2, <1>6, <2>1
  <2> QED BY <1>6, <2>2
<1>9. PICK t : InOrder(X \ {x}, t)
  BY <1>6, <1>8
<1>10. \E s : InOrder(X, s)
  BY <1>3, <1>5, <1>9, OrderExtends
<1> QED BY <1>3, <1>10

LEMMA SortedInOrder ==
  ASSUME NEW c, Exportable(c)
  PROVE  InOrder(Gates(c, Ids(c)), Sorted(c))
<1> DEFINE S == Gates(c, Ids(c))
<1>1. S \in SUBSET TypedGate
  BY DEF Gates, Exportable
<1>2. IsFiniteSet(S)
  <2>1. IsFiniteSet(1 .. MaxGates)
    BY EditorAssumption, FS_Interval
  <2>2. IsFiniteSet(Ids(c))
    <3>1. Ids(c) \subseteq 1 .. MaxGates
      BY DEF Exportable, Indices
    <3> QED BY <2>1, <3>1, FS_Subset
  <2>3. c.gates \in Surjection(Ids(c), S)
    BY DEF Surjection, Gates, Exportable
  <2> QED BY <2>2, <2>3, FS_Surjection
<1>3. \E s : InOrder(S, s)
  BY <1>1, <1>2, OrderExists
<1> HIDE DEF S
<1>4. \A s : InOrder(S, s) <=> s \in SetToSeqs(S) /\ \A m, n \in DOMAIN s : m < n => ~Earlier(s[n], s[m])
  BY DEF InOrder, SetToSeqs
<1> DEFINE P(s) == \A m, n \in DOMAIN s : m < n => ~Earlier(s[n], s[m])
<1>5. Sorted(c) = CHOOSE s \in SetToSeqs(S) : P(s)
  BY DEF Sorted, S
<1>6. \E s \in SetToSeqs(S) : P(s)
  BY <1>3, <1>4
<1> HIDE DEF P
<1>7. Sorted(c) \in SetToSeqs(S) /\ P(Sorted(c))
  BY <1>5, <1>6
<1> QED BY <1>4, <1>7 DEF P, S

LEMMA SpecGateActs ==
  ASSUME NEW g \in TypedGate
  PROVE  Acts(SpecGate(g)) \subseteq Rows(g)
<1>1. g.qubit \in Qubits /\ g.control \in Qubits /\ g.two \in BOOLEAN /\ MaxQubits \in Nat
  BY EditorAssumption DEF TypedGate
<1>2. SpecGate(g).targets = <<g.qubit>> /\ SpecGate(g).control = IF g.two THEN g.control ELSE -1
  BY DEF SpecGate
<1>3. Acts(SpecGate(g)) \subseteq {g.qubit, g.control}
  BY <1>2 DEF Acts
<1>4. g.qubit \in Rows(g) /\ g.control \in Rows(g)
  BY <1>1 DEF Rows, Qubits
<1> QED BY <1>3, <1>4

LEMMA SpecWires ==
  ASSUME Exportable(exported)
  PROVE  SpecKeepsWires
<1> DEFINE s == Sorted(exported)
           spec == CircuitSpec(exported)
           S == Gates(exported, Ids(exported))
<1>1. InOrder(S, s)
  BY SortedInOrder
<1>2. DOMAIN s = 1 .. Cardinality(S) /\ \A n \in DOMAIN s : s[n] \in S
  BY <1>1 DEF InOrder
<1>3. DOMAIN spec = DOMAIN s /\ \A n \in DOMAIN s : spec[n] = SpecGate(s[n])
  BY DEF CircuitSpec
<1>4. \A g \in S : g \in TypedGate
  BY DEF Gates, Exportable
<1>5. \A g, h \in S : g # h => ~Overlap(g, h)
  BY DEF Gates, Exportable, WellPlaced
<1>6. ASSUME NEW m \in DOMAIN s, NEW n \in DOMAIN s, m < n, Acts(spec[m]) \cap Acts(spec[n]) # {}
      PROVE  s[m].column < s[n].column
  <2> DEFINE g == s[m]
             h == s[n]
  <2>1. g \in S /\ h \in S /\ g # h /\ ~Earlier(h, g)
    <3>1. m # n
      BY <1>2, <1>6
    <3> QED BY <1>1, <1>2, <1>6, <3>1 DEF InOrder
  <2>2. Acts(SpecGate(g)) \cap Acts(SpecGate(h)) # {}
    BY <1>3, <1>6
  <2> HIDE DEF g, h, s, spec, S
  <2>3. g \in TypedGate /\ h \in TypedGate
    BY <1>4, <2>1
  <2>4. Rows(g) \cap Rows(h) # {}
    BY <2>2, <2>3, SpecGateActs
  <2>5. g.column # h.column
    BY <1>5, <2>1, <2>4 DEF Overlap
  <2>6. g.column \in Int /\ h.column \in Int /\ ~(h.column < g.column)
    BY <2>1, <2>3, EditorAssumption DEF TypedGate, Columns, Earlier
  <2>7. g.column < h.column
    BY <2>5, <2>6
  <2> QED BY <2>7 DEF g, h
<1> HIDE DEF s, spec
<1>7. \A m, n \in DOMAIN spec : m < n /\ Acts(spec[m]) \cap Acts(spec[n]) # {} => s[m].column < s[n].column
  BY <1>3, <1>6
<1> QED BY <1>7 DEF SpecKeepsWires, spec, s

LEMMA SameProgram ==
  ASSUME NEW g \in TypedGate, g.type = "M" => ~g.two, g.type = "RYY" => g.two
  PROVE  QasmGate(SpecGate(g)) = BackendGate(SpecGate(g))
<1> DEFINE w == SpecGate(g)
<1>1. /\ w.type = g.type /\ w.targets = <<g.qubit>> /\ w.control = IF g.two THEN g.control ELSE -1
      /\ w.targets[Len(w.targets)] = g.qubit /\ Target(w) = g.qubit
  BY DEF SpecGate, Target
<1>2. g.type \in {"M", "RYY", "gate"} /\ g.control \in Nat /\ g.two \in BOOLEAN
  BY EditorAssumption DEF TypedGate, Types, Qubits
<1> HIDE DEF w
<1>3. g.two => w.control = g.control /\ w.control # -1
  BY <1>1, <1>2
<1> SUFFICES QasmGate(w) = BackendGate(w)
  BY DEF w
<1>4. CASE g.type = "M"
  <2>1. w.type = "M" /\ w.type # "RYY" /\ w.type # "gate"
    BY <1>1, <1>4
  <2> DEFINE measured == [n \in DOMAIN w.targets |-> Does("measure", <<w.targets[n]>>)]
  <2>2. QasmGate(w) = measured
    BY <2>1 DEF QasmGate
  <2>3. BackendGate(w) = measured
    BY <2>1 DEF BackendGate
  <2> QED BY <2>2, <2>3
<1>5. CASE g.type = "RYY"
  <2>1. w.type # "M" /\ w.type = "RYY" /\ w.type # "gate"
    BY <1>1, <1>5
  <2>2. w.control # -1
    BY <1>3, <1>5
  <2>3. QasmGate(w) = Decomposed(w.control, Target(w))
    BY <2>1, <2>2 DEF QasmGate
  <2>4. BackendGate(w) = Decomposed(w.control, w.targets[Len(w.targets)])
    BY <2>1, <2>2 DEF BackendGate
  <2> QED BY <1>1, <2>3, <2>4
<1>6. CASE g.type = "gate"
  <2>1. w.type # "M" /\ w.type # "RYY" /\ w.type = "gate"
    BY <1>1, <1>6
  <2>2. QasmGate(w) = <<Does("gate", Operands(w))>>
    BY <2>1 DEF QasmGate
  <2>3. CASE w.control # -1
    BY <2>1, <2>2, <2>3 DEF BackendGate, Operands
  <2>4. CASE w.control = -1
    BY <2>1, <2>2, <2>4 DEF BackendGate, Operands
  <2> QED BY <2>3, <2>4
<1> QED BY <1>2, <1>4, <1>5, <1>6

LEMMA ProgramsAgree ==
  ASSUME Exportable(exported)
  PROVE  MirrorsBackend
<1> DEFINE s == Sorted(exported)
           spec == CircuitSpec(exported)
           S == Gates(exported, Ids(exported))
<1>1. \A n \in DOMAIN s : s[n] \in S
  BY SortedInOrder DEF InOrder
<1>2. \A g \in S : g \in TypedGate /\ (g.type = "M" => ~g.two) /\ (g.type = "RYY" => g.two)
  BY DEF Gates, Exportable
<1>3. DOMAIN spec = DOMAIN s /\ \A n \in DOMAIN s : spec[n] = SpecGate(s[n])
  BY DEF CircuitSpec
<1> HIDE DEF s, spec, S
<1>4. \A n \in DOMAIN spec : QasmGate(spec[n]) = BackendGate(spec[n])
  BY <1>1, <1>2, <1>3, SameProgram
<1>5. [n \in DOMAIN spec |-> QasmGate(spec[n])] = [n \in DOMAIN spec |-> BackendGate(spec[n])]
  BY <1>4, Zenon
<1>6. Qasm(spec) = BackendQasm(spec)
  BY <1>5, Zenon DEF Qasm, BackendQasm
<1> QED BY <1>6 DEF MirrorsBackend, spec

\* The diagram.  Columns are handed out wire by wire, and a wire's next free
\* column never goes back.

LEMMA LeastIs ==
  ASSUME NEW S \in SUBSET Nat, S # {}
  PROVE  Least(S) \in S /\ \A r \in S : Least(S) <= r
  BY LeastNumber DEF Least

LEMMA GreatestIs ==
  ASSUME NEW S \in SUBSET Nat, S # {}, NEW bound \in Nat, \A r \in S : r <= bound
  PROVE  Greatest(S) \in S /\ \A r \in S : r <= Greatest(S)
<1> DEFINE T == {bound - r : r \in S}
<1>1. T \in SUBSET Nat /\ T # {}
  <2>1. \A r \in S : bound - r \in Nat
    OBVIOUS
  <2> QED BY <2>1
<1>2. PICK d \in T : \A e \in T : d <= e
  <2> HIDE DEF T
  <2> QED BY <1>1, LeastNumber
<1>3. PICK q \in S : d = bound - q
  BY <1>2
<1>4. \A r \in S : r <= q
  <2> SUFFICES ASSUME NEW r \in S PROVE r <= q
    OBVIOUS
  <2>1. d <= bound - r
    BY <1>2
  <2> QED BY <1>3, <2>1
<1> QED BY <1>3, <1>4 DEF Greatest

\* A gate is drawn between its wires.
LEMMA DrawnOnSpan ==
  ASSUME NEW g \in DiagramGate
  PROVE  /\ Span(g) \subseteq Qubits /\ Span(g) # {}
         /\ Wires(g) \subseteq Span(g) /\ Drawn(g) \subseteq Span(g)
<1>1. MaxQubits \in Nat /\ Qubits \in SUBSET Nat /\ \A q \in Qubits : q <= MaxQubits
  BY EditorAssumption DEF Qubits
<1>2. /\ g.targets \in Seq(Qubits) /\ 1 \in DOMAIN g.targets /\ g.control \in Qubits \cup {-1}
      /\ \A n \in DOMAIN g.targets : g.targets[n] \in Qubits
  BY DEF DiagramGate
<1>3. Acts(g) \subseteq Qubits /\ Target(g) \in Acts(g) /\ (g.control # -1 => g.control \in Acts(g))
  BY <1>2 DEF Acts, Target
<1>4. Wires(g) = Acts(g) /\ Acts(g) # {}
  BY <1>3 DEF Wires
<1> DEFINE lo == Least(Acts(g))
           hi == Greatest(Acts(g))
<1>5. lo \in Acts(g) /\ hi \in Acts(g) /\ \A q \in Acts(g) : lo <= q /\ q <= hi
  BY <1>1, <1>3, LeastIs, GreatestIs
<1>6. Span(g) = lo .. hi
  BY <1>4 DEF Span
<1> HIDE DEF lo, hi
<1>7. lo \in Qubits /\ hi \in Qubits /\ lo <= hi
  BY <1>3, <1>5
<1>8. lo .. hi \subseteq Qubits /\ lo .. hi # {} /\ Acts(g) \subseteq lo .. hi
  BY <1>1, <1>3, <1>5, <1>7 DEF Qubits
<1>9. Drawn(g) \subseteq lo .. hi
  <2>1. CASE g.control # -1
    <3> DEFINE P == {Target(g), g.control}
    <3>1. P \subseteq Acts(g) /\ P # {} /\ P \in SUBSET Nat /\ \A q \in P : q <= MaxQubits
      BY <1>1, <1>3, <2>1
    <3> HIDE DEF P
    <3>2. Least(P) \in P /\ Greatest(P) \in P
      BY <1>1, <3>1, LeastIs, GreatestIs
    <3>3. Least(P) \in Nat /\ Greatest(P) \in Nat /\ lo <= Least(P) /\ Greatest(P) <= hi
      BY <1>5, <3>1, <3>2
    <3>4. Least(P) .. Greatest(P) \subseteq lo .. hi
      BY <1>1, <1>7, <3>3
    <3>5. Drawn(g) = Acts(g) \cup Least(P) .. Greatest(P)
      BY <2>1 DEF Drawn, P
    <3> QED BY <1>8, <3>4, <3>5
  <2>2. CASE g.control = -1
    BY <2>2 DEF Drawn, lo, hi
  <2> QED BY <2>1, <2>2
<1> QED BY <1>4, <1>6, <1>8, <1>9

\* What one gate makes of the next free columns.
Next1(filled, g) ==
  LET col == Greatest({0} \cup {filled[q] : q \in Span(g)})
  IN [q \in Qubits |-> IF q \in Span(g) THEN col + 1 ELSE filled[q]]
\* f is NextColumns of the first k gates.
Packs(gates, f, k) ==
  f = [n \in 0 .. k |-> IF n = 0 THEN [q \in Qubits |-> 0] ELSE Next1(f[n - 1], gates[n])]

LEMMA PackingExtends ==
  ASSUME NEW gates, NEW k \in Nat, NEW f, Packs(gates, f, k)
  PROVE  \E g : Packs(gates, g, k + 1)
<1> DEFINE g == [n \in 0 .. k + 1 |-> IF n <= k THEN f[n] ELSE Next1(f[k], gates[k + 1])]
<1>1. \A n \in 0 .. k : g[n] = f[n]
  OBVIOUS
<1>2. g[k + 1] = Next1(f[k], gates[k + 1])
  OBVIOUS
<1>3. \A n \in 0 .. k + 1 : g[n] = IF n = 0 THEN [q \in Qubits |-> 0] ELSE Next1(g[n - 1], gates[n])
  <2> SUFFICES ASSUME NEW n \in 0 .. k + 1
               PROVE  g[n] = IF n = 0 THEN [q \in Qubits |-> 0] ELSE Next1(g[n - 1], gates[n])
    OBVIOUS
  <2> HIDE DEF g
  <2>1. CASE n \in 0 .. k
    <3>1. g[n] = f[n] /\ (n # 0 => n - 1 \in 0 .. k /\ g[n - 1] = f[n - 1])
      BY <1>1, <2>1
    <3>2. f[n] = IF n = 0 THEN [q \in Qubits |-> 0] ELSE Next1(f[n - 1], gates[n])
      BY <2>1, Zenon DEF Packs
    <3> QED BY <3>1, <3>2
  <2>2. CASE n = k + 1
    <3>1. g[n - 1] = f[k] /\ n # 0
      BY <1>1, <2>2
    <3> QED BY <1>2, <2>2, <3>1
  <2> QED BY <2>1, <2>2
<1>4. g = [n \in 0 .. k + 1 |-> g[n]]
  OBVIOUS
<1> HIDE DEF g
<1>5. Packs(gates, g, k + 1)
  BY <1>3, <1>4, Zenon DEF Packs
<1> QED BY <1>5

LEMMA PackingExists ==
  ASSUME NEW gates, NEW k \in Nat
  PROVE  \E f : Packs(gates, f, k)
<1> DEFINE B == {n \in Nat : ~\E f : Packs(gates, f, n)}
<1> SUFFICES ASSUME B # {} PROVE FALSE
  OBVIOUS
<1>1. PICK m \in B : \A n \in B : m <= n
  BY LeastNumber
<1>2. CASE m = 0
  <2> DEFINE f == [n \in 0 .. 0 |-> [q \in Qubits |-> 0]]
  <2>1. Packs(gates, f, 0)
    BY DEF Packs
  <2> QED BY <1>2, <2>1
<1>3. CASE m # 0
  <2>1. m - 1 \in Nat /\ m - 1 \notin B
    BY <1>1, <1>3
  <2>2. PICK f : Packs(gates, f, m - 1)
    BY <2>1
  <2>3. \E g : Packs(gates, g, (m - 1) + 1)
    BY <2>1, <2>2, PackingExtends
  <2>4. (m - 1) + 1 = m
    OBVIOUS
  <2> QED BY <2>3, <2>4
<1> QED BY <1>2, <1>3

LEMMA NextColumnsPack ==
  ASSUME NEW gates, Len(gates) \in Nat
  PROVE  Packs(gates, NextColumns(gates), Len(gates))
<1>1. \E f : Packs(gates, f, Len(gates))
  BY PackingExists
<1>2. NextColumns(gates) = CHOOSE f : Packs(gates, f, Len(gates))
  BY DEF NextColumns, Packs, Next1
<1> QED BY <1>1, <1>2

\* The columns of the n-th gate, and which are free below it.
LEMMA PackedRows ==
  ASSUME NEW gates \in Seq(DiagramGate), NEW f, Packs(gates, f, Len(gates))
  PROVE  \A n \in 0 .. Len(gates) : f[n] \in [Qubits -> 0 .. n]
<1> DEFINE B == {n \in 0 .. Len(gates) : f[n] \notin [Qubits -> 0 .. n]}
<1> SUFFICES ASSUME B # {} PROVE FALSE
  OBVIOUS
<1>1. PICK m \in B : \A n \in B : m <= n
  <2>1. B \in SUBSET Nat
    OBVIOUS
  <2> HIDE DEF B
  <2> QED BY <2>1, LeastNumber
<1>2. CASE m = 0
  <2>1. f[0] = [q \in Qubits |-> 0]
    BY DEF Packs
  <2> QED BY <1>1, <1>2, <2>1
<1>3. CASE m # 0
  <2>1. m \in 1 .. Len(gates) /\ m - 1 \in 0 .. Len(gates) /\ m - 1 \in Nat
    BY <1>1, <1>3
  <2>2. f[m - 1] \in [Qubits -> 0 .. m - 1]
    BY <1>1, <2>1
  <2>3. f[m] = Next1(f[m - 1], gates[m])
    BY <1>3, <2>1 DEF Packs
  <2> DEFINE filled == f[m - 1]
             S == {0} \cup {filled[q] : q \in Span(gates[m])}
  <2>4. gates[m] \in DiagramGate
    BY <2>1
  <2>5. S \in SUBSET Nat /\ S # {} /\ \A r \in S : r <= m - 1
    BY <2>1, <2>2, <2>4, DrawnOnSpan
  <2>6. Greatest(S) \in 0 .. m - 1
    <3> HIDE DEF S
    <3>1. Greatest(S) \in S
      BY <2>1, <2>5, GreatestIs
    <3>2. Greatest(S) \in Nat /\ Greatest(S) <= m - 1
      BY <2>5, <3>1
    <3> HIDE DEF B
    <3> QED BY <2>1, <3>2
  <2> DEFINE col == Greatest(S)
  <2>7. f[m] = [q \in Qubits |-> IF q \in Span(gates[m]) THEN col + 1 ELSE filled[q]]
    BY <2>3 DEF Next1
  <2> HIDE DEF col
  <2>8. col + 1 \in 0 .. m /\ \A q \in Qubits : filled[q] \in 0 .. m
    BY <2>1, <2>2, <2>6 DEF col
  <2> HIDE DEF filled
  <2>9. f[m] \in [Qubits -> 0 .. m]
    BY <2>7, <2>8
  <2> QED BY <1>1, <2>9
<1> QED BY <1>2, <1>3

\* The n-th gate comes after all that is on its wires and moves them past it.
LEMMA PackedGate ==
  ASSUME NEW gates \in Seq(DiagramGate), NEW n \in DOMAIN gates
  PROVE  /\ AssignColumns(gates)[n] \in Nat
         /\ \A q \in Qubits : /\ NextColumns(gates)[n - 1][q] \in Nat /\ NextColumns(gates)[n][q] \in Nat
                              /\ NextColumns(gates)[n - 1][q] <= NextColumns(gates)[n][q]
         /\ \A q \in Span(gates[n]) : /\ NextColumns(gates)[n - 1][q] <= AssignColumns(gates)[n]
                                      /\ NextColumns(gates)[n][q] = AssignColumns(gates)[n] + 1
<1> DEFINE f == NextColumns(gates)
           filled == f[n - 1]
           S == {0} \cup {filled[q] : q \in Span(gates[n])}
           col == Greatest(S)
<1>1. Packs(gates, f, Len(gates)) /\ n \in 1 .. Len(gates) /\ gates[n] \in DiagramGate
  BY NextColumnsPack
<1>2. n - 1 \in 0 .. Len(gates) /\ n \in 0 .. Len(gates) /\ n - 1 \in Nat
  BY <1>1
<1>3. f[n - 1] \in [Qubits -> 0 .. n - 1] /\ f[n] \in [Qubits -> 0 .. n]
  BY <1>1, <1>2, PackedRows
<1>4. f[n] = Next1(f[n - 1], gates[n])
  BY <1>1, <1>2 DEF Packs
<1>5. AssignColumns(gates)[n] = col
  BY DEF AssignColumns
<1>6. f[n] = [q \in Qubits |-> IF q \in Span(gates[n]) THEN col + 1 ELSE filled[q]]
  BY <1>4 DEF Next1
<1>7. Span(gates[n]) \subseteq Qubits
  BY <1>1, DrawnOnSpan
<1> HIDE DEF f
<1>8. \A q \in Qubits : filled[q] \in Nat /\ filled[q] <= n - 1 /\ f[n][q] \in Nat
  BY <1>2, <1>3
<1>9. S \in SUBSET Nat /\ S # {} /\ \A r \in S : r <= n - 1
  BY <1>2, <1>7, <1>8
<1>10. \A q \in Span(gates[n]) : filled[q] \in S
  OBVIOUS
<1> HIDE DEF filled, S
<1>11. col \in Nat /\ \A r \in S : r <= col
  BY <1>2, <1>9, GreatestIs
<1> HIDE DEF col
<1>12. \A q \in Span(gates[n]) : filled[q] <= col /\ f[n][q] = col + 1
  BY <1>6, <1>7, <1>10, <1>11
<1>13. \A q \in Qubits \ Span(gates[n]) : f[n][q] = filled[q]
  BY <1>6
<1>14. \A q \in Qubits : filled[q] <= f[n][q]
  BY <1>8, <1>11, <1>12, <1>13
<1> QED BY <1>5, <1>8, <1>11, <1>12, <1>14 DEF f, filled

LEMMA NextNeverGoesBack ==
  ASSUME NEW gates \in Seq(DiagramGate), NEW m \in 0 .. Len(gates), NEW q \in Qubits
  PROVE  \A n \in m .. Len(gates) : NextColumns(gates)[m][q] <= NextColumns(gates)[n][q]
<1> DEFINE next(n) == NextColumns(gates)[n][q]
           B == {n \in m .. Len(gates) : ~(next(m) <= next(n))}
<1>1. \A n \in 1 .. Len(gates) : next(n - 1) \in Nat /\ next(n) \in Nat /\ next(n - 1) <= next(n)
  BY PackedGate
<1>2. \A n \in 0 .. Len(gates) : next(n) \in Nat
  <2>1. \A n \in 0 .. Len(gates) : NextColumns(gates)[n] \in [Qubits -> 0 .. n]
    BY NextColumnsPack, PackedRows
  <2> QED BY <2>1
<1> HIDE DEF next
<1>3. B = {}
  <2> SUFFICES ASSUME B # {} PROVE FALSE
    OBVIOUS
  <2>1. PICK n \in B : \A i \in B : n <= i
    <3>1. B \in SUBSET Nat
      OBVIOUS
    <3> HIDE DEF B
    <3> QED BY <3>1, LeastNumber
  <2>2. n # m
    BY <1>2, <2>1
  <2>3. n \in 1 .. Len(gates) /\ n - 1 \in m .. Len(gates) /\ n - 1 \notin B
    BY <2>1, <2>2
  <2>4. next(m) <= next(n - 1) /\ next(n - 1) <= next(n)
    BY <1>1, <2>3
  <2>5. next(m) \in Nat /\ next(n - 1) \in Nat /\ next(n) \in Nat
    BY <1>1, <1>2, <2>3
  <2> QED BY <2>1, <2>4, <2>5
<1> QED BY <1>3 DEF next

LEMMA DiagramWires ==
  ASSUME diagram \in Seq(DiagramGate)
  PROVE  DiagramKeepsWires
<1> DEFINE col == AssignColumns(diagram)
<1>1. ASSUME NEW m \in DOMAIN diagram, NEW n \in DOMAIN diagram, m < n,
             NEW q \in Span(diagram[m]) \cap Span(diagram[n])
      PROVE  col[m] < col[n]
  <2> DEFINE next(i) == NextColumns(diagram)[i][q]
  <2>1. m \in 0 .. Len(diagram) /\ n - 1 \in m .. Len(diagram) /\ n - 1 \in 0 .. Len(diagram)
    BY <1>1
  <2>2. q \in Qubits
    <3>1. diagram[m] \in DiagramGate
      OBVIOUS
    <3> QED BY <3>1, DrawnOnSpan
  <2>3. col[m] \in Nat /\ col[n] \in Nat /\ next(m) = col[m] + 1 /\ next(n - 1) <= col[n] /\ next(n - 1) \in Nat
    BY <2>2, PackedGate
  <2>4. next(m) <= next(n - 1)
    BY <2>1, <2>2, NextNeverGoesBack
  <2> HIDE DEF next, col
  <2> QED BY <2>3, <2>4
<1>2. \A n \in DOMAIN diagram : col[n] \in Nat
  BY PackedGate
<1> HIDE DEF col
<1>3. ASSUME NEW m \in DOMAIN diagram, NEW n \in DOMAIN diagram, m < n
      PROVE  /\ Drawn(diagram[m]) \cap Drawn(diagram[n]) # {} => col[m] # col[n]
             /\ Wires(diagram[m]) \cap Wires(diagram[n]) # {} => col[m] < col[n]
  <2> DEFINE S == Span(diagram[m]) \cap Span(diagram[n])
  <2>1. /\ Drawn(diagram[m]) \cap Drawn(diagram[n]) # {} => S # {}
        /\ Wires(diagram[m]) \cap Wires(diagram[n]) # {} => S # {}
    <3>1. diagram[m] \in DiagramGate /\ diagram[n] \in DiagramGate
      OBVIOUS
    <3> QED BY <3>1, DrawnOnSpan
  <2>2. S # {} => col[m] < col[n]
    BY <1>1, <1>3
  <2> HIDE DEF S
  <2> QED BY <1>2, <2>1, <2>2
<1> QED BY <1>3 DEF DiagramKeepsWires, col

\* Whatever well-placed circuit leaves the editor and whatever gates a
\* specification lists, the exported program keeps the order of every wire, the
\* browser's program is the backend's, and no gate of the diagram is drawn over
\* another or before one that acts earlier on its qubit (circuit-spec.ts:96-234,
\* CircuitPreview.tsx:45).
THEOREM ExportsAreTheCircuit ==
  ASSUME Exportable(exported), diagram \in Seq(DiagramGate)
  PROVE  ExportIsTheCircuit
  BY SpecWires, ProgramsAgree, DiagramWires DEF ExportIsTheCircuit


-----------------------------------------------------------------------------
(* The tutor                                                               *)

Asked == {"no", "token", "posting", "accepted", "failed"}
Subscribed == {"none", "joining", "joined", "leaving", "closed"}
Answering == {"none", "running", "stored", "failed", "dead"}
Bubble == [text : Seq(Nat), error : BOOLEAN]
Message == [event : {"token", "complete", "failure"}, text : Seq(Nat), error : BOOLEAN]

TutorTypeOK ==
  /\ asked \in [Questions -> Asked]
  /\ bubble \in [Questions -> Bubble]
  /\ subscription \in [Questions -> Subscribed]
  /\ answering \in [Questions -> Answering]
  /\ produced \in [Questions -> 0 .. MaxTokens]
  /\ channel \in [Questions -> Seq(Message)]

\* A message m on the channel of question q.
Honest(q, m) ==
  /\ m.event = "token" => \E j \in 1 .. produced[q] : m.text = <<j>>
  /\ m.event = "complete" => answering[q] = "stored" /\ m.text = Complete(produced[q]).text /\ ~m.error
  /\ m.event = "failure" => answering[q] = "failed"
HonestChannel(q) == \A i \in DOMAIN channel[q] : Honest(q, channel[q][i])

\* What ends an answer is the last message about it.
EndsLast(q) == \A i \in DOMAIN channel[q] : channel[q][i].event # "token" => i = Len(channel[q])

\* A bubble of a channel that was given up.
Accounted(q) ==
  LET b == bubble[q] IN
  \/ b.text = Complete(produced[q]).text /\ answering[q] = "stored" /\ (b.error => asked[q] = "failed")
  \/ /\ b.error /\ b.text # <<>> /\ Head(b.text) = Notice
     /\ asked[q] = "failed" \/ (b.text = <<Notice>> /\ answering[q] = "failed")
  \/ ~b.error /\ answering[q] = "failed"
  \/ ~b.error /\ asked[q] = "failed" /\ b.text # <<>>

\* Behind the stored answer, and behind an end that was heard, nothing comes.
NothingBehind(q) ==
  /\ bubble[q].text = <<StoredText>> => channel[q] = <<>> /\ answering[q] = "stored"
  /\ Shut(q) /\ asked[q] # "failed" => channel[q] = <<>> /\ answering[q] \in {"stored", "failed"}

Sound(q) ==
  /\ asked[q] \in {"no", "token"} => subscription[q] = "none"
  /\ ~Shut(q) => bubble[q].error = FALSE
  /\ asked[q] = "failed" => Shut(q)
  /\ HonestChannel(q)
  /\ EndsLast(q)
  /\ NothingBehind(q)
  /\ Shut(q) => Accounted(q)

IInv == TutorTypeOK /\ (\A q \in Questions : Sound(q)) /\ StreamingHasQuestion

\* The texts that are sent are texts.
LEMMA MessageTypes ==
  /\ \A i \in Nat : Token(i) \in Message /\ Complete(i) \in Message
  /\ \A said \in BOOLEAN : Failure(said) \in Message
  /\ Blank \in Bubble /\ [text |-> <<Notice>>, error |-> TRUE] \in Bubble
BY TutorAssumption DEF Token, Complete, Failure, Blank, Notice, StoredText, Message, Bubble

\* A token behind a text: never the stored answer, and it begins as before.
LEMMA TokenBehind ==
  ASSUME NEW t \in Seq(Nat), NEW j \in 1 .. MaxTokens
  PROVE  /\ t \o <<j>> \in Seq(Nat) /\ t \o <<j>> # <<StoredText>> /\ t \o <<j>> # <<>>
         /\ t # <<>> => Head(t \o <<j>>) = Head(t)
<1> DEFINE u == t \o <<j>>
<1>1. j \in Nat /\ j # StoredText
  BY TutorAssumption DEF StoredText
<1>2. u \in Seq(Nat) /\ Len(u) = Len(t) + 1 /\ u[Len(t) + 1] = j /\ Len(t) \in Nat
  BY <1>1
<1>3. u # <<>>
  BY <1>2
<1>4. u # <<StoredText>>
  <2>1. SUFFICES ASSUME u = <<StoredText>> PROVE FALSE
    OBVIOUS
  <2>2. Len(<<StoredText>>) = 1 /\ <<StoredText>>[1] = StoredText
    OBVIOUS
  <2>3. Len(t) + 1 = 1
    BY <1>2, <2>1, <2>2
  <2> QED BY <1>1, <1>2, <2>1, <2>2, <2>3
<1>5. t # <<>> => Head(u) = Head(t)
  BY <1>1
<1> QED BY <1>2, <1>3, <1>4, <1>5

\* A message that is sent is lost or comes last.
LEMMA Sending ==
  ASSUME NEW q \in Questions, NEW m \in Message, TutorTypeOK, PublishTutor(q, m)
  PROVE  /\ channel' \in [Questions -> Seq(Message)]
         /\ \A p \in Questions \ {q} : channel'[p] = channel[p]
         /\ \A i \in DOMAIN channel'[q] :
              \/ channel'[q][i] = m /\ i = Len(channel'[q])
              \/ i \in DOMAIN channel[q] /\ channel'[q][i] = channel[q][i]
<1>1. PICK lost \in BOOLEAN : channel' = [channel EXCEPT ![q] = IF lost THEN @ ELSE Append(@, m)]
  BY DEF PublishTutor
<1>2. channel[q] \in Seq(Message)
  BY DEF TutorTypeOK
<1>3. CASE lost
  <2>1. channel' = channel
    BY <1>1, <1>3 DEF TutorTypeOK
  <2> QED BY <2>1 DEF TutorTypeOK
<1>4. CASE ~lost
  <2>1. channel' = [channel EXCEPT ![q] = Append(channel[q], m)]
    BY <1>1, <1>4
  <2>2. Append(channel[q], m) \in Seq(Message) /\ channel'[q] = Append(channel[q], m)
    BY <1>2, <2>1 DEF TutorTypeOK
  <2>3. \A i \in DOMAIN Append(channel[q], m) :
          \/ Append(channel[q], m)[i] = m /\ i = Len(Append(channel[q], m))
          \/ i \in DOMAIN channel[q] /\ Append(channel[q], m)[i] = channel[q][i]
    BY <1>2
  <2> QED BY <2>1, <2>2, <2>3 DEF TutorTypeOK
<1> QED BY <1>3, <1>4

\* Nothing has been asked.
LEMMA InitSound == TutorInit => IInv
<1> SUFFICES ASSUME TutorInit PROVE IInv
  OBVIOUS
<1>1. TutorTypeOK
  BY MessageTypes, TutorAssumption DEF TutorInit, TutorTypeOK, Asked, Subscribed, Answering
<1>2. \A q \in Questions : Sound(q)
  <2>1. DOMAIN <<>> = {} /\ <<>> # <<StoredText>>
    OBVIOUS
  <2>2. ASSUME NEW q \in Questions
        PROVE  /\ asked[q] = "no" /\ subscription[q] = "none" /\ channel[q] = <<>>
               /\ bubble[q].error = FALSE /\ bubble[q].text = <<>>
    BY DEF TutorInit, Blank
  <2>3. ASSUME NEW q \in Questions PROVE Sound(q)
    <3>1. ~Shut(q) /\ DOMAIN channel[q] = {} /\ bubble[q].text # <<StoredText>>
      BY <2>1, <2>2 DEF Shut
    <3>2. HonestChannel(q) /\ EndsLast(q) /\ NothingBehind(q)
      BY <3>1 DEF HonestChannel, EndsLast, NothingBehind
    <3> QED BY <2>2, <3>1, <3>2 DEF Sound
  <2> QED BY <2>3
<1>3. StreamingHasQuestion
  BY DEF TutorInit, StreamingHasQuestion
<1> QED BY <1>1, <1>2, <1>3 DEF IInv

\* What question p has does not change in a step of another.
Untouched(p) ==
  /\ asked'[p] = asked[p] /\ bubble'[p] = bubble[p] /\ subscription'[p] = subscription[p]
  /\ answering'[p] = answering[p] /\ produced'[p] = produced[p] /\ channel'[p] = channel[p]

LEMMA UntouchedIsSound ==
  ASSUME NEW p \in Questions, Sound(p), Untouched(p)
  PROVE  Sound(p)'
BY DEF Sound, Untouched, HonestChannel, Honest, EndsLast, NothingBehind, Shut, Accounted

\* A step in the browser, which takes nothing from the channel.
LEMMA BrowserStep ==
  ASSUME NEW q \in Questions, IInv,
         Send(q) \/ HaveToken(q) \/ Joined(q) \/ Posted(q) \/ PostFailed(q) \/ Left(q)
  PROVE  TutorTypeOK' /\ Sound(q)' /\ (\A p \in Questions \ {q} : Untouched(p))
<1> USE DEF IInv
<1>1. Sound(q) /\ TutorTypeOK
  OBVIOUS
<1>2. CASE Send(q)
  BY <1>1, <1>2 DEF Send, TutorTypeOK, Asked, Sound, Untouched, HonestChannel, Honest, EndsLast, NothingBehind, Shut, Accounted
<1>3. CASE HaveToken(q)
  BY <1>1, <1>3 DEF HaveToken, TutorTypeOK, Asked, Subscribed, Sound, Untouched, HonestChannel, Honest, EndsLast,
                    NothingBehind, Shut, Accounted
<1>4. CASE Joined(q)
  BY <1>1, <1>4 DEF Joined, TutorTypeOK, Subscribed, Sound, Untouched, HonestChannel, Honest, EndsLast, NothingBehind, Shut,
                    Accounted
<1>5. CASE Posted(q)
  BY <1>1, <1>5 DEF Posted, TutorTypeOK, Asked, Sound, Untouched, HonestChannel, Honest, EndsLast, NothingBehind, Shut,
                    Accounted
<1>6. CASE Left(q)
  BY <1>1, <1>6 DEF Left, TutorTypeOK, Subscribed, Sound, Untouched, HonestChannel, Honest, EndsLast, NothingBehind, Shut,
                    Accounted
<1>7. CASE PostFailed(q)
  <2> DEFINE now == IF bubble[q].text = <<>> THEN [text |-> <<Notice>>, error |-> TRUE] ELSE bubble[q]
  <2>1. now \in Bubble
    BY <1>1, MessageTypes DEF TutorTypeOK
  <2>2. bubble' = [bubble EXCEPT ![q] = now]
    BY <1>7 DEF PostFailed
  <2>3. bubble'[q] = now /\ bubble' \in [Questions -> Bubble] /\ \A p \in Questions \ {q} : bubble'[p] = bubble[p]
    BY <1>1, <2>1, <2>2 DEF TutorTypeOK
  <2>4. /\ asked[q] = "posting" /\ asked'[q] = "failed" /\ UNCHANGED <<answering, produced, channel>>
        /\ subscription'[q] = Unsubscribed(subscription[q])
        /\ \A p \in Questions \ {q} : asked'[p] = asked[p] /\ subscription'[p] = subscription[p]
        /\ asked' \in [Questions -> Asked] /\ subscription' \in [Questions -> Subscribed]
    BY <1>1, <1>7 DEF PostFailed, TutorTypeOK, Asked, Subscribed, Unsubscribed
  <2>5. /\ bubble[q].text = <<>> => now.error = TRUE /\ now.text = <<Notice>>
        /\ bubble[q].text # <<>> => now = bubble[q]
    OBVIOUS
  <2> HIDE DEF now
  <2>6. Accounted(q)'
    <3>1. CASE bubble[q].text = <<>>
      <4>1. Head(<<Notice>>) = Notice /\ <<Notice>> # <<>>
        OBVIOUS
      <4> QED BY <2>3, <2>4, <2>5, <3>1, <4>1 DEF Accounted
    <3>2. CASE bubble[q].text # <<>> /\ Shut(q)
      BY <1>1, <2>3, <2>4, <2>5, <3>2 DEF Accounted, Sound
    <3>3. CASE bubble[q].text # <<>> /\ ~Shut(q)
      BY <1>1, <2>3, <2>4, <2>5, <3>3 DEF Accounted, Sound
    <3> QED BY <3>1, <3>2, <3>3
  <2>7. Shut(q)'
    BY <2>4 DEF Shut, Unsubscribed
  <2>8. NothingBehind(q)'
    <3>1. bubble'[q].text = <<StoredText>> => bubble[q].text = <<StoredText>>
      <4>1. <<Notice>> # <<StoredText>>
        <5>1. Notice # StoredText
          BY TutorAssumption DEF Notice, StoredText
        <5> QED BY <5>1
      <4> QED BY <2>3, <2>5, <4>1
    <3> QED BY <1>1, <2>4, <3>1 DEF Sound, NothingBehind
  <2>9. HonestChannel(q)' /\ EndsLast(q)'
    BY <1>1, <2>4 DEF Sound, HonestChannel, Honest, EndsLast
  <2>10. Sound(q)'
    BY <2>4, <2>6, <2>7, <2>8, <2>9 DEF Sound
  <2>11. TutorTypeOK' /\ \A p \in Questions \ {q} : Untouched(p)
    BY <1>1, <2>3, <2>4 DEF TutorTypeOK, Untouched
  <2> QED BY <2>10, <2>11
<1> QED BY <1>2, <1>3, <1>4, <1>5, <1>6, <1>7

\* A step of the task: what it sends is honest, and nothing it changes was
\* spoken of by a final message, as there is none before it ends.
LEMMA TaskStep ==
  ASSUME NEW q \in Questions, IInv,
         Start(q) \/ Produce(q) \/ Finish(q) \/ Fail(q) \/ Die(q)
  PROVE  TutorTypeOK' /\ Sound(q)' /\ (\A p \in Questions \ {q} : Untouched(p))
<1> USE DEF IInv
<1>1. Sound(q) /\ TutorTypeOK
  OBVIOUS
<1>2. answering[q] \in {"none", "running"}
  BY DEF Start, Produce, Finish, Fail, Die
<1>3. \A i \in DOMAIN channel[q] :
        channel[q][i].event \notin {"complete", "failure"} /\ \E j \in 1 .. produced[q] : channel[q][i].text = <<j>>
  <2>1. ASSUME NEW i \in DOMAIN channel[q]
        PROVE  channel[q][i].event \notin {"complete", "failure"} /\ \E j \in 1 .. produced[q] : channel[q][i].text = <<j>>
    <3>1. Honest(q, channel[q][i])
      BY <1>1, <2>1 DEF Sound, HonestChannel
    <3>2. channel[q] \in Seq(Message)
      BY <1>1 DEF TutorTypeOK
    <3>3. channel[q][i] \in Message
      BY <2>1, <3>2
    <3>4. channel[q][i].event \in {"token", "complete", "failure"}
      BY <3>3 DEF Message
    <3> QED BY <1>2, <3>1, <3>4 DEF Honest
  <2> QED BY <2>1
<1>4. /\ asked' = asked /\ bubble' = bubble /\ subscription' = subscription
      /\ \A p \in Questions \ {q} : answering'[p] = answering[p]
      /\ answering' \in [Questions -> Answering]
  BY <1>1 DEF Start, Produce, Finish, Fail, Die, TutorTypeOK, Answering
<1>5. Shut(q) => asked[q] = "failed"
  BY <1>1, <1>2 DEF Sound, NothingBehind
<1>6. bubble[q].text # <<StoredText>>
  BY <1>1, <1>2 DEF Sound, NothingBehind
<1>7. NothingBehind(q)' /\ Shut(q)' = Shut(q)
  BY <1>4, <1>5, <1>6 DEF NothingBehind, Shut
<1>8. Shut(q) => Accounted(q)'
  <2>1. SUFFICES ASSUME Shut(q) PROVE Accounted(q)'
    OBVIOUS
  <2>2. Accounted(q) /\ asked[q] = "failed"
    BY <1>1, <1>5, <2>1 DEF Sound
  <2> QED BY <1>2, <1>4, <2>2 DEF Accounted
<1>9. SUFFICES ASSUME TRUE
               PROVE  /\ channel' \in [Questions -> Seq(Message)] /\ produced' \in [Questions -> 0 .. MaxTokens]
                      /\ \A p \in Questions \ {q} : channel'[p] = channel[p] /\ produced'[p] = produced[p]
                      /\ HonestChannel(q)' /\ EndsLast(q)'
  <2>1. ASSUME HonestChannel(q)', EndsLast(q)' PROVE Sound(q)'
    BY <1>1, <1>4, <1>7, <1>8, <2>1 DEF Sound
  <2> QED BY <1>1, <1>4, <2>1 DEF TutorTypeOK, Untouched
<1>10. CASE Start(q)
  BY <1>1, <1>3, <1>10 DEF Start, TutorTypeOK, Sound, HonestChannel, Honest, EndsLast
<1>11. CASE Die(q)
  BY <1>1, <1>3, <1>11 DEF Die, TutorTypeOK, Sound, HonestChannel, Honest, EndsLast
<1>12. CASE Produce(q)
  <2>1. /\ produced[q] \in 0 .. MaxTokens - 1 /\ produced'[q] = produced[q] + 1
        /\ produced' \in [Questions -> 0 .. MaxTokens]
        /\ \A p \in Questions \ {q} : produced'[p] = produced[p]
    BY <1>1, <1>12, TutorAssumption DEF Produce, TutorTypeOK
  <2> DEFINE m == Token(produced'[q])
  <2>2. m \in Message /\ m.event = "token" /\ m.text = <<produced'[q]>>
    BY <2>1, MessageTypes, TutorAssumption DEF Token
  <2>3. PublishTutor(q, m)
    BY <1>12 DEF Produce
  <2> HIDE DEF m
  <2>4. /\ channel' \in [Questions -> Seq(Message)]
        /\ \A p \in Questions \ {q} : channel'[p] = channel[p]
        /\ \A i \in DOMAIN channel'[q] : channel'[q][i] = m \/ (i \in DOMAIN channel[q] /\ channel'[q][i] = channel[q][i])
    <3>1. TutorTypeOK /\ m \in Message
      BY <1>1, <2>2
    <3> QED BY ONLY <2>3, <3>1, Sending
  <2>5. \A i \in DOMAIN channel'[q] :
          /\ channel'[q][i].event \notin {"complete", "failure"}
          /\ \E j \in 1 .. produced'[q] : channel'[q][i].text = <<j>>
    <3>1. ASSUME NEW i \in DOMAIN channel'[q]
          PROVE  /\ channel'[q][i].event \notin {"complete", "failure"}
                 /\ \E j \in 1 .. produced'[q] : channel'[q][i].text = <<j>>
      <4>1. CASE channel'[q][i] = m
        BY <2>1, <2>2, <4>1
      <4>2. CASE i \in DOMAIN channel[q] /\ channel'[q][i] = channel[q][i]
        <5>1. PICK j \in 1 .. produced[q] : channel[q][i].text = <<j>>
          BY <1>3, <4>2
        <5>2. j \in 1 .. produced'[q]
          BY <2>1
        <5> QED BY <1>3, <4>2, <5>1, <5>2
      <4> QED BY <2>4, <3>1, <4>1, <4>2
    <3> QED BY <3>1
  <2>6. HonestChannel(q)'
    BY <2>5 DEF HonestChannel, Honest
  <2>7. EndsLast(q)'
    <3>1. \A i \in DOMAIN channel'[q] : channel'[q][i].event \in {"token", "complete", "failure"}
      <4>1. channel'[q] \in Seq(Message)
        BY <2>4
      <4>2. \A i \in DOMAIN channel'[q] : channel'[q][i] \in Message
        BY <4>1
      <4> QED BY <4>2 DEF Message
    <3> QED BY <2>5, <3>1 DEF EndsLast
  <2> QED BY <2>1, <2>4, <2>6, <2>7
<1>13. ASSUME NEW m \in Message, PublishTutor(q, m), produced' = produced, m.event # "token",
              m.event = "complete" => answering'[q] = "stored" /\ m.text = Complete(produced[q]).text /\ ~m.error,
              m.event = "failure" => answering'[q] = "failed"
       PROVE  /\ channel' \in [Questions -> Seq(Message)] /\ produced' \in [Questions -> 0 .. MaxTokens]
              /\ \A p \in Questions \ {q} : channel'[p] = channel[p] /\ produced'[p] = produced[p]
              /\ HonestChannel(q)' /\ EndsLast(q)'
  <2>1. /\ channel' \in [Questions -> Seq(Message)]
        /\ \A p \in Questions \ {q} : channel'[p] = channel[p]
        /\ \A i \in DOMAIN channel'[q] :
             \/ channel'[q][i] = m /\ i = Len(channel'[q])
             \/ i \in DOMAIN channel[q] /\ channel'[q][i] = channel[q][i]
    BY <1>1, <1>13, Sending
  <2>2. ASSUME NEW i \in DOMAIN channel'[q]
        PROVE  Honest(q, channel[q][i])' /\ (channel'[q][i].event # "token" => i = Len(channel'[q]))
    <3>1. CASE channel'[q][i] = m /\ i = Len(channel'[q])
      BY <1>13, <3>1 DEF Honest
    <3>2. CASE i \in DOMAIN channel[q] /\ channel'[q][i] = channel[q][i]
      <4>1. channel[q] \in Seq(Message)
        BY <1>1 DEF TutorTypeOK
      <4>2. channel[q][i] \in Message
        BY <3>2, <4>1
      <4>3. /\ channel'[q][i].event = "token"
            /\ \E j \in 1 .. produced[q] : channel'[q][i].text = <<j>>
        BY <1>3, <3>2, <4>2 DEF Message
      <4> QED BY <1>13, <4>3 DEF Honest
    <3> QED BY <2>1, <2>2, <3>1, <3>2
  <2>3. HonestChannel(q)' /\ EndsLast(q)'
    BY <2>2 DEF HonestChannel, EndsLast
  <2> QED BY <1>1, <1>13, <2>1, <2>3 DEF TutorTypeOK
<1>14. CASE Finish(q)
  <2> DEFINE m == Complete(produced[q])
  <2>1. m \in Message /\ m.event = "complete" /\ m.text = Complete(produced[q]).text /\ m.error = FALSE
    BY <1>1, MessageTypes DEF TutorTypeOK, Complete
  <2>2. PublishTutor(q, m) /\ produced' = produced /\ answering'[q] = "stored"
    BY <1>1, <1>14 DEF Finish, TutorTypeOK
  <2> HIDE DEF m
  <2> QED BY <1>13, <2>1, <2>2
<1>15. CASE Fail(q)
  <2>1. PICK said \in BOOLEAN : PublishTutor(q, Failure(said))
    BY <1>15 DEF Fail
  <2> DEFINE m == Failure(said)
  <2>2. m \in Message /\ m.event = "failure"
    BY MessageTypes DEF Failure
  <2> HIDE DEF m
  <2>3. PublishTutor(q, m) /\ produced' = produced /\ answering'[q] = "failed"
    BY <1>1, <1>15, <2>1 DEF Fail, TutorTypeOK, m
  <2> QED BY <1>13, <2>2, <2>3
<1> QED BY <1>10, <1>11, <1>12, <1>14, <1>15

\* A message is delivered.  Only a final one ends the bubble, and it is honest;
\* a token that comes after the end belongs to a request that failed.
LEMMA DeliverStep ==
  ASSUME NEW q \in Questions, IInv, Deliver(q)
  PROVE  TutorTypeOK' /\ Sound(q)' /\ (\A p \in Questions \ {q} : Untouched(p))
<1> USE DEF IInv
<1>1. Sound(q) /\ TutorTypeOK
  OBVIOUS
<1> DEFINE m == Head(channel[q])
<1>2. channel[q] \in Seq(Message) /\ channel[q] # <<>>
  BY <1>1 DEF Deliver, TutorTypeOK
<1>3. m \in Message /\ Honest(q, m) /\ (m.event # "token" => Tail(channel[q]) = <<>>)
  <2>1. m = channel[q][1] /\ 1 \in DOMAIN channel[q]
    BY <1>2
  <2>2. Honest(q, m) /\ (m.event # "token" => Len(channel[q]) = 1)
    BY <1>1, <2>1 DEF Sound, HonestChannel, EndsLast
  <2>3. Len(channel[q]) = 1 => Tail(channel[q]) = <<>>
    <3>1. Tail(channel[q]) \in Seq(Message) /\ Len(Tail(channel[q])) = Len(channel[q]) - 1
      BY <1>2
    <3>2. \A t \in Seq(Message) : Len(t) = 0 => t = <<>>
      OBVIOUS
    <3>3. Len(channel[q]) = 1 => Len(Tail(channel[q])) = 0
      BY <3>1
    <3> QED BY ONLY <3>1, <3>2, <3>3
  <2> QED BY <1>2, <2>1, <2>2, <2>3
<1>4. /\ channel' \in [Questions -> Seq(Message)] /\ channel'[q] = Tail(channel[q])
      /\ \A p \in Questions \ {q} : channel'[p] = channel[p]
      /\ \A i \in DOMAIN channel'[q] : Honest(q, channel'[q][i])
      /\ \A i \in DOMAIN channel'[q] : channel'[q][i].event # "token" => i = Len(channel'[q])
  <2>1. channel'[q] = Tail(channel[q]) /\ channel' = [channel EXCEPT ![q] = Tail(channel[q])]
    BY <1>1 DEF Deliver, TutorTypeOK
  <2>2. Tail(channel[q]) \in Seq(Message) /\ Len(Tail(channel[q])) = Len(channel[q]) - 1
    BY <1>2
  <2>3. \A i \in DOMAIN Tail(channel[q]) : i + 1 \in DOMAIN channel[q] /\ Tail(channel[q])[i] = channel[q][i + 1]
    BY <1>2
  <2>4. \A i \in DOMAIN Tail(channel[q]) : Honest(q, Tail(channel[q])[i])
    BY <1>1, <2>3 DEF Sound, HonestChannel
  <2>5. ASSUME NEW i \in DOMAIN Tail(channel[q]), Tail(channel[q])[i].event # "token" PROVE i = Len(Tail(channel[q]))
    <3>1. i + 1 = Len(channel[q]) /\ i \in Nat
      BY <1>1, <2>3, <2>5 DEF Sound, EndsLast
    <3> QED BY <1>2, <2>2, <3>1
  <2> QED BY <1>1, <2>1, <2>2, <2>4, <2>5 DEF TutorTypeOK
<1>5. asked' = asked /\ answering' = answering /\ produced' = produced
  BY DEF Deliver
<1>6. \/ subscription[q] \notin {"joined", "leaving"} /\ UNCHANGED <<isStreaming, bubble, subscription>>
      \/ /\ subscription[q] \in {"joined", "leaving"} /\ m.event = "token"
         /\ bubble' = [bubble EXCEPT ![q].text = bubble[q].text \o m.text]
         /\ UNCHANGED <<isStreaming, subscription>>
      \/ /\ subscription[q] \in {"joined", "leaving"} /\ m.event # "token"
         /\ bubble' = [bubble EXCEPT ![q] = Completed(bubble[q], m)]
         /\ subscription' = [subscription EXCEPT ![q] = Unsubscribed(subscription[q])]
  BY Zenon DEF Deliver
<1>7. HonestChannel(q)' /\ EndsLast(q)'
  BY <1>4, <1>5 DEF HonestChannel, Honest, EndsLast
<1>8. bubble[q].text # <<StoredText>> /\ (Shut(q) => asked[q] = "failed")
  BY <1>1, <1>2 DEF Sound, NothingBehind
<1> HIDE DEF m
<1>9. CASE subscription[q] \notin {"joined", "leaving"} /\ UNCHANGED <<isStreaming, bubble, subscription>>
  <2>1. NothingBehind(q)'
    BY <1>5, <1>8, <1>9 DEF NothingBehind, Shut
  <2> QED BY <1>1, <1>4, <1>5, <1>7, <1>9, <2>1 DEF TutorTypeOK, Sound, Untouched, Shut, Accounted
<1>10. CASE /\ subscription[q] \in {"joined", "leaving"} /\ m.event = "token"
            /\ bubble' = [bubble EXCEPT ![q].text = bubble[q].text \o m.text]
            /\ UNCHANGED <<isStreaming, subscription>>
  <2>1. PICK j \in 1 .. produced[q] : m.text = <<j>>
    BY <1>3, <1>10 DEF Honest
  <2>2. j \in 1 .. MaxTokens
    <3>1. produced[q] \in 0 .. MaxTokens
      BY <1>1 DEF TutorTypeOK
    <3> QED BY <3>1, TutorAssumption
  <2>3. bubble[q] \in Bubble /\ bubble[q].text \in Seq(Nat)
    BY <1>1 DEF TutorTypeOK, Bubble
  <2> DEFINE longer == bubble[q].text \o <<j>>
             now == [bubble[q] EXCEPT !.text = longer]
  <2>4. /\ longer \in Seq(Nat) /\ longer # <<StoredText>> /\ longer # <<>>
        /\ bubble[q].text # <<>> => Head(longer) = Head(bubble[q].text)
    BY <2>2, <2>3, TokenBehind
  <2> HIDE DEF longer
  <2>5. now \in Bubble /\ now.error = bubble[q].error /\ now.text = longer
    BY <2>3, <2>4 DEF Bubble
  <2>6. bubble' = [bubble EXCEPT ![q] = now]
    BY <1>10, <2>1 DEF longer
  <2> HIDE DEF now
  <2>7. bubble'[q] = now /\ bubble' \in [Questions -> Bubble] /\ \A p \in Questions \ {q} : bubble'[p] = bubble[p]
    BY <1>1, <2>5, <2>6 DEF TutorTypeOK
  <2>8. NothingBehind(q)'
    BY <1>5, <1>8, <1>10, <2>4, <2>5, <2>7 DEF NothingBehind, Shut
  <2>9. ASSUME Shut(q) PROVE Accounted(q)'
    <3>1. Accounted(q) /\ asked[q] = "failed"
      BY <1>1, <1>8, <2>9 DEF Sound
    <3>2. bubble[q].text # Complete(produced[q]).text
      <4>1. Complete(produced[q]).text = <<StoredText>>
        BY <2>1 DEF Complete
      <4> QED BY <1>8, <4>1
    <3> QED BY <1>5, <2>4, <2>5, <2>7, <3>1, <3>2 DEF Accounted
  <2>10. Sound(q)'
    BY <1>1, <1>5, <1>7, <1>10, <2>5, <2>7, <2>8, <2>9 DEF Sound, Shut
  <2> QED BY <1>1, <1>4, <1>5, <1>10, <2>7, <2>10 DEF TutorTypeOK, Untouched
<1>11. CASE /\ subscription[q] \in {"joined", "leaving"} /\ m.event # "token"
            /\ bubble' = [bubble EXCEPT ![q] = Completed(bubble[q], m)]
            /\ subscription' = [subscription EXCEPT ![q] = Unsubscribed(subscription[q])]
  <2> DEFINE now == Completed(bubble[q], m)
  <2>1. /\ bubble[q] \in Bubble /\ bubble[q].error \in BOOLEAN
        /\ m.event \in {"complete", "failure"} /\ m.text \in Seq(Nat)
        /\ bubble[q].error => asked[q] = "failed"
    BY <1>1, <1>3, <1>8, <1>11 DEF TutorTypeOK, Message, Bubble, Sound
  <2>2. /\ now \in Bubble
        /\ answering[q] \in {"stored", "failed"}
        /\ \/ now.text = <<Notice>> /\ now.error = TRUE /\ answering[q] = "failed"
           \/ /\ now.text = Complete(produced[q]).text /\ now.error = bubble[q].error /\ answering[q] = "stored"
           \/ now = bubble[q] /\ answering[q] = "failed"
    <3>1. CASE m.error /\ bubble[q].text = <<>>
      <4>1. now = [text |-> <<Notice>>, error |-> TRUE]
        BY <3>1 DEF Completed
      <4>2. answering[q] = "failed"
        BY <1>3, <2>1, <3>1 DEF Honest
      <4> QED BY <4>1, <4>2, MessageTypes
    <3>2. CASE ~(m.error /\ bubble[q].text = <<>>) /\ m.event = "failure"
      <4>1. now = bubble[q] /\ answering[q] = "failed"
        BY <1>3, <3>2 DEF Completed, Honest
      <4> QED BY <2>1, <4>1
    <3>3. CASE ~(m.error /\ bubble[q].text = <<>>) /\ m.event = "complete"
      <4>1. now = [bubble[q] EXCEPT !.text = m.text] /\ answering[q] = "stored" /\ m.text = Complete(produced[q]).text
        BY <1>3, <3>3 DEF Completed, Honest
      <4>2. now \in Bubble /\ now.text = m.text /\ now.error = bubble[q].error
        BY <2>1, <4>1 DEF Bubble
      <4> QED BY <4>1, <4>2
    <3> QED BY <2>1, <3>1, <3>2, <3>3
  <2> HIDE DEF now
  <2>3. bubble' = [bubble EXCEPT ![q] = now]
    BY <1>11 DEF now
  <2>4. bubble'[q] = now /\ bubble' \in [Questions -> Bubble] /\ \A p \in Questions \ {q} : bubble'[p] = bubble[p]
    BY <1>1, <2>2, <2>3 DEF TutorTypeOK
  <2>5. /\ subscription'[q] = "leaving" /\ subscription' \in [Questions -> Subscribed]
        /\ \A p \in Questions \ {q} : subscription'[p] = subscription[p]
    BY <1>1, <1>11 DEF TutorTypeOK, Subscribed, Unsubscribed
  <2>6. Accounted(q)'
    <3>1. CASE now.text = <<Notice>> /\ now.error = TRUE /\ answering[q] = "failed"
      <4>1. Head(<<Notice>>) = Notice /\ <<Notice>> # <<>>
        OBVIOUS
      <4> QED BY <1>5, <2>4, <3>1, <4>1 DEF Accounted
    <3>2. CASE now.text = Complete(produced[q]).text /\ now.error = bubble[q].error /\ answering[q] = "stored"
      BY <1>5, <2>1, <2>4, <3>2 DEF Accounted
    <3>3. CASE now = bubble[q] /\ answering[q] = "failed"
      <4>1. CASE bubble[q].error
        <5>1. Accounted(q)
          BY <1>1, <4>1 DEF Sound
        <5> QED BY <1>5, <2>4, <3>3, <5>1 DEF Accounted
      <4>2. CASE ~bubble[q].error
        BY <1>5, <2>4, <3>3, <4>2 DEF Accounted
      <4> QED BY <4>1, <4>2
    <3> QED BY <2>2, <3>1, <3>2, <3>3
  <2>7. NothingBehind(q)'
    <3>1. channel'[q] = <<>>
      BY <1>3, <1>4, <1>11
    <3>2. bubble'[q].text = <<StoredText>> => answering'[q] = "stored"
      <4>1. <<Notice>> # <<StoredText>>
        <5>1. Notice # StoredText
          BY TutorAssumption DEF Notice, StoredText
        <5> QED BY <5>1
      <4> QED BY <1>5, <1>8, <2>2, <2>4, <4>1
    <3> QED BY <1>5, <2>2, <3>1, <3>2 DEF NothingBehind
  <2>8. Sound(q)'
    BY <1>1, <1>5, <1>7, <1>11, <2>5, <2>6, <2>7 DEF Sound, Shut
  <2> QED BY <1>1, <1>4, <1>5, <2>4, <2>5, <2>8 DEF TutorTypeOK, Untouched
<1> QED BY <1>6, <1>9, <1>10, <1>11

\* The flag is raised by a question that starts to listen, and lowered whenever
\* one stops.
LEMMA StreamingStep ==
  ASSUME IInv, TutorNext
  PROVE  StreamingHasQuestion'
<1>1. PICK q \in Questions :
        \/ Send(q) \/ HaveToken(q) \/ Joined(q) \/ Posted(q) \/ PostFailed(q) \/ Left(q) \/ Deliver(q)
        \/ Start(q) \/ Produce(q) \/ Finish(q) \/ Fail(q) \/ Die(q)
  BY DEF TutorNext, AskPanel, AskCard, AskExplain
<1>2. CASE HaveToken(q)
  BY <1>2 DEF IInv, TutorTypeOK, HaveToken, StreamingHasQuestion, Listening
<1>3. CASE Joined(q)
  <2>1. \A p \in Questions : Listening(p) => Listening(p)'
    BY <1>3 DEF IInv, TutorTypeOK, Joined, Listening
  <2> QED BY <1>3, <2>1 DEF IInv, Joined, StreamingHasQuestion
<1>4. CASE isStreaming' = FALSE
  BY <1>4 DEF StreamingHasQuestion
<1>6. CASE Left(q)
  <2>1. \A p \in Questions : Listening(p) => Listening(p)'
    BY <1>6 DEF IInv, TutorTypeOK, Left, Listening
  <2> QED BY <1>6, <2>1 DEF IInv, Left, StreamingHasQuestion
<1>5. CASE UNCHANGED <<isStreaming, subscription>>
  BY <1>5 DEF IInv, StreamingHasQuestion, Listening
<1> QED BY <1>1, <1>2, <1>3, <1>4, <1>5, <1>6 DEF Send, Posted, PostFailed, Deliver, Start, Produce, Finish, Fail, Die

LEMMA StepSound == IInv /\ [TutorNext]_tutorVars => IInv'
<1> SUFFICES ASSUME IInv, [TutorNext]_tutorVars PROVE IInv'
  OBVIOUS
<1>1. CASE TutorNext
  <2>1. PICK q \in Questions :
          \/ Send(q) \/ HaveToken(q) \/ Joined(q) \/ Posted(q) \/ PostFailed(q) \/ Left(q) \/ Deliver(q)
          \/ Start(q) \/ Produce(q) \/ Finish(q) \/ Fail(q) \/ Die(q)
    BY <1>1 DEF TutorNext, AskPanel, AskCard, AskExplain
  <2>2. TutorTypeOK' /\ Sound(q)' /\ (\A p \in Questions \ {q} : Untouched(p))
    BY <2>1, BrowserStep, TaskStep, DeliverStep
  <2>3. \A p \in Questions \ {q} : Sound(p)'
    BY <2>2, UntouchedIsSound DEF IInv
  <2>4. StreamingHasQuestion'
    BY <1>1, StreamingStep
  <2> QED BY <2>2, <2>3, <2>4 DEF IInv
<1>2. CASE UNCHANGED tutorVars
  <2>1. \A p \in Questions : Untouched(p)
    BY <1>2 DEF tutorVars, Untouched
  <2>2. \A p \in Questions : Sound(p)'
    BY <2>1, UntouchedIsSound DEF IInv
  <2> QED BY <1>2, <2>2 DEF tutorVars, IInv, TutorTypeOK, StreamingHasQuestion, Listening
<1> QED BY <1>1, <1>2

\* Every reachable state of the tutor has the declared types.
THEOREM TutorTypeCorrect == TutorSpec => []TutorTypeOK
<1>1. IInv => TutorTypeOK
  BY DEF IInv
<1> QED BY <1>1, InitSound, StepSound, PTL DEF TutorSpec

\* tutorStore.ts: a bubble whose channel was given up shows the stored answer, or
\* says or has a reason why not, also while the channel may still deliver; and an input that is held back has a question to wait for.
THEOREM TutorStaysAccounted == TutorSpec => []TutorIsAccounted
<1>1. IInv => TutorIsAccounted
  BY DEF IInv, Sound, Accounted, TutorIsAccounted, ClosedBubblesAreAccounted
<1> QED BY <1>1, InitSound, StepSound, PTL DEF TutorSpec

-----------------------------------------------------------------------------
(* Simulations                                                             *)

Earned(a) ==
  a \in Answer /\ task[a.run] = "over" /\ (a.status = "completed" => row[a.run] = "completed")

AnswersInv ==
  /\ \A a \in wire : Earned(a)
  /\ ui.results = NoAnswer \/ Earned(ui.results)
  /\ \A r \in Runs : task[r] = "completed" => row[r] = "completed"
  /\ \A r \in Runs : row[r] = "none" => task[r] = "none"

ActiveInv == ui.active = IF ui.state = "running" THEN ui.latest ELSE NoRun

SimInv == SimTypeOK /\ AnswersInv /\ ActiveInv /\ OutcomeIsOfLatestRun /\ OneOpenChannel

USE RunAssumption

LEMMA SimInitInv == SimInit => SimInv
<1> SUFFICES ASSUME SimInit PROVE SimInv
  OBVIOUS
<1>1. SimTypeOK
  <2>1. ui \in [latest : Runs \cup {NoRun}, active : Runs \cup {NoRun},
               state : {"idle", "running", "success", "error"}, results : Answer \cup {NoAnswer}]
    BY DEF SimInit
  <2>2. /\ post \in [Runs -> {"none", "waiting", "refused", "done", "failed"}]
        /\ row \in [Runs -> {"none", "pending"} \cup Outcomes]
    BY DEF SimInit
  <2>3. task \in [Runs -> {"none", "queued", "running", "raised", "over", "killed"} \cup Outcomes]
    BY DEF SimInit
  <2>4. subs \subseteq 1 .. started /\ joined \subseteq subs /\ wire \subseteq Answer
    BY DEF SimInit
  <2>5. started \in 0 .. MaxRuns
    BY DEF SimInit
  <2>6. edited \in BOOLEAN
    BY DEF SimInit
  <2> QED
    BY <2>1, <2>2, <2>3, <2>4, <2>5, <2>6 DEF SimTypeOK
<1>2. AnswersInv
  BY DEF SimInit, AnswersInv
<1>3. ActiveInv /\ OutcomeIsOfLatestRun /\ OneOpenChannel
  BY DEF SimInit, ActiveInv, OutcomeIsOfLatestRun, OneOpenChannel
<1> QED
  BY <1>1, <1>2, <1>3 DEF SimInv

\* A step of the server that leaves tasks that are over, and their rows,
\* alone, leaves every earned answer earned.
LEMMA EarnedStays ==
  ASSUME SimTypeOK, NEW a, Earned(a),
         \A r \in Runs : task[r] = "over" => task'[r] = "over" /\ row'[r] = row[r]
  PROVE  Earned(a)'
  BY DEF Earned, Answer

\* Steps of the server keep the invariant when they keep the types and the
\* tasks that are over, and put only earned answers on the wire.
LEMMA ServerStep ==
  ASSUME SimInv, SimTypeOK', UNCHANGED <<ui, subs, post, started, edited>>,
         \A r \in Runs : task[r] = "over" => task'[r] = "over" /\ row'[r] = row[r],
         \A a \in wire' : a \in wire \/ Earned(a)',
         \A r \in Runs : task'[r] = "completed" => row'[r] = "completed",
         \A r \in Runs : row'[r] = "none" => task'[r] = "none"
  PROVE  SimInv'
<1>1. \A a \in wire' : Earned(a)'
  BY EarnedStays DEF SimInv, AnswersInv
<1>2. ui.results # NoAnswer => Earned(ui.results)'
  BY EarnedStays DEF SimInv, AnswersInv
<1>3. AnswersInv'
  BY <1>1, <1>2 DEF AnswersInv, Earned
<1>4. ActiveInv' /\ OneOpenChannel'
  BY DEF SimInv, ActiveInv, OneOpenChannel
<1>5. OutcomeIsOfLatestRun'
  <2>1. ui.state = "success" => row'[ui.latest] = "completed"
    BY <1>2 DEF SimInv, OutcomeIsOfLatestRun, Earned, NoAnswer
  <2> QED
    BY <2>1 DEF SimInv, OutcomeIsOfLatestRun
<1> QED
  BY <1>3, <1>4, <1>5 DEF SimInv

LEMMA RunStepKeeps == SimInv /\ [SimNext]_simVars => SimInv'
<1> SUFFICES ASSUME SimInv, [SimNext]_simVars PROVE SimInv'
  OBVIOUS
<1> USE DEF Runs
<1>1. CASE Run
  <2>0. started \in Nat /\ started + 1 \in Runs /\ started + 1 <= MaxRuns /\ subs \subseteq 1 .. started
    BY <1>1 DEF Run, SimInv, SimTypeOK
  <2>1. SimTypeOK'
    <3>1. ui' \in [latest : Runs \cup {NoRun}, active : Runs \cup {NoRun},
                  state : {"idle", "running", "success", "error"}, results : Answer \cup {NoAnswer}]
      <4>1. ui' = [ui EXCEPT !.latest = started + 1, !.active = started + 1, !.state = "running"]
        BY <1>1 DEF Run
      <4> QED
        BY <2>0, <4>1 DEF SimInv, SimTypeOK
    <3>2. subs' \subseteq 1 .. started' /\ joined' \subseteq subs' /\ started' \in 0 .. MaxRuns
      BY <1>1, <2>0 DEF Run, SimInv, SimTypeOK
    <3>3. post' \in [Runs -> {"none", "waiting", "refused", "done", "failed"}] /\ edited' \in BOOLEAN
      BY <1>1, <2>0 DEF Run, SimInv, SimTypeOK
    <3> QED
      BY <1>1, <3>1, <3>2, <3>3 DEF Run, SimInv, SimTypeOK, server
  <2>2. AnswersInv'
    BY <1>1 DEF Run, SimInv, SimTypeOK, AnswersInv, Earned, server
  <2>3. ActiveInv' /\ OutcomeIsOfLatestRun'
    BY <1>1 DEF Run, SimInv, SimTypeOK, ActiveInv, OutcomeIsOfLatestRun
  <2>4. OneOpenChannel'
    BY <1>1 DEF Run, SimInv, SimTypeOK, ActiveInv, OneOpenChannel
  <2> QED
    BY <2>1, <2>2, <2>3, <2>4 DEF SimInv
<1>2. CASE Invalidate
  <2>1. SimTypeOK'
    BY <1>2 DEF Invalidate, Unsubscribe, SimInv, SimTypeOK, server
  <2>2. AnswersInv'
    BY <1>2 DEF Invalidate, SimInv, AnswersInv, Earned, server
  <2>3. ActiveInv' /\ OutcomeIsOfLatestRun'
    BY <1>2 DEF Invalidate, SimInv, ActiveInv, OutcomeIsOfLatestRun
  <2>4. OneOpenChannel'
    BY <1>2 DEF Invalidate, Unsubscribe, SimInv, ActiveInv, OneOpenChannel
  <2> QED
    BY <2>1, <2>2, <2>3, <2>4 DEF SimInv
<1>3. CASE EditCircuit
  BY <1>3 DEF EditCircuit, SimInv, SimTypeOK, AnswersInv, Earned, ActiveInv, OutcomeIsOfLatestRun, OneOpenChannel, server
<1>4. CASE Crash
  <2>1. SimTypeOK'
    BY <1>4 DEF Crash, SimInv, SimTypeOK, browser
  <2> QED
    BY <1>4, <2>1, ServerStep DEF Crash, SimInv, SimTypeOK, AnswersInv, browser
<1>5. ASSUME NEW a \in wire, Receive(a) PROVE SimInv'
  <2>0. a \in Answer /\ Earned(a)
    BY DEF SimInv, SimTypeOK, AnswersInv
  <2>1. CASE a.run # ui.latest
    BY <1>5, <2>1 DEF Receive, SimInv, SimTypeOK, AnswersInv, Earned, ActiveInv, OutcomeIsOfLatestRun, OneOpenChannel, server
  <2>2. CASE a.run = ui.latest
    <3>1. ui' = [ui EXCEPT !.results = a, !.state = IF a.status = "failed" THEN "error" ELSE "success",
                           !.active = IF @ = a.run THEN NoRun ELSE @]
          /\ subs' = subs \ {a.run} /\ joined' = joined \ {a.run} /\ wire' \subseteq wire
      BY <1>5, <2>2 DEF Receive, Unsubscribe
    <3>2. UNCHANGED <<task, row, post, started, edited>>
      BY <1>5 DEF Receive, server
    <3>3. SimTypeOK'
      BY <2>0, <3>1, <3>2 DEF SimInv, SimTypeOK, Answer
    <3>4. AnswersInv'
      BY <2>0, <3>1, <3>2 DEF SimInv, SimTypeOK, AnswersInv, Earned
    <3>5. ActiveInv' /\ OneOpenChannel'
      BY <2>0, <2>2, <3>1 DEF SimInv, SimTypeOK, ActiveInv, OneOpenChannel, Answer
    <3>6. OutcomeIsOfLatestRun'
      <4>1. a = [run |-> ui.latest, status |-> a.status] /\ a.status \in Outcomes
        BY <2>0, <2>2 DEF Answer
      <4>2. ui'.results = a /\ ui'.latest = ui.latest
        BY <3>1 DEF SimInv, SimTypeOK
      <4>3. ui'.state = IF a.status = "failed" THEN "error" ELSE "success"
        BY <3>1 DEF SimInv, SimTypeOK
      <4>4. a.status = "completed" => row'[ui.latest] = "completed"
        BY <2>0, <2>2, <3>2 DEF Earned
      <4> QED
        BY <4>1, <4>2, <4>3, <4>4 DEF OutcomeIsOfLatestRun, Outcomes
    <3> QED
      BY <3>3, <3>4, <3>5, <3>6 DEF SimInv
  <2> QED
    BY <2>1, <2>2
<1>6. ASSUME NEW r \in Runs, RunStep(r) PROVE SimInv'
  <2>1. CASE Join(r)
    BY <2>1 DEF Join, SimInv, SimTypeOK, AnswersInv, Earned, ActiveInv, OutcomeIsOfLatestRun, OneOpenChannel, server
  <2>2. CASE PostDone(r)
    <3>1. SimTypeOK'
      BY <2>2 DEF PostDone, SimInv, SimTypeOK, server
    <3>2. post[r] = "waiting" /\ post' = [post EXCEPT ![r] = "done"] /\ UNCHANGED <<ui, subs, row, task, wire>>
      BY <2>2 DEF PostDone, server
    <3> QED
      BY <3>1, <3>2 DEF SimInv, SimTypeOK, AnswersInv, Earned, ActiveInv, OutcomeIsOfLatestRun, OneOpenChannel
  <2>3. CASE PostFails(r)
    <3>1. post' = [post EXCEPT ![r] = "failed"] /\ UNCHANGED <<row, task, wire, started, edited>>
      BY <2>3 DEF PostFails, server
    <3>2. CASE r # ui.latest
      <4>1. UNCHANGED <<ui, subs, joined>>
        BY <2>3, <3>2 DEF PostFails
      <4> QED
        BY <3>1, <3>2, <4>1 DEF SimInv, SimTypeOK, AnswersInv, Earned, ActiveInv, OutcomeIsOfLatestRun, OneOpenChannel
    <3>3. CASE r = ui.latest
      <4>1. ui' = [ui EXCEPT !.state = "error", !.active = IF @ = r THEN NoRun ELSE @]
            /\ subs' = subs \ {r} /\ joined' = joined \ {r}
        BY <2>3, <3>3 DEF PostFails, Unsubscribe
      <4>2. SimTypeOK'
        BY <3>1, <4>1 DEF SimInv, SimTypeOK
      <4>3. AnswersInv'
        BY <3>1, <4>1 DEF SimInv, SimTypeOK, AnswersInv, Earned
      <4>4. ActiveInv' /\ OneOpenChannel'
        BY <3>3, <4>1 DEF SimInv, SimTypeOK, ActiveInv, OneOpenChannel
      <4>5. OutcomeIsOfLatestRun'
        BY <3>1, <3>3, <4>1 DEF SimInv, SimTypeOK, OutcomeIsOfLatestRun
      <4> QED
        BY <4>2, <4>3, <4>4, <4>5 DEF SimInv
    <3> QED
      BY <3>2, <3>3
  <2>4. CASE StartExecution(r)
    <3>1. SimTypeOK'
      BY <2>4 DEF StartExecution, SimInv, SimTypeOK, browser
    <3> QED
      BY <2>4, <3>1, ServerStep DEF StartExecution, SimInv, SimTypeOK, AnswersInv, browser
  <2>5. CASE Refuse(r)
    <3>1. SimTypeOK'
      BY <2>5 DEF Refuse, SimInv, SimTypeOK, server
    <3>2. post[r] = "waiting" /\ post' = [post EXCEPT ![r] = "refused"] /\ UNCHANGED <<ui, subs, row, task, wire>>
      BY <2>5 DEF Refuse, server
    <3> QED
      BY <3>1, <3>2 DEF SimInv, SimTypeOK, AnswersInv, Earned, ActiveInv, OutcomeIsOfLatestRun, OneOpenChannel
  <2>6. CASE LoadExecution(r)
    <3>1. SimTypeOK'
      BY <2>6 DEF LoadExecution, SimInv, SimTypeOK, browser
    <3> QED
      BY <2>6, <3>1, ServerStep DEF LoadExecution, SimInv, SimTypeOK, AnswersInv, browser
  <2>7. CASE Execute(r)
    <3>1. SimTypeOK'
      BY <2>7 DEF Execute, SimInv, SimTypeOK, browser, Outcomes
    <3>2. \/ task' = [task EXCEPT ![r] = "raised"]
          \/ task' = [task EXCEPT ![r] = "completed"] /\ row' = [row EXCEPT ![r] = "completed"]
      BY <2>7 DEF Execute
    <3>3. task[r] = "running" /\ row' \in {row, [row EXCEPT ![r] = "completed"]}
      BY <2>7 DEF Execute
    <3>4. \A s \in Runs : task'[s] = "completed" => row'[s] = "completed"
      BY <3>2, <3>3 DEF SimInv, SimTypeOK, AnswersInv
    <3>5. \A s \in Runs : row'[s] = "none" => task'[s] = "none"
      BY <3>2, <3>3 DEF SimInv, SimTypeOK, AnswersInv
    <3> QED
      BY <2>7, <3>1, <3>2, <3>3, <3>4, <3>5, ServerStep DEF Execute, SimInv, SimTypeOK, browser
  <2>8. CASE StoreFailure(r)
    <3>1. SimTypeOK'
      BY <2>8 DEF StoreFailure, SimInv, SimTypeOK, browser, Outcomes
    <3> QED
      BY <2>8, <3>1, ServerStep DEF StoreFailure, SimInv, SimTypeOK, AnswersInv, browser
  <2>9. CASE Publish(r)
    <3>0. /\ task[r] \in Outcomes /\ task' = [task EXCEPT ![r] = "over"] /\ row' = row
          /\ wire' = wire \cup {[run |-> r, status |-> task[r]]} \/ wire' = wire
          /\ UNCHANGED <<ui, subs, joined, post, started, edited>>
      BY <2>9 DEF Publish, browser
    <3>1. SimTypeOK'
      BY <3>0 DEF SimInv, SimTypeOK, Answer
    <3>3. ASSUME NEW a \in wire', a \notin wire PROVE Earned(a)'
      <4>1. a = [run |-> r, status |-> task[r]]
        BY <3>0, <3>3
      <4>2. a \in Answer /\ a.run = r /\ task'[r] = "over"
        BY <3>0, <4>1 DEF Answer, SimInv, SimTypeOK
      <4>3. a.status = "completed" => row'[r] = "completed"
        BY <3>0, <4>1 DEF SimInv, AnswersInv
      <4> QED
        BY <4>2, <4>3 DEF Earned
    <3> QED
      BY <3>0, <3>1, <3>3, ServerStep DEF Outcomes, SimInv, SimTypeOK, AnswersInv
  <2> QED
    BY <1>6, <2>1, <2>2, <2>3, <2>4, <2>5, <2>6, <2>7, <2>8, <2>9 DEF RunStep
<1>7. CASE UNCHANGED simVars
  BY <1>7 DEF simVars, SimInv, SimTypeOK, AnswersInv, Earned, ActiveInv, OutcomeIsOfLatestRun, OneOpenChannel
<1> QED
  BY <1>1, <1>2, <1>3, <1>4, <1>5, <1>6, <1>7 DEF SimNext

LEMMA RunInvariant == SimSpec => []SimInv
<1> QED
  BY SimInitInv, RunStepKeeps, PTL DEF SimSpec

\* Every reachable state has the declared types.
THEOREM RunTypeCorrect == SimSpec => []SimTypeOK
<1>1. SimInv => SimTypeOK
  BY DEF SimInv
<1> QED
  BY RunInvariant, <1>1, PTL

-----------------------------------------------------------------------------
(* The page on top of it.  An error message may outlive the failure it is   *)
(* about (a result may follow it), so what is inductive is whose it is.     *)

MessageInv ==
  /\ message \in {NoRun, ui.latest}
  /\ ui.state = "error" /\ message = NoRun => ui.results # NoAnswer /\ ui.results.run = ui.latest

PanelInv == SimInv /\ MessageInv

LEMMA PanelStepIsRunStep == [PanelNext]_panelVars => [SimNext]_simVars
<1> SUFFICES ASSUME [PanelNext]_panelVars PROVE [SimNext]_simVars
  OBVIOUS
<1>1. CASE PanelRun
  BY <1>1 DEF PanelRun, SimNext
<1>2. CASE PanelInvalidate
  BY <1>2 DEF PanelInvalidate, SimNext
<1>3. CASE TimerFires
  BY <1>3 DEF TimerFires
<1>4. CASE PanelRest
  BY <1>4 DEF PanelRest, SimNext, RunStep
<1>5. CASE \E a \in wire : PanelReceive(a)
  BY <1>5 DEF PanelReceive, SimNext
<1>6. CASE \E r \in Runs : PanelPostFails(r)
  BY <1>6 DEF PanelPostFails, SimNext, RunStep
<1>7. CASE UNCHANGED panelVars
  BY <1>7 DEF panelVars
<1> QED
  BY <1>1, <1>2, <1>3, <1>4, <1>5, <1>6, <1>7 DEF PanelNext

LEMMA MessageKept == PanelInv /\ [PanelNext]_panelVars => MessageInv'
<1> SUFFICES ASSUME PanelInv, [PanelNext]_panelVars PROVE MessageInv'
  OBVIOUS
<1> USE DEF Runs
<1>1. CASE PanelRun
  BY <1>1 DEF PanelRun, Run, PanelInv, SimInv, SimTypeOK, MessageInv
<1>2. CASE PanelInvalidate
  BY <1>2 DEF PanelInvalidate, Invalidate, MessageInv
<1>3. CASE TimerFires
  BY <1>3 DEF TimerFires, simVars, PanelInv, MessageInv
<1>4. CASE PanelRest
  <2>1. ui' = ui /\ message' = message
    BY <1>4 DEF PanelRest, panel, EditCircuit, Crash, Join, PostDone, StartExecution, Refuse, LoadExecution,
                Execute, StoreFailure, Publish, browser
  <2> QED
    BY <2>1 DEF PanelInv, MessageInv
<1>5. ASSUME NEW a \in wire, PanelReceive(a) PROVE MessageInv'
  <2>1. message' = message /\ a # NoAnswer
    BY <1>5 DEF PanelReceive, PanelInv, SimInv, SimTypeOK, Answer, NoAnswer
  <2>2. CASE a.run # ui.latest
    BY <1>5, <2>1, <2>2 DEF PanelReceive, Receive, PanelInv, MessageInv
  <2>3. CASE a.run = ui.latest
    <3>1. ui'.latest = ui.latest /\ ui'.results = a
      BY <1>5, <2>3 DEF PanelReceive, Receive, PanelInv, SimInv, SimTypeOK
    <3> QED
      BY <2>1, <2>3, <3>1 DEF PanelInv, MessageInv
  <2> QED
    BY <2>2, <2>3
<1>6. ASSUME NEW r \in Runs, PanelPostFails(r) PROVE MessageInv'
  <2>1. CASE r # ui.latest
    BY <1>6, <2>1 DEF PanelPostFails, PostFails, PanelInv, MessageInv
  <2>2. CASE r = ui.latest
    <3>1. ui'.latest = ui.latest /\ message' = r
      BY <1>6, <2>2 DEF PanelPostFails, PostFails, PanelInv, SimInv, SimTypeOK
    <3>2. r # NoRun
      BY DEF PanelInv
    <3> QED
      BY <2>2, <3>1, <3>2 DEF MessageInv
  <2> QED
    BY <2>1, <2>2
<1>7. CASE UNCHANGED panelVars
  BY <1>7 DEF panelVars, panel, simVars, PanelInv, MessageInv
<1> QED
  BY <1>1, <1>2, <1>3, <1>4, <1>5, <1>6, <1>7 DEF PanelNext

\* What the page tells of a simulation is true of the latest run, however many
\* runs were superseded and in whatever order answers and errors of earlier
\* ones arrive (runSimulation, run_and_publish and the alert of CircuitAnalysis).
THEOREM PageTellsTheTruth == PanelSpec => []PageTellsLatestRun
<1>1. PanelInit => PanelInv
  <2> SUFFICES ASSUME PanelInit PROVE PanelInv
    OBVIOUS
  <2>1. SimInv
    BY SimInitInv DEF PanelInit
  <2>2. MessageInv
    BY DEF PanelInit, SimInit, MessageInv
  <2> QED
    BY <2>1, <2>2 DEF PanelInv
<1>2. PanelInv /\ [PanelNext]_panelVars => PanelInv'
  BY PanelStepIsRunStep, RunStepKeeps, MessageKept DEF PanelInv
<1>3. PanelInv => PageTellsLatestRun
  <2> SUFFICES ASSUME PanelInv PROVE OutcomeIsOfLatestRun /\ FailureIsOfLatestRun
    BY DEF PageTellsLatestRun
  <2>1. OutcomeIsOfLatestRun
    BY DEF PanelInv, SimInv
  <2>2. FailureIsOfLatestRun
    BY DEF PanelInv, MessageInv, FailureIsOfLatestRun, FailureShown
  <2> QED
    BY <2>1, <2>2
<1> QED
  BY <1>1, <1>2, <1>3, PTL DEF PanelSpec

\* No channel stays subscribed but the one of the run that is waited for
\* (invalidateRun and activeUnsub).
THEOREM NoChannelLeaks == SimSpec => []OneOpenChannel
<1>1. SimInv => OneOpenChannel
  BY DEF SimInv
<1> QED
  BY RunInvariant, <1>1, PTL
===============================================================================
