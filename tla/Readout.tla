------------------------------- MODULE Readout --------------------------------
(***************************************************************************)
(* What is read out of a circuit: the amplitudes and the counts that a      *)
(* simulation reports (the script of backend/app/quantum/sandbox_adapter.py)*)
(* and the panels that show them (frontend/src/components/circuit/analysis, *)
(* components/dashboard/CircuitResultsPanel.tsx, lib/quantum-state.ts).     *)
(*                                                                          *)
(* Abstractions.  Those of GateCatalog.  A label is the number its bits     *)
(* spell.  A probability is a weight of a state or of the counts, which are *)
(* any that the state allows.  A run is one step: CircuitRun is about its   *)
(* failures.  Only one classical register is declared.                      *)
(***************************************************************************)
EXTENDS GateCatalog
LOCAL INSTANCE FiniteSetsExt
LOCAL INSTANCE SequencesExt

CONSTANTS MaxRegister,  \* bound: qubits of a circuit
          MaxSteps,     \* bound: gates and measurements of a circuit
          MaxUnder,     \* bound: the same, while results are shown
          Palette,      \* types of gates that are placed
          Shots,        \* shots of a run
          AllStates,    \* ALL_STATES_MAX_QUBITS
          MaxTerms,     \* terms of a ket expression
          Nothing       \* null

VARIABLES psi,       \* the state without the measurements
          branches,  \* what the measurements have left, with what they recorded
          wired,     \* the qubit that was measured last into each classical bit
          measured,  \* the qubits with a measurement
          mid,       \* a gate follows a measurement on its qubit
          steps,
          reported,  \* results
          chosen     \* the qubit chosen on the Bloch panel

program == <<psi, branches, wired, measured, mid, steps>>
readoutVars == <<program, reported, chosen>>

Register == 0 .. QubitsOf(psi) - 1
Zeros(n) == [i \in 0 .. 2^n - 1 |-> IF i = 0 THEN Unit ELSE Zero]
NoBit == -1

Bits(n, v) == [c \in 0 .. n - 1 |-> v]
Untouched(n) == {[sv |-> Zeros(n), bits |-> Bits(n, 0)]}

ReadoutInit ==
  /\ \E n \in 1 .. MaxRegister : psi = Zeros(n) /\ branches = Untouched(n) /\ wired = Bits(n, NoBit)
  /\ measured = {} /\ mid = FALSE /\ steps = 0 /\ reported = Nothing /\ chosen = 0

-----------------------------------------------------------------------------
(* The script of the sandbox                                                *)

\* A measurement leaves what agrees with its value, and records that.
Projected(b, q, c, v) ==
  [sv |-> [i \in DOMAIN b.sv |-> IF Bit(i, q) = v THEN b.sv[i] ELSE Zero], bits |-> [b.bits EXCEPT ![c] = v]]
AfterMeasuring(bs, q, c) == {b \in {Projected(b, q, c, v) : b \in bs, v \in {0, 1}} : Norm(b.sv) > 0}

\* Without a measurement every qubit is measured.
NoMeasurement == \A c \in DOMAIN wired : wired[c] = NoBit
AllMeasured == FoldLeft(LAMBDA bs, k : AfterMeasuring(bs, k - 1, k - 1), branches, [k \in 1 .. QubitsOf(psi) |-> k])
Sampled == IF NoMeasurement THEN AllMeasured ELSE branches
SampledFrom(c) == IF NoMeasurement THEN c ELSE wired[c]

Label(bits) == MapThenSumSet(LAMBDA c : bits[c] * 2^c, DOMAIN bits)
WeightOf(label) == MapThenSumSet(LAMBDA b : Norm(b.sv), {b \in Sampled : Label(b.bits) = label})
Labels == {Label(b.bits) : b \in Sampled}

\* remove_final_measurements takes away what ends the wire of a qubit; a circuit
\* that keeps a measurement has no state vector.
Statevector == IF mid THEN Nothing ELSE psi

-----------------------------------------------------------------------------
(* Actions                                                                  *)

OperandsOf(type) ==
  IF type \in TwoQubit THEN {on \in Register \X Register : on[1] # on[2]} ELSE {<<q>> : q \in Register}
Settings(type) == [1 .. Len(Params(type)) -> Angles]

MayAdd == steps < IF reported = Nothing THEN MaxSteps ELSE MaxUnder

\* A gate is added at the end of the circuit; results stay.
MAppendGate(type) ==
  /\ MayAdd /\ steps' = steps + 1
  /\ \E on \in OperandsOf(type), p \in Settings(type) :
       /\ psi' = Executed(type, p, on, psi)
       /\ branches' = {[b EXCEPT !.sv = Executed(type, p, on, @)] : b \in branches}
       /\ mid' = (mid \/ \E c \in DOMAIN wired : wired[c] \in ToSet(on))
  /\ UNCHANGED <<wired, measured, reported, chosen>>
AppendGate(type) ==
  /\ MayAdd /\ steps' = steps + 1
  /\ \E on \in OperandsOf(type), p \in Settings(type) :
       /\ psi' = Executed(type, p, on, psi)
       /\ branches' = {[b EXCEPT !.sv = Executed(type, p, on, @)] : b \in branches}
       /\ mid' = (mid \/ measured \cap ToSet(on) # {})
  /\ UNCHANGED <<wired, measured, reported, chosen>>

AppendMeasurement(q, c) ==
  /\ MayAdd /\ steps' = steps + 1
  /\ branches' = AfterMeasuring(branches, q, c)
  /\ wired' = [wired EXCEPT ![c] = q] /\ measured' = measured \cup {q}
  /\ UNCHANGED <<psi, mid, reported, chosen>>

\* A run: any counts that add up to the shots.
Simulate ==
  \E n \in [Labels -> 0 .. Shots] :
    /\ MapThenSumSet(LAMBDA l : n[l], Labels) = Shots
    /\ reported' = [sv |-> Statevector, width |-> QubitsOf(psi),
                    counts |-> [l \in {m \in Labels : n[m] > 0} |-> n[l]]]
    /\ UNCHANGED <<program, chosen>>

\* The options are the qubits of the state that is shown.
ChooseQubit(q) ==
  /\ reported # Nothing /\ reported.sv # Nothing /\ q < QubitsOf(reported.sv)
  /\ chosen' = q
  /\ UNCHANGED <<program, reported>>

\* clearCircuit, loadFromSpec: the results go; what the panel has chosen stays.
NewCircuit(n) ==
  /\ psi' = Zeros(n) /\ branches' = Untouched(n) /\ wired' = Bits(n, NoBit)
  /\ measured' = {} /\ mid' = FALSE /\ steps' = 0
  /\ reported' = Nothing /\ UNCHANGED chosen

ReadoutNext ==
  \/ \E type \in Palette : AppendGate(type)
  \/ \E q, c \in Register : AppendMeasurement(q, c)
  \/ Simulate
  \/ \E q \in 0 .. MaxRegister - 1 : ChooseQubit(q)
  \/ \E n \in 1 .. MaxRegister : NewCircuit(n)

ReadoutSpec == ReadoutInit /\ [][ReadoutNext]_readoutVars

-----------------------------------------------------------------------------
(* The panels                                                               *)

\* blochVector: of a state that is not normalised.
Over(sv, k, f(_, _)) ==
  MapThenSumSet(LAMBDA i : f(sv[i], sv[SetBit(i, k, 1)]), {i \in DOMAIN sv : Bit(i, k) = 0})
BlochVector(sv, k) ==
  [x |-> 2 * Over(sv, k, LAMBDA a, b : a[1] * b[1] + a[2] * b[2]),
   y |-> -2 * Over(sv, k, LAMBDA a, b : a[2] * b[1] - a[1] * b[2]),
   z |-> Over(sv, k, LAMBDA a, b : Weight(a) - Weight(b))]

Square(v) == v.x * v.x + v.y * v.y + v.z * v.z

\* BlochSpherePanel: the arrow, and r < 0.99 is called entangled.
BlochPanel(sv) ==
  LET k == Min({chosen, Max({QubitsOf(sv) - 1, 0})})
      v == BlochVector(sv, k)
  IN [qubit |-> k, arrow |-> v, entangled |-> 10000 * Square(v) < 9801 * Norm(sv) * Norm(sv)]

\* StateVectorPanel: rows that are not greyed out, and the first of them.
VisibleRows(sv) == {i \in DOMAIN sv : Weight(sv[i]) > 0}
Ket(sv) ==
  LET terms == SetToSortSeq(VisibleRows(sv), LAMBDA i, j : i < j)
      shown == SubSeq(terms, 1, Min({MaxTerms, Len(terms)}))
  IN [shown |-> shown, hidden |-> Len(terms) - Len(shown)]

\* MeasurementResultsPanel: every label of a small register, or those observed.
Bars(r) ==
  [l \in IF r.width <= AllStates THEN 0 .. 2^r.width - 1 ELSE DOMAIN r.counts |->
     IF l \in DOMAIN r.counts THEN r.counts[l] ELSE 0]
Tallest(bars) == {l \in DOMAIN bars : bars[l] > 0 /\ \A m \in DOMAIN bars : bars[m] <= bars[l]}
TotalShots(r) == MapThenSumSet(LAMBDA l : r.counts[l], DOMAIN r.counts)

\* StateVectorTable of the dashboard and the lessons: a row for every amplitude,
\* with a phase where there is one, or for what was counted.
StateTable(r) ==
  IF r.sv # Nothing
    THEN [l \in DOMAIN r.sv |-> [weight |-> Weight(r.sv[l]), of |-> Norm(r.sv), phase |-> Weight(r.sv[l]) > 0]]
    ELSE [l \in DOMAIN r.counts |-> [weight |-> r.counts[l], of |-> TotalShots(r), phase |-> FALSE]]
Likely(table) == {l \in DOMAIN table : table[l].weight > 0}

\* ProbabilityChart of the dashboard: what was counted; its sphere: what is
\* above one in a hundred, which keyInsight puts into words, the likely first.
Chart(r) == DOMAIN r.counts
Markers(r) == {l \in DOMAIN r.counts : 100 * r.counts[l] > TotalShots(r)}
Insight(r) ==
  SetToSortSeq(Markers(r), LAMBDA l, m : r.counts[l] > r.counts[m] \/ (r.counts[l] = r.counts[m] /\ l < m))

-----------------------------------------------------------------------------
(* Properties                                                               *)

Turned(v, axis, quarters) ==
  LET x == At(<<1, 0, -1, 0>>, quarters)
      y == At(<<0, 1, 0, -1>>, quarters)
  IN CASE axis = "x" -> [v EXCEPT !.y = x * v.y - y * v.z, !.z = y * v.y + x * v.z]
       [] axis = "y" -> [v EXCEPT !.z = x * v.z - y * v.x, !.x = y * v.z + x * v.x]
       [] axis = "z" -> [v EXCEPT !.x = x * v.x - y * v.y, !.y = y * v.x + x * v.y]
       [] OTHER -> v

SameArrow(v, n, w, m) == v.x * m = w.x * n /\ v.y * m = w.y * n /\ v.z * m = w.z * n

\* Whatever is placed next to other gates does what the inspector says of it: the program the
\* backend makes of the gate acts as the matrix that is shown, the control
\* first; the Bloch sphere shows the rotation the description tells (gates.ts:100
\* "Rotates the state by θ around the X axis of the Bloch sphere"); and a
\* one-qubit gate moves no other qubit's arrow.
GatesDoWhatTheySay ==
  NoMeasurement /\ steps \in 1 .. MaxSteps - 1 /\ reported = Nothing =>
    \A type \in GateTypes : \A on \in OperandsOf(type), p \in Settings(type) :
      LET after == Executed(type, p, on, psi)
          turn == Turn(type, p)
          moved(k, v) == SameArrow(v, Norm(psi), BlochVector(after, k), Norm(after))
      IN /\ SameState(after, Transformed(Matrix(type, p), on, psi))
         /\ type \notin TwoQubit =>
              /\ \A k \in Register \ {on[1]} : moved(k, BlochVector(psi, k))
              /\ turn[1] # "none" => moved(on[1], Turned(BlochVector(psi, on[1]), turn[1], turn[2]))

\* The amplitudes that are shown are those of what was sampled
\* (sandbox_adapter.py:28-33): measured as the circuit measures, they give each
\* outcome the weight it is sampled with, wherever the measurements stand.
MarginalOf(sv, label) ==
  MapThenSumSet(LAMBDA i : Weight(sv[i]),
    {i \in DOMAIN sv :
       label = Label([c \in DOMAIN wired |-> IF SampledFrom(c) = NoBit THEN 0 ELSE Bit(i, SampledFrom(c))])})

\* Unentangled: the two halves of the state are multiples of one vector.
Separate(sv, k) ==
  \A i, j \in {i \in DOMAIN sv : Bit(i, k) = 0} :
    Times(sv[i], sv[SetBit(j, k, 1)]) = Times(sv[j], sv[SetBit(i, k, 1)])

\* The panels agree with each other, about whichever circuit the results are of:
\* what is shown of the amplitudes is what is sampled, and after a measurement that
\* a gate follows on its qubit nothing is; the qubit of the sphere exists, and is
\* called entangled only when it is - and whenever it is, as the angles here are
\* quarter turns (with small ones r >= 0.99 may be entangled too); the ket leaves out no row
\* that it does not count; every shot is in a bar, and the chart has the same
\* outcomes; the table has the rows of the state panel, or without a state the
\* outcomes of the chart; and the insight names a tallest bar first.
PanelsAgree ==
  /\ steps > 0 /\ Statevector # Nothing =>
       \A l \in 0 .. 2^QubitsOf(psi) - 1 : MarginalOf(Statevector, l) = WeightOf(l)
  /\ reported # Nothing =>
       LET bars == Bars(reported) IN
       /\ reported.sv # Nothing =>
            LET sv == reported.sv
                panel == BlochPanel(sv)
            IN /\ panel.qubit \in 0 .. QubitsOf(sv) - 1
               /\ panel.entangled <=> ~Separate(sv, panel.qubit)
               /\ Len(Ket(sv).shown) + Ket(sv).hidden = Cardinality(VisibleRows(sv))
       /\ MapThenSumSet(LAMBDA l : bars[l], DOMAIN bars) = Shots
       /\ Chart(reported) = {l \in DOMAIN bars : bars[l] > 0}
       /\ Likely(StateTable(reported)) =
            IF reported.sv # Nothing THEN VisibleRows(reported.sv) ELSE Chart(reported)
       /\ Insight(reported) # <<>> => Insight(reported)[1] \in Tallest(bars)

-----------------------------------------------------------------------------
(* What the code does not keep                                              *)

\* CircuitResultsPanel.tsx:15: one label above one in a hundred is called
\* deterministic, also when rarer ones were counted or the shots were few.
InsightIsTrue ==
  reported # Nothing /\ Len(Insight(reported)) = 1 => Cardinality(DOMAIN reported.counts) = 1

\* StateVectorPanel.tsx:50, BlochSpherePanel.tsx:165: a run without a state
\* vector is shown as if there had been no run.
NullIsExplained == reported # Nothing => reported.sv # Nothing

\* CircuitResultsPanel.tsx:45-70: the table and the chart are about the same
\* bits.  The rows are labelled by qubits, the bars by classical bits, and a
\* lesson may measure a qubit into another's bit.
TableMatchesChart ==
  reported # Nothing => Chart(reported) \subseteq Likely(StateTable(reported))
===============================================================================
