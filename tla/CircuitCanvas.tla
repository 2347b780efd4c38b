---------------------------- MODULE CircuitCanvas -----------------------------
(***************************************************************************)
(* The circuit laboratory around the editor                                *)
(* (frontend/src/components/circuit: the canvas, the gate library, the     *)
(* inspector and the toolbar; hooks/useCircuitShortcuts.ts): which edit    *)
(* every click, key and drag asks of the store, and the preview of where a *)
(* dragged gate will land.                                                 *)
(*                                                                         *)
(* Abstractions.  The pointer is in a cell, or on the row above or below   *)
(* the qubits.  While a drag and drop of the browser is under way no other *)
(* input reaches the page.  The Delete key, which React Flow and the       *)
(* shortcuts both handle, removes once.  Pixels are left out, and with     *)
(* them that React Flow draws the other gates of a selection where the drag*)
(* left them.                                                              *)
(***************************************************************************)
EXTENDS CircuitEditor

VARIABLES armed,      \* selectedGateType: the kind of gate the next click places
          dragging,   \* draggingGateType: the kind of the library's card that is dragged
          over,       \* the drag that is over the canvas: the gate it carries and its cell
          preview     \* where the canvas shows that the gate will land

lab == <<armed, dragging, over, preview>>
labVars == <<vars, lab>>

Kinds == {"one", "two"}
NoDrag == [gate |-> "nothing", row |-> 0, column |-> 0]
NoPreview == [rows |-> {}, column |-> 0, valid |-> FALSE]

LabInit ==
  /\ Init
  /\ armed = "none" /\ dragging = "none" /\ over = NoDrag /\ preview = NoPreview

-----------------------------------------------------------------------------
(* Where a gate lands                                                      *)

Occupied(q, col) == \E i \in Ids(circuit) : Covers(circuit.gates[i], q, col)

\* A two-qubit gate takes the aimed row and the one below it, or the last two.
RowsFor(kind, q) ==
  IF kind = "one" THEN {q}
  ELSE IF q <= circuit.qubits - 2 THEN {q, q + 1} ELSE {circuit.qubits - 2, circuit.qubits - 1}
Inside(kind, q) == q \in 0 .. circuit.qubits - 1 /\ (kind = "two" => circuit.qubits >= 2)

FreeColumn(rows, from) ==
  CHOOSE col \in from .. MaxColumns :
    /\ \A q \in rows : ~Occupied(q, col)
    /\ \A earlier \in from .. col - 1 : \E q \in rows : Occupied(q, earlier)

Resolve(kind, q, col) ==
  IF Inside(kind, q)
    THEN [rows |-> RowsFor(kind, q), column |-> FreeColumn(RowsFor(kind, q), col), valid |-> TRUE]
    ELSE [rows |-> {IF q < 0 THEN 0 ELSE circuit.qubits - 1}, column |-> col, valid |-> FALSE]

\* The store looks for a free column once more, from the resolved one on.
Place(kind, q, col) ==
  LET target == Resolve(kind, q, col)
  IN IF target.valid
       THEN PlaceGate(CHOOSE top \in target.rows : \A r \in target.rows : top <= r, kind = "two", target.column)
       ELSE UNCHANGED vars

-----------------------------------------------------------------------------
(* Dragging a gate from the library                                        *)

Idle == dragging = "none" /\ over = NoDrag

DragCard(kind) ==
  /\ Idle /\ dragging' = kind
  /\ UNCHANGED <<vars, armed, over, preview>>

\* The drag ends outside the canvas; an effect then clears the preview.
DragEnd ==
  /\ dragging # "none"
  /\ dragging' = "none" /\ over' = NoDrag /\ preview' = NoPreview
  /\ UNCHANGED <<vars, armed>>

\* A card, text or a file, or a card of another window's library ("one" or
\* "two" while nothing is dragged here).
DragOver(gate, q, col) ==
  /\ IF dragging # "none" THEN gate = dragging ELSE over.gate \in {"nothing", gate}
  /\ over' = [gate |-> gate, row |-> q, column |-> col]
  /\ LET kind == IF dragging # "none" THEN dragging ELSE armed
     IN preview' = IF kind = "none" THEN preview ELSE Resolve(kind, q, col)
  /\ preview'.column \in Columns
  /\ UNCHANGED <<vars, armed, dragging>>

DragLeave ==
  /\ over # NoDrag
  /\ over' = NoDrag /\ preview' = NoPreview
  /\ UNCHANGED <<vars, armed, dragging>>

\* The gate the drop carries, or else the armed one.
Dropped == IF over.gate \in Kinds THEN over.gate ELSE armed

\* The row is clamped into the circuit.
MDrop ==
  /\ over # NoDrag
  /\ over' = NoDrag /\ preview' = NoPreview /\ dragging' = "none"
  /\ IF Dropped = "none" THEN UNCHANGED vars
     ELSE Place(Dropped, IF over.row < circuit.qubits THEN over.row ELSE circuit.qubits - 1, over.column)
  /\ UNCHANGED armed
Drop ==
  /\ over # NoDrag
  /\ over' = NoDrag /\ preview' = NoPreview /\ dragging' = "none"
  /\ IF Dropped = "none" THEN UNCHANGED vars ELSE Place(Dropped, over.row, over.column)
  /\ UNCHANGED armed

-----------------------------------------------------------------------------
(* Arming a gate, and placing it with a click                              *)

Arm(kind) ==
  /\ Idle /\ armed' = kind
  /\ UNCHANGED <<vars, dragging, over, preview>>
ClickCard(kind) == Arm(IF armed = kind THEN "none" ELSE kind)
ArmKey(kind) == Arm(kind)
CancelPlacement == armed # "none" /\ Arm("none")

\* The cells that a gate already covers offer no button.
ClickCell(q, col) ==
  /\ Idle /\ armed # "none" /\ q < circuit.qubits /\ ~Occupied(q, col)
  /\ Place(armed, q, col)
  /\ armed' = "none"
  /\ UNCHANGED <<dragging, over, preview>>

\* The "+" at the end of a wire.
AppendToWire(q) ==
  /\ Idle /\ armed # "none" /\ q < circuit.qubits
  /\ IF Inside(armed, q) THEN PlaceGate(q, armed = "two", 0) ELSE UNCHANGED vars
  /\ armed' = "none"
  /\ UNCHANGED <<dragging, over, preview>>

-----------------------------------------------------------------------------
(* Gates on the canvas                                                     *)

Still == UNCHANGED <<armed, dragging, over, preview>>

\* A click, a selection box, the empty canvas, or Escape when nothing is armed.
SelectOnCanvas(S) == Idle /\ Select(S) /\ Still
EscapeKey == Idle /\ armed = "none" /\ Select({}) /\ Still

\* A drop or a step that is blocked or goes outside leaves the gate in place.
MoveTo(id, q, col) == MoveGate(id, q, col) \/ (~ENABLED MoveGate(id, q, col) /\ UNCHANGED vars)

\* React Flow moves all the selected gates; the drop settles only the grabbed
\* one, and redraws it on its cell.
DragGate(id, q, col) == Idle /\ id \in selected /\ MoveTo(id, q, col) /\ Still

ArrowKey(dq, dcol) ==
  /\ Idle
  /\ \E id \in selected :
       /\ selected = {id}
       /\ LET col == circuit.gates[id].column + dcol
          IN col < MaxColumns /\ MoveTo(id, circuit.gates[id].qubit + dq, IF col < 0 THEN 0 ELSE col)
  /\ Still

\* The inspector shows the only selected gate.
ChooseQubits(q, c) == Idle /\ (\E id \in selected : selected = {id} /\ UpdateGate(id, q, c)) /\ Still

\* The other keys, the inspector's buttons and the toolbar.
UndoKey == Idle /\ Undo /\ Still
RedoKey == Idle /\ Redo /\ Still
DuplicateButton == Idle /\ DuplicateSelected /\ Still
DeleteKey == Idle /\ RemoveSelected /\ Still
AddQubitButton == Idle /\ AddQubit /\ Still
QubitMenu(n) == Idle /\ SetQubitCount(n) /\ Still
\* Off for an empty circuit that no simulation was run of.
ClearButton == Idle /\ ClearCircuit /\ Still

Aims == -1 .. MaxQubits
LabNext ==
  \/ DragEnd \/ DragLeave \/ Drop \/ CancelPlacement \/ EscapeKey
  \/ UndoKey \/ RedoKey \/ DuplicateButton \/ DeleteKey \/ AddQubitButton \/ ClearButton
  \/ \E n \in 1 .. MaxQubits : QubitMenu(n)
  \/ \E kind \in Kinds : DragCard(kind) \/ ClickCard(kind) \/ ArmKey(kind)
  \/ \E gate \in Kinds \cup {"none"}, q \in Aims, col \in Columns : q <= circuit.qubits /\ DragOver(gate, q, col)
  \/ \E q \in Qubits, col \in Columns : ClickCell(q, col)
  \/ \E q \in Qubits : AppendToWire(q)
  \/ \E S \in SUBSET Ids(circuit) : SelectOnCanvas(S)
  \/ \E id \in Ids(circuit), q \in Qubits, col \in Columns : DragGate(id, q, col)
  \/ \E d \in {<<-1, 0>>, <<1, 0>>, <<0, -1>>, <<0, 1>>} : ArrowKey(d[1], d[2])
  \/ \E q, c \in Qubits : ChooseQubits(q, c)

LabSpec == LabInit /\ [][LabNext]_labVars

-----------------------------------------------------------------------------
(* Properties                                                              *)

\* No preview outlives its drag (CircuitCanvas.tsx:83, "A library drag that
\* ends outside the canvas leaves no preview behind"), and a drag of this
\* window sees the cells that its drop would fill now.
PreviewIsLive ==
  preview # NoPreview =>
    /\ over # NoDrag
    /\ over.gate \in {"none", dragging} => preview = Resolve(Dropped, over.row, over.column)

\* CircuitCanvas.tsx:93 and 262: a drop puts its gate exactly where the
\* preview showed it, and nowhere when the preview was invalid.  A drag from
\* another window previews the armed gate and is left out.
DropLandsWherePreviewed ==
  [][\A id \in Ids(circuit') \ Ids(circuit) :
       over # NoDrag /\ over.gate \in {"none", dragging} =>
         /\ preview.valid
         /\ circuit'.gates[id].column = preview.column
         /\ {circuit'.gates[id].qubit, circuit'.gates[id].control} = preview.rows]_labVars
===============================================================================
