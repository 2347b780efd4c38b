----------------------------- MODULE GateCatalog ------------------------------
(***************************************************************************)
(* What a gate is: the matrix and the description the inspector shows of   *)
(* it (frontend/src/lib/gates.ts), the program that is made of it          *)
(* (backend/app/quantum/sandbox_adapter.py), and what that program does to *)
(* a state, through the definitions of qelib1.inc.                         *)
(*                                                                         *)
(* Abstractions.  Angles are whole numbers of quarter turns, so every      *)
(* amplitude is a Gaussian integer up to a common factor, which is left    *)
(* out, and T has none.  A state maps the basis states 0 .. 2^n - 1, in    *)
(* which qubit k has bit k, to <<re, im>>.                                 *)
(***************************************************************************)
EXTENDS Integers, Sequences, FiniteSets
LOCAL INSTANCE FiniteSetsExt
LOCAL INSTANCE SequencesExt

CONSTANT Angles    \* quarter turns a parameter may be set to

-----------------------------------------------------------------------------
(* Amplitudes                                                               *)

Plus(a, b) == <<a[1] + b[1], a[2] + b[2]>>
Times(a, b) == <<a[1] * b[1] - a[2] * b[2], a[1] * b[2] + a[2] * b[1]>>
Neg(a) == <<-a[1], -a[2]>>

Zero == <<0, 0>>
Unit == <<1, 0>>
Im == <<0, 1>>

At(table, angle) == table[(angle % Len(table)) + 1]

\* e^{i angle}
Phase(angle) == At(<<Unit, Im, Neg(Unit), Neg(Im)>>, angle)

\* cos and sin of half an angle; of an odd one both are multiplied by sqrt 2.
Cos(angle) == At(<<1, 1, 0, -1, -1, -1, 0, 1>>, angle)
Sin(angle) == At(<<0, 1, 1, 1, 0, -1, -1, -1>>, angle)
Real(x) == <<x, 0>>

-----------------------------------------------------------------------------
(* States                                                                   *)

QubitsOf(sv) == CHOOSE n \in 0 .. Cardinality(DOMAIN sv) : 2^n = Cardinality(DOMAIN sv)

Bit(i, k) == (i \div 2^k) % 2
Weight(a) == a[1] * a[1] + a[2] * a[2]
Norm(sv) == MapThenSumSet(LAMBDA i : Weight(sv[i]), DOMAIN sv)

\* The same state, up to a global phase and the factor that is left out.
SameState(u, v) ==
  /\ Norm(u) > 0 /\ Norm(v) > 0
  /\ \A i, j \in DOMAIN u : Times(u[i], v[j]) = Times(u[j], v[i])

\* A matrix acts on its operands, of which the first has the highest bit.
Row(i, on) == FoldLeft(LAMBDA r, k : 2 * r + Bit(i, k), 0, on)
SetBit(i, k, b) == i + (b - Bit(i, k)) * 2^k
Replaced(i, on, r) ==
  IF Len(on) = 1 THEN SetBit(i, on[1], r) ELSE SetBit(SetBit(i, on[1], r \div 2), on[2], r % 2)
SumOf(s) == FoldLeft(Plus, Zero, s)
Transformed(m, on, sv) ==
  [i \in DOMAIN sv |->
     SumOf([j \in 1 .. Len(m) |-> Times(m[Row(i, on) + 1][j], sv[Replaced(i, on, j - 1)])])]

-----------------------------------------------------------------------------
(* The catalogue                                                            *)

Params(type) ==
  CASE type \in {"RX", "RY", "RZ", "P", "RXX", "RYY", "RZZ"} -> <<"theta">>
    [] type \in {"U", "U3"} -> <<"theta", "phi", "lambda">>
    [] OTHER -> <<>>
TwoQubit == {"CX", "CZ", "SWAP", "RXX", "RYY", "RZZ"}
GateTypes == {"H", "X", "Y", "Z", "S", "I", "RX", "RY", "RZ", "U", "P", "SX", "U3"} \cup TwoQubit

Diagonal(d) == [i \in 1 .. Len(d) |-> [j \in 1 .. Len(d) |-> IF i = j THEN d[i] ELSE Zero]]
Permuted(p) == [i \in 1 .. Len(p) |-> [j \in 1 .. Len(p) |-> IF p[i] = j THEN Unit ELSE Zero]]

\* cos(theta/2) and -i sin(theta/2) of a product that swaps the rows as given.
Interaction(theta, signs) ==
  [i \in 1 .. 4 |-> [j \in 1 .. 4 |->
     IF i = j THEN Real(Cos(theta)) ELSE IF i + j = 5 THEN Times(Neg(Im), Real(signs[i] * Sin(theta))) ELSE Zero]]

\* matrix: the unitary the inspector shows, at the angles p.
Matrix(type, p) ==
  CASE type = "H" -> <<<<Unit, Unit>>, <<Unit, Neg(Unit)>>>>
    [] type = "X" -> Permuted(<<2, 1>>)
    [] type = "Y" -> <<<<Zero, Neg(Im)>>, <<Im, Zero>>>>
    [] type = "Z" -> Diagonal(<<Unit, Neg(Unit)>>)
    [] type = "S" -> Diagonal(<<Unit, Im>>)
    [] type = "I" -> Diagonal(<<Unit, Unit>>)
    [] type = "P" -> Diagonal(<<Unit, Phase(p[1])>>)
    [] type = "SX" -> LET a == <<1, 1>>  b == <<1, -1>> IN <<<<a, b>>, <<b, a>>>>
    [] type = "RX" -> LET c == Real(Cos(p[1]))  s == Times(Neg(Im), Real(Sin(p[1]))) IN <<<<c, s>>, <<s, c>>>>
    [] type = "RY" -> LET c == Real(Cos(p[1]))  s == Real(Sin(p[1])) IN <<<<c, Neg(s)>>, <<s, c>>>>
    [] type = "RZ" -> Diagonal(<<<<Cos(p[1]), -Sin(p[1])>>, <<Cos(p[1]), Sin(p[1])>>>>)
    [] type \in {"U", "U3"} ->
         LET c == Real(Cos(p[1]))  s == Real(Sin(p[1]))
         IN <<<<c, Neg(Times(Phase(p[3]), s))>>, <<Times(Phase(p[2]), s), Times(Phase(p[2] + p[3]), c)>>>>
    [] type = "CX" -> Permuted(<<1, 2, 4, 3>>)
    [] type = "CZ" -> Diagonal(<<Unit, Unit, Unit, Neg(Unit)>>)
    [] type = "SWAP" -> Permuted(<<1, 3, 2, 4>>)
    [] type = "RXX" -> Interaction(p[1], <<1, 1, 1, 1>>)
    [] type = "RYY" -> Interaction(p[1], <<-1, 1, 1, -1>>)
    [] type = "RZZ" ->
         LET e(s) == <<Cos(p[1]), -s * Sin(p[1])>> IN Diagonal(<<e(1), e(-1), e(-1), e(1)>>)

\* description: the axis a gate turns the arrow of its qubit about, how far.
Turn(type, p) ==
  CASE type = "X" -> <<"x", 2>> [] type = "SX" -> <<"x", 1>> [] type = "RX" -> <<"x", p[1]>>
    [] type = "Y" -> <<"y", 2>> [] type = "RY" -> <<"y", p[1]>>
    [] type = "Z" -> <<"z", 2>> [] type = "S" -> <<"z", 1>> [] type \in {"RZ", "P"} -> <<"z", p[1]>>
    [] OTHER -> <<"none", 0>>

-----------------------------------------------------------------------------
(* _spec_to_qasm                                                            *)

Op(name, p, on) == [name |-> name, p |-> p, on |-> on]

\* ryy is not in qelib1.inc.
MRyy(theta, a, b) ==
  <<Op("rx", <<1>>, <<a>>), Op("rx", <<1>>, <<b>>), Op("cx", <<>>, <<a, b>>), Op("rz", theta, <<b>>),
    Op("cx", <<>>, <<a, b>>), Op("rx", <<-1>>, <<a>>), Op("rx", <<1>>, <<b>>)>>
Ryy(theta, a, b) ==
  <<Op("rx", <<1>>, <<a>>), Op("rx", <<1>>, <<b>>), Op("cx", <<>>, <<a, b>>), Op("rz", theta, <<b>>),
    Op("cx", <<>>, <<a, b>>), Op("rx", <<-1>>, <<a>>), Op("rx", <<-1>>, <<b>>)>>

GateMap ==
  [H |-> "h", X |-> "x", Y |-> "y", Z |-> "z", S |-> "s", I |-> "id", CX |-> "cx", CZ |-> "cz", SWAP |-> "swap",
   SX |-> "sx", RX |-> "rx", RY |-> "ry", RZ |-> "rz", P |-> "u1", U |-> "u3", U3 |-> "u3", RXX |-> "rxx", RZZ |-> "rzz"]

\* The operands are the control, if there is one, and the target.
Program(type, p, on) ==
  IF type = "RYY" THEN Ryy(p, on[1], on[2]) ELSE <<Op(GateMap[type], p, on)>>

-----------------------------------------------------------------------------
(* qelib1.inc, which defines every instruction by U and CX                  *)

U(theta, phi, lambda, k) == <<Op("U", <<theta, phi, lambda>>, <<k>>)>>
CX(a, b) == <<Op("CX", <<>>, <<a, b>>)>>
Had(k) == U(1, 0, 2, k)
CZ(a, b) == Had(b) \o CX(a, b) \o Had(b)

Defined(op) ==
  LET a == op.on[1]
      b == op.on[2]
      p == op.p
  IN CASE op.name = "h" -> Had(a)
       [] op.name = "x" -> U(2, 0, 2, a)
       [] op.name = "y" -> U(2, 1, 1, a)
       [] op.name = "z" -> U(0, 0, 2, a)
       [] op.name = "s" -> U(0, 0, 1, a)
       [] op.name = "id" -> U(0, 0, 0, a)
       [] op.name = "sx" -> U(0, 0, -1, a) \o Had(a) \o U(0, 0, -1, a)
       [] op.name = "rx" -> U(p[1], -1, 1, a)
       [] op.name = "ry" -> U(p[1], 0, 0, a)
       [] op.name \in {"rz", "u1"} -> U(0, 0, p[1], a)
       [] op.name = "u3" -> U(p[1], p[2], p[3], a)
       [] op.name = "cx" -> CX(a, b)
       [] op.name = "cz" -> CZ(a, b)
       [] op.name = "swap" -> CX(a, b) \o CX(b, a) \o CX(a, b)
       [] op.name = "rzz" -> CX(a, b) \o U(0, 0, p[1], b) \o CX(a, b)
       [] op.name = "rxx" ->
            U(1, p[1], 0, a) \o Had(b) \o CX(a, b) \o U(0, 0, -p[1], b) \o CX(a, b) \o Had(b) \o U(1, -2, 2 - p[1], a)

\* The built-in gates.
Primitive(sv, op) ==
  IF op.name = "CX"
  THEN [i \in DOMAIN sv |-> sv[IF Bit(i, op.on[1]) = 1 THEN SetBit(i, op.on[2], 1 - Bit(i, op.on[2])) ELSE i]]
  ELSE LET c == Real(Cos(op.p[1]))
           s == Real(Sin(op.p[1]))
           lo(i) == sv[SetBit(i, op.on[1], 0)]
           hi(i) == sv[SetBit(i, op.on[1], 1)]
       IN [i \in DOMAIN sv |->
             IF Bit(i, op.on[1]) = 0 THEN Plus(Times(c, lo(i)), Neg(Times(Times(Phase(op.p[3]), s), hi(i))))
             ELSE Plus(Times(Times(Phase(op.p[2]), s), lo(i)), Times(Times(Phase(op.p[2] + op.p[3]), c), hi(i)))]

\* What a gate does to a state.
Executed(type, p, on, sv) ==
  FoldLeft(Primitive, sv, FlattenSeq([n \in DOMAIN Program(type, p, on) |-> Defined(Program(type, p, on)[n])]))
===============================================================================
