---------------------------- MODULE MCContentRefs ----------------------------
(***************************************************************************)
(* The move to the CMS on small instances: the identity of its lessons, and *)
(* what becomes of their content.  The two share no state, so each          *)
(* behaviour moves one of them only: `part`.                                *)
(***************************************************************************)
EXTENDS ContentRefs, LessonBlocks, TLC

VARIABLE part
allVars == <<vars, lessonVars, part>>

Plain(type, q) == [type |-> type, targets |-> <<q>>, control |-> Missing, classical |-> Missing]
Measure(q, bits) == [Plain("M", q) EXCEPT !.classical = bits]
Circ(n, bits, gates) == [qubits |-> n, bits |-> bits, gates |-> gates]

\* Circuits lessons contain: aliases, measurements with and without bits, a
\* null control, and ones the validator refuses.
MCWritten ==
  {Circ(2, Missing, <<Plain("H", 0), [Plain("CNOT", 1) EXCEPT !.control = 0]>>),
   Circ(1, Missing, <<Plain("H", 0), Measure(0, Missing)>>),
   Circ(2, 1, <<Measure(1, <<0>>)>>),
   Circ(2, 0, <<[Plain("X", 1) EXCEPT !.control = Null]>>),
   Circ(2, 0, <<[Plain("SWAP", 0) EXCEPT !.targets = <<0, 1>>]>>),
   Circ(1, 0, <<Plain("CX", 0)>>),
   Circ(1, 0, <<Plain("X", 1)>>),
   Circ(1, 0, <<[Plain("H", 0) EXCEPT !.targets = Missing]>>)}

\* Documents, new ids, hook runs, requests and updates are interchangeable.
MCSymmetry ==
  Permutations(Docs) \cup Permutations(Minted) \cup Permutations(Hooks)
    \cup Permutations(Imports) \cup Permutations(Puts)

MCInit == Init /\ LessonInit /\ part \in {"identity", "content"}
MCNext ==
  /\ UNCHANGED part
  /\ \/ part = "identity" /\ Next /\ UNCHANGED lessonVars
     \/ part = "content" /\ LessonNext /\ UNCHANGED vars
MCSpec == MCInit /\ [][MCNext]_allVars
==============================================================================
