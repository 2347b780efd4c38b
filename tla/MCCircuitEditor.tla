---------------------------- MODULE MCCircuitEditor ---------------------------
\* CircuitEditor with a circuit that the whiteboard hands over.
EXTENDS CircuitEditor

One(q) == [targets |-> <<q>>, control |-> -1, two |-> FALSE]
Controlled(c, q) == [targets |-> <<q>>, control |-> c, two |-> TRUE]

\* H on qubit 0, CX from 0 to 1, X on qubit 1.
MCOrder == {[qubits |-> 2, gates |-> <<One(0), Controlled(0, 1), One(1)>>]}
===============================================================================
