---------------------------- MODULE MCSimulationBlock -------------------------
\* SimulationBlock on small instances.
EXTENDS SimulationBlock
===============================================================================
