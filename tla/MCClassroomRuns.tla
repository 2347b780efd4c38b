--------------------------- MODULE MCClassroomRuns ---------------------------
\* ClassroomRuns on small instances.
EXTENDS ClassroomRuns
===============================================================================
