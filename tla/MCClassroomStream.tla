-------------------------- MODULE MCClassroomStream --------------------------
\* The publishing end of a classroom channel: the runs of one session in one
\* process.  One run produces more, next to one that mostly competes for the
\* channel.
EXTENDS ClassroomRealtime

MCMaxItems == <<2, 1>>
==============================================================================
