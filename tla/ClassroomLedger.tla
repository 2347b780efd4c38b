--------------------------- MODULE ClassroomLedger ---------------------------
(***************************************************************************)
(* What the AI Classroom promises about one session, without saying how:   *)
(* turns begin one after another, at most one turn owns the board, only    *)
(* the owner writes the whiteboard log, and a turn is answered at most     *)
(* once, by giving the board up.  Beginning a turn takes the board from    *)
(* whoever held it; an owner may also lose the board without an answer     *)
(* (interrupted or failed).                                                *)
(*                                                                         *)
(* ClassroomRuns (the service with its processes, leases and awaits)       *)
(* implements this module; ClassroomClient takes it as its server.         *)
(***************************************************************************)
EXTENDS Naturals, Sequences

CONSTANTS MaxTurns,   \* turns of the session (bounds the model)
          MaxEvents,  \* length of the log (bounds the model)
          NoRun       \* active_run_id IS NULL

Turns == 1 .. MaxTurns

VARIABLES begun,     \* how many turns have begun; turn t is the t-th to begin
          owner,     \* the turn that owns the board, or NoRun
          log,       \* log[n] is the turn that wrote sequence number n
          answered   \* turns with an assistant message

ledgerVars == <<begun, owner, log, answered>>

LedgerInit ==
  /\ begun = 0
  /\ owner = NoRun
  /\ log = <<>>
  /\ answered = {}

\* A new user message: the next turn takes the board from any other.
Begin ==
  /\ begun < MaxTurns
  /\ begun' = begun + 1
  /\ owner' = begun + 1
  /\ UNCHANGED <<log, answered>>

\* The owner writes the next sequence number.
Write ==
  /\ owner # NoRun
  /\ Len(log) < MaxEvents
  /\ log' = Append(log, owner)
  /\ UNCHANGED <<begun, owner, answered>>

\* The owner's answer is stored and the board is free.
Answer ==
  /\ owner # NoRun
  /\ answered' = answered \cup {owner}
  /\ owner' = NoRun
  /\ UNCHANGED <<begun, log>>

\* The owner is interrupted or fails.
Release ==
  /\ owner # NoRun
  /\ owner' = NoRun
  /\ UNCHANGED <<begun, log, answered>>

LedgerNext == Begin \/ Write \/ Answer \/ Release

LedgerSpec == LedgerInit /\ [][LedgerNext]_ledgerVars
=============================================================================
