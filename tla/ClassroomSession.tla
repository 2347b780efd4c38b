--------------------------- MODULE ClassroomSession ---------------------------
(***************************************************************************)
(* Which session of the AI Classroom a tab is in                           *)
(* (frontend/src/stores/classroomStore.ts, components/classroom): it is    *)
(* created by the first message, saved in the browser, restored when the   *)
(* page is opened, and left for a new one, while requests that belong to   *)
(* another one are in flight.                                              *)
(*                                                                         *)
(* sendMessage reads the session before it awaits the access token and     *)
(* goes on with what it has read; the store is a global of the browser, so *)
(* it goes on also when the page has been left.                            *)
(*                                                                         *)
(* Abstractions.  One tab: others share what is saved, and the last one    *)
(* wins.  Of a session only the student's messages are kept, and whether a *)
(* turn is running; turns, events and the board are the subject of         *)
(* ClassroomClient.  A request is handled by the server when it is         *)
(* answered or when it fails.                                              *)
(***************************************************************************)
EXTENDS Naturals

CONSTANTS Messages,     \* what the student writes, each once
          NoSession,
          MaxSessions,  \* bound: sessions this account creates
          MaxOpened,    \* bound: how often the page is opened
          MaxFailures       \* bound: requests that fail for want of a network

\* Session 0 was saved by another account of this browser.
Foreign == 0
Sessions == 0 .. MaxSessions

ASSUME SessionAssumption ==
  NoSession \notin Sessions /\ MaxSessions \in Nat /\ MaxOpened \in Nat /\ MaxFailures \in Nat

VARIABLES created,   \* sessions the server has created: 1 .. created
          posted,    \* per session, the messages the server has stored
          saved,     \* the id in localStorage
          tab,       \* the store, and whether the page is open
          asks,      \* calls of sendMessage in flight
          restores,  \* calls of restore in flight
          opened, failures

sessionVars == <<created, posted, saved, tab, asks, restores, opened, failures>>
requests == <<asks, restores>>

Tab == [open : BOOLEAN, session : Sessions \cup {NoSession}, channel : Sessions \cup {NoSession},
        restoring : BOOLEAN, running : BOOLEAN, pane : SUBSET Messages]
AskCall == [message : Messages, stage : {"token", "creating", "posting"}, session : Sessions \cup {NoSession}]
RestoreCall == [opening : 1 .. MaxOpened, session : Sessions]

\* clearBookkeeping, which also leaves the channel, and INITIAL.
Cleared(open, s) ==
  [open |-> open, session |-> s, channel |-> NoSession, restoring |-> FALSE, running |-> FALSE, pane |-> {}]

SessionInit ==
  /\ created = 0 /\ posted = [s \in Sessions |-> {}]
  /\ saved \in {NoSession, Foreign}
  /\ tab = Cleared(FALSE, NoSession)
  /\ asks = {} /\ restores = {} /\ opened = 0 /\ failures = 0

-----------------------------------------------------------------------------
(* Opening and leaving the page                                            *)

\* restoreSaved, and restore up to its requests.
OpenPage ==
  /\ ~tab.open /\ opened < MaxOpened /\ opened' = opened + 1
  /\ IF saved = NoSession \/ tab.session = saved
       THEN tab' = [tab EXCEPT !.open = TRUE] /\ UNCHANGED restores
       ELSE /\ tab' = [Cleared(TRUE, saved) EXCEPT !.channel = saved, !.restoring = TRUE]
            /\ restores' = restores \cup {[opening |-> opened', session |-> saved]}
  /\ UNCHANGED <<created, posted, saved, asks, failures>>

\* The effect's cleanup: reset, which keeps what is saved.
LeavePage ==
  /\ tab.open /\ tab' = Cleared(FALSE, NoSession)
  /\ UNCHANGED <<created, posted, saved, requests, opened, failures>>

NewSession ==
  /\ tab.open /\ tab' = Cleared(TRUE, NoSession) /\ saved' = NoSession
  /\ UNCHANGED <<created, posted, requests, opened, failures>>

\* The session and its state have arrived.
RestoreAnswered(r) ==
  /\ r.session # Foreign /\ restores' = restores \ {r}
  /\ IF tab.session # r.session THEN tab' = tab
     ELSE \E running \in {FALSE, posted[r.session] # {}} :
            tab' = [tab EXCEPT !.pane = posted[r.session], !.running = running, !.restoring = FALSE]
  /\ UNCHANGED <<created, posted, saved, asks, opened, failures>>

\* The server does not know the session of another account; any other failure
\* keeps what is saved.
RestoringFails(r) ==
  /\ restores' = restores \ {r}
  /\ r.session # Foreign => failures < MaxFailures
  /\ failures' = IF r.session = Foreign THEN failures ELSE failures + 1
  /\ tab' = IF tab.session = r.session THEN Cleared(tab.open, NoSession) ELSE tab
  /\ saved' = IF tab.session = r.session /\ r.session = Foreign THEN NoSession ELSE saved
  /\ UNCHANGED <<created, posted, asks, opened>>

-----------------------------------------------------------------------------
(* Sending                                                                 *)

\* The composer waits for the turn that runs; the suggestions of an empty
\* conversation do not.
CanAsk == tab.open /\ ~tab.restoring /\ (~tab.running \/ tab.pane = {})

Ask(m) ==
  /\ CanAsk
  /\ \A a \in asks : a.message # m
  /\ \A s \in Sessions : m \notin posted[s]
  /\ m \notin tab.pane
  /\ asks' = asks \cup {[message |-> m, stage |-> "token", session |-> tab.session]}
  /\ UNCHANGED <<created, posted, saved, tab, restores, opened, failures>>

\* From the session to POST /turns: a channel that is open is kept, whichever
\* session it is of.
Posting(t, a, s) ==
  /\ tab' = [t EXCEPT !.channel = IF @ = NoSession THEN s ELSE @, !.running = TRUE, !.pane = @ \cup {a.message}]
  /\ asks' = (asks \ {a}) \cup {[a EXCEPT !.stage = "posting", !.session = s]}

\* The access token has arrived.
HaveToken(a) ==
  /\ a.stage = "token"
  /\ IF a.session = NoSession
       THEN asks' = (asks \ {a}) \cup {[a EXCEPT !.stage = "creating"]} /\ UNCHANGED tab
       ELSE Posting(tab, a, a.session)
  /\ UNCHANGED <<created, posted, saved, restores, opened, failures>>

\* POST /sessions has answered.
MCreated(a) ==
  /\ a.stage = "creating" /\ created < MaxSessions
  /\ created' = created + 1 /\ saved' = created + 1
  /\ Posting([tab EXCEPT !.session = created + 1, !.restoring = FALSE], a, created + 1)
  /\ UNCHANGED <<posted, restores, opened, failures>>
Created(a) ==
  /\ a.stage = "creating" /\ created < MaxSessions
  /\ created' = created + 1 /\ saved' = created + 1
  /\ Posting(Cleared(tab.open, created + 1), a, created + 1)
  /\ UNCHANGED <<posted, restores, opened, failures>>

\* POST /turns has answered 202.
TurnPosted(a) ==
  /\ a.stage = "posting" /\ asks' = asks \ {a}
  /\ posted' = [posted EXCEPT ![a.session] = @ \cup {a.message}]
  /\ UNCHANGED <<created, saved, tab, restores, opened, failures>>

\* Either request fails; the server may have handled it.
AskFails(a) ==
  /\ a.stage # "token" /\ failures < MaxFailures /\ failures' = failures + 1
  /\ asks' = asks \ {a}
  /\ tab' = [tab EXCEPT !.running = FALSE]
  /\ IF a.stage = "creating"
       THEN created' \in {created, created + 1} \cap Sessions /\ UNCHANGED posted
       ELSE /\ posted' \in {posted, [posted EXCEPT ![a.session] = @ \cup {a.message}]}
            /\ UNCHANGED created
  /\ UNCHANGED <<saved, restores, opened>>

\* An answer is complete, heard on the channel of the session on screen; or the
\* student has stopped it.
Over ==
  /\ tab.running /\ tab.session # NoSession
  /\ \/ tab.channel = tab.session /\ posted[tab.session] # {}
     \/ tab.open
  /\ tab' = [tab EXCEPT !.running = FALSE]
  /\ UNCHANGED <<created, posted, saved, requests, opened, failures>>

SessionNext ==
  \/ OpenPage \/ LeavePage \/ NewSession \/ Over
  \/ \E m \in Messages : Ask(m)
  \/ \E a \in asks : HaveToken(a) \/ Created(a) \/ TurnPosted(a) \/ AskFails(a)
  \/ \E r \in restores : RestoreAnswered(r) \/ RestoringFails(r)

SessionSpec == SessionInit /\ [][SessionNext]_sessionVars

-----------------------------------------------------------------------------
(* Properties                                                              *)

SessionTypeOK ==
  /\ created \in Sessions /\ posted \in [Sessions -> SUBSET Messages] /\ saved \in Sessions \cup {NoSession}
  /\ tab \in Tab /\ asks \subseteq AskCall /\ restores \subseteq RestoreCall

\* While a session is on screen it is its channel that the tab listens to, and
\* it is the session that a reload brings back; the composer is disabled only
\* while the answer that enables it again is on its way.  All this however
\* opening, leaving, new sessions and late answers meet.
TabFollowsItsSession ==
  /\ tab.session # NoSession => tab.channel = tab.session /\ saved = tab.session
  /\ tab.restoring => \E r \in restores : r.session = tab.session

-----------------------------------------------------------------------------
(* What the code does not keep                                             *)

\* A message is shown in the conversation it was posted to.  Two quick messages
\* create two sessions, and a message that is on its way when the student
\* starts a new session appears there.
MessagesInTheirSession ==
  \A a \in asks : a.stage = "posting" /\ a.message \in tab.pane => a.session = tab.session

\* What runs can be stopped.  A message that is on its way when the student
\* starts a new session leaves that one running: no event is accepted for it,
\* and interrupt returns at once.
RunningHasSession == tab.running => tab.session # NoSession
===============================================================================
