---------------------------- MODULE CircuitHandoff ----------------------------
(***************************************************************************)
(* A circuit goes from the classroom's whiteboard to the circuit builder   *)
(* (frontend/src/lib/circuit-handoff.ts, hooks/useCircuitHandoff.ts): the  *)
(* button of the board puts it into sessionStorage and navigates, and the  *)
(* workspace of /circuit takes it out when it is mounted, loads it and     *)
(* opens without a lesson.  With it, what the workspace of /circuit and    *)
(* /code shows (components/dashboard/CentralWorkspace.tsx) and the text of *)
(* the code panel (MonacoCodePanel.tsx).                                   *)
(*                                                                         *)
(* Abstractions.  A circuit is a number: none for the empty one, the press *)
(* of the button that sent it, or above these the edit that made it; undo  *)
(* is an edit.  How a circuit is loaded is the subject of CircuitEditor,   *)
(* its runs that of RunPanel.  Of a lesson only whether one is open counts.*)
(* Three routes stand for all; a navigation takes time, and the next one   *)
(* replaces it.  No page edits the circuit while the code panel is there,  *)
(* so that its effect, which follows edits, only finds what it has.        *)
(***************************************************************************)
EXTENDS Naturals, Sequences

CONSTANTS MaxPresses,  \* bound: circuits handed off
          MaxEdits,    \* bound: edits in the builder
          OwnText,     \* a text in the code panel that the student typed
          NoText       \* the code panel is not shown

ASSUME HandoffAssumption == MaxPresses \in Nat /\ MaxEdits \in Nat /\ OwnText \notin Nat /\ NoText \notin Nat

VARIABLES page,      \* the route shown
          going,     \* the route of the navigation under way, or "none"
          presses,   \* circuits stashed so far
          stash,     \* sessionStorage: the press it holds, or 0
          hook,      \* useCircuitHandoff: its state and the ref `consumed`
          lessonOpen,\* learningStore has an activeLesson
          builder,   \* the circuit in circuitStore
          edits,     \* edits so far
          handed,    \* history: the presses that were loaded
          mounted,   \* history: how many when the page was mounted
          buffer,    \* the text of the code panel
          ran        \* history: the text shown and the circuit sent by its Run

handoffVars == <<page, going, presses, stash, hook, lessonOpen, builder, edits, handed, mounted, buffer, ran>>

Routes == {"classroom", "circuit", "code"}
NewHook == [standalone |-> FALSE, checked |-> FALSE, consumed |-> FALSE]

\* The generated source when the code panel is mounted, which takes a lesson.
Mounted(to, lesson, shown) == IF to = "code" /\ lesson THEN shown ELSE NoText

HandoffInit ==
  /\ page = "classroom" /\ going = "none" /\ presses = 0 /\ stash = 0
  /\ hook = NewHook /\ lessonOpen = FALSE /\ builder = 0 /\ edits = 0
  /\ handed = <<>> /\ mounted = 0 /\ buffer = NoText /\ ran = <<0, 0>>

-----------------------------------------------------------------------------
(* The classroom                                                           *)

\* stashCircuitForBuilder; without storage it returns false and nothing happens.
MStash == IF stash = 0 THEN presses + 1 ELSE stash
Stash == presses + 1

RunInBuilder ==
  /\ page = "classroom" /\ presses < MaxPresses
  /\ presses' = presses + 1 /\ stash' = Stash
  /\ going' = "circuit"
  /\ UNCHANGED <<page, hook, lessonOpen, builder, edits, handed, mounted, buffer, ran>>

-----------------------------------------------------------------------------
(* Navigation                                                              *)

FollowLink(to) ==
  /\ to # page /\ to # going
  /\ going' = to
  /\ UNCHANGED <<page, presses, stash, hook, lessonOpen, builder, edits, handed, mounted, buffer, ran>>

\* The page is mounted with a state of its own; the stores live on.
Arrive ==
  /\ going # "none"
  /\ page' = going /\ going' = "none" /\ hook' = NewHook
  /\ mounted' = Len(handed) /\ buffer' = Mounted(going, lessonOpen, builder)
  /\ UNCHANGED <<presses, stash, lessonOpen, builder, edits, handed, ran>>

\* The tab is reloaded: only sessionStorage is left.
Reload ==
  /\ going' = "none" /\ hook' = NewHook /\ lessonOpen' = FALSE
  /\ builder' = 0 /\ mounted' = Len(handed) /\ buffer' = NoText
  /\ UNCHANGED <<page, presses, stash, edits, handed, ran>>

-----------------------------------------------------------------------------
(* The workspace                                                           *)

\* takeStashedCircuit
MTakeStashed == stash
TakeStashed == 0

\* The effect of useCircuitHandoff, which React may run again.
HandoffEffect ==
  /\ page = "circuit" /\ ~hook.consumed
  /\ stash' = TakeStashed
  /\ builder' = IF stash # 0 THEN stash ELSE builder
  /\ handed' = IF stash # 0 THEN Append(handed, stash) ELSE handed
  /\ hook' = [standalone |-> stash # 0, checked |-> TRUE, consumed |-> TRUE]
  /\ UNCHANGED <<page, going, presses, lessonOpen, edits, mounted, buffer, ran>>

\* CentralWorkspace: a placeholder, the invitation to select a lesson, or the
\* tab of the route.
Workspace ==
  CASE page = "circuit" /\ ~hook.checked -> "placeholder"
    [] page = "circuit" /\ hook.checked /\ (lessonOpen \/ hook.standalone) -> "circuit"
    [] page = "code" /\ lessonOpen -> "code"
    [] OTHER -> "select a lesson"

\* The course is loaded by every page of the lab, and a lesson opens.
LessonArrives ==
  /\ page # "classroom" /\ ~lessonOpen
  /\ lessonOpen' = TRUE /\ buffer' = Mounted(page, TRUE, builder)
  /\ UNCHANGED <<page, going, presses, stash, hook, builder, edits, handed, mounted, ran>>

EditBuilder ==
  /\ Workspace = "circuit" /\ edits < MaxEdits
  /\ edits' = edits + 1 /\ builder' = MaxPresses + edits'
  /\ UNCHANGED <<page, going, presses, stash, hook, lessonOpen, handed, mounted, buffer, ran>>

\* The editor's onChange.
TypeCode ==
  /\ Workspace = "code"
  /\ buffer' \in {OwnText, builder} \ {buffer}
  /\ UNCHANGED <<page, going, presses, stash, hook, lessonOpen, builder, edits, handed, mounted, ran>>

\* Run sends the circuit, not the text; it is off for a text of the student's own.
RunCode ==
  /\ Workspace = "code" /\ buffer = builder
  /\ ran' = <<buffer, builder>>
  /\ UNCHANGED <<page, going, presses, stash, hook, lessonOpen, builder, edits, handed, mounted, buffer>>

HandoffNext ==
  \/ RunInBuilder \/ Arrive \/ Reload \/ HandoffEffect \/ LessonArrives \/ EditBuilder \/ TypeCode \/ RunCode
  \/ \E to \in Routes : FollowLink(to)

HandoffSpec == HandoffInit /\ [][HandoffNext]_handoffVars

-----------------------------------------------------------------------------
(* Properties                                                              *)

HandoffTypeOK ==
  /\ page \in Routes /\ going \in Routes \cup {"none"}
  /\ presses \in 0 .. MaxPresses /\ stash \in 0 .. presses /\ edits \in 0 .. MaxEdits
  /\ builder \in 0 .. MaxPresses + MaxEdits /\ handed \in Seq(1 .. MaxPresses) /\ mounted \in 0 .. Len(handed)
  /\ hook \in [standalone : BOOLEAN, checked : BOOLEAN, consumed : BOOLEAN] /\ lessonOpen \in BOOLEAN
  /\ buffer \in Nat \cup {OwnText, NoText}

\* circuit-handoff.ts:4, "one-shot bridge": whatever navigations are given up,
\* overtaken or followed by a reload, no press is loaded twice, and none after a
\* later one; once the page has looked nothing waits any more; it opens without
\* a lesson exactly if this visit brought a circuit, which is that of the last
\* press; and until it has looked it neither shows a circuit nor asks for a
\* lesson (useCircuitHandoff.ts:14-16).  Nor does the code panel run a circuit
\* other than the one its text stands for (MonacoCodePanel.tsx:41-47).
HandoffIsOneShot ==
  /\ \A i, j \in DOMAIN handed : i < j => handed[i] < handed[j]
  /\ hook.checked => stash = 0
  /\ hook.standalone <=> page = "circuit" /\ Len(handed) > mounted
  /\ hook.standalone => handed[Len(handed)] = presses
  /\ page = "circuit" /\ (presses > 0 /\ stash = presses) => Workspace = "placeholder"
  /\ ran[1] = ran[2]

-----------------------------------------------------------------------------
(* What the code does not keep                                             *)

\* Whiteboard.tsx:44: a circuit waits only while its page is on the way or
\* there.  A navigation that is given up leaves it behind, and a later visit of
\* /circuit loads it over the student's circuit.
StashFollowsNavigation == stash # 0 => "circuit" \in {page, going}

\* useCircuitHandoff.ts:33: a circuit that was handed over stays in reach.  The
\* visit after the next finds nothing, and asks for a lesson.
HandedStaysInReach ==
  builder # 0 /\ page = "circuit" /\ hook.checked => Workspace = "circuit"

\* MonacoCodePanel.tsx:30: a text of the student's own is kept when the tab is
\* left.
OwnTextIsKept == [][buffer = OwnText /\ page' # page => buffer' = OwnText]_handoffVars
===============================================================================
