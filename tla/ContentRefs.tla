----------------------------- MODULE ContentRefs -----------------------------
(***************************************************************************)
(* The identity of a lesson across the move to the Payload CMS.            *)
(*                                                                         *)
(* content_refs gives learner state something stable to point at: a legacy *)
(* lesson keeps its id, with a sentinel instead of a Payload id until it   *)
(* is imported; a lesson first written in the CMS gets a new id.  The      *)
(* import script creates a document for each legacy lesson and registers   *)
(* it under the old id; the publish hook registers every published lesson  *)
(* and stores the id it gets.  Both call ContentRefService.register, whose *)
(* queries are separate awaits at READ COMMITTED, so each is an action.    *)
(* Students record progress under the id of the lesson they are shown.     *)
(*                                                                         *)
(* A caller may stop waiting (AbortSignal.timeout, a crash) while its      *)
(* request goes on.  Only kind 'lesson' is modelled.  The import is a      *)
(* script run by one operator: its runs follow each other.  Authors        *)
(* duplicate documents, but neither delete them here nor restore old       *)
(* versions of them.                                                       *)
(***************************************************************************)
EXTENDS Integers, FiniteSets

CONSTANTS Legacy,       \* ids of the legacy lessons
          Minted,       \* ids a new ref may get
          Docs,         \* Payload documents of lessons
          Hooks,        \* hook runs that may be in flight
          Imports,      \* requests of the import script that may be in flight
          Puts,         \* progress updates that may be in flight
          MaxImports,   \* bound: runs of the import script
          MaxFailures,  \* bound: calls that fail or time out, crashes
          NoRef,        \* null contentRefId
          NoDoc,        \* no such document
          Sentinel,     \* the payload_id 'legacy:<uuid>'
          Absent        \* no such row

Ids == Legacy \cup Minted
Slots == Hooks \cup Imports

ASSUME ContentRefsAssumption ==
  /\ MaxImports \in Nat /\ MaxFailures \in Nat
  /\ Legacy \cap Minted = {} /\ NoRef \notin Ids /\ NoDoc \notin Ids \cup {NoRef}
  /\ {NoDoc, Sentinel, Absent} \cap Docs = {} /\ Sentinel # Absent
  /\ Hooks \cap Imports = {} /\ "none" \notin Slots

VARIABLES refs,        \* content_refs: the payload_id of each id
          lessons,     \* rows of the legacy table lessons
          contentRef,  \* contentRefId of each document
          published,   \* documents with _status 'published'
          call,        \* register requests, with their callers
          script,      \* the import script
          runs,        \* runs of the script started
          validated,   \* some run has ended without a problem
          rows,        \* student_progress: rows of one student per lesson id
          put,         \* PUT /lessons/{id}/progress in flight
          recorded,    \* ids some PUT was accepted for
          failures

cms == <<contentRef, published>>
import == <<script, runs, validated>>
progress == <<rows, put, recorded>>
vars == <<refs, lessons, cms, call, import, progress, failures>>

Idle == [at |-> "idle", doc |-> NoDoc, ref |-> NoRef, got |-> NoRef, waited |-> FALSE]
Off == [at |-> "off", todo |-> {}, lesson |-> NoRef, doc |-> NoDoc, slot |-> "none", ok |-> FALSE]
NoPut == [at |-> "idle", id |-> NoRef, found |-> FALSE]

Init ==
  /\ refs = [i \in Ids |-> IF i \in Legacy THEN Sentinel ELSE Absent]
  /\ lessons = Legacy
  /\ contentRef = [d \in Docs |-> NoDoc] /\ published = {}
  /\ call = [s \in Slots |-> Idle]
  /\ script = Off /\ runs = 0 /\ validated = FALSE
  /\ rows = [i \in Ids |-> 0] /\ put = [p \in Puts |-> NoPut] /\ recorded = {}
  /\ failures = 0

BoundTo(d) == {i \in Ids : refs[i] = d}

-----------------------------------------------------------------------------
(* ContentRefService.register                                              *)

Request(s, d, ref) ==
  call' = [call EXCEPT ![s] = [at |-> "lookup", doc |-> d, ref |-> ref, got |-> NoRef, waited |-> TRUE]]

\* The request ends; a caller that still waits gets the ref or an error.
Answer(s, i) ==
  call' = [call EXCEPT ![s] = IF @.waited THEN [@ EXCEPT !.at = "answered", !.got = i] ELSE Idle]
Refuse(s) ==
  call' = [call EXCEPT ![s] = IF @.waited THEN [@ EXCEPT !.at = "refused"] ELSE Idle]

Goto(s, place) == call' = [call EXCEPT ![s].at = place]

\* register: find_by_payload_id.
Lookup(s) ==
  LET c == call[s] IN
  /\ c.at = "lookup"
  /\ \/ \E i \in BoundTo(c.doc) : IF c.ref \in {NoRef, i} THEN Answer(s, i) ELSE Refuse(s)
     \/ BoundTo(c.doc) = {} /\ Goto(s, IF c.ref = NoRef THEN "insert" ELSE "get")
  /\ UNCHANGED <<refs, lessons, cms, import, progress, failures>>

\* bind_payload_id: get, and the checks on what it returns.
MRefused(payload, d) == FALSE
Refused(payload, d) == payload \notin {Sentinel, d}

GetRef(s) ==
  LET c == call[s] IN
  /\ c.at = "get"
  /\ \/ refs[c.ref] = c.doc /\ Answer(s, c.ref)
     \/ refs[c.ref] # c.doc /\ Refused(refs[c.ref], c.doc) /\ Refuse(s)
     \/ refs[c.ref] # c.doc /\ ~Refused(refs[c.ref], c.doc) /\ Goto(s, "find")
  /\ UNCHANGED <<refs, lessons, cms, import, progress, failures>>

\* bind_payload_id: find_by_payload_id; it refuses also the ref's own row.
FindBound(s) ==
  /\ call[s].at = "find"
  /\ IF BoundTo(call[s].doc) # {} THEN Refuse(s) ELSE Goto(s, "commit")
  /\ UNCHANGED <<refs, lessons, cms, import, progress, failures>>

\* bind_payload_id: UPDATE by primary key.  The unique constraint refuses a
\* document of another row; a row deleted meanwhile is an error.
CommitBind(s) ==
  LET c == call[s] IN
  /\ c.at = "commit"
  /\ IF BoundTo(c.doc) \ {c.ref} # {} \/ refs[c.ref] = Absent
     THEN Refuse(s) /\ UNCHANGED refs
     ELSE Answer(s, c.ref) /\ refs' = [refs EXCEPT ![c.ref] = c.doc]
  /\ UNCHANGED <<lessons, cms, import, progress, failures>>

\* register: INSERT of a new ref, unless a concurrent one came first.
InsertRef(s) ==
  LET c == call[s] IN
  /\ c.at = "insert"
  /\ \/ BoundTo(c.doc) # {} /\ Goto(s, "winner") /\ UNCHANGED refs
     \/ /\ BoundTo(c.doc) = {}
        /\ \E i \in Minted : refs[i] = Absent /\ Answer(s, i) /\ refs' = [refs EXCEPT ![i] = c.doc]
  /\ UNCHANGED <<lessons, cms, import, progress, failures>>

FindWinner(s) ==
  /\ call[s].at = "winner"
  /\ IF BoundTo(call[s].doc) = {} THEN Refuse(s)
     ELSE \E i \in BoundTo(call[s].doc) : Answer(s, i)
  /\ UNCHANGED <<refs, lessons, cms, import, progress, failures>>

\* The backend fails before it commits.
BackendFails(s) ==
  /\ call[s].at \notin {"idle", "answered", "refused"} /\ failures < MaxFailures
  /\ Refuse(s)
  /\ failures' = failures + 1
  /\ UNCHANGED <<refs, lessons, cms, import, progress>>

\* registerLessonRef gives up; the request goes on.
TimesOut(s) ==
  /\ call[s].at \notin {"idle", "answered", "refused"} /\ call[s].waited /\ failures < MaxFailures
  /\ failures' = failures + 1
  /\ call' = [call EXCEPT ![s].waited = FALSE]
  /\ script' = IF script.slot = s THEN [script EXCEPT !.at = "next", !.slot = "none", !.ok = FALSE] ELSE script
  /\ UNCHANGED <<refs, lessons, cms, runs, validated, progress>>

-----------------------------------------------------------------------------
(* The CMS                                                                 *)

\* An author writes a new lesson.
CreateDraft(d) ==
  /\ contentRef[d] = NoDoc
  /\ contentRef' = [contentRef EXCEPT ![d] = NoRef]
  /\ UNCHANGED <<refs, lessons, published, call, import, progress, failures>>

\* An author duplicates a lesson: Payload copies its fields, the contentRefId with
\* them (it is not unique), into a draft.
Duplicate(d, e) ==
  /\ contentRef[d] # NoDoc /\ contentRef[e] = NoDoc
  /\ contentRef' = [contentRef EXCEPT ![e] = contentRef[d]]
  /\ UNCHANGED <<refs, lessons, published, call, import, progress, failures>>

\* A lesson is published, or published again: registerContentRef.
Publish(h, d) ==
  /\ contentRef[d] # NoDoc /\ call[h].at = "idle"
  /\ published' = published \cup {d}
  /\ Request(h, d, contentRef[d])
  /\ UNCHANGED <<refs, lessons, contentRef, import, progress, failures>>

\* The hook writes the id back if it is another one.
WriteBack(h) ==
  LET c == call[h] IN
  /\ c.at = "answered"
  /\ contentRef' = IF c.got = c.ref THEN contentRef ELSE [contentRef EXCEPT ![c.doc] = c.got]
  /\ call' = [call EXCEPT ![h] = Idle]
  /\ UNCHANGED <<refs, lessons, published, import, progress, failures>>

\* The hook catches an error of the call or of the write-back.
HookCatches(h) ==
  /\ \/ call[h].at = "refused" /\ UNCHANGED failures
     \/ /\ call[h].at = "answered" /\ call[h].got # call[h].ref
        /\ failures < MaxFailures /\ failures' = failures + 1
  /\ call' = [call EXCEPT ![h] = Idle]
  /\ UNCHANGED <<refs, lessons, cms, import, progress>>

-----------------------------------------------------------------------------
(* import-legacy.ts                                                        *)

StartImport ==
  /\ script.at = "off" /\ runs < MaxImports
  /\ runs' = runs + 1
  /\ script' = [Off EXCEPT !.at = "next", !.todo = Legacy, !.ok = TRUE]
  /\ UNCHANGED <<refs, lessons, cms, call, validated, progress, failures>>

\* The next lesson of the export: a document that carries its id, if any.
DocOf(l) == {d \in Docs : contentRef[d] = l}

FindDoc ==
  /\ script.at = "next"
  /\ \E l \in script.todo :
       LET at(place, d) == [script EXCEPT !.at = place, !.todo = @ \ {l}, !.lesson = l, !.doc = d] IN
       \/ \E d \in DocOf(l) : script' = at("register", d)
       \/ DocOf(l) = {} /\ script' = at("create", NoDoc)
  /\ UNCHANGED <<refs, lessons, cms, call, runs, validated, progress, failures>>

CreateDoc ==
  /\ script.at = "create"
  /\ \E d \in Docs :
       /\ contentRef[d] = NoDoc
       /\ contentRef' = [contentRef EXCEPT ![d] = script.lesson]
       /\ published' = published \cup {d}
       /\ script' = [script EXCEPT !.at = "register", !.doc = d]
  /\ UNCHANGED <<refs, lessons, call, runs, validated, progress, failures>>

RegisterDoc ==
  /\ script.at = "register"
  /\ \E s \in Imports :
       /\ call[s].at = "idle"
       /\ Request(s, script.doc, script.lesson)
       /\ script' = [script EXCEPT !.at = "waiting", !.slot = s]
  /\ UNCHANGED <<refs, lessons, cms, runs, validated, progress, failures>>

\* The answer; an error or another id is a problem.
MAccepted(c) == c.at = "answered" \/ c.at = "refused"
Accepted(c) == c.at = "answered" /\ c.got = c.ref

DocRegistered ==
  /\ script.at = "waiting" /\ call[script.slot].at \in {"answered", "refused"}
  /\ script' = [script EXCEPT !.at = "next", !.slot = "none",
                              !.ok = @ /\ Accepted(call[script.slot])]
  /\ call' = [call EXCEPT ![script.slot] = Idle]
  /\ UNCHANGED <<refs, lessons, cms, runs, validated, progress, failures>>

\* The last lesson is done: exit 0 only without problems.
FinishImport ==
  /\ script.at = "next" /\ script.todo = {}
  /\ validated' = (validated \/ script.ok)
  /\ script' = Off
  /\ UNCHANGED <<refs, lessons, cms, call, runs, progress, failures>>

\* The script dies; a request it has sent goes on.
ScriptDies ==
  /\ script.at # "off" /\ failures < MaxFailures
  /\ failures' = failures + 1
  /\ script' = Off
  /\ call' = [s \in Slots |-> IF s # script.slot THEN call[s]
                              ELSE IF call[s].at \in {"answered", "refused"} THEN Idle
                              ELSE [call[s] EXCEPT !.waited = FALSE]]
  /\ UNCHANGED <<refs, lessons, cms, runs, validated, progress>>

-----------------------------------------------------------------------------
(* Legacy lessons and progress                                             *)

\* A legacy lesson is deleted: the trigger drops its ref while it is unbound,
\* and the foreign key drops the progress recorded under it.
DropsRef(l) == refs[l] = Sentinel

DeleteLesson(l) ==
  /\ l \in lessons
  /\ lessons' = lessons \ {l}
  /\ refs' = IF DropsRef(l) THEN [refs EXCEPT ![l] = Absent] ELSE refs
  /\ rows' = IF DropsRef(l) THEN [rows EXCEPT ![l] = 0] ELSE rows
  /\ UNCHANGED <<cms, call, import, put, recorded, failures>>

\* The ids under which the app shows lessons, from either content source, and
\* records progress (lessonId and isTrackableLessonId).
Shown == lessons \cup ({contentRef[d] : d \in published} \ {NoRef})

\* upsert_progress: get the ref.
PutProgress(p) ==
  /\ put[p].at = "idle"
  /\ \E i \in Shown :
       put' = [put EXCEPT ![p] = IF refs[i] = Absent THEN NoPut
                                 ELSE [at |-> "select", id |-> i, found |-> FALSE]]
  /\ UNCHANGED <<refs, lessons, cms, call, import, rows, recorded, failures>>

\* upsert_progress: the student's row; two rows are an error.
SelectProgress(p) ==
  /\ put[p].at = "select"
  /\ put' = [put EXCEPT ![p] = IF rows[put[p].id] > 1 THEN NoPut
                               ELSE [@ EXCEPT !.at = "write", !.found = rows[put[p].id] = 1]]
  /\ UNCHANGED <<refs, lessons, cms, call, import, rows, recorded, failures>>

\* upsert_progress: commit.  The foreign key refuses a ref that is gone; so does
\* the UPDATE of a row that is gone.
WriteProgress(p) ==
  LET i == put[p].id
      accepted == refs[i] # Absent /\ (put[p].found => rows[i] > 0)
  IN
  /\ put[p].at = "write"
  /\ rows' = IF accepted /\ ~put[p].found THEN [rows EXCEPT ![i] = @ + 1] ELSE rows
  /\ recorded' = IF accepted THEN recorded \cup {i} ELSE recorded
  /\ put' = [put EXCEPT ![p] = NoPut]
  /\ UNCHANGED <<refs, lessons, cms, call, import, failures>>

-----------------------------------------------------------------------------
Serve(s) == Lookup(s) \/ GetRef(s) \/ FindBound(s) \/ CommitBind(s) \/ InsertRef(s) \/ FindWinner(s)
HookEnds(h) == WriteBack(h) \/ HookCatches(h)
ScriptStep == FindDoc \/ CreateDoc \/ RegisterDoc \/ DocRegistered \/ FinishImport

Next ==
  \/ \E s \in Slots : Serve(s) \/ BackendFails(s) \/ TimesOut(s)
  \/ \E d \in Docs : CreateDraft(d) \/ \E h \in Hooks : Publish(h, d)
  \/ \E d, e \in Docs : Duplicate(d, e)
  \/ \E h \in Hooks : HookEnds(h)
  \/ StartImport \/ ScriptStep \/ ScriptDies
  \/ \E l \in Legacy : DeleteLesson(l)
  \/ \E p \in Puts : PutProgress(p) \/ SelectProgress(p) \/ WriteProgress(p)

Spec == Init /\ [][Next]_vars

-----------------------------------------------------------------------------
(* Properties                                                              *)

TypeOK ==
  /\ refs \in [Ids -> Docs \cup {Sentinel, Absent}]
  /\ lessons \subseteq Legacy
  /\ contentRef \in [Docs -> Ids \cup {NoRef, NoDoc}]
  /\ published \subseteq {d \in Docs : contentRef[d] # NoDoc}
  /\ \A s \in Slots : call[s].at # "idle" =>
       contentRef[call[s].doc] # NoDoc /\ (call[s].at = "answered" => call[s].got \in Ids)
  /\ script.at \in {"off", "next", "create", "register", "waiting"}
  /\ script.at = "waiting" <=> script.slot \in Imports
  /\ \A i \in Ids : rows[i] \in 0 .. Cardinality(Puts) /\ (rows[i] > 0 => refs[i] # Absent)
  /\ failures \in 0 .. MaxFailures /\ runs \in 0 .. MaxImports

\* A ref that is bound stays bound: one that was minted to its document, although
\* duplicates of that document ask for it too; one of a legacy lesson to a document
\* that carries its id.  Neither is dropped with the legacy lesson.
BoundStaysBound ==
  [][\A i \in Ids : refs[i] \in Docs =>
       /\ refs'[i] \in Docs
       /\ i \in Minted => refs'[i] = refs[i]
       /\ i \in Legacy => contentRef'[refs'[i]] = i]_vars

\* A bound ref and the document it names agree, and no document carries an id
\* that students cannot record progress under because it was never minted.
RefsNameTheirLesson ==
  /\ \A i \in Ids : refs[i] \in Docs =>
       contentRef[refs[i]] = i \/ (i \in Minted /\ contentRef[refs[i]] = NoRef)
  /\ \A d \in Docs : contentRef[d] \in Minted => refs[contentRef[d]] \in Docs

\* Once the import has reported success, every legacy lesson is published under
\* its old id and the ref is bound to a document that carries it, for good,
\* whatever is published, duplicated, imported again, deleted or lost afterwards
\* (import-legacy.ts:155 "every lesson converted and bound to its content ref"),
\* and the progress students had recorded before is still there.
ImportHolds ==
  /\ RefsNameTheirLesson
  /\ validated => \A l \in Legacy :
       /\ \E d \in published : contentRef[d] = l
       /\ refs[l] \in Docs /\ contentRef[refs[l]] = l
       /\ l \in recorded => rows[l] > 0

-----------------------------------------------------------------------------
(* What a comment claims and the code does not keep                        *)

\* content_ref_service.py:52 "A ref bound to a different real id is never
\* rebound": a bind decides on a row it has read two awaits earlier, and a
\* duplicate of a document that is being imported asks for the same ref.
NeverRebound == [][\A i \in Ids : refs[i] \in Docs => refs'[i] = refs[i]]_vars
=============================================================================
