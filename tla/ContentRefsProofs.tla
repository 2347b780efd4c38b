--------------------------- MODULE ContentRefsProofs ---------------------------
(***************************************************************************)
(* The identity of lessons: a bound ref stays bound, one that was minted   *)
(* to its document, and what a successful import has bound holds for good, *)
(* for any number of lessons, documents and duplicates of them, requests   *)
(* in flight, runs of the import, failures and deleted lessons.            *)
(*                                                                         *)
(* A bind decides on a row that it has read two awaits earlier, so what    *)
(* its checks have seen proves little, and the ref of a legacy lesson may  *)
(* move from a document to its duplicate.  What holds is that an id is     *)
(* never taken off a document, that whoever asks to bind an id asks it for *)
(* a document that carries it, and that a minted ref, which is bound when  *)
(* it is inserted, is refused to every duplicate.                          *)
(*                                                                         *)
(* And their content: the import loses nothing of a lesson, for lessons of *)
(* any length and any circuits in them.  What it makes of a lesson is the  *)
(* work of one step per piece (BlocksAppend), and each step adds to the    *)
(* page, to what is kept as Markdown and to the circuits what the piece    *)
(* adds to the lesson (OnePieceMore).                                      *)
(***************************************************************************)
EXTENDS ContentRefs, LessonBlocks, ListLemmas

Call ==
  [at : {"idle", "lookup", "get", "find", "commit", "insert", "winner", "answered", "refused"},
   doc : Docs \cup {NoDoc}, ref : Ids \cup {NoRef}, got : Ids \cup {NoRef}, waited : BOOLEAN]
Script ==
  [at : {"off", "next", "create", "register", "waiting"}, todo : SUBSET Legacy,
   lesson : Legacy \cup {NoRef}, doc : Docs \cup {NoDoc}, slot : Imports \cup {"none"}, ok : BOOLEAN]
Put == [at : {"idle", "select", "write"}, id : Ids \cup {NoRef}, found : BOOLEAN]

\* Which id a ref and a document may name: a legacy id only the other's own, a
\* document that is new none or its own.
Identity ==
  /\ refs \in [Ids -> Docs \cup {Sentinel, Absent}]
  /\ contentRef \in [Docs -> Ids \cup {NoRef, NoDoc}]
  /\ \A i \in Legacy : refs[i] \in Docs => contentRef[refs[i]] = i
  /\ \A i \in Minted : refs[i] # Sentinel /\ (refs[i] \in Docs => contentRef[refs[i]] \in {NoRef, i})
  /\ \A i, j \in Minted : refs[i] \in Docs /\ refs[j] = refs[i] => i = j
  /\ \A d \in Docs : contentRef[d] \in Minted => refs[contentRef[d]] \in Docs

\* A request to register is about a document and the id that stands on it; it gets
\* past the first check of a bind with a legacy id only; what it answers is a ref
\* that is bound, to that document if it was minted.
CallOK(c, rf, cr) ==
  /\ c \in Call
  /\ c.at # "idle" =>
       /\ c.doc \in Docs
       /\ c.ref \in Ids => cr[c.doc] = c.ref
       /\ c.ref = NoRef => cr[c.doc] = NoRef \/ (cr[c.doc] \in Minted /\ rf[cr[c.doc]] = c.doc)
       /\ c.at = "get" => c.ref \in Ids
       /\ c.at \in {"find", "commit"} => c.ref \in Legacy
       /\ c.at \in {"insert", "winner"} => c.ref = NoRef
       /\ c.at = "answered" => c.got \in Ids /\ rf[c.got] \in Docs /\ (c.ref \in Ids => c.got = c.ref)
       /\ c.at = "answered" /\ c.ref = NoRef => c.got \in Minted /\ rf[c.got] = c.doc

CallsInv == call \in [Slots -> Call] /\ \A s \in Slots : CallOK(call[s], refs, contentRef)

\* The lessons the import is through with are bound, unless it knows of a problem.
ScriptInv ==
  /\ script \in Script
  /\ script.at = "create" => script.lesson \in Legacy
  /\ script.at \in {"register", "waiting"} =>
       script.lesson \in Legacy /\ script.doc \in Docs /\ contentRef[script.doc] = script.lesson
  /\ script.at = "waiting" <=> script.slot \in Imports
  /\ script.at = "waiting" /\ call[script.slot].at # "idle" =>
       call[script.slot].doc = script.doc /\ call[script.slot].ref = script.lesson
  /\ script.at # "off" /\ script.ok =>
       \A l \in Legacy \ script.todo : refs[l] \in Docs \/ (script.at # "next" /\ l = script.lesson)
  /\ validated \in BOOLEAN /\ (validated => \A l \in Legacy : refs[l] \in Docs)

\* A legacy id stands on a document that is published, if on any, and progress
\* that was accepted is there as long as its ref is.
ProgressInv ==
  /\ lessons \subseteq Legacy /\ published \subseteq {d \in Docs : contentRef[d] # NoDoc}
  /\ \A d \in Docs : contentRef[d] \in Legacy => \E e \in published : contentRef[e] = contentRef[d]
  /\ rows \in [Ids -> Nat] /\ recorded \subseteq Ids /\ put \in [Puts -> Put]
  /\ \A p \in Puts : put[p].at # "idle" => put[p].id \in Ids
  /\ \A i \in recorded : (refs[i] # Absent => rows[i] > 0) /\ (i \in Minted => refs[i] # Absent)

IInv == Identity /\ CallsInv /\ ScriptInv /\ ProgressInv

-----------------------------------------------------------------------------
(* What a step leaves alone                                                *)

\* What is bound stays so, and what stands on a document stays there.
RefsGrow ==
  \A i \in Ids : refs[i] \in Docs => refs'[i] \in Docs /\ (i \in Minted => refs'[i] = refs[i])
DocsGrow ==
  \A d \in Docs : /\ contentRef[d] \in Ids => contentRef'[d] = contentRef[d]
                  /\ contentRef[d] = NoRef =>
                       contentRef'[d] = NoRef \/ (contentRef'[d] \in Minted /\ refs'[contentRef'[d]] = d)
\* A document gets a legacy id from another one, or is published with it.
GivenIsShown ==
  /\ published \subseteq published'
  /\ \A d \in Docs : contentRef'[d] \in Legacy =>
       d \in published' \/ \E e \in Docs : contentRef[e] = contentRef'[d]
\* The requests of the script stay about what they are about.
ImportsKept ==
  \A s \in Imports : call'[s].at # "idle" =>
    call[s].at # "idle" /\ call'[s].doc = call[s].doc /\ call'[s].ref = call[s].ref
Grows == RefsGrow /\ DocsGrow

Active == {"lookup", "get", "find", "commit", "insert", "winner"}

LEMMA CallGrows ==
  ASSUME Identity, Grows, NEW c, CallOK(c, refs, contentRef)
  PROVE  CallOK(c, refs', contentRef')
<1>1. CASE c.at = "idle"
  BY <1>1 DEF CallOK
<1>2. CASE c.at # "idle"
  <2>1. c.doc \in Docs
    BY <1>2 DEF CallOK
  <2>2. c.ref \in Ids => contentRef'[c.doc] = c.ref
    BY <1>2, <2>1 DEF CallOK, Grows, DocsGrow
  <2>3. c.ref = NoRef =>
          contentRef'[c.doc] = NoRef \/ (contentRef'[c.doc] \in Minted /\ refs'[contentRef'[c.doc]] = c.doc)
    BY <1>2, <2>1, ContentRefsAssumption DEF CallOK, Grows, DocsGrow, RefsGrow, Ids
  <2>4. c.at = "answered" => c.got \in Ids /\ refs'[c.got] \in Docs /\ (c.ref \in Ids => c.got = c.ref)
    BY <1>2, <2>1 DEF CallOK, Grows, RefsGrow
  <2>5. c.at = "answered" /\ c.ref = NoRef => c.got \in Minted /\ refs'[c.got] = c.doc
    BY <1>2, <2>1 DEF CallOK, Grows, RefsGrow, Ids
  <2> QED BY <1>2, <2>1, <2>2, <2>3, <2>4, <2>5 DEF CallOK
<1> QED BY <1>1, <1>2

LEMMA CallBecomes ==
  ASSUME Identity, CallsInv, Grows, NEW s \in Slots, NEW c, call' = [call EXCEPT ![s] = c],
         CallOK(c, refs', contentRef')
  PROVE  CallsInv' /\ \A q \in Slots : call'[q] = IF q = s THEN c ELSE call[q]
<1>1. call \in [Slots -> Call] /\ c \in Call
  BY DEF CallsInv, CallOK
<1>2. call' \in [Slots -> Call] /\ \A q \in Slots : call'[q] = IF q = s THEN c ELSE call[q]
  BY <1>1
<1>3. ASSUME NEW q \in Slots PROVE CallOK(call'[q], refs', contentRef')
  <2>1. CASE q = s
    BY <1>2, <2>1
  <2>2. CASE q # s
    <3>1. call'[q] = call[q] /\ CallOK(call[q], refs, contentRef)
      BY <1>2, <2>2 DEF CallsInv
    <3> QED BY <3>1, CallGrows
  <2> QED BY <2>1, <2>2
<1> QED BY <1>2, <1>3 DEF CallsInv

LEMMA CallMoves ==
  ASSUME Identity, CallsInv, Grows, NEW s \in Slots, NEW c, call' = [call EXCEPT ![s] = c],
         CallOK(c, refs', contentRef'),
         s \in Imports /\ c.at # "idle" => /\ call[s].at # "idle"
                                          /\ c.doc = call[s].doc /\ c.ref = call[s].ref
  PROVE  CallsInv' /\ ImportsKept
<1>1. CallsInv' /\ \A q \in Slots : call'[q] = IF q = s THEN c ELSE call[q]
  BY CallBecomes
<1>2. Imports \subseteq Slots
  BY DEF Slots
<1> QED BY <1>1, <1>2 DEF ImportsKept

LEMMA IdleOK == (\A rf, cr : CallOK(Idle, rf, cr)) /\ Idle.at = "idle"
  BY DEF CallOK, Call, Idle

\* The request goes on, with what it is about.
LEMMA GotoMoves ==
  ASSUME Identity, CallsInv, Grows, NEW s \in Slots, call[s].at \in Active, NEW place \in Active, Goto(s, place),
         place = "get" => call[s].ref \in Ids, place \in {"find", "commit"} => call[s].ref \in Legacy,
         place \in {"insert", "winner"} => call[s].ref = NoRef
  PROVE  CallsInv' /\ ImportsKept
<1> DEFINE c == [call[s] EXCEPT !.at = place]
<1>1. call[s] \in Call /\ CallOK(call[s], refs, contentRef) /\ call[s].at # "idle"
  BY DEF CallsInv, Active
<1>2. call' = [call EXCEPT ![s] = c]
  BY DEF Goto, CallsInv
<1>3. c \in Call /\ c.at = place /\ c.doc = call[s].doc /\ c.ref = call[s].ref
  BY <1>1 DEF Call, Active
<1> HIDE DEF c
<1>4. CallOK(c, refs, contentRef)
  BY <1>1, <1>3 DEF CallOK, Active
<1>5. CallOK(c, refs', contentRef')
  BY <1>4, CallGrows
<1> QED BY <1>1, <1>2, <1>3, <1>5, CallMoves

\* The request ends, with an error or with the ref of its document.
LEMMA RefuseMoves ==
  ASSUME Identity, CallsInv, Grows, NEW s \in Slots, call[s].at \in Active, Refuse(s)
  PROVE  CallsInv' /\ ImportsKept
<1> DEFINE c == IF call[s].waited THEN [call[s] EXCEPT !.at = "refused"] ELSE Idle
<1>1. call[s] \in Call /\ CallOK(call[s], refs, contentRef) /\ call[s].at # "idle"
  BY DEF CallsInv, Active
<1>2. call' = [call EXCEPT ![s] = c]
  BY DEF Refuse, CallsInv
<1>3. CallOK(c, refs, contentRef) /\ (c.at # "idle" => c.doc = call[s].doc /\ c.ref = call[s].ref)
  <2>1. CASE ~call[s].waited
    BY <2>1, IdleOK
  <2>2. CASE call[s].waited
    BY <1>1, <2>2 DEF Call, CallOK
  <2> QED BY <2>1, <2>2
<1> HIDE DEF c
<1>4. CallOK(c, refs', contentRef')
  BY <1>3, CallGrows
<1> QED BY <1>1, <1>2, <1>3, <1>4, CallMoves

LEMMA AnswerMoves ==
  ASSUME Identity, CallsInv, Grows, NEW s \in Slots, call[s].at \in Active, NEW i \in Ids, Answer(s, i),
         refs'[i] = call[s].doc, call[s].ref \in Ids => i = call[s].ref,
         call[s].ref = NoRef => i \in Minted
  PROVE  CallsInv' /\ ImportsKept
<1> DEFINE c == IF call[s].waited THEN [call[s] EXCEPT !.at = "answered", !.got = i] ELSE Idle
<1>1. /\ call[s] \in Call /\ CallOK(call[s], refs, contentRef) /\ call[s].at # "idle"
      /\ CallOK(call[s], refs', contentRef')
  BY CallGrows DEF CallsInv, Active
<1>2. call' = [call EXCEPT ![s] = c]
  BY DEF Answer, CallsInv
<1>3. CallOK(c, refs', contentRef') /\ (c.at # "idle" => c.doc = call[s].doc /\ c.ref = call[s].ref)
  <2>1. CASE ~call[s].waited
    BY <2>1, IdleOK
  <2>2. CASE call[s].waited
    <3>1. /\ c \in Call /\ c.at = "answered" /\ c.got = i
          /\ c.doc = call[s].doc /\ c.ref = call[s].ref
      BY <1>1, <2>2 DEF Call
    <3> HIDE DEF c
    <3> QED BY <1>1, <3>1 DEF CallOK
  <2> QED BY <2>1, <2>2
<1> HIDE DEF c
<1> QED BY <1>1, <1>2, <1>3, CallMoves

LEMMA CallsStay ==
  ASSUME Identity, CallsInv, Grows, call' = call
  PROVE  CallsInv' /\ ImportsKept
  BY CallGrows DEF CallsInv, ImportsKept

LEMMA ScriptStays ==
  ASSUME Identity, Identity', ScriptInv, Grows, ImportsKept, script' = script, validated' = validated
  PROVE  ScriptInv'
<1>1. script.at \in {"register", "waiting"} => contentRef'[script.doc] = script.lesson
  BY DEF ScriptInv, Grows, DocsGrow, Ids
<1>2. script.at = "waiting" /\ call'[script.slot].at # "idle" =>
        call'[script.slot].doc = script.doc /\ call'[script.slot].ref = script.lesson
  BY DEF ScriptInv, ImportsKept
<1>3. \A l \in Legacy : refs[l] \in Docs => refs'[l] \in Docs
  BY DEF Grows, RefsGrow, Ids
<1> QED BY <1>1, <1>2, <1>3 DEF ScriptInv

LEMMA ProgressStays ==
  ASSUME ProgressInv, Grows, GivenIsShown, UNCHANGED <<lessons, rows, put, recorded>>,
         published' \subseteq {d \in Docs : contentRef'[d] # NoDoc},
         \A i \in recorded : refs'[i] = Absent <=> refs[i] = Absent
  PROVE  ProgressInv'
<1>1. ASSUME NEW d \in Docs, contentRef'[d] \in Legacy
      PROVE  \E e \in published' : contentRef'[e] = contentRef'[d]
  <2>1. CASE d \in published'
    BY <2>1
  <2>2. CASE \E e \in Docs : contentRef[e] = contentRef'[d]
    <3>1. PICK e \in published : contentRef[e] = contentRef'[d]
      BY <1>1, <2>2 DEF ProgressInv
    <3>2. contentRef'[e] = contentRef[e] /\ e \in published'
      BY <1>1, <3>1 DEF ProgressInv, Grows, DocsGrow, GivenIsShown, Ids
    <3> QED BY <3>1, <3>2
  <2> QED BY <1>1, <2>1, <2>2 DEF GivenIsShown
<1> QED BY <1>1 DEF ProgressInv

\* Neither a ref nor a document has changed.
LEMMA NothingChanged ==
  ASSUME Identity, UNCHANGED <<refs, contentRef>>, published \subseteq published'
  PROVE  Identity' /\ Grows /\ GivenIsShown
<1>1. Identity'
  BY DEF Identity
<1>2. RefsGrow /\ DocsGrow /\ GivenIsShown
  BY DEF RefsGrow, DocsGrow, GivenIsShown
<1> QED BY <1>1, <1>2 DEF Grows

\* One request has moved on and nothing else has.
LEMMA RequestMoves ==
  ASSUME IInv, UNCHANGED <<refs, lessons, contentRef, import, progress>>,
         published \subseteq published', published' \subseteq {d \in Docs : contentRef[d] # NoDoc},
         CallsInv', ImportsKept
  PROVE  IInv' /\ RefsGrow
<1>1. Identity' /\ Grows /\ GivenIsShown
  BY NothingChanged DEF IInv
<1>2. ScriptInv'
  BY <1>1, ScriptStays DEF IInv, import
<1>3. ProgressInv'
  BY <1>1, ProgressStays DEF IInv, progress
<1> QED BY <1>1, <1>2, <1>3 DEF IInv, Grows

\* A legacy ref is bound to document d, whose id it is, or a new one to a document
\* that has no id yet.
LEMMA RefBound ==
  ASSUME Identity, UNCHANGED <<contentRef, published>>, NEW i \in Ids, NEW d \in Docs,
         refs' = [refs EXCEPT ![i] = d], BoundTo(d) \ {i} = {},
         \/ i \in Legacy /\ contentRef[d] = i
         \/ i \in Minted /\ contentRef[d] = NoRef /\ refs[i] = Absent
  PROVE  Identity' /\ Grows /\ GivenIsShown
<1>1. refs \in [Ids -> Docs \cup {Sentinel, Absent}] /\ contentRef \in [Docs -> Ids \cup {NoRef, NoDoc}]
  BY DEF Identity
<1>2. \A j \in Ids : refs'[j] = IF j = i THEN d ELSE refs[j]
  BY <1>1
<1>3. \A j \in Ids : refs[j] = d => j = i
  BY DEF BoundTo
<1>4. i \in Minted => refs[i] \notin Docs
  BY ContentRefsAssumption
<1>5. RefsGrow /\ DocsGrow /\ GivenIsShown
  BY <1>2, <1>4 DEF RefsGrow, DocsGrow, GivenIsShown
<1>6. \A j \in Legacy : refs'[j] \in Docs => contentRef'[refs'[j]] = j
  BY <1>2, ContentRefsAssumption DEF Identity, Ids
<1>7. \A j \in Minted : refs'[j] # Sentinel /\ (refs'[j] \in Docs => contentRef'[refs'[j]] \in {NoRef, j})
  BY <1>2, ContentRefsAssumption DEF Identity, Ids
<1>8. \A j, k \in Minted : refs'[j] \in Docs /\ refs'[k] = refs'[j] => j = k
  BY <1>2, <1>3 DEF Identity, Ids
<1>9. \A e \in Docs : contentRef'[e] \in Minted => refs'[contentRef'[e]] \in Docs
  BY <1>2 DEF Identity, Ids
<1>10. refs' \in [Ids -> Docs \cup {Sentinel, Absent}]
  BY <1>1
<1>11. Identity'
  BY <1>1, <1>6, <1>7, <1>8, <1>9, <1>10 DEF Identity
<1> QED BY <1>5, <1>11 DEF Grows

-----------------------------------------------------------------------------
(* ContentRefService.register                                              *)

LEMMA RequestFacts ==
  ASSUME IInv, NEW s \in Slots, call[s].at \in Active
  PROVE  /\ Identity /\ CallsInv /\ CallOK(call[s], refs, contentRef) /\ call[s] \in Call
         /\ call[s].doc \in Docs /\ call[s].ref \in Ids \cup {NoRef}
         /\ \A i \in BoundTo(call[s].doc) : i \in Ids /\ refs[i] = call[s].doc
  BY DEF IInv, CallsInv, CallOK, Call, Active, BoundTo

\* A document without a legacy id is bound to a minted ref, if to any.
LEMMA BoundIsMinted ==
  ASSUME Identity, NEW d \in Docs, contentRef[d] \in {NoRef} \cup Minted, NEW i \in Ids, refs[i] = d
  PROVE  i \in Minted
  BY ContentRefsAssumption DEF Identity, Ids

LEMMA LookupKeeps ==
  ASSUME IInv, NEW s \in Slots, Lookup(s)
  PROVE  IInv' /\ RefsGrow
<1> DEFINE c == call[s]
<1>1. c.at = "lookup" /\ UNCHANGED <<refs, lessons, contentRef, published, import, progress>>
  BY DEF Lookup, cms
<1>2. c.at \in Active
  BY <1>1 DEF Active
<1>3. /\ Identity /\ CallsInv /\ c.doc \in Docs /\ c.ref \in Ids \cup {NoRef}
      /\ \A i \in BoundTo(c.doc) : i \in Ids /\ refs[i] = c.doc
  BY <1>2, RequestFacts
<1>4. Grows
  BY <1>1, <1>3, NothingChanged
<1>5. CallsInv' /\ ImportsKept
  <2>1. CASE \E i \in BoundTo(c.doc) : IF c.ref \in {NoRef, i} THEN Answer(s, i) ELSE Refuse(s)
    <3>1. PICK i \in BoundTo(c.doc) : IF c.ref \in {NoRef, i} THEN Answer(s, i) ELSE Refuse(s)
      BY <2>1
    <3>2. CASE c.ref \in {NoRef, i}
      <4>1. Answer(s, i) /\ i \in Ids /\ refs'[i] = c.doc /\ (c.ref \in Ids => i = c.ref)
        BY <1>1, <1>3, <3>1, <3>2, ContentRefsAssumption
      <4>2. c.ref = NoRef => i \in Minted
        BY <1>2, <1>3, <3>1, RequestFacts, BoundIsMinted DEF CallOK, Active
      <4> QED BY <1>2, <1>3, <1>4, <4>1, <4>2, AnswerMoves
    <3>3. CASE c.ref \notin {NoRef, i}
      BY <1>2, <1>3, <1>4, <3>1, <3>3, RefuseMoves
    <3> QED BY <3>2, <3>3
  <2>2. CASE Goto(s, IF c.ref = NoRef THEN "insert" ELSE "get")
    <3>1. CASE c.ref = NoRef
      BY <1>2, <1>3, <1>4, <2>2, <3>1, GotoMoves DEF Active
    <3>2. CASE c.ref # NoRef
      BY <1>2, <1>3, <1>4, <2>2, <3>2, GotoMoves DEF Active
    <3> QED BY <3>1, <3>2
  <2> QED BY <2>1, <2>2 DEF Lookup
<1> QED BY <1>1, <1>5, RequestMoves DEF IInv, ProgressInv

LEMMA GetRefKeeps ==
  ASSUME IInv, NEW s \in Slots, GetRef(s)
  PROVE  IInv' /\ RefsGrow
<1> DEFINE c == call[s]
<1>1. c.at = "get" /\ UNCHANGED <<refs, lessons, contentRef, published, import, progress>>
  BY DEF GetRef, cms
<1>2. c.at \in Active
  BY <1>1 DEF Active
<1>3. Identity /\ CallsInv /\ c.doc \in Docs /\ c.ref \in Ids
  BY <1>1, <1>2, RequestFacts DEF CallOK
<1>4. Grows
  BY <1>1, <1>3, NothingChanged
<1>5. CallsInv' /\ ImportsKept
  <2>1. CASE refs[c.ref] = c.doc /\ Answer(s, c.ref)
    <3>1. refs'[c.ref] = c.doc
      BY <1>1, <2>1
    <3> QED BY <1>2, <1>3, <1>4, <2>1, <3>1, AnswerMoves, ContentRefsAssumption
  <2>2. CASE Refuse(s)
    BY <1>2, <1>3, <1>4, <2>2, RefuseMoves
  <2>3. CASE Goto(s, "find") /\ refs[c.ref] # c.doc /\ ~Refused(refs[c.ref], c.doc)
    <3>1. c.ref \notin Minted
      BY <1>1, <1>2, <1>3, <2>3, RequestFacts DEF CallOK, Identity, Refused
    <3>2. c.ref \in Legacy
      BY <1>3, <3>1 DEF Ids
    <3> QED BY <1>2, <1>3, <1>4, <2>3, <3>2, GotoMoves DEF Active
  <2> QED BY <2>1, <2>2, <2>3 DEF GetRef
<1> QED BY <1>1, <1>5, RequestMoves DEF IInv, ProgressInv

LEMMA FindBoundKeeps ==
  ASSUME IInv, NEW s \in Slots, FindBound(s)
  PROVE  IInv' /\ RefsGrow
<1>1. call[s].at = "find" /\ UNCHANGED <<refs, lessons, contentRef, published, import, progress>>
  BY DEF FindBound, cms
<1>2. call[s].at \in Active
  BY <1>1 DEF Active
<1>3. Identity /\ CallsInv /\ call[s].ref \in Legacy
  BY <1>1, <1>2, RequestFacts DEF CallOK
<1>4. Grows
  BY <1>1, <1>3, NothingChanged
<1>5. CallsInv' /\ ImportsKept
  <2>1. CASE Refuse(s)
    BY <1>2, <1>3, <1>4, <2>1, RefuseMoves
  <2>2. CASE Goto(s, "commit")
    BY <1>2, <1>3, <1>4, <2>2, GotoMoves DEF Active
  <2> QED BY <2>1, <2>2 DEF FindBound
<1> QED BY <1>1, <1>5, RequestMoves DEF IInv, ProgressInv

LEMMA FindWinnerKeeps ==
  ASSUME IInv, NEW s \in Slots, FindWinner(s)
  PROVE  IInv' /\ RefsGrow
<1>1. call[s].at = "winner" /\ UNCHANGED <<refs, lessons, contentRef, published, import, progress>>
  BY DEF FindWinner, cms
<1>2. call[s].at \in Active
  BY <1>1 DEF Active
<1>3. /\ Identity /\ CallsInv /\ call[s].ref = NoRef
      /\ \A i \in BoundTo(call[s].doc) : i \in Ids /\ refs[i] = call[s].doc
  BY <1>1, <1>2, RequestFacts DEF CallOK
<1>4. Grows
  BY <1>1, <1>3, NothingChanged
<1>5. CallsInv' /\ ImportsKept
  <2>1. CASE Refuse(s)
    BY <1>2, <1>3, <1>4, <2>1, RefuseMoves
  <2>2. CASE \E i \in BoundTo(call[s].doc) : Answer(s, i)
    <3>1. PICK i \in BoundTo(call[s].doc) : Answer(s, i)
      BY <2>2
    <3>2. i \in Ids /\ refs'[i] = call[s].doc /\ call[s].ref \notin Ids
      BY <1>1, <1>3, ContentRefsAssumption
    <3>3. i \in Minted
      BY <1>1, <1>2, <1>3, RequestFacts, BoundIsMinted DEF CallOK
    <3> QED BY <1>2, <1>3, <1>4, <3>1, <3>2, <3>3, AnswerMoves
  <2> QED BY <2>1, <2>2 DEF FindWinner
<1> QED BY <1>1, <1>5, RequestMoves DEF IInv, ProgressInv

LEMMA BackendFailsKeeps ==
  ASSUME IInv, NEW s \in Slots, BackendFails(s)
  PROVE  IInv' /\ RefsGrow
<1>1. UNCHANGED <<refs, lessons, contentRef, published, import, progress>> /\ Refuse(s)
  BY DEF BackendFails, cms
<1>2. call[s].at \in Active
  BY DEF BackendFails, IInv, CallsInv, Call, Active
<1>3. Identity /\ CallsInv /\ Grows
  BY <1>1, NothingChanged DEF IInv
<1> QED BY <1>1, <1>2, <1>3, RefuseMoves, RequestMoves DEF IInv, ProgressInv

\* A bind commits: the ref is one of a legacy lesson, whose id stands on the document.
\* It may have been bound to another document with that id meanwhile.
LEMMA CommitBindKeeps ==
  ASSUME IInv, NEW s \in Slots, CommitBind(s)
  PROVE  IInv' /\ RefsGrow
<1> DEFINE c == call[s]
<1>1. c.at = "commit" /\ UNCHANGED <<lessons, contentRef, published, import, progress>>
  BY DEF CommitBind, cms
<1>2. c.at \in Active
  BY <1>1 DEF Active
<1>3. /\ Identity /\ CallsInv /\ c.doc \in Docs /\ c.ref \in Legacy /\ c.ref \in Ids
      /\ contentRef[c.doc] = c.ref
  BY <1>1, <1>2, RequestFacts DEF CallOK, Ids
<1>4. CASE Refuse(s) /\ UNCHANGED refs
  <2>1. Grows
    BY <1>1, <1>3, <1>4, NothingChanged
  <2>2. CallsInv' /\ ImportsKept
    BY <1>2, <1>3, <1>4, <2>1, RefuseMoves
  <2> QED BY <1>1, <1>4, <2>2, RequestMoves DEF IInv, ProgressInv
<1>5. CASE /\ BoundTo(c.doc) \ {c.ref} = {} /\ refs[c.ref] # Absent
           /\ Answer(s, c.ref) /\ refs' = [refs EXCEPT ![c.ref] = c.doc]
  <2> DEFINE i == c.ref
             d == c.doc
  <2>1. Identity' /\ Grows /\ GivenIsShown
    BY <1>1, <1>3, <1>5, RefBound
  <2>2. \A j \in Ids : refs'[j] = IF j = i THEN d ELSE refs[j]
    BY <1>3, <1>5 DEF Identity
  <2>3. CallsInv' /\ ImportsKept
    BY <1>2, <1>3, <1>5, <2>1, <2>2, AnswerMoves, ContentRefsAssumption
  <2>4. ScriptInv'
    BY <1>1, <1>3, <2>1, <2>3, ScriptStays DEF IInv, import
  <2>5. \A j \in recorded : refs'[j] = Absent <=> refs[j] = Absent
    BY <1>3, <1>5, <2>2, ContentRefsAssumption DEF IInv, ProgressInv
  <2>6. ProgressInv'
    BY <1>1, <2>1, <2>5, ProgressStays DEF IInv, ProgressInv, progress
  <2> QED BY <2>1, <2>3, <2>4, <2>6 DEF IInv, Grows
<1> QED BY <1>4, <1>5 DEF CommitBind

LEMMA InsertRefKeeps ==
  ASSUME IInv, NEW s \in Slots, InsertRef(s)
  PROVE  IInv' /\ RefsGrow
<1> DEFINE c == call[s]
<1>1. c.at = "insert" /\ UNCHANGED <<lessons, contentRef, published, import, progress>>
  BY DEF InsertRef, cms
<1>2. c.at \in Active
  BY <1>1 DEF Active
<1>3. /\ Identity /\ CallsInv /\ c.doc \in Docs /\ c.ref = NoRef
      /\ contentRef[c.doc] = NoRef \/ (contentRef[c.doc] \in Minted /\ refs[contentRef[c.doc]] = c.doc)
  BY <1>1, <1>2, RequestFacts DEF CallOK
<1>4. CASE Goto(s, "winner") /\ UNCHANGED refs
  <2>1. Grows
    BY <1>1, <1>3, <1>4, NothingChanged
  <2>2. CallsInv' /\ ImportsKept
    BY <1>2, <1>3, <1>4, <2>1, GotoMoves DEF Active
  <2> QED BY <1>1, <1>4, <2>2, RequestMoves DEF IInv, ProgressInv
<1>5. ASSUME BoundTo(c.doc) = {}, NEW i \in Minted, refs[i] = Absent, Answer(s, i),
             refs' = [refs EXCEPT ![i] = c.doc]
      PROVE  IInv' /\ RefsGrow
  <2>1. i \in Ids /\ contentRef[c.doc] = NoRef
    <3>1. ~(contentRef[c.doc] \in Minted /\ refs[contentRef[c.doc]] = c.doc)
      BY <1>3, <1>5 DEF BoundTo, Ids
    <3> QED BY <1>3, <3>1 DEF Ids
  <2>2. Identity' /\ Grows /\ GivenIsShown
    BY <1>1, <1>3, <1>5, <2>1, RefBound
  <2>3. \A j \in Ids : refs'[j] = IF j = i THEN c.doc ELSE refs[j]
    BY <1>3, <1>5 DEF Identity
  <2>4. CallsInv' /\ ImportsKept
    BY <1>2, <1>3, <1>5, <2>1, <2>2, <2>3, AnswerMoves, ContentRefsAssumption
  <2>5. ScriptInv'
    BY <1>1, <1>3, <2>2, <2>4, ScriptStays DEF IInv, import
  <2>6. i \notin recorded
    BY <1>5 DEF IInv, ProgressInv
  <2>7. \A j \in recorded : refs'[j] = Absent <=> refs[j] = Absent
    BY <2>3, <2>6 DEF IInv, ProgressInv
  <2>8. ProgressInv'
    BY <1>1, <2>2, <2>7, ProgressStays DEF IInv, ProgressInv, progress
  <2> QED BY <2>2, <2>4, <2>5, <2>8 DEF IInv, Grows
<1> QED BY <1>4, <1>5 DEF InsertRef

LEMMA TimesOutKeeps ==
  ASSUME IInv, NEW s \in Slots, TimesOut(s)
  PROVE  IInv' /\ RefsGrow
<1> DEFINE c == [call[s] EXCEPT !.waited = FALSE]
<1>1. UNCHANGED <<refs, lessons, contentRef, published, validated, progress>> /\ call[s].at \in Active
  BY DEF TimesOut, cms, IInv, CallsInv, Call, Active
<1>2. Identity' /\ Grows /\ GivenIsShown /\ Identity /\ CallsInv /\ ScriptInv
  BY <1>1, NothingChanged DEF IInv
<1>3. call' = [call EXCEPT ![s] = c]
  BY <1>2 DEF TimesOut, CallsInv
<1>4. CallOK(c, refs, contentRef) /\ c.at = call[s].at /\ c.doc = call[s].doc /\ c.ref = call[s].ref
  <2>1. call[s] \in Call /\ CallOK(call[s], refs, contentRef)
    BY <1>2 DEF CallsInv
  <2>2. /\ c \in Call /\ c.at = call[s].at /\ c.doc = call[s].doc
        /\ c.ref = call[s].ref /\ c.got = call[s].got
    BY <2>1 DEF Call
  <2> HIDE DEF c
  <2> QED BY <2>1, <2>2 DEF CallOK
<1> HIDE DEF c
<1>5. CallOK(c, refs', contentRef')
  BY <1>2, <1>4, CallGrows
<1>6. CallsInv' /\ ImportsKept
  BY <1>1, <1>2, <1>3, <1>4, <1>5, CallMoves DEF Active
<1>7. ScriptInv'
  <2>1. CASE script.slot # s
    <3>1. script' = script
      BY <2>1 DEF TimesOut
    <3> QED BY <1>1, <1>2, <1>6, <3>1, ScriptStays
  <2>2. CASE script.slot = s
    <3>1. script' = [script EXCEPT !.at = "next", !.slot = "none", !.ok = FALSE]
      BY <2>2 DEF TimesOut
    <3>2. script' \in Script /\ script'.at = "next" /\ script'.slot = "none" /\ script'.ok = FALSE
      BY <1>2, <3>1 DEF ScriptInv, Script
    <3> QED BY <1>1, <1>2, <3>2, ContentRefsAssumption DEF ScriptInv, Slots
  <2> QED BY <2>1, <2>2
<1>8. ProgressInv'
  BY <1>1, <1>2, ProgressStays DEF IInv, ProgressInv, progress
<1> QED BY <1>2, <1>6, <1>7, <1>8 DEF IInv, Grows

-----------------------------------------------------------------------------
(* The CMS                                                                 *)

LEMMA CreateDraftKeeps ==
  ASSUME IInv, NEW d \in Docs, CreateDraft(d)
  PROVE  IInv' /\ RefsGrow
<1>1. /\ contentRef[d] = NoDoc /\ contentRef' = [contentRef EXCEPT ![d] = NoRef]
      /\ UNCHANGED <<refs, lessons, published, call, import, progress>>
  BY DEF CreateDraft
<1>2. Identity /\ \A e \in Docs : contentRef'[e] = IF e = d THEN NoRef ELSE contentRef[e]
  BY <1>1 DEF IInv, Identity
<1>3. Grows /\ GivenIsShown
  BY <1>1, <1>2, ContentRefsAssumption DEF Grows, RefsGrow, DocsGrow, GivenIsShown, Ids
<1>4. Identity'
  BY <1>1, <1>2, ContentRefsAssumption DEF Identity, Ids
<1>5. CallsInv' /\ ImportsKept
  BY <1>1, <1>2, <1>3, CallsStay DEF IInv
<1>6. ScriptInv'
  BY <1>1, <1>2, <1>3, <1>4, <1>5, ScriptStays DEF IInv, import
<1>7. published' \subseteq {e \in Docs : contentRef'[e] # NoDoc}
  BY <1>1, <1>2, ContentRefsAssumption DEF IInv, ProgressInv
<1>8. ProgressInv'
  BY <1>1, <1>3, <1>7, ProgressStays DEF IInv, progress
<1> QED BY <1>3, <1>4, <1>5, <1>6, <1>8 DEF IInv, Grows

\* The copy carries the id of the lesson, published or not, that it is a copy of.
LEMMA DuplicateKeeps ==
  ASSUME IInv, NEW d \in Docs, NEW e \in Docs, Duplicate(d, e)
  PROVE  IInv' /\ RefsGrow
<1>1. /\ contentRef[d] # NoDoc /\ contentRef[e] = NoDoc /\ contentRef' = [contentRef EXCEPT ![e] = contentRef[d]]
      /\ UNCHANGED <<refs, lessons, published, call, import, progress>>
  BY DEF Duplicate
<1>2. /\ Identity /\ contentRef[d] \in Ids \cup {NoRef}
      /\ \A f \in Docs : contentRef'[f] = IF f = e THEN contentRef[d] ELSE contentRef[f]
  BY <1>1 DEF IInv, Identity
<1>3. Grows /\ GivenIsShown
  BY <1>1, <1>2, ContentRefsAssumption DEF Grows, RefsGrow, DocsGrow, GivenIsShown, Ids
<1>4. Identity'
  <2>1. contentRef' \in [Docs -> Ids \cup {NoRef, NoDoc}] /\ refs' = refs
    BY <1>1, <1>2 DEF Identity
  <2>2. \A i \in Ids : refs[i] \in Docs => refs[i] # e
    BY <1>1, <1>2, ContentRefsAssumption DEF Identity, Ids
  <2>3. \A i \in Ids : refs[i] \in Docs => contentRef'[refs[i]] = contentRef[refs[i]]
    BY <1>2, <2>2
  <2>4. \A f \in Docs : contentRef'[f] \in Minted => refs[contentRef'[f]] \in Docs
    BY <1>2 DEF Identity
  <2> QED BY <1>2, <2>1, <2>3, <2>4 DEF Identity, Ids
<1>5. CallsInv' /\ ImportsKept
  BY <1>1, <1>2, <1>3, CallsStay DEF IInv
<1>6. ScriptInv'
  BY <1>1, <1>2, <1>3, <1>4, <1>5, ScriptStays DEF IInv, import
<1>7. published' \subseteq {f \in Docs : contentRef'[f] # NoDoc}
  BY <1>1, <1>2, ContentRefsAssumption DEF IInv, ProgressInv
<1>8. ProgressInv'
  BY <1>1, <1>3, <1>7, ProgressStays DEF IInv, progress
<1> QED BY <1>3, <1>4, <1>5, <1>6, <1>8 DEF IInv, Grows

\* A request about document d and the id that stands on it.
LEMMA RequestOK ==
  ASSUME Identity, NEW d \in Docs, contentRef[d] # NoDoc, NEW c,
         c = [at |-> "lookup", doc |-> d, ref |-> contentRef[d], got |-> NoRef, waited |-> TRUE]
  PROVE  CallOK(c, refs, contentRef)
<1>1. contentRef[d] \in Ids \cup {NoRef}
  BY DEF Identity
<1>2. c \in Call
  BY <1>1 DEF Call
<1> QED BY <1>1, <1>2 DEF CallOK

LEMMA PublishKeeps ==
  ASSUME IInv, NEW h \in Hooks, NEW d \in Docs, Publish(h, d)
  PROVE  IInv' /\ RefsGrow
<1> DEFINE c == [at |-> "lookup", doc |-> d, ref |-> contentRef[d], got |-> NoRef, waited |-> TRUE]
<1>1. /\ contentRef[d] # NoDoc /\ published' = published \cup {d} /\ call' = [call EXCEPT ![h] = c]
      /\ UNCHANGED <<refs, lessons, contentRef, import, progress>>
  BY DEF Publish, Request
<1>2. Identity /\ Grows /\ CallsInv
  BY <1>1, NothingChanged DEF IInv
<1>3. CallOK(c, refs, contentRef)
  BY <1>1, <1>2, RequestOK
<1> HIDE DEF c
<1>4. CallOK(c, refs', contentRef')
  BY <1>2, <1>3, CallGrows
<1>5. h \in Slots /\ h \notin Imports
  BY ContentRefsAssumption DEF Slots
<1>6. CallsInv' /\ ImportsKept
  BY <1>1, <1>2, <1>4, <1>5, CallMoves
<1>7. published' \subseteq {e \in Docs : contentRef[e] # NoDoc}
  BY <1>1 DEF IInv, ProgressInv
<1> QED BY <1>1, <1>6, <1>7, RequestMoves

LEMMA HookCatchesKeeps ==
  ASSUME IInv, NEW h \in Hooks, HookCatches(h)
  PROVE  IInv' /\ RefsGrow
<1>1. call' = [call EXCEPT ![h] = Idle] /\ UNCHANGED <<refs, lessons, contentRef, published, import, progress>>
  BY DEF HookCatches, cms
<1>2. Identity /\ Grows /\ CallsInv
  BY <1>1, NothingChanged DEF IInv
<1>3. CallsInv' /\ ImportsKept
  BY <1>1, <1>2, IdleOK, CallMoves DEF Slots
<1> QED BY <1>1, <1>3, RequestMoves DEF IInv, ProgressInv

\* The id that is written back is that of the ref of the document, which has no
\* other id yet.
LEMMA WriteBackKeeps ==
  ASSUME IInv, NEW h \in Hooks, WriteBack(h)
  PROVE  IInv' /\ RefsGrow
<1> DEFINE c == call[h]
<1>1. /\ c.at = "answered" /\ call' = [call EXCEPT ![h] = Idle]
      /\ UNCHANGED <<refs, lessons, published, import, progress>>
  BY DEF WriteBack
<1>2. Identity /\ CallsInv /\ h \in Slots
  BY DEF IInv, Slots
<1>3. /\ c.doc \in Docs /\ c.got \in Ids /\ (c.ref \in Ids => c.got = c.ref) /\ c.ref \in Ids \cup {NoRef}
      /\ c.ref = NoRef =>
           /\ c.got \in Minted /\ refs[c.got] = c.doc
           /\ contentRef[c.doc] = NoRef \/ (contentRef[c.doc] \in Minted /\ refs[contentRef[c.doc]] = c.doc)
  BY <1>1, <1>2 DEF CallsInv, CallOK, Call
<1>4. CASE c.got = c.ref
  <2>1. contentRef' = contentRef
    BY <1>4 DEF WriteBack
  <2>2. Grows
    BY <1>1, <1>2, <2>1, NothingChanged
  <2>3. CallsInv' /\ ImportsKept
    BY <1>1, <1>2, <2>2, IdleOK, CallMoves
  <2> QED BY <1>1, <2>1, <2>3, RequestMoves DEF IInv, ProgressInv
<1>5. CASE c.got # c.ref
  <2> DEFINE d == c.doc
             i == c.got
  <2>1. contentRef' = [contentRef EXCEPT ![d] = i]
    BY <1>5 DEF WriteBack
  <2>2. i \in Minted /\ refs[i] = d /\ (contentRef[d] \in Minted => refs[contentRef[d]] = d)
    BY <1>3, <1>5, ContentRefsAssumption DEF Ids
  <2>3. contentRef[d] \in {NoRef, i}
    BY <1>2, <1>3, <1>5, <2>2 DEF Identity
  <2>4. \A e \in Docs : contentRef'[e] = IF e = d THEN i ELSE contentRef[e]
    BY <1>2, <2>1 DEF Identity
  <2>5. Grows /\ GivenIsShown
    BY <1>1, <2>2, <2>3, <2>4, ContentRefsAssumption DEF Grows, RefsGrow, DocsGrow, GivenIsShown, Ids
  <2>6. Identity'
    <3>1. contentRef' \in [Docs -> Ids \cup {NoRef, NoDoc}] /\ refs' = refs
      BY <1>1, <1>2, <1>3, <2>1 DEF Identity
    <3>2. \A j \in Legacy : refs[j] \in Docs => contentRef'[refs[j]] = j
      BY <1>2, <2>2, <2>3, <2>4, ContentRefsAssumption DEF Identity, Ids
    <3>3. \A j \in Minted : refs[j] # Sentinel /\ (refs[j] \in Docs => contentRef'[refs[j]] \in {NoRef, j})
      BY <1>2, <2>2, <2>4 DEF Identity
    <3>4. \A j, k \in Minted : refs[j] \in Docs /\ refs[k] = refs[j] => j = k
      BY <1>2 DEF Identity
    <3>5. \A e \in Docs : contentRef'[e] \in Minted => refs[contentRef'[e]] \in Docs
      BY <1>2, <1>3, <2>2, <2>4 DEF Identity
    <3>6. refs' \in [Ids -> Docs \cup {Sentinel, Absent}]
      BY <1>1, <1>2 DEF Identity
    <3> QED BY <3>1, <3>2, <3>3, <3>4, <3>5, <3>6 DEF Identity
  <2>7. CallsInv' /\ ImportsKept
    BY <1>1, <1>2, <2>5, IdleOK, CallMoves
  <2>8. ScriptInv'
    BY <1>1, <1>2, <2>5, <2>6, <2>7, ScriptStays DEF IInv, import
  <2>9. published' \subseteq {e \in Docs : contentRef'[e] # NoDoc}
    BY <1>1, <1>3, <2>4, ContentRefsAssumption DEF IInv, ProgressInv
  <2>10. ProgressInv'
    BY <1>1, <2>5, <2>9, ProgressStays DEF IInv, progress
  <2> QED BY <2>5, <2>6, <2>7, <2>8, <2>10 DEF IInv, Grows
<1> QED BY <1>4, <1>5

-----------------------------------------------------------------------------
(* The import                                                              *)

\* Only the script has moved, and the requests it sends.
LEMMA ScriptMoves ==
  ASSUME IInv, UNCHANGED <<refs, lessons, contentRef, published, progress>>, CallsInv', ScriptInv'
  PROVE  IInv' /\ RefsGrow
<1>1. Identity' /\ Grows
  BY NothingChanged DEF IInv
<1>2. ProgressInv'
  BY <1>1, ProgressStays DEF IInv, ProgressInv, progress
<1> QED BY <1>1, <1>2 DEF IInv, Grows

LEMMA SameCalls ==
  ASSUME IInv, UNCHANGED <<refs, contentRef, published, call>>
  PROVE  CallsInv'
  BY NothingChanged, CallsStay DEF IInv

LEMMA StartImportKeeps ==
  ASSUME IInv, StartImport
  PROVE  IInv' /\ RefsGrow
<1>1. UNCHANGED <<refs, lessons, contentRef, published, call, validated, progress>>
  BY DEF StartImport, cms
<1>2. script' = [Off EXCEPT !.at = "next", !.todo = Legacy, !.ok = TRUE]
  BY DEF StartImport
<1>3. /\ script' \in Script /\ script'.at = "next" /\ script'.todo = Legacy /\ script'.slot = "none"
  BY <1>2 DEF Off, Script
<1>4. ScriptInv'
  BY <1>1, <1>3, ContentRefsAssumption DEF IInv, ScriptInv, Slots
<1> QED BY <1>1, <1>4, SameCalls, ScriptMoves

LEMMA FindDocKeeps ==
  ASSUME IInv, FindDoc
  PROVE  IInv' /\ RefsGrow
<1>1. UNCHANGED <<refs, lessons, contentRef, published, call, validated, progress>> /\ script.at = "next"
  BY DEF FindDoc, cms
<1>2. PICK l \in script.todo :
        \/ \E d \in DocOf(l) : script' = [script EXCEPT !.at = "register", !.todo = @ \ {l}, !.lesson = l, !.doc = d]
        \/ /\ DocOf(l) = {}
           /\ script' = [script EXCEPT !.at = "create", !.todo = @ \ {l}, !.lesson = l, !.doc = NoDoc]
  BY DEF FindDoc
<1>3. script \in Script /\ l \in Legacy
  BY <1>2 DEF IInv, ScriptInv, Script
<1>4. ASSUME NEW place \in {"create", "register"}, NEW d \in Docs \cup {NoDoc},
             script' = [script EXCEPT !.at = place, !.todo = @ \ {l}, !.lesson = l, !.doc = d],
             place = "register" => d \in DocOf(l)
      PROVE  ScriptInv'
  <2>1. /\ script' \in Script /\ script'.at = place /\ script'.todo = script.todo \ {l}
        /\ script'.lesson = l /\ script'.doc = d /\ script'.slot = script.slot /\ script'.ok = script.ok
    BY <1>3, <1>4 DEF Script
  <2>2. script.slot \notin Imports
    BY <1>1 DEF IInv, ScriptInv
  <2>3. script'.ok => \A k \in Legacy \ script'.todo : refs[k] \in Docs \/ k = l
    BY <1>1, <2>1 DEF IInv, ScriptInv
  <2> QED BY <1>1, <1>3, <1>4, <2>1, <2>2, <2>3 DEF IInv, ScriptInv, DocOf
<1>5. DocOf(l) \subseteq Docs
  BY DEF DocOf
<1>6. ScriptInv'
  BY <1>2, <1>4, <1>5
<1> QED BY <1>1, <1>6, SameCalls, ScriptMoves

\* The document is published with the id of the lesson.
LEMMA CreateDocKeeps ==
  ASSUME IInv, CreateDoc
  PROVE  IInv' /\ RefsGrow
<1>1. UNCHANGED <<refs, lessons, call, validated, progress>> /\ script.at = "create"
  BY DEF CreateDoc
<1>2. PICK d \in Docs :
        /\ contentRef[d] = NoDoc /\ contentRef' = [contentRef EXCEPT ![d] = script.lesson]
        /\ published' = published \cup {d} /\ script' = [script EXCEPT !.at = "register", !.doc = d]
  BY DEF CreateDoc
<1> DEFINE l == script.lesson
<1>3. Identity /\ l \in Legacy /\ script \in Script
  BY <1>1 DEF IInv, ScriptInv
<1>4. \A e \in Docs : contentRef'[e] = IF e = d THEN l ELSE contentRef[e]
  BY <1>2, <1>3 DEF Identity
<1>5. Grows /\ GivenIsShown
  BY <1>1, <1>2, <1>4, ContentRefsAssumption DEF Grows, RefsGrow, DocsGrow, GivenIsShown, Ids
<1>6. Identity'
  <2>1. contentRef' \in [Docs -> Ids \cup {NoRef, NoDoc}] /\ refs' \in [Ids -> Docs \cup {Sentinel, Absent}]
    BY <1>1, <1>2, <1>3 DEF Identity, Ids
  <2>2. \A i \in Ids : refs[i] \in Docs => refs[i] # d
    BY <1>2, <1>3, ContentRefsAssumption DEF Identity, Ids
  <2>3. \A i \in Legacy : refs[i] \in Docs => contentRef'[refs[i]] = i
    BY <1>3, <1>4, <2>2 DEF Identity, Ids
  <2>4. \A i \in Minted : refs[i] # Sentinel /\ (refs[i] \in Docs => contentRef'[refs[i]] \in {NoRef, i})
    BY <1>3, <1>4, <2>2 DEF Identity, Ids
  <2>5. \A i, j \in Minted : refs[i] \in Docs /\ refs[j] = refs[i] => i = j
    BY <1>3 DEF Identity
  <2>6. \A e \in Docs : contentRef'[e] \in Minted => refs[contentRef'[e]] \in Docs
    BY <1>3, <1>4, ContentRefsAssumption DEF Identity
  <2> QED BY <1>1, <2>1, <2>3, <2>4, <2>5, <2>6 DEF Identity
<1>7. CallsInv'
  BY <1>1, <1>3, <1>5, CallsStay DEF IInv
<1>8. ScriptInv'
  <2>1. /\ script' \in Script /\ script'.at = "register" /\ script'.todo = script.todo
        /\ script'.lesson = l /\ script'.doc = d /\ script'.slot = script.slot /\ script'.ok = script.ok
    BY <1>2, <1>3 DEF Script
  <2>2. script.slot \notin Imports
    BY <1>1 DEF IInv, ScriptInv
  <2> QED BY <1>1, <1>3, <1>4, <2>1, <2>2 DEF IInv, ScriptInv
<1>9. published' \subseteq {e \in Docs : contentRef'[e] # NoDoc}
  BY <1>2, <1>3, <1>4, ContentRefsAssumption DEF IInv, ProgressInv, Ids
<1>10. ProgressInv'
  BY <1>1, <1>5, <1>9, ProgressStays DEF IInv, progress
<1> QED BY <1>5, <1>6, <1>7, <1>8, <1>10 DEF IInv, Grows

LEMMA RegisterDocKeeps ==
  ASSUME IInv, RegisterDoc
  PROVE  IInv' /\ RefsGrow
<1>1. UNCHANGED <<refs, lessons, contentRef, published, validated, progress>> /\ script.at = "register"
  BY DEF RegisterDoc, cms
<1> DEFINE l == script.lesson
           d == script.doc
           c == [at |-> "lookup", doc |-> d, ref |-> l, got |-> NoRef, waited |-> TRUE]
<1>2. PICK s \in Imports :
        call' = [call EXCEPT ![s] = c] /\ script' = [script EXCEPT !.at = "waiting", !.slot = s]
  BY DEF RegisterDoc, Request
<1>3. Identity /\ CallsInv /\ script \in Script /\ l \in Legacy /\ d \in Docs /\ contentRef[d] = l /\ s \in Slots
  BY <1>1 DEF IInv, ScriptInv, Slots
<1>4. Grows
  BY <1>1, <1>3, NothingChanged
<1>5. CallOK(c, refs, contentRef)
  BY <1>3, RequestOK, ContentRefsAssumption DEF Ids
<1>6. c.doc = d /\ c.ref = l
  OBVIOUS
<1> HIDE DEF c
<1>7. CallOK(c, refs', contentRef')
  BY <1>3, <1>4, <1>5, CallGrows
<1>8. CallsInv' /\ call'[s] = c
  <2>1. Identity /\ CallsInv /\ s \in Slots /\ call' = [call EXCEPT ![s] = c]
    BY <1>2, <1>3
  <2>2. CallsInv' /\ \A q \in Slots : call'[q] = IF q = s THEN c ELSE call[q]
    BY <1>4, <1>7, <2>1, CallBecomes, Zenon
  <2> QED BY <2>1, <2>2
<1>9. /\ script' \in Script /\ script'.at = "waiting" /\ script'.todo = script.todo
      /\ script'.lesson = l /\ script'.doc = d /\ script'.slot = s /\ script'.ok = script.ok
  BY <1>2, <1>3 DEF Script
<1>10. ScriptInv'
  <2>1. script'.slot \in Imports /\ call'[script'.slot].doc = d /\ call'[script'.slot].ref = l
    BY <1>2, <1>6, <1>8, <1>9
  <2>2. script'.ok => \A m \in Legacy \ script'.todo : refs'[m] \in Docs \/ m = script'.lesson
    BY <1>1, <1>9 DEF IInv, ScriptInv
  <2>3. validated' \in BOOLEAN /\ (validated' => \A m \in Legacy : refs'[m] \in Docs)
    BY <1>1 DEF IInv, ScriptInv
  <2>4. contentRef'[script'.doc] = script'.lesson /\ script'.lesson \in Legacy /\ script'.doc \in Docs
    BY <1>1, <1>3, <1>9
  <2> HIDE DEF l, d
  <2> QED BY <1>9, <2>1, <2>2, <2>3, <2>4 DEF ScriptInv
<1> QED BY <1>1, <1>8, <1>10, ScriptMoves

\* The answer is the ref of the document, and the import believes only one that
\* is the id of the lesson.
LEMMA DocRegisteredKeeps ==
  ASSUME IInv, DocRegistered
  PROVE  IInv' /\ RefsGrow
<1> DEFINE s == script.slot
           good == script.ok /\ Accepted(call[s])
<1>1. /\ UNCHANGED <<refs, lessons, contentRef, published, validated, progress>> /\ script.at = "waiting"
      /\ call[s].at \in {"answered", "refused"} /\ call' = [call EXCEPT ![s] = Idle]
      /\ script' = [script EXCEPT !.at = "next", !.slot = "none", !.ok = @ /\ Accepted(call[script.slot])]
  BY DEF DocRegistered, cms
<1>2. /\ Identity /\ CallsInv /\ script \in Script /\ s \in Imports /\ s \in Slots
      /\ call[s].doc = script.doc /\ call[s].ref = script.lesson
      /\ script.lesson \in Legacy /\ script.doc \in Docs
  BY <1>1 DEF IInv, ScriptInv, Slots
<1>3. Grows
  BY <1>1, <1>2, NothingChanged
<1>4. CallsInv'
  BY <1>1, <1>2, <1>3, IdleOK, CallBecomes
<1>5. good => refs[script.lesson] \in Docs
  <2> SUFFICES ASSUME good PROVE refs[script.lesson] \in Docs
    OBVIOUS
  <2>1. CallOK(call[s], refs, contentRef) /\ call[s].at = "answered"
    BY <1>2 DEF CallsInv, Accepted
  <2> QED BY <1>2, <2>1 DEF CallOK, Ids
<1>6. good \in BOOLEAN /\ script' = [script EXCEPT !.at = "next", !.slot = "none", !.ok = good] /\ (good => script.ok)
  BY <1>1, <1>2 DEF Script
<1> HIDE DEF good
<1>7. /\ script' \in Script /\ script'.at = "next" /\ script'.todo = script.todo
      /\ script'.slot = "none" /\ script'.ok = good
  BY <1>2, <1>6 DEF Script
<1>8. ScriptInv'
  <2>1. script'.ok => \A k \in Legacy \ script.todo : refs[k] \in Docs
    BY <1>1, <1>5, <1>6, <1>7 DEF IInv, ScriptInv
  <2>2. "none" \notin Imports
    BY ContentRefsAssumption DEF Slots
  <2> QED BY <1>1, <1>7, <2>1, <2>2 DEF IInv, ScriptInv
<1> QED BY <1>1, <1>4, <1>8, ScriptMoves

LEMMA FinishImportKeeps ==
  ASSUME IInv, FinishImport
  PROVE  IInv' /\ RefsGrow
<1>1. /\ UNCHANGED <<refs, lessons, contentRef, published, call, progress>>
      /\ script.at = "next" /\ script.todo = {} /\ script' = Off /\ validated' = (validated \/ script.ok)
  BY DEF FinishImport, cms
<1>2. script' \in Script /\ script'.at = "off" /\ script'.slot = "none"
  BY <1>1 DEF Off, Script
<1>3. script.ok => \A l \in Legacy : refs[l] \in Docs
  BY <1>1 DEF IInv, ScriptInv
<1>4. validated' \in BOOLEAN /\ (validated' => \A l \in Legacy : refs'[l] \in Docs)
  BY <1>1, <1>3 DEF IInv, ScriptInv
<1>5. ScriptInv'
  BY <1>2, <1>4, ContentRefsAssumption DEF ScriptInv, Slots
<1> QED BY <1>1, <1>5, SameCalls, ScriptMoves

LEMMA ScriptDiesKeeps ==
  ASSUME IInv, ScriptDies
  PROVE  IInv' /\ RefsGrow
<1>1. /\ UNCHANGED <<refs, lessons, contentRef, published, validated, progress>> /\ script' = Off
      /\ call' = [s \in Slots |-> IF s # script.slot THEN call[s]
                                  ELSE IF call[s].at \in {"answered", "refused"} THEN Idle
                                  ELSE [call[s] EXCEPT !.waited = FALSE]]
  BY DEF ScriptDies, cms
<1>2. script' \in Script /\ script'.at = "off" /\ script'.slot = "none"
  BY <1>1 DEF Off, Script
<1>3. ScriptInv'
  BY <1>1, <1>2, ContentRefsAssumption DEF IInv, ScriptInv, Slots
<1>4. ASSUME NEW s \in Slots PROVE CallOK(call'[s], refs, contentRef)
  <2>1. call[s] \in Call /\ CallOK(call[s], refs, contentRef)
    BY DEF IInv, CallsInv
  <2> DEFINE c == [call[s] EXCEPT !.waited = FALSE]
  <2>2. CallOK(c, refs, contentRef)
    <3>1. /\ c \in Call /\ c.at = call[s].at /\ c.doc = call[s].doc
          /\ c.ref = call[s].ref /\ c.got = call[s].got
      BY <2>1 DEF Call
    <3> HIDE DEF c
    <3> QED BY <2>1, <3>1 DEF CallOK
  <2>3. call'[s] = call[s] \/ call'[s] = Idle \/ call'[s] = c
    BY <1>1
  <2> HIDE DEF c
  <2> QED BY <2>1, <2>2, <2>3, IdleOK
<1>5. CallsInv'
  <2>1. \A s \in Slots : call'[s] \in Call
    BY <1>4 DEF CallOK
  <2>2. call' \in [Slots -> Call]
    BY <1>1, <2>1
  <2> QED BY <1>1, <1>4, <2>2 DEF CallsInv
<1> QED BY <1>1, <1>3, <1>5, ScriptMoves

-----------------------------------------------------------------------------
(* Legacy lessons and progress                                             *)

LEMMA DeleteLessonKeeps ==
  ASSUME IInv, NEW l \in Legacy, DeleteLesson(l)
  PROVE  IInv' /\ RefsGrow
<1>1. UNCHANGED <<contentRef, published, call, import, put, recorded>> /\ lessons' = lessons \ {l} /\ l \in Ids
  BY DEF DeleteLesson, cms, Ids
<1>2. Identity /\ ProgressInv
  BY DEF IInv
<1>3. CASE ~DropsRef(l)
  <2>1. UNCHANGED <<refs, rows>>
    BY <1>3 DEF DeleteLesson
  <2>2. Identity' /\ Grows /\ GivenIsShown
    BY <1>1, <1>2, <2>1, NothingChanged
  <2>3. CallsInv' /\ ImportsKept
    BY <1>1, <1>2, <2>2, CallsStay DEF IInv
  <2>4. ScriptInv'
    BY <1>1, <1>2, <2>2, <2>3, ScriptStays DEF IInv, import
  <2>5. ProgressInv'
    BY <1>1, <1>2, <2>1 DEF ProgressInv
  <2> QED BY <2>2, <2>3, <2>4, <2>5 DEF IInv, Grows
<1>4. CASE DropsRef(l)
  <2>1. refs' = [refs EXCEPT ![l] = Absent] /\ rows' = [rows EXCEPT ![l] = 0] /\ refs[l] = Sentinel
    BY <1>4 DEF DeleteLesson, DropsRef
  <2>2. /\ \A i \in Ids : refs'[i] = IF i = l THEN Absent ELSE refs[i]
        /\ \A i \in Ids : rows'[i] = IF i = l THEN 0 ELSE rows[i]
    BY <1>2, <2>1 DEF Identity, ProgressInv
  <2>3. Grows /\ GivenIsShown
    BY <1>1, <2>1, <2>2, ContentRefsAssumption DEF Grows, RefsGrow, DocsGrow, GivenIsShown
  <2>4. Identity'
    <3>1. refs' \in [Ids -> Docs \cup {Sentinel, Absent}]
      BY <1>2, <2>1 DEF Identity
    <3>2. \A i \in Legacy : refs'[i] \in Docs => contentRef'[refs'[i]] = i
      BY <1>1, <1>2, <2>2, ContentRefsAssumption DEF Identity, Ids
    <3>3. \A i \in Minted : refs'[i] = refs[i]
      BY <2>2, ContentRefsAssumption DEF Ids
    <3> QED BY <1>1, <1>2, <3>1, <3>2, <3>3 DEF Identity
  <2>5. CallsInv' /\ ImportsKept
    BY <1>1, <1>2, <2>3, CallsStay DEF IInv
  <2>6. ScriptInv'
    BY <1>1, <1>2, <2>3, <2>4, <2>5, ScriptStays DEF IInv, import
  <2>7. ProgressInv'
    <3>1. rows' \in [Ids -> Nat]
      BY <1>2, <2>1 DEF ProgressInv
    <3>2. \A i \in recorded : (refs'[i] # Absent => rows'[i] > 0) /\ (i \in Minted => refs'[i] # Absent)
      BY <1>2, <2>2, ContentRefsAssumption DEF ProgressInv, Ids
    <3> QED BY <1>1, <1>2, <3>1, <3>2 DEF ProgressInv
  <2> QED BY <2>3, <2>4, <2>5, <2>6, <2>7 DEF IInv, Grows
<1> QED BY <1>3, <1>4

\* Only the progress of a student has changed.
LEMMA ProgressMoves ==
  ASSUME IInv, UNCHANGED <<refs, lessons, contentRef, published, call, import>>, ProgressInv'
  PROVE  IInv' /\ RefsGrow
<1>1. Identity' /\ Grows /\ GivenIsShown
  BY NothingChanged DEF IInv
<1>2. CallsInv' /\ ImportsKept
  BY <1>1, CallsStay DEF IInv
<1>3. ScriptInv'
  BY <1>1, <1>2, ScriptStays DEF IInv, import
<1> QED BY <1>1, <1>2, <1>3 DEF IInv, Grows

LEMMA PutKeeps ==
  ASSUME IInv, NEW p \in Puts, PutProgress(p) \/ SelectProgress(p) \/ WriteProgress(p)
  PROVE  IInv' /\ RefsGrow
<1>1. UNCHANGED <<refs, lessons, contentRef, published, call, import>>
  BY DEF PutProgress, SelectProgress, WriteProgress, cms
<1>2. Identity /\ ProgressInv /\ put[p] \in Put /\ put \in [Puts -> Put] /\ NoPut \in Put /\ NoPut.at = "idle"
  BY DEF IInv, ProgressInv, Put, NoPut
<1>3. ASSUME NEW q \in Put, put' = [put EXCEPT ![p] = q], q.at # "idle" => q.id \in Ids
      PROVE  put' \in [Puts -> Put] /\ \A r \in Puts : put'[r].at # "idle" => put'[r].id \in Ids
  BY <1>2, <1>3 DEF ProgressInv
<1>4. CASE PutProgress(p)
  <2>1. PICK i \in Shown :
          put' = [put EXCEPT ![p] = IF refs[i] = Absent THEN NoPut ELSE [at |-> "select", id |-> i, found |-> FALSE]]
    BY <1>4 DEF PutProgress
  <2>2. i \in Ids
    BY <1>2, <2>1 DEF Shown, ProgressInv, Identity, Ids
  <2>3. [at |-> "select", id |-> i, found |-> FALSE] \in Put
    BY <2>2 DEF Put
  <2>4. put' \in [Puts -> Put] /\ \A r \in Puts : put'[r].at # "idle" => put'[r].id \in Ids
    BY <1>2, <1>3, <2>1, <2>2, <2>3
  <2>5. UNCHANGED <<rows, recorded>>
    BY <1>4 DEF PutProgress
  <2>6. ProgressInv'
    BY <1>1, <1>2, <2>4, <2>5 DEF ProgressInv
  <2> QED BY <1>1, <2>6, ProgressMoves
<1>5. CASE SelectProgress(p)
  <2> DEFINE b == rows[put[p].id] = 1
             q == [put[p] EXCEPT !.at = "write", !.found = b]
  <2>1. UNCHANGED <<rows, recorded>> /\ put[p].at = "select"
        /\ (put' = [put EXCEPT ![p] = NoPut] \/ put' = [put EXCEPT ![p] = q])
    BY <1>2, <1>5 DEF SelectProgress
  <2>2. b \in BOOLEAN
    OBVIOUS
  <2> HIDE DEF b
  <2>3. q \in Put /\ q.id = put[p].id /\ q.id \in Ids
    BY <1>2, <2>1, <2>2 DEF Put, ProgressInv
  <2> HIDE DEF q
  <2>4. put' \in [Puts -> Put] /\ \A r \in Puts : put'[r].at # "idle" => put'[r].id \in Ids
    BY <1>2, <1>3, <2>1, <2>3
  <2>5. ProgressInv'
    BY <1>1, <1>2, <2>1, <2>4 DEF ProgressInv
  <2> QED BY <1>1, <2>5, ProgressMoves
<1>6. CASE WriteProgress(p)
  <2> DEFINE i == put[p].id
             accepted == refs[i] # Absent /\ (put[p].found => rows[i] > 0)
  <2>1. /\ i \in Ids /\ put' = [put EXCEPT ![p] = NoPut]
        /\ rows' = IF accepted /\ ~put[p].found THEN [rows EXCEPT ![i] = @ + 1] ELSE rows
        /\ recorded' = IF accepted THEN recorded \cup {i} ELSE recorded
    BY <1>2, <1>6 DEF WriteProgress, ProgressInv
  <2>2. rows \in [Ids -> Nat] /\ rows[i] \in Nat
    BY <1>2, <2>1 DEF ProgressInv
  <2>3. rows' \in [Ids -> Nat] /\ \A j \in Ids : rows[j] > 0 => rows'[j] > 0
    BY <2>1, <2>2
  <2>4. accepted => rows'[i] > 0 /\ refs[i] # Absent
    BY <2>1, <2>2
  <2>5. put' \in [Puts -> Put] /\ \A r \in Puts : put'[r].at # "idle" => put'[r].id \in Ids
    BY <1>2, <1>3, <2>1
  <2> HIDE DEF accepted
  <2>6. recorded' \subseteq Ids /\
        \A j \in recorded' : (refs'[j] # Absent => rows'[j] > 0) /\ (j \in Minted => refs'[j] # Absent)
    BY <1>1, <1>2, <2>1, <2>3, <2>4 DEF ProgressInv
  <2>7. ProgressInv'
    BY <1>1, <1>2, <2>3, <2>5, <2>6 DEF ProgressInv
  <2> QED BY <1>1, <2>7, ProgressMoves
<1> QED BY <1>4, <1>5, <1>6

-----------------------------------------------------------------------------
(* The identity of lessons                                                 *)

LEMMA InitInv == Init => IInv
<1> SUFFICES ASSUME Init PROVE IInv
  OBVIOUS
<1>1. Identity
  BY ContentRefsAssumption DEF Init, Identity, Ids
<1>2. CallsInv
  <2>1. Idle \in Call
    BY DEF Idle, Call
  <2> QED BY <2>1, IdleOK DEF Init, CallsInv
<1>3. ScriptInv
  <2>1. Off \in Script /\ Off.at = "off" /\ Off.slot = "none"
    BY DEF Off, Script
  <2> QED BY <2>1, ContentRefsAssumption DEF Init, ScriptInv, Slots
<1>4. ProgressInv
  BY ContentRefsAssumption DEF Init, ProgressInv, Put, NoPut, Ids
<1> QED BY <1>1, <1>2, <1>3, <1>4 DEF IInv

LEMMA StepInv ==
  ASSUME IInv, [Next]_vars
  PROVE  IInv' /\ RefsGrow
<1>1. CASE \E s \in Slots : Serve(s) \/ BackendFails(s) \/ TimesOut(s)
  BY <1>1, LookupKeeps, GetRefKeeps, FindBoundKeeps, CommitBindKeeps, InsertRefKeeps, FindWinnerKeeps,
     BackendFailsKeeps, TimesOutKeeps DEF Serve
<1>2. CASE \/ \E d \in Docs : CreateDraft(d) \/ \E h \in Hooks : Publish(h, d)
           \/ \E d, e \in Docs : Duplicate(d, e)
  BY <1>2, CreateDraftKeeps, PublishKeeps, DuplicateKeeps
<1>3. CASE \E h \in Hooks : HookEnds(h)
  BY <1>3, WriteBackKeeps, HookCatchesKeeps DEF HookEnds
<1>4. CASE StartImport \/ ScriptStep \/ ScriptDies
  BY <1>4, StartImportKeeps, FindDocKeeps, CreateDocKeeps, RegisterDocKeeps, DocRegisteredKeeps,
     FinishImportKeeps, ScriptDiesKeeps DEF ScriptStep
<1>5. CASE \E l \in Legacy : DeleteLesson(l)
  BY <1>5, DeleteLessonKeeps
<1>6. CASE \E p \in Puts : PutProgress(p) \/ SelectProgress(p) \/ WriteProgress(p)
  BY <1>6, PutKeeps
<1>7. CASE UNCHANGED vars
  <2>1. UNCHANGED <<refs, lessons, contentRef, published, call, import, progress>>
    BY <1>7 DEF vars, cms
  <2>2. ProgressInv'
    BY <2>1 DEF IInv, ProgressInv, progress
  <2> QED BY <2>1, <2>2, ProgressMoves
<1> QED BY <1>1, <1>2, <1>3, <1>4, <1>5, <1>6, <1>7 DEF Next

\* A ref that is bound stays bound, a minted one to its document and one of a
\* legacy lesson to a document with its id, however the requests of hooks and
\* imports interleave, time out or die (content_ref_service.py:45-75).
THEOREM BoundRefsStay == Spec => BoundStaysBound
<1>1. IInv /\ [Next]_vars => IInv'
  BY StepInv
<1>2. IInv /\ [Next]_vars =>
        [\A i \in Ids : refs[i] \in Docs =>
           /\ refs'[i] \in Docs
           /\ i \in Minted => refs'[i] = refs[i]
           /\ i \in Legacy => contentRef'[refs'[i]] = i]_vars
  <2> SUFFICES ASSUME IInv, [Next]_vars, NEW i \in Ids, refs[i] \in Docs
               PROVE  /\ refs'[i] \in Docs
                      /\ i \in Minted => refs'[i] = refs[i]
                      /\ i \in Legacy => contentRef'[refs'[i]] = i
    OBVIOUS
  <2>1. refs'[i] \in Docs /\ (i \in Minted => refs'[i] = refs[i]) /\ Identity'
    BY StepInv DEF RefsGrow, IInv
  <2> QED BY <2>1 DEF Identity
<1> QED BY <1>1, <1>2, InitInv, PTL DEF Spec, BoundStaysBound

\* A bound ref and its document agree, and what a successful import has bound,
\* with the progress recorded under it, is there for good
\* (import-legacy.ts:120-160).
THEOREM ImportStays == Spec => []ImportHolds
<1>1. IInv => ImportHolds
  <2> SUFFICES ASSUME IInv PROVE ImportHolds
    OBVIOUS
  <2>1. RefsNameTheirLesson
    BY DEF IInv, Identity, RefsNameTheirLesson, Ids
  <2>2. ASSUME validated, NEW l \in Legacy
        PROVE  /\ \E d \in published : contentRef[d] = l
               /\ refs[l] \in Docs /\ contentRef[refs[l]] = l
               /\ l \in recorded => rows[l] > 0
    <3>1. refs[l] \in Docs
      BY <2>2 DEF IInv, ScriptInv
    <3>2. contentRef[refs[l]] = l
      BY <3>1 DEF IInv, Identity
    <3>3. \E d \in published : contentRef[d] = l
      BY <3>1, <3>2 DEF IInv, ProgressInv
    <3>4. l \in recorded => rows[l] > 0
      BY <3>1, ContentRefsAssumption DEF IInv, ProgressInv
    <3> QED BY <3>1, <3>2, <3>3, <3>4
  <2> QED BY <2>1, <2>2 DEF ImportHolds
<1>2. IInv /\ [Next]_vars => IInv'
  BY StepInv
<1> QED BY <1>1, <1>2, InitInv, PTL DEF Spec


-----------------------------------------------------------------------------
(* The content of a lesson                                                 *)

Specs == Written \cup {Normalized(s) : s \in Written}
CircuitBlock == {Circuit(s) : s \in Specs}
Block == [kind : {"markdown"}, body : Seq(Pieces)] \cup CircuitBlock
Item == Pieces \cup {[kind |-> "drawing", is |-> Drawing(s)] : s \in Specs}

\* blocks is what the import makes of the prefixes of s up to the k-th.
Makes(blocks, s, k) == blocks = [n \in 0 .. k |-> IF n = 0 THEN <<>> ELSE AddPiece(blocks[n - 1], s[n])]

LEMMA BlocksExtend ==
  ASSUME NEW s, NEW k \in Nat, NEW f, Makes(f, s, k)
  PROVE  \E g : Makes(g, s, k + 1)
<1> DEFINE g == [n \in 0 .. k + 1 |-> IF n <= k THEN f[n] ELSE AddPiece(f[n - 1], s[n])]
<1>1. \A n \in 0 .. k : f[n] = IF n = 0 THEN <<>> ELSE AddPiece(f[n - 1], s[n])
  BY DEF Makes
<1>2. \A n \in 0 .. k + 1 : g[n] = IF n = 0 THEN <<>> ELSE AddPiece(g[n - 1], s[n])
  <2> TAKE n \in 0 .. k + 1
  <2>1. CASE n <= k
    <3>1. n # 0 => n - 1 \in 0 .. k + 1 /\ g[n - 1] = f[n - 1]
      BY <2>1
    <3> QED BY <1>1, <2>1, <3>1
  <2>2. CASE n = k + 1
    <3>1. n # 0 /\ n - 1 \in 0 .. k + 1 /\ g[n - 1] = f[n - 1]
      BY <2>2
    <3> QED BY <2>2, <3>1
  <2> QED BY <2>1, <2>2
<1>3. g = [n \in 0 .. k + 1 |-> g[n]]
  OBVIOUS
<1> HIDE DEF g
<1>4. Makes(g, s, k + 1)
  BY <1>2, <1>3 DEF Makes
<1> QED BY <1>4

LEMMA BlocksExist ==
  ASSUME NEW s, NEW k \in Nat
  PROVE  \E f : Makes(f, s, k)
<1> DEFINE B == {n \in Nat : ~\E f : Makes(f, s, n)}
<1> SUFFICES ASSUME B # {} PROVE FALSE
  OBVIOUS
<1>1. PICK m \in B : \A n \in B : m <= n
  BY LeastNumber
<1>2. CASE m = 0
  <2>1. Makes([n \in 0 .. 0 |-> <<>>], s, 0)
    BY DEF Makes
  <2> QED BY <1>2, <2>1
<1>3. CASE m # 0
  <2>1. m - 1 \in Nat /\ m - 1 \notin B
    BY <1>1, <1>3
  <2>2. PICK f : Makes(f, s, m - 1)
    BY <2>1
  <2>3. \E g : Makes(g, s, (m - 1) + 1)
    BY <2>1, <2>2, BlocksExtend
  <2>4. (m - 1) + 1 = m
    OBVIOUS
  <2> QED BY <2>3, <2>4
<1> QED BY <1>2, <1>3

\* What comes of a prefix depends on that prefix alone.
LEMMA BlocksAgree ==
  ASSUME NEW s, NEW t, NEW k \in Nat, NEW l \in Nat, k <= l, NEW f, NEW g,
         Makes(f, s, k), Makes(g, t, l), \A n \in 1 .. k : s[n] = t[n]
  PROVE  f[k] = g[k]
<1> DEFINE B == {n \in 0 .. k : f[n] # g[n]}
<1> SUFFICES ASSUME B # {} PROVE FALSE
  BY k \in 0 .. k
<1>1. \A n \in 0 .. k : /\ f[n] = IF n = 0 THEN <<>> ELSE AddPiece(f[n - 1], s[n])
                        /\ g[n] = IF n = 0 THEN <<>> ELSE AddPiece(g[n - 1], t[n])
  <2>1. \A n \in 0 .. k : f[n] = IF n = 0 THEN <<>> ELSE AddPiece(f[n - 1], s[n])
    BY DEF Makes
  <2>2. \A n \in 0 .. l : g[n] = IF n = 0 THEN <<>> ELSE AddPiece(g[n - 1], t[n])
    BY DEF Makes
  <2>3. \A n \in 0 .. k : n \in 0 .. l
    OBVIOUS
  <2> QED BY <2>1, <2>2, <2>3
<1>2. PICK m \in B : \A n \in B : m <= n
  <2>1. B \in SUBSET Nat
    OBVIOUS
  <2> HIDE DEF B
  <2> QED BY <2>1, LeastNumber
<1>3. m # 0
  BY <1>1, <1>2
<1>4. m - 1 \in 0 .. k /\ m \in 1 .. k /\ m - 1 \notin B
  BY <1>2, <1>3
<1>5. f[m - 1] = g[m - 1] /\ s[m] = t[m]
  BY <1>4
<1>6. f[m] = g[m]
  BY <1>1, <1>3, <1>4, <1>5
<1> QED BY <1>2, <1>6

LEMMA BlocksMade ==
  ASSUME NEW s, Len(s) \in Nat
  PROVE  \E f : Makes(f, s, Len(s)) /\ Blocks(s) = f[Len(s)]
<1> DEFINE f == CHOOSE h : Makes(h, s, Len(s))
<1>1. Makes(f, s, Len(s))
  BY BlocksExist
<1>2. Blocks(s) = f[Len(s)]
  BY DEF Blocks, Makes
<1> QED BY <1>1, <1>2

LEMMA BlocksEmpty == Blocks(<<>>) = <<>>
<1>1. Len(<<>>) = 0
  OBVIOUS
<1>2. PICK f : Makes(f, <<>>, 0) /\ Blocks(<<>>) = f[0]
  BY <1>1, BlocksMade
<1> QED BY <1>2 DEF Makes

LEMMA BlocksAppend ==
  ASSUME NEW s \in Seq(Pieces), NEW p \in Pieces
  PROVE  Blocks(Append(s, p)) = AddPiece(Blocks(s), p)
<1> DEFINE t == Append(s, p)
           k == Len(s)
<1>1. k \in Nat /\ Len(t) = k + 1 /\ t[k + 1] = p /\ \A n \in 1 .. k : s[n] = t[n]
  OBVIOUS
<1>2. PICK f : Makes(f, s, k) /\ Blocks(s) = f[k]
  BY <1>1, BlocksMade
<1> HIDE DEF t, k
<1>3. PICK g : Makes(g, t, k + 1) /\ Blocks(t) = g[k + 1]
  <2>1. Len(t) \in Nat
    BY <1>1
  <2>2. \E g : Makes(g, t, Len(t)) /\ Blocks(t) = g[Len(t)]
    BY <2>1, BlocksMade
  <2> QED BY <1>1, <2>2
<1>4. f[k] = g[k]
  BY <1>1, <1>2, <1>3, BlocksAgree
<1>5. g[k + 1] = AddPiece(g[k], t[k + 1])
  <2>1. k + 1 \in 0 .. k + 1 /\ k + 1 # 0 /\ (k + 1) - 1 = k
    BY <1>1
  <2> QED BY <1>3, <2>1 DEF Makes
<1>6. Blocks(t) = AddPiece(Blocks(s), p)
  BY <1>1, <1>2, <1>3, <1>4, <1>5
<1> QED BY <1>6 DEF t

LEMMA PieceKinds ==
  ASSUME NEW p \in Pieces
  PROVE  /\ p.kind \in {"text", "blank", "broken", "fence"}
         /\ p.kind = "fence" => p.spec \in Written
  BY DEF Pieces

LEMMA BlockKinds ==
  ASSUME NEW b \in Block
  PROVE  \/ b.kind = "markdown" /\ b.body \in Seq(Pieces) /\ b = [kind |-> "markdown", body |-> b.body] /\ b \notin CircuitBlock
         \/ b.kind = "circuit" /\ b.spec \in Specs /\ b \in CircuitBlock /\ b = Circuit(b.spec)
  BY DEF Block, CircuitBlock, Circuit

\* What is under which block.
BodyOf(b) == IF b.kind = "markdown" THEN b.body ELSE <<>>

\* The last block of a list, changed.
LEMMA PushIs ==
  ASSUME NEW u \in Seq(Block), NEW b \in Block, NEW p \in Pieces, p.kind # "blank"
  PROVE  /\ PushMarkdown(<<>>, p) = Append(<<>>, [kind |-> "markdown", body |-> Append(<<>>, p)])
         /\ PushMarkdown(Append(u, b), p) =
              IF b.kind = "markdown" THEN Append(u, [kind |-> "markdown", body |-> Append(b.body, p)])
              ELSE Append(Append(u, b), [kind |-> "markdown", body |-> Append(<<>>, p)])
<1> DEFINE v == Append(u, b)
           c == [kind |-> "markdown", body |-> Append(b.body, p)]
<1>1. /\ v # <<>> /\ Last(v) = b /\ Len(v) = Len(u) + 1 /\ Len(u) \in Nat /\ v[Len(v)] = b
      /\ DOMAIN v = 1 .. Len(u) + 1 /\ \A n \in 1 .. Len(u) : v[n] = u[n]
  BY DEF Last
<1>2. PushMarkdown(<<>>, p) = Append(<<>>, [kind |-> "markdown", body |-> Append(<<>>, p)])
  BY DEF PushMarkdown
<1>3. CASE b.kind = "markdown"
  <2>1. PushMarkdown(v, p) = [v EXCEPT ![Len(v)].body = Append(@, p)]
    <3> HIDE DEF v
    <3> QED BY <1>1, <1>3 DEF PushMarkdown
  <2>2. [b EXCEPT !.body = Append(@, p)] = c
    <3>1. PICK x : b = [kind |-> "markdown", body |-> x]
      BY <1>3, BlockKinds
    <3>2. b.body = x
      BY <3>1
    <3> DEFINE y == Append(x, p)
    <3> HIDE DEF y
    <3>3. [b EXCEPT !.body = y] = [kind |-> "markdown", body |-> y]
      BY <3>1
    <3> QED BY <3>2, <3>3 DEF y
  <2>3. [v EXCEPT ![Len(v)].body = Append(@, p)] = [v EXCEPT ![Len(u) + 1] = c]
    <3>1. [v EXCEPT ![Len(v)].body = Append(@, p)] =
            [v EXCEPT ![Len(v)] = [v[Len(v)] EXCEPT !.body = Append(v[Len(v)].body, p)]]
      OBVIOUS
    <3> HIDE DEF v, c
    <3>2. [v[Len(v)] EXCEPT !.body = Append(v[Len(v)].body, p)] = c
      BY <1>1, <2>2
    <3> QED BY <1>1, <3>1, <3>2
  <2> DEFINE w == [v EXCEPT ![Len(u) + 1] = c]
  <2>4. w = Append(u, c)
    <3>1. DOMAIN w = 1 .. Len(u) + 1 /\ w[Len(u) + 1] = c /\ \A n \in 1 .. Len(u) : w[n] = u[n]
      <4> HIDE DEF v, c
      <4> QED BY <1>1
    <3>2. w = [n \in 1 .. Len(u) + 1 |-> w[n]]
      <4> HIDE DEF v, c
      <4> QED BY <1>1
    <3>3. c \in Block
      <4>1. b.body \in Seq(Pieces)
        BY <1>3, BlockKinds
      <4> QED BY <4>1 DEF Block
    <3> HIDE DEF w, c
    <3>4. w \in Seq(Block) /\ Len(w) = Len(u) + 1
      <4>1. w \in [1 .. Len(u) + 1 -> Block]
        BY <1>1, <3>1, <3>2, <3>3
      <4> QED BY <1>1, <4>1
    <3>5. /\ Append(u, c) \in Seq(Block) /\ Len(Append(u, c)) = Len(u) + 1
          /\ Append(u, c)[Len(u) + 1] = c /\ \A n \in 1 .. Len(u) : Append(u, c)[n] = u[n]
      BY <3>3
    <3> QED BY <1>1, <3>1, <3>4, <3>5, SeqEqual
  <2> QED BY <1>2, <1>3, <2>1, <2>3, <2>4
<1>4. CASE b.kind # "markdown"
  <2>1. PushMarkdown(v, p) = Append(v, [kind |-> "markdown", body |-> Append(<<>>, p)])
    <3> HIDE DEF v
    <3> QED BY <1>1, <1>4 DEF PushMarkdown
  <2> QED BY <1>2, <1>4, <2>1
<1> QED BY <1>3, <1>4

\* A list that agrees with another and is longer by one element.
LEMMA OneLonger ==
  ASSUME NEW T, NEW k \in Nat, NEW s \in [1 .. k -> T], NEW t \in [1 .. k + 1 -> T], \A n \in 1 .. k : t[n] = s[n]
  PROVE  s \in Seq(T) /\ t = Append(s, t[k + 1])
<1>1. s \in Seq(T) /\ Len(s) = k /\ t \in Seq(T) /\ Len(t) = k + 1 /\ t[k + 1] \in T
  OBVIOUS
<1> DEFINE u == Append(s, t[k + 1])
<1>2. u \in Seq(T) /\ Len(u) = k + 1 /\ u[k + 1] = t[k + 1] /\ \A n \in 1 .. k : u[n] = s[n]
  BY <1>1
<1> HIDE DEF u
<1>3. \A n \in 1 .. k + 1 : n = k + 1 \/ n \in 1 .. k
  OBVIOUS
<1>4. \A n \in 1 .. k + 1 : t[n] = u[n]
  BY <1>2, <1>3
<1>5. t = u
  BY <1>1, <1>2, <1>4, SeqEqual
<1> QED BY <1>1, <1>5 DEF u

\* What a list of blocks or pieces is made into, when one is appended.
LEMMA BodiesAppend ==
  ASSUME NEW u \in Seq(Block), NEW b \in Block, \A x \in Block : (IF x.kind = "markdown" THEN x.body ELSE <<>>) \in Seq(Pieces)
  PROVE  /\ [n \in DOMAIN u |-> (IF u[n].kind = "markdown" THEN u[n].body ELSE <<>>)] \in Seq(Seq(Pieces))
         /\ [n \in DOMAIN Append(u, b) |-> (IF Append(u, b)[n].kind = "markdown" THEN Append(u, b)[n].body ELSE <<>>)]
              = Append([n \in DOMAIN u |-> (IF u[n].kind = "markdown" THEN u[n].body ELSE <<>>)], (IF b.kind = "markdown" THEN b.body ELSE <<>>))
<1> DEFINE v == Append(u, b)
           s == [n \in DOMAIN u |-> (IF u[n].kind = "markdown" THEN u[n].body ELSE <<>>)]
           T == Seq(Pieces)
           x == (IF b.kind = "markdown" THEN b.body ELSE <<>>)
           t == [n \in DOMAIN v |-> (IF v[n].kind = "markdown" THEN v[n].body ELSE <<>>)]
<1>1. /\ Len(u) \in Nat /\ DOMAIN u = 1 .. Len(u) /\ \A n \in DOMAIN u : u[n] \in Block
      /\ DOMAIN v = 1 .. Len(u) + 1 /\ v[Len(u) + 1] = b /\ \A n \in 1 .. Len(u) : v[n] = u[n]
  OBVIOUS
<1> HIDE DEF v
<1>2. \A n \in DOMAIN v : v[n] \in Block
  BY <1>1
<1>3. s \in [1 .. Len(u) -> T] /\ t \in [1 .. Len(u) + 1 -> T] /\ \A n \in 1 .. Len(u) : t[n] = s[n]
  BY <1>1, <1>2
<1>4. t[Len(u) + 1] = x
  BY <1>1
<1> HIDE DEF s, t, T, x
<1>5. s \in Seq(T) /\ t = Append(s, t[Len(u) + 1])
  <2>1. Len(u) \in Nat
    BY <1>1
  <2> QED BY ONLY <2>1, <1>3, OneLonger
<1>6. s \in Seq(T) /\ t = Append(s, x)
  BY <1>4, <1>5
<1> QED BY <1>6 DEF s, t, v, x, T

LEMMA ShownBlocksAppend ==
  ASSUME NEW u \in Seq(Block), NEW b \in Block, \A x \in Block : ShownBlock(x) \in Seq(Item)
  PROVE  /\ [n \in DOMAIN u |-> ShownBlock(u[n])] \in Seq(Seq(Item))
         /\ [n \in DOMAIN Append(u, b) |-> ShownBlock(Append(u, b)[n])]
              = Append([n \in DOMAIN u |-> ShownBlock(u[n])], ShownBlock(b))
<1> DEFINE v == Append(u, b)
           s == [n \in DOMAIN u |-> ShownBlock(u[n])]
           T == Seq(Item)
           x == ShownBlock(b)
           t == [n \in DOMAIN v |-> ShownBlock(v[n])]
<1>1. /\ Len(u) \in Nat /\ DOMAIN u = 1 .. Len(u) /\ \A n \in DOMAIN u : u[n] \in Block
      /\ DOMAIN v = 1 .. Len(u) + 1 /\ v[Len(u) + 1] = b /\ \A n \in 1 .. Len(u) : v[n] = u[n]
  OBVIOUS
<1> HIDE DEF v
<1>2. \A n \in DOMAIN v : v[n] \in Block
  BY <1>1
<1>3. s \in [1 .. Len(u) -> T] /\ t \in [1 .. Len(u) + 1 -> T] /\ \A n \in 1 .. Len(u) : t[n] = s[n]
  BY <1>1, <1>2
<1>4. t[Len(u) + 1] = x
  BY <1>1
<1> HIDE DEF s, t, T, x
<1>5. s \in Seq(T) /\ t = Append(s, t[Len(u) + 1])
  <2>1. Len(u) \in Nat
    BY <1>1
  <2> QED BY ONLY <2>1, <1>3, OneLonger
<1>6. s \in Seq(T) /\ t = Append(s, x)
  BY <1>4, <1>5
<1> QED BY <1>6 DEF s, t, v, x, T

LEMMA ShownPiecesAppend ==
  ASSUME NEW u \in Seq(Pieces), NEW p \in Pieces, \A x \in Pieces : ShownPiece(x) \in Item
  PROVE  /\ [n \in DOMAIN u |-> ShownPiece(u[n])] \in Seq(Item)
         /\ [n \in DOMAIN Append(u, p) |-> ShownPiece(Append(u, p)[n])]
              = Append([n \in DOMAIN u |-> ShownPiece(u[n])], ShownPiece(p))
<1> DEFINE v == Append(u, p)
           s == [n \in DOMAIN u |-> ShownPiece(u[n])]
           T == Item
           x == ShownPiece(p)
           t == [n \in DOMAIN v |-> ShownPiece(v[n])]
<1>1. /\ Len(u) \in Nat /\ DOMAIN u = 1 .. Len(u) /\ \A n \in DOMAIN u : u[n] \in Pieces
      /\ DOMAIN v = 1 .. Len(u) + 1 /\ v[Len(u) + 1] = p /\ \A n \in 1 .. Len(u) : v[n] = u[n]
  OBVIOUS
<1> HIDE DEF v
<1>2. \A n \in DOMAIN v : v[n] \in Pieces
  BY <1>1
<1>3. s \in [1 .. Len(u) -> T] /\ t \in [1 .. Len(u) + 1 -> T] /\ \A n \in 1 .. Len(u) : t[n] = s[n]
  BY <1>1, <1>2
<1>4. t[Len(u) + 1] = x
  BY <1>1
<1> HIDE DEF s, t, T, x
<1>5. s \in Seq(T) /\ t = Append(s, t[Len(u) + 1])
  <2>1. Len(u) \in Nat
    BY <1>1
  <2> QED BY ONLY <2>1, <1>3, OneLonger
<1>6. s \in Seq(T) /\ t = Append(s, x)
  BY <1>4, <1>5
<1> QED BY <1>6 DEF s, t, v, x, T

LEMMA KeptAppend ==
  ASSUME NEW u \in Seq(Block), NEW b \in Block
  PROVE  Kept(u) \in Seq(Pieces) /\ Kept(Append(u, b)) = Kept(u) \o BodyOf(b) /\ BodyOf(b) \in Seq(Pieces)
<1>1. \A x \in Block : (IF x.kind = "markdown" THEN x.body ELSE <<>>) \in Seq(Pieces)
  <2> TAKE x \in Block
  <2>1. x.kind = "markdown" => x.body \in Seq(Pieces)
    BY BlockKinds
  <2> QED BY <2>1
<1> DEFINE s == [n \in DOMAIN u |-> (IF u[n].kind = "markdown" THEN u[n].body ELSE <<>>)]
           t == [n \in DOMAIN Append(u, b) |->
                   (IF Append(u, b)[n].kind = "markdown" THEN Append(u, b)[n].body ELSE <<>>)]
<1>2. s \in Seq(Seq(Pieces)) /\ t = Append(s, BodyOf(b))
  BY <1>1, BodiesAppend DEF BodyOf
<1>3. Kept(u) = FlattenSeq(s) /\ Kept(Append(u, b)) = FlattenSeq(t) /\ BodyOf(b) \in Seq(Pieces)
  BY <1>1 DEF Kept, BodyOf
<1> HIDE DEF s, t
<1> QED BY <1>2, <1>3, FlattenAppend, FlattenType

LEMMA ShownPieceType ==
  ASSUME NEW p \in Pieces
  PROVE  ShownPiece(p) \in Item
<1>1. CASE p.kind = "fence"
  <2>1. p.spec \in Specs
    BY <1>1, PieceKinds DEF Specs
  <2> QED BY <1>1, <2>1 DEF Item, ShownPiece
<1>2. CASE p.kind # "fence"
  BY <1>2 DEF Item, ShownPiece
<1> QED BY <1>1, <1>2

LEMMA ShownMarkdownAppend ==
  ASSUME NEW s \in Seq(Pieces), NEW p \in Pieces
  PROVE  /\ ShownMarkdown(s) \in Seq(Item)
         /\ ShownMarkdown(Append(s, p)) = IF p.kind = "blank" THEN ShownMarkdown(s) ELSE Append(ShownMarkdown(s), ShownPiece(p))
<1> DEFINE visible == {q \in Pieces : q.kind # "blank"}
           v == Only(s, visible)
<1>1. v \in Seq(Pieces)
  BY OnlyType
<1>2. \A x \in Pieces : ShownPiece(x) \in Item
  BY ShownPieceType
<1>3. ShownMarkdown(s) = [n \in DOMAIN v |-> ShownPiece(v[n])]
  BY DEF ShownMarkdown
<1>4. ShownMarkdown(Append(s, p)) = [n \in DOMAIN Only(Append(s, p), visible) |-> ShownPiece(Only(Append(s, p), visible)[n])]
  BY DEF ShownMarkdown
<1>5. Only(Append(s, p), visible) = IF p \in visible THEN Append(v, p) ELSE v
  BY OnlyAppend
<1>6. p \in visible <=> p.kind # "blank"
  OBVIOUS
<1> HIDE DEF visible, v
<1>7. /\ [n \in DOMAIN v |-> ShownPiece(v[n])] \in Seq(Item)
      /\ [n \in DOMAIN Append(v, p) |-> ShownPiece(Append(v, p)[n])] = Append([n \in DOMAIN v |-> ShownPiece(v[n])], ShownPiece(p))
  BY <1>1, <1>2, ShownPiecesAppend
<1>8. CASE p.kind = "blank"
  BY <1>3, <1>4, <1>5, <1>6, <1>7, <1>8
<1>9. CASE p.kind # "blank"
  BY <1>3, <1>4, <1>5, <1>6, <1>7, <1>9
<1> QED BY <1>8, <1>9

LEMMA ShownMarkdownEmpty == ShownMarkdown(<<>>) = <<>>
<1> DEFINE visible == {q \in Pieces : q.kind # "blank"}
<1>1. Only(<<>>, visible) = <<>>
  BY OnlyEmpty
<1>2. ShownMarkdown(<<>>) = [n \in DOMAIN Only(<<>>, visible) |-> ShownPiece(Only(<<>>, visible)[n])]
  BY DEF ShownMarkdown
<1> HIDE DEF visible
<1>3. ShownMarkdown(<<>>) = [n \in {} |-> ShownPiece(<<>>[n])]
  BY <1>1, <1>2
<1> QED BY <1>3

LEMMA ShownBlockType ==
  ASSUME NEW b \in Block
  PROVE  ShownBlock(b) \in Seq(Item)
<1>1. CASE b.kind = "markdown" /\ b.body \in Seq(Pieces)
  <2>1. PICK p : p \in Pieces
    BY DEF Pieces
  <2>2. ShownMarkdown(b.body) \in Seq(Item)
    BY <1>1, <2>1, ShownMarkdownAppend
  <2> QED BY <1>1, <2>2 DEF ShownBlock
<1>2. CASE b.kind = "circuit" /\ b.spec \in Specs
  BY <1>2 DEF ShownBlock, Item
<1> QED BY <1>1, <1>2, BlockKinds

LEMMA PageAppend ==
  ASSUME NEW u \in Seq(Block), NEW b \in Block
  PROVE  ShownBlocks(u) \in Seq(Item) /\ ShownBlocks(Append(u, b)) = ShownBlocks(u) \o ShownBlock(b)
<1>1. \A x \in Block : ShownBlock(x) \in Seq(Item)
  BY ShownBlockType
<1> DEFINE s == [n \in DOMAIN u |-> ShownBlock(u[n])]
           t == [n \in DOMAIN Append(u, b) |-> ShownBlock(Append(u, b)[n])]
<1>2. s \in Seq(Seq(Item)) /\ t = Append(s, ShownBlock(b))
  BY <1>1, ShownBlocksAppend
<1>3. ShownBlocks(u) = FlattenSeq(s) /\ ShownBlocks(Append(u, b)) = FlattenSeq(t)
  BY DEF ShownBlocks
<1> HIDE DEF s, t
<1> QED BY <1>1, <1>2, <1>3, FlattenAppend, FlattenType

\* What one more block, or one more piece in the last, changes of what is shown,
\* of what is kept as Markdown and of the circuits.
Gains(bs, cs, p) ==
  /\ cs \in Seq(Block) /\ cs # <<>>
  /\ ShownBlocks(cs) = Append(ShownBlocks(bs), ShownPiece(p))
  /\ Kept(cs) = Append(Kept(bs), p)
  /\ Circuits(cs) = Circuits(bs)

LEMMA CircuitsAppend ==
  ASSUME NEW u \in Seq(Block), NEW b \in Block
  PROVE  /\ Circuits(u) \in Seq(Block)
         /\ Circuits(Append(u, b)) = IF b.kind = "circuit" THEN Append(Circuits(u), b) ELSE Circuits(u)
<1>1. Circuits(u) = Only(u, CircuitBlock) /\ Circuits(Append(u, b)) = Only(Append(u, b), CircuitBlock)
  BY DEF Circuits, CircuitBlock, Specs
<1>2. b.kind = "circuit" <=> b \in CircuitBlock
  BY BlockKinds
<1>3. u \in Seq(Block) /\ b \in Block
  OBVIOUS
<1>4. Only(u, CircuitBlock) \in Seq(Block)
  BY ONLY <1>3, OnlyType
<1>5. Only(Append(u, b), CircuitBlock) = IF b \in CircuitBlock THEN Append(Only(u, CircuitBlock), b) ELSE Only(u, CircuitBlock)
  BY ONLY <1>3, OnlyAppend
<1> QED BY <1>1, <1>2, <1>4, <1>5

LEMMA NewMarkdown ==
  ASSUME NEW v \in Seq(Block), NEW p \in Pieces, p.kind # "blank"
  PROVE  Gains(v, Append(v, [kind |-> "markdown", body |-> Append(<<>>, p)]), p)
<1> DEFINE r == Append(<<>>, p)
           c == [kind |-> "markdown", body |-> r]
           w == Append(v, c)
<1>1. r \in Seq(Pieces) /\ <<>> \in Seq(Pieces)
  OBVIOUS
<1>2. c \in Block /\ c.kind = "markdown" /\ c.body = r
  BY <1>1 DEF Block
<1>3. ShownMarkdown(r) = Append(<<>>, ShownPiece(p)) /\ ShownPiece(p) \in Item
  BY <1>1, ShownMarkdownAppend, ShownMarkdownEmpty, ShownPieceType
<1> SUFFICES Gains(v, w, p)
  OBVIOUS
<1> HIDE DEF c
<1>4. ShownBlock(c) = Append(<<>>, ShownPiece(p)) /\ BodyOf(c) = r
  BY <1>2, <1>3 DEF ShownBlock, BodyOf
<1> HIDE DEF r
<1>5. /\ ShownBlocks(v) \in Seq(Item) /\ ShownBlocks(w) = ShownBlocks(v) \o Append(<<>>, ShownPiece(p))
      /\ Kept(v) \in Seq(Pieces) /\ Kept(w) = Kept(v) \o r
      /\ Circuits(w) = Circuits(v)
  BY <1>2, <1>4, PageAppend, KeptAppend, CircuitsAppend
<1>6. w \in Seq(Block) /\ w # <<>>
  <2>1. v \in Seq(Block) /\ c \in Block
    BY <1>2
  <2> QED BY ONLY <2>1, AppendProperties DEF w
<1> HIDE DEF w
<1>7. ShownBlocks(v) \o Append(<<>>, ShownPiece(p)) = Append(ShownBlocks(v), ShownPiece(p))
  <2> DEFINE a == ShownBlocks(v)
             x == ShownPiece(p)
  <2>1. a \in Seq(Item) /\ x \in Item /\ <<>> \in Seq(Item)
    BY <1>3, <1>5
  <2> HIDE DEF a, x
  <2>2. a \o Append(<<>>, x) = Append(a \o <<>>, x) /\ a \o <<>> = a
    BY <2>1, AppendConcat, ConcatEmptySeq
  <2> QED BY <2>2 DEF a, x
<1>8. Kept(v) \o r = Append(Kept(v), p)
  <2> DEFINE a == Kept(v)
  <2>1. a \in Seq(Pieces)
    BY <1>5
  <2> HIDE DEF a
  <2>2. a \o Append(<<>>, p) = Append(a \o <<>>, p) /\ a \o <<>> = a
    BY <1>1, <2>1, AppendConcat, ConcatEmptySeq
  <2> QED BY <2>2 DEF a, r
<1> QED BY <1>5, <1>6, <1>7, <1>8 DEF Gains

LEMMA JoinedMarkdown ==
  ASSUME NEW u \in Seq(Block), NEW b \in Block, b.kind = "markdown", NEW p \in Pieces, p.kind # "blank"
  PROVE  Gains(Append(u, b), Append(u, [kind |-> "markdown", body |-> Append(b.body, p)]), p)
<1> DEFINE r == Append(b.body, p)
           c == [kind |-> "markdown", body |-> r]
           v == Append(u, b)
           w == Append(u, c)
           x == ShownPiece(p)
           a == ShownBlocks(u)
           m == ShownMarkdown(b.body)
           k == Kept(u)
<1>1. b.body \in Seq(Pieces) /\ r \in Seq(Pieces)
  BY BlockKinds
<1>2. c \in Block /\ c.kind = "markdown" /\ c.body = r
  BY <1>1 DEF Block
<1>3. m \in Seq(Item) /\ ShownMarkdown(r) = Append(m, x) /\ x \in Item
  BY <1>1, ShownMarkdownAppend, ShownPieceType
<1> SUFFICES Gains(v, w, p)
  OBVIOUS
<1> HIDE DEF c
<1>4. ShownBlock(c) = Append(m, x) /\ BodyOf(c) = r /\ ShownBlock(b) = m /\ BodyOf(b) = b.body
  BY <1>2, <1>3 DEF ShownBlock, BodyOf
<1>5. /\ a \in Seq(Item) /\ ShownBlocks(w) = a \o Append(m, x) /\ ShownBlocks(v) = a \o m
      /\ k \in Seq(Pieces) /\ Kept(w) = k \o r /\ Kept(v) = k \o b.body
      /\ Circuits(w) = Circuits(u) /\ Circuits(v) = Circuits(u)
  <2> HIDE DEF m, x, r
  <2> QED BY <1>2, <1>4, PageAppend, KeptAppend, CircuitsAppend
<1>6. w \in Seq(Block) /\ w # <<>>
  BY <1>2
<1> HIDE DEF w, v, a, m, x, k
<1>7. a \o Append(m, x) = Append(a \o m, x)
  BY <1>3, <1>5, AppendConcat
<1>8. k \o r = Append(k \o b.body, p)
  <2> DEFINE z == b.body
  <2>1. k \in Seq(Pieces) /\ z \in Seq(Pieces)
    BY <1>1, <1>5
  <2> HIDE DEF z
  <2>2. k \o Append(z, p) = Append(k \o z, p)
    BY ONLY p \in Pieces, <2>1, AppendConcat
  <2> QED BY ONLY <2>2 DEF z, r
<1> QED BY <1>5, <1>6, <1>7, <1>8 DEF Gains, x

LEMMA PushGains ==
  ASSUME NEW bs \in Seq(Block), NEW p \in Pieces, p.kind # "blank"
  PROVE  Gains(bs, PushMarkdown(bs, p), p)
<1>1. CASE bs = <<>>
  <2>1. PICK b : b \in Block
    <3>1. [kind |-> "markdown", body |-> <<>>] \in Block
      BY DEF Block
    <3> QED BY <3>1
  <2>2. PushMarkdown(<<>>, p) = Append(<<>>, [kind |-> "markdown", body |-> Append(<<>>, p)])
    BY <1>1, <2>1, PushIs
  <2> QED BY <1>1, <2>2, NewMarkdown
<1>2. ASSUME NEW u \in Seq(Block), NEW b \in Block, bs = Append(u, b) PROVE Gains(bs, PushMarkdown(bs, p), p)
  <2>1. CASE b.kind = "markdown"
    <3>1. PushMarkdown(bs, p) = Append(u, [kind |-> "markdown", body |-> Append(b.body, p)])
      BY <1>2, <2>1, PushIs
    <3> QED BY <1>2, <2>1, <3>1, JoinedMarkdown
  <2>2. CASE b.kind # "markdown"
    <3>1. PushMarkdown(bs, p) = Append(bs, [kind |-> "markdown", body |-> Append(<<>>, p)])
      BY <1>2, <2>2, PushIs
    <3> QED BY <3>1, NewMarkdown
  <2> QED BY <2>1, <2>2
<1> QED BY <1>1, <1>2, SequenceEmptyOrAppend

LEMMA CanonicalIsFinal ==
  ASSUME NEW type
  PROVE  CanonicalType(CanonicalType(type)) = CanonicalType(type)
  BY DEF CanonicalType

\* What the import makes of a circuit is drawn as the circuit was.
LEMMA DrawnAsBefore ==
  ASSUME NEW s \in Written
  PROVE  Drawing(Normalized(s)) = Drawing(s)
<1> DEFINE r == Normalized(s)
           gates == [n \in DOMAIN s.gates |-> [s.gates[n] EXCEPT !.type = CanonicalType(@)]]
<1>1. r.qubits = s.qubits /\ r.gates = gates
  BY DEF Normalized
<1> HIDE DEF r
<1>2. DOMAIN gates = DOMAIN s.gates
  OBVIOUS
<1>3. ASSUME NEW n \in DOMAIN s.gates
      PROVE  /\ CanonicalType(gates[n].type) = CanonicalType(s.gates[n].type)
             /\ Boxes(gates[n]) = Boxes(s.gates[n]) /\ Dot(gates[n]) = Dot(s.gates[n])
  <2> DEFINE g == s.gates[n]
             y == CanonicalType(g.type)
             h == [g EXCEPT !.type = y]
  <2>1. gates[n] = h /\ "type" \in DOMAIN g /\ "targets" \in DOMAIN g /\ "control" \in DOMAIN g
    BY LessonAssumption
  <2> HIDE DEF g, y
  <2>2. h.type = y /\ h.targets = g.targets /\ h.control = g.control
    BY <2>1
  <2> HIDE DEF h, gates
  <2>3. Boxes(h) = Boxes(g) /\ Dot(h) = Dot(g)
    BY <2>2 DEF Boxes, Dot
  <2>4. CanonicalType(h.type) = CanonicalType(g.type)
    BY <2>2, CanonicalIsFinal DEF y
  <2> QED BY <2>1, <2>3, <2>4 DEF g
<1> HIDE DEF gates
<1>4. [n \in DOMAIN r.gates |-> [type |-> CanonicalType(r.gates[n].type), boxes |-> Boxes(r.gates[n]), dot |-> Dot(r.gates[n])]]
      = [n \in DOMAIN s.gates |-> [type |-> CanonicalType(s.gates[n].type), boxes |-> Boxes(s.gates[n]), dot |-> Dot(s.gates[n])]]
  BY <1>1, <1>2, <1>3
<1>5. Drawing(r) = Drawing(s)
  BY <1>1, <1>4 DEF Drawing
<1> QED BY <1>5 DEF r

\* What the import makes of a lesson shows what the lesson shows, and its own
\* verification finds all of it.
Unconverted(s) == Only(s, {p \in Pieces : IsFence(p) /\ ~Converts(p)})
Converted(s, bs) ==
  /\ bs \in Seq(Block)
  /\ ShownBlocks(bs) = ShownMarkdown(s)
  /\ Prose(Kept(bs)) = Prose(s)
  /\ Len(Circuits(bs)) + Len(Fences(Kept(bs))) = Len(Fences(s))
  /\ Len(Unconverted(s)) + Len(Circuits(bs)) = Len(Fences(s))
  /\ bs = <<>> => \A n \in DOMAIN s : s[n].kind = "blank"

LEMMA FiltersOfPieces ==
  ASSUME NEW s \in Seq(Pieces), NEW p \in Pieces
  PROVE  /\ Fences(s) \in Seq(Pieces) /\ Unconverted(s) \in Seq(Pieces)
         /\ Prose(Append(s, p)) = IF p.kind = "text" THEN Append(Prose(s), p) ELSE Prose(s)
         /\ Fences(Append(s, p)) = IF IsFence(p) THEN Append(Fences(s), p) ELSE Fences(s)
         /\ Unconverted(Append(s, p)) =
              IF IsFence(p) /\ ~Converts(p) THEN Append(Unconverted(s), p) ELSE Unconverted(s)
<1> DEFINE prose == {q \in Pieces : q.kind = "text"}
           fences == {q \in Pieces : IsFence(q)}
           others == {q \in Pieces : IsFence(q) /\ ~Converts(q)}
<1>1. /\ Prose(s) = Only(s, prose) /\ Prose(Append(s, p)) = Only(Append(s, p), prose)
      /\ Fences(s) = Only(s, fences) /\ Fences(Append(s, p)) = Only(Append(s, p), fences)
      /\ Unconverted(s) = Only(s, others) /\ Unconverted(Append(s, p)) = Only(Append(s, p), others)
  BY DEF Prose, Fences, Unconverted
<1>2. /\ p \in prose <=> p.kind = "text"
      /\ p \in fences <=> IsFence(p)
      /\ p \in others <=> IsFence(p) /\ ~Converts(p)
  OBVIOUS
<1> HIDE DEF prose, fences, others
<1>3. s \in Seq(Pieces) /\ p \in Pieces
  OBVIOUS
<1>4. Only(s, fences) \in Seq(Pieces) /\ Only(s, others) \in Seq(Pieces)
  BY ONLY <1>3, OnlyType
<1>5. /\ Only(Append(s, p), prose) = IF p \in prose THEN Append(Only(s, prose), p) ELSE Only(s, prose)
      /\ Only(Append(s, p), fences) = IF p \in fences THEN Append(Only(s, fences), p) ELSE Only(s, fences)
      /\ Only(Append(s, p), others) = IF p \in others THEN Append(Only(s, others), p) ELSE Only(s, others)
  BY ONLY <1>3, OnlyAppend
<1> QED BY <1>1, <1>2, <1>4, <1>5

LEMMA NoPieces == Converted(<<>>, <<>>)
<1>1. <<>> \in Seq(Block) /\ <<>> \in Seq(Pieces)
  OBVIOUS
<1>2. /\ Prose(<<>>) = <<>> /\ Fences(<<>>) = <<>> /\ Unconverted(<<>>) = <<>> /\ Circuits(<<>>) = <<>>
  BY OnlyEmpty DEF Prose, Fences, Unconverted, Circuits
<1>3. [n \in DOMAIN <<>> |-> ShownBlock(<<>>[n])] = <<>>
  OBVIOUS
<1>4. [n \in DOMAIN <<>> |-> IF <<>>[n].kind = "markdown" THEN <<>>[n].body ELSE <<>>] = <<>>
  OBVIOUS
<1>5. ShownBlocks(<<>>) = <<>>
  BY <1>3, FlattenEmpty DEF ShownBlocks
<1>6. Kept(<<>>) = <<>>
  BY <1>4, FlattenEmpty DEF Kept
<1>7. Len(<<>>) = 0 /\ DOMAIN <<>> = {}
  OBVIOUS
<1> QED BY <1>1, <1>2, <1>5, <1>6, <1>7, ShownMarkdownEmpty DEF Converted

LEMMA CircuitAdded ==
  ASSUME NEW bs \in Seq(Block), NEW r \in Specs
  PROVE  /\ Append(bs, Circuit(r)) \in Seq(Block) /\ Append(bs, Circuit(r)) # <<>>
         /\ ShownBlocks(bs) \in Seq(Item) /\ [kind |-> "drawing", is |-> Drawing(r)] \in Item
         /\ ShownBlocks(Append(bs, Circuit(r))) = Append(ShownBlocks(bs), [kind |-> "drawing", is |-> Drawing(r)])
         /\ Kept(bs) \in Seq(Pieces) /\ Kept(Append(bs, Circuit(r))) = Kept(bs)
         /\ Circuits(bs) \in Seq(Block) /\ Len(Circuits(Append(bs, Circuit(r)))) = Len(Circuits(bs)) + 1
<1> DEFINE c == Circuit(r)
           d == [kind |-> "drawing", is |-> Drawing(r)]
           a == ShownBlocks(bs)
           k == Kept(bs)
           w == Append(bs, c)
<1>1. c \in Block /\ c.kind = "circuit" /\ c.spec = r
  BY DEF Block, CircuitBlock, Circuit
<1>2. d \in Item
  BY DEF Item
<1>3. ShownBlock(c) = <<d>> /\ BodyOf(c) = <<>>
  BY <1>1 DEF ShownBlock, BodyOf
<1> HIDE DEF c, d
<1>4. w \in Seq(Block) /\ w # <<>>
  BY ONLY <1>1, bs \in Seq(Block), AppendProperties DEF w
<1>5. a \in Seq(Item) /\ ShownBlocks(w) = a \o <<d>>
  BY <1>1, <1>3, PageAppend
<1>6. k \in Seq(Pieces) /\ Kept(w) = k \o <<>>
  BY <1>1, <1>3, KeptAppend
<1>7. Circuits(bs) \in Seq(Block) /\ Circuits(w) = Append(Circuits(bs), c)
  BY <1>1, CircuitsAppend
<1> HIDE DEF a, k, w
<1>8. a \o <<d>> = Append(a, d)
  BY ONLY <1>2, <1>5, AppendIsConcat
<1>9. k \o <<>> = k
  BY ONLY <1>6, ConcatEmptySeq
<1>10. Len(Append(Circuits(bs), c)) = Len(Circuits(bs)) + 1
  BY ONLY <1>1, <1>7, AppendProperties
<1>11. /\ w \in Seq(Block) /\ w # <<>> /\ a \in Seq(Item) /\ d \in Item /\ ShownBlocks(w) = Append(a, d)
       /\ k \in Seq(Pieces) /\ Kept(w) = k /\ Circuits(bs) \in Seq(Block)
       /\ Len(Circuits(w)) = Len(Circuits(bs)) + 1
  BY <1>2, <1>4, <1>5, <1>6, <1>7, <1>8, <1>9, <1>10
<1> QED BY <1>11 DEF a, k, w, c, d

LEMMA OnePieceMore ==
  ASSUME NEW s \in Seq(Pieces), NEW bs, Converted(s, bs), NEW p \in Pieces
  PROVE  Converted(Append(s, p), AddPiece(bs, p))
<1> DEFINE t == Append(s, p)
           cs == AddPiece(bs, p)
<1>1. /\ Fences(s) \in Seq(Pieces) /\ Unconverted(s) \in Seq(Pieces)
      /\ Prose(t) = IF p.kind = "text" THEN Append(Prose(s), p) ELSE Prose(s)
      /\ Fences(t) = IF IsFence(p) THEN Append(Fences(s), p) ELSE Fences(s)
      /\ Unconverted(t) = IF IsFence(p) /\ ~Converts(p) THEN Append(Unconverted(s), p) ELSE Unconverted(s)
  BY FiltersOfPieces
<1>2. /\ Len(Fences(s)) \in Nat /\ Len(Append(Fences(s), p)) = Len(Fences(s)) + 1
      /\ Len(Unconverted(s)) \in Nat /\ Len(Append(Unconverted(s), p)) = Len(Unconverted(s)) + 1
  <2> DEFINE f == Fences(s)
             v == Unconverted(s)
  <2>1. f \in Seq(Pieces) /\ v \in Seq(Pieces) /\ p \in Pieces
    BY <1>1
  <2> HIDE DEF f, v
  <2>2. Len(f) \in Nat /\ Len(Append(f, p)) = Len(f) + 1 /\ Len(v) \in Nat /\ Len(Append(v, p)) = Len(v) + 1
    BY ONLY <2>1, AppendProperties, LenProperties
  <2> QED BY <2>2 DEF f, v
<1>3. /\ ShownMarkdown(s) \in Seq(Item)
      /\ ShownMarkdown(t) = IF p.kind = "blank" THEN ShownMarkdown(s) ELSE Append(ShownMarkdown(s), ShownPiece(p))
  BY ShownMarkdownAppend
<1>4. /\ bs \in Seq(Block) /\ ShownBlocks(bs) = ShownMarkdown(s) /\ Prose(Kept(bs)) = Prose(s)
      /\ Len(Circuits(bs)) + Len(Fences(Kept(bs))) = Len(Fences(s))
      /\ Len(Unconverted(s)) + Len(Circuits(bs)) = Len(Fences(s))
      /\ bs = <<>> => \A n \in DOMAIN s : s[n].kind = "blank"
  BY DEF Converted
<1>5. PICK any \in Block : TRUE
  <2>1. [kind |-> "markdown", body |-> <<>>] \in Block
    BY DEF Block
  <2> QED BY <2>1
<1>6. Kept(bs) \in Seq(Pieces) /\ Circuits(bs) \in Seq(Block)
  BY <1>4, <1>5, KeptAppend, CircuitsAppend
<1>7. Len(Circuits(bs)) \in Nat
  BY ONLY <1>6, LenProperties
<1>8. p.kind \in {"text", "blank", "broken", "fence"} /\ (p.kind = "fence" => p.spec \in Written)
  BY PieceKinds
<1>9. \A n \in DOMAIN t : t[n] = p \/ (n \in DOMAIN s /\ t[n] = s[n])
  OBVIOUS
<1> SUFFICES Converted(t, cs)
  OBVIOUS
<1> HIDE DEF t
<1>10. CASE Converts(p)
  <2> DEFINE r == Normalized(p.spec)
  <2>1. p.kind = "fence" /\ p.spec \in Written /\ IsFence(p)
    BY <1>8, <1>10 DEF Converts, IsFence
  <2>2. r \in Specs /\ Drawing(r) = Drawing(p.spec)
    BY <2>1, DrawnAsBefore DEF Specs
  <2>3. cs = Append(bs, Circuit(r))
    BY <1>10 DEF AddPiece
  <2>4. ShownPiece(p) = [kind |-> "drawing", is |-> Drawing(r)]
    BY <2>1, <2>2 DEF ShownPiece
  <2> HIDE DEF r, cs
  <2>5. /\ cs \in Seq(Block) /\ cs # <<>> /\ ShownBlocks(cs) = Append(ShownBlocks(bs), ShownPiece(p))
        /\ Kept(cs) = Kept(bs) /\ Len(Circuits(cs)) = Len(Circuits(bs)) + 1
    BY <1>4, <2>2, <2>3, <2>4, CircuitAdded
  <2>6. ShownBlocks(cs) = ShownMarkdown(t) /\ Prose(Kept(cs)) = Prose(t)
    BY <1>1, <1>3, <1>4, <2>1, <2>5
  <2>7. Len(Fences(t)) = Len(Fences(s)) + 1 /\ Unconverted(t) = Unconverted(s)
    BY <1>1, <1>2, <1>10, <2>1
  <2>8. Len(Fences(Kept(bs))) \in Nat
    BY <1>6, FiltersOfPieces, LenProperties
  <2>9. /\ Len(Circuits(cs)) + Len(Fences(Kept(cs))) = Len(Fences(t))
        /\ Len(Unconverted(t)) + Len(Circuits(cs)) = Len(Fences(t))
    BY <1>2, <1>4, <1>7, <2>5, <2>7, <2>8
  <2> QED BY <2>5, <2>6, <2>9 DEF Converted
<1>11. CASE p.kind = "blank"
  <2>1. cs = bs /\ ~IsFence(p)
    BY <1>11 DEF AddPiece, Converts, PushMarkdown, IsFence
  <2>2. Prose(t) = Prose(s) /\ Fences(t) = Fences(s) /\ Unconverted(t) = Unconverted(s) /\ ShownMarkdown(t) = ShownMarkdown(s)
    BY <1>1, <1>3, <1>11, <2>1
  <2>3. bs = <<>> => \A n \in DOMAIN t : t[n].kind = "blank"
    BY <1>4, <1>9, <1>11
  <2> QED BY <1>4, <2>1, <2>2, <2>3 DEF Converted
<1>12. CASE p.kind # "blank" /\ ~Converts(p)
  <2>1. cs = PushMarkdown(bs, p)
    BY <1>12 DEF AddPiece
  <2> HIDE DEF cs
  <2>2. /\ cs \in Seq(Block) /\ cs # <<>> /\ ShownBlocks(cs) = Append(ShownBlocks(bs), ShownPiece(p))
        /\ Kept(cs) = Append(Kept(bs), p) /\ Circuits(cs) = Circuits(bs)
    BY <1>4, <1>12, <2>1, PushGains DEF Gains
  <2> DEFINE k == Kept(bs)
  <2>3. /\ Fences(k) \in Seq(Pieces)
        /\ Prose(Append(k, p)) = IF p.kind = "text" THEN Append(Prose(k), p) ELSE Prose(k)
        /\ Fences(Append(k, p)) = IF IsFence(p) THEN Append(Fences(k), p) ELSE Fences(k)
    BY <1>6, FiltersOfPieces
  <2>4. Prose(k) = Prose(s) /\ Kept(cs) = Append(k, p)
    BY <1>4, <2>2
  <2>5. Len(Circuits(bs)) + Len(Fences(k)) = Len(Fences(s))
    BY <1>4
  <2> HIDE DEF k
  <2>6. ShownBlocks(cs) = ShownMarkdown(t)
    BY <1>3, <1>4, <1>12, <2>2
  <2>7. Prose(Kept(cs)) = Prose(t)
    BY <1>1, <2>3, <2>4
  <2>8. Len(Fences(k)) \in Nat /\ Len(Append(Fences(k), p)) = Len(Fences(k)) + 1
    <3>1. Fences(k) \in Seq(Pieces) /\ p \in Pieces
      BY <2>3
    <3> QED BY ONLY <3>1, LenProperties, AppendProperties
  <2>9. CASE IsFence(p)
    <3>1. /\ Len(Fences(Kept(cs))) = Len(Fences(k)) + 1 /\ Len(Fences(t)) = Len(Fences(s)) + 1
          /\ Len(Unconverted(t)) = Len(Unconverted(s)) + 1
      BY <1>1, <1>2, <1>12, <2>3, <2>4, <2>8, <2>9
    <3>2. /\ Len(Circuits(cs)) + Len(Fences(Kept(cs))) = Len(Fences(t))
          /\ Len(Unconverted(t)) + Len(Circuits(cs)) = Len(Fences(t))
      BY <1>2, <1>4, <1>7, <2>2, <2>5, <2>8, <3>1
    <3> QED BY <2>2, <2>6, <2>7, <3>2 DEF Converted
  <2>10. CASE ~IsFence(p)
    <3>1. Fences(Kept(cs)) = Fences(k) /\ Fences(t) = Fences(s) /\ Unconverted(t) = Unconverted(s)
      BY <1>1, <2>3, <2>4, <2>10
    <3> QED BY <1>4, <2>2, <2>5, <2>6, <2>7, <3>1 DEF Converted
  <2> QED BY <2>9, <2>10
<1> QED BY <1>10, <1>11, <1>12

LEMMA LessonConverted ==
  ASSUME NEW s \in Seq(Pieces)
  PROVE  Converted(s, Blocks(s))
<1> DEFINE G == {t \in Seq(Pieces) : Converted(t, Blocks(t))}
<1>1. <<>> \in G
  <2>1. <<>> \in Seq(Pieces)
    OBVIOUS
  <2> QED BY <2>1, NoPieces, BlocksEmpty
<1>2. ASSUME NEW t \in Seq(Pieces), NEW p \in Pieces, t \in G PROVE Append(t, p) \in G
  <2>1. Append(t, p) \in Seq(Pieces)
    OBVIOUS
  <2> QED BY <1>2, <2>1, OnePieceMore, BlocksAppend
<1> HIDE DEF G
<1>3. \A t \in Seq(Pieces) : t \in G
  BY <1>1, <1>2, ListInduction
<1> QED BY <1>3 DEF G

-----------------------------------------------------------------------------
(* The import                                                              *)

LessonInv ==
  /\ source \in Seq(Pieces) /\ imported \in BOOLEAN
  /\ imported =>
       /\ lesson \in Seq(Block)
       /\ \E rest \in Seq(Item) : ShownBlocks(lesson) = ShownMarkdown(source) \o rest
       /\ warnings = Len(Unconverted(source))

LEMMA LessonInvInit == LessonInit => LessonInv
<1>1. <<>> \in Seq(Pieces)
  OBVIOUS
<1> QED BY <1>1 DEF LessonInit, LessonInv

LEMMA LessonInvNext == LessonInv /\ [LessonNext]_lessonVars => LessonInv'
<1> SUFFICES ASSUME LessonInv, [LessonNext]_lessonVars PROVE LessonInv'
  OBVIOUS
<1>1. CASE Write
  <2>1. PICK p \in Pieces : source' = Append(source, p)
    BY <1>1 DEF Write
  <2>2. source' \in Seq(Pieces) /\ imported' = FALSE
    BY <1>1, <2>1 DEF Write, LessonInv
  <2> QED BY <2>2 DEF LessonInv
<1>2. CASE ImportLesson
  <2>1. /\ source \in Seq(Pieces) /\ source' = source /\ imported' = TRUE /\ lesson' = Blocks(source)
        /\ warnings' = Len(Unconverted(source))
    BY <1>2 DEF ImportLesson, LessonInv, Unconverted
  <2>2. lesson' \in Seq(Block) /\ ShownBlocks(lesson') = ShownMarkdown(source)
    BY <2>1, LessonConverted DEF Converted
  <2>3. ShownMarkdown(source) \in Seq(Item)
    <3>1. PICK p \in Pieces : TRUE
      BY DEF Pieces
    <3> QED BY <2>1, <3>1, ShownMarkdownAppend
  <2>4. ShownMarkdown(source) \o <<>> = ShownMarkdown(source) /\ <<>> \in Seq(Item)
    BY ONLY <2>3, ConcatEmptySeq, EmptySeq
  <2>5. \E rest \in Seq(Item) : ShownBlocks(lesson') = ShownMarkdown(source') \o rest
    BY <2>1, <2>2, <2>4
  <2> QED BY <2>1, <2>2, <2>5 DEF LessonInv, Unconverted
<1>3. CASE SaveCircuit
  <2>1. PICK s \in Written : lesson' = Append(lesson, Circuit(s))
    BY <1>3 DEF SaveCircuit
  <2>2. /\ source \in Seq(Pieces) /\ lesson \in Seq(Block) /\ imported = TRUE
        /\ source' = source /\ imported' = TRUE /\ warnings' = warnings /\ warnings = Len(Unconverted(source))
    BY <1>3 DEF SaveCircuit, LessonInv
  <2>3. PICK rest \in Seq(Item) : ShownBlocks(lesson) = ShownMarkdown(source) \o rest
    BY <2>2 DEF LessonInv
  <2> DEFINE d == [kind |-> "drawing", is |-> Drawing(s)]
             m == ShownMarkdown(source)
  <2>4. lesson' \in Seq(Block) /\ d \in Item /\ ShownBlocks(lesson') = Append(ShownBlocks(lesson), d)
    BY <2>1, <2>2, CircuitAdded DEF Specs
  <2>5. m \in Seq(Item)
    <3>1. PICK p \in Pieces : TRUE
      BY DEF Pieces
    <3> QED BY <2>2, <3>1, ShownMarkdownAppend
  <2> HIDE DEF d, m
  <2>6. m \o Append(rest, d) = Append(m \o rest, d) /\ Append(rest, d) \in Seq(Item)
    <3>1. rest \in Seq(Item)
      OBVIOUS
    <3> QED BY ONLY <2>4, <2>5, <3>1, AppendConcat, AppendProperties
  <2>7. ShownBlocks(lesson') = m \o Append(rest, d)
    BY <2>3, <2>4, <2>6 DEF m
  <2>8. \E more \in Seq(Item) : ShownBlocks(lesson') = ShownMarkdown(source') \o more
    BY <2>2, <2>6, <2>7 DEF m
  <2> QED BY <2>2, <2>4, <2>8 DEF LessonInv, Unconverted
<1>4. CASE UNCHANGED lessonVars
  BY <1>4 DEF lessonVars, LessonInv, Unconverted
<1> QED BY <1>1, <1>2, <1>3, <1>4 DEF LessonNext

LEMMA LessonInvHolds == LessonSpec => []LessonInv
  BY LessonInvInit, LessonInvNext, PTL DEF LessonSpec

LEMMA PrefixOfConcat ==
  ASSUME NEW S, NEW s \in Seq(S), NEW t \in Seq(S)
  PROVE  IsPrefix(s, s \o t)
  BY DEF IsPrefix

\* The page of an imported lesson begins with everything the legacy page
\* showed, in its order and drawn alike, the import's verification of it finds
\* nothing missing, and every circuit fence is a block or has a warning
\* (legacyImport.ts, import-legacy.ts, LessonContent.tsx), for every lesson and
\* whatever an author adds to it later.
THEOREM LessonSurvives == LessonSpec => []LessonSurvivesImport
<1>1. ASSUME LessonInv, imported PROVE LessonSurvivesImport
  <2> DEFINE bs == Blocks(source)
             m == ShownMarkdown(source)
  <2>1. source \in Seq(Pieces) /\ warnings = Len(Unconverted(source))
    BY <1>1 DEF LessonInv
  <2>2. Converted(source, bs)
    BY <2>1, LessonConverted
  <2>3. m \in Seq(Item)
    <3>1. PICK p \in Pieces : TRUE
      BY DEF Pieces
    <3> QED BY <2>1, <3>1, ShownMarkdownAppend
  <2>4. PICK rest \in Seq(Item) : ShownBlocks(lesson) = m \o rest
    BY <1>1 DEF LessonInv
  <2> HIDE DEF m, bs
  <2>5. IsPrefix(m, m \o rest)
    BY <2>3, PrefixOfConcat
  <2>6. IsPrefix(m, m)
    BY <2>3 DEF IsPrefix
  <2>7. IsPrefix(m, LessonPage(source, lesson))
    BY <2>4, <2>5, <2>6 DEF LessonPage, m
  <2>8. Verified(source, bs)
    BY <2>2 DEF Converted, Verified
  <2>9. warnings + Len(Circuits(bs)) = Len(Fences(source))
    BY <2>1, <2>2 DEF Converted
  <2> QED BY <2>7, <2>8, <2>9 DEF LessonSurvivesImport, m, bs
<1>2. LessonInv => LessonSurvivesImport
  BY <1>1 DEF LessonSurvivesImport
<1> QED BY <1>2, LessonInvHolds, PTL
===============================================================================
