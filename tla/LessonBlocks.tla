----------------------------- MODULE LessonBlocks -----------------------------
(***************************************************************************)
(* What becomes of a lesson's content: the conversion of a legacy Markdown  *)
(* lesson into blocks and its verification (cms/src/lib/legacyImport.ts,    *)
(* cms/scripts/import-legacy.ts), the validator of authored circuits        *)
(* (cms/src/lib/circuitSpec.ts), and the page that shows the one or the     *)
(* other (frontend/src/components/learn).                                   *)
(*                                                                          *)
(* Abstractions.  A lesson is a sequence of pieces: text, white space, and  *)
(* circuit fences, which the Markdown parser finds exactly where the        *)
(* import's expression does.  What a fence holds is a circuit as somebody   *)
(* wrote it, or no JSON.  Angles, unknown keys, letter case and the label   *)
(* of a gate, which keeps the alias it was written with, are left out.      *)
(***************************************************************************)
EXTENDS Lists

CONSTANTS Texts,      \* pieces of prose
          Written,    \* circuits as written in fences and by authors
          MaxPieces,  \* bound: pieces of a legacy lesson
          MaxCircuitQubits,  \* MAX_QUBITS
          Null, Missing       \* null, and a key that is missing

VARIABLES source,    \* the legacy lesson
          lesson,    \* the blocks of the imported one
          warnings,  \* fences the import kept as Markdown
          imported

lessonVars == <<source, lesson, warnings, imported>>

Pieces == {[kind |-> "text", is |-> t] : t \in Texts} \cup {[kind |-> "blank"], [kind |-> "broken"]}
            \cup {[kind |-> "fence", spec |-> s] : s \in Written}
IsFence(p) == p.kind \in {"fence", "broken"}

\* Every gate has its keys, those that are missing as Missing.
ASSUME LessonAssumption ==
  \A s \in Written : \A n \in DOMAIN s.gates : {"type", "targets", "control"} \subseteq DOMAIN s.gates[n]

-----------------------------------------------------------------------------
(* Circuits                                                                 *)

Given(v) == v \notin {Null, Missing}

\* normalizeLegacyCircuit: aliases, and a classical register for measurements.
CanonicalType(type) == IF type = "CNOT" THEN "CX" ELSE type
Normalized(s) ==
  LET gates == [n \in DOMAIN s.gates |-> [s.gates[n] EXCEPT !.type = CanonicalType(@)]]
      measures == \E n \in DOMAIN gates : gates[n].type = "M"
  IN [qubits |-> s.qubits, gates |-> gates,
      bits |-> IF Given(s.bits) THEN s.bits ELSE IF measures THEN s.qubits ELSE 0]

Supported == {"H", "X", "Y", "Z", "S", "T", "I", "CX", "CZ", "SWAP", "M"}

\* circuitSpecErrors: no errors.
GateAccepted(g, s) ==
  LET qubits == 0 .. s.qubits - 1
      bits == 0 .. s.bits - 1
  IN /\ g.type \in Supported
     /\ Given(g.targets) /\ g.targets # <<>> /\ ToSet(g.targets) \subseteq qubits
     /\ IF Given(g.control) THEN g.control \in qubits \ ToSet(g.targets) ELSE g.type \notin {"CX", "CZ"}
     /\ g.type = "SWAP" => Len(g.targets) = 2
     /\ IF Given(g.classical) THEN ToSet(g.classical) \subseteq bits
        ELSE g.type = "M" => ToSet(g.targets) \subseteq bits
SpecAccepted(s) ==
  s.qubits \in 1 .. MaxCircuitQubits /\ Given(s.bits) /\ \A n \in DOMAIN s.gates : GateAccepted(s.gates[n], s)

-----------------------------------------------------------------------------
(* The import                                                               *)

\* pushMarkdown: blank text is dropped, and text after text joins it.
MPushMarkdown(bs, p) ==
  IF p.kind = "blank" THEN bs ELSE IF bs # <<>> /\ bs[1].kind = "markdown"
    THEN [bs EXCEPT ![1].body = Append(@, p)] ELSE Append(bs, [kind |-> "markdown", body |-> <<p>>])
PushMarkdown(bs, p) ==
  CASE p.kind = "blank" -> bs
    [] p.kind # "blank" /\ bs # <<>> /\ Last(bs).kind = "markdown" -> [bs EXCEPT ![Len(bs)].body = Append(@, p)]
    [] OTHER -> Append(bs, [kind |-> "markdown", body |-> <<p>>])

Converts(p) == p.kind = "fence" /\ SpecAccepted(Normalized(p.spec))
Circuit(s) == [kind |-> "circuit", spec |-> s]

\* legacyMarkdownToBlocks, for one piece after the other.
AddPiece(bs, p) == IF Converts(p) THEN Append(bs, Circuit(Normalized(p.spec))) ELSE PushMarkdown(bs, p)
Blocks(pieces) ==
  LET blocks[n \in 0 .. Len(pieces)] == IF n = 0 THEN <<>> ELSE AddPiece(blocks[n - 1], pieces[n])
  IN blocks[Len(pieces)]

Kept(bs) == FlattenSeq([n \in DOMAIN bs |-> IF bs[n].kind = "markdown" THEN bs[n].body ELSE <<>>])
Prose(pieces) == Only(pieces, {p \in Pieces : p.kind = "text"})
Fences(pieces) == Only(pieces, {p \in Pieces : IsFence(p)})
Circuits(bs) == Only(bs, {Circuit(s) : s \in Written \cup {Normalized(r) : r \in Written}})

\* verifyConversion: no problems.
Verified(pieces, bs) ==
  /\ Prose(pieces) = Prose(Kept(bs))
  /\ Len(Circuits(bs)) + Len(Fences(Kept(bs))) = Len(Fences(pieces))
  /\ (\E n \in DOMAIN pieces : pieces[n].kind # "blank") => bs # <<>>

-----------------------------------------------------------------------------
(* The page                                                                 *)

\* CircuitPreview: a box on every target; undefined is no control, null is.
Boxes(g) == IF g.targets = Missing THEN <<0>> ELSE g.targets
Dot(g) == CASE g.control = Missing -> {} [] g.control = Null -> {0} [] OTHER -> {g.control}
Drawing(s) ==
  [wires |-> s.qubits,
   gates |-> [n \in DOMAIN s.gates |->
                [type |-> CanonicalType(s.gates[n].type), boxes |-> Boxes(s.gates[n]), dot |-> Dot(s.gates[n])]]]

\* Markdown: a circuit fence that parses is drawn, another is shown as code.
ShownPiece(p) == IF p.kind = "fence" THEN [kind |-> "drawing", is |-> Drawing(p.spec)] ELSE p
ShownMarkdown(pieces) ==
  LET visible == Only(pieces, {p \in Pieces : p.kind # "blank"}) IN [n \in DOMAIN visible |-> ShownPiece(visible[n])]
ShownBlock(b) ==
  IF b.kind = "circuit" THEN <<[kind |-> "drawing", is |-> Drawing(b.spec)]>> ELSE ShownMarkdown(b.body)

ShownBlocks(bs) == FlattenSeq([n \in DOMAIN bs |-> ShownBlock(bs[n])])

\* LessonContent: the blocks, or the content of a lesson that has none.
LessonPage(pieces, bs) ==
  IF bs = <<>> THEN ShownMarkdown(pieces) ELSE ShownBlocks(bs)

\* blocksToMarkdown, which the tutor reads: imported circuits have no title.
TutorContext(bs) == Kept(bs)

-----------------------------------------------------------------------------
(* Actions                                                                  *)

LessonInit == source = <<>> /\ lesson = <<>> /\ warnings = 0 /\ imported = FALSE

\* The legacy lesson is any sequence of pieces.
Write ==
  /\ ~imported /\ Len(source) < MaxPieces
  /\ \E p \in Pieces : source' = Append(source, p)
  /\ UNCHANGED <<lesson, warnings, imported>>

\* The import creates a missing document once; it does not update it.  A lesson
\* has at least one block: of a blank one no document can be created, and the
\* script ends there.
ImportLesson ==
  /\ ~imported /\ Blocks(source) # <<>>
  /\ imported' = TRUE
  /\ lesson' = Blocks(source)
  /\ warnings' = Len(Only(source, {p \in Pieces : IsFence(p) /\ ~Converts(p)}))
  /\ UNCHANGED source

\* An author adds a circuit, if the field's validator lets it pass.
SaveCircuit ==
  /\ imported /\ Len(lesson) <= Len(Blocks(source))
  /\ \E s \in Written : SpecAccepted(s) /\ lesson' = Append(lesson, Circuit(s))
  /\ UNCHANGED <<source, warnings, imported>>

LessonNext == Write \/ ImportLesson \/ SaveCircuit

LessonSpec == LessonInit /\ [][LessonNext]_lessonVars

-----------------------------------------------------------------------------
(* Properties                                                               *)

\* The import loses nothing: the migrated page shows the pieces of the legacy
\* page in its order, each circuit drawn as before whether it became a block or
\* was kept, the import's own verification agrees (import-legacy.ts:112), every
\* fence is converted or warned about, and what an author adds later leaves all
\* that in place.
LessonSurvivesImport ==
  imported =>
    LET page == LessonPage(source, lesson)
    IN /\ IsPrefix(ShownMarkdown(source), page)
       /\ Verified(source, Blocks(source))
       /\ warnings + Len(Circuits(Blocks(source))) = Len(Fences(source))

-----------------------------------------------------------------------------
(* What the code does not keep                                              *)

\* The diagram shows what is simulated: a control that is null, which the
\* validator and the backend both take for none, is drawn as a dot on qubit 0.
DrawnAsSimulated ==
  \A n \in DOMAIN lesson : lesson[n].kind = "circuit" =>
    \A k \in DOMAIN lesson[n].spec.gates :
      LET g == lesson[n].spec.gates[k] IN Dot(g) = (IF Given(g.control) THEN {g.control} ELSE {})

\* What the validator accepts compiles (_spec_to_qasm): a one-qubit gate may
\* have a control, SWAP one besides its targets, CX several targets, and the
\* empty list of bits is none for the backend, which measures into the
\* targets' numbers.
AcceptedCircuitsCompile ==
  \A s \in Written : SpecAccepted(s) => \A n \in DOMAIN s.gates :
    LET g == s.gates[n]
    IN CASE g.type = "M" -> g.classical # <<>> \/ ToSet(g.targets) \subseteq 0 .. s.bits - 1
         [] g.type \in {"CX", "CZ"} -> Len(g.targets) = 1
         [] g.type = "SWAP" -> ~Given(g.control) /\ g.targets[1] # g.targets[2]
         [] OTHER -> ~Given(g.control) /\ Len(g.targets) = 1

\* The tutor reads of the circuits of an imported lesson.
TutorKnowsCircuits ==
  imported => Len(Fences(TutorContext(lesson))) = Len(Fences(source))
===============================================================================
