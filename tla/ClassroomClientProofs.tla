------------------------ MODULE ClassroomClientProofs ------------------------
(***************************************************************************)
(* Proofs about the classroom store of one tab (ClassroomClient): the      *)
(* board on screen is always a replay of a prefix of the log and never     *)
(* goes back, and the flags of the store agree with the requests in        *)
(* flight, for any number of turns, events, requests, failures and         *)
(* openings of the page.                                                   *)
(*                                                                         *)
(* What makes the board true is not the store alone: a request carries     *)
(* numbers of the log as it was when the server read it, and what is held  *)
(* back are numbers of the log, so that whatever is applied and however    *)
(* late is a piece of the log that follows what the board shows.           *)
(*                                                                         *)
(* The session a tab shows (ClassroomSession) has an invariant of its own: *)
(* a channel and a saved id are written with the session, and a restore    *)
(* that is overtaken leaves no flag behind (SessionInv).                   *)
(***************************************************************************)
EXTENDS ClassroomClient, ClassroomSession, SequenceTheorems, WellFoundedInduction, TLAPS

Bubbles == {"none", "streaming", "partial"}
Store ==
  [open : BOOLEAN, epoch : Nat, running : BOOLEAN, board : Seq(Nat), lastSeq : Nat,
   active : Turns \cup {NoRun}, awaiting : BOOLEAN, superseded : SUBSET Turns,
   pending : SUBSET Nat, seen : SUBSET Envelope, bubble : [Turns -> Bubbles], final : SUBSET Turns,
   recovering : BOOLEAN, attempts : 0 .. MaxRecover, timer : BOOLEAN]

StateKinds == {"recover", "restore"}
Request ==
  [kind : {"token"}, id : Nat]
    \cup [kind : {"turn"}, id : Nat, stage : {"sent", "answered"}, turn : Turns \cup {NoRun}]
    \cup [kind : {"interrupt"}, stage : {"sent", "answered"}]
    \cup [kind : StateKinds, epoch : Nat, after : Nat, stage : {"sent", "row", "answered"},
          run : BOOLEAN, snap : Nat, upto : Nat]
    \cup [kind : {"detail"}, epoch : Nat, stage : {"sent", "answered"}, run : BOOLEAN, answered : SUBSET Turns]

\* A store that shows nothing but a prefix of a log of n events, and holds back
\* nothing but events of it.
Shows(c, n) ==
  /\ c \in Store
  /\ c.lastSeq <= n /\ c.board = [i \in 1 .. c.lastSeq |-> i]
  /\ c.pending \subseteq 1 .. n

\* d is c with no flag changed and nothing taken off the board.
Advances(c, d) ==
  /\ d.lastSeq >= c.lastSeq
  /\ d.open = c.open /\ d.epoch = c.epoch
  /\ d.recovering = c.recovering /\ d.awaiting = c.awaiting

-----------------------------------------------------------------------------
(* Natural numbers                                                         *)

Less == {p \in Nat \X Nat : p[1] < p[2]}

LEMMA LessIsWellFounded == IsWellFoundedOn(Less, Nat)
  BY NatLessThanWellFounded DEF OpToRel, Less

LEMMA Least ==
  ASSUME NEW T, T \subseteq Nat, T # {}
  PROVE  \E x \in T : \A y \in T : x <= y
<1>1. PICK x \in T : \A y \in T : <<y, x>> \notin Less
  BY LessIsWellFounded, WFMin
<1>2. \A y \in T : ~(y < x)
  BY <1>1 DEF Less
<1> QED BY <1>2

LEMMA LastContiguousIs ==
  ASSUME NEW n \in 1 .. MaxEvents, NEW B \in SUBSET Seqs
  PROVE  /\ LastContiguous(n, B) \in n .. MaxEvents
         /\ n + 1 .. LastContiguous(n, B) \subseteq B
<1> DEFINE P(k) == n + 1 .. k \subseteq B /\ k + 1 \notin B
           T == {k \in n .. MaxEvents : k + 1 \notin B}
<1>1. MaxEvents \in T
  BY ClientAssumption DEF Seqs
<1>2. T \subseteq Nat
  BY ClientAssumption
<1>3. PICK x \in T : \A y \in T : x <= y
  <2> HIDE DEF T
  <2> QED BY <1>1, <1>2, Least
<1>4. ASSUME NEW j \in n + 1 .. x PROVE j \in B
  <2>1. j - 1 \in n .. MaxEvents /\ j - 1 < x
    BY <1>3, ClientAssumption
  <2>2. j - 1 \notin T
    BY <1>2, <1>3, <2>1
  <2> QED BY <2>1, <2>2
<1>5. x \in n .. MaxEvents /\ P(x)
  BY <1>3, <1>4
<1>6. LastContiguous(n, B) = CHOOSE k \in n .. MaxEvents : P(k)
  BY DEF LastContiguous
<1> HIDE DEF P
<1>7. LastContiguous(n, B) \in n .. MaxEvents /\ P(LastContiguous(n, B))
  BY <1>5, <1>6
<1> QED BY <1>7 DEF P

-----------------------------------------------------------------------------
(* What the parts of the store do                                          *)

LEMMA CountOn ==
  ASSUME NEW k \in Nat, NEW l \in Nat, k <= l
  PROVE  [i \in 1 .. k |-> i] \o [i \in 1 .. l - k |-> k + i] = [i \in 1 .. l |-> i]
<1> DEFINE s == [i \in 1 .. k |-> i]
           t == [i \in 1 .. l - k |-> k + i]
           u == [i \in 1 .. l |-> i]
<1>1. s \in Seq(Nat) /\ Len(s) = k /\ \A i \in 1 .. k : s[i] = i
  OBVIOUS
<1>2. l - k \in Nat /\ k + (l - k) = l
  OBVIOUS
<1>3. t \in Seq(Nat) /\ Len(t) = l - k /\ \A i \in 1 .. l - k : t[i] = k + i
  BY <1>2
<1>4. u \in Seq(Nat) /\ Len(u) = l /\ \A i \in 1 .. l : u[i] = i
  OBVIOUS
<1> HIDE DEF s, t, u
<1>5. /\ s \o t \in Seq(Nat) /\ Len(s \o t) = Len(s) + Len(t)
      /\ \A i \in 1 .. Len(s) + Len(t) : (s \o t)[i] = IF i <= Len(s) THEN s[i] ELSE t[i - Len(s)]
  BY <1>1, <1>3, ConcatProperties
<1>6. Len(s \o t) = l
  BY <1>1, <1>2, <1>3, <1>5
<1>7. ASSUME NEW i \in 1 .. l PROVE (s \o t)[i] = i
  <2>1. (s \o t)[i] = IF i <= k THEN s[i] ELSE t[i - k]
    BY <1>1, <1>2, <1>3, <1>5
  <2>2. i <= k => i \in 1 .. k
    OBVIOUS
  <2>3. ~(i <= k) => i - k \in 1 .. l - k /\ k + (i - k) = i
    OBVIOUS
  <2> QED BY <1>1, <1>3, <2>1, <2>2, <2>3
<1>8. s \o t = u
  BY <1>4, <1>5, <1>6, <1>7, SeqEqual
<1> QED BY <1>8 DEF s, t, u

LEMMA CommitShows ==
  ASSUME NEW n \in 0 .. MaxEvents, NEW c, Shows(c, n), c.lastSeq + 1 <= n
  PROVE  /\ Shows(Commit(c, c.lastSeq + 1), n) /\ Advances(c, Commit(c, c.lastSeq + 1))
         /\ Commit(c, c.lastSeq + 1).attempts = c.attempts
<1> DEFINE m == c.lastSeq + 1
           last == LastContiguous(m, c.pending)
           more == [i \in 1 .. last - m + 1 |-> m + i - 1]
           d == Commit(c, m)
<1>1. c \in Store /\ c.lastSeq \in Nat /\ c.board = [i \in 1 .. c.lastSeq |-> i] /\ c.pending \subseteq 1 .. n
  BY DEF Shows, Store
<1>2. m \in 1 .. MaxEvents /\ c.pending \in SUBSET Seqs /\ m <= n
  BY <1>1, ClientAssumption DEF Seqs
<1>3. last \in m .. MaxEvents /\ m + 1 .. last \subseteq c.pending
  BY <1>2, LastContiguousIs
<1>4. last \in Nat /\ last >= m /\ last <= n
  <2>1. last = m \/ last \in m + 1 .. last
    BY <1>2, <1>3
  <2> QED BY <1>1, <1>2, <1>3, <2>1
<1>5. c.board \o more = [i \in 1 .. last |-> i]
  <2>1. last - m + 1 = last - c.lastSeq /\ \A i \in 1 .. last - c.lastSeq : m + i - 1 = c.lastSeq + i
    BY <1>1, <1>4
  <2>2. more = [i \in 1 .. last - c.lastSeq |-> c.lastSeq + i]
    BY <2>1
  <2>3. c.lastSeq <= last
    BY <1>1, <1>4
  <2> HIDE DEF more, last
  <2> QED BY <1>1, <1>4, <2>2, <2>3, CountOn
<1>6. d = [c EXCEPT !.board = [i \in 1 .. last |-> i], !.lastSeq = last, !.pending = {k \in @ : k > last}]
  BY <1>5 DEF Commit
<1>7. [i \in 1 .. last |-> i] \in Seq(Nat)
  BY <1>4
<1> HIDE DEF d, last
<1>8. d \in Store
  BY <1>1, <1>4, <1>6, <1>7 DEF Store
<1>9. /\ d.lastSeq = last /\ d.board = [i \in 1 .. last |-> i] /\ d.pending = {k \in c.pending : k > last}
      /\ d.open = c.open /\ d.epoch = c.epoch /\ d.recovering = c.recovering /\ d.awaiting = c.awaiting
      /\ d.attempts = c.attempts
  BY <1>1, <1>6 DEF Store
<1>10. Shows(d, n) /\ Advances(c, d) /\ d.attempts = c.attempts
  BY <1>1, <1>4, <1>8, <1>9 DEF Shows, Advances
<1> QED BY <1>10 DEF d

LEMMA AdvancesOn ==
  ASSUME NEW c, NEW d, NEW e, c.lastSeq \in Nat, d.lastSeq \in Nat, e.lastSeq \in Nat,
         Advances(c, d), Advances(d, e)
  PROVE  Advances(c, e)
  BY DEF Advances

\* d is c but for what no property of the board or of the flags looks at.
Untouched(c, d) ==
  /\ d.board = c.board /\ d.lastSeq = c.lastSeq /\ d.pending = c.pending
  /\ d.open = c.open /\ d.epoch = c.epoch /\ d.recovering = c.recovering /\ d.awaiting = c.awaiting

LEMMA UntouchedShows ==
  ASSUME NEW n \in Nat, NEW c, Shows(c, n), NEW d \in Store, Untouched(c, d)
  PROVE  Shows(d, n) /\ Advances(c, d)
  BY DEF Untouched, Shows, Advances, Store

LEMMA FilteredShows ==
  ASSUME NEW n \in Nat, NEW c, Shows(c, n), NEW t \in Turns
  PROVE  Shows(Filtered(c, t), n) /\ Advances(c, Filtered(c, t)) /\ Filtered(c, t).pending = c.pending
<1>1. c \in Store /\ {c.active} \ {NoRun} \subseteq Turns
  BY DEF Shows, Store
<1>2. Filtered(c, t) = c
      \/ Filtered(c, t) = [c EXCEPT !.superseded = @ \cup ({c.active} \ {NoRun}), !.active = t]
      \/ Filtered(c, t) = [c EXCEPT !.superseded = @ \cup {t}]
  BY DEF Filtered
<1>3. Filtered(c, t) \in Store
  <2>1. /\ c.superseded \cup ({c.active} \ {NoRun}) \in SUBSET Turns
        /\ c.superseded \cup {t} \in SUBSET Turns /\ t \in Turns \cup {NoRun}
    BY <1>1 DEF Store
  <2>2. ASSUME NEW x \in SUBSET Turns, NEW a \in Turns \cup {NoRun}
        PROVE  [c EXCEPT !.superseded = x, !.active = a] \in Store /\ [c EXCEPT !.superseded = x] \in Store
    BY <1>1 DEF Store
  <2> QED BY <1>1, <1>2, <2>1, <2>2
<1>4. Untouched(c, Filtered(c, t))
  BY <1>1, <1>2 DEF Store, Untouched
<1> QED BY <1>3, <1>4, UntouchedShows DEF Untouched

LEMMA ShowShows ==
  ASSUME NEW n \in Nat, NEW c, Shows(c, n), NEW e \in Envelope, e.type # "action"
  PROVE  Shows(Show(c, e), n) /\ Advances(c, Show(c, e))
<1>1. c \in Store /\ e.turn \in Turns /\ e.type \in {"delta", "completed", "error"}
  BY DEF Shows, Envelope
<1>2. Stopped(c.bubble) \in [Turns -> Bubbles]
  BY <1>1 DEF Stopped, Store, Bubbles
<1>3. CASE e.type = "delta"
  <2>1. Show(c, e) = [c EXCEPT !.bubble[e.turn] = "streaming", !.running = TRUE]
    BY <1>3 DEF Show
  <2>2. Show(c, e) \in Store
    <3> DEFINE b == [c.bubble EXCEPT ![e.turn] = "streaming"]
    <3>1. b \in [Turns -> Bubbles]
      BY <1>1 DEF Store, Bubbles
    <3>2. Show(c, e) = [c EXCEPT !.bubble = b, !.running = TRUE]
      BY <1>1, <2>1 DEF Store
    <3> HIDE DEF b
    <3> QED BY <1>1, <3>1, <3>2 DEF Store
  <2>3. Untouched(c, Show(c, e))
    BY <1>1, <2>1 DEF Store, Untouched
  <2> QED BY <2>2, <2>3, UntouchedShows
<1>4. CASE e.type = "completed"
  <2>1. Show(c, e) = [c EXCEPT !.bubble[e.turn] = IF e.turn \in c.final THEN @ ELSE "none",
                              !.final = @ \cup {e.turn}, !.running = FALSE]
    BY <1>4 DEF Show
  <2>2. Show(c, e) \in Store
    <3> DEFINE b == [c.bubble EXCEPT ![e.turn] = IF e.turn \in c.final THEN @ ELSE "none"]
               f == c.final \cup {e.turn}
    <3>1. b \in [Turns -> Bubbles] /\ f \in SUBSET Turns
      BY <1>1 DEF Store, Bubbles
    <3>2. Show(c, e) = [c EXCEPT !.bubble = b, !.final = f, !.running = FALSE]
      BY <1>1, <2>1 DEF Store
    <3> HIDE DEF b, f
    <3> QED BY <1>1, <3>1, <3>2 DEF Store
  <2>3. Untouched(c, Show(c, e))
    BY <1>1, <2>1 DEF Store, Untouched
  <2> QED BY <2>2, <2>3, UntouchedShows
<1>5. CASE e.type = "error"
  <2>1. Show(c, e) = [c EXCEPT !.bubble = Stopped(@), !.running = FALSE]
    BY <1>5 DEF Show
  <2>2. Show(c, e) \in Store
    BY <1>1, <1>2, <2>1 DEF Store
  <2>3. Untouched(c, Show(c, e))
    BY <1>1, <2>1 DEF Store, Untouched
  <2> QED BY <2>2, <2>3, UntouchedShows
<1> QED BY <1>1, <1>3, <1>4, <1>5

LEMMA WithSnapshotShows ==
  ASSUME NEW n \in Nat, NEW c, Shows(c, n), NEW k \in 0 .. n
  PROVE  Shows(WithSnapshot(c, k), n) /\ Advances(c, WithSnapshot(c, k))
<1>1. c \in Store
  BY DEF Shows
<1>2. CASE k > c.lastSeq
  <2> DEFINE b == [i \in 1 .. k |-> i]
  <2>1. b \in Seq(Nat)
    OBVIOUS
  <2>2. WithSnapshot(c, k) = [c EXCEPT !.board = b, !.lastSeq = k]
    BY <1>2 DEF WithSnapshot
  <2> HIDE DEF b
  <2>3. k \in Nat
    OBVIOUS
  <2>4. WithSnapshot(c, k) \in Store
    BY <1>1, <2>1, <2>2, <2>3 DEF Store
  <2> DEFINE d == WithSnapshot(c, k)
  <2>5. /\ d.lastSeq = k /\ d.board = b /\ d.pending = c.pending
        /\ d.open = c.open /\ d.epoch = c.epoch /\ d.recovering = c.recovering /\ d.awaiting = c.awaiting
    BY <1>1, <2>2 DEF Store
  <2> HIDE DEF d
  <2>6. Advances(c, d)
    BY <1>1, <1>2, <2>3, <2>5 DEF Advances, Store
  <2>7. c.pending \subseteq 1 .. n /\ k <= n
    BY DEF Shows
  <2> QED BY <2>4, <2>5, <2>6, <2>7 DEF Shows, b, d
<1>3. CASE ~(k > c.lastSeq)
  <2>1. WithSnapshot(c, k) = c
    BY <1>3 DEF WithSnapshot
  <2> QED BY <1>1, <2>1 DEF Advances, Store
<1> QED BY <1>2, <1>3

LEMMA BufferedShows ==
  ASSUME NEW n \in Nat, NEW c, Shows(c, n), NEW more \in SUBSET (1 .. n)
  PROVE  LET d == [c EXCEPT !.pending = @ \cup more] IN
         Shows(d, n) /\ Advances(c, d) /\ d.lastSeq = c.lastSeq /\ d.attempts = c.attempts
<1>1. c \in Store /\ more \subseteq Nat
  BY DEF Shows
<1> QED BY <1>1 DEF Shows, Advances, Store

LEMMA ReplayShows ==
  ASSUME NEW n \in 0 .. MaxEvents, NEW c, Shows(c, n), NEW floor \in Nat, NEW upto \in 0 .. n
  PROVE  Shows(Replay(c, floor, upto), n) /\ Advances(c, Replay(c, floor, upto))
<1>1. c \in Store /\ c.lastSeq \in Nat /\ n \in Nat
  BY DEF Shows, Store
<1>2. CASE upto <= c.lastSeq
  BY <1>1, <1>2 DEF Replay, Advances
<1>3. CASE ~(upto <= c.lastSeq) /\ c.lastSeq < floor
  <2>1. floor + 1 .. upto \in SUBSET (1 .. n)
    BY <1>1
  <2>2. Replay(c, floor, upto) = [c EXCEPT !.pending = @ \cup (floor + 1 .. upto)]
    BY <1>3 DEF Replay
  <2> DEFINE more == floor + 1 .. upto
  <2> HIDE DEF more
  <2>3. LET d == [c EXCEPT !.pending = @ \cup more] IN Shows(d, n) /\ Advances(c, d)
    BY <1>1, <2>1, BufferedShows DEF more
  <2> QED BY <2>2, <2>3 DEF more
<1>4. CASE ~(upto <= c.lastSeq) /\ ~(c.lastSeq < floor)
  <2> DEFINE more == c.lastSeq + 1 .. upto
             d == [c EXCEPT !.pending = @ \cup more]
  <2>1. more \in SUBSET (1 .. n) /\ c.lastSeq + 1 <= n
    BY <1>1, <1>4
  <2>2. Replay(c, floor, upto) = Commit(d, c.lastSeq + 1)
    BY <1>4 DEF Replay
  <2> HIDE DEF more
  <2>3. Shows(d, n) /\ Advances(c, d) /\ d.lastSeq = c.lastSeq
    BY <1>1, <2>1, BufferedShows
  <2> HIDE DEF d
  <2>4. Shows(Commit(d, d.lastSeq + 1), n) /\ Advances(d, Commit(d, d.lastSeq + 1))
    BY <2>1, <2>3, CommitShows
  <2>5. Commit(d, d.lastSeq + 1).lastSeq \in Nat
    BY <2>4 DEF Shows, Store
  <2> QED BY <1>1, <2>2, <2>3, <2>4, <2>5, AdvancesOn
<1> QED BY <1>2, <1>3, <1>4

\* An answer of GET /state that names nothing beyond the log.
LEMMA ApplyStateShows ==
  ASSUME NEW n \in 0 .. MaxEvents, NEW c, Shows(c, n), NEW r,
         r.after \in Nat, r.snap \in 0 .. n, r.upto \in 0 .. n, r.run \in BOOLEAN
  PROVE  Shows(ApplyState(c, r), n) /\ Advances(c, ApplyState(c, r))
<1> DEFINE floor == IF r.snap > r.after THEN r.snap ELSE r.after
           w == WithSnapshot(c, r.snap)
           d == Replay(w, floor, r.upto)
           e == [d EXCEPT !.running = @ \/ r.run]
<1>1. ApplyState(c, r) = e
  BY DEF ApplyState
<1>2. floor \in Nat /\ n \in Nat
  OBVIOUS
<1>3. Shows(w, n) /\ Advances(c, w)
  BY <1>2, WithSnapshotShows
<1> HIDE DEF floor, w
<1>4. Shows(d, n) /\ Advances(w, d)
  BY <1>2, <1>3, ReplayShows
<1> HIDE DEF d
<1>5. d \in Store /\ w.lastSeq \in Nat /\ c.lastSeq \in Nat
  BY <1>3, <1>4 DEF Shows, Store
<1>6. Shows(e, n) /\ Advances(d, e) /\ e.lastSeq \in Nat /\ d.lastSeq \in Nat
  <2>1. e \in Store
    BY <1>5 DEF Store
  <2>2. Untouched(d, e)
    BY <1>5 DEF Store, Untouched
  <2> HIDE DEF e
  <2>3. Shows(e, n) /\ Advances(d, e)
    BY <1>2, <1>4, <2>1, <2>2, UntouchedShows
  <2> QED BY <1>5, <2>1, <2>3 DEF Store
<1> HIDE DEF e
<1>7. Advances(c, d)
  BY <1>3, <1>4, <1>5, <1>6, AdvancesOn
<1>8. Advances(c, e)
  BY <1>5, <1>6, <1>7, AdvancesOn
<1> QED BY <1>1, <1>6, <1>8

LEMMA DrainShows ==
  ASSUME NEW n \in 0 .. MaxEvents, NEW c, Shows(c, n)
  PROVE  Shows(Drain(c), n) /\ Advances(c, Drain(c))
<1>1. CASE c.lastSeq + 1 \in c.pending
  <2>1. c.lastSeq + 1 <= n
    BY <1>1 DEF Shows
  <2> QED BY <1>1, <2>1, CommitShows DEF Drain
<1>2. CASE c.lastSeq + 1 \notin c.pending
  BY <1>2 DEF Drain, Advances, Shows, Store
<1> QED BY <1>1, <1>2

\* What recover() leaves when it is over: of the board nothing has changed, and of
\* the flags only that of the opening of the page it was started in.
Settled(c, epoch, d) ==
  /\ d.lastSeq = c.lastSeq /\ d.epoch = c.epoch /\ d.open = c.open /\ d.awaiting = c.awaiting
  /\ epoch = c.epoch => d.recovering = FALSE
  /\ epoch # c.epoch => d.recovering = c.recovering

LEMMA SettleShows ==
  ASSUME NEW n \in Nat, NEW c, Shows(c, n), NEW epoch
  PROVE  Shows(Settle(c, epoch), n) /\ Settled(c, epoch, Settle(c, epoch))
<1> DEFINE d == Settle(c, epoch)
<1>1. c \in Store
  BY DEF Shows
<1>2. \/ epoch # c.epoch /\ d = c
      \/ /\ epoch = c.epoch
         /\ \/ d = [c EXCEPT !.recovering = FALSE, !.attempts = 0]
            \/ /\ c.attempts < MaxRecover
               /\ d = [c EXCEPT !.recovering = FALSE, !.attempts = @ + 1, !.timer = TRUE]
            \/ d = [c EXCEPT !.recovering = FALSE]
  BY <1>1 DEF Settle, Store
<1>3. d \in Store
  <2>1. c.attempts \in 0 .. MaxRecover
    BY <1>1 DEF Store
  <2>2. 0 \in 0 .. MaxRecover /\ (c.attempts < MaxRecover => c.attempts + 1 \in 0 .. MaxRecover)
    BY <2>1, ClientAssumption
  <2>3. ASSUME NEW k \in 0 .. MaxRecover, NEW timer \in BOOLEAN
        PROVE  /\ [c EXCEPT !.recovering = FALSE, !.attempts = k] \in Store
               /\ [c EXCEPT !.recovering = FALSE, !.attempts = k, !.timer = timer] \in Store
               /\ [c EXCEPT !.recovering = FALSE] \in Store
    BY <1>1 DEF Store
  <2>4. ASSUME c.attempts < MaxRecover, d = [c EXCEPT !.recovering = FALSE, !.attempts = @ + 1, !.timer = TRUE]
        PROVE  d \in Store
    <3>1. d = [c EXCEPT !.recovering = FALSE, !.attempts = c.attempts + 1, !.timer = TRUE]
      BY <1>1, <2>4 DEF Store
    <3> QED BY <2>2, <2>3, <2>4, <3>1
  <2> QED BY <1>1, <1>2, <2>2, <2>3, <2>4
<1> HIDE DEF d
<1>4. d.board = c.board /\ d.pending = c.pending /\ d.lastSeq = c.lastSeq
  BY <1>1, <1>2 DEF Store
<1>5. Settled(c, epoch, d)
  BY <1>1, <1>2 DEF Store, Settled
<1>6. Shows(d, n)
  BY <1>3, <1>4 DEF Shows
<1> QED BY <1>5, <1>6 DEF d

\* A store that shows nothing and waits for nothing.
Blank(d, epoch) ==
  d.epoch = epoch /\ d.lastSeq = 0 /\ d.recovering = FALSE /\ d.awaiting = FALSE

\* A page that is opened or left shows an empty board.
LEMMA FreshShows ==
  ASSUME NEW n \in Nat, NEW epoch \in Nat, NEW open \in BOOLEAN
  PROVE  Shows(Fresh(epoch, open), n) /\ Blank(Fresh(epoch, open), epoch)
<1> DEFINE d == Fresh(epoch, open)
<1>1. <<>> \in Seq(Nat) /\ <<>> = [i \in 1 .. 0 |-> i]
  OBVIOUS
<1>2. d \in Store
  BY ClientAssumption DEF Fresh, Store, Bubbles
<1>3. d.board = <<>> /\ d.lastSeq = 0 /\ d.pending = {} /\ Blank(d, epoch)
  BY DEF Fresh, Blank
<1> HIDE DEF d
<1>4. Shows(d, n)
  BY <1>1, <1>2, <1>3 DEF Shows
<1> QED BY <1>3, <1>4 DEF d

-----------------------------------------------------------------------------
(* The invariant                                                           *)

ServerInv ==
  /\ begun \in 0 .. MaxTurns /\ owner \in Turns \cup {NoRun}
  /\ log \in Seq(Turns) /\ Len(log) <= MaxEvents /\ snap \in 0 .. Len(log)
  /\ answered \subseteq Turns /\ failed \subseteq Turns

\* A request names nothing beyond a log of n events.
RequestOK(r, n) == r \in Request /\ (r.kind \in StateKinds => r.snap <= n /\ r.upto <= n)

\* The flags of store c stand for requests of R: a recovery of this opening of the
\* page is in flight, and then only one, exactly while recovering is set.
FlagInv(c, R) ==
  /\ c.recovering <=> \E r \in R : r.kind = "recover" /\ r.epoch = c.epoch
  /\ c.recovering => c.open
  /\ c.awaiting => \E r \in R : r.kind = "turn"
  /\ \A r \in R : r.kind = "recover" => r.epoch <= c.epoch
  /\ \A r, s \in R : (/\ r.kind = "recover" /\ s.kind = "recover"
                      /\ r.epoch = c.epoch /\ s.epoch = c.epoch) => r = s

IInv ==
  /\ ServerInv
  /\ heard \in [Turns -> 0 .. MaxEvents + 1]
  /\ Shows(cl, Len(log))
  /\ \A r \in reqs : RequestOK(r, Len(log))
  /\ FlagInv(cl, reqs)

\* What a step does to the board while the page stays open.
BoardStays == cl'.epoch = cl.epoch => cl'.lastSeq >= cl.lastSeq

-----------------------------------------------------------------------------
(* Flags and requests                                                      *)

LEMMA FlagsKept ==
  ASSUME NEW c, NEW R, FlagInv(c, R), NEW d, NEW S,
         d.open = c.open, d.epoch = c.epoch, d.recovering = c.recovering,
         \A r \in R \cup S : r.kind = "recover" => r \in R /\ r \in S,
         d.awaiting => \E r \in S : r.kind = "turn"
  PROVE  FlagInv(d, S)
<1>1. (\E r \in S : r.kind = "recover" /\ r.epoch = d.epoch) <=> \E r \in R : r.kind = "recover" /\ r.epoch = c.epoch
  OBVIOUS
<1>2. \A r \in S : r.kind = "recover" => r.epoch <= d.epoch
  BY DEF FlagInv
<1>3. \A r, s \in S : (/\ r.kind = "recover" /\ s.kind = "recover"
                       /\ r.epoch = d.epoch /\ s.epoch = d.epoch) => r = s
  <2> SUFFICES ASSUME NEW r \in S, NEW s \in S, r.kind = "recover", s.kind = "recover",
                      r.epoch = d.epoch, s.epoch = d.epoch
               PROVE  r = s
    OBVIOUS
  <2>1. r \in R /\ s \in R /\ r.epoch = c.epoch /\ s.epoch = c.epoch
    OBVIOUS
  <2> QED BY <2>1 DEF FlagInv
<1>4. c.recovering <=> \E r \in R : r.kind = "recover" /\ r.epoch = c.epoch
  BY DEF FlagInv
<1>5. d.recovering <=> \E r \in S : r.kind = "recover" /\ r.epoch = d.epoch
  BY <1>1, <1>4
<1>6. d.recovering => d.open
  BY DEF FlagInv
<1> QED BY <1>2, <1>3, <1>5, <1>6 DEF FlagInv

LEMMA RecoveryMoves ==
  ASSUME NEW c, NEW R, FlagInv(c, R), NEW r \in R, NEW s, r.kind = "recover", s.kind = "recover",
         s.epoch = r.epoch
  PROVE  FlagInv(c, (R \ {r}) \cup {s})
<1> DEFINE S == (R \ {r}) \cup {s}
<1>1. (\E q \in S : q.kind = "recover" /\ q.epoch = c.epoch) <=> \E q \in R : q.kind = "recover" /\ q.epoch = c.epoch
  OBVIOUS
<1>2. (\E q \in R : q.kind = "turn") => \E q \in S : q.kind = "turn"
  OBVIOUS
<1>3. \A q \in S : q.kind = "recover" => q.epoch <= c.epoch
  BY DEF FlagInv
<1>4. \A p, q \in S : (/\ p.kind = "recover" /\ q.kind = "recover"
                       /\ p.epoch = c.epoch /\ q.epoch = c.epoch) => p = q
  BY DEF FlagInv
<1> HIDE DEF S
<1>5. FlagInv(c, S)
  BY <1>1, <1>2, <1>3, <1>4 DEF FlagInv
<1> QED BY <1>5 DEF S

LEMMA RecoveryEnds ==
  ASSUME NEW c, NEW R, FlagInv(c, R), NEW r \in R, r.kind = "recover", NEW d, Settled(c, r.epoch, d)
  PROVE  FlagInv(d, R \ {r})
<1>1. CASE r.epoch = c.epoch
  BY <1>1 DEF FlagInv, Settled
<1>2. CASE r.epoch # c.epoch
  BY <1>2 DEF FlagInv, Settled
<1> QED BY <1>1, <1>2

\* The page is opened or left: no recovery of the new opening is in flight.
LEMMA FlagsFresh ==
  ASSUME NEW c, NEW R, FlagInv(c, R), c.epoch \in Nat, \A r \in R : r.kind = "recover" => r.epoch \in Nat,
         NEW d, d.epoch = c.epoch + 1, d.recovering = FALSE, d.awaiting = FALSE
  PROVE  FlagInv(d, R)
  BY DEF FlagInv

LEMMA RequestKinds ==
  ASSUME NEW r \in Request
  PROVE  /\ r.kind = "turn" =>
              r \in [kind : {"turn"}, id : Nat, stage : {"sent", "answered"}, turn : Turns \cup {NoRun}]
         /\ r.kind = "token" => r \in [kind : {"token"}, id : Nat]
         /\ r.kind = "interrupt" => r \in [kind : {"interrupt"}, stage : {"sent", "answered"}]
         /\ r.kind \in StateKinds =>
              r \in [kind : StateKinds, epoch : Nat, after : Nat, stage : {"sent", "row", "answered"},
                     run : BOOLEAN, snap : Nat, upto : Nat]
         /\ r.kind = "detail" =>
              r \in [kind : {"detail"}, epoch : Nat, stage : {"sent", "answered"}, run : BOOLEAN,
                     answered : SUBSET Turns]
  BY DEF Request, StateKinds

LEMMA SameBoard ==
  ASSUME NEW n \in Nat, NEW c, Shows(c, n), NEW d \in Store,
         d.board = c.board, d.lastSeq = c.lastSeq, d.pending = c.pending
  PROVE  Shows(d, n)
  BY DEF Shows

LEMMA LongerLog ==
  ASSUME NEW n \in Nat, NEW m \in Nat, n <= m
  PROVE  /\ \A c : Shows(c, n) => Shows(c, m)
         /\ \A r : RequestOK(r, n) => RequestOK(r, m)
<1>1. ASSUME NEW c, Shows(c, n) PROVE Shows(c, m)
  <2>1. c \in Store /\ c.lastSeq \in Nat /\ c.lastSeq <= m /\ 1 .. n \subseteq 1 .. m
    BY <1>1 DEF Shows, Store
  <2> QED BY <1>1, <2>1 DEF Shows
<1>2. ASSUME NEW r, RequestOK(r, n) PROVE RequestOK(r, m)
  BY <1>2, RequestKinds DEF RequestOK
<1> QED BY <1>1, <1>2

LEMMA StartRecoverKeeps ==
  ASSUME NEW n \in Nat, NEW c, Shows(c, n), NEW rest, FlagInv(c, rest), \A r \in rest : RequestOK(r, n),
         StartRecover(c, rest)
  PROVE  /\ Shows(cl', n) /\ FlagInv(cl', reqs') /\ \A r \in reqs' : RequestOK(r, n)
         /\ cl'.lastSeq = c.lastSeq /\ cl'.epoch = c.epoch
<1>1. CASE ~(c.open /\ ~c.recovering)
  BY <1>1 DEF StartRecover
<1>2. CASE c.open /\ ~c.recovering
  <2> DEFINE s == StateRequest("recover", c)
  <2>1. cl' = [c EXCEPT !.recovering = TRUE] /\ reqs' = rest \cup {s}
    BY <1>2 DEF StartRecover
  <2>2. c \in Store /\ c.epoch \in Nat /\ c.lastSeq \in Nat
    BY DEF Shows, Store
  <2>3. s.kind = "recover" /\ s.epoch = c.epoch /\ RequestOK(s, n)
    BY <2>2 DEF StateRequest, RequestOK, Request, StateKinds
  <2> HIDE DEF s
  <2>4. cl' \in Store
    BY <2>1, <2>2 DEF Store
  <2>5. /\ cl'.board = c.board /\ cl'.lastSeq = c.lastSeq /\ cl'.pending = c.pending /\ cl'.recovering = TRUE
        /\ cl'.epoch = c.epoch /\ cl'.open = c.open /\ cl'.awaiting = c.awaiting
    BY <2>1, <2>2 DEF Store
  <2>6. Shows(cl', n)
    BY <2>4, <2>5, SameBoard
  <2>7. FlagInv(cl', reqs')
    BY <1>2, <2>1, <2>2, <2>3, <2>5 DEF FlagInv
  <2> QED BY <2>1, <2>3, <2>5, <2>6, <2>7
<1> QED BY <1>1, <1>2

-----------------------------------------------------------------------------
(* The server                                                              *)

\* The log has grown, or has not, and the tab has done nothing.
LEMMA ServerMoves ==
  ASSUME IInv, ServerInv', Len(log) <= Len(log'), UNCHANGED <<heard, cl, reqs>>
  PROVE  IInv' /\ BoardStays
<1>1. Len(log) \in Nat /\ Len(log') \in Nat
  BY DEF IInv, ServerInv
<1>2. Shows(cl, Len(log')) /\ \A r \in reqs : RequestOK(r, Len(log'))
  BY <1>1, LongerLog DEF IInv
<1>3. cl.lastSeq \in Nat
  BY DEF IInv, Shows, Store
<1> QED BY <1>2, <1>3 DEF IInv, BoardStays

LEMMA ServerStep ==
  ASSUME IInv, OtherTab \/ RunWrites \/ RunAnswers \/ RunFails
  PROVE  IInv' /\ BoardStays
<1>1. log \in Seq(Turns) /\ Len(log) \in Nat /\ begun \in Nat /\ owner \in Turns \cup {NoRun}
  BY ClientAssumption DEF IInv, ServerInv
<1>2. CASE RunWrites
  <2>1. owner \in Turns /\ log' = Append(log, owner) /\ Len(log) < MaxEvents
    BY <1>1, <1>2 DEF RunWrites, Write
  <2>2. log' \in Seq(Turns) /\ Len(log') = Len(log) + 1
    BY <1>1, <2>1
  <2>3. snap' \in 0 .. Len(log')
    BY <1>1, <1>2, <2>2 DEF RunWrites, IInv, ServerInv
  <2>4. ServerInv'
    BY <1>1, <1>2, <2>1, <2>2, <2>3, ClientAssumption DEF RunWrites, Write, IInv, ServerInv
  <2> QED BY <1>1, <1>2, <2>2, <2>4, ServerMoves DEF RunWrites
<1>3. CASE OtherTab
  <2>1. begun' \in 0 .. MaxTurns /\ owner' \in Turns \cup {NoRun}
    BY <1>3, ClientAssumption DEF OtherTab, Begin, Release, IInv, ServerInv, Turns
  <2>2. UNCHANGED <<log, answered, snap, failed>>
    BY <1>3 DEF OtherTab, Begin, Release
  <2>3. ServerInv'
    BY <2>1, <2>2 DEF IInv, ServerInv
  <2> QED BY <1>1, <1>3, <2>2, <2>3, ServerMoves DEF OtherTab
<1>4. CASE RunAnswers
  <2>1. ServerInv' /\ log' = log
    BY <1>1, <1>4 DEF RunAnswers, Answer, IInv, ServerInv
  <2> QED BY <1>1, <1>4, <2>1, ServerMoves DEF RunAnswers
<1>5. CASE RunFails
  <2>1. ServerInv' /\ log' = log
    BY <1>1, <1>5 DEF RunFails, Release, IInv, ServerInv
  <2> QED BY <1>1, <1>5, <2>1, ServerMoves DEF RunFails
<1> QED BY <1>2, <1>3, <1>4, <1>5

\* The server turns a request into one of the same kind and changes no event.
LEMMA RequestServed ==
  ASSUME IInv, ServerInv', log' = log, UNCHANGED <<heard, cl>>, NEW r \in reqs, NEW s, Turned(r, s),
         RequestOK(s, Len(log)), s.kind = r.kind, r.kind = "recover" => s.epoch = r.epoch
  PROVE  IInv' /\ BoardStays
<1>1. reqs' = (reqs \ {r}) \cup {s}
  BY DEF Turned
<1>2. FlagInv(cl, reqs')
  <2>1. CASE r.kind = "recover"
    BY <1>1, <2>1, RecoveryMoves DEF IInv
  <2>2. CASE r.kind # "recover"
    <3>1. cl.awaiting => \E q \in reqs' : q.kind = "turn"
      BY <1>1 DEF IInv, FlagInv
    <3>2. \A q \in reqs \cup reqs' : q.kind = "recover" => q \in reqs /\ q \in reqs'
      BY <1>1, <2>2
    <3> QED BY <3>1, <3>2, FlagsKept DEF IInv
  <2> QED BY <2>1, <2>2
<1>3. cl.lastSeq \in Nat
  BY DEF IInv, Shows, Store
<1> QED BY <1>1, <1>2, <1>3 DEF IInv, BoardStays

LEMMA ServeStep ==
  ASSUME IInv, NEW r \in reqs,
         ServeTurn(r) \/ ServeInterrupt(r) \/ ServeStatus(r) \/ ServeBoard(r) \/ ServeDetail(r)
  PROVE  IInv' /\ BoardStays
<1>1. RequestOK(r, Len(log)) /\ r \in Request /\ Len(log) \in Nat /\ begun \in Nat
  BY ClientAssumption DEF IInv, ServerInv, RequestOK
<1>2. CASE ServeTurn(r)
  <2> DEFINE s == [r EXCEPT !.stage = "answered", !.turn = begun']
  <2>1. r \in [kind : {"turn"}, id : Nat, stage : {"sent", "answered"}, turn : Turns \cup {NoRun}]
    BY <1>1, <1>2, RequestKinds DEF ServeTurn
  <2>2. begun' \in Turns /\ ServerInv' /\ log' = log
    BY <1>1, <1>2, ClientAssumption DEF ServeTurn, Begin, IInv, ServerInv, Turns
  <2>3. RequestOK(s, Len(log)) /\ s.kind = r.kind /\ r.kind # "recover"
    BY <2>1, <2>2 DEF RequestOK, Request, StateKinds
  <2> HIDE DEF s
  <2>4. Turned(r, s) /\ UNCHANGED <<heard, cl>>
    BY <1>2 DEF ServeTurn, s
  <2> QED BY <2>2, <2>3, <2>4, RequestServed
<1>3. CASE ServeInterrupt(r)
  <2> DEFINE s == [r EXCEPT !.stage = "answered"]
  <2>1. r \in [kind : {"interrupt"}, stage : {"sent", "answered"}]
    BY <1>1, <1>3, RequestKinds DEF ServeInterrupt
  <2>2. ServerInv' /\ log' = log
    BY <1>3 DEF ServeInterrupt, Release, ledgerVars, IInv, ServerInv
  <2>3. RequestOK(s, Len(log)) /\ s.kind = r.kind /\ r.kind # "recover"
    BY <2>1 DEF RequestOK, Request, StateKinds
  <2> HIDE DEF s
  <2>4. Turned(r, s) /\ UNCHANGED <<heard, cl>>
    BY <1>3 DEF ServeInterrupt, s
  <2> QED BY <2>2, <2>3, <2>4, RequestServed
<1>4. ASSUME UNCHANGED server PROVE ServerInv' /\ log' = log
  BY <1>4 DEF server, ledgerVars, IInv, ServerInv
<1>5. ASSUME NEW run \in {FALSE, owner # NoRun} PROVE run \in BOOLEAN
  BY <1>5
<1>6. CASE ServeStatus(r)
  <2>1. PICK run \in {FALSE, owner # NoRun} : Turned(r, [r EXCEPT !.stage = "row", !.run = run])
    BY <1>6 DEF ServeStatus
  <2> DEFINE s == [r EXCEPT !.stage = "row", !.run = run]
  <2>2. r \in [kind : StateKinds, epoch : Nat, after : Nat, stage : {"sent", "row", "answered"},
               run : BOOLEAN, snap : Nat, upto : Nat]
    BY <1>1, <1>6, RequestKinds DEF ServeStatus, StateKinds
  <2>3. s \in [kind : StateKinds, epoch : Nat, after : Nat, stage : {"sent", "row", "answered"},
               run : BOOLEAN, snap : Nat, upto : Nat]
    BY <1>5, <2>1, <2>2
  <2>4. s.kind = r.kind /\ s.epoch = r.epoch /\ s.snap = r.snap /\ s.upto = r.upto
    BY <2>2
  <2> HIDE DEF s
  <2>5. RequestOK(s, Len(log))
    BY <1>1, <2>2, <2>3, <2>4 DEF RequestOK, Request
  <2>6. Turned(r, s) /\ UNCHANGED <<heard, cl>> /\ UNCHANGED server
    BY <1>6, <2>1 DEF ServeStatus, s
  <2> QED BY <1>4, <2>4, <2>5, <2>6, RequestServed
<1>7. CASE ServeBoard(r)
  <2> DEFINE k == IF snap > r.after THEN snap ELSE 0
             s == [r EXCEPT !.stage = "answered", !.snap = k, !.upto = Len(log)]
  <2>1. k \in 0 .. Len(log)
    BY <1>1 DEF IInv, ServerInv
  <2>2. r \in [kind : StateKinds, epoch : Nat, after : Nat, stage : {"sent", "row", "answered"},
               run : BOOLEAN, snap : Nat, upto : Nat]
    BY <1>1, <1>7, RequestKinds DEF ServeBoard, StateKinds
  <2>3. Turned(r, s) /\ UNCHANGED <<heard, cl>> /\ UNCHANGED server
    BY <1>7 DEF ServeBoard
  <2> HIDE DEF k
  <2>4. /\ s \in [kind : StateKinds, epoch : Nat, after : Nat, stage : {"sent", "row", "answered"},
                  run : BOOLEAN, snap : Nat, upto : Nat]
        /\ s.kind = r.kind /\ s.epoch = r.epoch /\ s.snap = k /\ s.upto = Len(log)
    <3>1. k \in Nat /\ Len(log) \in Nat
      BY <1>1, <2>1
    <3> QED BY <2>2, <3>1
  <2> HIDE DEF s
  <2>5. RequestOK(s, Len(log))
    BY <1>1, <2>1, <2>4 DEF RequestOK, Request
  <2> QED BY <1>4, <2>3, <2>4, <2>5, RequestServed
<1>8. CASE ServeDetail(r)
  <2>1. PICK run \in {FALSE, owner # NoRun} :
          Turned(r, [r EXCEPT !.stage = "answered", !.run = run, !.answered = answered])
    BY <1>8 DEF ServeDetail
  <2> DEFINE s == [r EXCEPT !.stage = "answered", !.run = run, !.answered = answered]
  <2>2. r \in [kind : {"detail"}, epoch : Nat, stage : {"sent", "answered"}, run : BOOLEAN, answered : SUBSET Turns]
    BY <1>1, <1>8, RequestKinds DEF ServeDetail
  <2>3. answered \in SUBSET Turns
    BY DEF IInv, ServerInv
  <2>4. RequestOK(s, Len(log)) /\ s.kind = r.kind /\ r.kind # "recover"
    BY <1>5, <2>1, <2>2, <2>3 DEF RequestOK, Request, StateKinds
  <2> HIDE DEF s
  <2>5. Turned(r, s) /\ UNCHANGED <<heard, cl>> /\ UNCHANGED server
    BY <1>8, <2>1 DEF ServeDetail, s
  <2> QED BY <1>4, <2>4, <2>5, RequestServed
<1> QED BY <1>2, <1>3, <1>6, <1>7, <1>8

-----------------------------------------------------------------------------
(* The tab                                                                 *)

\* The tab has done something and the server has not.
LEMMA TabMoves ==
  ASSUME IInv, UNCHANGED server, heard' \in [Turns -> 0 .. MaxEvents + 1],
         Shows(cl', Len(log)), \A r \in reqs' : RequestOK(r, Len(log)), FlagInv(cl', reqs'), BoardStays
  PROVE  IInv' /\ BoardStays
<1>1. log' = log /\ ServerInv'
  BY DEF server, ledgerVars, IInv, ServerInv
<1> QED BY <1>1 DEF IInv

LEMMA StoreFacts ==
  ASSUME IInv
  PROVE  /\ Len(log) \in 0 .. MaxEvents /\ Len(log) \in Nat /\ Shows(cl, Len(log))
         /\ cl \in Store /\ cl.lastSeq \in Nat /\ cl.epoch \in Nat /\ FlagInv(cl, reqs)
         /\ Stopped(cl.bubble) \in [Turns -> Bubbles]
         /\ cl.superseded \cup ({cl.active} \ {NoRun}) \in SUBSET Turns
         /\ \A r \in reqs : RequestOK(r, Len(log)) /\ r \in Request
<1>1. Len(log) \in Nat /\ Len(log) <= MaxEvents /\ cl \in Store
  BY DEF IInv, ServerInv, Shows
<1>2. Stopped(cl.bubble) \in [Turns -> Bubbles]
  BY <1>1 DEF Stopped, Store, Bubbles
<1>3. cl.superseded \cup ({cl.active} \ {NoRun}) \in SUBSET Turns
  BY <1>1 DEF Store
<1> QED BY <1>1, <1>2, <1>3, ClientAssumption DEF IInv, Store, RequestOK

LEMMA PublishedIs ==
  ASSUME IInv, NEW e \in Published
  PROVE  /\ e \in Envelope /\ e.turn \in Turns
         /\ e.type = "action" => e.seq \in 1 .. Len(log)
<1>1. log \in Seq(Turns) /\ Len(log) \in Nat /\ Len(log) <= MaxEvents /\ DOMAIN log = 1 .. Len(log)
  BY DEF IInv, ServerInv
<1>2. ASSUME NEW k \in DOMAIN log PROVE k \in 1 .. Len(log) /\ k \in Seqs /\ log[k] \in Turns
  BY <1>1, ClientAssumption DEF Seqs
<1>3. 1 .. begun \subseteq Turns /\ answered \subseteq Turns /\ failed \subseteq Turns
  BY ClientAssumption DEF IInv, ServerInv, Turns
<1> QED BY <1>2, <1>3 DEF Published, Envelope

\* What ingest leaves: the event is applied, buffered or dropped.
LEMMA IngestKeeps ==
  ASSUME IInv, NEW e \in Published, Ingest(e)
  PROVE  /\ Shows(cl', Len(log)) /\ FlagInv(cl', reqs') /\ BoardStays
         /\ \A r \in reqs' : RequestOK(r, Len(log))
<1> DEFINE n == Len(log)
           f == Filtered(cl, e.turn)
           kept == [f EXCEPT !.seen = IF e.type = "delta" THEN @ ELSE @ \cup {e}]
<1>1. n \in Nat /\ n \in 0 .. MaxEvents /\ cl.lastSeq \in Nat /\ Shows(cl, n) /\ FlagInv(cl, reqs)
      /\ \A r \in reqs : RequestOK(r, n)
  BY StoreFacts
<1>2. e \in Envelope /\ e.turn \in Turns /\ (e.type = "action" => e.seq \in 1 .. n)
  BY PublishedIs
<1> SUFFICES /\ Shows(cl', n) /\ FlagInv(cl', reqs') /\ BoardStays
             /\ \A r \in reqs' : RequestOK(r, n)
  OBVIOUS
<1> HIDE DEF n
<1>3. Shows(f, n) /\ Advances(cl, f)
  BY <1>1, <1>2, FilteredShows
<1> HIDE DEF f
<1>4. f \in Store /\ f.lastSeq \in Nat
  BY <1>3 DEF Shows, Store
<1>5. kept \in Store
  BY <1>2, <1>4 DEF Store
<1>6. Untouched(f, kept)
  BY <1>4 DEF Store, Untouched
<1> HIDE DEF kept
<1>7. Shows(kept, n) /\ Advances(f, kept) /\ kept.lastSeq \in Nat
  BY <1>1, <1>3, <1>5, <1>6, UntouchedShows DEF Store
<1>8. Advances(cl, kept)
  BY <1>1, <1>3, <1>4, <1>7, AdvancesOn
<1>9. ASSUME NEW d, Shows(d, n), Advances(cl, d), cl' = d, UNCHANGED reqs
      PROVE  /\ Shows(cl', n) /\ FlagInv(cl', reqs') /\ BoardStays
             /\ \A r \in reqs' : RequestOK(r, n)
  <2>1. d.awaiting => \E r \in reqs : r.kind = "turn"
    BY <1>1, <1>9 DEF Advances, FlagInv
  <2>2. FlagInv(d, reqs)
    BY <1>1, <1>9, <2>1, FlagsKept DEF Advances
  <2> QED BY <1>1, <1>9, <2>2 DEF Advances, BoardStays
<1>10. CASE cl' = cl /\ UNCHANGED reqs
  BY <1>1, <1>10 DEF BoardStays
<1>11. CASE cl' = f /\ UNCHANGED reqs
  BY <1>3, <1>9, <1>11
<1>12. CASE e.type # "action" /\ cl' = Show(kept, e) /\ UNCHANGED reqs
  <2>1. Shows(cl', n) /\ Advances(kept, cl')
    BY <1>1, <1>2, <1>7, <1>12, ShowShows
  <2>2. cl'.lastSeq \in Nat
    BY <2>1 DEF Shows, Store
  <2>3. Advances(cl, cl')
    BY <1>1, <1>7, <1>8, <2>1, <2>2, AdvancesOn
  <2> QED BY <1>9, <1>12, <2>1, <2>3
<1>13. CASE e.type = "action" /\ e.seq = cl.lastSeq + 1 /\ ~Skips(e) /\ cl' = Commit(kept, e.seq) /\ UNCHANGED reqs
  <2>1. CASE kept.lastSeq = cl.lastSeq
    <3>1. kept.lastSeq + 1 <= n
      BY <1>1, <1>2, <1>13, <2>1
    <3>2. Shows(cl', n) /\ Advances(kept, cl')
      BY <1>1, <1>7, <1>13, <2>1, <3>1, CommitShows
    <3>3. cl'.lastSeq \in Nat
      BY <3>2 DEF Shows, Store
    <3>4. Advances(cl, cl')
      BY <1>1, <1>7, <1>8, <3>2, <3>3, AdvancesOn
    <3> QED BY <1>9, <1>13, <3>2, <3>4
  <2>2. kept.lastSeq = cl.lastSeq
    <3>1. f.lastSeq = cl.lastSeq
      BY <1>1 DEF f, Filtered, Shows, Store
    <3> QED BY <1>6, <3>1 DEF Untouched
  <2> QED BY <2>1, <2>2
<1>14. CASE e.type = "action" /\ StartRecover([kept EXCEPT !.pending = @ \cup {e.seq}], reqs)
  <2> DEFINE more == {e.seq}
             d == [kept EXCEPT !.pending = @ \cup more]
  <2>1. more \in SUBSET (1 .. n)
    BY <1>2, <1>14
  <2> HIDE DEF more
  <2>2. Shows(d, n) /\ Advances(kept, d)
    BY <1>1, <1>7, <2>1, BufferedShows
  <2>3. StartRecover(d, reqs)
    BY <1>14 DEF more
  <2> HIDE DEF d
  <2>4. d.lastSeq \in Nat
    BY <2>2 DEF Shows, Store
  <2>5. Advances(cl, d)
    BY <1>1, <1>7, <1>8, <2>2, <2>4, AdvancesOn
  <2>6. FlagInv(d, reqs)
    <3>1. d.awaiting => \E r \in reqs : r.kind = "turn"
      BY <1>1, <2>5 DEF Advances, FlagInv
    <3> QED BY <1>1, <2>5, <3>1, FlagsKept DEF Advances
  <2>7. /\ Shows(cl', n) /\ FlagInv(cl', reqs') /\ \A r \in reqs' : RequestOK(r, n)
        /\ cl'.lastSeq = d.lastSeq /\ cl'.epoch = d.epoch
    BY <1>1, <2>2, <2>3, <2>6, StartRecoverKeeps
  <2> QED BY <2>5, <2>7 DEF Advances, BoardStays
<1>15. \/ cl' = cl /\ UNCHANGED reqs
       \/ cl' = f /\ UNCHANGED reqs
       \/ e.type # "action" /\ cl' = Show(kept, e) /\ UNCHANGED reqs
       \/ e.type = "action" /\ e.seq = cl.lastSeq + 1 /\ ~Skips(e) /\ cl' = Commit(kept, e.seq) /\ UNCHANGED reqs
       \/ e.type = "action" /\ StartRecover([kept EXCEPT !.pending = @ \cup {e.seq}], reqs)
  <2>1. CASE Skips(e)
    BY <2>1 DEF Ingest
  <2>2. CASE ~Skips(e) /\ ~Accepts(cl, e.turn)
    BY <2>2 DEF Ingest, f
  <2>3. CASE ~Skips(e) /\ Accepts(cl, e.turn) /\ e.type # "action"
    BY <2>3 DEF Ingest, f, kept
  <2>4. CASE ~Skips(e) /\ Accepts(cl, e.turn) /\ e.type = "action"
    BY <2>4 DEF Ingest, f, kept
  <2> QED BY <2>1, <2>2, <2>3, <2>4
<1> QED BY <1>10, <1>11, <1>12, <1>13, <1>14, <1>15

LEMMA DeliverKeeps ==
  ASSUME IInv, NEW e \in Published, Deliver(e)
  PROVE  IInv' /\ BoardStays
<1>1. Place(e) \in 0 .. MaxEvents + 1
  BY PublishedIs, ClientAssumption DEF Place, IInv, ServerInv
<1>2. heard' \in [Turns -> 0 .. MaxEvents + 1]
  BY <1>1 DEF Deliver, IInv
<1>3. UNCHANGED server /\ Ingest(e)
  BY DEF Deliver
<1> QED BY <1>2, <1>3, IngestKeeps, TabMoves

\* The store and its requests change in nothing the board or the recoveries hang on.
LEMMA QuietKeeps ==
  ASSUME IInv, UNCHANGED <<server, heard>>, NEW d \in Store, cl' = d,
         d.board = cl.board, d.lastSeq = cl.lastSeq, d.pending = cl.pending,
         d.open = cl.open, d.epoch = cl.epoch, d.recovering = cl.recovering,
         \A r \in reqs \cup reqs' : r.kind = "recover" => r \in reqs /\ r \in reqs',
         \A r \in reqs' : RequestOK(r, Len(log)), d.awaiting => \E r \in reqs' : r.kind = "turn"
  PROVE  IInv' /\ BoardStays
<1>1. Shows(d, Len(log))
  BY StoreFacts, SameBoard
<1>2. FlagInv(d, reqs')
  BY StoreFacts, FlagsKept
<1>3. heard' \in [Turns -> 0 .. MaxEvents + 1] /\ UNCHANGED server
  BY DEF IInv
<1>4. BoardStays
  BY StoreFacts DEF BoardStays
<1> QED BY <1>1, <1>2, <1>3, <1>4, TabMoves

\* recover() is called with a store c that still shows what the board shows.
LEMMA RecoverStarts ==
  ASSUME IInv, UNCHANGED <<server, heard>>, NEW c, Shows(c, Len(log)), NEW S \in SUBSET reqs,
         FlagInv(c, S), c.epoch = cl.epoch, c.lastSeq = cl.lastSeq, StartRecover(c, S)
  PROVE  IInv' /\ BoardStays
<1>1. \A r \in S : RequestOK(r, Len(log))
  BY StoreFacts
<1>2. /\ Shows(cl', Len(log)) /\ FlagInv(cl', reqs') /\ \A r \in reqs' : RequestOK(r, Len(log))
      /\ cl'.lastSeq = c.lastSeq /\ cl'.epoch = c.epoch
  BY <1>1, StoreFacts, StartRecoverKeeps
<1>3. heard' \in [Turns -> 0 .. MaxEvents + 1] /\ UNCHANGED server
  BY DEF IInv
<1>4. BoardStays
  BY <1>2, StoreFacts DEF BoardStays
<1> QED BY <1>2, <1>3, <1>4, TabMoves

LEMMA ReconnectKeeps ==
  ASSUME IInv, Reconnect
  PROVE  IInv' /\ BoardStays
<1>1. StartRecover(cl, reqs) /\ UNCHANGED <<server, heard>>
  BY DEF Reconnect
<1> QED BY <1>1, StoreFacts, RecoverStarts

LEMMA TimerFiresKeeps ==
  ASSUME IInv, TimerFires
  PROVE  IInv' /\ BoardStays
<1> DEFINE c == [cl EXCEPT !.timer = FALSE]
<1>1. StartRecover(c, reqs) /\ UNCHANGED <<server, heard>>
  BY DEF TimerFires
<1>2. c \in Store
  BY StoreFacts DEF Store
<1>3. Untouched(cl, c)
  BY StoreFacts DEF Store, Untouched
<1> HIDE DEF c
<1>4. Shows(c, Len(log))
  BY <1>2, <1>3, StoreFacts, UntouchedShows
<1>5. FlagInv(c, reqs)
  <2>1. c.awaiting => \E r \in reqs : r.kind = "turn"
    BY <1>3, StoreFacts DEF Untouched, FlagInv
  <2> QED BY <1>3, <2>1, StoreFacts, FlagsKept DEF Untouched
<1> QED BY <1>1, <1>3, <1>4, <1>5, RecoverStarts DEF Untouched

LEMMA SendMessageKeeps ==
  ASSUME IInv, SendMessage, sends \in Nat
  PROVE  IInv' /\ BoardStays
<1> DEFINE s == [kind |-> "token", id |-> sends + 1]
<1>1. RequestOK(s, Len(log)) /\ s.kind = "token"
  BY DEF RequestOK, Request, StateKinds
<1>2. reqs' = reqs \cup {s} /\ UNCHANGED <<server, heard, cl>>
  BY DEF SendMessage
<1> HIDE DEF s
<1>3. cl.awaiting => \E r \in reqs' : r.kind = "turn"
  BY <1>2, StoreFacts DEF FlagInv
<1> QED BY <1>1, <1>2, <1>3, StoreFacts, QuietKeeps

LEMMA InterruptKeeps ==
  ASSUME IInv, Interrupt
  PROVE  IInv' /\ BoardStays
<1> DEFINE s == [kind |-> "interrupt", stage |-> "sent"]
<1>1. RequestOK(s, Len(log)) /\ s.kind = "interrupt"
  BY DEF RequestOK, Request, StateKinds
<1>2. reqs' = reqs \cup {s} /\ UNCHANGED <<server, heard, cl>>
  BY DEF Interrupt
<1> HIDE DEF s
<1>3. cl.awaiting => \E r \in reqs' : r.kind = "turn"
  BY <1>2, StoreFacts DEF FlagInv
<1> QED BY <1>1, <1>2, <1>3, StoreFacts, QuietKeeps

LEMMA InterruptFailsKeeps ==
  ASSUME IInv, NEW r \in reqs, InterruptFails(r)
  PROVE  IInv' /\ BoardStays
<1>1. reqs' = reqs \ {r} /\ r.kind = "interrupt" /\ UNCHANGED <<server, heard, cl>>
  BY DEF InterruptFails
<1>2. cl.awaiting => \E q \in reqs' : q.kind = "turn"
  BY <1>1, StoreFacts DEF FlagInv
<1> QED BY <1>1, <1>2, StoreFacts, QuietKeeps

LEMMA PostTurnKeeps ==
  ASSUME IInv, NEW r \in reqs, PostTurn(r)
  PROVE  IInv' /\ BoardStays
<1> DEFINE s == [kind |-> "turn", id |-> r.id, stage |-> "sent", turn |-> NoRun]
           sup == cl.superseded \cup ({cl.active} \ {NoRun})
           b == Stopped(cl.bubble)
           d == [cl EXCEPT !.superseded = sup, !.awaiting = TRUE, !.running = TRUE,
                           !.active = NoRun, !.bubble = b]
<1>1. r.id \in Nat
  <2>1. r \in [kind : {"token"}, id : Nat]
    BY StoreFacts, RequestKinds DEF PostTurn
  <2> QED BY <2>1
<1>2. RequestOK(s, Len(log)) /\ s.kind = "turn"
  BY <1>1 DEF RequestOK, Request, StateKinds
<1>3. cl' = d /\ reqs' = (reqs \ {r}) \cup {s} /\ r.kind = "token" /\ UNCHANGED <<server, heard>>
  BY StoreFacts DEF PostTurn, Turned, Store
<1>4. sup \in SUBSET Turns /\ b \in [Turns -> Bubbles]
  BY StoreFacts
<1> HIDE DEF s, sup, b
<1>5. d \in Store
  BY <1>4, StoreFacts DEF Store
<1>6. /\ d.board = cl.board /\ d.lastSeq = cl.lastSeq /\ d.pending = cl.pending
      /\ d.open = cl.open /\ d.epoch = cl.epoch /\ d.recovering = cl.recovering
  BY StoreFacts DEF Store
<1> HIDE DEF d
<1>7. \A q \in reqs' : RequestOK(q, Len(log))
  BY <1>2, <1>3, StoreFacts
<1>8. \A q \in reqs \cup reqs' : q.kind = "recover" => q \in reqs /\ q \in reqs'
  BY <1>2, <1>3
<1>9. \E q \in reqs' : q.kind = "turn"
  BY <1>2, <1>3
<1> QED BY <1>3, <1>5, <1>6, <1>7, <1>8, <1>9, QuietKeeps

LEMMA TurnAnswersKeep ==
  ASSUME IInv, NEW r \in reqs, TurnAccepted(r) \/ TurnFails(r)
  PROVE  IInv' /\ BoardStays
<1>1. r.kind = "turn" /\ reqs' = reqs \ {r} /\ UNCHANGED <<server, heard>>
  BY DEF TurnAccepted, TurnFails, Ends, Fails
<1>2. ASSUME NEW d \in Store, cl' = d, Untouched([cl EXCEPT !.awaiting = FALSE], d)
      PROVE  IInv' /\ BoardStays
  <2>1. /\ d.board = cl.board /\ d.lastSeq = cl.lastSeq /\ d.pending = cl.pending
        /\ d.open = cl.open /\ d.epoch = cl.epoch /\ d.recovering = cl.recovering /\ d.awaiting = FALSE
    BY <1>2, StoreFacts DEF Untouched, Store
  <2>2. \A q \in reqs' : RequestOK(q, Len(log))
    BY <1>1, StoreFacts
  <2>3. \A q \in reqs \cup reqs' : q.kind = "recover" => q \in reqs /\ q \in reqs'
    BY <1>1
  <2> QED BY <1>1, <1>2, <2>1, <2>2, <2>3, QuietKeeps
<1>3. CASE TurnAccepted(r)
  <2> DEFINE sup == cl.superseded \cup ({cl.active} \ {NoRun, r.turn})
             d == [cl EXCEPT !.superseded = sup, !.awaiting = FALSE, !.active = r.turn]
  <2>1. r \in [kind : {"turn"}, id : Nat, stage : {"sent", "answered"}, turn : Turns \cup {NoRun}]
    BY <1>1, StoreFacts, RequestKinds
  <2>2. r.turn \in Turns \cup {NoRun} /\ sup \in SUBSET Turns
    BY <2>1, StoreFacts
  <2>3. cl' = d
    BY <1>3, StoreFacts DEF TurnAccepted, Store
  <2> HIDE DEF sup
  <2>4. d \in Store
    BY <2>2, StoreFacts DEF Store
  <2>5. Untouched([cl EXCEPT !.awaiting = FALSE], d)
    BY StoreFacts DEF Untouched, Store
  <2> HIDE DEF d
  <2> QED BY <1>2, <2>3, <2>4, <2>5
<1>4. CASE TurnFails(r)
  <2> DEFINE b == Stopped(cl.bubble)
             d == [cl EXCEPT !.awaiting = FALSE, !.running = FALSE, !.bubble = b]
  <2>1. cl' = d /\ b \in [Turns -> Bubbles]
    BY <1>4, StoreFacts DEF TurnFails, Store
  <2> HIDE DEF b
  <2>2. d \in Store
    BY <2>1, StoreFacts DEF Store
  <2>3. Untouched([cl EXCEPT !.awaiting = FALSE], d)
    BY StoreFacts DEF Untouched, Store
  <2> HIDE DEF d
  <2> QED BY <1>2, <2>1, <2>2, <2>3
<1> QED BY <1>3, <1>4

LEMMA InterruptDoneKeeps ==
  ASSUME IInv, NEW r \in reqs, InterruptDone(r)
  PROVE  IInv' /\ BoardStays
<1> DEFINE sup == cl.superseded \cup ({cl.active} \ {NoRun})
           b == Stopped(cl.bubble)
           c == [cl EXCEPT !.superseded = sup, !.awaiting = FALSE, !.running = FALSE,
                           !.active = NoRun, !.bubble = b]
           rest == reqs \ {r}
<1>1. StartRecover(c, rest) /\ r.kind = "interrupt" /\ UNCHANGED <<server, heard>>
  <2>1. c = [cl EXCEPT !.superseded = @ \cup ({cl.active} \ {NoRun}), !.awaiting = FALSE,
                       !.running = FALSE, !.active = NoRun, !.bubble = Stopped(@)]
    BY StoreFacts DEF Store
  <2> QED BY <2>1 DEF InterruptDone
<1>2. sup \in SUBSET Turns /\ b \in [Turns -> Bubbles]
  BY StoreFacts
<1> HIDE DEF sup, b
<1>3. c \in Store
  BY <1>2, StoreFacts DEF Store
<1>4. /\ c.board = cl.board /\ c.lastSeq = cl.lastSeq /\ c.pending = cl.pending
      /\ c.open = cl.open /\ c.epoch = cl.epoch /\ c.recovering = cl.recovering /\ c.awaiting = FALSE
  BY StoreFacts DEF Store
<1> HIDE DEF c
<1>5. Shows(c, Len(log))
  BY <1>3, <1>4, StoreFacts, SameBoard
<1>6. FlagInv(c, rest)
  BY <1>1, <1>4, StoreFacts, FlagsKept
<1>7. rest \in SUBSET reqs
  OBVIOUS
<1> HIDE DEF rest
<1> QED BY <1>1, <1>4, <1>5, <1>6, <1>7, RecoverStarts

\* A request has ended and the store is d.
LEMMA RequestEnds ==
  ASSUME IInv, UNCHANGED <<server, heard>>, reqs' \subseteq reqs, NEW d, cl' = d,
         Shows(d, Len(log)), FlagInv(d, reqs'), d.epoch = cl.epoch => d.lastSeq >= cl.lastSeq
  PROVE  IInv' /\ BoardStays
<1>1. \A r \in reqs' : RequestOK(r, Len(log))
  BY StoreFacts
<1>2. heard' \in [Turns -> 0 .. MaxEvents + 1] /\ UNCHANGED server
  BY DEF IInv
<1> QED BY <1>1, <1>2, TabMoves DEF BoardStays

\* What a state response says lies within the log.
LEMMA AnswerIsOfTheLog ==
  ASSUME IInv, NEW r \in reqs, r.kind \in StateKinds
  PROVE  /\ r.after \in Nat /\ r.epoch \in Nat /\ r.run \in BOOLEAN
         /\ r.snap \in 0 .. Len(log) /\ r.upto \in 0 .. Len(log)
<1>1. RequestOK(r, Len(log)) /\ Len(log) \in Nat
  BY StoreFacts
<1>2. r \in [kind : StateKinds, epoch : Nat, after : Nat, stage : {"sent", "row", "answered"},
             run : BOOLEAN, snap : Nat, upto : Nat]
  BY StoreFacts, RequestKinds
<1>3. r.snap <= Len(log) /\ r.upto <= Len(log)
  BY <1>1 DEF RequestOK
<1> QED BY <1>1, <1>2, <1>3

LEMMA RecoverDoneKeeps ==
  ASSUME IInv, NEW r \in reqs, RecoverDone(r)
  PROVE  IInv' /\ BoardStays
<1> DEFINE n == Len(log)
<1>1. r.kind = "recover" /\ reqs' = reqs \ {r} /\ UNCHANGED <<server, heard>>
  BY DEF RecoverDone, Ends
<1>2. /\ n \in 0 .. MaxEvents /\ n \in Nat /\ Shows(cl, n) /\ cl.lastSeq \in Nat /\ FlagInv(cl, reqs)
  BY StoreFacts
<1>3. /\ r.after \in Nat /\ r.run \in BOOLEAN /\ r.snap \in 0 .. n /\ r.upto \in 0 .. n
  BY <1>1, AnswerIsOfTheLog DEF StateKinds
<1> HIDE DEF n
<1>4. CASE cl.open
  <2> DEFINE a == ApplyState(cl, r)
             b == Drain(a)
             d == Settle(b, r.epoch)
  <2>1. cl' = d
    BY <1>4 DEF RecoverDone
  <2>2. Shows(a, n) /\ Advances(cl, a)
    BY <1>2, <1>3, ApplyStateShows
  <2> HIDE DEF a
  <2>3. Shows(b, n) /\ Advances(a, b)
    BY <1>2, <2>2, DrainShows
  <2>4. a.lastSeq \in Nat /\ b.lastSeq \in Nat
    BY <2>2, <2>3 DEF Shows, Store
  <2> HIDE DEF b
  <2>5. Advances(cl, b)
    BY <1>2, <2>2, <2>3, <2>4, AdvancesOn
  <2>6. Shows(d, n) /\ Settled(b, r.epoch, d)
    BY <1>2, <2>3, SettleShows
  <2> HIDE DEF d
  <2>7. FlagInv(b, reqs)
    BY <1>2, <2>5, StoreFacts, FlagsKept DEF Advances, FlagInv
  <2>8. FlagInv(d, reqs')
    BY <1>1, <2>6, <2>7, RecoveryEnds
  <2>9. d.lastSeq >= cl.lastSeq
    BY <2>5, <2>6 DEF Advances, Settled
  <2> QED BY <1>1, <2>1, <2>6, <2>8, <2>9, RequestEnds DEF n
<1>5. CASE ~cl.open
  <2>1. cl' = cl
    BY <1>5 DEF RecoverDone
  <2>2. r.epoch # cl.epoch
    BY <1>1, <1>2, <1>5 DEF FlagInv
  <2>3. Settled(cl, r.epoch, cl)
    BY <2>2 DEF Settled
  <2>4. FlagInv(cl, reqs') /\ cl.lastSeq >= cl.lastSeq
    BY <1>1, <1>2, <2>3, RecoveryEnds
  <2> QED BY <1>1, <1>2, <2>1, <2>4, RequestEnds DEF n
<1> QED BY <1>4, <1>5

LEMMA RecoverFailsKeeps ==
  ASSUME IInv, NEW r \in reqs, RecoverFails(r)
  PROVE  IInv' /\ BoardStays
<1> DEFINE d == Settle(cl, r.epoch)
<1>1. r.kind = "recover" /\ reqs' = reqs \ {r} /\ UNCHANGED <<server, heard>> /\ cl' = d
  BY DEF RecoverFails
<1>2. Shows(d, Len(log)) /\ Settled(cl, r.epoch, d)
  BY StoreFacts, SettleShows
<1> HIDE DEF d
<1>3. FlagInv(d, reqs')
  BY <1>1, <1>2, StoreFacts, RecoveryEnds
<1>4. d.lastSeq >= cl.lastSeq
  BY <1>2, StoreFacts DEF Settled
<1> QED BY <1>1, <1>2, <1>3, <1>4, RequestEnds

LEMMA FreshKeeps ==
  ASSUME IInv, NEW open \in BOOLEAN, NEW d, d = Fresh(cl.epoch + 1, open)
  PROVE  Shows(d, Len(log)) /\ FlagInv(d, reqs) /\ Blank(d, cl.epoch + 1) /\ d.epoch # cl.epoch
<1>1. cl.epoch \in Nat /\ Len(log) \in Nat /\ FlagInv(cl, reqs)
  BY StoreFacts
<1>2. cl.epoch + 1 \in Nat /\ cl.epoch + 1 # cl.epoch
  BY <1>1
<1>3. Shows(d, Len(log)) /\ Blank(d, cl.epoch + 1)
  <2> DEFINE next == cl.epoch + 1
  <2>1. next \in Nat
    BY <1>2
  <2> HIDE DEF next
  <2>2. Shows(Fresh(next, open), Len(log)) /\ Blank(Fresh(next, open), next)
    BY <1>1, <2>1, FreshShows
  <2> QED BY <2>2 DEF next
<1>4. \A r \in reqs : r.kind = "recover" => r.epoch \in Nat
  BY AnswerIsOfTheLog DEF StateKinds
<1>5. FlagInv(d, reqs)
  BY <1>1, <1>3, <1>4, FlagsFresh DEF Blank
<1> QED BY <1>2, <1>3, <1>5 DEF Blank

LEMMA ResetKeeps ==
  ASSUME IInv, Reset
  PROVE  IInv' /\ BoardStays
<1> DEFINE d == Fresh(cl.epoch + 1, FALSE)
<1>1. cl' = d /\ UNCHANGED <<server, heard, reqs>>
  BY DEF Reset
<1>2. Shows(d, Len(log)) /\ FlagInv(d, reqs) /\ d.epoch # cl.epoch
  BY FreshKeeps
<1> HIDE DEF d
<1> QED BY <1>1, <1>2, RequestEnds

LEMMA RestoreKeeps ==
  ASSUME IInv, Restore
  PROVE  IInv' /\ BoardStays
<1> DEFINE d == Fresh(cl.epoch + 1, TRUE)
           s == StateRequest("restore", d)
           q == [kind |-> "detail", epoch |-> cl.epoch + 1, stage |-> "sent", run |-> FALSE, answered |-> {}]
<1>1. cl' = d /\ reqs' = reqs \cup {s, q} /\ UNCHANGED <<server, heard>>
  BY DEF Restore
<1>2. /\ Shows(d, Len(log)) /\ FlagInv(d, reqs) /\ d.epoch # cl.epoch /\ d.awaiting = FALSE
      /\ d.epoch = cl.epoch + 1 /\ d.lastSeq = 0
  BY FreshKeeps DEF Blank
<1> HIDE DEF d
<1>3. RequestOK(s, Len(log)) /\ s.kind = "restore"
  BY <1>2, StoreFacts DEF StateRequest, RequestOK, Request, StateKinds
<1>4. RequestOK(q, Len(log)) /\ q.kind = "detail"
  BY StoreFacts DEF RequestOK, Request, StateKinds
<1> HIDE DEF s, q
<1>5. \A r \in reqs' : RequestOK(r, Len(log))
  BY <1>1, <1>3, <1>4, StoreFacts
<1>6. FlagInv(d, reqs')
  BY <1>1, <1>2, <1>3, <1>4, FlagsKept
<1>7. heard' \in [Turns -> 0 .. MaxEvents + 1] /\ UNCHANGED server
  BY <1>1 DEF IInv
<1>8. BoardStays
  BY <1>1, <1>2 DEF BoardStays
<1> QED BY <1>1, <1>2, <1>5, <1>6, <1>7, <1>8, TabMoves

LEMMA RestoreDoneKeeps ==
  ASSUME IInv, NEW r \in reqs, NEW q \in reqs, RestoreDone(r, q)
  PROVE  IInv' /\ BoardStays
<1> DEFINE n == Len(log)
           b == [t \in Turns |-> "none"]
           c == [cl EXCEPT !.running = q.run, !.final = q.answered, !.bubble = b]
           d == ApplyState(c, r)
<1>1. r.kind = "restore" /\ q.kind = "detail" /\ reqs' = reqs \ {r, q} /\ UNCHANGED <<server, heard>>
  BY DEF RestoreDone
<1>2. n \in 0 .. MaxEvents /\ n \in Nat /\ Shows(cl, n) /\ cl.lastSeq \in Nat /\ FlagInv(cl, reqs)
  BY StoreFacts
<1>3. r.after \in Nat /\ r.run \in BOOLEAN /\ r.snap \in 0 .. n /\ r.upto \in 0 .. n
  BY <1>1, AnswerIsOfTheLog DEF StateKinds
<1>4. cl' = d \/ cl' = cl
  BY DEF RestoreDone
<1>5. q.run \in BOOLEAN /\ q.answered \in SUBSET Turns /\ b \in [Turns -> Bubbles]
  <2>1. q \in [kind : {"detail"}, epoch : Nat, stage : {"sent", "answered"}, run : BOOLEAN, answered : SUBSET Turns]
    BY <1>1, StoreFacts, RequestKinds
  <2> QED BY <2>1 DEF Bubbles
<1> HIDE DEF n, b
<1>6. c \in Store
  BY <1>5, StoreFacts DEF Store
<1>7. Untouched(cl, c)
  BY StoreFacts DEF Store, Untouched
<1> HIDE DEF c
<1>8. Shows(c, n) /\ Advances(cl, c) /\ c.lastSeq \in Nat
  BY <1>2, <1>6, <1>7, UntouchedShows DEF Store
<1>9. Shows(d, n) /\ Advances(c, d)
  BY <1>2, <1>3, <1>8, ApplyStateShows
<1> HIDE DEF d
<1>10. d.lastSeq \in Nat
  BY <1>9 DEF Shows, Store
<1>11. Advances(cl, d)
  BY <1>2, <1>8, <1>9, <1>10, AdvancesOn
<1>12. ASSUME NEW x, x.open = cl.open, x.epoch = cl.epoch, x.recovering = cl.recovering, x.awaiting = cl.awaiting
       PROVE  FlagInv(x, reqs')
  <2>1. x.awaiting => \E y \in reqs' : y.kind = "turn"
    BY <1>1, <1>2, <1>12 DEF FlagInv
  <2>2. \A y \in reqs \cup reqs' : y.kind = "recover" => y \in reqs /\ y \in reqs'
    BY <1>1
  <2> QED BY <1>2, <1>12, <2>1, <2>2, FlagsKept
<1>13. CASE cl' = d
  <2>1. FlagInv(d, reqs') /\ d.lastSeq >= cl.lastSeq
    BY <1>11, <1>12 DEF Advances
  <2> QED BY <1>1, <1>9, <1>13, <2>1, RequestEnds DEF n
<1>14. CASE cl' = cl
  BY <1>1, <1>2, <1>12, <1>14, RequestEnds DEF n
<1> QED BY <1>4, <1>13, <1>14

LEMMA RestoreFailsKeeps ==
  ASSUME IInv, NEW r \in reqs, NEW q \in reqs, RestoreFails(r, q)
  PROVE  IInv' /\ BoardStays
<1> DEFINE d == Fresh(cl.epoch + 1, FALSE)
<1>1. r.kind = "restore" /\ q.kind = "detail" /\ reqs' = reqs \ {r, q} /\ UNCHANGED <<server, heard>>
  BY DEF RestoreFails
<1>2. cl' = d \/ cl' = cl
  BY DEF RestoreFails
<1>3. Shows(d, Len(log)) /\ FlagInv(d, reqs) /\ d.epoch # cl.epoch /\ d.awaiting = FALSE
  BY FreshKeeps DEF Blank
<1> HIDE DEF d
<1>4. \A y \in reqs \cup reqs' : y.kind = "recover" => y \in reqs /\ y \in reqs'
  BY <1>1
<1>5. CASE cl' = d
  <2>1. FlagInv(d, reqs')
    BY <1>3, <1>4, FlagsKept
  <2> QED BY <1>1, <1>3, <1>5, <2>1, RequestEnds
<1>6. CASE cl' = cl
  <2>1. cl.awaiting => \E y \in reqs' : y.kind = "turn"
    BY <1>1, StoreFacts DEF FlagInv
  <2>2. FlagInv(cl, reqs')
    BY <1>4, <2>1, StoreFacts, FlagsKept
  <2>3. Shows(cl, Len(log)) /\ cl.lastSeq >= cl.lastSeq
    BY StoreFacts
  <2> QED BY <1>1, <1>6, <2>2, <2>3, RequestEnds
<1> QED BY <1>2, <1>5, <1>6

-----------------------------------------------------------------------------
(* The page                                                                *)

LEMMA ClientStep ==
  ASSUME IInv, sends \in Nat, Next
  PROVE  IInv' /\ BoardStays /\ sends' \in Nat
<1>1. CASE OtherTab \/ RunWrites \/ RunAnswers \/ RunFails
  <2>1. sends' = sends
    BY <1>1 DEF OtherTab, RunWrites, RunAnswers, RunFails
  <2> QED BY <1>1, <2>1, ServerStep
<1>2. CASE \E e \in Published : Deliver(e)
  <2>1. sends' = sends
    BY <1>2 DEF Deliver
  <2> QED BY <1>2, <2>1, DeliverKeeps
<1>3. CASE SendMessage
  <2>1. sends' = sends + 1
    BY <1>3 DEF SendMessage
  <2> QED BY <1>3, <2>1, SendMessageKeeps
<1>4. CASE Interrupt \/ Reconnect \/ TimerFires \/ Reset \/ Restore
  <2>1. sends' = sends
    BY <1>4 DEF Interrupt, Reconnect, TimerFires, Reset, Restore
  <2> QED BY <1>4, <2>1, InterruptKeeps, ReconnectKeeps, TimerFiresKeeps, ResetKeeps, RestoreKeeps
<1>5. ASSUME NEW r \in reqs, RecoverStep(r)
      PROVE  IInv' /\ BoardStays /\ sends' \in Nat
  <2>1. sends' = sends
    BY <1>5 DEF RecoverStep, ServeStatus, ServeBoard, RecoverDone, RecoverFails
  <2> QED BY <1>5, <2>1, ServeStep, RecoverDoneKeeps, RecoverFailsKeeps DEF RecoverStep
<1>6. ASSUME NEW r \in reqs, RequestStep(r)
      PROVE  IInv' /\ BoardStays /\ sends' \in Nat
  <2>1. sends' = sends
    BY <1>6 DEF RequestStep, ServeTurn, ServeInterrupt, ServeDetail, PostTurn, TurnAccepted, TurnFails,
                InterruptDone, InterruptFails, RestoreDone, RestoreFails
  <2> QED BY <1>6, <2>1, ServeStep, PostTurnKeeps, TurnAnswersKeep, InterruptDoneKeeps, InterruptFailsKeeps,
            RestoreDoneKeeps, RestoreFailsKeeps DEF RequestStep
<1> QED BY <1>1, <1>2, <1>3, <1>4, <1>5, <1>6 DEF Next

LEMMA ClientInit ==
  ASSUME Init
  PROVE  IInv /\ sends \in Nat
<1>1. ServerInv /\ log = <<>> /\ Len(log) = 0 /\ reqs = {} /\ sends = 0
  BY ClientAssumption DEF Init, LedgerInit, ServerInv
<1>2. Shows(cl, Len(log)) /\ cl.recovering = FALSE /\ cl.awaiting = FALSE
  <2>1. cl = Fresh(1, TRUE) /\ 1 \in Nat /\ TRUE \in BOOLEAN /\ Len(log) \in Nat
    BY <1>1 DEF Init
  <2>2. Shows(Fresh(1, TRUE), Len(log)) /\ Blank(Fresh(1, TRUE), 1)
    BY <2>1, FreshShows
  <2> QED BY <2>1, <2>2 DEF Blank
<1>3. FlagInv(cl, reqs)
  BY <1>1, <1>2 DEF FlagInv
<1>4. heard \in [Turns -> 0 .. MaxEvents + 1]
  BY ClientAssumption DEF Init
<1> QED BY <1>1, <1>2, <1>3, <1>4 DEF IInv

LEMMA ClientInvariant == Spec => [](IInv /\ sends \in Nat)
<1>1. Init => IInv /\ sends \in Nat
  BY ClientInit
<1>2. (IInv /\ sends \in Nat) /\ [Next]_vars => (IInv /\ sends \in Nat)'
  <2> SUFFICES ASSUME IInv, sends \in Nat, [Next]_vars
               PROVE  (IInv /\ sends \in Nat)'
    OBVIOUS
  <2>1. CASE Next
    BY <2>1, ClientStep
  <2>2. CASE UNCHANGED vars
    BY <2>2 DEF vars, server, ledgerVars, IInv, ServerInv
  <2> QED BY <2>1, <2>2
<1> QED BY <1>1, <1>2, PTL DEF Spec

\* Whatever live events, snapshots, replays, late answers, failures and openings
\* of the page meet, the board of a tab is the replay of the first lastSeq events
\* of the session, and no flag of the store outlives its request
\* (classroomStore.ts:282-330).
THEOREM PageStaysTrue == Spec => []PageIsTrue
<1>1. IInv => PageIsTrue
  BY DEF IInv, PageIsTrue, BoardIsReplay, FlagsHaveRequests, Shows, FlagInv
<1> QED BY <1>1, ClientInvariant, PTL

\* While the page stays open nothing that arrives late takes an event off the
\* board (classroomStore.ts:232-253).
THEOREM BoardGrows == Spec => BoardNeverGoesBack
<1>1. (IInv /\ sends \in Nat) /\ [Next]_vars => [cl'.epoch = cl.epoch => cl'.lastSeq >= cl.lastSeq]_vars
  BY ClientStep DEF BoardStays
<1> QED BY <1>1, ClientInvariant, PTL DEF Spec, BoardNeverGoesBack

-----------------------------------------------------------------------------
(* The session a tab is in                                                 *)

SessionInv == SessionTypeOK /\ opened \in 0 .. MaxOpened /\ TabFollowsItsSession

LEMMA ClearedTab ==
  ASSUME NEW open \in BOOLEAN, NEW s \in Sessions \cup {NoSession}
  PROVE  /\ Cleared(open, s) \in Tab
         /\ Cleared(open, s).session = s /\ Cleared(open, s).channel = NoSession
         /\ Cleared(open, s).restoring = FALSE
  BY DEF Cleared, Tab

\* The tab t posts message a.message to session s.
LEMMA PostingKeeps ==
  ASSUME NEW t \in Tab, asks \subseteq AskCall, NEW a \in asks, NEW s \in Sessions, Posting(t, a, s)
  PROVE  /\ tab' \in Tab /\ asks' \subseteq AskCall
         /\ tab'.session = t.session /\ tab'.restoring = t.restoring
         /\ tab'.channel = IF t.channel = NoSession THEN s ELSE t.channel
<1> DEFINE ch == IF t.channel = NoSession THEN s ELSE t.channel
           p == t.pane \cup {a.message}
           b == [a EXCEPT !.stage = "posting", !.session = s]
<1>1. a \in AskCall /\ a.message \in Messages
  BY DEF AskCall
<1>2. ch \in Sessions \cup {NoSession} /\ p \in SUBSET Messages
  BY <1>1 DEF Tab
<1>3. tab' = [t EXCEPT !.channel = ch, !.running = TRUE, !.pane = p] /\ asks' = (asks \ {a}) \cup {b}
  BY DEF Posting, Tab
<1>4. b \in AskCall
  BY <1>1 DEF AskCall
<1> HIDE DEF p, b, ch
<1>5. tab' \in Tab /\ tab'.session = t.session /\ tab'.restoring = t.restoring /\ tab'.channel = ch
  BY <1>2, <1>3 DEF Tab
<1> QED BY <1>3, <1>4, <1>5 DEF ch

LEMMA OpenPageKeeps ==
  ASSUME SessionInv, OpenPage
  PROVE  SessionInv'
<1>1. /\ created \in Sessions /\ posted \in [Sessions -> SUBSET Messages] /\ saved \in Sessions \cup {NoSession}
      /\ tab \in Tab /\ asks \subseteq AskCall /\ restores \subseteq RestoreCall
      /\ opened \in Nat /\ opened < MaxOpened /\ opened' = opened + 1
      /\ UNCHANGED <<created, posted, saved, asks>>
  BY SessionAssumption DEF SessionInv, SessionTypeOK, OpenPage
<1>2. opened' \in 0 .. MaxOpened /\ opened' \in 1 .. MaxOpened
  BY <1>1, SessionAssumption
<1>3. CASE saved = NoSession \/ tab.session = saved
  <2>1. tab' = [tab EXCEPT !.open = TRUE] /\ restores' = restores
    BY <1>3 DEF OpenPage
  <2>2. tab' \in Tab /\ tab'.session = tab.session /\ tab'.channel = tab.channel /\ tab'.restoring = tab.restoring
    BY <1>1, <2>1 DEF Tab
  <2> QED BY <1>1, <1>2, <2>1, <2>2 DEF SessionInv, SessionTypeOK, TabFollowsItsSession
<1>4. CASE ~(saved = NoSession \/ tab.session = saved)
  <2> DEFINE r == [opening |-> opened', session |-> saved]
  <2>1. tab' = [Cleared(TRUE, saved) EXCEPT !.channel = saved, !.restoring = TRUE] /\ restores' = restores \cup {r}
    BY <1>4 DEF OpenPage
  <2>2. saved \in Sessions
    BY <1>1, <1>4
  <2>3. r \in RestoreCall /\ r.session = saved
    BY <1>2, <2>2 DEF RestoreCall
  <2> HIDE DEF r
  <2>4. tab' \in Tab /\ tab'.session = saved /\ tab'.channel = saved
    BY <2>1, <2>2 DEF Cleared, Tab
  <2> QED BY <1>1, <1>2, <2>1, <2>3, <2>4 DEF SessionInv, SessionTypeOK, TabFollowsItsSession
<1> QED BY <1>3, <1>4

LEMMA LeaveKeeps ==
  ASSUME SessionInv, LeavePage \/ NewSession
  PROVE  SessionInv'
<1>1. tab' = Cleared(FALSE, NoSession) \/ tab' = Cleared(TRUE, NoSession)
  BY DEF LeavePage, NewSession
<1>2. tab' \in Tab /\ tab'.session = NoSession /\ tab'.restoring = FALSE
  BY <1>1, ClearedTab
<1>3. UNCHANGED <<created, posted, asks, restores, opened>> /\ (saved' = saved \/ saved' = NoSession)
  BY DEF LeavePage, NewSession, requests
<1> QED BY <1>2, <1>3 DEF SessionInv, SessionTypeOK, TabFollowsItsSession

LEMMA RestoreAnsweredKeeps ==
  ASSUME SessionInv, NEW r \in restores, RestoreAnswered(r)
  PROVE  SessionInv'
<1>1. /\ UNCHANGED <<created, posted, saved, asks, opened>> /\ restores' = restores \ {r}
      /\ tab \in Tab /\ r.session \in Sessions /\ posted[r.session] \in SUBSET Messages
  BY DEF RestoreAnswered, SessionInv, SessionTypeOK, RestoreCall
<1>2. CASE tab.session # r.session
  <2>1. tab' = tab
    BY <1>2 DEF RestoreAnswered
  <2>2. tab.restoring => \E q \in restores' : q.session = tab.session
    BY <1>1, <1>2 DEF SessionInv, TabFollowsItsSession
  <2> QED BY <1>1, <2>1, <2>2 DEF SessionInv, SessionTypeOK, TabFollowsItsSession
<1>3. CASE tab.session = r.session
  <2>1. PICK running \in {FALSE, posted[r.session] # {}} :
          tab' = [tab EXCEPT !.pane = posted[r.session], !.running = running, !.restoring = FALSE]
    BY <1>3 DEF RestoreAnswered
  <2>2. running \in BOOLEAN
    BY <2>1
  <2>3. tab' \in Tab /\ tab'.session = tab.session /\ tab'.channel = tab.channel /\ tab'.restoring = FALSE
    BY <1>1, <2>1, <2>2 DEF Tab
  <2> QED BY <1>1, <2>3 DEF SessionInv, SessionTypeOK, TabFollowsItsSession
<1> QED BY <1>2, <1>3

LEMMA RestoringFailsKeeps ==
  ASSUME SessionInv, NEW r \in restores, RestoringFails(r)
  PROVE  SessionInv'
<1>1. UNCHANGED <<created, posted, asks, opened>> /\ restores' = restores \ {r} /\ tab \in Tab
  BY DEF RestoringFails, SessionInv, SessionTypeOK
<1>2. CASE tab.session # r.session
  <2>1. tab' = tab /\ saved' = saved
    BY <1>2 DEF RestoringFails
  <2>2. tab.restoring => \E q \in restores' : q.session = tab.session
    BY <1>1, <1>2 DEF SessionInv, TabFollowsItsSession
  <2> QED BY <1>1, <2>1, <2>2 DEF SessionInv, SessionTypeOK, TabFollowsItsSession
<1>3. CASE tab.session = r.session
  <2>1. tab' = Cleared(tab.open, NoSession) /\ (saved' = saved \/ saved' = NoSession)
    BY <1>3 DEF RestoringFails
  <2>2. tab.open \in BOOLEAN
    BY <1>1 DEF Tab
  <2>3. tab' \in Tab /\ tab'.session = NoSession /\ tab'.restoring = FALSE
    BY <2>1, <2>2, ClearedTab
  <2> QED BY <1>1, <2>1, <2>3 DEF SessionInv, SessionTypeOK, TabFollowsItsSession
<1> QED BY <1>2, <1>3

LEMMA AskKeeps ==
  ASSUME SessionInv, NEW m \in Messages, Ask(m)
  PROVE  SessionInv'
<1> DEFINE a == [message |-> m, stage |-> "token", session |-> tab.session]
<1>1. asks' = asks \cup {a} /\ UNCHANGED <<created, posted, saved, tab, restores, opened>>
  BY DEF Ask
<1>2. a \in AskCall
  BY DEF AskCall, SessionInv, SessionTypeOK, Tab
<1> HIDE DEF a
<1> QED BY <1>1, <1>2 DEF SessionInv, SessionTypeOK, TabFollowsItsSession

LEMMA HaveTokenKeeps ==
  ASSUME SessionInv, NEW a \in asks, HaveToken(a)
  PROVE  SessionInv'
<1>1. UNCHANGED <<created, posted, saved, restores, opened>> /\ tab \in Tab /\ asks \subseteq AskCall /\ a \in AskCall
  BY DEF HaveToken, SessionInv, SessionTypeOK
<1>2. CASE a.session = NoSession
  <2> DEFINE b == [a EXCEPT !.stage = "creating"]
  <2>1. asks' = (asks \ {a}) \cup {b} /\ tab' = tab
    BY <1>2 DEF HaveToken
  <2>2. b \in AskCall
    BY <1>1 DEF AskCall
  <2> HIDE DEF b
  <2> QED BY <1>1, <2>1, <2>2 DEF SessionInv, SessionTypeOK, TabFollowsItsSession
<1>3. CASE a.session # NoSession
  <2>1. Posting(tab, a, a.session) /\ a.session \in Sessions
    BY <1>1, <1>3 DEF HaveToken, AskCall
  <2>2. /\ tab' \in Tab /\ asks' \subseteq AskCall
        /\ tab'.session = tab.session /\ tab'.restoring = tab.restoring
        /\ tab'.channel = IF tab.channel = NoSession THEN a.session ELSE tab.channel
    BY <1>1, <2>1, PostingKeeps
  <2> QED BY <1>1, <2>2 DEF SessionInv, SessionTypeOK, TabFollowsItsSession
<1> QED BY <1>2, <1>3

LEMMA CreatedKeeps ==
  ASSUME SessionInv, NEW a \in asks, Created(a)
  PROVE  SessionInv'
<1> DEFINE s == created + 1
           t == Cleared(tab.open, s)
<1>1. /\ created' = s /\ saved' = s /\ Posting(t, a, s) /\ UNCHANGED <<posted, restores, opened>>
      /\ asks \subseteq AskCall
  BY DEF Created, SessionInv, SessionTypeOK
<1>2. s \in Sessions /\ s # NoSession
  <2>1. created \in 0 .. MaxSessions /\ created < MaxSessions
    BY DEF Created, SessionInv, SessionTypeOK, Sessions
  <2>2. s \in Sessions
    BY <2>1, SessionAssumption DEF Sessions
  <2> QED BY <2>2, SessionAssumption
<1>3. tab.open \in BOOLEAN
  BY DEF SessionInv, SessionTypeOK, Tab
<1> HIDE DEF s
<1>4. t \in Tab /\ t.session = s /\ t.channel = NoSession /\ t.restoring = FALSE
  BY <1>2, <1>3, ClearedTab
<1> HIDE DEF t
<1>5. /\ tab' \in Tab /\ asks' \subseteq AskCall
      /\ tab'.session = s /\ tab'.restoring = FALSE /\ tab'.channel = s
  BY <1>1, <1>2, <1>4, PostingKeeps
<1> QED BY <1>1, <1>2, <1>5 DEF SessionInv, SessionTypeOK, TabFollowsItsSession

LEMMA AskEndsKeeps ==
  ASSUME SessionInv, NEW a \in asks, TurnPosted(a) \/ AskFails(a)
  PROVE  SessionInv'
<1>1. /\ asks' = asks \ {a} /\ UNCHANGED <<saved, restores, opened>> /\ tab \in Tab
      /\ posted \in [Sessions -> SUBSET Messages] /\ a.message \in Messages
  BY DEF TurnPosted, AskFails, SessionInv, SessionTypeOK, AskCall
<1>2. tab' = tab \/ tab' = [tab EXCEPT !.running = FALSE]
  BY DEF TurnPosted, AskFails
<1>3. tab' \in Tab /\ tab'.session = tab.session /\ tab'.channel = tab.channel /\ tab'.restoring = tab.restoring
  BY <1>1, <1>2 DEF Tab
<1>4. created' \in Sessions
  BY DEF TurnPosted, AskFails, SessionInv, SessionTypeOK
<1>5. posted' \in [Sessions -> SUBSET Messages]
  <2>1. posted' = posted \/ posted' = [posted EXCEPT ![a.session] = @ \cup {a.message}]
    BY DEF TurnPosted, AskFails
  <2> QED BY <1>1, <2>1
<1> QED BY <1>1, <1>3, <1>4, <1>5 DEF SessionInv, SessionTypeOK, TabFollowsItsSession

LEMMA OverKeeps ==
  ASSUME SessionInv, Over
  PROVE  SessionInv'
<1>1. tab' = [tab EXCEPT !.running = FALSE] /\ UNCHANGED <<created, posted, saved, asks, restores, opened>>
  BY DEF Over, requests
<1>2. tab' \in Tab /\ tab'.session = tab.session /\ tab'.channel = tab.channel /\ tab'.restoring = tab.restoring
  BY <1>1 DEF Tab, SessionInv, SessionTypeOK
<1> QED BY <1>1, <1>2 DEF SessionInv, SessionTypeOK, TabFollowsItsSession

\* SessionInv, which has the types in it, is inductive.
LEMMA SessionInvariant == SessionSpec => []SessionInv
<1>1. SessionInit => SessionInv
  <2> SUFFICES ASSUME SessionInit PROVE SessionInv
    OBVIOUS
  <2>1. 0 \in Sessions /\ Foreign \in Sessions /\ 0 \in 0 .. MaxOpened
    BY SessionAssumption DEF Sessions, Foreign
  <2>2. tab \in Tab /\ tab.session = NoSession /\ tab.restoring = FALSE
    BY ClearedTab DEF SessionInit
  <2> QED BY <2>1, <2>2 DEF SessionInit, SessionInv, SessionTypeOK, TabFollowsItsSession
<1>2. SessionInv /\ [SessionNext]_sessionVars => SessionInv'
  <2> SUFFICES ASSUME SessionInv, [SessionNext]_sessionVars PROVE SessionInv'
    OBVIOUS
  <2>1. CASE SessionNext
    BY <2>1, OpenPageKeeps, LeaveKeeps, OverKeeps, AskKeeps, HaveTokenKeeps, CreatedKeeps, AskEndsKeeps,
       RestoreAnsweredKeeps, RestoringFailsKeeps DEF SessionNext
  <2>2. CASE UNCHANGED sessionVars
    BY <2>2 DEF sessionVars, SessionInv, SessionTypeOK, TabFollowsItsSession
  <2> QED BY <2>1, <2>2
<1> QED BY <1>1, <1>2, PTL DEF SessionSpec

\* Every session, call and answer in the tab is one of those the store can hold:
\* what createSession or a restore gave out, or the saved id of another account.
THEOREM SessionTypeCorrect == SessionSpec => []SessionTypeOK
<1>1. SessionInv => SessionTypeOK
  BY DEF SessionInv
<1> QED BY SessionInvariant, <1>1, PTL

\* However opening and leaving the page, new sessions, messages and answers to
\* requests of another session meet, the tab listens to the channel of the
\* session on screen, that session is the one a reload brings back, and the
\* composer is disabled only while a restore is on its way
\* (classroomStore.ts:389-450).
THEOREM TabStaysInItsSession == SessionSpec => []TabFollowsItsSession
<1>1. SessionInv => TabFollowsItsSession
  BY DEF SessionInv
<1> QED BY SessionInvariant, <1>1, PTL
=============================================================================
