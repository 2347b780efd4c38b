------------------------------ MODULE ListLemmas -------------------------------
(***************************************************************************)
(* What filtering and flattening make of a list.  Both are functions that  *)
(* recur over the prefixes of a list; one step of the recursion is what    *)
(* appending an element changes (OnlyAppend, FlattenAppend), and the rest  *)
(* follows by induction over appending (ListInduction), which rests on     *)
(* every set of numbers having a least one (LeastNumber).                  *)
(***************************************************************************)
EXTENDS Lists, Integers, SequenceTheorems, WellFoundedInduction, TLAPS

LEMMA LeastNumber ==
  ASSUME NEW S \in SUBSET Nat, S # {}
  PROVE  \E m \in S : \A n \in S : m <= n
<1> DEFINE Less == {p \in Nat \X Nat : p[1] < p[2]}
<1>1. IsWellFoundedOn(Less, Nat)
  BY NatLessThanWellFounded DEF OpToRel
<1>2. PICK m \in S : \A n \in S : <<n, m>> \notin Less
  BY <1>1, WFMin
<1>3. \A n \in S : ~(n < m)
  BY <1>2
<1> QED BY <1>3

\* A set that has the empty list and with a list every one that is longer by one
\* element has all lists.
LEMMA ListInduction ==
  ASSUME NEW S, NEW G, <<>> \in G,
         \A s \in Seq(S), x \in S : s \in G => Append(s, x) \in G
  PROVE  \A s \in Seq(S) : s \in G
<1> DEFINE B == {n \in Nat : \E s \in Seq(S) : Len(s) = n /\ s \notin G}
<1> SUFFICES ASSUME NEW r \in Seq(S), r \notin G PROVE FALSE
  OBVIOUS
<1>1. B \in SUBSET Nat /\ B # {}
  BY LenProperties
<1>2. PICK m \in B : \A n \in B : m <= n
  BY <1>1, LeastNumber
<1>3. PICK s \in Seq(S) : Len(s) = m /\ s \notin G
  BY <1>2
<1>4. PICK t \in Seq(S), x \in S : s = Append(t, x)
  BY <1>3, SequenceEmptyOrAppend
<1>5. Len(t) \in Nat /\ Len(t) + 1 = m
  BY <1>3, <1>4
<1>6. t \in G
  BY <1>2, <1>5
<1> QED BY <1>3, <1>4, <1>6

LEMMA RangeAppend ==
  ASSUME NEW S, NEW s \in Seq(S), NEW x \in S
  PROVE  Range(Append(s, x)) = Range(s) \cup {x}
<1> DEFINE t == Append(s, x)
<1>1. DOMAIN s = 1 .. Len(s) /\ Len(s) \in Nat /\ DOMAIN t = 1 .. Len(s) + 1
  OBVIOUS
<1>2. t[Len(s) + 1] = x /\ \A n \in 1 .. Len(s) : t[n] = s[n]
  OBVIOUS
<1> HIDE DEF t
<1>3. Range(t) = Range(s) \cup {x}
  BY <1>1, <1>2 DEF Range
<1> QED BY <1>3 DEF t

LEMMA InjectiveAppend ==
  ASSUME NEW S, NEW s \in Seq(S), NEW x \in S
  PROVE  IsInjective(Append(s, x)) <=> IsInjective(s) /\ x \notin Range(s)
<1> DEFINE t == Append(s, x)
<1>1. DOMAIN s = 1 .. Len(s) /\ Len(s) \in Nat /\ DOMAIN t = 1 .. Len(s) + 1
  OBVIOUS
<1>2. t[Len(s) + 1] = x /\ \A n \in 1 .. Len(s) : t[n] = s[n]
  OBVIOUS
<1> HIDE DEF t
<1>3. IsInjective(t) <=> IsInjective(s) /\ x \notin Range(s)
  BY <1>1, <1>2 DEF Range, IsInjective
<1> QED BY <1>3 DEF t

LEMMA AppendConcat ==
  ASSUME NEW S, NEW s \in Seq(S), NEW t \in Seq(S), NEW x \in S
  PROVE  s \o Append(t, x) = Append(s \o t, x)
<1>1. Append(t, x) = t \o <<x>> /\ Append(s \o t, x) = (s \o t) \o <<x>>
  BY AppendIsConcat
<1> QED BY <1>1, ConcatAssociative

-----------------------------------------------------------------------------
(* Filtering                                                               *)

\* f filters the prefixes of s up to the k-th.
Filters(f, s, kept, k) ==
  f = [n \in 0 .. k |->
         IF n = 0 THEN <<>> ELSE IF s[n] \in kept THEN Append(f[n - 1], s[n]) ELSE f[n - 1]]

LEMMA FilterExtends ==
  ASSUME NEW s, NEW kept, NEW k \in Nat, NEW f, Filters(f, s, kept, k)
  PROVE  \E g : Filters(g, s, kept, k + 1)
<1> DEFINE g == [n \in 0 .. k + 1 |->
                   IF n <= k THEN f[n] ELSE IF s[n] \in kept THEN Append(f[n - 1], s[n]) ELSE f[n - 1]]
<1>1. \A n \in 0 .. k : f[n] = IF n = 0 THEN <<>> ELSE IF s[n] \in kept THEN Append(f[n - 1], s[n]) ELSE f[n - 1]
  BY DEF Filters
<1>2. \A n \in 0 .. k + 1 :
        g[n] = IF n = 0 THEN <<>> ELSE IF s[n] \in kept THEN Append(g[n - 1], s[n]) ELSE g[n - 1]
  <2> TAKE n \in 0 .. k + 1
  <2>1. CASE n <= k
    <3>1. n # 0 => n - 1 \in 0 .. k + 1 /\ g[n - 1] = f[n - 1]
      BY <2>1
    <3> QED BY <1>1, <2>1, <3>1
  <2>2. CASE n = k + 1
    <3>1. n # 0 /\ n - 1 \in 0 .. k + 1 /\ g[n - 1] = f[n - 1]
      BY <2>2
    <3> QED BY <2>2, <3>1
  <2> QED BY <2>1, <2>2
<1>3. g = [n \in 0 .. k + 1 |-> g[n]]
  OBVIOUS
<1> HIDE DEF g
<1>4. Filters(g, s, kept, k + 1)
  BY <1>2, <1>3 DEF Filters
<1> QED BY <1>4

LEMMA FilterExists ==
  ASSUME NEW s, NEW kept, NEW k \in Nat
  PROVE  \E f : Filters(f, s, kept, k)
<1> DEFINE B == {n \in Nat : ~\E f : Filters(f, s, kept, n)}
<1> SUFFICES ASSUME B # {} PROVE FALSE
  OBVIOUS
<1>1. PICK m \in B : \A n \in B : m <= n
  BY LeastNumber
<1>2. CASE m = 0
  <2>1. Filters([n \in 0 .. 0 |-> <<>>], s, kept, 0)
    BY DEF Filters
  <2> QED BY <1>2, <2>1
<1>3. CASE m # 0
  <2>1. m - 1 \in Nat /\ m - 1 \notin B
    BY <1>1, <1>3
  <2>2. PICK f : Filters(f, s, kept, m - 1)
    BY <2>1
  <2>3. \E g : Filters(g, s, kept, (m - 1) + 1)
    BY <2>1, <2>2, FilterExtends
  <2>4. (m - 1) + 1 = m
    OBVIOUS
  <2> QED BY <2>3, <2>4
<1> QED BY <1>2, <1>3

\* What comes of a prefix depends on that prefix alone.
LEMMA FiltersAgree ==
  ASSUME NEW s, NEW t, NEW kept, NEW k \in Nat, NEW l \in Nat, k <= l, NEW f, NEW g,
         Filters(f, s, kept, k), Filters(g, t, kept, l), \A n \in 1 .. k : s[n] = t[n]
  PROVE  f[k] = g[k]
<1> DEFINE B == {n \in 0 .. k : f[n] # g[n]}
<1> SUFFICES ASSUME B # {} PROVE FALSE
  BY k \in 0 .. k
<1>1. \A n \in 0 .. k :
        /\ f[n] = IF n = 0 THEN <<>> ELSE IF s[n] \in kept THEN Append(f[n - 1], s[n]) ELSE f[n - 1]
        /\ g[n] = IF n = 0 THEN <<>> ELSE IF t[n] \in kept THEN Append(g[n - 1], t[n]) ELSE g[n - 1]
  <2>1. \A n \in 0 .. k : f[n] = IF n = 0 THEN <<>> ELSE IF s[n] \in kept THEN Append(f[n - 1], s[n]) ELSE f[n - 1]
    BY DEF Filters
  <2>2. \A n \in 0 .. l : g[n] = IF n = 0 THEN <<>> ELSE IF t[n] \in kept THEN Append(g[n - 1], t[n]) ELSE g[n - 1]
    BY DEF Filters
  <2>3. \A n \in 0 .. k : n \in 0 .. l
    OBVIOUS
  <2> QED BY <2>1, <2>2, <2>3
<1>2. PICK m \in B : \A n \in B : m <= n
  <2>1. B \in SUBSET Nat
    OBVIOUS
  <2> HIDE DEF B
  <2> QED BY <2>1, LeastNumber
<1>3. m # 0
  BY <1>1, <1>2
<1>4. m - 1 \in 0 .. k /\ m \in 1 .. k /\ m - 1 \notin B
  BY <1>2, <1>3
<1>5. f[m - 1] = g[m - 1] /\ s[m] = t[m]
  BY <1>4
<1>6. f[m] = g[m]
  BY <1>1, <1>3, <1>4, <1>5
<1> QED BY <1>2, <1>6

LEMMA OnlyFilters ==
  ASSUME NEW s, NEW kept, Len(s) \in Nat
  PROVE  \E f : Filters(f, s, kept, Len(s)) /\ Only(s, kept) = f[Len(s)]
<1> DEFINE f == CHOOSE h : Filters(h, s, kept, Len(s))
<1>1. Filters(f, s, kept, Len(s))
  BY FilterExists
<1>2. Only(s, kept) = f[Len(s)]
  BY DEF Only, Filters
<1> QED BY <1>1, <1>2

LEMMA OnlyEmpty ==
  ASSUME NEW kept
  PROVE  Only(<<>>, kept) = <<>>
<1>1. Len(<<>>) = 0
  OBVIOUS
<1>2. PICK f : Filters(f, <<>>, kept, 0) /\ Only(<<>>, kept) = f[0]
  BY <1>1, OnlyFilters
<1> QED BY <1>2 DEF Filters

LEMMA OnlyAppend ==
  ASSUME NEW S, NEW s \in Seq(S), NEW x \in S, NEW kept
  PROVE  Only(Append(s, x), kept) = IF x \in kept THEN Append(Only(s, kept), x) ELSE Only(s, kept)
<1> DEFINE t == Append(s, x)
           k == Len(s)
<1>1. k \in Nat /\ Len(t) = k + 1 /\ t[k + 1] = x /\ \A n \in 1 .. k : s[n] = t[n]
  OBVIOUS
<1>2. PICK f : Filters(f, s, kept, k) /\ Only(s, kept) = f[k]
  BY <1>1, OnlyFilters
<1> HIDE DEF t, k
<1>3. PICK g : Filters(g, t, kept, k + 1) /\ Only(t, kept) = g[k + 1]
  <2>1. Len(t) \in Nat
    BY <1>1
  <2>2. \E g : Filters(g, t, kept, Len(t)) /\ Only(t, kept) = g[Len(t)]
    BY <2>1, OnlyFilters
  <2> QED BY <1>1, <2>2
<1>4. f[k] = g[k]
  BY <1>1, <1>2, <1>3, FiltersAgree
<1>5. g[k + 1] = IF t[k + 1] \in kept THEN Append(g[k], t[k + 1]) ELSE g[k]
  <2>1. k + 1 \in 0 .. k + 1 /\ k + 1 # 0 /\ (k + 1) - 1 = k
    BY <1>1
  <2> QED BY <1>3, <2>1 DEF Filters
<1>6. Only(t, kept) = IF x \in kept THEN Append(Only(s, kept), x) ELSE Only(s, kept)
  BY <1>1, <1>2, <1>3, <1>4, <1>5
<1> QED BY <1>6 DEF t

LEMMA OnlyType ==
  ASSUME NEW S, NEW s \in Seq(S), NEW kept
  PROVE  Only(s, kept) \in Seq(S) /\ Range(Only(s, kept)) = Range(s) \cap kept
<1> DEFINE Q(t) == Only(t, kept) \in Seq(S) /\ Range(Only(t, kept)) = Range(t) \cap kept
           G == {t \in Seq(S) : Q(t)}
<1>1. Q(<<>>)
  <2>1. Range(<<>>) = {} /\ <<>> \in Seq(S)
    BY DEF Range
  <2> QED BY <2>1, OnlyEmpty
<1>2. ASSUME NEW t \in Seq(S), NEW x \in S, Q(t) PROVE Q(Append(t, x))
  <2>1. Range(Append(t, x)) = Range(t) \cup {x} /\ Append(Only(t, kept), x) \in Seq(S)
    BY <1>2, RangeAppend
  <2>2. Range(Append(Only(t, kept), x)) = Range(Only(t, kept)) \cup {x}
    BY <1>2, RangeAppend
  <2>3. Only(Append(t, x), kept) = IF x \in kept THEN Append(Only(t, kept), x) ELSE Only(t, kept)
    BY OnlyAppend
  <2>4. CASE x \in kept
    BY <1>2, <2>1, <2>2, <2>3, <2>4
  <2>5. CASE x \notin kept
    BY <1>2, <2>1, <2>3, <2>5
  <2> QED BY <2>4, <2>5
<1> HIDE DEF Q
<1>3. <<>> \in G /\ \A w \in Seq(S), x \in S : w \in G => Append(w, x) \in G
  BY <1>1, <1>2
<1> HIDE DEF G
<1>4. \A w \in Seq(S) : w \in G
  BY <1>3, ListInduction
<1> QED BY <1>4 DEF G, Q

\* A list that has nothing twice has nothing twice after filtering.
LEMMA OnlyInjective ==
  ASSUME NEW S, NEW s \in Seq(S), NEW kept, IsInjective(s)
  PROVE  IsInjective(Only(s, kept))
<1> DEFINE Q(t) == IsInjective(t) => IsInjective(Only(t, kept))
           G == {t \in Seq(S) : Q(t)}
<1>1. Q(<<>>)
  BY OnlyEmpty
<1>2. ASSUME NEW t \in Seq(S), NEW x \in S, Q(t) PROVE Q(Append(t, x))
  <2>1. Only(Append(t, x), kept) = IF x \in kept THEN Append(Only(t, kept), x) ELSE Only(t, kept)
    BY OnlyAppend
  <2>2. Only(t, kept) \in Seq(S) /\ Range(Only(t, kept)) = Range(t) \cap kept
    BY OnlyType
  <2>3. IsInjective(Append(t, x)) <=> IsInjective(t) /\ x \notin Range(t)
    BY InjectiveAppend
  <2>4. IsInjective(Append(Only(t, kept), x)) <=> IsInjective(Only(t, kept)) /\ x \notin Range(Only(t, kept))
    BY <2>2, InjectiveAppend
  <2>5. CASE x \in kept
    BY <1>2, <2>1, <2>2, <2>3, <2>4, <2>5
  <2>6. CASE x \notin kept
    BY <1>2, <2>1, <2>3, <2>6
  <2> QED BY <2>5, <2>6
<1> HIDE DEF Q
<1>3. <<>> \in G /\ \A w \in Seq(S), x \in S : w \in G => Append(w, x) \in G
  BY <1>1, <1>2
<1> HIDE DEF G
<1>4. \A w \in Seq(S) : w \in G
  BY <1>3, ListInduction
<1> QED BY <1>4 DEF G, Q

\* Nothing is filtered out of what is kept.
LEMMA OnlyAll ==
  ASSUME NEW S, NEW s \in Seq(S), NEW kept, Range(s) \subseteq kept
  PROVE  Only(s, kept) = s
<1> DEFINE Q(t) == Range(t) \subseteq kept => Only(t, kept) = t
           G == {t \in Seq(S) : Q(t)}
<1>1. Q(<<>>)
  BY OnlyEmpty
<1>2. ASSUME NEW t \in Seq(S), NEW x \in S, Q(t) PROVE Q(Append(t, x))
  <2>1. Only(Append(t, x), kept) = IF x \in kept THEN Append(Only(t, kept), x) ELSE Only(t, kept)
    BY OnlyAppend
  <2>2. Range(Append(t, x)) = Range(t) \cup {x}
    BY RangeAppend
  <2> QED BY <1>2, <2>1, <2>2
<1> HIDE DEF Q
<1>3. <<>> \in G /\ \A w \in Seq(S), x \in S : w \in G => Append(w, x) \in G
  BY <1>1, <1>2
<1> HIDE DEF G
<1>4. \A w \in Seq(S) : w \in G
  BY <1>3, ListInduction
<1> QED BY <1>4 DEF G, Q

\* Filtering twice is filtering by what both keep.
LEMMA OnlyTwice ==
  ASSUME NEW S, NEW s \in Seq(S), NEW A, NEW B
  PROVE  Only(Only(s, A), B) = Only(s, A \cap B)
<1> DEFINE Q(t) == Only(Only(t, A), B) = Only(t, A \cap B)
           G == {t \in Seq(S) : Q(t)}
<1>1. Q(<<>>)
  BY OnlyEmpty
<1>2. ASSUME NEW t \in Seq(S), NEW x \in S, Q(t) PROVE Q(Append(t, x))
  <2>1. Only(Append(t, x), A) = IF x \in A THEN Append(Only(t, A), x) ELSE Only(t, A)
    BY OnlyAppend
  <2>2. Only(Append(t, x), A \cap B) = IF x \in A \cap B THEN Append(Only(t, A \cap B), x) ELSE Only(t, A \cap B)
    BY OnlyAppend
  <2>3. Only(t, A) \in Seq(S)
    BY OnlyType
  <2>4. Only(Append(Only(t, A), x), B) = IF x \in B THEN Append(Only(Only(t, A), B), x) ELSE Only(Only(t, A), B)
    BY <2>3, OnlyAppend
  <2>5. CASE x \in A
    <3>1. Only(Only(Append(t, x), A), B) = Only(Append(Only(t, A), x), B)
      BY <2>1, <2>5
    <3> QED BY <1>2, <2>2, <2>4, <2>5, <3>1
  <2>6. CASE x \notin A
    <3>1. Only(Only(Append(t, x), A), B) = Only(Only(t, A), B)
      BY <2>1, <2>6
    <3> QED BY <1>2, <2>2, <2>6, <3>1
  <2> QED BY <2>5, <2>6
<1> HIDE DEF Q
<1>3. <<>> \in G /\ \A w \in Seq(S), x \in S : w \in G => Append(w, x) \in G
  BY <1>1, <1>2
<1> HIDE DEF G
<1>4. \A w \in Seq(S) : w \in G
  BY <1>3, ListInduction
<1> QED BY <1>4 DEF G, Q

\* What is kept matters only where the list has it.
LEMMA OnlyWhere ==
  ASSUME NEW S, NEW s \in Seq(S), NEW A, NEW B, Range(s) \cap A = Range(s) \cap B
  PROVE  Only(s, A) = Only(s, B)
<1>1. Only(s, Range(s)) = s
  BY OnlyAll
<1>2. Only(Only(s, Range(s)), A) = Only(s, Range(s) \cap A) /\ Only(Only(s, Range(s)), B) = Only(s, Range(s) \cap B)
  BY OnlyTwice
<1> QED BY <1>1, <1>2

LEMMA OnlyConcat ==
  ASSUME NEW S, NEW s \in Seq(S), NEW t \in Seq(S), NEW kept
  PROVE  Only(s \o t, kept) = Only(s, kept) \o Only(t, kept)
<1> DEFINE Q(u) == Only(s \o u, kept) = Only(s, kept) \o Only(u, kept)
           G == {u \in Seq(S) : Q(u)}
<1>1. Q(<<>>)
  <2>1. s \o <<>> = s
    BY ConcatEmptySeq
  <2>2. Only(s, kept) \o <<>> = Only(s, kept)
    BY OnlyType, ConcatEmptySeq
  <2> QED BY <2>1, <2>2, OnlyEmpty
<1>2. ASSUME NEW u \in Seq(S), NEW x \in S, Q(u) PROVE Q(Append(u, x))
  <2> DEFINE w == s \o u
  <2>1. s \o Append(u, x) = Append(w, x) /\ w \in Seq(S)
    BY AppendConcat, ConcatProperties
  <2>2. Only(Append(u, x), kept) = IF x \in kept THEN Append(Only(u, kept), x) ELSE Only(u, kept)
    BY OnlyAppend
  <2>3. Only(u, kept) \in Seq(S) /\ Only(s, kept) \in Seq(S)
    BY OnlyType
  <2>4. Only(w, kept) = Only(s, kept) \o Only(u, kept)
    BY <1>2
  <2> HIDE DEF w
  <2>5. Only(Append(w, x), kept) = IF x \in kept THEN Append(Only(w, kept), x) ELSE Only(w, kept)
    BY <2>1, OnlyAppend
  <2>6. Only(s, kept) \o Append(Only(u, kept), x) = Append(Only(s, kept) \o Only(u, kept), x)
    BY <2>3, AppendConcat
  <2>7. CASE x \in kept
    BY <2>1, <2>2, <2>4, <2>5, <2>6, <2>7
  <2>8. CASE x \notin kept
    BY <2>1, <2>2, <2>4, <2>5, <2>8
  <2> QED BY <2>7, <2>8
<1> HIDE DEF Q
<1>3. <<>> \in G /\ \A w \in Seq(S), x \in S : w \in G => Append(w, x) \in G
  BY <1>1, <1>2
<1> HIDE DEF G
<1>4. \A w \in Seq(S) : w \in G
  BY <1>3, ListInduction
<1> QED BY <1>4 DEF G, Q

LEMMA OnlyWithout ==
  ASSUME NEW S, NEW u \in Seq(S), NEW v \in Seq(S), NEW x \in S, x \notin Range(u), x \notin Range(v)
  PROVE  Only(Append(u, x) \o v, S \ {x}) = u \o v
<1> DEFINE r == Append(u, x)
<1>1. r \in Seq(S)
  OBVIOUS
<1>2. Only(u, S \ {x}) = u /\ Only(v, S \ {x}) = v
  BY RangeOfSeq, OnlyAll
<1>3. Only(r, S \ {x}) = u
  BY <1>2, OnlyAppend
<1> HIDE DEF r
<1>4. Only(r \o v, S \ {x}) = Only(r, S \ {x}) \o Only(v, S \ {x})
  BY <1>1, OnlyConcat
<1>5. Only(r \o v, S \ {x}) = u \o v
  BY <1>2, <1>3, <1>4
<1> QED BY <1>5 DEF r

\* A list around its k-th element.
LEMMA SplitAt ==
  ASSUME NEW S, NEW s \in Seq(S), NEW k \in 1 .. Len(s)
  PROVE  /\ s = Append(SubSeq(s, 1, k - 1), s[k]) \o SubSeq(s, k + 1, Len(s))
         /\ SubSeq(s, 1, k - 1) \in Seq(S) /\ SubSeq(s, k + 1, Len(s)) \in Seq(S)
<1>1. k \in Nat /\ Len(s) \in Nat /\ k - 1 \in Nat
  OBVIOUS
<1>2. SubSeq(s, 1, k - 1) \in Seq(S) /\ SubSeq(s, k + 1, Len(s)) \in Seq(S)
  OBVIOUS
<1>3. SubSeq(s, 1, k) = SubSeq(s, 1, k - 1) \o <<s[k]>>
  <2>1. 1 \in 1 .. Len(s) /\ k \in 1 .. Len(s)
    BY <1>1
  <2> QED BY <2>1, SubSeqRecursiveSecond
<1>4. SubSeq(s, 1, k) \o SubSeq(s, k + 1, Len(s)) = SubSeq(s, 1, Len(s))
  BY <1>1, ConcatAdjacentSubSeq
<1>5. Append(SubSeq(s, 1, k - 1), s[k]) = SubSeq(s, 1, k - 1) \o <<s[k]>>
  <2>1. s[k] \in S
    OBVIOUS
  <2> QED BY <1>2, <2>1, AppendIsConcat
<1> QED BY <1>2, <1>3, <1>4, <1>5, SubSeqFull

\* list.remove(x) and filter(i => i !== x) are the same where nothing is twice.
LEMMA RemoveFirstIsOnly ==
  ASSUME NEW S, NEW s \in Seq(S), NEW x \in S, IsInjective(s)
  PROVE  RemoveFirst(s, x) = Only(s, S \ {x})
<1>1. \A l, r \in Seq(S) :
        s = Append(l, x) \o r /\ x \notin Range(l) /\ x \notin Range(r) => Only(s, S \ {x}) = l \o r
  <2>1. ASSUME NEW l \in Seq(S), NEW r \in Seq(S), x \notin Range(l), x \notin Range(r)
        PROVE  Only(Append(l, x) \o r, S \ {x}) = l \o r
    BY <2>1, OnlyWithout
  <2> QED BY ONLY <2>1
<1>2. CASE x \notin Range(s)
  <2>1. Range(s) \subseteq S \ {x}
    BY <1>2, RangeOfSeq
  <2>2. ~\E i \in 1 .. Len(s) : s[i] = x
    BY <1>2 DEF Range
  <2> QED BY <2>1, <2>2, OnlyAll DEF RemoveFirst
<1>3. CASE x \in Range(s)
  <2>1. PICK k \in 1 .. Len(s) : s[k] = x
    BY <1>3 DEF Range
  <2> DEFINE l == SubSeq(s, 1, k - 1)
             r == SubSeq(s, k + 1, Len(s))
  <2>2. {i \in 1 .. Len(s) : s[i] = x} = {k}
    BY <2>1 DEF IsInjective
  <2>3. RemoveFirst(s, x) = l \o r
    <3>1. SelectInSeq(s, LAMBDA y : y = x) = k
      BY <2>1, <2>2 DEF SelectInSeq, Min
    <3> QED BY <2>1, <3>1 DEF RemoveFirst, RemoveAt
  <2>4. s = Append(l, x) \o r /\ l \in Seq(S) /\ r \in Seq(S)
    BY <2>1, SplitAt
  <2>5. x \notin Range(l) /\ x \notin Range(r)
    <3>1. \A i \in 1 .. Len(s) : s[i] = x => i = k
      BY <2>2
    <3>2. \A i \in DOMAIN l : l[i] # x
      BY <3>1
    <3>3. \A i \in DOMAIN r : r[i] # x
      BY <3>1
    <3> QED BY <3>2, <3>3 DEF Range
  <2> HIDE DEF l, r
  <2>6. Only(s, S \ {x}) = l \o r
    BY <1>1, <2>4, <2>5
  <2> QED BY <2>3, <2>6
<1> QED BY <1>2, <1>3

-----------------------------------------------------------------------------
(* Flattening                                                              *)

\* f flattens the prefixes of ss up to the k-th.
Joins(f, ss, k) == f = [i \in 1 .. k |-> IF i = 1 THEN ss[i] ELSE f[i - 1] \o ss[i]]

LEMMA JoinExtends ==
  ASSUME NEW ss, NEW k \in Nat, NEW f, Joins(f, ss, k)
  PROVE  \E g : Joins(g, ss, k + 1)
<1> DEFINE g == [i \in 1 .. k + 1 |-> IF i <= k THEN f[i] ELSE IF i = 1 THEN ss[i] ELSE f[i - 1] \o ss[i]]
<1>1. \A i \in 1 .. k : f[i] = IF i = 1 THEN ss[i] ELSE f[i - 1] \o ss[i]
  BY DEF Joins
<1>2. \A i \in 1 .. k + 1 : g[i] = IF i = 1 THEN ss[i] ELSE g[i - 1] \o ss[i]
  <2> TAKE i \in 1 .. k + 1
  <2>1. CASE i <= k
    <3>1. i # 1 => i - 1 \in 1 .. k + 1 /\ g[i - 1] = f[i - 1]
      BY <2>1
    <3> QED BY <1>1, <2>1, <3>1
  <2>2. CASE i = k + 1
    <3>1. i # 1 => i - 1 \in 1 .. k + 1 /\ g[i - 1] = f[i - 1]
      BY <2>2
    <3> QED BY <2>2, <3>1
  <2> QED BY <2>1, <2>2
<1>3. g = [i \in 1 .. k + 1 |-> g[i]]
  OBVIOUS
<1> HIDE DEF g
<1>4. Joins(g, ss, k + 1)
  BY <1>2, <1>3 DEF Joins
<1> QED BY <1>4

LEMMA JoinExists ==
  ASSUME NEW ss, NEW k \in Nat
  PROVE  \E f : Joins(f, ss, k)
<1> DEFINE B == {n \in Nat : ~\E f : Joins(f, ss, n)}
<1> SUFFICES ASSUME B # {} PROVE FALSE
  OBVIOUS
<1>1. PICK m \in B : \A n \in B : m <= n
  BY LeastNumber
<1>2. CASE m = 0
  <2>1. Joins([i \in 1 .. 0 |-> <<>>], ss, 0)
    BY DEF Joins
  <2> QED BY <1>2, <2>1
<1>3. CASE m # 0
  <2>1. m - 1 \in Nat /\ m - 1 \notin B
    BY <1>1, <1>3
  <2>2. PICK f : Joins(f, ss, m - 1)
    BY <2>1
  <2>3. \E g : Joins(g, ss, (m - 1) + 1)
    BY <2>1, <2>2, JoinExtends
  <2>4. (m - 1) + 1 = m
    OBVIOUS
  <2> QED BY <2>3, <2>4
<1> QED BY <1>2, <1>3

LEMMA JoinsAgree ==
  ASSUME NEW ss, NEW tt, NEW k \in Nat \ {0}, NEW l \in Nat, k <= l, NEW f, NEW g,
         Joins(f, ss, k), Joins(g, tt, l), \A n \in 1 .. k : ss[n] = tt[n]
  PROVE  f[k] = g[k]
<1> DEFINE B == {n \in 1 .. k : f[n] # g[n]}
<1> SUFFICES ASSUME B # {} PROVE FALSE
  BY k \in 1 .. k
<1>1. \A n \in 1 .. k : /\ f[n] = IF n = 1 THEN ss[n] ELSE f[n - 1] \o ss[n]
                        /\ g[n] = IF n = 1 THEN tt[n] ELSE g[n - 1] \o tt[n]
  <2>1. \A n \in 1 .. k : f[n] = IF n = 1 THEN ss[n] ELSE f[n - 1] \o ss[n]
    BY DEF Joins
  <2>2. \A n \in 1 .. l : g[n] = IF n = 1 THEN tt[n] ELSE g[n - 1] \o tt[n]
    BY DEF Joins
  <2>3. \A n \in 1 .. k : n \in 1 .. l
    OBVIOUS
  <2> QED BY <2>1, <2>2, <2>3
<1>2. PICK m \in B : \A n \in B : m <= n
  <2>1. B \in SUBSET Nat
    OBVIOUS
  <2> HIDE DEF B
  <2> QED BY <2>1, LeastNumber
<1>3. m \in 1 .. k /\ m # 1
  BY <1>1, <1>2
<1>4. m - 1 \in 1 .. k /\ m - 1 \notin B
  BY <1>2, <1>3
<1>5. f[m - 1] = g[m - 1] /\ ss[m] = tt[m]
  BY <1>3, <1>4
<1>6. f[m] = g[m]
  BY <1>1, <1>3, <1>5
<1> QED BY <1>2, <1>6

LEMMA FlattenJoins ==
  ASSUME NEW ss, Len(ss) \in Nat \ {0}
  PROVE  \E f : Joins(f, ss, Len(ss)) /\ FlattenSeq(ss) = f[Len(ss)]
<1> DEFINE f == CHOOSE h : Joins(h, ss, Len(ss))
<1>1. Joins(f, ss, Len(ss))
  BY JoinExists
<1>2. FlattenSeq(ss) = f[Len(ss)]
  BY DEF FlattenSeq, Joins
<1> QED BY <1>1, <1>2

LEMMA FlattenEmpty == FlattenSeq(<<>>) = <<>>
  BY DEF FlattenSeq

LEMMA FlattenStep ==
  ASSUME NEW T, NEW ss \in Seq(T), NEW x \in T
  PROVE  FlattenSeq(Append(ss, x)) = IF ss = <<>> THEN x ELSE FlattenSeq(ss) \o x
<1> DEFINE tt == Append(ss, x)
           k == Len(ss)
<1>1. k \in Nat /\ Len(tt) = k + 1 /\ tt[k + 1] = x /\ \A n \in 1 .. k : ss[n] = tt[n]
  OBVIOUS
<1>2. k = 0 <=> ss = <<>>
  OBVIOUS
<1> HIDE DEF tt, k
<1>3. PICK g : Joins(g, tt, k + 1) /\ FlattenSeq(tt) = g[k + 1]
  <2>1. Len(tt) \in Nat \ {0}
    BY <1>1
  <2>2. \E g : Joins(g, tt, Len(tt)) /\ FlattenSeq(tt) = g[Len(tt)]
    BY <2>1, FlattenJoins
  <2> QED BY <1>1, <2>2
<1>4. CASE k = 0
  <2>1. g[1] = tt[1]
    BY <1>3, <1>4 DEF Joins
  <2>2. FlattenSeq(tt) = x
    BY <1>1, <1>3, <1>4, <2>1
  <2> QED BY <1>2, <1>4, <2>2 DEF tt
<1>5. CASE k # 0
  <2>1. PICK f : Joins(f, ss, k) /\ FlattenSeq(ss) = f[k]
    BY <1>1, <1>5, FlattenJoins DEF k
  <2>2. f[k] = g[k]
    BY <1>1, <1>3, <1>5, <2>1, JoinsAgree
  <2>3. g[k + 1] = g[k] \o tt[k + 1]
    <3>1. k + 1 \in 1 .. k + 1 /\ k + 1 # 1 /\ (k + 1) - 1 = k
      BY <1>1, <1>5
    <3> QED BY <1>3, <3>1 DEF Joins
  <2>4. FlattenSeq(tt) = FlattenSeq(ss) \o x
    BY <1>1, <1>3, <2>1, <2>2, <2>3
  <2> QED BY <1>2, <1>5, <2>4 DEF tt
<1> QED BY <1>4, <1>5

LEMMA FlattenType ==
  ASSUME NEW S, NEW ss \in Seq(Seq(S))
  PROVE  FlattenSeq(ss) \in Seq(S)
<1> DEFINE Q(t) == FlattenSeq(t) \in Seq(S)
           G == {t \in Seq(Seq(S)) : Q(t)}
<1>1. Q(<<>>)
  <2>1. <<>> \in Seq(S)
    OBVIOUS
  <2> QED BY <2>1, FlattenEmpty
<1>2. ASSUME NEW t \in Seq(Seq(S)), NEW x \in Seq(S), Q(t) PROVE Q(Append(t, x))
  <2>1. FlattenSeq(Append(t, x)) = IF t = <<>> THEN x ELSE FlattenSeq(t) \o x
    BY FlattenStep
  <2>2. FlattenSeq(t) \o x \in Seq(S)
    BY <1>2, ConcatProperties
  <2> QED BY <2>1, <2>2
<1> HIDE DEF Q
<1>3. <<>> \in G /\ \A w \in Seq(Seq(S)), x \in Seq(S) : w \in G => Append(w, x) \in G
  BY <1>1, <1>2
<1> HIDE DEF G
<1>4. \A w \in Seq(Seq(S)) : w \in G
  BY <1>3, ListInduction
<1> QED BY <1>4 DEF G, Q

LEMMA FlattenAppend ==
  ASSUME NEW S, NEW ss \in Seq(Seq(S)), NEW x \in Seq(S)
  PROVE  FlattenSeq(Append(ss, x)) = FlattenSeq(ss) \o x
<1>1. FlattenSeq(Append(ss, x)) = IF ss = <<>> THEN x ELSE FlattenSeq(ss) \o x
  BY FlattenStep
<1>2. CASE ss = <<>>
  BY <1>1, <1>2, FlattenEmpty, ConcatEmptySeq
<1>3. CASE ss # <<>>
  BY <1>1, <1>3
<1> QED BY <1>2, <1>3

\* What is in a flattened list is in one of the lists.
LEMMA FlattenRange ==
  ASSUME NEW S, NEW ss \in Seq(Seq(S))
  PROVE  Range(FlattenSeq(ss)) = UNION {Range(r) : r \in Range(ss)}
<1> DEFINE Q(t) == Range(FlattenSeq(t)) = UNION {Range(r) : r \in Range(t)}
           G == {t \in Seq(Seq(S)) : Q(t)}
<1>1. Q(<<>>)
  <2>1. Range(<<>>) = {}
    BY DEF Range
  <2> QED BY <2>1, FlattenEmpty
<1>2. ASSUME NEW t \in Seq(Seq(S)), NEW x \in Seq(S), Q(t) PROVE Q(Append(t, x))
  <2>1. FlattenSeq(Append(t, x)) = FlattenSeq(t) \o x
    BY FlattenAppend
  <2>2. Range(FlattenSeq(t) \o x) = Range(FlattenSeq(t)) \cup Range(x)
    BY FlattenType, RangeConcatenation
  <2>3. Range(Append(t, x)) = Range(t) \cup {x}
    BY RangeAppend
  <2>4. UNION {Range(r) : r \in Range(t) \cup {x}} = (UNION {Range(r) : r \in Range(t)}) \cup Range(x)
    OBVIOUS
  <2> QED BY <1>2, <2>1, <2>2, <2>3, <2>4
<1> HIDE DEF Q
<1>3. <<>> \in G /\ \A w \in Seq(Seq(S)), x \in Seq(S) : w \in G => Append(w, x) \in G
  BY <1>1, <1>2
<1> HIDE DEF G
<1>4. \A w \in Seq(Seq(S)) : w \in G
  BY <1>3, ListInduction
<1> QED BY <1>4 DEF G, Q

LEMMA ConcatInjective ==
  ASSUME NEW S, NEW s \in Seq(S), NEW t \in Seq(S), IsInjective(s), IsInjective(t),
         Range(s) \cap Range(t) = {}
  PROVE  IsInjective(s \o t)
<1> DEFINE u == s \o t
<1>1. /\ Len(s) \in Nat /\ Len(t) \in Nat /\ DOMAIN u = 1 .. Len(s) + Len(t)
      /\ DOMAIN s = 1 .. Len(s) /\ DOMAIN t = 1 .. Len(t)
  OBVIOUS
<1>2. \A i \in 1 .. Len(s) + Len(t) : u[i] = IF i <= Len(s) THEN s[i] ELSE t[i - Len(s)]
  BY ConcatProperties
<1> HIDE DEF u
<1>3. \A i \in DOMAIN s, j \in DOMAIN t : s[i] # t[j]
  BY DEF Range
<1>4. ASSUME NEW i \in DOMAIN u, NEW j \in DOMAIN u, u[i] = u[j] PROVE i = j
  <2>1. CASE i <= Len(s) /\ j <= Len(s)
    BY <1>1, <1>2, <1>4, <2>1 DEF IsInjective
  <2>2. CASE i > Len(s) /\ j > Len(s)
    <3>1. i - Len(s) \in DOMAIN t /\ j - Len(s) \in DOMAIN t /\ t[i - Len(s)] = t[j - Len(s)]
      BY <1>1, <1>2, <1>4, <2>2
    <3>2. i - Len(s) = j - Len(s)
      BY <3>1 DEF IsInjective
    <3> QED BY <1>1, <3>2
  <2>3. CASE i <= Len(s) /\ j > Len(s)
    <3>1. i \in DOMAIN s /\ j - Len(s) \in DOMAIN t /\ u[i] = s[i] /\ u[j] = t[j - Len(s)]
      BY <1>1, <1>2, <2>3
    <3> QED BY <1>3, <1>4, <3>1
  <2>4. CASE i > Len(s) /\ j <= Len(s)
    <3>1. j \in DOMAIN s /\ i - Len(s) \in DOMAIN t /\ u[j] = s[j] /\ u[i] = t[i - Len(s)]
      BY <1>1, <1>2, <2>4
    <3> QED BY <1>3, <1>4, <3>1
  <2> QED BY <1>1, <2>1, <2>2, <2>3, <2>4
<1>5. IsInjective(u)
  BY <1>4 DEF IsInjective
<1> QED BY <1>5 DEF u

\* Lists that have nothing twice, and nothing in common, have nothing twice
\* together.
LEMMA FlattenInjective ==
  ASSUME NEW S, NEW ss \in Seq(Seq(S)), \A n \in DOMAIN ss : IsInjective(ss[n]),
         \A m, n \in DOMAIN ss : m # n => Range(ss[m]) \cap Range(ss[n]) = {}
  PROVE  IsInjective(FlattenSeq(ss))
<1> DEFINE P(t) == /\ \A n \in DOMAIN t : IsInjective(t[n])
                   /\ \A m, n \in DOMAIN t : m # n => Range(t[m]) \cap Range(t[n]) = {}
           Q(t) == P(t) => IsInjective(FlattenSeq(t))
           G == {t \in Seq(Seq(S)) : Q(t)}
<1>1. Q(<<>>)
  BY FlattenEmpty DEF IsInjective
<1>2. ASSUME NEW t \in Seq(Seq(S)), NEW x \in Seq(S), Q(t), P(Append(t, x))
      PROVE  IsInjective(FlattenSeq(Append(t, x)))
  <2> DEFINE u == Append(t, x)
             k == Len(t)
  <2>1. k \in Nat /\ DOMAIN t = 1 .. k /\ DOMAIN u = 1 .. k + 1 /\ u[k + 1] = x /\ \A n \in 1 .. k : u[n] = t[n]
    OBVIOUS
  <2>2. FlattenSeq(u) = FlattenSeq(t) \o x
    BY FlattenAppend
  <2>3. FlattenSeq(t) \in Seq(S) /\ Range(FlattenSeq(t)) = UNION {Range(r) : r \in Range(t)}
    BY FlattenType, FlattenRange
  <2>4. P(u)
    BY <1>2
  <2> HIDE DEF u, k
  <2>5. P(t) /\ IsInjective(x)
    <3>1. k + 1 \in DOMAIN u /\ \A n \in DOMAIN t : n \in DOMAIN u /\ u[n] = t[n]
      BY <2>1
    <3>2. IsInjective(x) /\ \A n \in DOMAIN t : IsInjective(t[n])
      BY <2>1, <2>4, <3>1
    <3>3. ASSUME NEW m \in DOMAIN t, NEW n \in DOMAIN t, m # n PROVE Range(t[m]) \cap Range(t[n]) = {}
      BY <2>4, <3>1, <3>3
    <3> QED BY <3>2, <3>3
  <2>6. Range(FlattenSeq(t)) \cap Range(x) = {}
    <3>1. ASSUME NEW n \in DOMAIN t PROVE Range(t[n]) \cap Range(x) = {}
      <4>1. n \in DOMAIN u /\ k + 1 \in DOMAIN u /\ n # k + 1 /\ u[n] = t[n]
        BY <2>1
      <4> QED BY <2>1, <2>4, <4>1
    <3>2. \A r \in Range(t) : \E n \in DOMAIN t : r = t[n]
      BY DEF Range
    <3> QED BY <2>3, <3>1, <3>2
  <2>7. IsInjective(FlattenSeq(t) \o x)
    BY <1>2, <2>3, <2>5, <2>6, ConcatInjective
  <2> QED BY <2>2, <2>7 DEF u
<1>3. ASSUME NEW t \in Seq(Seq(S)), NEW x \in Seq(S), Q(t) PROVE Q(Append(t, x))
  BY <1>2, <1>3
<1>4. P(ss)
  OBVIOUS
<1> HIDE DEF Q
<1>5. <<>> \in G /\ \A w \in Seq(Seq(S)), x \in Seq(S) : w \in G => Append(w, x) \in G
  BY <1>1, <1>3
<1> HIDE DEF G
<1>6. \A w \in Seq(Seq(S)) : w \in G
  BY <1>5, ListInduction
<1> HIDE DEF P
<1> QED BY <1>4, <1>6 DEF G, Q
===============================================================================
