----------------------------- MODULE RouterProofs ----------------------------
(***************************************************************************)
(* Router, for any routes, any number of them and any URLs: the tree that  *)
(* RouterBuild makes is the one that forward relies on, between any two    *)
(* steps of its building, and forward never leaves it.                     *)
(*                                                                         *)
(* What is to be proved says nothing of the node that insertChild is       *)
(* working on, nor of what is left of the route.  The invariant has to: an *)
(* edge that is still to come is written down in the indices of its parent *)
(* before it is there (Joined), insert always is at a node that the path   *)
(* shares a character with (Joins), and every colon left in the path has   *)
(* its parameter in the queue and a slash behind it (Suffices).            *)
(***************************************************************************)
EXTENDS Router, Integers, FiniteSetTheorems, WellFoundedInduction,
        SequenceTheorems, TLAPS

(***************************************************************************)
(* Sequences and sets.                                                     *)
(***************************************************************************)

\* A route and an edge are made of letters, slashes, and colons for wildcards.
Chars == Letters \cup {"/", ":"}

\* A RawNode.  Pointers are indices, and 0 is the null pointer.
NodeSet ==
    [path : Seq(Chars), indices : Seq(Chars), children : Seq(Nat \ {0}), handle : Nat,
     type : {"ROOT", "STATIC", "PARAM", "CATCH_ALL", "UNKNOWN"},
     re : {"none", "any", "b"}, name : Names \cup {""}, wild : BOOLEAN]

\* A text has a first character, and it is c.
Begins(p, c) == p # <<>> /\ p[1] = c

\* A set of numbers that is not empty has a least one: what stands for
\* induction in these proofs, as the least counterexample.
LEMMA LeastNumber ==
    ASSUME NEW T \in SUBSET Nat, T # {}
    PROVE  \E n \in T : \A m \in T : n <= m
<1>1. IsWellFoundedOn(OpToRel(<, Nat), Nat)
  BY NatLessThanWellFounded
<1>2. PICK n \in T : \A m \in T : ~(<<m, n>> \in OpToRel(<, Nat))
  BY <1>1, WFMin
<1>3. ASSUME NEW m \in T PROVE n <= m
  <2>1. n \in Nat /\ m \in Nat
    OBVIOUS
  <2>2. ~(m < n)
    BY <1>2, <2>1 DEF OpToRel
  <2> QED BY <2>1, <2>2
<1> QED BY <1>3

\* Min is the least number of a set (FiniteSetsExt).
LEMMA SelectsFirst ==
    ASSUME NEW I \in SUBSET Nat, I # {}
    PROVE  Min(I) \in I /\ \A i \in I : Min(I) <= i
<1>1. PICK n \in I : \A m \in I : n <= m
  BY LeastNumber
<1> QED BY <1>1 DEF Min

\* What is left of a text from character i on.
LEMMA FromIs ==
    ASSUME NEW S, NEW s \in Seq(S), NEW i \in 1..(Len(s) + 1)
    PROVE  /\ From(s, i) \in Seq(S)
           /\ Len(From(s, i)) = Len(s) - i + 1
           /\ \A j \in 1..(Len(s) - i + 1) : From(s, i)[j] = s[i + j - 1]
<1>1. Len(s) \in Nat /\ \A j \in i..Len(s) : s[j] \in S
  OBVIOUS
<1>2. /\ SubSeq(s, i, Len(s)) \in Seq(S)
      /\ Len(SubSeq(s, i, Len(s))) = IF i <= Len(s) THEN Len(s) - i + 1 ELSE 0
      /\ \A j \in 1..(Len(s) - i + 1) : SubSeq(s, i, Len(s))[j] = s[i + j - 1]
  BY <1>1, SubSeqProperties
<1> QED BY <1>1, <1>2 DEF From

\* The first i characters of a text.
LEMMA UpToIs ==
    ASSUME NEW S, NEW s \in Seq(S), NEW i \in 0..Len(s)
    PROVE  /\ SubSeq(s, 1, i) \in Seq(S)
           /\ Len(SubSeq(s, 1, i)) = i
           /\ \A j \in 1..i : SubSeq(s, 1, i)[j] = s[j]
<1>1. Len(s) \in Nat /\ \A j \in 1..i : s[j] \in S
  OBVIOUS
<1>2. /\ SubSeq(s, 1, i) \in Seq(S)
      /\ Len(SubSeq(s, 1, i)) = IF 1 <= i THEN i - 1 + 1 ELSE 0
      /\ \A j \in 1..(i - 1 + 1) : SubSeq(s, 1, i)[j] = s[1 + j - 1]
  BY <1>1, SubSeqProperties
<1> QED BY <1>1, <1>2

\* A text of one character.
LEMMA OneIs == ASSUME NEW S, NEW x \in S PROVE <<x>> \in Seq(S) /\ Len(<<x>>) = 1 /\ <<x>>[1] = x
OBVIOUS

\* Two texts, one after the other.
LEMMA ConcatIs ==
  ASSUME NEW S, NEW s \in Seq(S), NEW t \in Seq(S)
  PROVE  /\ s \o t \in Seq(S) /\ Len(s \o t) = Len(s) + Len(t)
         /\ Len(s) \in Nat /\ Len(t) \in Nat
         /\ \A j \in 1..Len(s) : (s \o t)[j] = s[j]
         /\ \A j \in 1..Len(t) : (s \o t)[Len(s) + j] = t[j]
<1>1. Len(s) \in Nat /\ Len(t) \in Nat OBVIOUS
<1>2. /\ s \o t \in Seq(S) /\ Len(s \o t) = Len(s) + Len(t)
   /\ \A i \in 1 .. Len(s) + Len(t) : (s \o t)[i] =
                     IF i <= Len(s) THEN s[i] ELSE t[i - Len(s)]
  BY ConcatProperties
<1>3. ASSUME NEW j \in 1..Len(t) PROVE (s \o t)[Len(s) + j] = t[j]
  <2>1. Len(s) + j \in 1 .. Len(s) + Len(t) /\ ~(Len(s) + j <= Len(s)) /\ (Len(s) + j) - Len(s) = j
    BY <1>1
  <2> QED BY <1>2, <2>1
<1>4. ASSUME NEW j \in 1..Len(s) PROVE (s \o t)[j] = s[j]
  BY <1>2, <1>1
<1> QED BY <1>1, <1>2, <1>3, <1>4

\* No text at all.
LEMMA EmptyIs == ASSUME NEW S PROVE <<>> \in Seq(S) /\ Len(<<>>) = 0
OBVIOUS

\* One more at the end of a sequence.
LEMMA AppendIs ==
    ASSUME NEW S, NEW s \in Seq(S), NEW e \in S
    PROVE  /\ Append(s, e) \in Seq(S) /\ Len(Append(s, e)) = Len(s) + 1
           /\ Len(s) \in Nat
           /\ DOMAIN Append(s, e) = 1..(Len(s) + 1) /\ DOMAIN s = 1..Len(s)
           /\ \A i \in 1..Len(s) : Append(s, e)[i] = s[i]
           /\ Append(s, e)[Len(s) + 1] = e
<1>1. /\ Append(s, e) \in Seq(S) /\ Len(Append(s, e)) = Len(s) + 1
      /\ \A i \in 1..Len(s) : Append(s, e)[i] = s[i]
      /\ Append(s, e)[Len(s) + 1] = e
  BY AppendProperties
<1> QED BY <1>1, LenProperties

\* A tree in which one node has changed.
LEMMA ExceptIs ==
    ASSUME NEW S, NEW s \in Seq(S), NEW i \in DOMAIN s, NEW e \in S
    PROVE  /\ [s EXCEPT ![i] = e] \in Seq(S) /\ Len([s EXCEPT ![i] = e]) = Len(s)
           /\ DOMAIN [s EXCEPT ![i] = e] = DOMAIN s
           /\ [s EXCEPT ![i] = e][i] = e
           /\ \A j \in DOMAIN s : j # i => [s EXCEPT ![i] = e][j] = s[j]
<1>1. i \in 1..Len(s) /\ DOMAIN s = 1..Len(s)
  BY LenProperties
<1>2. /\ [s EXCEPT ![i] = e] \in Seq(S)
      /\ Len([s EXCEPT ![i] = e]) = Len(s)
      /\ \A j \in 1 .. Len(s) : [s EXCEPT ![i] = e][j] = IF j=i THEN e ELSE s[j]
  BY <1>1, ExceptSeq
<1> QED BY <1>1, <1>2

(***************************************************************************)
(* The parser: what it makes of the segments of a route.                   *)
(***************************************************************************)

\* Where the wildcards of a path are.
Colons(p) == {i \in 1..Len(p) : p[i] = ":"}

\* A wildcard is the end of its segment: a slash comes next.
Slashed(p) == \A i \in 1..(Len(p) - 1) : p[i] = ":" => p[i + 1] = "/"

\* What the parser has made of the segments it has read.
Parses(p, i) ==
    /\ p.calced \in Seq(Chars) /\ p.params \in Seq(Segments)
    /\ IF i = 0 THEN p.calced = <<>> ELSE Begins(p.calced, "/")
    /\ Slashed(p.calced)
    /\ IsFiniteSet(Colons(p.calced))
    /\ Cardinality(Colons(p.calced)) <= Len(p.params)

\* Parsed is the function that its recursion describes, for any number of
\* segments: a shortest list of which it were not true has no last segment.
LEMMA ParsedIs ==
    ASSUME NEW segments \in Seq(Segments)
    PROVE  Parsed(segments) =
             [i \in 0..Len(segments) |->
                IF i = 0 THEN [calced |-> <<>>, params |-> <<>>]
                         ELSE WithSegment(Parsed(segments)[i - 1], segments[i])]
<1> DEFINE Step(g, i) == IF i = 0 THEN [calced |-> <<>>, params |-> <<>>]
                                  ELSE WithSegment(g[i - 1], segments[i])
           T == {m \in Nat : ~ \E g : g = [i \in 0..m |-> Step(g, i)]}
<1>1. T = {}
  <2> SUFFICES ASSUME T # {} PROVE FALSE
    OBVIOUS
  <2>1. PICK m \in T : \A k \in T : m <= k
    BY LeastNumber
  <2>2. m # 0
    <3> SUFFICES ASSUME m = 0 PROVE \E g : g = [i \in 0..0 |-> Step(g, i)]
      BY <2>1
    <3> DEFINE g == [i \in 0..0 |-> [calced |-> <<>>, params |-> <<>>]]
    <3>1. g = [i \in 0..0 |-> Step(g, i)]
      OBVIOUS
    <3> HIDE DEF g
    <3> WITNESS g
    <3> QED BY <3>1
  <2>3. m - 1 \in Nat /\ m - 1 \notin T
    <3>1. m \in Nat
      OBVIOUS
    <3> HIDE DEF T
    <3> QED BY <2>1, <2>2, <3>1
  <2>4. PICK g : g = [i \in 0..(m - 1) |-> Step(g, i)]
    BY <2>3
  <2> DEFINE h == [i \in 0..m |-> Step(g, i)]
  <2>5. ASSUME NEW i \in 0..m PROVE Step(h, i) = Step(g, i)
    <3>1. CASE i = 0
      BY <3>1
    <3>2. CASE i # 0
      <4>1. i - 1 \in 0..(m - 1) /\ i - 1 \in 0..m
        BY <3>2
      <4>2. h[i - 1] = Step(g, i - 1)
        BY <4>1
      <4>3. g[i - 1] = Step(g, i - 1)
        BY <4>1, <2>4
      <4> QED BY <4>2, <4>3
    <3> QED BY <3>1, <3>2
  <2>6. h = [i \in 0..m |-> Step(h, i)]
    BY <2>5
  <2> QED BY <2>6, <2>1
<1>2. Len(segments) \in Nat
  OBVIOUS
<1>3. PICK g : g = [i \in 0..Len(segments) |-> Step(g, i)]
  BY <1>1, <1>2
<1>4. Parsed(segments) = CHOOSE h : h = [i \in 0..Len(segments) |-> Step(h, i)]
  BY DEF Parsed
<1> HIDE DEF Step
<1>5. Parsed(segments) = [i \in 0..Len(segments) |-> Step(Parsed(segments), i)]
  BY <1>3, <1>4
<1> QED BY <1>5 DEF Step

\* A path has a number of wildcards.
LEMMA ColonsFinite ==
    ASSUME NEW S, NEW p \in Seq(S)
    PROVE  IsFiniteSet(Colons(p)) /\ Cardinality(Colons(p)) \in Nat
<1>1. Len(p) \in Nat
  OBVIOUS
<1>2. IsFiniteSet(1..Len(p))
  BY <1>1, FS_Interval
<1>3. Colons(p) \in SUBSET (1..Len(p))
  BY DEF Colons
<1>4. IsFiniteSet(Colons(p))
  BY <1>2, <1>3, FS_Subset
<1> QED BY <1>4, FS_CardinalityType

\* One segment more leaves the parser with a slash first, a slash after every
\* wildcard, and a parameter for every wildcard (router.cc:338-450).
LEMMA ParseStep ==
    ASSUME NEW p, NEW i \in Nat, Parses(p, i), NEW s \in Segments
    PROVE  Parses(WithSegment(p, s), i + 1)
<1> DEFINE c == p.calced
           t == s.text
           tail == IF s.kind = "STATIC" THEN <<>> ELSE <<":">>
           b == c \o <<"/">>
           d == b \o t
           e == d \o tail
           q == WithSegment(p, s)
<1>1. /\ c \in Seq(Chars) /\ Len(c) \in Nat /\ t \in Seq(Chars)
      /\ \A j \in 1..Len(t) : t[j] # ":"
  <2>1. t \in Seq(Letters) /\ Letters \subseteq Chars
    BY DEF Segments, Chars
  <2>2. t \in Seq(Chars)
    BY <2>1, SeqMonotonic
  <2>3. ":" \notin Letters
    BY RoutesAssumption
  <2>4. \A j \in 1..Len(t) : t[j] \in Letters
    BY <2>1
  <2> QED BY <2>2, <2>3, <2>4 DEF Parses
<1>2. /\ tail \in Seq(Chars)
      /\ IF s.kind = "STATIC" THEN Len(tail) = 0 ELSE Len(tail) = 1 /\ tail[1] = ":"
  <2>1. ":" \in Chars
    BY DEF Chars
  <2>2. <<":">> \in Seq(Chars) /\ Len(<<":">>) = 1 /\ <<":">>[1] = ":"
    BY <2>1, OneIs
  <2> QED BY <2>2, EmptyIs
<1>3. q.calced = e /\ q.params = IF s.kind = "STATIC" THEN p.params ELSE Append(p.params, s)
  BY DEF WithSegment
<1> HIDE DEF c, t, tail, q
<1>4. /\ b \in Seq(Chars) /\ Len(b) = Len(c) + 1 /\ b[Len(c) + 1] = "/"
      /\ \A j \in 1..Len(c) : b[j] = c[j]
  <2>1. "/" \in Chars
    BY DEF Chars
  <2>2. <<"/">> \in Seq(Chars) /\ Len(<<"/">>) = 1 /\ <<"/">>[1] = "/"
    BY <2>1, OneIs
  <2> QED BY <1>1, <2>2, ConcatIs
<1> HIDE DEF b
<1>5. /\ d \in Seq(Chars) /\ Len(d) = Len(b) + Len(t) /\ Len(t) \in Nat
      /\ \A j \in 1..Len(b) : d[j] = b[j]
      /\ \A j \in 1..Len(t) : d[Len(b) + j] = t[j]
  <2>1. b \in Seq(Chars) /\ t \in Seq(Chars)
    BY <1>1, <1>4
  <2> QED BY <2>1, ConcatIs
<1> HIDE DEF d
<1>6. /\ e \in Seq(Chars) /\ Len(e) = Len(d) + Len(tail)
      /\ \A j \in 1..Len(d) : e[j] = d[j]
      /\ \A j \in 1..Len(tail) : e[Len(d) + j] = tail[j]
  BY <1>2, <1>5, ConcatIs
<1> HIDE DEF e
<1>7. /\ \A j \in 1..Len(c) : e[j] = c[j]
      /\ e[Len(c) + 1] = "/"
      /\ \A j \in (Len(c) + 2)..Len(d) : e[j] # ":"
  <2>1. ASSUME NEW j \in (Len(c) + 2)..Len(d) PROVE e[j] # ":"
    <3> DEFINE k == j - Len(b)
    <3>1. k \in 1..Len(t) /\ j = Len(b) + k /\ j \in 1..Len(d)
      BY <1>1, <1>4, <1>5
    <3> HIDE DEF k
    <3> QED BY <3>1, <1>1, <1>5, <1>6
  <2>2. Len(c) + 1 \in 1..Len(b) /\ Len(c) + 1 \in 1..Len(d)
    BY <1>1, <1>4, <1>5
  <2>3. e[Len(c) + 1] = "/"
    BY <1>4, <1>5, <1>6, <2>2
  <2>4. ASSUME NEW j \in 1..Len(c) PROVE e[j] = c[j]
    <3>1. j \in 1..Len(b) /\ j \in 1..Len(d)
      BY <1>1, <1>4, <1>5
    <3> QED BY <3>1, <1>4, <1>5, <1>6
  <2> QED BY <2>1, <2>3, <2>4
<1>8. /\ Len(d) \in Nat /\ Len(d) > Len(c)
      /\ IF s.kind = "STATIC" THEN Len(e) = Len(d)
                              ELSE Len(e) = Len(d) + 1 /\ e[Len(d) + 1] = ":"
  <2>1. Len(d) \in Nat /\ Len(d) > Len(c)
    BY <1>1, <1>4, <1>5
  <2>2. CASE s.kind = "STATIC"
    BY <2>1, <2>2, <1>2, <1>6
  <2>3. CASE s.kind # "STATIC"
    <3>1. Len(tail) = 1 /\ tail[1] = ":"
      BY <2>3, <1>2
    <3>2. 1 \in 1..Len(tail)
      BY <3>1
    <3> QED BY <2>1, <2>3, <3>1, <3>2, <1>6
  <2> QED BY <2>1, <2>2, <2>3
<1>9. Begins(e, "/")
  <2>1. CASE i = 0
    <3>1. Len(c) = 0
      BY <2>1, EmptyIs DEF Parses, c
    <3> QED BY <3>1, <1>6, <1>7, <1>8, EmptyIs DEF Begins
  <2>2. CASE i # 0
    <3>1. c # <<>> /\ c[1] = "/"
      BY <2>2 DEF Parses, Begins, c
    <3>2. 1 \in 1..Len(c)
      BY <3>1, <1>1
    <3> QED BY <3>1, <3>2, <1>6, <1>7, <1>8, EmptyIs DEF Begins
  <2> QED BY <2>1, <2>2
<1>10. Slashed(e)
  <2> SUFFICES ASSUME NEW j \in 1..(Len(e) - 1), e[j] = ":" PROVE e[j + 1] = "/"
    BY DEF Slashed
  <2>1. j \in 1..Len(d)
    BY <1>8
  <2>2. j \in 1..Len(c) /\ c[j] = ":"
    BY <2>1, <1>1, <1>7
  <2>3. CASE j = Len(c)
    BY <2>3, <1>7
  <2>4. CASE j # Len(c)
    <3>1. j \in 1..(Len(c) - 1) /\ j + 1 \in 1..Len(c)
      BY <2>2, <2>4, <1>1
    <3>2. c[j + 1] = "/"
      BY <3>1, <2>2 DEF Parses, Slashed, c
    <3> QED BY <3>1, <3>2, <1>7
  <2> QED BY <2>3, <2>4
<1>11. Cardinality(Colons(e)) <= Len(q.params)
  <2>1. IsFiniteSet(Colons(c)) /\ Cardinality(Colons(c)) \in Nat
        /\ Cardinality(Colons(c)) <= Len(p.params) /\ Len(p.params) \in Nat
    BY <1>1, ColonsFinite DEF Parses, c
  <2>2. \A j \in 1..Len(d) : e[j] = ":" <=> j \in Colons(c)
    BY <1>1, <1>7 DEF Colons
  <2>3. Colons(c) \subseteq 1..Len(d)
    BY <1>1, <1>8 DEF Colons
  <2>4. CASE s.kind = "STATIC"
    <3>1. Colons(e) = Colons(c)
      BY <2>2, <2>3, <2>4, <1>8 DEF Colons
    <3> QED BY <3>1, <2>1, <2>4, <1>3
  <2>5. CASE s.kind # "STATIC"
    <3>1. \A j \in 1..Len(e) : j \in 1..Len(d) \/ j = Len(d) + 1
      BY <2>5, <1>8
    <3>2. Len(d) + 1 \in 1..Len(e) /\ e[Len(d) + 1] = ":" /\ 1..Len(d) \subseteq 1..Len(e)
      BY <2>5, <1>8
    <3>3. Colons(e) = Colons(c) \cup {Len(d) + 1}
      BY <2>2, <2>3, <3>1, <3>2 DEF Colons
    <3>4. Cardinality(Colons(c) \cup {Len(d) + 1})
             = IF Len(d) + 1 \in Colons(c) THEN Cardinality(Colons(c)) ELSE Cardinality(Colons(c)) + 1
      BY <2>1, FS_AddElement
    <3>5. Len(q.params) = Len(p.params) + 1
      BY <1>3, <2>5 DEF Parses
    <3> QED BY <3>3, <3>4, <3>5, <2>1
  <2> QED BY <2>4, <2>5
<1>12. q.params \in Seq(Segments)
  BY <1>3 DEF Parses
<1>13. IsFiniteSet(Colons(e))
  BY <1>6, ColonsFinite
<1>14. i + 1 # 0
  OBVIOUS
<1> QED BY <1>3, <1>6, <1>9, <1>10, <1>11, <1>12, <1>13, <1>14 DEF Parses, q

\* So does every list of segments: the least one that did not would be one
\* segment longer than one that did.
LEMMA ParsedParses ==
    ASSUME NEW segments \in Seq(Segments)
    PROVE  Parses(Parsed(segments)[Len(segments)], Len(segments))
<1> DEFINE f == Parsed(segments)
           T == {i \in Nat : i <= Len(segments) /\ ~Parses(f[i], i)}
<1>1. Len(segments) \in Nat
  OBVIOUS
<1>2. f = [i \in 0..Len(segments) |->
             IF i = 0 THEN [calced |-> <<>>, params |-> <<>>]
                      ELSE WithSegment(f[i - 1], segments[i])]
  BY ParsedIs
<1> HIDE DEF f
<1>3. T = {}
  <2> SUFFICES ASSUME T # {} PROVE FALSE
    OBVIOUS
  <2>1. PICK m \in T : \A k \in T : m <= k
    BY LeastNumber
  <2>2. m \in 0..Len(segments) /\ ~Parses(f[m], m)
    BY <1>1
  <2>3. CASE m = 0
    <3>1. f[m] = [calced |-> <<>>, params |-> <<>>]
      BY <1>2, <2>2, <2>3
    <3>2. Colons(<<>>) = {} /\ Slashed(<<>>)
      BY DEF Colons, Slashed
    <3>3. IsFiniteSet({}) /\ Cardinality({}) = 0
      BY FS_EmptySet
    <3>4. f[m].calced = <<>> /\ f[m].params = <<>>
      BY <3>1
    <3>5. Len(<<>>) = 0
      OBVIOUS
    <3>8. Cardinality(Colons(<<>>)) <= Len(<<>>) /\ IsFiniteSet(Colons(<<>>))
      <4>1. Cardinality(Colons(<<>>)) = 0 /\ IsFiniteSet(Colons(<<>>))
        BY <3>2, <3>3, Zenon
      <4> QED BY <4>1, <3>5
    <3>6. <<>> \in Seq(Chars) /\ <<>> \in Seq(Segments)
      OBVIOUS
    <3>7. Parses(f[m], m)
      BY <2>3, <3>2, <3>4, <3>8, <3>6 DEF Parses
    <3> QED BY <2>2, <3>7
  <2>4. CASE m # 0
    <3>1. m - 1 \in Nat /\ m - 1 <= Len(segments) /\ m \in 1..Len(segments) /\ (m - 1) + 1 = m
      BY <2>2, <2>4, <1>1
    <3>2. Parses(f[m - 1], m - 1)
      BY <3>1, <2>1
    <3>3. f[m] = WithSegment(f[m - 1], segments[m])
      BY <1>2, <2>2, <2>4
    <3>4. segments[m] \in Segments
      BY <3>1
    <3>5. Parses(WithSegment(f[m - 1], segments[m]), (m - 1) + 1)
      BY <3>1, <3>2, <3>4, ParseStep
    <3> QED BY <3>1, <3>3, <3>5, <2>2
  <2> QED BY <2>3, <2>4
<1> QED BY <1>1, <1>3 DEF f

\* What RawTree::insert is given for a route (router.cc:454-463).
LEMMA CalcedIs ==
    ASSUME NEW route \in Routes
    PROVE  /\ Calced(route) \in Seq(Chars) /\ Begins(Calced(route), "/")
           /\ Slashed(Calced(route))
           /\ Wildcards(route) \in Seq(Segments)
           /\ Cardinality(Colons(Calced(route))) <= Len(Wildcards(route))
<1> DEFINE k == Len(route.segments)
           p == Parsed(route.segments)[k]
           c == p.calced
           tail == IF route.slash THEN <<"/">> ELSE <<>>
           e == c \o tail
<1>1. route.segments \in Seq(Segments) /\ route.slash \in BOOLEAN
      /\ (route.segments # <<>> \/ route.slash)
  BY RoutesAssumption
<1>2. Parses(p, k)
  BY <1>1, ParsedParses
<1>3. Calced(route) = e /\ Wildcards(route) = p.params
  BY DEF Calced, Wildcards
<1> HIDE DEF p
<1>4. /\ c \in Seq(Chars) /\ tail \in Seq(Chars) /\ Len(c) \in Nat
      /\ IF route.slash THEN Len(tail) = 1 /\ tail[1] = "/" ELSE Len(tail) = 0
  <2>1. "/" \in Chars
    BY DEF Chars
  <2>2. <<"/">> \in Seq(Chars) /\ Len(<<"/">>) = 1 /\ <<"/">>[1] = "/"
    BY <2>1, OneIs
  <2> QED BY <1>2, <2>2, EmptyIs DEF Parses
<1> HIDE DEF tail
<1>5. /\ e \in Seq(Chars) /\ Len(e) = Len(c) + Len(tail)
      /\ \A j \in 1..Len(c) : e[j] = c[j]
      /\ \A j \in 1..Len(tail) : e[Len(c) + j] = tail[j]
  BY <1>4, ConcatIs
<1> HIDE DEF e
<1>6. Begins(e, "/")
  <2>1. CASE k = 0
    <3>1. route.slash /\ Len(c) = 0
      BY <2>1, <1>1, <1>2 DEF Parses
    <3> QED BY <3>1, <1>4, <1>5 DEF Begins
  <2>2. CASE k # 0
    <3>1. c # <<>> /\ c[1] = "/"
      BY <2>2, <1>2 DEF Parses, Begins
    <3>2. Len(c) > 0
      BY <3>1, <1>4
    <3> QED BY <3>1, <3>2, <1>4, <1>5 DEF Begins
  <2> QED BY <2>1, <2>2
<1>7. Slashed(e)
  <2> SUFFICES ASSUME NEW j \in 1..(Len(e) - 1), e[j] = ":" PROVE e[j + 1] = "/"
    BY DEF Slashed
  <2>1. j \in 1..Len(c) /\ c[j] = ":"
    <3>1. Len(e) <= Len(c) + 1 /\ Len(c) \in Nat /\ Len(e) \in Nat
      <4>1. Len(tail) \in {0, 1}
        BY <1>4
      <4> QED BY <1>4, <1>5, <4>1, SMTT(40)
    <3>2. j \in 1..Len(c)
      BY <3>1
    <3> QED BY <3>2, <1>5
  <2>2. CASE j = Len(c)
    BY <2>2, <1>4, <1>5
  <2>3. CASE j # Len(c)
    <3>1. j \in 1..(Len(c) - 1) /\ j + 1 \in 1..Len(c)
      BY <2>1, <2>3, <1>4
    <3>2. c[j + 1] = "/"
      BY <3>1, <2>1, <1>2 DEF Parses, Slashed
    <3> QED BY <3>1, <3>2, <1>5
  <2> QED BY <2>2, <2>3
<1>8. Colons(e) = Colons(c)
  <2>1. \A j \in 1..Len(e) : j \notin 1..Len(c) => e[j] = "/"
    BY <1>4, <1>5, SMTT(40)
  <2>2. 1..Len(c) \subseteq 1..Len(e)
    BY <1>4, <1>5
  <2> QED BY <2>1, <2>2, <1>5 DEF Colons
<1> QED BY <1>2, <1>3, <1>5, <1>6, <1>7, <1>8 DEF Parses

\* What is left of a path has a wildcard less for every one passed.
LEMMA SuffixIs ==
    ASSUME NEW p \in Seq(Chars), NEW i \in 1..(Len(p) + 1), Slashed(p)
    PROVE  /\ From(p, i) \in Seq(Chars) /\ Len(From(p, i)) = Len(p) - i + 1
           /\ \A j \in 1..Len(From(p, i)) : From(p, i)[j] = p[i + j - 1]
           /\ Slashed(From(p, i))
           /\ Cardinality(Colons(From(p, i))) <= Cardinality(Colons(p))
           /\ \A k \in 1..(i - 1) : p[k] = ":" =>
                 Cardinality(Colons(From(p, i))) + 1 <= Cardinality(Colons(p))
<1> DEFINE s == From(p, i)
           f == [j \in Colons(s) |-> i + j - 1]
<1>1. /\ s \in Seq(Chars) /\ Len(s) = Len(p) - i + 1 /\ Len(p) \in Nat
      /\ \A j \in 1..Len(s) : s[j] = p[i + j - 1]
  <2>1. Len(p) \in Nat
    OBVIOUS
  <2>2. /\ s \in Seq(Chars) /\ Len(s) = Len(p) - i + 1
        /\ \A j \in 1..(Len(p) - i + 1) : s[j] = p[i + j - 1]
    BY FromIs
  <2> QED BY <2>1, <2>2
<1> HIDE DEF s
<1>2. Slashed(s)
  <2> SUFFICES ASSUME NEW j \in 1..(Len(s) - 1), s[j] = ":" PROVE s[j + 1] = "/"
    BY DEF Slashed
  <2>1. /\ j \in 1..Len(s) /\ j + 1 \in 1..Len(s) /\ i + j - 1 \in 1..(Len(p) - 1)
        /\ i + (j + 1) - 1 = (i + j - 1) + 1
    BY <1>1
  <2>2. p[i + j - 1] = ":"
    BY <1>1, <2>1
  <2>3. p[(i + j - 1) + 1] = "/"
    BY <2>1, <2>2 DEF Slashed
  <2> QED BY <1>1, <2>1, <2>3
<1>3. /\ IsFiniteSet(Colons(p)) /\ Cardinality(Colons(p)) \in Nat
      /\ IsFiniteSet(Colons(s)) /\ Cardinality(Colons(s)) \in Nat
  BY <1>1, ColonsFinite
<1>4. ASSUME NEW j \in Colons(s)
      PROVE  f[j] \in Colons(p) /\ f[j] >= i /\ f[j] = i + j - 1 /\ j \in Nat
  <2>1. j \in 1..Len(s) /\ s[j] = ":" /\ f[j] = i + j - 1
    BY DEF Colons
  <2>2. i + j - 1 \in 1..Len(p) /\ i + j - 1 >= i
    BY <1>1, <2>1
  <2>3. p[i + j - 1] = ":"
    BY <1>1, <2>1
  <2> QED BY <2>1, <2>2, <2>3 DEF Colons
<1>5. ASSUME NEW T, IsFiniteSet(T), \A j \in Colons(s) : f[j] \in T
      PROVE  Cardinality(Colons(s)) <= Cardinality(T)
  <2>1. f \in [Colons(s) -> T]
    BY <1>5
  <2>2. \A j, k \in Colons(s) : f[j] = f[k] => j = k
    <3> SUFFICES ASSUME NEW j \in Colons(s), NEW k \in Colons(s), f[j] = f[k] PROVE j = k
      OBVIOUS
    <3>1. i + j - 1 = i + k - 1 /\ j \in Nat /\ k \in Nat
      BY <1>4
    <3> QED BY <3>1
  <2> HIDE DEF f
  <2>3. f \in Injection(Colons(s), T)
    BY <2>1, <2>2 DEF Injection, IsInjective
  <2> QED BY <2>3, <1>5, FS_Injection
<1>6. Cardinality(Colons(s)) <= Cardinality(Colons(p))
  BY <1>3, <1>4, <1>5
<1>7. ASSUME NEW k \in 1..(i - 1), p[k] = ":"
      PROVE  Cardinality(Colons(s)) + 1 <= Cardinality(Colons(p))
  <2>1. k \in Colons(p)
    BY <1>1, <1>7 DEF Colons
  <2>2. IsFiniteSet(Colons(p) \ {k}) /\ Cardinality(Colons(p) \ {k}) = Cardinality(Colons(p)) - 1
    BY <1>3, <2>1, FS_RemoveElement
  <2>3. \A j \in Colons(s) : f[j] \in Colons(p) \ {k}
    <3> SUFFICES ASSUME NEW j \in Colons(s) PROVE f[j] # k /\ f[j] \in Colons(p)
      OBVIOUS
    <3>1. f[j] \in Colons(p) /\ f[j] >= i
      BY <1>4
    <3> HIDE DEF f
    <3> QED BY <3>1, <1>7
  <2>4. Cardinality(Colons(s)) <= Cardinality(Colons(p) \ {k})
    BY <2>2, <2>3, <1>5
  <2> QED BY <2>2, <2>4, <1>3
<1> QED BY <1>1, <1>2, <1>6, <1>7 DEF s

(***************************************************************************)
(* The shape of a tree, and its controllers.                               *)
(***************************************************************************)

\* Node k's edge begins with c; the edge of node f is still to come, as p.
Joined(t, f, p, k, c) == IF k = f THEN p[1] = c ELSE Begins(t[k].path, c)

\* A node that a path goes through with any text: a parameter, or a
\* catch-all, which has a controller.
IsWildcard(n) == \/ n.type = "PARAM" /\ n.path = <<":">>
                 \/ n.type = "CATCH_ALL" /\ n.path = <<>> /\ n.handle # 0

\* The child of a wildcard's parent is the wildcard and is alone.
WildFits(t, n) ==
    t[n].wild => Len(t[n].children) = 1 /\ IsWildcard(t[t[n].children[1]])

\* A parameter has at most the slash below it, whether it is indexed or not.
ParamFits(t, f, p, n) ==
    ~t[n].wild /\ t[n].type = "PARAM" =>
       /\ t[n].path = <<":">> /\ Len(t[n].children) <= 1
       /\ Len(t[n].indices) <= Len(t[n].children)
       /\ \A i \in DOMAIN t[n].children : Joined(t, f, p, t[n].children[i], "/")

\* The indices of any other node are the first characters of its children,
\* in their order and all different.
StaticFits(t, f, p, n) ==
    ~t[n].wild /\ t[n].type # "PARAM" /\ n # f =>
       /\ Len(t[n].indices) = Len(t[n].children)
       /\ IsInjective(t[n].indices)
       /\ \A i \in DOMAIN t[n].children :
             Joined(t, f, p, t[n].children[i], t[n].indices[i])

\* Node n, in a tree where the edge of node f is still to come, as p.
NodeFits(t, f, p, n) ==
    /\ \A i \in DOMAIN t[n].children : t[n].children[i] \in DOMAIN t
    /\ WildFits(t, n) /\ ParamFits(t, f, p, n) /\ StaticFits(t, f, p, n)

\* A tree of which every edge can be found.
WellShaped(t, f, p) == \A n \in DOMAIN t : NodeFits(t, f, p, n)

\* The controllers up to m are at one node each, unless a route was given up.
Handled(t, m, ok) ==
    /\ \A n \in DOMAIN t : t[n].handle \in 0..m
    /\ ok => \A c \in 1..m :
                \E n \in DOMAIN t : /\ t[n].handle = c
                                    /\ \A k \in DOMAIN t : t[k].handle = c => k = n

\* The types of a node's fields.
LEMMA NodeTypes ==
    ASSUME NEW n \in NodeSet
    PROVE  /\ n.path \in Seq(Chars) /\ n.indices \in Seq(Chars)
           /\ n.children \in Seq(Nat \ {0}) /\ n.handle \in Nat /\ n.wild \in BOOLEAN
           /\ n.type \in {"ROOT", "STATIC", "PARAM", "CATCH_ALL", "UNKNOWN"}
           /\ Len(n.path) \in Nat /\ Len(n.indices) \in Nat /\ Len(n.children) \in Nat
           /\ DOMAIN n.path = 1..Len(n.path) /\ DOMAIN n.indices = 1..Len(n.indices)
           /\ DOMAIN n.children = 1..Len(n.children)
<1>1. /\ n.path \in Seq(Chars) /\ n.indices \in Seq(Chars)
      /\ n.children \in Seq(Nat \ {0}) /\ n.handle \in Nat /\ n.wild \in BOOLEAN
      /\ n.type \in {"ROOT", "STATIC", "PARAM", "CATCH_ALL", "UNKNOWN"}
  BY DEF NodeSet
<1> QED BY <1>1, LenProperties

\* A pointer to the root is never null.
LEMMA DomainOfTree ==
    ASSUME NEW t \in Seq(NodeSet), t # <<>>
    PROVE  DOMAIN t = 1..Len(t) /\ Len(t) \in Nat /\ 0 \notin DOMAIN t /\ 1 \in DOMAIN t
<1>1. DOMAIN t = 1..Len(t) /\ Len(t) \in Nat
  BY LenProperties
<1>2. Len(t) # 0
  BY EmptySeq
<1> QED BY <1>1, <1>2

\* An edge that indice finds is a child, and one that it does not find is not
\* there (router.cc:169-179), if every index has a child.
LEMMA IndiceIs ==
    ASSUME NEW n \in NodeSet, NEW c, Len(n.indices) <= Len(n.children)
    PROVE  \/ Indice(n, c) = 0 /\ \A i \in DOMAIN n.indices : n.indices[i] # c
           \/ \E i \in DOMAIN n.indices :
                 n.indices[i] = c /\ Indice(n, c) = n.children[i] /\ Indice(n, c) # 0
<1> DEFINE I == {i \in 1..Len(n.indices) : n.indices[i] = c}
<1>1. /\ I # {} => Indice(n, c) = IF Min(I) = 0 THEN 0 ELSE n.children[Min(I)]
      /\ I = {} => Indice(n, c) = 0
  BY DEF Indice, SelectInSeq
<1>2. I \in SUBSET Nat /\ Len(n.indices) \in Nat /\ DOMAIN n.indices = 1..Len(n.indices)
      /\ n.children \in Seq(Nat \ {0}) /\ Len(n.children) \in Nat
  <2>1. n.indices \in Seq(Chars) /\ n.children \in Seq(Nat \ {0})
    BY DEF NodeSet
  <2> QED BY <2>1, LenProperties
<1>3. I # {} => Min(I) \in I
  BY <1>2, SelectsFirst
<1> HIDE DEF I
<1>4. CASE I = {}
  BY <1>1, <1>2, <1>4 DEF I
<1>5. CASE I # {}
  <2>1. Min(I) \in 1..Len(n.indices) /\ n.indices[Min(I)] = c
    BY <1>3, <1>5 DEF I
  <2>2. n.children[Min(I)] \in Nat \ {0}
    BY <2>1, <1>2
  <2>3. Indice(n, c) = n.children[Min(I)]
    BY <2>1, <1>1, <1>5, <1>2
  <2> QED BY <2>1, <2>2, <2>3, <1>2
<1> QED BY <1>4, <1>5

\* A step that makes t2 of t, and touches no node of t but a, which still
\* hangs where it hung.
Touches(a, t, f, p, t2, f2, p2) ==
    /\ t \in Seq(NodeSet) /\ a \in DOMAIN t /\ DOMAIN t \subseteq DOMAIN t2
    /\ \A n \in DOMAIN t : n # a => t2[n] = t[n]
    /\ WellShaped(t, f, p) /\ f \notin DOMAIN t \ {a} /\ f2 \notin DOMAIN t \ {a}
    /\ \A c : Joined(t, f, p, a, c) => Joined(t2, f2, p2, a, c)
    /\ IsWildcard(t[a]) => IsWildcard(t2[a])

\* The nodes that it does not touch fit as before.
LEMMA OthersFit ==
    ASSUME NEW a, NEW t, NEW f, NEW p, NEW t2, NEW f2, NEW p2,
           Touches(a, t, f, p, t2, f2, p2)
    PROVE  /\ \A n \in DOMAIN t : n # a => NodeFits(t2, f2, p2, n)
           /\ \A k \in DOMAIN t : \A c : Joined(t, f, p, k, c) => Joined(t2, f2, p2, k, c)
           /\ \A k \in DOMAIN t : IsWildcard(t[k]) => IsWildcard(t2[k])
<1> USE DEF Touches
<1>1. ASSUME NEW k \in DOMAIN t, NEW c, Joined(t, f, p, k, c)
      PROVE  Joined(t2, f2, p2, k, c)
  <2>1. CASE k = a
    BY <1>1, <2>1
  <2>2. CASE k # a
    <3>1. k # f /\ k # f2 /\ t2[k] = t[k]
      BY <2>2
    <3> QED BY <1>1, <3>1 DEF Joined
  <2> QED BY <2>1, <2>2
<1>2. ASSUME NEW k \in DOMAIN t, IsWildcard(t[k]) PROVE IsWildcard(t2[k])
  BY <1>2
<1>3. ASSUME NEW n \in DOMAIN t, n # a PROVE NodeFits(t2, f2, p2, n)
  <2>1. t2[n] = t[n] /\ n # f /\ n # f2
    BY <1>3
  <2>2. NodeFits(t, f, p, n)
    BY DEF WellShaped
  <2>3. \A i \in DOMAIN t[n].children : t[n].children[i] \in DOMAIN t
    BY <2>2 DEF NodeFits
  <2>4. WildFits(t2, n)
    <3> SUFFICES ASSUME t[n].wild
                 PROVE  Len(t[n].children) = 1 /\ IsWildcard(t2[t[n].children[1]])
      BY <2>1 DEF WildFits
    <3>1. Len(t[n].children) = 1 /\ IsWildcard(t[t[n].children[1]])
      BY <2>2 DEF NodeFits, WildFits
    <3>2. 1 \in DOMAIN t[n].children
      <4>1. t[n] \in NodeSet
        OBVIOUS
      <4> QED BY <3>1, <4>1, NodeTypes
    <3> QED BY <1>2, <2>3, <3>1, <3>2
  <2>5. ParamFits(t2, f2, p2, n)
    BY <2>1, <2>2, <2>3, <1>1 DEF NodeFits, ParamFits
  <2>6. StaticFits(t2, f2, p2, n)
    BY <2>1, <2>2, <2>3, <1>1 DEF NodeFits, StaticFits
  <2>7. \A i \in DOMAIN t2[n].children : t2[n].children[i] \in DOMAIN t2
    BY <2>1, <2>3
  <2> QED BY <2>4, <2>5, <2>6, <2>7 DEF NodeFits
<1> QED BY <1>1, <1>2, <1>3

\* When no edge is to come it does not matter as what.
LEMMA ShapeAlone ==
    ASSUME NEW t, NEW p, NEW p2, 0 \notin DOMAIN t, WellShaped(t, 0, p)
    PROVE  WellShaped(t, 0, p2)
<1> SUFFICES ASSUME NEW n \in DOMAIN t PROVE NodeFits(t, 0, p2, n)
  BY DEF WellShaped
<1>1. NodeFits(t, 0, p, n)
  BY DEF WellShaped
<1>2. \A i \in DOMAIN t[n].children : t[n].children[i] \in DOMAIN t /\ t[n].children[i] # 0
  BY <1>1 DEF NodeFits
<1>3. \A i \in DOMAIN t[n].children : \A c :
         Joined(t, 0, p, t[n].children[i], c) <=> Joined(t, 0, p2, t[n].children[i], c)
  BY <1>2 DEF Joined
<1>4. ParamFits(t, 0, p2, n)
  BY <1>1, <1>3 DEF NodeFits, ParamFits
<1>5. StaticFits(t, 0, p2, n)
  BY <1>1, <1>3 DEF NodeFits, StaticFits
<1> QED BY <1>1, <1>4, <1>5 DEF NodeFits

\* A step that gives no controller to any node.
LEMMA SameHandles ==
    ASSUME NEW t, NEW t2, NEW m \in Nat, NEW ok \in BOOLEAN, Handled(t, m, ok),
           DOMAIN t \subseteq DOMAIN t2,
           \A n \in DOMAIN t : t2[n].handle = t[n].handle,
           \A n \in DOMAIN t2 : n \notin DOMAIN t => t2[n].handle = 0
    PROVE  Handled(t2, m, ok)
<1>1. \A n \in DOMAIN t2 : t2[n].handle \in 0..m
  BY DEF Handled
<1>2. ASSUME ok, NEW c \in 1..m
      PROVE  \E n \in DOMAIN t2 : /\ t2[n].handle = c
                                  /\ \A k \in DOMAIN t2 : t2[k].handle = c => k = n
  <2>1. PICK n \in DOMAIN t : /\ t[n].handle = c
                              /\ \A k \in DOMAIN t : t[k].handle = c => k = n
    BY <1>2 DEF Handled
  <2>2. c # 0
    OBVIOUS
  <2> QED BY <2>1, <2>2
<1> QED BY <1>1, <1>2 DEF Handled

\* A step that gives the controller of the route to a node that had none.
LEMMA NewHandle ==
    ASSUME NEW t, NEW t2, NEW m \in Nat, NEW ok \in BOOLEAN, Handled(t, m, ok),
           DOMAIN t \subseteq DOMAIN t2,
           NEW x \in DOMAIN t2, t2[x].handle = m + 1,
           x \in DOMAIN t => t[x].handle = 0,
           \A n \in DOMAIN t : n # x => t2[n].handle = t[n].handle,
           \A n \in DOMAIN t2 : n \notin DOMAIN t /\ n # x => t2[n].handle = 0
    PROVE  Handled(t2, m + 1, ok)
<1>1. \A n \in DOMAIN t2 : t2[n].handle \in 0..(m + 1)
  <2>1. \A n \in DOMAIN t : t[n].handle \in 0..(m + 1)
    BY DEF Handled
  <2> QED BY <2>1
<1>2. ASSUME ok, NEW c \in 1..(m + 1)
      PROVE  \E n \in DOMAIN t2 : /\ t2[n].handle = c
                                  /\ \A k \in DOMAIN t2 : t2[k].handle = c => k = n
  <2>1. CASE c = m + 1
    <3>1. \A k \in DOMAIN t : t[k].handle # m + 1
      BY DEF Handled
    <3>2. \A k \in DOMAIN t2 : t2[k].handle = c => k = x
      BY <2>1, <3>1
    <3> QED BY <2>1, <3>2
  <2>2. CASE c # m + 1
    <3>1. c \in 1..m
      BY <2>2
    <3>2. PICK n \in DOMAIN t : /\ t[n].handle = c
                                /\ \A k \in DOMAIN t : t[k].handle = c => k = n
      BY <1>2, <3>1 DEF Handled
    <3>3. n # x /\ c # 0
      BY <3>2
    <3>4. ASSUME NEW k \in DOMAIN t2, t2[k].handle = c PROVE k = n
      <4>1. k # x
        BY <2>2, <3>4
      <4>2. k \in DOMAIN t
        BY <3>3, <3>4, <4>1
      <4> QED BY <3>2, <3>4, <4>1, <4>2
    <3> QED BY <3>2, <3>3, <3>4
  <2> QED BY <2>1, <2>2
<1> QED BY <1>1, <1>2 DEF Handled

\* A route that is given up has no node.
LEMMA LooseHandles ==
    ASSUME NEW t, NEW m \in Nat, NEW ok, Handled(t, m, ok)
    PROVE  Handled(t, m + 1, FALSE)
BY DEF Handled

(***************************************************************************)
(* Cutting a node.                                                         *)
(***************************************************************************)

\* Node a of t, cut after i characters, is the upper half, and a new node the lower.
Halves(t, t2, a, i) ==
    LET old == t[a]
        new == Len(t) + 1
    IN  /\ t2 \in Seq(NodeSet) /\ DOMAIN t2 = 1..new
        /\ \A n \in DOMAIN t : n # a => t2[n] = t[n]
        /\ /\ t2[a].path \in Seq(Chars) /\ Len(t2[a].path) = i /\ t2[a].path[1] = old.path[1]
           /\ t2[a].type = "STATIC" /\ ~t2[a].wild /\ t2[a].handle = 0
           /\ Len(t2[a].indices) = 1 /\ t2[a].indices[1] = old.path[i + 1]
           /\ Len(t2[a].children) = 1 /\ t2[a].children[1] = new
           /\ DOMAIN t2[a].indices = 1..1 /\ DOMAIN t2[a].children = 1..1
        /\ /\ Begins(t2[new].path, old.path[i + 1])
           /\ t2[new].type = old.type /\ t2[new].wild = old.wild /\ t2[new].handle = old.handle
           /\ t2[new].indices = old.indices /\ t2[new].children = old.children
           /\ t2[new].re = old.re /\ t2[new].name = old.name
        /\ t2[a].path = SubSeq(old.path, 1, i) /\ t2[new].path = From(old.path, i + 1)

\* Split cuts a node in two (router.cc:482-498).
LEMMA SplitIs ==
    ASSUME NEW t \in Seq(NodeSet), NEW a \in DOMAIN t,
           NEW i \in 1..(Len(t[a].path) - 1)
    PROVE  Halves(t, Split(t, a, i), a, i)
<1> DEFINE old == t[a]
           new == Len(t) + 1
           up == [old EXCEPT !.path = SubSeq(@, 1, i), !.type = "STATIC",
                              !.indices = <<old.path[i + 1]>>,
                              !.children = <<Len(t) + 1>>,
                              !.handle = 0, !.re = "none", !.wild = FALSE]
           low == [old EXCEPT !.path = From(@, i + 1)]
           t1 == [t EXCEPT ![a] = up]
<1>1. old \in NodeSet /\ Len(t) \in Nat /\ DOMAIN t = 1..Len(t)
  BY LenProperties
<1>2. /\ old.path \in Seq(Chars) /\ Len(old.path) \in Nat /\ i \in 1..Len(old.path)
      /\ i + 1 \in 1..Len(old.path) /\ i \in 0..Len(old.path) /\ i + 1 \in 1..(Len(old.path) + 1)
  BY <1>1, NodeTypes
<1>3. /\ SubSeq(old.path, 1, i) \in Seq(Chars) /\ Len(SubSeq(old.path, 1, i)) = i
      /\ SubSeq(old.path, 1, i)[1] = old.path[1]
  BY <1>2, UpToIs
<1>4. /\ From(old.path, i + 1) \in Seq(Chars)
      /\ Begins(From(old.path, i + 1), old.path[i + 1])
  <2>1. /\ From(old.path, i + 1) \in Seq(Chars)
        /\ Len(From(old.path, i + 1)) = Len(old.path) - (i + 1) + 1
        /\ \A j \in 1..(Len(old.path) - (i + 1) + 1) :
              From(old.path, i + 1)[j] = old.path[(i + 1) + j - 1]
    BY <1>2, FromIs
  <2>2. From(old.path, i + 1)[1] = old.path[i + 1]
    BY <1>2, <2>1
  <2>3. Len(From(old.path, i + 1)) > 0
    BY <1>2, <2>1
  <2> QED BY <2>1, <2>2, <2>3, EmptyIs DEF Begins
<1>5. old.path[i + 1] \in Chars /\ new \in Nat \ {0}
  BY <1>1, <1>2
<1>6. /\ <<old.path[i + 1]>> \in Seq(Chars) /\ Len(<<old.path[i + 1]>>) = 1
      /\ <<old.path[i + 1]>>[1] = old.path[i + 1]
      /\ <<new>> \in Seq(Nat \ {0}) /\ Len(<<new>>) = 1 /\ <<new>>[1] = new
      /\ DOMAIN <<old.path[i + 1]>> = 1..1 /\ DOMAIN <<new>> = 1..1
  BY <1>5, OneIs
<1>7. up \in NodeSet
  BY <1>1, <1>3, <1>6 DEF NodeSet
<1>8. low \in NodeSet
  BY <1>1, <1>4 DEF NodeSet
<1>9. /\ up.path = SubSeq(old.path, 1, i) /\ up.type = "STATIC" /\ ~up.wild /\ up.handle = 0
      /\ up.indices = <<old.path[i + 1]>> /\ up.children = <<new>>
      /\ low.path = From(old.path, i + 1) /\ low.type = old.type /\ low.wild = old.wild
      /\ low.handle = old.handle /\ low.indices = old.indices /\ low.children = old.children
      /\ low.re = old.re /\ low.name = old.name
  BY <1>1 DEF NodeSet
<1> HIDE DEF up, low
<1>10. /\ t1 \in Seq(NodeSet) /\ Len(t1) = Len(t) /\ DOMAIN t1 = DOMAIN t /\ t1[a] = up
       /\ \A j \in DOMAIN t : j # a => t1[j] = t[j]
  BY <1>7, ExceptIs
<1> HIDE DEF t1
<1>11. LET t2 == Append(t1, low)
       IN  /\ t2 \in Seq(NodeSet) /\ DOMAIN t2 = 1..new /\ t2[a] = up /\ t2[new] = low
           /\ \A j \in DOMAIN t : j # a => t2[j] = t[j]
  <2>1. /\ Append(t1, low) \in Seq(NodeSet) /\ DOMAIN Append(t1, low) = 1..(Len(t1) + 1)
        /\ \A j \in 1..Len(t1) : Append(t1, low)[j] = t1[j]
        /\ Append(t1, low)[Len(t1) + 1] = low
    BY <1>8, <1>10, AppendIs, SMTT(40)
  <2> QED BY <1>1, <1>10, <2>1
<1>12. Split(t, a, i) = Append(t1, low)
  BY DEF Split, t1, up, low
<1> QED BY <1>3, <1>4, <1>6, <1>9, <1>11, <1>12, ZenonT(40) DEF Halves

\* A tree keeps its shape when a node is cut.
LEMMA HalvesFit ==
    ASSUME NEW t \in Seq(NodeSet), NEW t2, NEW a \in DOMAIN t, NEW p,
           NEW i \in 1..(Len(t[a].path) - 1), Halves(t, t2, a, i), WellShaped(t, 0, p)
    PROVE  /\ WellShaped(t2, 0, p) /\ DOMAIN t \subseteq DOMAIN t2
           /\ \A k \in DOMAIN t : \A c : Joined(t, 0, p, k, c) => Joined(t2, 0, p, k, c)
<1> DEFINE old == t[a]
           new == Len(t) + 1
<1>1. /\ old \in NodeSet /\ Len(t) \in Nat /\ DOMAIN t = 1..Len(t) /\ t2 \in Seq(NodeSet)
      /\ DOMAIN t2 = 1..new /\ DOMAIN t \subseteq DOMAIN t2 /\ new \in DOMAIN t2
      /\ new \notin DOMAIN t /\ 0 \notin DOMAIN t2 /\ a # 0
  BY LenProperties DEF Halves
<1>2. /\ old.path \in Seq(Chars) /\ Len(old.path) \in Nat /\ i + 1 <= Len(old.path)
      /\ DOMAIN old.children = 1..Len(old.children) /\ old.wild \in BOOLEAN
  BY <1>1, NodeTypes
<1>3. \A c : Joined(t, 0, p, a, c) => Joined(t2, 0, p, a, c)
  <2>1. Len(t2[a].path) = i /\ t2[a].path[1] = old.path[1] /\ t2[a].path # <<>>
    <3>1. Len(t2[a].path) = i /\ t2[a].path[1] = old.path[1]
      BY DEF Halves
    <3> QED BY <3>1, EmptyIs
  <2> QED BY <1>1, <2>1 DEF Joined, Begins
<1>4. ~IsWildcard(t[a])
  <2> DEFINE l == Len(old.path)
  <2>1. l \in Nat /\ i \in 1..(l - 1)
    BY <1>2
  <2> HIDE DEF l
  <2>2. l # 1 /\ l # 0
    BY <2>1
  <2>3. Len(<<":">>) = 1 /\ Len(<<>>) = 0
    OBVIOUS
  <2>4. old.path # <<":">> /\ old.path # <<>>
    BY <2>2, <2>3, Zenon DEF l
  <2> QED BY <2>4 DEF IsWildcard
<1>5. /\ \A n \in DOMAIN t : n # a => NodeFits(t2, 0, p, n)
      /\ \A k \in DOMAIN t : \A c : Joined(t, 0, p, k, c) => Joined(t2, 0, p, k, c)
      /\ \A k \in DOMAIN t : IsWildcard(t[k]) => IsWildcard(t2[k])
  <2>1. \A n \in DOMAIN t : n # a => t2[n] = t[n]
    BY DEF Halves
  <2>2. Touches(a, t, 0, p, t2, 0, p)
    BY <1>1, <1>3, <1>4, <2>1 DEF Touches
  <2> QED BY <2>2, OthersFit
<1>6. NodeFits(t2, 0, p, a)
  <2>1. /\ t2[a].type = "STATIC" /\ ~t2[a].wild
        /\ Len(t2[a].indices) = 1 /\ t2[a].indices[1] = old.path[i + 1]
        /\ Len(t2[a].children) = 1 /\ t2[a].children[1] = new
        /\ DOMAIN t2[a].indices = 1..1 /\ DOMAIN t2[a].children = 1..1
        /\ Begins(t2[new].path, old.path[i + 1])
    BY DEF Halves
  <2>2. Joined(t2, 0, p, new, old.path[i + 1])
    BY <2>1, <1>1 DEF Joined
  <2>3. IsInjective(t2[a].indices)
    BY <2>1 DEF IsInjective
  <2>4. StaticFits(t2, 0, p, a)
    BY <2>1, <2>2, <2>3 DEF StaticFits
  <2> QED BY <1>1, <2>1, <2>4 DEF NodeFits, WildFits, ParamFits
<1>7. NodeFits(t2, 0, p, new)
  <2>1. /\ t2[new].type = old.type /\ t2[new].wild = old.wild
        /\ t2[new].indices = old.indices /\ t2[new].children = old.children
    BY DEF Halves
  <2>2. NodeFits(t, 0, p, a)
    BY DEF WellShaped
  <2>3. \A j \in DOMAIN old.children : old.children[j] \in DOMAIN t
    BY <2>2 DEF NodeFits
  <2>4. WildFits(t2, new)
    <3> SUFFICES ASSUME old.wild
                 PROVE  Len(old.children) = 1 /\ IsWildcard(t2[old.children[1]])
      BY <2>1 DEF WildFits
    <3>1. Len(old.children) = 1 /\ IsWildcard(t[old.children[1]])
      BY <2>2 DEF NodeFits, WildFits
    <3>2. 1 \in DOMAIN old.children
      BY <3>1, <1>2
    <3> QED BY <3>1, <3>2, <2>3, <1>5
  <2>5. ParamFits(t2, 0, p, new)
    <3> SUFFICES ASSUME ~old.wild, old.type = "PARAM" PROVE FALSE
      BY <2>1 DEF ParamFits
    <3>1. old.path = <<":">>
      BY <2>2 DEF NodeFits, ParamFits
    <3>2. Len(<<":">>) = 1
      OBVIOUS
    <3> QED BY <3>1, <3>2, <1>2
  <2>6. StaticFits(t2, 0, p, new)
    <3> SUFFICES ASSUME ~old.wild, old.type # "PARAM"
                 PROVE  /\ Len(old.indices) = Len(old.children) /\ IsInjective(old.indices)
                        /\ \A j \in DOMAIN old.children :
                              Joined(t2, 0, p, old.children[j], old.indices[j])
      BY <2>1 DEF StaticFits
    <3> QED BY <2>2, <2>3, <1>1, <1>5 DEF NodeFits, StaticFits
  <2>7. \A j \in DOMAIN t2[new].children : t2[new].children[j] \in DOMAIN t2
    BY <2>1, <2>3, <1>1
  <2> QED BY <2>4, <2>5, <2>6, <2>7 DEF NodeFits
<1>8. \A n \in DOMAIN t2 : n \in DOMAIN t \/ n = new
  BY <1>1
<1> QED BY <1>1, <1>5, <1>6, <1>7, <1>8 DEF WellShaped

\* A controller moves to the lower half with the edge that leads to it.
LEMMA HalvesHandled ==
    ASSUME NEW t \in Seq(NodeSet), NEW t2, NEW a \in DOMAIN t, NEW i, Halves(t, t2, a, i),
           NEW m \in Nat, NEW ok \in BOOLEAN, Handled(t, m, ok)
    PROVE  Handled(t2, m, ok)
<1> DEFINE new == Len(t) + 1
<1>1. /\ Len(t) \in Nat /\ DOMAIN t = 1..Len(t) /\ DOMAIN t2 = 1..new
      /\ new \notin DOMAIN t /\ \A n \in DOMAIN t2 : n \in DOMAIN t \/ n = new
      /\ DOMAIN t \subseteq DOMAIN t2 /\ new \in DOMAIN t2 /\ new # a
  BY LenProperties DEF Halves
<1>2. /\ t2[a].handle = 0 /\ t2[new].handle = t[a].handle
      /\ \A n \in DOMAIN t : n # a => t2[n].handle = t[n].handle
  BY DEF Halves
<1> HIDE DEF new
<1>3. \A n \in DOMAIN t2 : t2[n].handle \in 0..m
  BY <1>1, <1>2 DEF Handled
<1>4. ASSUME ok, NEW c \in 1..m
      PROVE  \E n \in DOMAIN t2 : /\ t2[n].handle = c
                                  /\ \A k \in DOMAIN t2 : t2[k].handle = c => k = n
  <2>1. PICK n \in DOMAIN t : /\ t[n].handle = c
                              /\ \A k \in DOMAIN t : t[k].handle = c => k = n
    BY <1>4 DEF Handled
  <2>2. c # 0
    OBVIOUS
  <2>3. CASE n = a
    <3>1. t2[new].handle = c /\ \A k \in DOMAIN t2 : t2[k].handle = c => k = new
      BY <2>1, <2>2, <2>3, <1>1, <1>2
    <3> QED BY <3>1, <1>1
  <2>4. CASE n # a
    <3>1. t2[n].handle = c /\ \A k \in DOMAIN t2 : t2[k].handle = c => k = n
      BY <2>1, <2>2, <2>4, <1>1, <1>2
    <3> QED BY <3>1, <1>1
  <2> QED BY <2>3, <2>4
<1> QED BY <1>3, <1>4 DEF Handled

\* What a tree that is not being built is: its nodes fit and hold the handles.
Sound(t, m, ok) ==
    /\ t \in Seq(NodeSet) /\ t # <<>> /\ WellShaped(t, 0, <<>>) /\ Handled(t, m, ok)
    /\ Begins(t[1].path, "/")

\* insert's common prefix fits into both texts, and is not empty when they
\* begin with the same character (router.cc:135-142, 480).
LEMMA SharedIs ==
    ASSUME NEW S, path \in Seq(S), nodes[at].path \in Seq(S)
    PROVE  /\ Shared \in 0..Len(path) /\ Shared <= Len(nodes[at].path)
           /\ path # <<>> /\ Begins(nodes[at].path, path[1]) => Shared > 0
           /\ SubSeq(path, 1, Shared) = SubSeq(nodes[at].path, 1, Shared)
<1> DEFINE q == nodes[at].path
           P == CommonPrefixes({path, q})
           L == {k \in Nat : \E x \in P : k = Len(path) - Len(x)}
<1>1. Len(path) \in Nat /\ Len(q) \in Nat
  OBVIOUS
<1>2. \A x : x \in P <=> /\ x \in Prefixes(path) \cup Prefixes(q)
                         /\ IsPrefix(x, path) /\ IsPrefix(x, q)
  BY DEF CommonPrefixes
<1>3. ASSUME NEW x \in P
      PROVE  x \in Seq(S) /\ Len(x) \in 0..Len(path) /\ Len(x) <= Len(q)
  <2>1. CASE x \in Prefixes(path)
    <3>1. PICK l \in 0..Len(path) : x = SubSeq(path, 1, l)
      BY <2>1 DEF Prefixes
    <3>2. Len(x) = l /\ x \in Seq(S)
      BY <3>1, UpToIs
    <3> QED BY <3>2, <1>1, <1>2 DEF IsPrefix
  <2>2. CASE x \in Prefixes(q)
    <3>1. PICK l \in 0..Len(q) : x = SubSeq(q, 1, l)
      BY <2>2 DEF Prefixes
    <3>2. Len(x) = l /\ x \in Seq(S)
      BY <3>1, UpToIs
    <3>3. Len(x) <= Len(path)
      BY <1>2 DEF IsPrefix
    <3> QED BY <3>1, <3>2, <3>3, <1>1
  <2> QED BY <1>2, <2>1, <2>2
<1>4. <<>> \in P
  <2>1. SubSeq(path, 1, 0) = <<>> /\ SubSeq(q, 1, 0) = <<>>
    BY SubSeqEmpty
  <2>2. SubSeq(<<>>, 1, 0) = <<>> /\ Len(<<>>) = 0
    BY SubSeqEmpty
  <2>3. <<>> \in Prefixes(path)
    BY <1>1, <2>1 DEF Prefixes
  <2>4. IsPrefix(<<>>, path) /\ IsPrefix(<<>>, q)
    BY <1>1, <2>1, <2>2 DEF IsPrefix
  <2> QED BY <1>2, <2>3, <2>4
<1> HIDE DEF P
<1>5. PICK x \in P : \A y \in P : Len(y) <= Len(x)
  <2>1. \A y \in P : Len(path) - Len(y) \in L
    BY <1>1, <1>3
  <2>2. L \in SUBSET Nat /\ L # {}
    BY <1>4, <2>1
  <2>3. PICK k \in L : \A m \in L : k <= m
    BY <2>2, LeastNumber
  <2>4. PICK x \in P : k = Len(path) - Len(x)
    BY <2>3
  <2>5. ASSUME NEW y \in P PROVE Len(y) <= Len(x)
    <3>1. Len(path) - Len(y) \in L /\ Len(y) \in 0..Len(path) /\ Len(x) \in 0..Len(path)
      BY <2>1, <1>3
    <3>2. k <= Len(path) - Len(y)
      BY <2>3, <3>1
    <3> QED BY <3>1, <3>2, <2>4, <1>1
  <2> QED BY <2>5
<1> DEFINE longest == LongestCommonPrefix({path, q})
<1>6. longest \in P /\ \A y \in P : Len(y) <= Len(longest)
  BY <1>5 DEF LongestCommonPrefix, P
<1>7. Shared = Len(longest)
  BY DEF Shared
<1> HIDE DEF longest
<1>8. Shared \in 0..Len(path) /\ Shared <= Len(q)
  BY <1>3, <1>6, <1>7
<1>10. SubSeq(path, 1, Shared) = SubSeq(q, 1, Shared)
  BY <1>2, <1>6, <1>7 DEF IsPrefix
<1>9. ASSUME path # <<>>, Begins(q, path[1]) PROVE Shared > 0
  <2>1. Len(path) > 0 /\ Len(q) > 0 /\ q[1] = path[1]
    BY <1>9, <1>1 DEF Begins
  <2> DEFINE one == SubSeq(path, 1, 1)
  <2>2. one \in Seq(S) /\ Len(one) = 1 /\ one[1] = path[1]
    BY <2>1, <1>1, UpToIs
  <2>3. SubSeq(q, 1, 1) \in Seq(S) /\ Len(SubSeq(q, 1, 1)) = 1 /\ SubSeq(q, 1, 1)[1] = q[1]
    BY <2>1, <1>1, UpToIs
  <2>4. one = SubSeq(q, 1, 1)
    BY <2>1, <2>2, <2>3, SeqEqual
  <2>5. SubSeq(one, 1, 1) = one
    BY <2>2, SubSeqFull
  <2>6. IsPrefix(one, path) /\ IsPrefix(one, q)
    BY <1>1, <2>1, <2>2, <2>4, <2>5 DEF IsPrefix
  <2>7. one \in Prefixes(path)
    BY <1>1, <2>1 DEF Prefixes
  <2>8. one \in P
    BY <1>2, <2>6, <2>7
  <2> HIDE DEF one
  <2>9. Len(one) <= Len(longest)
    BY <1>6, <2>8
  <2> QED BY <1>7, <2>2, <2>9, <1>1, <1>8
<1> QED BY <1>8, <1>9, <1>10

\* The tree that insert goes on with is as good as the one it came to, and
\* the node's edge is what the route shares with it.
LEMMA CutIs ==
    ASSUME NEW m \in Nat, NEW ok \in BOOLEAN, Sound(nodes, m, ok),
           at \in DOMAIN nodes, path \in Seq(Chars), path # <<>>,
           Begins(nodes[at].path, path[1])
    PROVE  /\ Sound(Cut, m, ok) /\ DOMAIN nodes \subseteq DOMAIN Cut
           /\ Begins(Cut[at].path, path[1])
           /\ Len(Cut[at].path) = Shared /\ Shared \in 1..Len(path)
<1>1. /\ nodes \in Seq(NodeSet) /\ nodes[at] \in NodeSet /\ nodes[at].path \in Seq(Chars)
      /\ Len(nodes[at].path) \in Nat /\ Len(path) \in Nat
  BY NodeTypes DEF Sound
<1>2. Shared \in 0..Len(path) /\ Shared <= Len(nodes[at].path) /\ Shared > 0
  BY <1>1, SharedIs
<1> HIDE DEF Shared
<1>3. CASE Shared < Len(nodes[at].path)
  <2>1. Cut = Split(nodes, at, Shared)
    BY <1>3 DEF Cut
  <2>2. Shared \in 1..(Len(nodes[at].path) - 1)
    BY <1>1, <1>2, <1>3
  <2>3. Halves(nodes, Cut, at, Shared)
    BY <1>1, <2>1, <2>2, SplitIs
  <2>4. WellShaped(nodes, 0, <<>>) /\ Handled(nodes, m, ok)
    BY DEF Sound
  <2>5. /\ WellShaped(Cut, 0, <<>>) /\ DOMAIN nodes \subseteq DOMAIN Cut
        /\ \A k \in DOMAIN nodes : \A c : Joined(nodes, 0, <<>>, k, c) => Joined(Cut, 0, <<>>, k, c)
    BY <1>1, <2>2, <2>3, <2>4, HalvesFit
  <2>6. Handled(Cut, m, ok)
    BY <1>1, <2>3, <2>4, HalvesHandled
  <2>7. 1 \in DOMAIN nodes /\ at # 0
    <3>1. DOMAIN nodes = 1..Len(nodes) /\ Len(nodes) \in Nat /\ nodes # <<>>
      BY <1>1, LenProperties DEF Sound
    <3>2. Len(nodes) # 0
      BY <1>1, <3>1
    <3> QED BY <3>1, <3>2
  <2>8. Begins(Cut[1].path, "/") /\ Begins(Cut[at].path, path[1])
    BY <2>5, <2>7, SMTT(40) DEF Joined, Sound
  <2>9. Cut \in Seq(NodeSet) /\ Cut # <<>> /\ Len(Cut[at].path) = Shared
    <3>1. Cut \in Seq(NodeSet) /\ Len(Cut[at].path) = Shared
      BY <2>3 DEF Halves
    <3>2. 1 \in DOMAIN Cut
      BY <2>5, <2>7
    <3> QED BY <3>1, <3>2
  <2> QED BY <1>1, <1>2, <2>5, <2>6, <2>8, <2>9 DEF Sound
<1>4. CASE ~(Shared < Len(nodes[at].path))
  <2>1. Cut = nodes
    BY <1>4 DEF Cut
  <2> QED BY <1>1, <1>2, <1>4, <2>1
<1> QED BY <1>3, <1>4

(***************************************************************************)
(* The invariant of the building.                                          *)
(***************************************************************************)

\* A route is on its way into the tree.
Busy == phase \in {"inserting", "placing"}

\* The node whose edge is still to come.
Fresh == IF phase = "placing" /\ nodes[at].path = <<>> THEN at ELSE 0

\* The routes that have been inserted, or given up.
Past == IF Busy THEN Len(registered) - 1 ELSE Len(registered)

\* A node that insertChild can fill.
Blank(n) == /\ n.path = <<>> /\ n.children = <<>> /\ n.handle = 0 /\ ~n.wild
            /\ n.type \in {"ROOT", "STATIC", "UNKNOWN"}

\* The tree is empty, or its root's edge begins with a slash.
Rooted(t) == \/ Blank(t[1]) /\ t[1].indices = <<>>
             \/ Begins(t[1].path, "/")

\* A path in the making, with a parameter in the queue for every wildcard.
Suffices(p, q) == /\ p \in Seq(Chars) /\ p # <<>> /\ Slashed(p)
                  /\ Cardinality(Colons(p)) <= Len(q)

\* insert is at a node whose edge the path shares, or at an empty root.
Joins == IF nodes[1].path = <<>> THEN at = 1 /\ path[1] = "/"
         ELSE Begins(nodes[at].path, path[1])

\* insertChild fills a new node with text first, or adds a wildcard to a node
\* that has an edge.
Places == IF nodes[at].path = <<>>
            THEN Blank(nodes[at]) /\ path[1] # ":" /\ (at = 1 => path[1] = "/")
            ELSE path[1] = ":" /\ ~nodes[at].wild /\ nodes[at].path # <<":">>
                 /\ nodes[1].path # <<>>

\* The inductive invariant of the tree.
BuildInv ==
    /\ registered \in Seq(Routes) /\ queue \in Seq(Segments) /\ valid \in BOOLEAN
    /\ nodes \in Seq(NodeSet) /\ nodes # <<>> /\ at \in DOMAIN nodes
    /\ WellShaped(nodes, Fresh, path)
    /\ Handled(nodes, Past, valid)
    /\ Rooted(nodes)
    /\ Busy => registered # <<>> /\ Suffices(path, queue)
    /\ phase = "inserting" => Joins
    /\ phase = "placing" => Places

\* The tree of a new RawTree.
LEMMA InitialTree == Init => BuildInv
<1> SUFFICES ASSUME Init PROVE BuildInv
  OBVIOUS
<1> DEFINE root == Node("ROOT")
<1>1. /\ registered = <<>> /\ nodes = <<root>> /\ phase = "building"
      /\ at = 1 /\ queue = <<>> /\ valid = TRUE
  BY DEF Init, BuildInit
<1>2. root \in NodeSet
  <2>1. <<>> \in Seq(Chars) /\ <<>> \in Seq(Nat \ {0})
    OBVIOUS
  <2> QED BY <2>1 DEF Node, NodeSet
<1>3. /\ root.path = <<>> /\ root.children = <<>> /\ root.handle = 0 /\ ~root.wild
      /\ root.type = "ROOT" /\ root.indices = <<>>
  BY DEF Node
<1> HIDE DEF root
<1>4. nodes \in Seq(NodeSet) /\ nodes # <<>> /\ DOMAIN nodes = {1} /\ nodes[1] = root
  <2>1. nodes \in Seq(NodeSet) /\ Len(nodes) = 1 /\ nodes[1] = root
    BY <1>1, <1>2, OneIs
  <2> QED BY <2>1, EmptyIs, LenProperties
<1>5. Fresh = 0 /\ Past = 0 /\ ~Busy
  BY <1>1 DEF Fresh, Past, Busy
<1>6. NodeFits(nodes, 0, path, 1)
  <2>1. DOMAIN <<>> = {} /\ Len(<<>>) = 0
    OBVIOUS
  <2>2. StaticFits(nodes, 0, path, 1)
    BY <1>3, <1>4, <2>1 DEF StaticFits, IsInjective
  <2> QED BY <1>3, <1>4, <2>1, <2>2 DEF NodeFits, WildFits, ParamFits
<1>7. WellShaped(nodes, Fresh, path)
  BY <1>4, <1>5, <1>6 DEF WellShaped
<1>8. Handled(nodes, Past, valid)
  BY <1>3, <1>4, <1>5 DEF Handled
<1>9. Rooted(nodes)
  BY <1>3, <1>4 DEF Rooted, Blank
<1>10. registered \in Seq(Routes) /\ queue \in Seq(Segments)
  BY <1>1
<1> QED BY <1>1, <1>4, <1>5, <1>7, <1>8, <1>9, <1>10 DEF BuildInv

\* What every step has to keep besides the shape and the controllers.
Kept == /\ registered' \in Seq(Routes) /\ queue' \in Seq(Segments) /\ valid' \in BOOLEAN
        /\ at' \in DOMAIN nodes' /\ nodes' \in Seq(NodeSet) /\ nodes' # <<>>

\* A step after which no route is on its way keeps the invariant if it leaves
\* a good tree.
LEMMA AtRest ==
    ASSUME Kept, phase' \notin {"inserting", "placing"},
           NEW p, WellShaped(nodes', 0, p),
           Handled(nodes', Len(registered'), valid'), Rooted(nodes')
    PROVE  BuildInv'
<1>1. ~Busy' /\ Fresh' = 0 /\ Past' = Len(registered')
  BY DEF Busy, Fresh, Past
<1>2. WellShaped(nodes', Fresh', path')
  BY <1>1, ShapeAlone, DomainOfTree DEF Kept
<1> QED BY <1>1, <1>2 DEF BuildInv, Kept

\* So does a turn of insert's loop that leads to a node whose edge begins like
\* what is left of the route.
LEMMA GoesDown ==
    ASSUME Kept, phase' = "inserting", registered' # <<>>, Suffices(path', queue'),
           Sound(nodes', Len(registered') - 1, valid'),
           Begins(nodes'[at'].path, path'[1])
    PROVE  BuildInv'
<1>1. Busy' /\ Fresh' = 0 /\ Past' = Len(registered') - 1
  BY DEF Busy, Fresh, Past
<1>2. WellShaped(nodes', Fresh', path')
  BY <1>1, ShapeAlone, DomainOfTree DEF Kept, Sound
<1>3. Joins' /\ Rooted(nodes')
  BY DEF Joins, Sound, Begins, Rooted
<1> QED BY <1>1, <1>2, <1>3 DEF BuildInv, Kept, Sound

\* insertChild begins.
LEMMA Begun ==
    ASSUME Kept, phase' = "placing", registered' # <<>>, Suffices(path', queue'),
           WellShaped(nodes', IF nodes'[at'].path = <<>> THEN at' ELSE 0, path'),
           Handled(nodes', Len(registered') - 1, valid'), Rooted(nodes'), Places'
    PROVE  BuildInv'
<1>1. Busy' /\ Fresh' = (IF nodes'[at'].path = <<>> THEN at' ELSE 0)
      /\ Past' = Len(registered') - 1
  BY DEF Busy, Fresh, Past
<1> QED BY <1>1 DEF BuildInv, Kept

\* addRoute: insert starts at the root, with the whole route
\* (router.cc:454-468).
LEMMA AddStep == ASSUME BuildInv, NEW route \in Routes, AddRoute(route) PROVE BuildInv'
<1>1. /\ phase = "building" /\ registered' = Append(registered, route) /\ nodes' = nodes
  BY DEF AddRoute
<1>2. Fresh = 0 /\ Past = Len(registered)
  BY <1>1 DEF Fresh, Past, Busy
<1>3. /\ registered \in Seq(Routes) /\ queue \in Seq(Segments) /\ valid \in BOOLEAN
      /\ nodes \in Seq(NodeSet) /\ nodes # <<>> /\ at \in DOMAIN nodes
      /\ WellShaped(nodes, 0, path) /\ Handled(nodes, Len(registered), valid) /\ Rooted(nodes)
  BY <1>2 DEF BuildInv
<1>4. /\ registered' \in Seq(Routes) /\ Len(registered') = Len(registered) + 1
      /\ Len(registered) \in Nat /\ registered' # <<>>
  <2>1. /\ registered' \in Seq(Routes) /\ Len(registered') = Len(registered) + 1
        /\ Len(registered) \in Nat
    BY <1>1, <1>3, AppendIs
  <2> QED BY <2>1, EmptyIs
<1>5. CASE \E s \in ToSet(route.segments) : s.kind = "BAD"
  <2>1. valid' = FALSE /\ phase' = phase /\ at' = at /\ queue' = queue
    BY <1>5 DEF AddRoute
  <2>2. Handled(nodes, Len(registered) + 1, FALSE)
    BY <1>3, <1>4, LooseHandles
  <2>3. Kept
    BY <1>1, <1>3, <1>4, <2>1 DEF Kept
  <2> QED BY <1>1, <1>3, <1>4, <2>1, <2>2, <2>3, AtRest
<1>6. CASE ~ \E s \in ToSet(route.segments) : s.kind = "BAD"
  <2>1. /\ phase' = "inserting" /\ at' = 1 /\ path' = Calced(route)
        /\ queue' = Wildcards(route) /\ valid' = valid
    BY <1>6 DEF AddRoute
  <2>2. Suffices(path', queue') /\ path'[1] = "/" /\ queue' \in Seq(Segments)
    BY <2>1, CalcedIs DEF Suffices, Begins
  <2>3. Busy' /\ Fresh' = 0 /\ Past' = Len(registered)
    BY <2>1, <1>4 DEF Busy, Fresh, Past
  <2>4. WellShaped(nodes', Fresh', path')
    BY <1>1, <1>3, <2>3, ShapeAlone, DomainOfTree
  <2>5. Joins'
    BY <1>1, <1>3, <2>1, <2>2 DEF Joins, Rooted, Blank, Begins
  <2>6. at' \in DOMAIN nodes'
    BY <1>1, <1>3, <2>1, DomainOfTree
  <2> QED BY <1>1, <1>3, <1>4, <2>1, <2>2, <2>3, <2>4, <2>5, <2>6 DEF BuildInv
<1> QED BY <1>5, <1>6

\* A tree with an edge at its root is not empty.
LEMMA SoundRooted == ASSUME NEW t, NEW m, NEW ok, Sound(t, m, ok) PROVE Rooted(t)
BY DEF Sound, Rooted

\* An insertion returns with a tree that has the route's controller, or has
\* given the route up.
LEMMA ReturnStep ==
    ASSUME NEW t \in Seq(NodeSet), t # <<>>, nodes' = t, NEW ok \in BOOLEAN,
           NEW left \in Seq(Segments), Returns(ok, left),
           registered \in Seq(Routes), valid \in BOOLEAN,
           NEW p, WellShaped(t, 0, p), Rooted(t),
           Handled(t, Len(registered), valid /\ ok)
    PROVE  BuildInv'
<1>1. /\ phase' \notin {"inserting", "placing"} /\ valid' = (valid /\ ok)
      /\ queue' = left /\ at' = 1 /\ registered' = registered
  BY DEF Returns
<1>2. Kept
  BY <1>1, DomainOfTree DEF Kept
<1> QED BY <1>1, <1>2, AtRest

\* An insertion that fails leaves a good tree, cut or not.
LEMMA FailStep ==
    ASSUME NEW t, nodes' = t, NEW left \in Seq(Segments), Returns(FALSE, left),
           registered \in Seq(Routes), valid \in BOOLEAN, Len(registered) - 1 \in Nat,
           NEW ok, Sound(t, Len(registered) - 1, ok)
    PROVE  BuildInv'
<1>1. t \in Seq(NodeSet) /\ t # <<>> /\ WellShaped(t, 0, <<>>) /\ Rooted(t)
      /\ Handled(t, Len(registered) - 1, ok)
  BY SoundRooted DEF Sound
<1>2. Handled(t, (Len(registered) - 1) + 1, FALSE)
  BY <1>1, LooseHandles
<1>3. Len(registered) \in Nat /\ (Len(registered) - 1) + 1 = Len(registered)
  OBVIOUS
<1>4. (valid /\ FALSE) = FALSE
  OBVIOUS
<1>5. Handled(t, Len(registered), valid /\ FALSE)
  BY <1>2, <1>3, <1>4
<1> QED BY <1>1, <1>5, ReturnStep

(***************************************************************************)
(* RawTree::insert.                                                        *)
(***************************************************************************)

\* The first route of a tree goes to the root (router.cc:474-477).
LEMMA FirstStep == ASSUME BuildInv, InsertFirst PROVE BuildInv'
<1>1. /\ phase = "inserting" /\ at = 1 /\ nodes[1].path = <<>> /\ nodes[1].indices = <<>>
      /\ phase' = "placing" /\ at' = at /\ path' = path
      /\ UNCHANGED <<registered, valid, nodes, queue>>
  BY DEF InsertFirst, GoesOn
<1>2. Kept /\ registered' # <<>> /\ Suffices(path', queue')
  BY <1>1 DEF BuildInv, Kept, Busy
<1>3. Blank(nodes[1]) /\ path[1] = "/"
  BY <1>1 DEF BuildInv, Rooted, Begins, Joins
<1>4. Fresh = 0 /\ Past = Len(registered) - 1
  BY <1>1 DEF Fresh, Past, Busy
<1>5. WellShaped(nodes', 1, path')
  <2> SUFFICES ASSUME NEW n \in DOMAIN nodes PROVE NodeFits(nodes, 1, path, n)
    BY <1>1 DEF WellShaped
  <2>1. NodeFits(nodes, 0, path, n)
    BY <1>4 DEF BuildInv, WellShaped
  <2>2. \A k \in DOMAIN nodes : \A c : Joined(nodes, 0, path, k, c) => Joined(nodes, 1, path, k, c)
    <3>1. 0 \notin DOMAIN nodes
      BY DomainOfTree DEF BuildInv
    <3> QED BY <1>1, <3>1 DEF Joined, Begins
  <2>3. ParamFits(nodes, 1, path, n)
    BY <2>1, <2>2 DEF NodeFits, ParamFits
  <2>4. StaticFits(nodes, 1, path, n)
    <3>1. n # 0
      BY DomainOfTree DEF BuildInv
    <3> QED BY <2>1, <2>2, <3>1 DEF NodeFits, StaticFits
  <2> QED BY <2>1, <2>3, <2>4 DEF NodeFits
<1>6. Handled(nodes', Len(registered') - 1, valid') /\ Rooted(nodes')
  BY <1>1, <1>4 DEF BuildInv
<1>7. Places'
  BY <1>1, <1>3 DEF Places
<1>8. nodes'[at'].path = <<>> /\ at' = 1
  BY <1>1
<1> QED BY <1>1, <1>2, <1>5, <1>6, <1>7, <1>8, Begun

\* insert in a tree that is not empty: the node has been cut, and Rest is
\* what is left of the route.
LEMMA InsertingIs ==
    ASSUME BuildInv, phase = "inserting", nodes[1].path # <<>>
    PROVE  /\ registered \in Seq(Routes) /\ registered # <<>> /\ Len(registered) - 1 \in Nat
           /\ queue \in Seq(Segments) /\ valid \in BOOLEAN
           /\ Sound(Cut, Len(registered) - 1, valid)
           /\ at \in DOMAIN Cut /\ 1 \in DOMAIN Cut /\ 0 \notin DOMAIN Cut
           /\ Cut[at] \in NodeSet /\ NodeFits(Cut, 0, <<>>, at)
           /\ Rest \in Seq(Chars)
           /\ Rest # <<>> => Suffices(Rest, queue)
           /\ Rest # <<>> /\ Cut[at].path = <<":">> => Rest[1] = "/"
           /\ Cut[at].path # <<>>
<1>1. /\ registered \in Seq(Routes) /\ registered # <<>> /\ queue \in Seq(Segments)
      /\ valid \in BOOLEAN /\ nodes \in Seq(NodeSet) /\ nodes # <<>> /\ at \in DOMAIN nodes
      /\ path \in Seq(Chars) /\ path # <<>> /\ Slashed(path)
      /\ Cardinality(Colons(path)) <= Len(queue)
      /\ Begins(nodes[at].path, path[1])
  BY DEF BuildInv, Busy, Suffices, Joins
<1>2. Len(registered) - 1 \in Nat
  BY <1>1, EmptySeq
<1>3. Fresh = 0 /\ Past = Len(registered) - 1
  BY DEF Fresh, Past, Busy
<1>4. Sound(nodes, Len(registered) - 1, valid)
  <2>1. Begins(nodes[1].path, "/")
    BY DEF BuildInv, Rooted, Blank
  <2>2. WellShaped(nodes, 0, <<>>)
    BY <1>1, <1>3, ShapeAlone, DomainOfTree DEF BuildInv
  <2> QED BY <1>1, <1>3, <2>1, <2>2 DEF BuildInv, Sound
<1>5. /\ Sound(Cut, Len(registered) - 1, valid) /\ DOMAIN nodes \subseteq DOMAIN Cut
      /\ Begins(Cut[at].path, path[1])
      /\ Len(Cut[at].path) = Shared /\ Shared \in 1..Len(path)
  BY <1>1, <1>2, <1>4, CutIs
<1> HIDE DEF Shared, Cut
<1>6. /\ at \in DOMAIN Cut /\ 1 \in DOMAIN Cut /\ 0 \notin DOMAIN Cut
      /\ Cut[at] \in NodeSet /\ NodeFits(Cut, 0, <<>>, at)
  BY <1>1, <1>5, DomainOfTree DEF Sound, WellShaped
<1>7. /\ Rest \in Seq(Chars) /\ Len(Rest) = Len(path) - (Shared + 1) + 1
      /\ \A j \in 1..Len(Rest) : Rest[j] = path[(Shared + 1) + j - 1]
      /\ Slashed(Rest)
      /\ Cardinality(Colons(Rest)) <= Cardinality(Colons(path))
  <2>1. Len(path) \in Nat /\ Shared + 1 \in 1..(Len(path) + 1)
    BY <1>1, <1>5
  <2> QED BY <1>1, <2>1, SuffixIs DEF Rest
<1>8. Rest # <<>> => Suffices(Rest, queue)
  <2>1. Len(queue) \in Nat /\ Cardinality(Colons(Rest)) \in Nat /\ Cardinality(Colons(path)) \in Nat
    BY <1>1, <1>7, ColonsFinite
  <2> QED BY <1>1, <1>7, <2>1 DEF Suffices
<1>9. ASSUME Rest # <<>>, Cut[at].path = <<":">> PROVE Rest[1] = "/"
  <2>1. Len(<<":">>) = 1 /\ <<":">>[1] = ":"
    OBVIOUS
  <2>2. Shared = 1 /\ path[1] = ":"
    BY <1>5, <1>9, <2>1 DEF Begins
  <2>3. Len(path) \in Nat /\ Len(Rest) \in Nat /\ Len(Rest) # 0
    BY <1>1, <1>7, <1>9, EmptySeq
  <2>4. 1 \in 1..Len(Rest) /\ 1 \in 1..(Len(path) - 1)
    BY <1>7, <2>2, <2>3
  <2>5. Rest[1] = path[1 + 1]
    BY <1>7, <2>2, <2>4
  <2> QED BY <1>1, <2>2, <2>4, <2>5 DEF Slashed
<1>10. Cut[at].path # <<>>
  BY <1>5 DEF Begins
<1> QED BY <1>1, <1>2, <1>5, <1>6, <1>7, <1>8, <1>9, <1>10

\* insert goes through a wildcard or gives up (router.cc:503-513).
LEMMA ThroughStep == ASSUME BuildInv, InsertThroughWildcard PROVE BuildInv'
<1> DEFINE c == Cut[at].children[1]
<1>1. /\ phase = "inserting" /\ nodes[1].path # <<>> /\ nodes' = Cut
      /\ Rest # <<>> /\ Cut[at].wild
      /\ IF Through(Cut[c]) THEN GoesOn("inserting", c, Rest) /\ UNCHANGED queue
                            ELSE Returns(FALSE, queue)
  BY DEF InsertThroughWildcard, Inserting
<1>2. /\ registered \in Seq(Routes) /\ registered # <<>> /\ Len(registered) - 1 \in Nat
      /\ queue \in Seq(Segments) /\ valid \in BOOLEAN
      /\ Sound(Cut, Len(registered) - 1, valid)
      /\ at \in DOMAIN Cut /\ Cut[at] \in NodeSet /\ NodeFits(Cut, 0, <<>>, at)
      /\ Rest \in Seq(Chars) /\ Suffices(Rest, queue)
  BY <1>1, InsertingIs
<1> HIDE DEF Cut, Rest
<1>3. CASE Through(Cut[c])
  <2>1. /\ phase' = "inserting" /\ at' = c /\ path' = Rest /\ registered' = registered
        /\ valid' = valid /\ queue' = queue
    BY <1>1, <1>3 DEF GoesOn
  <2>2. c \in DOMAIN Cut /\ IsWildcard(Cut[c])
    <3>1. Len(Cut[at].children) = 1 /\ IsWildcard(Cut[c])
      BY <1>1, <1>2 DEF NodeFits, WildFits
    <3>2. 1 \in DOMAIN Cut[at].children
      BY <1>2, <3>1, NodeTypes
    <3> QED BY <1>2, <3>1, <3>2 DEF NodeFits
  <2>3. Begins(Cut[c].path, Rest[1])
    <3>1. Cut[c].path = <<":">> /\ IsPrefix(Cut[c].path, Rest)
      BY <1>3, <2>2 DEF Through, IsWildcard
    <3>2. Len(<<":">>) = 1 /\ <<":">>[1] = ":" /\ SubSeq(<<":">>, 1, 1)[1] = ":" /\ <<":">> # <<>>
      OBVIOUS
    <3>3. SubSeq(<<":">>, 1, 1) = SubSeq(Rest, 1, 1) /\ 1 <= Len(Rest)
      BY <3>1, <3>2 DEF IsPrefix
    <3>4. 1 \in 0..Len(Rest) /\ 1 \in 1..1
      BY <3>3, <1>2
    <3>5. SubSeq(Rest, 1, 1)[1] = Rest[1]
      BY <1>2, <3>4, UpToIs
    <3> QED BY <3>1, <3>2, <3>3, <3>5 DEF Begins
  <2>4. Kept
    BY <1>1, <1>2, <2>1, <2>2 DEF Kept, Sound
  <2>5. /\ Suffices(path', queue') /\ Sound(nodes', Len(registered') - 1, valid')
        /\ Begins(nodes'[at'].path, path'[1])
    BY <1>1, <1>2, <2>1, <2>3
  <2> QED BY <1>2, <2>1, <2>4, <2>5, GoesDown
<1>4. CASE ~Through(Cut[c])
  BY <1>1, <1>2, <1>4, FailStep
<1> QED BY <1>3, <1>4

\* insert goes to the child whose index is next (router.cc:517-528).
LEMMA IntoChildStep == ASSUME BuildInv, InsertIntoChild PROVE BuildInv'
<1>1. /\ phase = "inserting" /\ nodes[1].path # <<>> /\ nodes' = Cut
      /\ Rest # <<>> /\ ~Cut[at].wild /\ queue' = queue
  BY DEF InsertIntoChild, Inserting
<1>2. PICK c \in ToSet(Cut[at].children) :
         /\ IF AfterParam(Cut[at]) THEN c = Cut[at].children[1]
                                   ELSE c = Indice(Cut[at], Rest[1])
         /\ GoesOn("inserting", c, Rest)
  BY DEF InsertIntoChild
<1>3. /\ registered \in Seq(Routes) /\ registered # <<>> /\ Len(registered) - 1 \in Nat
      /\ queue \in Seq(Segments) /\ valid \in BOOLEAN
      /\ Sound(Cut, Len(registered) - 1, valid)
      /\ at \in DOMAIN Cut /\ Cut[at] \in NodeSet /\ NodeFits(Cut, 0, <<>>, at)
      /\ 0 \notin DOMAIN Cut
      /\ Rest \in Seq(Chars) /\ Suffices(Rest, queue)
      /\ Cut[at].path = <<":">> => Rest[1] = "/"
  BY <1>1, InsertingIs
<1> HIDE DEF Cut, Rest
<1> DEFINE n == Cut[at]
<1>4. /\ phase' = "inserting" /\ at' = c /\ path' = Rest /\ registered' = registered
      /\ valid' = valid
  BY <1>2 DEF GoesOn
<1>5. PICK i \in DOMAIN n.children : n.children[i] = c
  BY <1>2 DEF ToSet
<1>6. c \in DOMAIN Cut /\ c # 0
  BY <1>3, <1>5 DEF NodeFits
<1>7. Begins(Cut[c].path, Rest[1])
  <2>1. CASE n.type = "PARAM"
    <3>1. n.path = <<":">> /\ Joined(Cut, 0, <<>>, c, "/")
      BY <1>1, <1>3, <1>5, <2>1 DEF NodeFits, ParamFits
    <3> QED BY <1>3, <1>6, <3>1 DEF Joined
  <2>2. CASE n.type # "PARAM"
    <3>1. c = Indice(n, Rest[1])
      BY <1>2, <2>2 DEF AfterParam
    <3>2. /\ Len(n.indices) = Len(n.children)
          /\ \A j \in DOMAIN n.children : Joined(Cut, 0, <<>>, n.children[j], n.indices[j])
      <4>1. at # 0
        BY <1>3
      <4> QED BY <1>1, <1>3, <2>2, <4>1 DEF NodeFits, StaticFits
    <3>3. PICK j \in DOMAIN n.indices : n.indices[j] = Rest[1] /\ c = n.children[j]
      BY <1>3, <1>6, <3>1, <3>2, IndiceIs
    <3>4. j \in DOMAIN n.children
      BY <1>3, <3>2, <3>3, NodeTypes
    <3>5. Joined(Cut, 0, <<>>, c, Rest[1])
      BY <3>2, <3>3, <3>4
    <3> QED BY <1>6, <3>5 DEF Joined
  <2> QED BY <2>1, <2>2
<1>8. Kept
  BY <1>1, <1>3, <1>4, <1>6 DEF Kept, Sound
<1>9. /\ Suffices(path', queue') /\ Sound(nodes', Len(registered') - 1, valid')
      /\ Begins(nodes'[at'].path, path'[1])
  BY <1>1, <1>3, <1>4, <1>7
<1> QED BY <1>3, <1>4, <1>8, <1>9, GoesDown

\* A route that ends at a node puts its controller there, or is a duplicate
\* (router.cc:540-547).
LEMMA HereStep == ASSUME BuildInv, InsertHere PROVE BuildInv'
<1> DEFINE m == Len(registered) - 1
           n == Cut[at]
           up == [n EXCEPT !.handle = Ctrl]
           t2 == [Cut EXCEPT ![at] = up]
<1>1. /\ phase = "inserting" /\ nodes[1].path # <<>> /\ Rest = <<>>
      /\ IF n.handle # 0 THEN nodes' = Cut /\ Returns(FALSE, queue)
                         ELSE nodes' = t2 /\ Returns(TRUE, queue)
  BY DEF InsertHere
<1>2. /\ registered \in Seq(Routes) /\ m \in Nat /\ queue \in Seq(Segments) /\ valid \in BOOLEAN
      /\ Sound(Cut, m, valid)
      /\ at \in DOMAIN Cut /\ n \in NodeSet /\ NodeFits(Cut, 0, <<>>, at)
      /\ 0 \notin DOMAIN Cut
  BY <1>1, InsertingIs
<1>3. Cut \in Seq(NodeSet) /\ WellShaped(Cut, 0, <<>>) /\ Handled(Cut, m, valid)
      /\ Begins(Cut[1].path, "/")
  BY <1>2 DEF Sound
<1> HIDE DEF Cut
<1>4. CASE n.handle # 0
  BY <1>1, <1>2, <1>4, FailStep
<1>5. CASE n.handle = 0
  <2>1. nodes' = t2 /\ Returns(TRUE, queue)
    BY <1>1, <1>5
  <2>2. /\ up \in NodeSet /\ up.handle = m + 1 /\ up.path = n.path /\ up.type = n.type
        /\ up.indices = n.indices /\ up.children = n.children /\ up.wild = n.wild
    <3>1. Ctrl = m + 1 /\ Ctrl \in Nat
      BY <1>2 DEF Ctrl
    <3> QED BY <3>1, <1>2 DEF NodeSet
  <2> HIDE DEF up
  <2>3. /\ t2 \in Seq(NodeSet) /\ DOMAIN t2 = DOMAIN Cut /\ t2[at] = up
        /\ \A k \in DOMAIN Cut : k # at => t2[k] = Cut[k]
    BY <1>2, <1>3, <2>2, ExceptIs
  <2> HIDE DEF t2
  <2>4. \A c : Joined(Cut, 0, <<>>, at, c) => Joined(t2, 0, <<>>, at, c)
    BY <1>2, <2>2, <2>3 DEF Joined
  <2>5. IsWildcard(Cut[at]) => IsWildcard(t2[at])
    BY <1>5, <2>2, <2>3 DEF IsWildcard
  <2>6. /\ \A k \in DOMAIN Cut : k # at => NodeFits(t2, 0, <<>>, k)
        /\ \A k \in DOMAIN Cut : \A c : Joined(Cut, 0, <<>>, k, c) => Joined(t2, 0, <<>>, k, c)
        /\ \A k \in DOMAIN Cut : IsWildcard(Cut[k]) => IsWildcard(t2[k])
    <3>1. Touches(at, Cut, 0, <<>>, t2, 0, <<>>)
      BY <1>2, <1>3, <2>3, <2>4, <2>5 DEF Touches
    <3> QED BY <3>1, OthersFit
  <2>7. NodeFits(t2, 0, <<>>, at)
    <3>1. /\ t2[at].path = n.path /\ t2[at].type = n.type /\ t2[at].indices = n.indices
          /\ t2[at].children = n.children /\ t2[at].wild = n.wild
      BY <2>2, <2>3
    <3>2. \A i \in DOMAIN n.children : n.children[i] \in DOMAIN Cut
      BY <1>2 DEF NodeFits
    <3>3. WildFits(t2, at)
      <4> SUFFICES ASSUME n.wild PROVE Len(n.children) = 1 /\ IsWildcard(t2[n.children[1]])
        BY <3>1 DEF WildFits
      <4>1. Len(n.children) = 1 /\ IsWildcard(Cut[n.children[1]])
        BY <1>2 DEF NodeFits, WildFits
      <4>2. 1 \in DOMAIN n.children
        BY <1>2, <4>1, NodeTypes
      <4> QED BY <2>6, <3>2, <4>1, <4>2
    <3>4. ParamFits(t2, 0, <<>>, at)
      BY <1>2, <2>6, <3>1, <3>2 DEF NodeFits, ParamFits
    <3>5. StaticFits(t2, 0, <<>>, at)
      BY <1>2, <2>6, <3>1, <3>2 DEF NodeFits, StaticFits
    <3> QED BY <2>3, <3>1, <3>2, <3>3, <3>4, <3>5 DEF NodeFits
  <2>8. WellShaped(t2, 0, <<>>)
    BY <2>3, <2>6, <2>7 DEF WellShaped
  <2>9. Handled(t2, Len(registered), valid /\ TRUE)
    <3>1. Handled(t2, m + 1, valid)
      <4>1. /\ t2[at].handle = m + 1 /\ Cut[at].handle = 0 /\ at \in DOMAIN t2
            /\ \A k \in DOMAIN Cut : k # at => t2[k].handle = Cut[k].handle
        BY <1>2, <1>5, <2>2, <2>3
      <4>2. /\ m \in Nat /\ valid \in BOOLEAN /\ Handled(Cut, m, valid)
            /\ DOMAIN Cut \subseteq DOMAIN t2
            /\ \A k \in DOMAIN t2 : k \notin DOMAIN Cut /\ k # at => t2[k].handle = 0
        BY <1>2, <1>3, <2>3
      <4> HIDE DEF m, n
      <4> QED BY <4>1, <4>2, NewHandle
    <3>2. m + 1 = Len(registered) /\ (valid /\ TRUE) = valid
      BY <1>2
    <3> QED BY <3>1, <3>2
  <2>10. Rooted(t2) /\ t2 # <<>>
    <3>1. 1 \in DOMAIN Cut /\ t2 # <<>>
      BY <1>2, <1>3, <2>3, DomainOfTree DEF Sound
    <3>2. t2[1].path = Cut[1].path
      BY <2>2, <2>3, <3>1
    <3> QED BY <1>3, <3>1, <3>2 DEF Rooted
  <2> QED BY <1>2, <2>1, <2>3, <2>8, <2>9, <2>10, ReturnStep
<1> QED BY <1>4, <1>5

\* insert adds a child for insertChild, with its index (router.cc:530-537).
LEMMA NewChildStep == ASSUME BuildInv, InsertNewChild PROVE BuildInv'
<1> DEFINE m == Len(registered) - 1
           n == Cut[at]
           new == Len(Cut) + 1
           leaf == Node("STATIC")
           up == [n EXCEPT !.indices = Append(@, Rest[1]), !.children = Append(@, new)]
           t1 == [Cut EXCEPT ![at] = up]
           t2 == Append(t1, leaf)
<1>1. /\ phase = "inserting" /\ nodes[1].path # <<>> /\ Rest # <<>> /\ ~n.wild
      /\ ~AfterParam(n) /\ Indice(n, Rest[1]) = 0 /\ queue' = queue
  BY DEF InsertNewChild
<1>2. /\ registered \in Seq(Routes) /\ registered # <<>> /\ m \in Nat
      /\ queue \in Seq(Segments) /\ valid \in BOOLEAN
      /\ Sound(Cut, m, valid) /\ at \in DOMAIN Cut /\ n \in NodeSet
      /\ NodeFits(Cut, 0, <<>>, at) /\ 1 \in DOMAIN Cut /\ 0 \notin DOMAIN Cut
      /\ Rest \in Seq(Chars) /\ Suffices(Rest, queue)
      /\ n.path = <<":">> => Rest[1] = "/"
      /\ n.path # <<>>
  BY <1>1, InsertingIs
<1>3. Cut \in Seq(NodeSet) /\ WellShaped(Cut, 0, <<>>) /\ Handled(Cut, m, valid)
      /\ Begins(Cut[1].path, "/") /\ Cut # <<>>
  BY <1>2 DEF Sound
<1>4. /\ Rest[1] = ":" => nodes' = Cut /\ GoesOn("placing", at, Rest)
      /\ Rest[1] # ":" => /\ GoesOn("placing", new, Rest)
                          /\ nodes' = Append([Cut EXCEPT ![at].indices = Append(@, Rest[1]),
                                                         ![at].children = Append(@, new)], leaf)
  BY DEF InsertNewChild
<1> HIDE DEF Cut, Rest
<1>5. CASE Rest[1] = ":"
  <2>1. /\ phase' = "placing" /\ at' = at /\ path' = Rest /\ registered' = registered
        /\ valid' = valid /\ nodes' = Cut
    BY <1>4, <1>5 DEF GoesOn
  <2>2. Kept
    BY <1>1, <1>2, <1>3, <2>1 DEF Kept
  <2>3. WellShaped(nodes', 0, path')
    BY <1>2, <1>3, <2>1, ShapeAlone
  <2>4. Places'
    BY <1>1, <1>2, <1>3, <1>5, <2>1 DEF Places, Begins
  <2>5. nodes'[at'].path # <<>> /\ Rooted(nodes')
    BY <1>2, <1>3, <2>1 DEF Rooted
  <2> QED BY <1>1, <1>2, <1>3, <2>1, <2>2, <2>3, <2>4, <2>5, Begun
<1>6. CASE Rest[1] # ":"
  <2>1. /\ phase' = "placing" /\ at' = new /\ path' = Rest /\ registered' = registered
        /\ valid' = valid /\ nodes' = t2
    <3>1. /\ phase' = "placing" /\ at' = new /\ path' = Rest /\ registered' = registered
          /\ valid' = valid
      BY <1>4, <1>6 DEF GoesOn
    <3>2. [Cut EXCEPT ![at].indices = Append(@, Rest[1]), ![at].children = Append(@, new)] = t1
      BY <1>2 DEF NodeSet
    <3> QED BY <1>4, <1>6, <3>1, <3>2
  <2>2. /\ Len(Cut) \in Nat /\ DOMAIN Cut = 1..Len(Cut) /\ new \in Nat \ {0}
        /\ new \notin DOMAIN Cut /\ new # 1 /\ Rest[1] \in Chars /\ at # 0 /\ at # new
    <3>1. Len(Cut) \in Nat /\ DOMAIN Cut = 1..Len(Cut)
      BY <1>3, LenProperties
    <3>2. Rest[1] \in Chars
      <4>1. Len(Rest) \in Nat /\ Len(Rest) # 0
        BY <1>1, <1>2, EmptySeq
      <4> QED BY <1>2, <4>1
    <3> QED BY <1>2, <3>1, <3>2
  <2>3. /\ Append(n.indices, Rest[1]) \in Seq(Chars)
        /\ Len(Append(n.indices, Rest[1])) = Len(n.indices) + 1
        /\ Append(n.children, new) \in Seq(Nat \ {0})
        /\ Len(Append(n.children, new)) = Len(n.children) + 1
        /\ DOMAIN Append(n.indices, Rest[1]) = 1..(Len(n.indices) + 1)
        /\ DOMAIN Append(n.children, new) = 1..(Len(n.children) + 1)
        /\ \A i \in 1..Len(n.indices) : Append(n.indices, Rest[1])[i] = n.indices[i]
        /\ Append(n.indices, Rest[1])[Len(n.indices) + 1] = Rest[1]
        /\ \A i \in 1..Len(n.children) : Append(n.children, new)[i] = n.children[i]
        /\ Append(n.children, new)[Len(n.children) + 1] = new
        /\ DOMAIN n.indices = 1..Len(n.indices) /\ DOMAIN n.children = 1..Len(n.children)
        /\ Len(n.indices) \in Nat /\ Len(n.children) \in Nat
    <3>1. n.indices \in Seq(Chars) /\ n.children \in Seq(Nat \ {0})
      BY <1>2, NodeTypes
    <3>2. /\ Append(n.indices, Rest[1]) \in Seq(Chars)
          /\ Len(Append(n.indices, Rest[1])) = Len(n.indices) + 1 /\ Len(n.indices) \in Nat
          /\ DOMAIN Append(n.indices, Rest[1]) = 1..(Len(n.indices) + 1)
          /\ DOMAIN n.indices = 1..Len(n.indices)
          /\ \A i \in 1..Len(n.indices) : Append(n.indices, Rest[1])[i] = n.indices[i]
          /\ Append(n.indices, Rest[1])[Len(n.indices) + 1] = Rest[1]
      BY <2>2, <3>1, AppendIs
    <3>3. /\ Append(n.children, new) \in Seq(Nat \ {0})
          /\ Len(Append(n.children, new)) = Len(n.children) + 1 /\ Len(n.children) \in Nat
          /\ DOMAIN Append(n.children, new) = 1..(Len(n.children) + 1)
          /\ DOMAIN n.children = 1..Len(n.children)
          /\ \A i \in 1..Len(n.children) : Append(n.children, new)[i] = n.children[i]
          /\ Append(n.children, new)[Len(n.children) + 1] = new
      BY <2>2, <3>1, AppendIs
    <3> QED BY <3>2, <3>3
  <2>4. /\ up \in NodeSet /\ up.handle = n.handle /\ up.path = n.path /\ up.type = n.type
        /\ up.indices = Append(n.indices, Rest[1]) /\ up.children = Append(n.children, new)
        /\ up.wild = n.wild
    BY <1>2, <2>3 DEF NodeSet
  <2>5. /\ leaf \in NodeSet /\ leaf.path = <<>> /\ leaf.children = <<>> /\ leaf.handle = 0
        /\ ~leaf.wild /\ leaf.type = "STATIC"
    <3>1. <<>> \in Seq(Chars) /\ <<>> \in Seq(Nat \ {0})
      OBVIOUS
    <3> QED BY <3>1 DEF Node, NodeSet
  <2> HIDE DEF up, leaf
  <2>6. /\ t1 \in Seq(NodeSet) /\ Len(t1) = Len(Cut) /\ DOMAIN t1 = DOMAIN Cut /\ t1[at] = up
        /\ \A k \in DOMAIN Cut : k # at => t1[k] = Cut[k]
    BY <1>2, <1>3, <2>4, ExceptIs
  <2> HIDE DEF t1
  <2>7. /\ t2 \in Seq(NodeSet) /\ DOMAIN t2 = 1..new /\ t2[at] = up /\ t2[new] = leaf
        /\ \A k \in DOMAIN Cut : k # at => t2[k] = Cut[k]
        /\ DOMAIN Cut \subseteq DOMAIN t2 /\ new \in DOMAIN t2
        /\ \A k \in DOMAIN t2 : k \in DOMAIN Cut \/ k = new
    <3>1. /\ t2 \in Seq(NodeSet) /\ DOMAIN t2 = 1..(Len(t1) + 1)
          /\ \A j \in 1..Len(t1) : t2[j] = t1[j]
          /\ t2[Len(t1) + 1] = leaf
      BY <2>5, <2>6, AppendIs
    <3> QED BY <1>2, <2>2, <2>6, <3>1
  <2> HIDE DEF t2, new
  <2>8. \A c : Joined(Cut, 0, <<>>, at, c) => Joined(t2, new, Rest, at, c)
    BY <1>2, <2>2, <2>4, <2>7 DEF Joined
  <2>9. /\ \A k \in DOMAIN Cut : k # at => NodeFits(t2, new, Rest, k)
        /\ \A k \in DOMAIN Cut : \A c : Joined(Cut, 0, <<>>, k, c) => Joined(t2, new, Rest, k, c)
    <3>1. IsWildcard(Cut[at]) => IsWildcard(t2[at])
      BY <2>4, <2>7 DEF IsWildcard
    <3>2. Touches(at, Cut, 0, <<>>, t2, new, Rest)
      BY <1>2, <1>3, <2>2, <2>7, <2>8, <3>1 DEF Touches
    <3> QED BY <3>2, OthersFit
  <2>10. Joined(t2, new, Rest, new, Rest[1])
    BY DEF Joined
  <2>11. NodeFits(t2, new, Rest, at)
    <3>1. \A i \in DOMAIN n.children : n.children[i] \in DOMAIN Cut
      BY <1>2 DEF NodeFits
    <3>2. \A i \in DOMAIN up.children :
             \/ i \in DOMAIN n.children /\ up.children[i] = n.children[i]
             \/ i = Len(n.children) + 1 /\ up.children[i] = new
      BY <2>3, <2>4
    <3>3. ParamFits(t2, new, Rest, at)
      <4> SUFFICES ASSUME n.type = "PARAM"
                   PROVE  /\ n.path = <<":">> /\ Len(up.children) <= 1
                          /\ Len(up.indices) <= Len(up.children)
                          /\ \A i \in DOMAIN up.children : Joined(t2, new, Rest, up.children[i], "/")
        BY <2>4, <2>7 DEF ParamFits
      <4>1. /\ n.path = <<":">> /\ Len(n.children) <= 1 /\ Rest[1] = "/"
            /\ Len(n.indices) <= Len(n.children)
        BY <1>1, <1>2 DEF NodeFits, ParamFits
      <4> DEFINE l == Len(n.children)
      <4>2. l = 0
        <5>1. l \in Nat
          BY <2>3
        <5>2. l # 1
          BY <1>1, <4>1 DEF AfterParam
        <5>3. l <= 1
          BY <4>1
        <5> HIDE DEF l
        <5> QED BY <5>1, <5>2, <5>3
      <4> QED BY <2>3, <2>4, <2>10, <3>2, <4>1, <4>2
    <3>4. StaticFits(t2, new, Rest, at)
      <4> SUFFICES ASSUME n.type # "PARAM"
                   PROVE  /\ Len(up.indices) = Len(up.children) /\ IsInjective(up.indices)
                          /\ \A i \in DOMAIN up.children :
                                Joined(t2, new, Rest, up.children[i], up.indices[i])
        BY <2>4, <2>7 DEF StaticFits
      <4>1. /\ Len(n.indices) = Len(n.children) /\ IsInjective(n.indices)
            /\ \A i \in DOMAIN n.children : Joined(Cut, 0, <<>>, n.children[i], n.indices[i])
        BY <1>1, <1>2, <2>2 DEF NodeFits, StaticFits
      <4>2. \A i \in DOMAIN n.indices : n.indices[i] # Rest[1]
        BY <1>1, <1>2, <4>1, IndiceIs
      <4>3. IsInjective(up.indices)
        <5> SUFFICES ASSUME NEW i \in DOMAIN up.indices, NEW j \in DOMAIN up.indices,
                            up.indices[i] = up.indices[j]
                     PROVE  i = j
          BY DEF IsInjective
        <5>1. \A k \in DOMAIN up.indices :
                 \/ k \in DOMAIN n.indices /\ up.indices[k] = n.indices[k]
                 \/ k = Len(n.indices) + 1 /\ up.indices[k] = Rest[1]
          BY <2>3, <2>4
        <5> QED BY <4>1, <4>2, <5>1 DEF IsInjective
      <4>4. ASSUME NEW i \in DOMAIN up.children
            PROVE  Joined(t2, new, Rest, up.children[i], up.indices[i])
        <5>1. CASE i \in DOMAIN n.children
          <6>1. up.children[i] = n.children[i] /\ up.indices[i] = n.indices[i]
            BY <2>3, <2>4, <4>1, <5>1
          <6> QED BY <2>9, <3>1, <4>1, <5>1, <6>1
        <5>2. CASE i \notin DOMAIN n.children
          <6>1. up.children[i] = new /\ up.indices[i] = Rest[1]
            BY <2>3, <2>4, <3>2, <4>1, <5>2
          <6> QED BY <2>10, <6>1
        <5> QED BY <5>1, <5>2
      <4> QED BY <2>3, <2>4, <4>1, <4>3, <4>4
    <3>5. \A i \in DOMAIN t2[at].children : t2[at].children[i] \in DOMAIN t2
      BY <2>7, <3>1, <3>2
    <3>6. WildFits(t2, at)
      BY <1>1, <2>4, <2>7 DEF WildFits
    <3> QED BY <3>3, <3>4, <3>5, <3>6 DEF NodeFits
  <2>12. NodeFits(t2, new, Rest, new)
    <3>1. DOMAIN t2[new].children = {}
      BY <2>5, <2>7
    <3>2. ParamFits(t2, new, Rest, new) /\ StaticFits(t2, new, Rest, new)
      BY <2>5, <2>7 DEF ParamFits, StaticFits
    <3> QED BY <2>5, <2>7, <3>1, <3>2 DEF NodeFits, WildFits
  <2>13. WellShaped(t2, new, Rest)
    BY <2>7, <2>9, <2>11, <2>12 DEF WellShaped
  <2>14. Handled(t2, m, valid)
    <3>1. \A k \in DOMAIN Cut : t2[k].handle = Cut[k].handle
      BY <2>4, <2>7
    <3>2. \A k \in DOMAIN t2 : k \notin DOMAIN Cut => t2[k].handle = 0
      BY <2>5, <2>7
    <3>3. /\ m \in Nat /\ valid \in BOOLEAN /\ Handled(Cut, m, valid)
          /\ DOMAIN Cut \subseteq DOMAIN t2
      BY <1>2, <1>3, <2>7
    <3> HIDE DEF m
    <3> QED BY <3>1, <3>2, <3>3, SameHandles
  <2>15. Rooted(t2)
    <3>1. t2[1].path = Cut[1].path
      BY <1>2, <2>4, <2>7
    <3> QED BY <1>3, <3>1 DEF Rooted
  <2>16. Places'
    BY <1>6, <2>1, <2>2, <2>5, <2>7 DEF Places, Blank
  <2>17. Kept
    BY <1>1, <1>2, <2>1, <2>7 DEF Kept
  <2> QED BY <1>1, <1>2, <2>1, <2>5, <2>7, <2>13, <2>14, <2>15, <2>16, <2>17, Begun
<1> QED BY <1>5, <1>6

(***************************************************************************)
(* RawTree::insertChild.                                                   *)
(***************************************************************************)

\* insertChild finds the first wildcard of the path (router.cc:144-153, 554).
LEMMA ColonIs ==
    ASSUME path \in Seq(Chars)
    PROVE  /\ Colon \in 0..Len(path)
           /\ Colon = 0 => \A i \in 1..Len(path) : path[i] # ":"
           /\ Colon # 0 => path[Colon] = ":" /\ \A i \in 1..(Colon - 1) : path[i] # ":"
<1> DEFINE I == {i \in 1..Len(path) : path[i] = ":"}
<1>1. Colon = IF I # {} THEN Min(I) ELSE 0
  BY DEF Colon, SelectInSeq
<1>2. I \in SUBSET Nat /\ Len(path) \in Nat
  OBVIOUS
<1>3. I # {} => Min(I) \in I /\ \A i \in I : Min(I) <= i
  BY <1>2, SelectsFirst
<1> HIDE DEF I
<1>4. CASE I = {}
  <2>1. Colon = 0 BY <1>1, <1>4
  <2> QED BY <2>1, <1>2, <1>4 DEF I
<1>5. CASE I # {}
  <2>1. Colon \in I /\ \A i \in I : Colon <= i
    BY <1>1, <1>3, <1>5
  <2>2. Colon \in 1..Len(path) /\ path[Colon] = ":"
    BY <2>1 DEF I
  <2>3. \A i \in 1..(Colon - 1) : path[i] # ":"
    BY <2>1, <2>2, <1>2 DEF I
  <2> QED BY <2>2, <2>3, <1>2
<1> QED BY <1>4, <1>5

\* insertChild: a blank node and a text first, or an old one and a wildcard
\* (router.cc:474-477, 530-537, 590-595).
LEMMA PlacingIs ==
    ASSUME BuildInv, phase = "placing"
    PROVE  /\ registered \in Seq(Routes) /\ registered # <<>> /\ Len(registered) - 1 \in Nat
           /\ queue \in Seq(Segments) /\ valid \in BOOLEAN
           /\ nodes \in Seq(NodeSet) /\ nodes # <<>> /\ Len(nodes) \in Nat
           /\ DOMAIN nodes = 1..Len(nodes) /\ at \in DOMAIN nodes /\ 1 \in DOMAIN nodes
           /\ 0 \notin DOMAIN nodes /\ nodes[at] \in NodeSet
           /\ WellShaped(nodes, Fresh, path) /\ Handled(nodes, Len(registered) - 1, valid)
           /\ Rooted(nodes) /\ Suffices(path, queue) /\ ~IsWildcard(nodes[at])
           /\ \/ /\ Fresh = at /\ Blank(nodes[at]) /\ path[1] # ":"
                 /\ Colon # 1 /\ (at = 1 => path[1] = "/")
              \/ /\ Fresh = 0 /\ nodes[at].path # <<>> /\ Colon = 1
                 /\ ~nodes[at].wild /\ nodes[1].path # <<>>
<1>1. /\ registered \in Seq(Routes) /\ registered # <<>> /\ queue \in Seq(Segments)
      /\ valid \in BOOLEAN /\ nodes \in Seq(NodeSet) /\ nodes # <<>> /\ at \in DOMAIN nodes
      /\ WellShaped(nodes, Fresh, path) /\ Handled(nodes, Len(registered) - 1, valid)
      /\ Rooted(nodes) /\ Suffices(path, queue) /\ Places
  BY DEF BuildInv, Busy, Past
<1>2. Len(registered) - 1 \in Nat
  BY <1>1, EmptySeq
<1>3. /\ Len(nodes) \in Nat /\ DOMAIN nodes = 1..Len(nodes) /\ 1 \in DOMAIN nodes
      /\ 0 \notin DOMAIN nodes /\ nodes[at] \in NodeSet
  BY <1>1, DomainOfTree
<1>4. ~IsWildcard(nodes[at])
  BY <1>1 DEF Places, Blank, IsWildcard
<1>5. CASE nodes[at].path = <<>>
  <2>1. /\ Fresh = at /\ Blank(nodes[at]) /\ path[1] # ":" /\ (at = 1 => path[1] = "/")
    BY <1>1, <1>5 DEF Fresh, Places
  <2>2. Colon # 1
    BY <1>1, <2>1, ColonIs DEF Suffices
  <2> QED BY <1>1, <1>2, <1>3, <1>4, <2>1, <2>2
<1>6. CASE nodes[at].path # <<>>
  <2>1. /\ Fresh = 0 /\ path[1] = ":" /\ ~nodes[at].wild /\ nodes[1].path # <<>>
    BY <1>1, <1>6 DEF Fresh, Places
  <2>2. Colon = 1
    <3>1. path \in Seq(Chars) /\ Len(path) \in Nat /\ Len(path) # 0
      BY <1>1, EmptySeq DEF Suffices
    <3>2. /\ Colon \in 0..Len(path)
          /\ Colon = 0 => \A i \in 1..Len(path) : path[i] # ":"
          /\ Colon # 0 => path[Colon] = ":" /\ \A i \in 1..(Colon - 1) : path[i] # ":"
      BY <3>1, ColonIs
    <3> HIDE DEF Colon
    <3>3. Colon # 0
      BY <2>1, <3>1, <3>2
    <3>4. ~(Colon > 1)
      <4> SUFFICES ASSUME Colon > 1 PROVE FALSE
        OBVIOUS
      <4>1. 1 \in 1..(Colon - 1)
        BY <3>2
      <4> QED BY <2>1, <3>2, <3>3, <4>1
    <3> QED BY <3>2, <3>3, <3>4
  <2> QED BY <1>1, <1>2, <1>3, <1>4, <1>6, <2>1, <2>2
<1> QED BY <1>5, <1>6

\* The rest of a route has no wildcard (router.cc:623-629).
LEMMA StaticStep == ASSUME BuildInv, PlaceStatic PROVE BuildInv'
<1> DEFINE m == Len(registered) - 1
           n == nodes[at]
           up == [n EXCEPT !.path = path, !.handle = Ctrl, !.type = "STATIC", !.indices = <<>>]
           t2 == [nodes EXCEPT ![at] = up]
<1>1. phase = "placing" /\ Colon = 0 /\ Returns(TRUE, queue)
  BY DEF PlaceStatic
<1>2. /\ registered \in Seq(Routes) /\ m \in Nat /\ queue \in Seq(Segments) /\ valid \in BOOLEAN
      /\ nodes \in Seq(NodeSet) /\ at \in DOMAIN nodes /\ 1 \in DOMAIN nodes
      /\ 0 \notin DOMAIN nodes /\ n \in NodeSet
      /\ WellShaped(nodes, Fresh, path) /\ Handled(nodes, m, valid)
      /\ Rooted(nodes) /\ Suffices(path, queue) /\ ~IsWildcard(n)
      /\ Fresh = at /\ Blank(n) /\ (at = 1 => path[1] = "/")
  BY <1>1, PlacingIs
<1>3. nodes' = t2
  BY <1>2 DEF PlaceStatic, NodeSet
<1>4. /\ up \in NodeSet /\ up.handle = m + 1 /\ up.path = path /\ up.type = "STATIC"
      /\ up.indices = <<>> /\ up.children = <<>> /\ ~up.wild
  <2>1. Ctrl = m + 1 /\ Ctrl \in Nat
    BY <1>2 DEF Ctrl
  <2>2. <<>> \in Seq(Chars) /\ path \in Seq(Chars)
    BY <1>2 DEF Suffices
  <2> QED BY <2>1, <2>2, <1>2 DEF NodeSet, Blank
<1> HIDE DEF up
<1>5. /\ t2 \in Seq(NodeSet) /\ DOMAIN t2 = DOMAIN nodes /\ t2[at] = up
      /\ \A k \in DOMAIN nodes : k # at => t2[k] = nodes[k]
  BY <1>2, <1>4, ExceptIs
<1> HIDE DEF t2
<1>6. \A c : Joined(nodes, at, path, at, c) => Joined(t2, 0, <<>>, at, c)
  BY <1>2, <1>4, <1>5 DEF Joined, Begins, Suffices
<1>7. \A k \in DOMAIN nodes : k # at => NodeFits(t2, 0, <<>>, k)
  <2>1. Touches(at, nodes, at, path, t2, 0, <<>>)
    BY <1>2, <1>5, <1>6 DEF Touches
  <2> QED BY <2>1, OthersFit
<1>8. NodeFits(t2, 0, <<>>, at)
  <2>1. DOMAIN <<>> = {}
    OBVIOUS
  <2>2. StaticFits(t2, 0, <<>>, at)
    BY <1>4, <1>5, <2>1 DEF StaticFits, IsInjective
  <2> QED BY <1>4, <1>5, <2>1, <2>2 DEF NodeFits, WildFits, ParamFits
<1>9. WellShaped(t2, 0, <<>>)
  BY <1>5, <1>7, <1>8 DEF WellShaped
<1>10. Handled(t2, Len(registered), valid /\ TRUE)
  <2>1. t2[at].handle = m + 1 /\ nodes[at].handle = 0 /\ at \in DOMAIN t2
        /\ \A k \in DOMAIN nodes : k # at => t2[k].handle = nodes[k].handle
    BY <1>2, <1>4, <1>5 DEF Blank
  <2>2. /\ m \in Nat /\ valid \in BOOLEAN /\ Handled(nodes, m, valid)
        /\ DOMAIN nodes \subseteq DOMAIN t2
        /\ \A k \in DOMAIN t2 : k \notin DOMAIN nodes /\ k # at => t2[k].handle = 0
    BY <1>2, <1>5
  <2> HIDE DEF m, n
  <2>4. Handled(t2, m + 1, valid)
    BY <2>1, <2>2, NewHandle
  <2>3. m + 1 = Len(registered) /\ (valid /\ TRUE) = valid
    BY <1>2 DEF m
  <2> QED BY <2>3, <2>4
<1>11. Rooted(t2) /\ t2 # <<>>
  <2>1. t2 # <<>>
    BY <1>2, <1>5
  <2>2. Rooted(t2)
    BY <1>2, <1>4, <1>5 DEF Rooted, Begins, Suffices
  <2> QED BY <2>1, <2>2
<1> QED BY <1>1, <1>2, <1>3, <1>5, <1>9, <1>10, <1>11, ReturnStep

\* There is a parameter in the queue for the wildcard that is next
\* (router.cc:559).
LEMMA QueueIs ==
    ASSUME BuildInv, phase = "placing", Colon # 0
    PROVE  /\ Head(queue) \in Segments /\ Tail(queue) \in Seq(Segments)
           /\ Len(Tail(queue)) = Len(queue) - 1 /\ Len(queue) \in Nat
<1>1. queue \in Seq(Segments) /\ Suffices(path, queue)
  BY PlacingIs
<1>2. Colon \in Colons(path)
  BY <1>1, ColonIs DEF Suffices, Colons
<1>3. IsFiniteSet(Colons(path)) /\ Cardinality(Colons(path)) \in Nat
  BY <1>1, ColonsFinite DEF Suffices
<1>4. Cardinality(Colons(path)) # 0
  BY <1>2, <1>3, FS_EmptySet
<1>5. Len(queue) \in Nat /\ Len(queue) # 0
  BY <1>1, <1>3, <1>4 DEF Suffices
<1> HIDE DEF Colon
<1>6. queue # <<>>
  BY <1>5, EmptyIs
<1> QED BY <1>1, <1>5, <1>6, HeadTailProperties

\* A wildcard beside children is refused (router.cc:563-566).
LEMMA ConflictStep == ASSUME BuildInv, PlaceConflict PROVE BuildInv'
<1>1. /\ phase = "placing" /\ Colon # 0 /\ nodes[at].children # <<>>
      /\ Returns(FALSE, Tail(queue)) /\ nodes' = nodes
  BY DEF PlaceConflict
<1>2. /\ registered \in Seq(Routes) /\ Len(registered) - 1 \in Nat /\ valid \in BOOLEAN
      /\ nodes \in Seq(NodeSet) /\ nodes # <<>> /\ WellShaped(nodes, Fresh, path)
      /\ Handled(nodes, Len(registered) - 1, valid) /\ Rooted(nodes)
      /\ Fresh = 0
  BY <1>1, PlacingIs DEF Blank
<1>3. Tail(queue) \in Seq(Segments)
  BY <1>1, QueueIs
<1>4. Handled(nodes, (Len(registered) - 1) + 1, FALSE)
  BY <1>2, LooseHandles
<1>5. (Len(registered) - 1) + 1 = Len(registered) /\ (valid /\ FALSE) = FALSE
  BY <1>2
<1>6. Handled(nodes, Len(registered), valid /\ FALSE) /\ WellShaped(nodes, 0, path)
  BY <1>2, <1>4, <1>5
<1> QED BY <1>1, <1>2, <1>3, <1>6, ReturnStep

\* A wildcard may be placed under the node: it is the first of the queue.
WildAt == /\ phase = "placing" /\ Colon # 0 /\ nodes[at].children = <<>>
          /\ Head(queue).kind \in {"PARAM", "CATCH_ALL"}

\* The node that a wildcard hangs under keeps the first character of its edge.
LEMMA ParentIs ==
    ASSUME BuildInv, WildAt, NEW id \in Nat \ {0}
    PROVE  LET up == Parent(Head(queue), id)
           IN  /\ up \in NodeSet /\ up.wild /\ Len(up.children) = 1 /\ up.children[1] = id
               /\ DOMAIN up.children = 1..1 /\ up.handle = nodes[at].handle
               /\ \A c : Joined(nodes, Fresh, path, at, c) => Begins(up.path, c)
<1> DEFINE n == nodes[at]
           up == Parent(Head(queue), id)
           p == IF Colon > 1 THEN SubSeq(path, 1, Colon - 1) ELSE n.path
           ty == IF Colon > 1 THEN "STATIC" ELSE Head(queue).kind
<1>1. /\ n \in NodeSet /\ path \in Seq(Chars) /\ path # <<>> /\ at \in DOMAIN nodes
      /\ 0 \notin DOMAIN nodes
      /\ \/ Fresh = at /\ Blank(n) /\ Colon # 1
         \/ Fresh = 0 /\ n.path # <<>> /\ Colon = 1
  BY PlacingIs DEF WildAt, Suffices
<1>2. Colon \in 1..Len(path) /\ Len(path) \in Nat
  BY <1>1, ColonIs DEF WildAt
<1>3. up = [n EXCEPT !.path = p, !.type = ty, !.wild = TRUE, !.children = <<id>>]
  BY DEF Parent
<1> HIDE DEF Colon
<1>4. /\ p \in Seq(Chars)
      /\ Colon > 1 => p # <<>> /\ p[1] = path[1]
      /\ ~(Colon > 1) => p = n.path
  <2>1. CASE Colon > 1
    <3>1. Colon - 1 \in 0..Len(path) /\ 1 \in 1..(Colon - 1)
      BY <1>2, <2>1
    <3>2. p \in Seq(Chars) /\ Len(p) = Colon - 1 /\ p[1] = path[1]
      BY <1>1, <2>1, <3>1, UpToIs
    <3> QED BY <2>1, <3>1, <3>2, EmptyIs
  <2>2. CASE ~(Colon > 1)
    BY <1>1, <2>2, NodeTypes
  <2> QED BY <2>1, <2>2
<1>5. ty \in {"STATIC", "PARAM", "CATCH_ALL"}
  BY DEF WildAt
<1>6. <<id>> \in Seq(Nat \ {0}) /\ Len(<<id>>) = 1 /\ <<id>>[1] = id /\ DOMAIN <<id>> = 1..1
  BY OneIs
<1> HIDE DEF p, ty, up
<1>7. /\ up \in NodeSet /\ up.path = p /\ up.wild /\ up.children = <<id>>
      /\ up.handle = n.handle
  BY <1>1, <1>3, <1>4, <1>5, <1>6 DEF NodeSet
<1>8. ASSUME NEW c, Joined(nodes, Fresh, path, at, c) PROVE Begins(p, c)
  <2>1. CASE Fresh = at
    BY <1>1, <1>2, <1>4, <1>8, <2>1 DEF Joined, Begins
  <2>2. CASE Fresh # at
    <3>1. Colon = 1 /\ p = n.path
      BY <1>1, <1>4, <2>2
    <3> QED BY <1>8, <2>2, <3>1 DEF Joined
  <2> QED BY <2>1, <2>2
<1> QED BY <1>6, <1>7, <1>8 DEF up

\* The tree when the wildcard hangs under the node, whatever comes after it.
LEMMA ParentFits ==
    ASSUME BuildInv, WildAt, NEW t2, NEW f, NEW p, NEW id \in DOMAIN t2, id = Len(nodes) + 1,
           DOMAIN nodes \subseteq DOMAIN t2, f \notin DOMAIN nodes,
           \A k \in DOMAIN nodes : k # at => t2[k] = nodes[k],
           t2[at] = Parent(Head(queue), id), IsWildcard(t2[id])
    PROVE  /\ \A k \in DOMAIN nodes : NodeFits(t2, f, p, k)
           /\ Rooted(t2)
           /\ \A k \in DOMAIN nodes : t2[k].handle = nodes[k].handle
<1> DEFINE up == Parent(Head(queue), id)
<1>1. /\ nodes \in Seq(NodeSet) /\ Len(nodes) \in Nat /\ at \in DOMAIN nodes
      /\ 1 \in DOMAIN nodes /\ 0 \notin DOMAIN nodes /\ WellShaped(nodes, Fresh, path)
      /\ Rooted(nodes) /\ ~IsWildcard(nodes[at])
      /\ \/ Fresh = at /\ (at = 1 => path[1] = "/")
         \/ Fresh = 0 /\ nodes[1].path # <<>>
  <2>1. phase = "placing"
    BY DEF WildAt
  <2> QED BY <2>1, PlacingIs
<1>2. id \in Nat \ {0}
  BY <1>1
<1>3. /\ up \in NodeSet /\ up.wild /\ Len(up.children) = 1 /\ up.children[1] = id
      /\ DOMAIN up.children = 1..1 /\ up.handle = nodes[at].handle
      /\ \A c : Joined(nodes, Fresh, path, at, c) => Begins(up.path, c)
  BY <1>2, ParentIs
<1>4. t2[at] = up
  OBVIOUS
<1> HIDE DEF up
<1>5. \A c : Joined(nodes, Fresh, path, at, c) => Joined(t2, f, p, at, c)
  BY <1>1, <1>3, <1>4 DEF Joined
<1>6. \A k \in DOMAIN nodes : k # at => NodeFits(t2, f, p, k)
  <2>1. Touches(at, nodes, Fresh, path, t2, f, p)
    BY <1>1, <1>5 DEF Touches
  <2> QED BY <2>1, OthersFit
<1>7. NodeFits(t2, f, p, at)
  BY <1>3, <1>4 DEF NodeFits, WildFits, ParamFits, StaticFits
<1>8. Rooted(t2)
  <2>1. CASE at = 1
    <3>1. CASE Fresh = at
      <4>1. path[1] = "/"
        BY <1>1, <2>1, <3>1
      <4> QED BY <1>3, <1>4, <2>1, <3>1, <4>1 DEF Rooted, Joined
    <3>2. CASE Fresh # at
      <4>1. Begins(nodes[at].path, "/")
        BY <1>1, <2>1, <3>2 DEF Rooted, Blank
      <4> QED BY <1>3, <1>4, <2>1, <3>2, <4>1 DEF Rooted, Joined
    <3> QED BY <3>1, <3>2
  <2>2. CASE at # 1
    BY <1>1, <2>2 DEF Rooted
  <2> QED BY <2>1, <2>2
<1>9. \A k \in DOMAIN nodes : t2[k].handle = nodes[k].handle
  BY <1>3, <1>4
<1> QED BY <1>6, <1>7, <1>8, <1>9

\* A new leaf at the end of the tree, the wildcard of the route's end.
LEMMA LastWildcard ==
    ASSUME BuildInv, WildAt, NEW leaf \in NodeSet, IsWildcard(leaf), leaf.handle = Ctrl,
           leaf.children = <<>>, leaf.indices = <<>>, ~leaf.wild,
           nodes' = Append([nodes EXCEPT ![at] = Parent(Head(queue), Len(nodes) + 1)], leaf),
           Returns(TRUE, Tail(queue))
    PROVE  BuildInv'
<1> DEFINE m == Len(registered) - 1
           id == Len(nodes) + 1
           up == Parent(Head(queue), id)
           t1 == [nodes EXCEPT ![at] = up]
           t2 == Append(t1, leaf)
<1>1. /\ registered \in Seq(Routes) /\ m \in Nat /\ valid \in BOOLEAN
      /\ nodes \in Seq(NodeSet) /\ Len(nodes) \in Nat /\ at \in DOMAIN nodes
      /\ DOMAIN nodes = 1..Len(nodes) /\ 0 \notin DOMAIN nodes /\ Handled(nodes, m, valid)
  BY PlacingIs DEF WildAt
<1>2. Tail(queue) \in Seq(Segments)
  BY QueueIs DEF WildAt
<1>3. up \in NodeSet /\ id \in Nat \ {0}
  BY <1>1, ParentIs
<1>4. nodes' = t2
  OBVIOUS
<1> HIDE DEF up
<1>5. /\ t1 \in Seq(NodeSet) /\ Len(t1) = Len(nodes) /\ DOMAIN t1 = DOMAIN nodes
      /\ t1[at] = up /\ \A k \in DOMAIN nodes : k # at => t1[k] = nodes[k]
  BY <1>1, <1>3, ExceptIs
<1> HIDE DEF t1
<1>6. /\ t2 \in Seq(NodeSet) /\ DOMAIN t2 = 1..id /\ t2[at] = up /\ t2[id] = leaf
      /\ \A k \in DOMAIN nodes : k # at => t2[k] = nodes[k]
      /\ DOMAIN nodes \subseteq DOMAIN t2 /\ id \in DOMAIN t2 /\ id \notin DOMAIN nodes
      /\ \A k \in DOMAIN t2 : k \in DOMAIN nodes \/ k = id
  <2>1. /\ t2 \in Seq(NodeSet) /\ DOMAIN t2 = 1..(Len(t1) + 1)
        /\ \A j \in 1..Len(t1) : t2[j] = t1[j]
        /\ t2[Len(t1) + 1] = leaf
    BY <1>5, AppendIs
  <2> QED BY <1>1, <1>5, <2>1
<1> HIDE DEF t2
<1>7. /\ \A k \in DOMAIN nodes : NodeFits(t2, 0, <<>>, k)
      /\ Rooted(t2) /\ \A k \in DOMAIN nodes : t2[k].handle = nodes[k].handle
  <2>1. t2[at] = Parent(Head(queue), id) /\ IsWildcard(t2[id])
    BY <1>6 DEF up
  <2> QED BY <1>1, <1>6, <2>1, ParentFits
<1>8. NodeFits(t2, 0, <<>>, id)
  <2>1. DOMAIN <<>> = {} /\ Len(<<>>) = 0
    OBVIOUS
  <2>2. ParamFits(t2, 0, <<>>, id)
    BY <1>6, <2>1 DEF ParamFits, IsWildcard
  <2>3. StaticFits(t2, 0, <<>>, id)
    BY <1>6, <2>1 DEF StaticFits, IsInjective
  <2> QED BY <1>6, <2>1, <2>2, <2>3 DEF NodeFits, WildFits
<1>9. WellShaped(t2, 0, <<>>)
  BY <1>6, <1>7, <1>8 DEF WellShaped
<1>10. Handled(t2, Len(registered), valid /\ TRUE)
  <2>1. /\ m \in Nat /\ valid \in BOOLEAN /\ Handled(nodes, m, valid)
        /\ DOMAIN nodes \subseteq DOMAIN t2 /\ id \in DOMAIN t2 /\ id \notin DOMAIN nodes
        /\ \A k \in DOMAIN nodes : k # id => t2[k].handle = nodes[k].handle
        /\ \A k \in DOMAIN t2 : k \notin DOMAIN nodes /\ k # id => t2[k].handle = 0
    BY <1>1, <1>6, <1>7
  <2>2. t2[id].handle = m + 1
    BY <1>1, <1>6 DEF Ctrl
  <2>3. m + 1 = Len(registered) /\ (valid /\ TRUE) = valid
    BY <1>1
  <2> HIDE DEF m, id
  <2>4. Handled(t2, m + 1, valid)
    BY <2>1, <2>2, NewHandle
  <2> QED BY <2>3, <2>4
<1>11. t2 # <<>>
  BY <1>6
<1> QED BY <1>1, <1>2, <1>4, <1>6, <1>7, <1>9, <1>10, <1>11, ReturnStep

\* A new node.
LEMMA LeafIs ==
    ASSUME NEW type \in {"STATIC", "PARAM", "CATCH_ALL", "UNKNOWN"}
    PROVE  LET n == Node(type)
           IN  /\ n \in NodeSet /\ n.path = <<>> /\ n.indices = <<>> /\ n.children = <<>>
               /\ n.handle = 0 /\ ~n.wild /\ n.type = type
<1>1. <<>> \in Seq(Chars) /\ <<>> \in Seq(Nat \ {0})
  OBVIOUS
<1> QED BY <1>1 DEF Node, NodeSet

\* A catch-all is placed, with the controller (router.cc:599-618).
LEMMA CatchAllStep == ASSUME BuildInv, PlaceCatchAll PROVE BuildInv'
<1> DEFINE wild == Head(queue)
           leaf == [Node("CATCH_ALL") EXCEPT !.handle = Ctrl, !.name = wild.name]
<1>1. /\ WildAt /\ Returns(TRUE, Tail(queue))
      /\ nodes' = Append([nodes EXCEPT ![at] = Parent(wild, Len(nodes) + 1)], leaf)
  BY DEF PlaceCatchAll, WildAt
<1>2. wild \in Segments
  BY <1>1, QueueIs DEF WildAt
<1>3. Ctrl \in Nat \ {0}
  BY <1>1, PlacingIs DEF WildAt, Ctrl
<1>4. wild.name \in Names \cup {""}
  BY <1>2 DEF Segments
<1>5. /\ leaf \in NodeSet /\ leaf.path = <<>> /\ leaf.indices = <<>> /\ leaf.children = <<>>
      /\ leaf.handle = Ctrl /\ ~leaf.wild /\ leaf.type = "CATCH_ALL"
  BY <1>3, <1>4, LeafIs DEF NodeSet
<1> HIDE DEF leaf, wild
<1>6. IsWildcard(leaf)
  BY <1>3, <1>5 DEF IsWildcard
<1> QED BY <1>1, <1>5, <1>6, LastWildcard DEF wild

\* A parameter is placed, with the controller, or with a blank node below for
\* the slash and what comes after it (router.cc:568-598).
LEMMA ParamStep == ASSUME BuildInv, PlaceParam PROVE BuildInv'
<1> DEFINE m == Len(registered) - 1
           wild == Head(queue)
           id == Len(nodes) + 1
           node == [Node("PARAM") EXCEPT !.path = <<":">>, !.re = wild.re, !.name = wild.name]
           up == Parent(wild, id)
           tree == [nodes EXCEPT ![at] = up]
           last == [node EXCEPT !.handle = Ctrl]
           inner == [node EXCEPT !.children = <<id + 1>>]
           below == [Node("UNKNOWN") EXCEPT !.indices = <<path[Colon + 1]>>]
           t2 == tree \o <<inner, below>>
<1>1. /\ WildAt /\ phase = "placing" /\ Colon # 0
      /\ IF Colon = Len(path)
           THEN nodes' = Append(tree, last) /\ Returns(TRUE, Tail(queue))
           ELSE /\ nodes' = t2 /\ GoesOn("placing", id + 1, From(path, Colon + 1))
                /\ queue' = Tail(queue)
  BY DEF PlaceParam, WildAt
<1>2. /\ registered \in Seq(Routes) /\ registered # <<>> /\ m \in Nat /\ valid \in BOOLEAN
      /\ nodes \in Seq(NodeSet) /\ Len(nodes) \in Nat /\ at \in DOMAIN nodes
      /\ DOMAIN nodes = 1..Len(nodes) /\ 0 \notin DOMAIN nodes /\ 1 \in DOMAIN nodes
      /\ Handled(nodes, m, valid) /\ Suffices(path, queue)
  BY <1>1, PlacingIs
<1>3. /\ wild \in Segments /\ Tail(queue) \in Seq(Segments)
      /\ Len(Tail(queue)) = Len(queue) - 1 /\ Len(queue) \in Nat
  BY <1>1, QueueIs
<1>4. /\ Colon \in 1..Len(path) /\ path[Colon] = ":" /\ Len(path) \in Nat /\ path \in Seq(Chars)
  BY <1>1, <1>2, ColonIs DEF Suffices
<1>5. /\ node \in NodeSet /\ node.path = <<":">> /\ node.indices = <<>> /\ node.children = <<>>
      /\ node.handle = 0 /\ ~node.wild /\ node.type = "PARAM"
  <2>1. wild.re \in {"none", "any", "b"} /\ wild.name \in Names \cup {""}
    BY <1>3 DEF Segments
  <2>2. <<":">> \in Seq(Chars)
    BY OneIs DEF Chars
  <2> QED BY <2>1, <2>2, LeafIs DEF NodeSet
<1> HIDE DEF wild, node, Colon
<1>6. CASE Colon = Len(path)
  <2>1. Ctrl \in Nat
    BY <1>2 DEF Ctrl
  <2>2. /\ last \in NodeSet /\ last.path = <<":">> /\ last.indices = <<>> /\ last.children = <<>>
        /\ last.handle = Ctrl /\ ~last.wild /\ last.type = "PARAM"
    BY <1>5, <2>1 DEF NodeSet
  <2> HIDE DEF last
  <2>3. IsWildcard(last)
    BY <2>2 DEF IsWildcard
  <2>4. /\ Returns(TRUE, Tail(queue))
        /\ nodes' = Append([nodes EXCEPT ![at] = Parent(Head(queue), Len(nodes) + 1)], last)
    BY <1>1, <1>6 DEF wild
  <2> QED BY <1>1, <2>2, <2>3, <2>4, LastWildcard
<1>7. CASE Colon # Len(path)
  <2> DEFINE p2 == From(path, Colon + 1)
  <2>1. /\ phase' = "placing" /\ at' = id + 1 /\ path' = p2 /\ queue' = Tail(queue)
        /\ registered' = registered /\ valid' = valid /\ nodes' = t2
    BY <1>1, <1>7 DEF GoesOn
  <2>2. Suffices(p2, Tail(queue)) /\ p2[1] = "/" /\ path[Colon + 1] \in Chars
    <3>1. /\ Colon + 1 \in 1..(Len(path) + 1) /\ Colon + 1 \in 1..Len(path)
          /\ Colon \in 1..(Len(path) - 1) /\ Colon \in 1..((Colon + 1) - 1)
      BY <1>4, <1>7
    <3>2. Slashed(path)
      BY <1>2 DEF Suffices
    <3>3. /\ p2 \in Seq(Chars) /\ Len(p2) = Len(path) - (Colon + 1) + 1
          /\ \A j \in 1..Len(p2) : p2[j] = path[(Colon + 1) + j - 1]
          /\ Slashed(p2)
          /\ \A k \in 1..((Colon + 1) - 1) : path[k] = ":" =>
                Cardinality(Colons(p2)) + 1 <= Cardinality(Colons(path))
      BY <1>4, <3>1, <3>2, SuffixIs
    <3>4. Cardinality(Colons(p2)) + 1 <= Cardinality(Colons(path))
      BY <1>4, <3>1, <3>3
    <3>5. Cardinality(Colons(p2)) \in Nat /\ Cardinality(Colons(path)) \in Nat
      BY <1>4, <3>3, ColonsFinite
    <3>6. Cardinality(Colons(path)) <= Len(queue)
      BY <1>2 DEF Suffices
    <3>7. Cardinality(Colons(p2)) <= Len(Tail(queue))
      BY <1>3, <3>4, <3>5, <3>6
    <3>8. 1 \in 1..Len(p2) /\ (Colon + 1) + 1 - 1 = Colon + 1
      BY <1>4, <3>1, <3>3
    <3>9. p2[1] = "/"
      BY <1>4, <3>1, <3>2, <3>3, <3>8 DEF Slashed
    <3>10. p2 # <<>>
      BY <3>8
    <3>11. path[Colon + 1] \in Chars
      BY <1>4, <3>1
    <3> QED BY <3>3, <3>7, <3>9, <3>10, <3>11 DEF Suffices
  <2>3. up \in NodeSet
    BY <1>1, <1>2, ParentIs DEF wild
  <2>4. /\ inner \in NodeSet /\ inner.path = <<":">> /\ inner.type = "PARAM" /\ ~inner.wild
        /\ inner.children = <<id + 1>> /\ inner.handle = 0 /\ inner.indices = <<>>
    <3>1. <<id + 1>> \in Seq(Nat \ {0})
      BY <1>2, OneIs
    <3> QED BY <1>5, <3>1 DEF NodeSet
  <2>5. /\ below \in NodeSet /\ below.path = <<>> /\ below.children = <<>> /\ below.handle = 0
        /\ ~below.wild /\ below.type = "UNKNOWN"
    <3>1. <<path[Colon + 1]>> \in Seq(Chars)
      BY <2>2, OneIs
    <3> QED BY <3>1, LeafIs DEF NodeSet
  <2> HIDE DEF up, inner, below, p2
  <2>6. /\ tree \in Seq(NodeSet) /\ Len(tree) = Len(nodes) /\ DOMAIN tree = DOMAIN nodes
        /\ tree[at] = up /\ \A k \in DOMAIN nodes : k # at => tree[k] = nodes[k]
    BY <1>2, <2>3, ExceptIs
  <2> HIDE DEF tree
  <2>7. /\ t2 \in Seq(NodeSet) /\ DOMAIN t2 = 1..(id + 1) /\ t2[at] = up
        /\ t2[id] = inner /\ t2[id + 1] = below
        /\ \A k \in DOMAIN nodes : k # at => t2[k] = nodes[k]
        /\ DOMAIN nodes \subseteq DOMAIN t2 /\ id \in DOMAIN t2 /\ id + 1 \in DOMAIN t2
        /\ id \notin DOMAIN nodes /\ id + 1 \notin DOMAIN nodes /\ id # id + 1
        /\ \A k \in DOMAIN t2 : k \in DOMAIN nodes \/ k = id \/ k = id + 1
    <3>1. /\ <<inner, below>> \in Seq(NodeSet) /\ Len(<<inner, below>>) = 2
          /\ <<inner, below>>[1] = inner /\ <<inner, below>>[2] = below
      BY <2>4, <2>5
    <3>2. /\ t2 \in Seq(NodeSet) /\ Len(t2) = Len(tree) + 2
          /\ \A j \in 1..Len(tree) : t2[j] = tree[j]
          /\ \A j \in 1..2 : t2[Len(tree) + j] = <<inner, below>>[j]
      BY <2>6, <3>1, ConcatIs
    <3>3. DOMAIN t2 = 1..Len(t2)
      BY <3>2, LenProperties
    <3>4. t2[Len(nodes) + 1] = inner /\ t2[Len(nodes) + 2] = below
      BY <2>6, <3>1, <3>2
    <3>5. id + 1 = Len(nodes) + 2
      BY <1>2
    <3> HIDE DEF t2
    <3> QED BY <1>2, <2>6, <3>2, <3>3, <3>4, <3>5
  <2> HIDE DEF t2
  <2>8. IsWildcard(t2[id])
    BY <2>4, <2>7 DEF IsWildcard
  <2>9. /\ \A k \in DOMAIN nodes : NodeFits(t2, id + 1, p2, k)
        /\ Rooted(t2) /\ \A k \in DOMAIN nodes : t2[k].handle = nodes[k].handle
    <3>1. t2[at] = Parent(Head(queue), id)
      BY <2>7 DEF up, wild
    <3> QED BY <1>1, <2>7, <2>8, <3>1, ParentFits
  <2>10. NodeFits(t2, id + 1, p2, id)
    <3>1. Len(<<id + 1>>) = 1 /\ DOMAIN <<id + 1>> = 1..1 /\ <<id + 1>>[1] = id + 1 /\ Len(<<>>) = 0
      OBVIOUS
    <3>2. /\ t2[id].path = <<":">> /\ t2[id].type = "PARAM" /\ ~t2[id].wild
          /\ Len(t2[id].children) = 1 /\ DOMAIN t2[id].children = 1..1
          /\ t2[id].children[1] = id + 1 /\ id + 1 \in DOMAIN t2 /\ Len(t2[id].indices) = 0
      BY <2>4, <2>7, <3>1
    <3>3. Joined(t2, id + 1, p2, id + 1, "/")
      BY <2>2 DEF Joined
    <3>4. ParamFits(t2, id + 1, p2, id)
      BY <3>2, <3>3 DEF ParamFits
    <3> QED BY <3>2, <3>4 DEF NodeFits, WildFits, StaticFits
  <2>11. NodeFits(t2, id + 1, p2, id + 1)
    <3>1. DOMAIN <<>> = {}
      OBVIOUS
    <3> QED BY <2>5, <2>7, <3>1 DEF NodeFits, WildFits, ParamFits, StaticFits
  <2>12. WellShaped(t2, id + 1, p2)
    BY <2>7, <2>9, <2>10, <2>11 DEF WellShaped
  <2>13. Handled(t2, m, valid)
    <3>1. \A k \in DOMAIN t2 : k \notin DOMAIN nodes => t2[k].handle = 0
      BY <2>4, <2>5, <2>7
    <3>2. /\ m \in Nat /\ valid \in BOOLEAN /\ Handled(nodes, m, valid)
          /\ DOMAIN nodes \subseteq DOMAIN t2
          /\ \A n \in DOMAIN nodes : t2[n].handle = nodes[n].handle
      BY <1>2, <2>7, <2>9
    <3> HIDE DEF m
    <3> QED BY <3>1, <3>2, SameHandles
  <2>14. Places'
    <3>1. id + 1 # 1
      BY <1>2
    <3> QED BY <2>1, <2>2, <2>5, <2>7, <3>1 DEF Places, Blank
  <2>15. Kept
    BY <1>2, <1>3, <2>1, <2>7 DEF Kept
  <2> QED BY <1>2, <2>1, <2>2, <2>5, <2>7, <2>9, <2>12, <2>13, <2>14, <2>15, Begun
<1> QED BY <1>6, <1>7

\* Every step of the building keeps the invariant.
LEMMA BuildStep == ASSUME BuildInv, BuildNext PROVE BuildInv'
<1>1. CASE InsertFirst
  BY <1>1, FirstStep
<1>2. CASE InsertThroughWildcard
  BY <1>2, ThroughStep
<1>3. CASE InsertIntoChild
  BY <1>3, IntoChildStep
<1>4. CASE InsertNewChild
  BY <1>4, NewChildStep
<1>5. CASE InsertHere
  BY <1>5, HereStep
<1>6. CASE PlaceStatic
  BY <1>6, StaticStep
<1>7. CASE PlaceConflict
  BY <1>7, ConflictStep
<1>8. CASE PlaceParam
  BY <1>8, ParamStep
<1>9. CASE PlaceCatchAll
  BY <1>9, CatchAllStep
<1>10. ASSUME NEW route \in Routes, AddRoute(route) PROVE BuildInv'
  BY <1>10, AddStep
<1> QED BY <1>1, <1>2, <1>3, <1>4, <1>5, <1>6, <1>7, <1>8, <1>9, <1>10 DEF BuildNext, Insert

(***************************************************************************)
(* Serving.                                                                *)
(***************************************************************************)

\* The nodes of a tree that is not being built, one by one.
LEMMA Standing ==
    ASSUME BuildInv, ~Busy
    PROVE  /\ nodes \in Seq(NodeSet) /\ nodes # <<>> /\ at \in DOMAIN nodes /\ 1 \in DOMAIN nodes
           /\ WellShaped(nodes, 0, path) /\ Handled(nodes, Len(registered), valid)
           /\ \A k \in DOMAIN nodes : NodeFits(nodes, 0, path, k)
<1>1. Fresh = 0 /\ Past = Len(registered)
  BY DEF Fresh, Past, Busy
<1> QED BY <1>1, DomainOfTree DEF BuildInv, WellShaped

\* A step of the serving keeps the invariant: it does not touch the tree.
LEMMA StandsStill ==
    ASSUME BuildInv, ~Busy, UNCHANGED built, ~Busy', at' \in DOMAIN nodes
    PROVE  BuildInv'
<1>1. /\ registered' = registered /\ nodes' = nodes /\ queue' = queue /\ valid' = valid
  BY DEF built
<1>2. WellShaped(nodes', 0, path) /\ Handled(nodes', Len(registered'), valid')
  BY <1>1, Standing
<1>3. Rooted(nodes') /\ Kept
  BY <1>1 DEF BuildInv, Kept
<1> QED BY <1>2, <1>3, AtRest DEF Busy

\* A walk that goes on goes to a node of the tree.
LEMMA ChildIs ==
    ASSUME BuildInv, ~Busy, Here.wild
    PROVE  /\ Here.children[1] \in DOMAIN nodes /\ Child(Here) = nodes[Here.children[1]]
           /\ Child(Here).children # <<>> => Child(Here).children[1] \in DOMAIN nodes
<1>1. /\ nodes \in Seq(NodeSet) /\ at \in DOMAIN nodes
      /\ \A k \in DOMAIN nodes : NodeFits(nodes, 0, path, k)
  BY Standing
<1>2. Len(Here.children) = 1
  BY <1>1 DEF NodeFits, WildFits, Here
<1>3. Here \in NodeSet
  BY <1>1 DEF Here
<1>4. 1 \in DOMAIN Here.children
  BY <1>2, <1>3, NodeTypes
<1>5. Here.children[1] \in DOMAIN nodes /\ Child(Here) = nodes[Here.children[1]]
  BY <1>1, <1>4 DEF NodeFits, Here, Child
<1>6. ASSUME Child(Here).children # <<>> PROVE 1 \in DOMAIN Child(Here).children
  <2>1. Child(Here) \in NodeSet
    BY <1>1, <1>5
  <2>2. /\ Child(Here).children \in Seq(Nat \ {0}) /\ Len(Child(Here).children) \in Nat
        /\ DOMAIN Child(Here).children = 1..Len(Child(Here).children)
    BY <2>1, NodeTypes
  <2>3. Len(Child(Here).children) # 0
    BY <1>6, <2>2, EmptySeq
  <2> QED BY <2>2, <2>3
<1>7. \A i \in DOMAIN Child(Here).children : Child(Here).children[i] \in DOMAIN nodes
  BY <1>1, <1>5 DEF NodeFits
<1> QED BY <1>5, <1>6, <1>7

\* An edge that the walk finds leads to a node.
LEMMA EdgeIs ==
    ASSUME BuildInv, ~Busy, ~Here.wild, NEW c, Indice(Here, c) # 0
    PROVE  Indice(Here, c) \in DOMAIN nodes
<1>1. /\ nodes \in Seq(NodeSet) /\ at \in DOMAIN nodes /\ NodeFits(nodes, 0, path, at)
      /\ 0 \notin DOMAIN nodes
  BY Standing, DomainOfTree
<1>2. Here \in NodeSet
  BY <1>1 DEF Here
<1>3. Len(Here.indices) \in Nat /\ Len(Here.children) \in Nat
      /\ DOMAIN Here.indices = 1..Len(Here.indices) /\ DOMAIN Here.children = 1..Len(Here.children)
  BY <1>2, NodeTypes
<1>4. Len(Here.indices) <= Len(Here.children)
  <2>1. at # 0
    BY <1>1
  <2>2. CASE Here.type = "PARAM"
    BY <1>1, <2>2 DEF NodeFits, ParamFits, Here
  <2>3. CASE Here.type # "PARAM"
    <3>1. Len(Here.indices) = Len(Here.children)
      BY <1>1, <2>1, <2>3 DEF NodeFits, StaticFits, Here
    <3> QED BY <1>3, <3>1
  <2> QED BY <2>2, <2>3
<1>5. PICK i \in DOMAIN Here.indices : Indice(Here, c) = Here.children[i]
  BY <1>2, <1>4, IndiceIs
<1>6. i \in DOMAIN Here.children
  BY <1>3, <1>4, <1>5
<1> QED BY <1>1, <1>5, <1>6 DEF NodeFits, Here

\* What forward returns is the handle of a node.
Handles == \A n \in DOMAIN nodes : nodes[n].handle \in 0..MaxRoutes

\* A controller in the tree is one of those that were registered.
LEMMA HandlesAre == ASSUME BuildInv, Len(registered) <= MaxRoutes PROVE Handles
<1>1. /\ Handled(nodes, Past, valid) /\ registered \in Seq(Routes)
      /\ (Busy => registered # <<>>)
  BY DEF BuildInv
<1>2. Past \in Nat /\ Past <= Len(registered) /\ Len(registered) \in Nat /\ MaxRoutes \in Nat
  <2>1. Len(registered) \in Nat /\ (Busy => Len(registered) # 0)
    BY <1>1, EmptySeq
  <2> QED BY <2>1, RouterAssumption DEF Past
<1>3. \A n \in DOMAIN nodes : nodes[n].handle \in 0..Past
  BY <1>1 DEF Handled
<1> HIDE DEF Past
<1> QED BY <1>2, <1>3 DEF Handles

\* The rest of the state.
Bounded ==
    /\ Len(registered) <= MaxRoutes
    /\ phase \in {"building", "inserting", "placing", "aborted", "serving",
                  "walking", "answered"}
    /\ found \in 0..MaxRoutes /\ tsr \in BOOLEAN /\ redirects \in 0..MaxRedirects

\* A turn of forward's loop stays in the tree, and returns a controller of it.
LEMMA WalkStep ==
    ASSUME BuildInv, Bounded, Walk
    PROVE  /\ UNCHANGED <<built, redirects>> /\ phase = "walking"
           /\ phase' \in {"walking", "answered"} /\ at' \in DOMAIN nodes
           /\ found' \in 0..MaxRoutes /\ tsr' \in BOOLEAN
<1>1. phase = "walking"
  BY DEF Walk, Follow, NoEdge, ParamRefuses, ParamEnds, ParamGoesOn, TakeAll, EndWithHandle,
         EndInWildcard, EndWithout, Elsewhere, Longer, Equal, AtParam
<1>2. ~Busy
  BY <1>1 DEF Busy
<1>3. /\ Handles /\ at \in DOMAIN nodes /\ 0 \in 0..MaxRoutes
      /\ found \in 0..MaxRoutes /\ tsr \in BOOLEAN
  BY <1>2, HandlesAre, Standing, RouterAssumption DEF Bounded
<1>4. ASSUME NEW c \in 0..MaxRoutes, NEW hint \in BOOLEAN, NEW b, Answers(c, hint, b)
      PROVE  /\ UNCHANGED <<built, redirects>> /\ phase' \in {"walking", "answered"}
             /\ at' \in DOMAIN nodes /\ found' \in 0..MaxRoutes /\ tsr' \in BOOLEAN
  BY <1>3, <1>4 DEF Answers
<1>5. ASSUME NEW n \in DOMAIN nodes, NEW url, NEW b, Descends(n, url, b)
      PROVE  /\ UNCHANGED <<built, redirects>> /\ phase' \in {"walking", "answered"}
             /\ at' \in DOMAIN nodes /\ found' \in 0..MaxRoutes /\ tsr' \in BOOLEAN
  BY <1>1, <1>3, <1>5 DEF Descends
<1>6. CASE Follow
  <2>1. Indice(Here, Under[1]) \in DOMAIN nodes
    BY <1>2, <1>6, EdgeIs DEF Follow
  <2> QED BY <1>1, <1>5, <1>6, <2>1 DEF Follow
<1>7. CASE NoEdge
  <2>1. (Under = <<"/">> /\ Here.handle # 0) \in BOOLEAN
    OBVIOUS
  <2> QED BY <1>1, <1>3, <1>4, <1>7, <2>1 DEF NoEdge
<1>8. CASE ParamRefuses
  BY <1>1, <1>3, <1>4, <1>8 DEF ParamRefuses
<1>9. CASE ParamEnds
  <2>1. Child(Here).handle \in 0..MaxRoutes
    BY <1>2, <1>3, <1>9, ChildIs DEF ParamEnds, AtParam, Handles
  <2>2. SlashBelow(Child(Here)) \in BOOLEAN
    BY DEF SlashBelow
  <2> QED BY <1>1, <1>3, <1>4, <1>9, <2>1, <2>2 DEF ParamEnds
<1>10. CASE ParamGoesOn
  <2>1. Child(Here).children # <<>> => Child(Here).children[1] \in DOMAIN nodes
    BY <1>2, <1>10, ChildIs DEF ParamGoesOn, AtParam
  <2>2. (From(Under, Len(Value) + 1) = <<"/">>) \in BOOLEAN
    OBVIOUS
  <2>3. IF Child(Here).children # <<>>
          THEN Descends(Child(Here).children[1], From(Under, Len(Value) + 1), Bound)
          ELSE Answers(0, From(Under, Len(Value) + 1) = <<"/">>, Bound)
    BY <1>10 DEF ParamGoesOn
  <2> QED BY <1>1, <1>3, <1>4, <1>5, <2>1, <2>2, <2>3
<1>11. CASE TakeAll
  <2>1. Child(Here).handle \in 0..MaxRoutes
    BY <1>2, <1>3, <1>11, ChildIs DEF TakeAll, Handles
  <2> QED BY <1>1, <1>4, <1>11, <2>1 DEF TakeAll
<1>12. CASE EndWithHandle
  <2>1. Here.handle \in 0..MaxRoutes
    BY <1>3 DEF Here, Handles
  <2> QED BY <1>1, <1>4, <1>12, <2>1 DEF EndWithHandle
<1>13. CASE EndInWildcard
  <2>1. Child(Here).handle \in 0..MaxRoutes
    BY <1>2, <1>3, <1>13, ChildIs DEF EndInWildcard, Handles
  <2> QED BY <1>1, <1>4, <1>13, <2>1 DEF EndInWildcard
<1>14. CASE EndWithout
  <2>1. PICK hint \in BOOLEAN : Answers(0, hint, params)
    BY <1>14 DEF EndWithout
  <2> QED BY <1>1, <1>3, <1>4, <2>1
<1>15. CASE Elsewhere
  <2>1. PICK hint \in BOOLEAN : Answers(0, hint, params)
    BY <1>15 DEF Elsewhere
  <2> QED BY <1>1, <1>3, <1>4, <2>1
<1> QED BY <1>1, <1>6, <1>7, <1>8, <1>9, <1>10, <1>11, <1>12, <1>13, <1>14, <1>15 DEF Walk

(***************************************************************************)
(* The theorems.                                                           *)
(***************************************************************************)

\* The inductive invariant.
IInv == BuildInv /\ Bounded

\* Building leaves the rest within its bounds.
LEMMA BuildBounded ==
    ASSUME BuildInv, Bounded, BuildNext, UNCHANGED <<found, tsr, redirects>>
    PROVE  Bounded'
<1>1. /\ found' \in 0..MaxRoutes /\ tsr' \in BOOLEAN /\ redirects' \in 0..MaxRedirects
      /\ Len(registered) <= MaxRoutes /\ registered \in Seq(Routes)
      /\ phase \in {"building", "inserting", "placing", "aborted", "serving",
                    "walking", "answered"}
  BY DEF Bounded, BuildInv
<1>2. ASSUME NEW route \in Routes, AddRoute(route) PROVE Bounded'
  <2>1. registered' = Append(registered, route) /\ Len(registered) < MaxRoutes
        /\ phase' \in {"building", "inserting"}
    BY <1>2 DEF AddRoute
  <2>2. Len(registered') = Len(registered) + 1 /\ Len(registered) \in Nat
    BY <1>1, <2>1, AppendIs
  <2>3. Len(registered') <= MaxRoutes
    BY <2>1, <2>2, RouterAssumption
  <2> QED BY <1>1, <2>1, <2>3 DEF Bounded
<1>3. ASSUME Insert
      PROVE  /\ registered' = registered
             /\ phase' \in {"building", "inserting", "placing", "aborted"}
  BY <1>3 DEF Insert, InsertFirst, InsertThroughWildcard, InsertIntoChild,
              InsertNewChild, InsertHere, PlaceStatic, PlaceConflict, PlaceParam,
              PlaceCatchAll, GoesOn, Returns
<1>4. CASE Insert
  BY <1>1, <1>3, <1>4 DEF Bounded
<1> QED BY <1>2, <1>4 DEF BuildNext

\* It holds at first.
LEMMA IInvInit == Init => IInv
<1>1. Init => BuildInv
  BY InitialTree
<1>2. Init => Bounded
  <2>1. Len(<<>>) = 0 /\ 0 \in 0..MaxRoutes /\ 0 \in 0..MaxRedirects /\ 0 <= MaxRoutes
    BY RouterAssumption
  <2> SUFFICES ASSUME Init PROVE Bounded
    OBVIOUS
  <2>2. /\ registered = <<>> /\ phase = "building" /\ found = 0 /\ tsr = FALSE /\ redirects = 0
    BY DEF Init, BuildInit
  <2> QED BY <2>1, <2>2 DEF Bounded
<1> QED BY <1>1, <1>2 DEF IInv

\* A request that comes, is redirected or is answered keeps it.
LEMMA ServeStep ==
    ASSUME IInv, \/ Serve \/ Redirect \/ Done
                 \/ \E url \in Requests : Ask(url)
    PROVE  IInv'
<1>1. /\ UNCHANGED built /\ phase \in {"building", "serving", "answered"}
      /\ phase' \in {"serving", "walking"} /\ at' \in {at, 1}
      /\ found' \in {found, 0} /\ tsr' \in {tsr, FALSE}
      /\ redirects' \in 0..MaxRedirects
  <2>1. redirects \in 0..MaxRedirects /\ MaxRedirects \in Nat
    BY RouterAssumption DEF IInv, Bounded
  <2>2. CASE Serve
    BY <2>1, <2>2 DEF Serve
  <2>3. CASE Redirect
    <3>1. redirects < MaxRedirects /\ redirects' = redirects + 1
      BY <2>3 DEF Redirect
    <3>2. redirects' \in 0..MaxRedirects
      BY <2>1, <3>1
    <3>3. /\ UNCHANGED built /\ phase = "answered" /\ phase' = "walking" /\ at' = 1
          /\ found' = 0 /\ tsr' = FALSE
      BY <2>3, Zenon DEF Redirect, Walks
    <3> QED BY <3>2, <3>3
  <2>4. CASE Done
    <3>1. redirects' = 0
      BY <2>4, Zenon DEF Done
    <3>2. redirects' \in 0..MaxRedirects
      BY <2>1, <3>1
    <3>3. /\ UNCHANGED built /\ phase = "answered" /\ phase' = "serving" /\ at' = 1
          /\ found' = 0 /\ tsr' = FALSE
      BY <2>4, Zenon DEF Done
    <3> QED BY <3>2, <3>3
  <2>5. CASE \E url \in Requests : Ask(url)
    BY <2>1, <2>5 DEF Ask, Walks
  <2> QED BY <2>2, <2>3, <2>4, <2>5
<1>2. ~Busy /\ ~Busy'
  BY <1>1 DEF Busy
<1>3. at' \in DOMAIN nodes
  BY <1>1, <1>2, Standing DEF IInv
<1>4. BuildInv'
  BY <1>1, <1>2, <1>3, StandsStill DEF IInv
<1>5. Bounded'
  <2>1. 0 \in 0..MaxRoutes
    BY RouterAssumption
  <2> QED BY <1>1, <2>1 DEF IInv, Bounded, built
<1> QED BY <1>4, <1>5 DEF IInv

\* Every step keeps it.
LEMMA IInvStep == IInv /\ [Next]_vars => IInv'
<1> SUFFICES ASSUME IInv, [Next]_vars PROVE IInv'
  OBVIOUS
<1>1. CASE BuildNext /\ UNCHANGED <<request, params, found, tsr, redirects>>
  BY <1>1, BuildStep, BuildBounded DEF IInv
<1>2. CASE \/ Serve \/ Redirect \/ Done
           \/ \E url \in Requests : Ask(url)
  BY <1>2, ServeStep
<1>3. CASE Walk
  <2>1. /\ UNCHANGED <<built, redirects>> /\ phase = "walking"
        /\ phase' \in {"walking", "answered"} /\ at' \in DOMAIN nodes
        /\ found' \in 0..MaxRoutes /\ tsr' \in BOOLEAN
    BY <1>3, WalkStep DEF IInv
  <2>2. ~Busy /\ ~Busy'
    BY <2>1 DEF Busy
  <2>3. BuildInv'
    BY <2>1, <2>2, StandsStill DEF IInv
  <2>4. Bounded'
    BY <2>1 DEF IInv, Bounded, built
  <2> QED BY <2>3, <2>4 DEF IInv
<1>4. CASE UNCHANGED vars
  <2>1. /\ UNCHANGED <<registered, nodes, phase, at, path, queue, valid>>
        /\ UNCHANGED <<found, tsr, redirects>>
    BY <1>4 DEF vars, buildVars
  <2>2. BuildInv'
    BY <2>1 DEF IInv, BuildInv, Fresh, Past, Busy, Joins, Places
  <2>3. Bounded'
    BY <2>1 DEF IInv, Bounded
  <2> QED BY <2>2, <2>3 DEF IInv
<1> QED BY <1>1, <1>2, <1>3, <1>4 DEF Next

\* The tree is well shaped and holds every controller at all times, for any
\* routes, any number of them and any order (router.cc:454-630).
THEOREM Invariance == Spec => []IInv
BY IInvInit, IInvStep, PTL DEF Spec

\* The invariant gives the types.
LEMMA IInvTyped == IInv => TypeOK
<1> SUFFICES ASSUME IInv PROVE TypeOK
  OBVIOUS
<1>1. BuildInv /\ Bounded /\ Handles
  BY HandlesAre DEF IInv, Bounded
<1>2. /\ nodes \in Seq(NodeSet) /\ WellShaped(nodes, Fresh, path)
  BY <1>1 DEF BuildInv
<1>3. ASSUME NEW n \in DOMAIN nodes
      PROVE  /\ nodes[n].type \in {"ROOT", "STATIC", "PARAM", "CATCH_ALL", "UNKNOWN"}
             /\ nodes[n].handle \in 0..MaxRoutes
             /\ ToSet(nodes[n].children) \subseteq DOMAIN nodes
             /\ nodes[n].wild \in BOOLEAN
  <2>1. nodes[n] \in NodeSet
    BY <1>2
  <2>2. ToSet(nodes[n].children) \subseteq DOMAIN nodes
    BY <1>2 DEF WellShaped, NodeFits, ToSet
  <2> QED BY <1>1, <2>1, <2>2, NodeTypes DEF Handles
<1> QED BY <1>1, <1>3 DEF TypeOK, BuildInv, Bounded

\* And it gives the tree that forward relies on.
LEMMA IInvSound == BuildInv => TreeIsSound
<1> SUFFICES ASSUME BuildInv PROVE TreeIsSound
  OBVIOUS
<1>1. /\ nodes \in Seq(NodeSet) /\ 0 \notin DOMAIN nodes
      /\ \A n \in DOMAIN nodes : NodeFits(nodes, Fresh, path, n)
  BY DomainOfTree DEF BuildInv, WellShaped
<1>2. \A n \in Complete : n \in DOMAIN nodes /\ n # Fresh
  BY <1>1 DEF Complete, Fresh
<1>3. WildcardsAlone
  <2> SUFFICES ASSUME NEW n \in Complete, nodes[n].wild
               PROVE  /\ Len(nodes[n].children) = 1
                      /\ IsWildcard(nodes[nodes[n].children[1]])
    BY DEF WildcardsAlone, IsWildcard
  <2> QED BY <1>1, <1>2 DEF NodeFits, WildFits
<1>4. EdgesIndexed
  <2> SUFFICES ASSUME NEW n \in Complete, ~nodes[n].wild
               PROVE  LET kids == nodes[n].children
                      IN  IF nodes[n].type = "PARAM"
                            THEN Len(kids) <= 1 /\ \A k \in ToSet(kids) \cap Complete :
                                                      nodes[k].path[1] = "/"
                            ELSE /\ Len(nodes[n].indices) = Len(kids)
                                 /\ IsInjective(nodes[n].indices)
                                 /\ \A i \in DOMAIN kids : kids[i] \in Complete =>
                                       nodes[kids[i]].path[1] = nodes[n].indices[i]
    BY DEF EdgesIndexed
  <2>1. CASE nodes[n].type = "PARAM"
    <3>1. /\ Len(nodes[n].children) <= 1
          /\ \A i \in DOMAIN nodes[n].children : Joined(nodes, Fresh, path, nodes[n].children[i], "/")
      BY <1>1, <1>2, <2>1 DEF NodeFits, ParamFits
    <3>2. \A k \in ToSet(nodes[n].children) \cap Complete : nodes[k].path[1] = "/"
      BY <1>2, <3>1 DEF ToSet, Joined, Begins
    <3> QED BY <2>1, <3>1, <3>2
  <2>2. CASE nodes[n].type # "PARAM"
    <3>1. /\ Len(nodes[n].indices) = Len(nodes[n].children)
          /\ IsInjective(nodes[n].indices)
          /\ \A i \in DOMAIN nodes[n].children :
                Joined(nodes, Fresh, path, nodes[n].children[i], nodes[n].indices[i])
      BY <1>1, <1>2, <2>2 DEF NodeFits, StaticFits
    <3>2. \A i \in DOMAIN nodes[n].children : nodes[n].children[i] \in Complete =>
             nodes[nodes[n].children[i]].path[1] = nodes[n].indices[i]
      BY <1>2, <3>1 DEF Joined, Begins
    <3> QED BY <2>2, <3>1, <3>2
  <2> QED BY <2>1, <2>2
<1>5. EveryRouteHasItsNode
  <2> SUFFICES ASSUME phase = "building", valid, NEW c \in DOMAIN registered
               PROVE  Cardinality({n \in DOMAIN nodes : nodes[n].handle = c}) = 1
    BY DEF EveryRouteHasItsNode
  <2>1. Handled(nodes, Len(registered), valid) /\ c \in 1..Len(registered)
    BY LenProperties DEF BuildInv, Past, Busy
  <2>2. PICK n \in DOMAIN nodes : /\ nodes[n].handle = c
                                  /\ \A k \in DOMAIN nodes : nodes[k].handle = c => k = n
    BY <2>1 DEF Handled
  <2>3. {k \in DOMAIN nodes : nodes[k].handle = c} = {n}
    BY <2>2
  <2> QED BY <2>3, FS_Singleton
<1>6. QueueSuffices
  <2> SUFFICES ASSUME phase = "placing"
               PROVE  Len(queue) >= Cardinality({i \in DOMAIN path : path[i] = ":"})
    BY DEF QueueSuffices
  <2>1. Suffices(path, queue) /\ queue \in Seq(Segments)
    BY DEF BuildInv, Busy
  <2>2. {i \in DOMAIN path : path[i] = ":"} = Colons(path)
    BY <2>1, LenProperties DEF Suffices, Colons
  <2>3. Cardinality(Colons(path)) \in Nat /\ Len(queue) \in Nat
    BY <2>1, ColonsFinite DEF Suffices
  <2> QED BY <2>1, <2>2, <2>3 DEF Suffices
<1> QED BY <1>3, <1>4, <1>5, <1>6 DEF TreeIsSound

\* Every pointer of the tree leads to a node of it, forward's walk never leaves
\* it, and what forward returns is one of the program's controllers.
THEOREM TypeCorrect == Spec => []TypeOK
<1>1. IInv => TypeOK
  BY IInvTyped
<1> QED BY <1>1, Invariance, PTL

\* The tree that forward relies on, for any routes: a wildcard is alone under
\* its parent, every edge is found through the indices, every route that was
\* accepted has its controller at one node, and the queue of parameters never
\* runs out (router.cc:169-179, 482-498, 559, 717-818).
THEOREM TreeSound == Spec => []TreeIsSound
<1>1. IInv => TreeIsSound
  BY IInvSound DEF IInv
<1> QED BY <1>1, Invariance, PTL
==============================================================================
