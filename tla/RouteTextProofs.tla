--------------------------- MODULE RouteTextProofs ---------------------------
(***************************************************************************)
(* The meaning of a route, as a text: characters, and one symbol for every *)
(* wildcard (Spells). A route is defined by its segments (Router's Matches *)
(* and Values), and the tree is made of edges that know no segments; the   *)
(* text of the route stands between the two.                               *)
(*                                                                         *)
(* A URL follows a text if it can be cut into what each symbol stands for  *)
(* (Follows). The URL then matches the route and the wildcards have the    *)
(* route's values, unless a parameter has been skipped with no text        *)
(* (AnswerIs). A path in the making, with the parameters that wait in the  *)
(* queue for its colons, reads as a text, too (Reads).                     *)
(***************************************************************************)
EXTENDS RouterProofs

(***************************************************************************)
(* The slashes of a URL are where Router's recursion finds them.           *)
(***************************************************************************)

\* A slash in a URL, and the URL's slashes among its first j characters.
SlashAt(url, i) == i \in 1..Len(url) /\ url[i] = "/"

\* The list s has every slash among the first j characters, in their order.
Lists(url, j, s) ==
    /\ s \in Seq(Nat)
    /\ \A i \in 1..Len(s) : SlashAt(url, s[i]) /\ s[i] <= j
    /\ \A i, k \in 1..Len(s) : i < k => s[i] < s[k]
    /\ \A p \in 1..j : SlashAt(url, p) => \E i \in 1..Len(s) : s[i] = p

\* SlashesUpTo is the function that its recursion describes.
LEMMA SlashesUpToIs ==
    ASSUME NEW url, Len(url) \in Nat
    PROVE  SlashesUpTo(url) =
             [i \in 0..Len(url) |->
                IF i = 0 THEN <<>>
                ELSE IF url[i] = "/" THEN Append(SlashesUpTo(url)[i - 1], i)
                                     ELSE SlashesUpTo(url)[i - 1]]
<1> DEFINE Step(g, i) == IF i = 0 THEN <<>>
                         ELSE IF url[i] = "/" THEN Append(g[i - 1], i) ELSE g[i - 1]
           T == {m \in Nat : ~ \E g : g = [i \in 0..m |-> Step(g, i)]}
<1>1. T = {}
  <2> SUFFICES ASSUME T # {} PROVE FALSE
    OBVIOUS
  <2>1. PICK m \in T : \A k \in T : m <= k
    BY LeastNumber
  <2>2. m # 0
    <3> SUFFICES ASSUME m = 0 PROVE \E g : g = [i \in 0..0 |-> Step(g, i)]
      BY <2>1
    <3> DEFINE g == [i \in 0..0 |-> <<>>]
    <3>1. g = [i \in 0..0 |-> Step(g, i)]
      OBVIOUS
    <3> HIDE DEF g
    <3> WITNESS g
    <3> QED BY <3>1
  <2>3. m - 1 \in Nat /\ m - 1 \notin T
    <3>1. m \in Nat
      OBVIOUS
    <3> HIDE DEF T
    <3> QED BY <2>1, <2>2, <3>1
  <2>4. PICK g : g = [i \in 0..(m - 1) |-> Step(g, i)]
    BY <2>3
  <2> DEFINE h == [i \in 0..m |-> Step(g, i)]
  <2>5. ASSUME NEW i \in 0..m PROVE Step(h, i) = Step(g, i)
    <3>1. CASE i = 0
      BY <3>1
    <3>2. CASE i # 0
      <4>1. i - 1 \in 0..(m - 1) /\ i - 1 \in 0..m
        BY <3>2
      <4>2. h[i - 1] = Step(g, i - 1)
        BY <4>1
      <4>3. g[i - 1] = Step(g, i - 1)
        BY <4>1, <2>4
      <4> QED BY <4>2, <4>3
    <3> QED BY <3>1, <3>2
  <2>6. h = [i \in 0..m |-> Step(h, i)]
    BY <2>5
  <2> QED BY <2>6, <2>1
<1>3. PICK g : g = [i \in 0..Len(url) |-> Step(g, i)]
  BY <1>1
<1>4. SlashesUpTo(url) = CHOOSE h : h = [i \in 0..Len(url) |-> Step(h, i)]
  BY DEF SlashesUpTo
<1> HIDE DEF Step
<1>5. SlashesUpTo(url) = [i \in 0..Len(url) |-> Step(SlashesUpTo(url), i)]
  BY <1>3, <1>4
<1> QED BY <1>5 DEF Step

\* Slashes lists the slashes of the URL.
LEMMA SlashesList ==
    ASSUME NEW url, Len(url) \in Nat
    PROVE  Lists(url, Len(url), Slashes(url))
<1> DEFINE f == SlashesUpTo(url)
           T == {j \in Nat : j <= Len(url) /\ ~Lists(url, j, f[j])}
<1>1. f = [i \in 0..Len(url) |->
             IF i = 0 THEN <<>>
             ELSE IF url[i] = "/" THEN Append(f[i - 1], i) ELSE f[i - 1]]
  BY SlashesUpToIs
<1> HIDE DEF f
<1>2. T = {}
  <2> SUFFICES ASSUME T # {} PROVE FALSE
    OBVIOUS
  <2>1. PICK m \in T : \A k \in T : m <= k
    BY LeastNumber
  <2>2. m \in 0..Len(url) /\ ~Lists(url, m, f[m])
    OBVIOUS
  <2>3. CASE m = 0
    <3>1. f[m] = <<>>
      BY <1>1, <2>2, <2>3
    <3>2. Lists(url, 0, <<>>)
      BY EmptyIs DEF Lists
    <3> QED BY <2>2, <2>3, <3>1, <3>2
  <2>4. CASE m # 0
    <3>1. m - 1 \in Nat /\ m - 1 <= Len(url) /\ m \in 1..Len(url) /\ ~(m <= m - 1)
      BY <2>2, <2>4
    <3>2. Lists(url, m - 1, f[m - 1])
      BY <3>1, <2>1
    <3>3. f[m] = IF url[m] = "/" THEN Append(f[m - 1], m) ELSE f[m - 1]
      BY <1>1, <2>2, <2>4
    <3> DEFINE s == f[m - 1]
    <3>4. s \in Seq(Nat) /\ Len(s) \in Nat /\ m \in Nat
      BY <3>2 DEF Lists
    <3> HIDE DEF s
    <3>5. CASE url[m] = "/"
      <4> DEFINE q == Append(s, m)
      <4>1. /\ q \in Seq(Nat) /\ Len(q) = Len(s) + 1
            /\ \A i \in 1..Len(s) : q[i] = s[i]
            /\ q[Len(s) + 1] = m
        BY <3>4, AppendIs
      <4> HIDE DEF q
      <4>2. \A i \in 1..Len(q) : i \in 1..Len(s) \/ i = Len(s) + 1
        BY <3>4, <4>1
      <4>3. /\ \A i \in 1..Len(s) : SlashAt(url, s[i]) /\ s[i] <= m - 1
            /\ \A i, k \in 1..Len(s) : i < k => s[i] < s[k]
            /\ \A p \in 1..(m - 1) : SlashAt(url, p) => \E i \in 1..Len(s) : s[i] = p
            /\ \A i \in 1..Len(s) : s[i] \in Nat
        BY <3>2, <3>4, SMTT(40) DEF Lists, s
      <4>4. \A i \in 1..Len(q) : SlashAt(url, q[i]) /\ q[i] <= m
        <5>1. SlashAt(url, m)
          BY <3>1, <3>5 DEF SlashAt
        <5>2. ASSUME NEW i \in 1..Len(s) PROVE SlashAt(url, s[i]) /\ s[i] <= m
          <6>1. SlashAt(url, s[i])
            BY <4>3
          <6>2. s[i] \in Nat /\ s[i] <= m - 1
            BY <4>3
          <6> QED BY <3>4, <6>1, <6>2
        <5>3. m <= m
          BY <3>4
        <5> QED BY <4>1, <4>2, <5>1, <5>2, <5>3, Zenon
      <4>5. ASSUME NEW i \in 1..Len(q), NEW k \in 1..Len(q), i < k PROVE q[i] < q[k]
        <5>1. i \in 1..Len(s)
          BY <3>4, <4>1, <4>5
        <5>2. CASE k \in 1..Len(s)
          BY <4>1, <4>3, <4>5, <5>1, <5>2
        <5>3. CASE k = Len(s) + 1
          <6>1. s[i] <= m - 1 /\ s[i] \in Nat
            BY <4>3, <5>1
          <6> QED BY <3>4, <4>1, <5>1, <5>3, <6>1, SMTT(40)
        <5> QED BY <4>2, <5>2, <5>3
      <4>6. ASSUME NEW p \in 1..m, SlashAt(url, p) PROVE \E i \in 1..Len(q) : q[i] = p
        <5>1. CASE p = m
          BY <3>4, <4>1, <5>1
        <5>2. CASE p # m
          <6>1. p \in 1..(m - 1)
            BY <3>4, <5>2
          <6>2. PICK i \in 1..Len(s) : s[i] = p
            BY <4>3, <4>6, <6>1
          <6>3. i \in 1..Len(q)
            BY <3>4, <4>1
          <6> QED BY <4>1, <6>2, <6>3
        <5> QED BY <5>1, <5>2
      <4>7. Lists(url, m, q)
        BY <4>1, <4>4, <4>5, <4>6 DEF Lists
      <4> QED BY <2>2, <3>3, <3>5, <4>7 DEF s, q
    <3>6. CASE url[m] # "/"
      <4>1. \A p \in 1..m : SlashAt(url, p) => p \in 1..(m - 1)
        BY <3>4, <3>6 DEF SlashAt
      <4>2. \A i \in 1..Len(s) : s[i] \in Nat
        BY <3>4
      <4>3. Lists(url, m, s)
        BY <3>2, <3>4, <4>1, <4>2, SMTT(40) DEF Lists, s
      <4> QED BY <2>2, <3>3, <3>6, <4>3 DEF s
    <3> QED BY <3>5, <3>6
  <2> QED BY <2>3, <2>4
<1>3. Lists(url, Len(url), f[Len(url)])
  BY <1>2
<1> QED BY <1>3 DEF Slashes, f

\* The first slashes of a URL are those that are known, if every slash up to
\* the e-th character is.
LEMMA FirstSlashes ==
    ASSUME NEW url, Len(url) \in Nat, NEW m \in Nat, NEW e \in 0..Len(url),
           NEW h, \A i \in 1..m : h[i] \in 1..e /\ url[h[i]] = "/",
           \A i, k \in 1..m : i < k => h[i] < h[k],
           \A p \in 1..e : url[p] = "/" => \E i \in 1..m : h[i] = p
    PROVE  /\ Slashes(url) \in Seq(Nat) /\ Len(Slashes(url)) \in Nat /\ m <= Len(Slashes(url))
           /\ \A i \in 1..m : Slashes(url)[i] = h[i]
           /\ \A i \in 1..Len(Slashes(url)) :
                 i > m => Slashes(url)[i] > e /\ SlashAt(url, Slashes(url)[i])
           /\ e < Len(url) /\ url[e + 1] = "/" =>
                 m < Len(Slashes(url)) /\ Slashes(url)[m + 1] = e + 1
           /\ e = Len(url) => m = Len(Slashes(url))
<1> DEFINE s == Slashes(url)
<1>1. /\ s \in Seq(Nat) /\ Len(s) \in Nat
      /\ \A i \in 1..Len(s) : SlashAt(url, s[i]) /\ s[i] \in 1..Len(url)
      /\ \A i, k \in 1..Len(s) : i < k => s[i] < s[k]
      /\ \A p \in 1..Len(url) : SlashAt(url, p) => \E i \in 1..Len(s) : s[i] = p
  BY SlashesList DEF Lists, SlashAt
<1> HIDE DEF s
<1>2. \A i \in 1..m : i <= Len(s) /\ s[i] = h[i]
  <2> DEFINE T == {i \in Nat : i \in 1..m /\ ~(i <= Len(s) /\ s[i] = h[i])}
  <2> SUFFICES ASSUME T # {} PROVE FALSE
    <3>1. \A i \in 1..m : i \in Nat
      OBVIOUS
    <3> QED BY <3>1
  <2>1. PICK i \in T : \A k \in T : i <= k
    BY LeastNumber
  <2>2. i \in 1..m /\ ~(i <= Len(s) /\ s[i] = h[i])
    OBVIOUS
  <2>3. ASSUME NEW k \in 1..(i - 1) PROVE k <= Len(s) /\ s[k] = h[k] /\ h[k] < h[i] /\ h[k] \in 1..e
    <3>1. k \in Nat /\ k \in 1..m /\ k < i /\ ~(i <= k)
      BY <2>2
    <3>2. k \notin T
      BY <2>1, <3>1
    <3> QED BY <2>2, <3>1, <3>2
  <2> HIDE DEF T
  <2>4. h[i] \in 1..e /\ h[i] \in 1..Len(url) /\ SlashAt(url, h[i])
    BY <2>2 DEF SlashAt
  <2>5. PICK q \in 1..Len(s) : s[q] = h[i]
    BY <1>1, <2>4
  <2>6. q >= i
    <3>1. ASSUME q < i PROVE FALSE
      <4>1. q \in 1..(i - 1)
        BY <1>1, <2>2, <3>1
      <4>2. s[q] = h[q] /\ h[q] < h[i] /\ h[q] \in 1..e
        BY <2>3, <4>1
      <4> QED BY <2>4, <2>5, <4>2
    <3> QED BY <1>1, <2>2, <3>1
  <2>7. i \in 1..Len(s)
    BY <1>1, <2>2, <2>6
  <2>8. s[i] <= h[i] /\ s[i] \in 1..e
    <3>1. CASE q = i
      BY <2>4, <2>5, <3>1
    <3>2. CASE q # i
      <4>1. i < q
        BY <1>1, <2>2, <2>6, <3>2
      <4>2. s[i] < s[q] /\ s[i] \in 1..Len(url)
        BY <1>1, <2>7, <4>1
      <4> QED BY <2>4, <2>5, <4>2
    <3> QED BY <3>1, <3>2
  <2>9. PICK w \in 1..m : h[w] = s[i]
    BY <1>1, <2>7, <2>8 DEF SlashAt
  <2>10. w >= i
    <3>1. ASSUME w < i PROVE FALSE
      <4>1. w \in 1..(i - 1) /\ w \in 1..Len(s)
        BY <1>1, <2>2, <2>7, <3>1
      <4>2. s[w] = h[w] /\ s[w] < s[i] /\ s[i] \in 1..e
        BY <1>1, <2>3, <2>7, <2>8, <3>1, <4>1
      <4> QED BY <2>9, <4>2
    <3> QED BY <2>2, <3>1
  <2>11. h[w] >= h[i] /\ h[w] \in 1..e
    BY <2>2, <2>4, <2>10
  <2>12. s[i] = h[i]
    BY <2>4, <2>8, <2>9, <2>11
  <2> QED BY <1>1, <2>2, <2>7, <2>12
<1>3. m <= Len(s)
  <2>1. CASE m = 0
    BY <1>1, <2>1
  <2>2. CASE m # 0
    BY <1>2, <2>2
  <2> QED BY <2>1, <2>2
<1>4. ASSUME NEW i \in 1..Len(s), i > m PROVE s[i] > e /\ SlashAt(url, s[i])
  <2>1. SlashAt(url, s[i]) /\ s[i] \in 1..Len(url)
    BY <1>1
  <2>2. ASSUME s[i] <= e PROVE FALSE
    <3>1. s[i] \in 1..e
      BY <2>1, <2>2
    <3>2. PICK k \in 1..m : h[k] = s[i]
      BY <2>1, <3>1 DEF SlashAt
    <3>3. k \in 1..Len(s) /\ k < i
      BY <1>1, <1>3, <1>4
    <3>4. s[k] = h[k] /\ s[k] < s[i]
      BY <1>1, <1>2, <3>3
    <3> QED BY <2>1, <3>2, <3>4
  <2> QED BY <2>1, <2>2
<1>5. ASSUME e < Len(url), url[e + 1] = "/" PROVE m < Len(s) /\ s[m + 1] = e + 1
  <2>1. SlashAt(url, e + 1) /\ e + 1 \in 1..Len(url)
    BY <1>5 DEF SlashAt
  <2>2. PICK q \in 1..Len(s) : s[q] = e + 1
    BY <1>1, <2>1
  <2>3. q > m
    <3>1. ASSUME q <= m PROVE FALSE
      <4>1. q \in 1..m
        BY <3>1
      <4>2. s[q] = h[q] /\ h[q] \in 1..e
        BY <1>2, <4>1
      <4> QED BY <2>2, <4>2
    <3> QED BY <3>1
  <2>4. m + 1 \in 1..Len(s)
    BY <1>1, <2>3
  <2>5. s[m + 1] > e /\ s[m + 1] \in 1..Len(url)
    BY <1>1, <1>4, <2>4
  <2>6. CASE q = m + 1
    BY <1>1, <2>2, <2>4, <2>6
  <2>7. CASE q # m + 1
    <3>1. m + 1 < q
      BY <2>3, <2>7
    <3>2. s[m + 1] < s[q]
      BY <1>1, <2>4, <3>1
    <3> QED BY <2>2, <2>5, <3>2
  <2> QED BY <2>6, <2>7
<1>6. ASSUME e = Len(url) PROVE m = Len(s)
  <2>1. ASSUME m # Len(s) PROVE FALSE
    <3>1. m + 1 \in 1..Len(s) /\ m + 1 > m
      BY <1>1, <1>3, <2>1
    <3>2. s[m + 1] > e /\ s[m + 1] \in 1..Len(url)
      BY <1>1, <1>4, <3>1
    <3> QED BY <1>6, <3>2
  <2> QED BY <2>1
<1> QED BY <1>1, <1>2, <1>3, <1>4, <1>5, <1>6 DEF s

(***************************************************************************)
(* Routes as texts, and the URLs that follow them.                         *)
(***************************************************************************)

\* A function on a..b that never falls.
Rises(f, a, b) ==
    /\ a \in Nat /\ b \in Nat
    /\ \A i \in a..b : f[i] \in Nat
    /\ \A i \in a..b : i + 1 <= b => f[i] <= f[i + 1]

\* A function that rises step by step rises altogether.
LEMMA RisesFar ==
    ASSUME NEW f, NEW a, NEW b, Rises(f, a, b), NEW i \in a..b, NEW j \in a..b, i <= j
    PROVE  f[i] <= f[j]
<1> DEFINE T == {k \in Nat : k \in i..b /\ ~(f[i] <= f[k])}
<1>1. a \in Nat /\ b \in Nat /\ i \in Nat /\ j \in Nat /\ j \in i..b
  BY DEF Rises
<1> SUFFICES ASSUME j \in T PROVE FALSE
  BY <1>1
<1>2. PICK k \in T : \A l \in T : k <= l
  <2>1. T # {} /\ T \in SUBSET Nat
    OBVIOUS
  <2> QED BY <2>1, LeastNumber
<1>3. k \in i..b /\ k \in a..b /\ ~(f[i] <= f[k]) /\ f[i] \in Nat /\ f[k] \in Nat
  BY <1>1 DEF Rises
<1>4. k # i
  BY <1>3
<1>5. k - 1 \in i..b /\ k - 1 \in a..b /\ k - 1 \in Nat /\ ~(k <= k - 1) /\ (k - 1) + 1 = k
  BY <1>1, <1>3, <1>4
<1>6. f[i] <= f[k - 1]
  BY <1>2, <1>5
<1>7. f[k - 1] <= f[k] /\ f[k - 1] \in Nat
  <2>1. (k - 1) + 1 <= b
    BY <1>1, <1>3, <1>5
  <2>2. f[k - 1] <= f[(k - 1) + 1]
    BY <1>5, <2>1 DEF Rises
  <2> QED BY <1>5, <2>2 DEF Rises
<1> QED BY <1>3, <1>6, <1>7

\* What lies between the ends lies between two neighbours.
LEMMA Between ==
    ASSUME NEW f, NEW a, NEW b, Rises(f, a, b), a <= b, NEW p \in Nat, f[a] < p, p <= f[b]
    PROVE  \E j \in (a + 1)..b : f[j - 1] < p /\ p <= f[j]
<1> DEFINE T == {k \in Nat : k \in a..b /\ p <= f[k]}
<1>1. a \in Nat /\ b \in Nat /\ b \in T
  BY DEF Rises
<1>2. PICK k \in T : \A l \in T : k <= l
  <2>1. T # {} /\ T \in SUBSET Nat
    BY <1>1
  <2> QED BY <2>1, LeastNumber
<1>3. k \in a..b /\ p <= f[k] /\ k # a /\ f[a] \in Nat
  <2>1. k \in a..b /\ p <= f[k]
    OBVIOUS
  <2>2. a \in a..b
    BY <1>1
  <2> QED BY <2>1, <2>2 DEF Rises
<1>4. k - 1 \in a..b /\ k - 1 \in Nat /\ ~(k <= k - 1) /\ k \in (a + 1)..b
  BY <1>1, <1>3
<1>5. ~(p <= f[k - 1]) /\ f[k - 1] \in Nat
  BY <1>2, <1>4 DEF Rises
<1> QED BY <1>3, <1>4, <1>5

(***************************************************************************)
(* Routes as texts.                                                        *)
(***************************************************************************)

\* A character of a route, or one of its wildcards.
Symbols == [char : Chars, kind : {"STATIC", "PARAM", "CATCH_ALL"},
            re : {"none", "any", "b"}, name : Names \cup {""}]

Character(c) == [char |-> c, kind |-> "STATIC", re |-> "none", name |-> ""]

Wildcard(s) == [char |-> ":", kind |-> s.kind,
                re |-> IF s.kind = "PARAM" THEN s.re ELSE "none", name |-> s.name]

\* The symbols of a segment, its slash included.
Width(s) == 1 + Len(s.text) + (IF s.kind = "STATIC" THEN 0 ELSE 1)

\* The first k segments stand in t one after the other; start[i] is the slash of the
\* i-th.
LaysTo(segments, k, t, start) ==
    /\ t \in Seq(Symbols)
    /\ start \in [1..(k + 1) -> Nat] /\ start[1] = 1
    /\ \A i \in 1..k :
          LET s == segments[i]
          IN  /\ s.kind # "BAD"
              /\ start[i + 1] = start[i] + Width(s) /\ start[i + 1] <= Len(t) + 1
              /\ t[start[i]] = Character("/")
              /\ \A j \in 1..Len(s.text) : t[start[i] + j] = Character(s.text[j])
              /\ s.kind # "STATIC" => t[start[i + 1] - 1] = Wildcard(s)

Lays(segments, t, start) == LaysTo(segments, Len(segments), t, start)

\* t is the route, and without what follows a catch-all.
Ends(t, z, slash) ==
    IF slash THEN Len(t) = z + 1 /\ t[z + 1] = Character("/") ELSE Len(t) = z

Whole(route, t) ==
    \E start : /\ Lays(route.segments, t, start)
               /\ Ends(t, start[Len(route.segments) + 1] - 1, route.slash)

Spells(route, t) ==
    \E start : /\ Lays(route.segments, t, start)
               /\ Ends(t, start[Len(route.segments) + 1] - 1,
                       route.slash /\ ~EndsInCatchAll(route))

\* What the j-th symbol of a text stands for in the URL.
Taken(url, g, j) == SubSeq(url, g[j - 1] + 1, g[j])

\* The URL, up to character g[j], is what the first j symbols of t stand for.
Follows(t, url, g) ==
    /\ g \in [0..Len(t) -> 0..Len(url)] /\ g[0] = 0
    /\ \A j \in 1..Len(t) :
          /\ t[j].kind = "STATIC" => g[j] = g[j - 1] + 1 /\ url[g[j]] = t[j].char
          /\ t[j].kind # "STATIC" => g[j - 1] <= g[j]
          /\ t[j].kind = "PARAM" =>
                /\ \A p \in (g[j - 1] + 1)..g[j] : url[p] # "/"
                /\ g[j] = Len(url) \/ url[g[j] + 1] = "/"
                /\ g[j] = g[j - 1] \/ Accepts(t[j].re, Taken(url, g, j))

\* Where the segments of a route begin and end in its text.
LEMMA LaysOut ==
    ASSUME NEW segments \in Seq(Segments), NEW t, NEW start, Lays(segments, t, start)
    PROVE  /\ Len(segments) \in Nat /\ Len(t) \in Nat
           /\ \A i \in 1..(Len(segments) + 1) :
                 start[i] \in Nat /\ start[i] >= 1 /\ start[i] <= Len(t) + 1
           /\ \A i, k \in 1..(Len(segments) + 1) : i < k => start[i] < start[k]
           /\ \A j \in 1..(start[Len(segments) + 1] - 1) :
                 \E i \in 1..Len(segments) : start[i] <= j /\ j < start[i + 1]
           /\ \A i \in 1..Len(segments) :
                 /\ segments[i].text \in Seq(Letters) /\ Len(segments[i].text) \in Nat
                 /\ start[i + 1] = start[i] + Width(segments[i]) /\ Width(segments[i]) \in Nat
                 /\ i + 1 \in 1..(Len(segments) + 1) /\ i \in 1..(Len(segments) + 1)
<1> DEFINE k == Len(segments)
<1>1. k \in Nat /\ Len(t) \in Nat
  BY DEF Lays, LaysTo
<1> HIDE DEF k
<1>2. \A i \in 1..(k + 1) : start[i] \in Nat
  BY DEF Lays, LaysTo, k
<1>3. start[1] = 1 /\ \A i \in 1..k : start[i + 1] = start[i] + Width(segments[i]) /\ start[i + 1] <= Len(t) + 1
  BY DEF Lays, LaysTo, k
<1>4. ASSUME NEW i \in 1..k
      PROVE  /\ segments[i].text \in Seq(Letters) /\ Len(segments[i].text) \in Nat
             /\ Width(segments[i]) \in Nat /\ Width(segments[i]) >= 1
             /\ i + 1 \in 1..(k + 1) /\ i \in 1..(k + 1)
             /\ start[i] < start[i + 1] /\ start[i] <= start[i + 1]
  <2>1. segments[i] \in Segments
    BY DEF k
  <2>2. segments[i].text \in Seq(Letters) /\ Len(segments[i].text) \in Nat
    <3>1. segments[i].text \in Seq(Letters)
      BY <2>1 DEF Segments
    <3> QED BY <3>1, LenProperties
  <2>3. Width(segments[i]) \in Nat /\ Width(segments[i]) >= 1
    <3> DEFINE l == Len(segments[i].text)
               w == IF segments[i].kind = "STATIC" THEN 0 ELSE 1
    <3>1. l \in Nat /\ w \in {0, 1} /\ Width(segments[i]) = 1 + l + w
      BY <2>2 DEF Width
    <3> HIDE DEF l, w
    <3> QED BY <3>1
  <2>4. i + 1 \in 1..(k + 1) /\ i \in 1..(k + 1)
    BY <1>1
  <2>5. start[i] \in Nat /\ start[i + 1] = start[i] + Width(segments[i])
    BY <1>2, <1>3, <2>4
  <2> QED BY <2>2, <2>3, <2>4, <2>5
<1>5. Rises(start, 1, k + 1)
  <2>1. \A i \in 1..(k + 1) : i + 1 <= k + 1 => i \in 1..k
    BY <1>1
  <2> QED BY <1>1, <1>2, <1>4, <2>1 DEF Rises
<1>6. ASSUME NEW i \in 1..(k + 1), NEW l \in 1..(k + 1), i < l PROVE start[i] < start[l]
  <2>1. i \in 1..k /\ i + 1 \in 1..(k + 1) /\ i + 1 <= l
    BY <1>1, <1>6
  <2>2. start[i + 1] <= start[l]
    BY <1>5, <2>1, RisesFar
  <2>3. start[i] < start[i + 1]
    BY <1>4, <2>1
  <2> QED BY <1>2, <2>1, <2>2, <2>3
<1>7. ASSUME NEW i \in 1..(k + 1) PROVE start[i] >= 1 /\ start[i] <= Len(t) + 1
  <2>1. 1 \in 1..(k + 1) /\ 1 <= i
    BY <1>1
  <2>2. start[1] <= start[i]
    BY <1>5, <2>1, RisesFar
  <2>3. start[i] <= Len(t) + 1
    <3>1. CASE i = 1
      BY <1>1, <1>3, <3>1
    <3>2. CASE i # 1
      <4>1. i - 1 \in 1..k /\ (i - 1) + 1 = i
        BY <1>1, <3>2
      <4> QED BY <1>3, <4>1
    <3> QED BY <3>1, <3>2
  <2> QED BY <1>2, <1>3, <2>2, <2>3
<1>8. ASSUME NEW j \in 1..(start[k + 1] - 1)
      PROVE  \E i \in 1..k : start[i] <= j /\ j < start[i + 1]
  <2>1. start[k + 1] \in Nat /\ j + 1 \in Nat /\ start[1] < j + 1 /\ j + 1 <= start[k + 1]
        /\ 1 <= k + 1 /\ j \in Nat
    <3>1. k + 1 \in 1..(k + 1)
      BY <1>1
    <3>2. start[k + 1] \in Nat
      BY <1>2, <3>1
    <3> QED BY <1>1, <1>3, <3>2
  <2>2. PICK l \in (1 + 1)..(k + 1) : start[l - 1] < j + 1 /\ j + 1 <= start[l]
    BY <1>5, <2>1, Between
  <2>3. l - 1 \in 1..k /\ (l - 1) + 1 = l /\ l - 1 \in 1..(k + 1) /\ l \in 1..(k + 1)
    BY <1>1
  <2>4. start[l - 1] \in Nat /\ start[l] \in Nat
    BY <1>2, <2>3
  <2>5. start[l - 1] <= j /\ j < start[l]
    BY <2>1, <2>2, <2>4
  <2> QED BY <2>3, <2>5
<1> QED BY <1>1, <1>2, <1>3, <1>4, <1>6, <1>7, <1>8 DEF k

\* What the symbols stand for.
LEMMA SymbolFields ==
    /\ \A c : Character(c).kind = "STATIC" /\ Character(c).char = c
    /\ \A s : /\ Wildcard(s).kind = s.kind /\ Wildcard(s).name = s.name
              /\ s.kind = "PARAM" => Wildcard(s).re = s.re
BY DEF Character, Wildcard

\* What a symbol of a segment is.
LEMMA SymbolIs ==
    ASSUME NEW segments \in Seq(Segments), NEW t, NEW start, Lays(segments, t, start),
           NEW i \in 1..Len(segments), NEW j \in Nat, start[i] <= j, j < start[i + 1]
    PROVE  \/ j = start[i] /\ t[j] = Character("/")
           \/ \E l \in 1..Len(segments[i].text) :
                 /\ j = start[i] + l /\ t[j] = Character(segments[i].text[l])
                 /\ segments[i].text[l] \in Letters
           \/ /\ j = start[i + 1] - 1 /\ segments[i].kind # "STATIC"
              /\ t[j] = Wildcard(segments[i])
<1> DEFINE s == segments[i]
           w == IF s.kind = "STATIC" THEN 0 ELSE 1
           n == Len(s.text)
<1>1. /\ t[start[i]] = Character("/")
      /\ \A l \in 1..Len(s.text) : t[start[i] + l] = Character(s.text[l])
      /\ s.kind # "STATIC" => t[start[i + 1] - 1] = Wildcard(s)
  BY DEF Lays, LaysTo
<1>2. /\ s.text \in Seq(Letters) /\ n \in Nat /\ start[i] \in Nat
      /\ start[i + 1] = start[i] + Width(s) /\ i \in 1..(Len(segments) + 1)
  BY LaysOut
<1>3. w \in {0, 1} /\ Width(s) = 1 + n + w /\ (w = 1 => s.kind # "STATIC")
  BY DEF Width
<1>4. \A l \in 1..n : s.text[l] \in Letters
  BY <1>2
<1> HIDE DEF w, n
<1> DEFINE a == start[i]
           b == start[i + 1]
<1>7. a \in Nat /\ b = a + (1 + n + w) /\ n \in Nat /\ w \in {0, 1} /\ a <= j /\ j < b
  BY <1>2, <1>3
<1> HIDE DEF a, b
<1>8. j = a \/ j - a \in 1..n \/ (j = b - 1 /\ w = 1)
  BY <1>7
<1>5. j = start[i] \/ j - start[i] \in 1..n \/ (j = start[i + 1] - 1 /\ w = 1)
  BY <1>8 DEF a, b
<1>6. CASE j - start[i] \in 1..n
  <2>1. j = start[i] + (j - start[i])
    BY <1>2
  <2> QED BY <1>1, <1>4, <1>6, <2>1 DEF n
<1> QED BY <1>1, <1>3, <1>5, <1>6

\* The URL is walked in one direction.
LEMMA Climbs ==
    ASSUME NEW t \in Seq(Symbols), NEW url, Len(url) \in Nat, NEW g, Follows(t, url, g)
    PROVE  /\ Rises(g, 0, Len(t))
           /\ \A j \in 0..Len(t) : g[j] \in Nat /\ g[j] <= Len(url)
           /\ Len(t) \in Nat
<1>1. Len(t) \in Nat
  OBVIOUS
<1>2. \A j \in 0..Len(t) : g[j] \in Nat /\ g[j] <= Len(url)
  BY DEF Follows
<1>3. ASSUME NEW j \in 0..Len(t), j + 1 <= Len(t) PROVE g[j] <= g[j + 1]
  <2>1. j + 1 \in 1..Len(t) /\ (j + 1) - 1 = j
    BY <1>1, <1>3
  <2>2. /\ t[j + 1].kind = "STATIC" => g[j + 1] = g[j] + 1
        /\ t[j + 1].kind # "STATIC" => g[j] <= g[j + 1]
    BY <2>1 DEF Follows
  <2> QED BY <1>2, <2>2
<1> QED BY <1>1, <1>2, <1>3 DEF Rises

\* As far as no catch-all comes, the slashes of the URL are those of the route.
LEMMA SlashesMeet ==
    ASSUME NEW segments \in Seq(Segments), NEW t, NEW start, Lays(segments, t, start),
           NEW url, Len(url) \in Nat, NEW g, Follows(t, url, g),
           NEW i \in 1..Len(segments), NEW z \in Nat, start[i] <= z, z < start[i + 1],
           \A j \in 1..z : t[j].kind # "CATCH_ALL"
    PROVE  /\ Slashes(url) \in Seq(Nat) /\ Len(Slashes(url)) \in Nat /\ i <= Len(Slashes(url))
           /\ \A l \in 1..i : Slashes(url)[l] = g[start[l]]
           /\ \A l \in 1..Len(Slashes(url)) :
                 l > i => Slashes(url)[l] > g[z] /\ SlashAt(url, Slashes(url)[l])
           /\ g[z] < Len(url) /\ url[g[z] + 1] = "/" =>
                 i < Len(Slashes(url)) /\ Slashes(url)[i + 1] = g[z] + 1
           /\ g[z] = Len(url) => i = Len(Slashes(url))
           /\ g[z] \in 0..Len(url)
<1> DEFINE k == Len(segments)
           h == [l \in 1..i |-> g[start[l]]]
<1>1. /\ t \in Seq(Symbols) /\ k \in Nat /\ Len(t) \in Nat
      /\ \A l \in 1..(k + 1) : start[l] \in Nat /\ start[l] >= 1 /\ start[l] <= Len(t) + 1
      /\ \A l, m \in 1..(k + 1) : l < m => start[l] < start[m]
      /\ \A j \in 1..(start[k + 1] - 1) : \E l \in 1..k : start[l] <= j /\ j < start[l + 1]
  BY LaysOut, ZenonT(40) DEF Lays, LaysTo
<1>2. /\ Rises(g, 0, Len(t)) /\ \A j \in 0..Len(t) : g[j] \in Nat /\ g[j] <= Len(url)
  BY <1>1, Climbs
<1>3. i \in 1..k /\ i \in Nat /\ i + 1 \in 1..(k + 1) /\ i \in 1..(k + 1) /\ \A l \in 1..i : l \in 1..k /\ l \in 1..(k + 1)
  BY <1>1
<1> HIDE DEF k
<1>4. z \in 1..Len(t) /\ z \in 0..Len(t) /\ 0 \in 0..Len(t) /\ 1 <= z
  BY <1>1, <1>3
<1>5. ASSUME NEW j \in 1..Len(t), t[j].kind = "STATIC"
      PROVE  g[j] = g[j - 1] + 1 /\ url[g[j]] = t[j].char /\ g[j - 1] \in Nat
  <2>1. j - 1 \in 0..Len(t)
    BY <1>1
  <2> QED BY <1>2, <1>5, <2>1 DEF Follows
<1>6. ASSUME NEW l \in 1..i
      PROVE  /\ start[l] \in 1..z /\ start[l] \in 0..Len(t)
             /\ h[l] = g[start[l]] /\ h[l] \in 1..g[z] /\ url[h[l]] = "/"
  <2>1. l \in 1..k /\ l \in 1..(k + 1) /\ (l = i \/ l < i)
    BY <1>3
  <2>2. start[l] <= start[i] /\ start[l] \in Nat /\ start[l] >= 1 /\ start[i] \in Nat
    BY <1>1, <1>3, <2>1
  <2>3. start[l] \in 1..z /\ start[l] \in 1..Len(t) /\ start[l] \in 0..Len(t) /\ start[l] <= z
    BY <1>1, <1>4, <2>2
  <2>4. t[start[l]] = Character("/")
    BY <2>1 DEF Lays, LaysTo, k
  <2>5. t[start[l]].kind = "STATIC" /\ t[start[l]].char = "/"
    BY <2>4, SymbolFields
  <2>6. g[start[l]] = g[start[l] - 1] + 1 /\ url[g[start[l]]] = "/" /\ g[start[l] - 1] \in Nat
    BY <1>5, <2>3, <2>5
  <2>7. g[start[l]] <= g[z]
    <3>1. g[start[l]] <= g[z]
      BY <1>2, <1>4, <2>3, RisesFar
    <3> QED BY <3>1
  <2>8. h[l] = g[start[l]]
    OBVIOUS
  <2>9. g[z] \in Nat
    BY <1>2, <1>4
  <2> HIDE DEF h
  <2>10. h[l] \in 1..g[z]
    BY <2>6, <2>7, <2>8, <2>9
  <2> QED BY <2>3, <2>6, <2>8, <2>10
<1>7. ASSUME NEW l \in 1..i, NEW m \in 1..i, l < m PROVE h[l] < h[m]
  <2>1. start[l] < start[m]
    BY <1>1, <1>3, <1>7
  <2>2. start[l] \in 0..Len(t) /\ start[m] \in 1..Len(t) /\ start[m] - 1 \in 0..Len(t) /\ start[l] <= start[m] - 1
    BY <1>1, <1>4, <1>6, <2>1, SMTT(40)
  <2>3. g[start[l]] <= g[start[m] - 1]
    BY <1>2, <2>2, RisesFar
  <2>4. t[start[m]].kind = "STATIC"
    <3>1. t[start[m]] = Character("/")
      BY <1>3 DEF Lays, LaysTo, k
    <3> QED BY <3>1, SymbolFields
  <2>5. g[start[m]] = g[start[m] - 1] + 1 /\ g[start[m] - 1] \in Nat
    BY <1>5, <2>2, <2>4
  <2>6. g[start[l]] \in Nat
    BY <1>2, <2>2
  <2>7. h[l] = g[start[l]] /\ h[m] = g[start[m]]
    OBVIOUS
  <2> HIDE DEF h
  <2> QED BY <2>3, <2>5, <2>6, <2>7
<1>8. ASSUME NEW p \in 1..g[z], url[p] = "/" PROVE \E l \in 1..i : h[l] = p
  <2>1. g[0] = 0 /\ p \in Nat /\ g[0] < p /\ p <= g[z] /\ Rises(g, 0, z) /\ 0 <= z
    <3>1. g[0] = 0
      BY DEF Follows
    <3>2. g[z] \in Nat
      BY <1>2, <1>4
    <3>3. Rises(g, 0, z)
      BY <1>2, <1>4 DEF Rises
    <3> QED BY <3>1, <3>2, <3>3, <1>4
  <2>2. PICK j \in (0 + 1)..z : g[j - 1] < p /\ p <= g[j]
    BY <2>1, Between
  <2>3. j \in 1..z /\ j \in Nat /\ j \in 1..Len(t) /\ j - 1 \in 0..Len(t) /\ j \in 0..Len(t)
    BY <1>1, <1>4
  <2>4. j \in 1..(start[k + 1] - 1)
    <3>1. start[i + 1] <= start[k + 1] /\ start[i + 1] \in Nat /\ start[k + 1] \in Nat
      <4>1. k + 1 \in 1..(k + 1) /\ (i + 1 = k + 1 \/ i + 1 < k + 1)
        BY <1>1, <1>3
      <4> QED BY <1>1, <1>3, <4>1
    <3> QED BY <2>3, <3>1
  <2>5. PICK q \in 1..k : start[q] <= j /\ j < start[q + 1]
    BY <1>1, <2>4
  <2>6. q <= i
    <3>1. ASSUME i < q PROVE FALSE
      <4>1. q \in 1..(k + 1) /\ (i + 1 = q \/ i + 1 < q)
        BY <1>1, <1>3, <3>1
      <4>2. start[i + 1] <= start[q] /\ start[i + 1] \in Nat /\ start[q] \in Nat
        BY <1>1, <1>3, <4>1
      <4> QED BY <2>3, <2>5, <4>2
    <3> QED BY <1>3, <3>1
  <2>7. \/ j = start[q] /\ t[j] = Character("/")
        \/ \E l \in 1..Len(segments[q].text) :
              /\ j = start[q] + l /\ t[j] = Character(segments[q].text[l])
              /\ segments[q].text[l] \in Letters
        \/ /\ j = start[q + 1] - 1 /\ segments[q].kind # "STATIC"
           /\ t[j] = Wildcard(segments[q])
    BY <2>3, <2>5, SymbolIs, SMTT(40) DEF k
  <2>8. g[j] \in Nat /\ g[j - 1] \in Nat
    BY <1>2, <2>3
  <2>9. t[j].kind = "STATIC" => p = g[j] /\ t[j].char = "/"
    <3> SUFFICES ASSUME t[j].kind = "STATIC" PROVE p = g[j] /\ t[j].char = "/"
      OBVIOUS
    <3>1. g[j] = g[j - 1] + 1 /\ url[g[j]] = t[j].char
      BY <1>5, <2>3
    <3>2. p = g[j]
      BY <2>1, <2>2, <2>8, <3>1, SMTT(40)
    <3> QED BY <1>8, <3>1, <3>2
  <2>10. CASE j = start[q] /\ t[j] = Character("/")
    <3>1. p = g[start[q]]
      BY <2>9, <2>10, SymbolFields
    <3>2. q \in 1..i
      BY <2>6, <1>3
    <3> QED BY <1>6, <3>1, <3>2
  <2>11. CASE \E l \in 1..Len(segments[q].text) :
              /\ j = start[q] + l /\ t[j] = Character(segments[q].text[l])
              /\ segments[q].text[l] \in Letters
    <3>1. "/" \in Letters
      BY <2>9, <2>11, SymbolFields
    <3> QED BY <3>1, RoutesAssumption
  <2>12. CASE t[j] = Wildcard(segments[q]) /\ segments[q].kind # "STATIC"
    <3>1. t[j].kind = segments[q].kind
      BY <2>12, SymbolFields
    <3>2. t[j] \in Symbols
      BY <1>1, <2>3
    <3>3. t[j].kind \in {"STATIC", "PARAM", "CATCH_ALL"}
      BY <3>2 DEF Symbols
    <3>4. t[j].kind = "PARAM"
      BY <2>3, <2>12, <3>1, <3>3
    <3>5. \A o \in (g[j - 1] + 1)..g[j] : url[o] # "/"
      BY <2>3, <3>4 DEF Follows
    <3>6. p \in (g[j - 1] + 1)..g[j]
      BY <2>1, <2>2, <2>8
    <3> QED BY <1>8, <3>5, <3>6
  <2> QED BY <2>7, <2>10, <2>11, <2>12
<1>9. g[z] \in 0..Len(url)
  BY <1>2, <1>4
<1>10. \A l \in 1..i : h[l] = g[start[l]]
  OBVIOUS
<1>11. /\ \A l \in 1..i : h[l] \in 1..g[z] /\ url[h[l]] = "/"
       /\ \A l, m \in 1..i : l < m => h[l] < h[m]
       /\ \A p \in 1..g[z] : url[p] = "/" => \E l \in 1..i : h[l] = p
  BY <1>6, <1>7, <1>8
<1> HIDE DEF h
<1>12. /\ Slashes(url) \in Seq(Nat) /\ Len(Slashes(url)) \in Nat /\ i <= Len(Slashes(url))
       /\ \A l \in 1..i : Slashes(url)[l] = h[l]
       /\ \A l \in 1..Len(Slashes(url)) :
             l > i => Slashes(url)[l] > g[z] /\ SlashAt(url, Slashes(url)[l])
       /\ g[z] < Len(url) /\ url[g[z] + 1] = "/" =>
             i < Len(Slashes(url)) /\ Slashes(url)[i + 1] = g[z] + 1
       /\ g[z] = Len(url) => i = Len(Slashes(url))
  BY <1>3, <1>9, <1>11, FirstSlashes, ZenonT(40)
<1> QED BY <1>9, <1>10, <1>12

(***************************************************************************)
(* A segment of the route and the segment of the URL.                      *)
(***************************************************************************)

\* A piece of a text.
LEMMA PieceIs ==
    ASSUME NEW S, NEW s \in Seq(S), NEW a \in Nat, NEW b \in Nat, a <= b, b <= Len(s)
    PROVE  /\ SubSeq(s, a + 1, b) \in Seq(S) /\ Len(SubSeq(s, a + 1, b)) = b - a
           /\ \A j \in 1..(b - a) : SubSeq(s, a + 1, b)[j] = s[a + j]
<1>1. a + 1 \in Int /\ b \in Int /\ Len(s) \in Nat
  OBVIOUS
<1>2. \A j \in (a + 1)..b : s[j] \in S
  BY <1>1
<1>3. /\ SubSeq(s, a + 1, b) \in Seq(S)
      /\ Len(SubSeq(s, a + 1, b)) = IF a + 1 <= b THEN b - (a + 1) + 1 ELSE 0
      /\ \A j \in 1..(b - (a + 1) + 1) : SubSeq(s, a + 1, b)[j] = s[(a + 1) + j - 1]
  BY <1>1, <1>2, SubSeqProperties
<1>4. b - (a + 1) + 1 = b - a /\ (a + 1 <= b \/ b - a = 0)
  OBVIOUS
<1>5. \A j \in 1..(b - a) : (a + 1) + j - 1 = a + j
  OBVIOUS
<1> QED BY <1>3, <1>4, <1>5

\* A piece of a piece.
LEMMA PieceOfPiece ==
    ASSUME NEW S, NEW s \in Seq(S), NEW a \in Nat, NEW b \in Nat, a <= b, b <= Len(s),
           NEW n \in Nat, a + n <= b
    PROVE  /\ From(SubSeq(s, a + 1, b), n + 1) = SubSeq(s, (a + n) + 1, b)
           /\ SubSeq(SubSeq(s, a + 1, b), 1, n) = SubSeq(s, a + 1, a + n)
<1> DEFINE p == SubSeq(s, a + 1, b)
           u == From(p, n + 1)
           v == SubSeq(s, (a + n) + 1, b)
           x == SubSeq(p, 1, n)
           y == SubSeq(s, a + 1, a + n)
<1>1. p \in Seq(S) /\ Len(p) = b - a /\ \A j \in 1..(b - a) : p[j] = s[a + j]
  BY PieceIs
<1>2. v \in Seq(S) /\ Len(v) = b - (a + n) /\ \A j \in 1..(b - (a + n)) : v[j] = s[(a + n) + j]
  BY PieceIs
<1>3. y \in Seq(S) /\ Len(y) = n /\ \A j \in 1..n : y[j] = s[a + j]
  <2>1. a + n \in Nat /\ a <= a + n /\ a + n <= Len(s) /\ (a + n) - a = n
    OBVIOUS
  <2> QED BY <2>1, PieceIs
<1> HIDE DEF p
<1>4. u \in Seq(S) /\ Len(u) = b - (a + n) /\ \A j \in 1..(b - (a + n)) : u[j] = p[n + j]
  <2>1. n + 1 \in 1..(Len(p) + 1) /\ Len(p) - (n + 1) + 1 = b - (a + n)
    BY <1>1
  <2>2. /\ u \in Seq(S) /\ Len(u) = Len(p) - (n + 1) + 1
        /\ \A j \in 1..(Len(p) - (n + 1) + 1) : u[j] = p[(n + 1) + j - 1]
    BY <1>1, <2>1, FromIs
  <2>3. \A j \in 1..(b - (a + n)) : (n + 1) + j - 1 = n + j
    OBVIOUS
  <2> QED BY <2>1, <2>2, <2>3
<1>5. x \in Seq(S) /\ Len(x) = n /\ \A j \in 1..n : x[j] = p[j]
  BY <1>1, UpToIs
<1> HIDE DEF u, v, x, y
<1>6. u = v
  <2>1. ASSUME NEW j \in 1..Len(u) PROVE u[j] = v[j]
    <3>1. j \in 1..(b - (a + n)) /\ n + j \in 1..(b - a) /\ a + (n + j) = (a + n) + j
      BY <1>4
    <3> QED BY <1>1, <1>2, <1>4, <3>1
  <2> QED BY <1>2, <1>4, <2>1, SeqEqual
<1>7. x = y
  <2>1. ASSUME NEW j \in 1..Len(x) PROVE x[j] = y[j]
    <3>1. j \in 1..n /\ j \in 1..(b - a)
      BY <1>5
    <3> QED BY <1>1, <1>3, <1>5, <3>1
  <2> QED BY <1>3, <1>5, <2>1, SeqEqual
<1> QED BY <1>6, <1>7 DEF p, u, v, x, y

\* A piece of the URL that begins with the text of a segment.
LEMMA TextFits ==
    ASSUME NEW S, NEW url \in Seq(S), NEW a \in Nat, NEW b \in Nat, b <= Len(url),
           NEW T, NEW text \in Seq(T), a + Len(text) <= b,
           \A l \in 1..Len(text) : url[a + l] = text[l]
    PROVE  /\ IsPrefix(text, SubSeq(url, a + 1, b))
           /\ From(SubSeq(url, a + 1, b), Len(text) + 1) = SubSeq(url, (a + Len(text)) + 1, b)
           /\ b = a + Len(text) => SubSeq(url, a + 1, b) = text
<1> DEFINE n == Len(text)
           p == SubSeq(url, a + 1, b)
           y == SubSeq(url, a + 1, a + n)
<1>1. n \in Nat /\ a <= b /\ a + n \in Nat /\ a <= a + n /\ a + n <= Len(url) /\ (a + n) - a = n
      /\ a + n <= b
  OBVIOUS
<1>2. p \in Seq(S) /\ Len(p) = b - a
  BY <1>1, PieceIs
<1>3. y \in Seq(S) /\ Len(y) = n /\ \A j \in 1..n : y[j] = url[a + j]
  BY <1>1, PieceIs
<1>4. /\ From(p, n + 1) = SubSeq(url, (a + n) + 1, b)
      /\ SubSeq(p, 1, n) = y
  <2> HIDE DEF n
  <2>1. \A m \in Nat : a + m <= b =>
          /\ From(SubSeq(url, a + 1, b), m + 1) = SubSeq(url, (a + m) + 1, b)
          /\ SubSeq(SubSeq(url, a + 1, b), 1, m) = SubSeq(url, a + 1, a + m)
    <3> SUFFICES ASSUME NEW m \in Nat, a + m <= b
                 PROVE  /\ From(SubSeq(url, a + 1, b), m + 1) = SubSeq(url, (a + m) + 1, b)
                        /\ SubSeq(SubSeq(url, a + 1, b), 1, m) = SubSeq(url, a + 1, a + m)
      OBVIOUS
    <3>1. a <= b
      BY <1>1
    <3> QED BY ONLY <3>1, PieceOfPiece, url \in Seq(S), a \in Nat, b \in Nat, b <= Len(url),
                    m \in Nat, a + m <= b, SMTT(40)
  <2> QED BY <1>1, <2>1
<1>5. y = text
  <2> DEFINE U == S \cup T
  <2>1. y \in Seq(U) /\ text \in Seq(U)
    BY <1>3
  <2>2. \A j \in 1..Len(y) : y[j] = text[j]
    BY <1>3
  <2> QED BY <1>3, <2>1, <2>2, SeqEqual
<1>6. SubSeq(text, 1, n) = text
  BY SubSeqFull
<1>7. Len(text) <= Len(p)
  BY <1>1, <1>2
<1> HIDE DEF p, y
<1>8. IsPrefix(text, p)
  BY <1>4, <1>5, <1>6, <1>7 DEF IsPrefix
<1>9. b = a + n => p = text
  BY <1>5 DEF p, y
<1> QED BY <1>4, <1>8, <1>9 DEF p

\* The text is in the URL after place a, and before b.
HasText(url, a, text, b) ==
    /\ a \in Nat /\ b \in Nat /\ b <= Len(url) /\ a + Len(text) <= b
    /\ \A l \in 1..Len(text) : url[a + l] = text[l]

\* What is left of the URL up to b begins with the text.
AfterText(url, a, text, b) ==
    /\ IsPrefix(text, SubSeq(url, a + 1, b))
    /\ From(SubSeq(url, a + 1, b), Len(text) + 1) = SubSeq(url, (a + Len(text)) + 1, b)

\* The first says the second.
LEMMA TextFitsAt ==
    ASSUME NEW S, NEW url \in Seq(S), NEW T, NEW text \in Seq(T), NEW a, NEW b,
           HasText(url, a, text, b)
    PROVE  AfterText(url, a, text, b)
BY TextFits DEF HasText, AfterText

\* Where a segment stands: its slash, its text and its wildcard.
LEMMA SegmentPlace ==
    ASSUME NEW segments \in Seq(Segments), NEW t, NEW start, Lays(segments, t, start),
           NEW i \in 1..Len(segments)
    PROVE  /\ t \in Seq(Symbols) /\ Len(t) \in Nat
           /\ segments[i].text \in Seq(Letters) /\ Len(segments[i].text) \in Nat
           /\ start[i] \in Nat /\ start[i] >= 1 /\ start[i + 1] \in Nat
           /\ start[i + 1] - 1 \in 1..Len(t) /\ start[i + 1] - 1 \in Nat
           /\ start[i] <= start[i + 1] - 1 /\ start[i + 1] - 1 < start[i + 1]
           /\ segments[i].kind \in {"STATIC", "PARAM", "CATCH_ALL"}
           /\ segments[i].kind = "STATIC" =>
                 start[i + 1] - 1 = start[i] + Len(segments[i].text)
           /\ segments[i].kind # "STATIC" =>
                 /\ (start[i + 1] - 1) - 1 = start[i] + Len(segments[i].text)
                 /\ t[start[i + 1] - 1] = Wildcard(segments[i])
           /\ t[start[i]] = Character("/")
           /\ \A l \in 1..Len(segments[i].text) :
                 t[start[i] + l] = Character(segments[i].text[l])
<1> DEFINE s == segments[i]
           n == Len(s.text)
           a == start[i]
           c == start[i + 1]
           w == IF s.kind = "STATIC" THEN 0 ELSE 1
<1>1. /\ Len(segments) \in Nat /\ Len(t) \in Nat
      /\ \A j \in 1..(Len(segments) + 1) :
            start[j] \in Nat /\ start[j] >= 1 /\ start[j] <= Len(t) + 1
      /\ s.text \in Seq(Letters) /\ n \in Nat
      /\ c = a + Width(s)
      /\ i + 1 \in 1..(Len(segments) + 1) /\ i \in 1..(Len(segments) + 1)
  <2>1. /\ Len(segments) \in Nat /\ Len(t) \in Nat
        /\ \A j \in 1..(Len(segments) + 1) :
              start[j] \in Nat /\ start[j] >= 1 /\ start[j] <= Len(t) + 1
        /\ \A j \in 1..Len(segments) :
              /\ segments[j].text \in Seq(Letters) /\ Len(segments[j].text) \in Nat
              /\ start[j + 1] = start[j] + Width(segments[j])
              /\ j + 1 \in 1..(Len(segments) + 1) /\ j \in 1..(Len(segments) + 1)
    BY LaysOut
  <2> QED BY <2>1
<1>2. /\ t \in Seq(Symbols) /\ t[a] = Character("/") /\ s.kind # "BAD"
      /\ \A l \in 1..n : t[a + l] = Character(s.text[l])
      /\ s.kind # "STATIC" => t[c - 1] = Wildcard(s)
  BY DEF Lays, LaysTo
<1>3. s.kind \in {"STATIC", "PARAM", "CATCH_ALL"}
  <2>1. s \in Segments
    OBVIOUS
  <2> QED BY <1>2, <2>1 DEF Segments
<1>4. Width(s) = 1 + n + w
  BY DEF Width
<1>5. /\ a \in Nat /\ c \in Nat /\ a >= 1 /\ c <= Len(t) + 1 /\ n \in Nat /\ Len(t) \in Nat
      /\ c = a + (1 + n + w) /\ w \in {0, 1} /\ (w = 0 <=> s.kind = "STATIC")
  <2>1. w \in {0, 1} /\ (w = 0 <=> s.kind = "STATIC")
    OBVIOUS
  <2>2. i \in 1..(Len(segments) + 1) /\ i + 1 \in 1..(Len(segments) + 1)
    BY <1>1
  <2> HIDE DEF w, n
  <2>3. a \in Nat /\ c \in Nat /\ a >= 1 /\ c <= Len(t) + 1
    BY <1>1, <2>2
  <2>4. c = a + (1 + n + w)
    BY <1>1, <1>4
  <2>5. n \in Nat /\ Len(t) \in Nat
    BY <1>1
  <2> QED BY <2>1, <2>3, <2>4, <2>5
<1> HIDE DEF a, c, w, n
<1>6. /\ c - 1 \in 1..Len(t) /\ c - 1 \in Nat /\ a <= c - 1 /\ c - 1 < c
      /\ w = 0 => c - 1 = a + n
      /\ w # 0 => (c - 1) - 1 = a + n
  BY <1>5
<1> QED BY <1>1, <1>2, <1>3, <1>5, <1>6 DEF a, c, n

\* The text of a segment stands in the URL, after the segment's slash.
LEMMA TextMeets ==
    ASSUME NEW segments \in Seq(Segments), NEW t, NEW start, Lays(segments, t, start),
           NEW url, Len(url) \in Nat, NEW g, Follows(t, url, g),
           NEW i \in 1..Len(segments)
    PROVE  /\ \A l \in 0..Len(segments[i].text) : g[start[i] + l] = g[start[i]] + l
           /\ \A l \in 1..Len(segments[i].text) : url[g[start[i]] + l] = segments[i].text[l]
           /\ \A l \in 0..Len(segments[i].text) : start[i] + l \in 1..Len(t)
           /\ g[start[i]] \in Nat /\ g[start[i]] \in 1..Len(url) /\ url[g[start[i]]] = "/"
<1> DEFINE s == segments[i]
           n == Len(s.text)
           a == start[i]
           T == {l \in Nat : l <= n /\ g[a + l] # g[a] + l}
<1>1. /\ t \in Seq(Symbols) /\ Len(t) \in Nat /\ a \in Nat /\ a >= 1 /\ n \in Nat
      /\ s.text \in Seq(Letters) /\ a + n <= Len(t)
  <2>1. /\ t \in Seq(Symbols) /\ Len(t) \in Nat /\ a \in Nat /\ a >= 1 /\ n \in Nat
        /\ s.text \in Seq(Letters) /\ start[i + 1] - 1 \in 1..Len(t)
        /\ s.kind = "STATIC" => start[i + 1] - 1 = a + n
        /\ s.kind # "STATIC" => (start[i + 1] - 1) - 1 = a + n
    BY SegmentPlace
  <2> HIDE DEF a, n
  <2> DEFINE e == start[i + 1] - 1
  <2>2. e = a + n \/ e - 1 = a + n
    BY <2>1
  <2>3. e \in 1..Len(t)
    BY <2>1
  <2> HIDE DEF e
  <2>4. a + n <= Len(t)
    BY <2>1, <2>2, <2>3
  <2> QED BY <2>1, <2>4
<1>3. t[a] = Character("/") /\ \A l \in 1..n : t[a + l] = Character(s.text[l])
  BY DEF Lays, LaysTo
<1>4. \A j \in 0..Len(t) : g[j] \in Nat /\ g[j] <= Len(url)
  BY <1>1, Climbs
<1> HIDE DEF n
<1>5. \A l \in 0..n : a + l \in 1..Len(t) /\ a + l \in Nat
  <2> HIDE DEF a
  <2> QED BY <1>1
<1>6. ASSUME NEW l \in 1..n
      PROVE  g[a + l] = g[(a + l) - 1] + 1 /\ url[g[a + l]] = s.text[l]
  <2>1. a + l \in 1..Len(t)
    BY <1>1, <1>5
  <2>2. t[a + l].kind = "STATIC" /\ t[a + l].char = s.text[l]
    BY <1>3, SymbolFields
  <2> QED BY <2>1, <2>2 DEF Follows
<1>7. a \in 0..Len(t) /\ g[a] \in Nat /\ 0 \in 0..n
  BY <1>1, <1>4, <1>5
<1>8. T = {}
  <2> SUFFICES ASSUME T # {} PROVE FALSE
    OBVIOUS
  <2>1. PICK l \in T : \A m \in T : l <= m
    BY LeastNumber
  <2>2. l \in Nat /\ l <= n /\ g[a + l] # g[a] + l
    OBVIOUS
  <2>3. l # 0
    BY <1>1, <1>7, <2>2
  <2>4. l \in 1..n /\ l - 1 \in Nat /\ l - 1 <= n /\ a + (l - 1) = (a + l) - 1 /\ ~(l <= l - 1)
    BY <1>1, <2>2, <2>3
  <2>5. l - 1 \notin T
    BY <2>1, <2>4
  <2>6. g[a + (l - 1)] = g[a] + (l - 1)
    BY <2>4, <2>5
  <2>7. g[a + l] = g[a] + l
    <3>1. g[a + l] = (g[a] + (l - 1)) + 1
      BY <1>6, <2>4, <2>6
    <3> QED BY <3>1, <1>7, <2>2, SMTT(40)
  <2> QED BY <2>2, <2>7
<1>9. \A l \in 0..n : g[a + l] = g[a] + l
  <2> SUFFICES ASSUME NEW l \in 0..n PROVE g[a + l] = g[a] + l
    OBVIOUS
  <2>1. l \in Nat /\ l <= n
    BY <1>1
  <2>2. l \notin T
    BY <1>8
  <2> QED BY <2>1, <2>2
<1>10. ASSUME NEW l \in 1..n PROVE url[g[a] + l] = s.text[l]
  <2>1. l \in 0..n
    BY <1>1
  <2> QED BY <1>6, <1>9, <2>1
<1>11. g[a] \in 1..Len(url) /\ url[g[a]] = "/"
  <2>1. a \in 1..Len(t) /\ a - 1 \in 0..Len(t)
    BY <1>1, <1>5
  <2>2. t[a].kind = "STATIC" /\ t[a].char = "/"
    BY <1>3, SymbolFields
  <2>3. g[a] = g[a - 1] + 1 /\ url[g[a]] = "/"
    BY <2>1, <2>2 DEF Follows
  <2>4. g[a - 1] \in Nat /\ g[a] <= Len(url)
    BY <1>4, <1>7, <2>1
  <2> QED BY <2>3, <2>4
<1> QED BY <1>5, <1>7, <1>9, <1>10, <1>11 DEF n

\* No catch-all among the first z symbols.
NoCatchAll(t, z) == \A j \in 1..z : t[j].kind # "CATCH_ALL"

\* A segment that ends at a slash or with the URL is the URL's segment of the
\* same number, and fits it, if its parameter has any text.
LEMMA SegmentMeets ==
    ASSUME NEW segments \in Seq(Segments), NEW t, NEW start, Lays(segments, t, start),
           NEW S, NEW url \in Seq(S), NEW g, Follows(t, url, g),
           NEW i \in 1..Len(segments), segments[i].kind # "CATCH_ALL",
           NoCatchAll(t, start[i + 1] - 1),
           \/ g[start[i + 1] - 1] = Len(url) \/ url[g[start[i + 1] - 1] + 1] = "/"
    PROVE  /\ i <= Len(Slashes(url))
           /\ segments[i].kind = "PARAM" =>
                 Left(segments[i], Segment(url, i)) = Taken(url, g, start[i + 1] - 1)
           /\ \/ Fits(segments[i], Segment(url, i))
              \/ segments[i].kind = "PARAM" /\ Taken(url, g, start[i + 1] - 1) = <<>>
<1> DEFINE s == segments[i]
           n == Len(s.text)
           a == start[i]
           e == start[i + 1] - 1
           x == g[a]
           b == g[e]
<1>1. /\ t \in Seq(Symbols) /\ Len(t) \in Nat /\ a \in Nat /\ n \in Nat
      /\ s.text \in Seq(Letters) /\ e \in Nat /\ a <= e /\ e < start[i + 1] /\ e \in 1..Len(t)
      /\ s.kind = "STATIC" => e = a + n
      /\ s.kind = "PARAM" => e - 1 = a + n /\ t[e] = Wildcard(s)
      /\ s.kind \in {"STATIC", "PARAM"}
  <2>1. s.kind # "CATCH_ALL"
    OBVIOUS
  <2> QED BY <2>1, SegmentPlace
<1>3. Len(url) \in Nat
  OBVIOUS
<1>4. /\ \A l \in 0..n : g[a + l] = x + l /\ a + l \in 1..Len(t)
      /\ \A l \in 1..n : url[x + l] = s.text[l]
      /\ x \in Nat
  <2>1. /\ \A l \in 0..n : g[a + l] = x + l
        /\ \A l \in 1..n : url[x + l] = s.text[l]
        /\ \A l \in 0..n : a + l \in 1..Len(t)
        /\ x \in Nat
    BY <1>3, TextMeets
  <2> QED BY <2>1
<1>7. /\ Slashes(url) \in Seq(Nat) /\ Len(Slashes(url)) \in Nat /\ i <= Len(Slashes(url))
      /\ \A l \in 1..i : Slashes(url)[l] = g[start[l]]
      /\ b < Len(url) /\ url[b + 1] = "/" =>
            i < Len(Slashes(url)) /\ Slashes(url)[i + 1] = b + 1
      /\ b = Len(url) => i = Len(Slashes(url))
      /\ b \in 0..Len(url)
  <2>1. \A j \in 1..e : t[j].kind # "CATCH_ALL"
    BY DEF NoCatchAll
  <2>2. e \in Nat /\ start[i] <= e /\ e < start[i + 1]
    BY <1>1
  <2> HIDE DEF e
  <2> QED BY <1>3, <2>1, <2>2, SlashesMeet, SMTT(40)
<1>8. i \in 1..i /\ Slashes(url)[i] = x
  <2>1. i \in 1..i
    OBVIOUS
  <2> QED BY <1>7, <2>1
<1>9. (b = Len(url) \/ url[b + 1] = "/") /\ b \in Nat
  BY <1>3, <1>7
<1> HIDE DEF n, a, e, x, b
<1>10. Segment(url, i) = SubSeq(url, x + 1, b)
  <2>1. CASE b = Len(url)
    <3>1. i = Len(Slashes(url))
      BY <1>7, <2>1
    <3> QED BY <1>8, <2>1, <3>1 DEF Segment
  <2>2. CASE b # Len(url)
    <3>1. b < Len(url) /\ url[b + 1] = "/"
      BY <1>3, <1>7, <1>9, <2>2
    <3>2. i # Len(Slashes(url)) /\ Slashes(url)[i + 1] - 1 = b
      BY <1>7, <1>9, <3>1, SMTT(40)
    <3> QED BY <1>8, <3>2 DEF Segment
  <2> QED BY <2>1, <2>2
<1>11. CASE s.kind = "STATIC"
  <2>1. b = x + n
    <3>1. n \in 0..n
      BY <1>1
    <3>2. g[a + n] = x + n
      BY <1>4, <3>1
    <3> QED BY <1>1, <1>11, <3>2 DEF b
  <2>2. b <= Len(url) /\ x + Len(s.text) <= b
    BY <1>3, <1>7, <1>9, <2>1 DEF n
  <2>3. \A l \in 1..Len(s.text) : url[x + l] = s.text[l]
    BY <1>4 DEF n
  <2>4. SubSeq(url, x + 1, b) = s.text
    <3>1. b = x + Len(s.text)
      BY <2>1 DEF n
    <3> QED BY ONLY <1>1, <1>4, <1>9, <2>2, <2>3, <3>1, TextFits, url \in Seq(S), SMTT(40)
  <2>5. Fits(s, Segment(url, i))
    BY <1>10, <1>11, <2>4 DEF Fits
  <2> QED BY <1>7, <1>11, <2>5
<1>12. CASE s.kind = "PARAM"
  <2> DEFINE v == Taken(url, g, e)
  <2>1. g[e - 1] = x + n
    <3>1. n \in 0..n
      BY <1>1
    <3>2. g[a + n] = x + n
      BY <1>4, <3>1
    <3> QED BY <1>1, <1>12, <3>2
  <2>2. t[e].kind = "PARAM" /\ t[e].re = s.re
    BY <1>1, <1>12, SymbolFields
  <2>3. g[e - 1] <= g[e] /\ (g[e] = g[e - 1] \/ Accepts(s.re, v))
    BY <1>1, <2>2 DEF Follows
  <2>4. b <= Len(url) /\ x + Len(s.text) <= b
    BY <1>3, <1>7, <2>1, <2>3 DEF n, b
  <2>5. \A l \in 1..Len(s.text) : url[x + l] = s.text[l]
    BY <1>4 DEF n
  <2>6. /\ IsPrefix(s.text, SubSeq(url, x + 1, b))
        /\ From(SubSeq(url, x + 1, b), Len(s.text) + 1) = SubSeq(url, (x + Len(s.text)) + 1, b)
    <3>1. x \in Nat /\ b \in Nat /\ s.text \in Seq(Letters)
      BY <1>1, <1>4, <1>9
    <3> DEFINE text == s.text
    <3>2. x + Len(text) <= b /\ (\A l \in 1..Len(text) : url[x + l] = text[l]) /\ text \in Seq(Letters)
      BY <2>4, <2>5, <3>1
    <3> HIDE DEF text, s
    <3>3. /\ IsPrefix(text, SubSeq(url, x + 1, b))
          /\ From(SubSeq(url, x + 1, b), Len(text) + 1) = SubSeq(url, (x + Len(text)) + 1, b)
      BY ONLY <2>4, <3>1, <3>2, TextFits, url \in Seq(S)
    <3> QED BY <3>3 DEF text
  <2>7. v = SubSeq(url, (x + Len(s.text)) + 1, b)
    BY <2>1 DEF Taken, n, b
  <2>8. Left(s, Segment(url, i)) = v
    BY <1>10, <2>6, <2>7 DEF Left
  <2>9. g[e] = g[e - 1] => v = <<>>
    <3> SUFFICES ASSUME b = x + n PROVE v = <<>>
      BY <2>1 DEF b
    <3>1. b < (x + n) + 1 /\ (x + n) + 1 \in Int /\ b \in Int
      BY <1>1, <1>4, <1>9
    <3>2. SubSeq(url, (x + n) + 1, b) = <<>>
      BY <3>1, SubSeqEmpty
    <3> QED BY <2>7, <3>2 DEF n
  <2>10. Accepts(s.re, v) => Fits(s, Segment(url, i))
    BY <1>10, <1>12, <2>6, <2>8 DEF Fits
  <2> HIDE DEF v
  <2>11. i <= Len(Slashes(url)) /\ Left(s, Segment(url, i)) = v /\ (Fits(s, Segment(url, i)) \/ v = <<>>)
    BY <1>7, <2>3, <2>8, <2>9, <2>10
  <2> QED BY <1>12, <2>11 DEF v, e
<1> QED BY <1>1, <1>11, <1>12

\* A catch-all stands for all that is left of the URL.
LEMMA CatchAllMeets ==
    ASSUME NEW segments \in Seq(Segments), NEW t, NEW start, Lays(segments, t, start),
           NEW S, NEW url \in Seq(S), NEW g, Follows(t, url, g),
           NEW i \in 1..Len(segments), segments[i].kind = "CATCH_ALL",
           NoCatchAll(t, (start[i + 1] - 1) - 1), g[start[i + 1] - 1] = Len(url)
    PROVE  /\ i <= Len(Slashes(url))
           /\ Left(segments[i], From(url, Slashes(url)[i] + 1)) = Taken(url, g, start[i + 1] - 1)
           /\ Fits(segments[i], Segment(url, i))
<1> DEFINE s == segments[i]
           n == Len(s.text)
           a == start[i]
           e == start[i + 1] - 1
           x == g[a]
<1>1. /\ t \in Seq(Symbols) /\ Len(t) \in Nat /\ a \in Nat /\ n \in Nat
      /\ s.text \in Seq(Letters) /\ e \in Nat /\ a <= e /\ e < start[i + 1] /\ e \in 1..Len(t)
      /\ e - 1 = a + n /\ start[i + 1] \in Nat
  <2>1. s.kind # "STATIC"
    OBVIOUS
  <2> QED BY <2>1, SegmentPlace
<1>2. Len(url) \in Nat
  OBVIOUS
<1>3. /\ \A l \in 0..n : g[a + l] = x + l
      /\ \A l \in 1..n : url[x + l] = s.text[l]
      /\ x \in Nat
  <2>1. /\ \A l \in 0..n : g[a + l] = x + l
        /\ \A l \in 1..n : url[x + l] = s.text[l]
        /\ x \in Nat
    BY <1>2, TextMeets
  <2> QED BY <2>1
<1> DEFINE z == a + n
<1>4. /\ z \in Nat /\ a <= z /\ z < start[i + 1] /\ z = e - 1
  <2> HIDE DEF a, n, e
  <2>1. z \in Nat /\ a <= z /\ z = e - 1 /\ z < e
    BY <1>1
  <2> QED BY <1>1, <2>1
<1>5. g[z] = x + n
  <2>1. n \in 0..n
    BY <1>1
  <2> QED BY <1>3, <2>1
<1>6. /\ Slashes(url) \in Seq(Nat) /\ Len(Slashes(url)) \in Nat /\ i <= Len(Slashes(url))
      /\ \A l \in 1..i : Slashes(url)[l] = g[start[l]]
      /\ \A l \in 1..Len(Slashes(url)) :
            l > i => Slashes(url)[l] > g[z] /\ SlashAt(url, Slashes(url)[l])
      /\ g[z] \in 0..Len(url)
  <2>1. \A j \in 1..z : t[j].kind # "CATCH_ALL"
    BY <1>4 DEF NoCatchAll
  <2> HIDE DEF z
  <2> QED BY <1>2, <1>4, <2>1, SlashesMeet, SMTT(40)
<1>7. i \in 1..i /\ Slashes(url)[i] = x
  <2>1. i \in 1..i
    OBVIOUS
  <2> QED BY <1>6, <2>1
<1> DEFINE text == s.text
<1>8. text \in Seq(Letters) /\ \A l \in 1..Len(text) : url[x + l] = text[l]
  BY <1>1, <1>3
<1>9. x + Len(text) <= Len(url) /\ x \in Nat /\ Len(text) \in Nat
  BY <1>1, <1>3, <1>5, <1>6
<1> HIDE DEF x, text
<1>10. ASSUME NEW b \in Nat, b <= Len(url), x + Len(text) <= b
       PROVE  /\ IsPrefix(text, SubSeq(url, x + 1, b))
              /\ From(SubSeq(url, x + 1, b), Len(text) + 1) = SubSeq(url, (x + Len(text)) + 1, b)
  <2>1. /\ url \in Seq(S) /\ x \in Nat /\ b \in Nat /\ b <= Len(url)
        /\ text \in Seq(Letters) /\ x + Len(text) <= b
        /\ \A l \in 1..Len(text) : url[x + l] = text[l]
    BY ONLY <1>8, <1>9, <1>10, url \in Seq(S)
  <2>2. HasText(url, x, text, b)
    BY ONLY <2>1 DEF HasText
  <2>3. AfterText(url, x, text, b)
    BY ONLY <2>1, <2>2, TextFitsAt
  <2> QED BY ONLY <2>3 DEF AfterText
<1>11. Left(s, From(url, Slashes(url)[i] + 1)) = Taken(url, g, e)
  <2>1. From(SubSeq(url, x + 1, Len(url)), Len(text) + 1) = SubSeq(url, (x + Len(text)) + 1, Len(url))
    BY <1>2, <1>9, <1>10, SMTT(40)
  <2>2. Taken(url, g, e) = SubSeq(url, (x + Len(text)) + 1, Len(url))
    BY <1>4, <1>5 DEF Taken, text
  <2>3. From(url, Slashes(url)[i] + 1) = SubSeq(url, x + 1, Len(url))
    BY <1>7 DEF From
  <2> QED BY <2>1, <2>2, <2>3 DEF Left, text
<1>12. Fits(s, Segment(url, i))
  <2> DEFINE b == IF i = Len(Slashes(url)) THEN Len(url) ELSE Slashes(url)[i + 1] - 1
  <2>1. Segment(url, i) = SubSeq(url, x + 1, b)
    BY <1>7 DEF Segment
  <2>2. b \in Nat /\ b <= Len(url) /\ x + Len(text) <= b
    <3>1. CASE i = Len(Slashes(url))
      BY <1>2, <1>9, <3>1
    <3>2. CASE i # Len(Slashes(url))
      <4>1. i + 1 \in 1..Len(Slashes(url)) /\ i + 1 > i
        BY <1>6, <3>2
      <4>2. Slashes(url)[i + 1] > g[z] /\ Slashes(url)[i + 1] \in 1..Len(url)
        BY <1>6, <4>1 DEF SlashAt
      <4>3. g[z] = x + Len(text)
        BY <1>5 DEF text
      <4>4. Slashes(url)[i + 1] - 1 \in Nat /\ Slashes(url)[i + 1] - 1 <= Len(url)
            /\ x + Len(text) <= Slashes(url)[i + 1] - 1
        BY <1>2, <1>9, <4>2, <4>3
      <4> QED BY <3>2, <4>4
    <3> QED BY <3>1, <3>2
  <2> HIDE DEF b
  <2>3. IsPrefix(text, SubSeq(url, x + 1, b))
    BY <1>10, <2>2
  <2> QED BY <2>1, <2>3 DEF Fits, text
<1> QED BY <1>6, <1>11, <1>12

\* Where the wildcards are.
LEMMA WildcardIs ==
    ASSUME NEW segments \in Seq(Segments), NEW t, NEW start, Lays(segments, t, start),
           NEW j \in 1..(start[Len(segments) + 1] - 1), t[j].kind # "STATIC"
    PROVE  \E i \in 1..Len(segments) :
              /\ j = start[i + 1] - 1 /\ segments[i].kind # "STATIC"
              /\ t[j].kind = segments[i].kind /\ t[j].name = segments[i].name
<1>1. PICK i \in 1..Len(segments) : start[i] <= j /\ j < start[i + 1]
  BY LaysOut
<1>2. j \in Nat
  OBVIOUS
<1>3. \/ j = start[i] /\ t[j] = Character("/")
      \/ \E l \in 1..Len(segments[i].text) :
            /\ j = start[i] + l /\ t[j] = Character(segments[i].text[l])
            /\ segments[i].text[l] \in Letters
      \/ /\ j = start[i + 1] - 1 /\ segments[i].kind # "STATIC"
         /\ t[j] = Wildcard(segments[i])
  BY <1>1, <1>2, SymbolIs
<1>4. j = start[i + 1] - 1 /\ segments[i].kind # "STATIC" /\ t[j] = Wildcard(segments[i])
  BY <1>3, SymbolFields
<1> QED BY <1>4, SymbolFields

\* The last segment alone is a catch-all, if any is.
CatchAllLast(segments) ==
    \A i \in 1..Len(segments) : segments[i].kind = "CATCH_ALL" => i = Len(segments)

\* So nothing before the last symbol of the segments is one.
LEMMA BeforeCatchAll ==
    ASSUME NEW segments \in Seq(Segments), NEW t, NEW start, Lays(segments, t, start),
           CatchAllLast(segments), NEW i \in 1..Len(segments)
    PROVE  /\ segments[i].kind # "CATCH_ALL" => NoCatchAll(t, start[i + 1] - 1)
           /\ NoCatchAll(t, (start[i + 1] - 1) - 1)
<1> DEFINE k == Len(segments)
<1>1. /\ k \in Nat
      /\ \A l \in 1..(k + 1) : start[l] \in Nat /\ start[l] >= 1
      /\ \A l, m \in 1..(k + 1) : l < m => start[l] < start[m]
  BY LaysOut
<1>2. \A l \in 1..k : l \in Nat /\ l + 1 \in 1..(k + 1)
  BY <1>1
<1>3. \A l, m \in 1..(k + 1) : l <= m => start[l] <= start[m]
  <2> SUFFICES ASSUME NEW l \in 1..(k + 1), NEW m \in 1..(k + 1), l <= m PROVE start[l] <= start[m]
    OBVIOUS
  <2>1. l = m \/ l < m
    BY <1>1
  <2> QED BY <1>1, <2>1
<1>4. start[i + 1] \in Nat /\ start[i + 1] >= 1 /\ start[i + 1] <= start[k + 1] /\ start[k + 1] \in Nat
  <2>1. i + 1 \in 1..(k + 1) /\ k + 1 \in 1..(k + 1) /\ i + 1 <= k + 1
    BY <1>1
  <2> QED BY <1>1, <1>3, <2>1
<1>5. ASSUME NEW j \in 1..(start[i + 1] - 1), t[j].kind = "CATCH_ALL"
      PROVE  i = k /\ j = start[i + 1] - 1 /\ segments[i].kind = "CATCH_ALL"
  <2>1. j \in 1..(start[k + 1] - 1)
    BY <1>4
  <2>2. PICK l \in 1..k : j = start[l + 1] - 1 /\ segments[l].kind = "CATCH_ALL"
    <3>1. t[j].kind # "STATIC"
      BY <1>5
    <3> QED BY <1>5, <2>1, <3>1, WildcardIs
  <2>3. l = k
    BY <2>2 DEF CatchAllLast
  <2>4. i = k
    <3>1. ASSUME i < k PROVE FALSE
      <4>1. i + 1 \in 1..(k + 1) /\ k + 1 \in 1..(k + 1) /\ i + 1 < k + 1
        BY <1>1, <3>1
      <4>2. start[i + 1] < start[k + 1]
        BY <1>1, <4>1
      <4> QED BY <1>4, <2>2, <2>3, <4>2
    <3> QED BY <1>1, <3>1
  <2> QED BY <2>2, <2>3, <2>4
<1>6. segments[i].kind # "CATCH_ALL" => NoCatchAll(t, start[i + 1] - 1)
  BY <1>5 DEF NoCatchAll
<1>7. NoCatchAll(t, (start[i + 1] - 1) - 1)
  <2> DEFINE e == start[i + 1] - 1
  <2>1. ASSUME NEW j \in 1..(e - 1) PROVE j \in 1..e /\ j # e
    BY <1>4
  <2>2. \A j \in 1..(e - 1) : t[j].kind # "CATCH_ALL"
    BY <1>5, <2>1
  <2> QED BY <2>2 DEF NoCatchAll
<1> QED BY <1>6, <1>7

(***************************************************************************)
(* A URL that follows the text of a route matches the route.               *)
(***************************************************************************)

\* The symbols of a text that are wildcards, what they stand for in the URL,
\* and is one of them a parameter without any text.
Wilds(t) == {j \in 1..Len(t) : t[j].kind # "STATIC"}

Bindings(t, url, g) == {<<t[j].name, Taken(url, g, j)>> : j \in Wilds(t)}

Skips(t, g) == \E j \in 1..Len(t) : t[j].kind = "PARAM" /\ g[j] = g[j - 1]

\* A slash that is the URL's last character is its last slash.
LEMMA LastSlash ==
    ASSUME NEW S, NEW url \in Seq(S), NEW c \in Nat, c < Len(Slashes(url)),
           Slashes(url)[c + 1] = Len(url)
    PROVE  Len(Slashes(url)) = c + 1 /\ Segment(url, c + 1) = <<>>
<1> DEFINE s == Slashes(url)
<1>1. Len(url) \in Nat
  OBVIOUS
<1>2. Lists(url, Len(url), s)
  BY <1>1, SlashesList
<1> HIDE DEF s
<1>3. /\ s \in Seq(Nat)
      /\ \A i \in 1..Len(s) : s[i] <= Len(url)
      /\ \A i, k \in 1..Len(s) : i < k => s[i] < s[k]
  BY <1>2 DEF Lists
<1>4. Len(s) \in Nat /\ c + 1 \in 1..Len(s) /\ s[c + 1] = Len(url)
  BY <1>3 DEF s
<1>5. ASSUME c + 1 < Len(s) PROVE FALSE
  <2>1. Len(s) \in 1..Len(s)
    BY <1>4
  <2>2. s[c + 1] < s[Len(s)] /\ s[Len(s)] <= Len(url) /\ s[Len(s)] \in Nat
    BY <1>3, <1>4, <1>5, <2>1
  <2> QED BY <1>1, <1>4, <2>2
<1>6. Len(s) = c + 1
  BY <1>4, <1>5
<1>7. Segment(url, c + 1) = SubSeq(url, Len(url) + 1, Len(url))
  BY <1>4, <1>6 DEF Segment, s
<1>8. Len(url) < Len(url) + 1 /\ Len(url) \in Int /\ Len(url) + 1 \in Int
  BY <1>1
<1>9. SubSeq(url, Len(url) + 1, Len(url)) = <<>>
  BY <1>8, SubSeqEmpty
<1> QED BY <1>6, <1>7, <1>9 DEF s

\* What is known of a route that a text spells.
LEMMA RouteIs ==
    ASSUME NEW route \in Routes, Ordinary
    PROVE  /\ route.segments \in Seq(Segments) /\ route.slash \in BOOLEAN
           /\ route.segments # <<>> \/ route.slash
           /\ CatchAllLast(route.segments)
           /\ DOMAIN route.segments = 1..Len(route.segments) /\ Len(route.segments) \in Nat
           /\ EndsInCatchAll(route) <=>
                 Len(route.segments) > 0 /\ route.segments[Len(route.segments)].kind = "CATCH_ALL"
           /\ \A i, j \in 1..Len(route.segments) :
                 /\ route.segments[i].kind # "STATIC" /\ route.segments[j].kind # "STATIC"
                 /\ route.segments[i].name = route.segments[j].name
                 => i = j
<1>1. /\ route \in [segments : Seq(Segments), slash : BOOLEAN]
      /\ route.segments # <<>> \/ route.slash
  BY RoutesAssumption
<1>2. route.segments \in Seq(Segments) /\ route.slash \in BOOLEAN
  BY <1>1
<1>3. DOMAIN route.segments = 1..Len(route.segments) /\ Len(route.segments) \in Nat
  BY <1>2, LenProperties
<1>4. CatchAllLast(route.segments)
  BY <1>3 DEF Ordinary, CatchAllLast
<1>5. route.segments # <<>> <=> Len(route.segments) > 0
  BY <1>2, <1>3, EmptySeq
<1>6. Last(route.segments) = route.segments[Len(route.segments)]
  BY DEF Last
<1>7. \A i, j \in DOMAIN route.segments :
        /\ route.segments[i].kind # "STATIC" /\ route.segments[j].kind # "STATIC"
        /\ route.segments[i].name = route.segments[j].name
        => i = j
  BY DEF Ordinary
<1>8. EndsInCatchAll(route) <=>
         Len(route.segments) > 0 /\ route.segments[Len(route.segments)].kind = "CATCH_ALL"
  BY <1>5, <1>6 DEF EndsInCatchAll
<1> QED BY <1>1, <1>2, <1>3, <1>4, <1>7, <1>8

\* The wildcards of a text are those of the route that it spells.
LEMMA WildsMeet ==
    ASSUME NEW route \in Routes, Ordinary, NEW t, NEW start,
           Lays(route.segments, t, start),
           Ends(t, start[Len(route.segments) + 1] - 1, route.slash /\ ~EndsInCatchAll(route)),
           NEW j \in Wilds(t)
    PROVE  \E i \in 1..Len(route.segments) :
              /\ j = start[i + 1] - 1 /\ route.segments[i].kind # "STATIC"
              /\ t[j].kind = route.segments[i].kind /\ t[j].name = route.segments[i].name
<1> DEFINE z == start[Len(route.segments) + 1] - 1
<1>1. route.segments \in Seq(Segments)
  BY RouteIs
<1>2. j \in 1..Len(t) /\ t[j].kind # "STATIC"
  BY DEF Wilds
<1>3. /\ Len(t) \in Nat /\ Len(route.segments) \in Nat
      /\ \A i \in 1..(Len(route.segments) + 1) : start[i] \in Nat
  BY <1>1, LaysOut
<1>4. z \in Int
  <2>1. Len(route.segments) + 1 \in 1..(Len(route.segments) + 1)
    BY <1>3
  <2> QED BY <1>3, <2>1
<1> HIDE DEF z
<1>5. Len(t) = z \/ (Len(t) = z + 1 /\ t[z + 1] = Character("/"))
  BY DEF Ends, z
<1>6. j # z + 1 \/ Len(t) = z
  BY <1>2, <1>5, SymbolFields
<1>7. j \in 1..z
  BY <1>2, <1>3, <1>4, <1>5, <1>6
<1>8. j \in 1..(start[Len(route.segments) + 1] - 1)
  BY <1>7 DEF z
<1> DEFINE segments == route.segments
<1>9. /\ segments \in Seq(Segments) /\ Lays(segments, t, start) /\ t[j].kind # "STATIC"
      /\ j \in 1..(start[Len(segments) + 1] - 1)
  BY <1>1, <1>2, <1>8
<1> HIDE DEF segments
<1>10. \E i \in 1..Len(segments) :
          /\ j = start[i + 1] - 1 /\ segments[i].kind # "STATIC"
          /\ t[j].kind = segments[i].kind /\ t[j].name = segments[i].name
  BY ONLY <1>9, WildcardIs
<1> QED BY <1>10 DEF segments

\* A parameter that takes nothing is one of the route's.
LEMMA SkipsMeans ==
    ASSUME NEW route \in Routes, Ordinary, NEW t, Spells(route, t),
           NEW S, NEW url \in Seq(S), NEW g, Follows(t, url, g), Skips(t, g)
    PROVE  EmptyValue(route, url)
<1>1. PICK j \in 1..Len(t) : t[j].kind = "PARAM" /\ g[j] = g[j - 1]
  BY DEF Skips
<1>2. PICK start : /\ Lays(route.segments, t, start)
                   /\ Ends(t, start[Len(route.segments) + 1] - 1,
                           route.slash /\ ~EndsInCatchAll(route))
  BY DEF Spells
<1>3. j \in Wilds(t)
  BY <1>1 DEF Wilds
<1>4. PICK i \in 1..Len(route.segments) :
           /\ j = start[i + 1] - 1 /\ t[j].kind = route.segments[i].kind
  BY <1>2, <1>3, WildsMeet
<1>5. g[j] = Len(url) \/ url[g[j] + 1] = "/"
  BY <1>1 DEF Follows
<1>6. /\ route.segments \in Seq(Segments) /\ CatchAllLast(route.segments)
      /\ DOMAIN route.segments = 1..Len(route.segments)
  BY RouteIs
<1>7. route.segments[i].kind = "PARAM" /\ route.segments[i].kind # "CATCH_ALL"
  BY <1>1, <1>4
<1>8. NoCatchAll(t, start[i + 1] - 1)
  BY <1>2, <1>6, <1>7, BeforeCatchAll
<1>9. /\ i <= Len(Slashes(url))
      /\ Left(route.segments[i], Segment(url, i)) = Taken(url, g, j)
  BY <1>2, <1>4, <1>5, <1>6, <1>7, <1>8, SegmentMeets
<1>10. Taken(url, g, j) = <<>>
  <2>1. g[j] \in 0..Len(url)
    BY DEF Follows
  <2>2. g[j - 1] + 1 \in Int /\ g[j] \in Int /\ g[j] < g[j - 1] + 1
    BY <1>1, <2>1
  <2> QED BY <2>2, SubSeqEmpty DEF Taken
<1>11. i \in 1..Len(Slashes(url))
  <2>1. Lists(url, Len(url), Slashes(url)) /\ Len(url) \in Nat
    BY SlashesList
  <2>2. Len(Slashes(url)) \in Nat
    BY <2>1 DEF Lists
  <2> QED BY <1>9, <2>2
<1> QED BY <1>6, <1>7, <1>9, <1>10, <1>11 DEF EmptyValue

\* A slash that is the URL's first character is its first slash.
LEMMA SlashFirst ==
    ASSUME NEW url, Len(url) \in Nat
    PROVE  /\ 0 < Len(url) /\ url[1] = "/" => 0 < Len(Slashes(url)) /\ Slashes(url)[1] = 1
           /\ 0 = Len(url) => 0 = Len(Slashes(url))
<1> DEFINE s == Slashes(url)
<1>1. Lists(url, Len(url), s)
  BY SlashesList
<1> HIDE DEF s
<1>2. /\ s \in Seq(Nat) /\ Len(s) \in Nat
      /\ \A i \in 1..Len(s) : s[i] \in 1..Len(url)
      /\ \A i, l \in 1..Len(s) : i < l => s[i] < s[l]
      /\ \A p \in 1..Len(url) : url[p] = "/" => \E i \in 1..Len(s) : s[i] = p
  <2>1. s \in Seq(Nat)
    BY <1>1 DEF Lists
  <2> QED BY <1>1, <2>1 DEF Lists, SlashAt
<1>3. ASSUME 0 < Len(url), url[1] = "/" PROVE 0 < Len(s) /\ s[1] = 1
  <2>1. 1 \in 1..Len(url)
    BY <1>3
  <2>2. PICK i \in 1..Len(s) : s[i] = 1
    BY <1>2, <1>3, <2>1
  <2>3. 1 \in 1..Len(s) /\ i \in Nat /\ 1 <= i
    BY <1>2
  <2>4. s[1] \in Nat /\ s[1] >= 1
    BY <1>2, <2>3
  <2>5. i = 1
    <3>1. ASSUME 1 < i PROVE FALSE
      <4>1. s[1] < s[i]
        BY <1>2, <2>3, <3>1
      <4> QED BY <2>2, <2>4, <4>1
    <3> QED BY <2>3, <3>1
  <2> QED BY <1>2, <2>2, <2>3, <2>5
<1>4. 0 = Len(url) => 0 = Len(s)
  <2> SUFFICES ASSUME 0 = Len(url), 0 < Len(s) PROVE FALSE
    BY <1>2
  <2>1. 1 \in 1..Len(s)
    BY <1>2
  <2> QED BY <1>2, <2>1
<1> QED BY <1>3, <1>4 DEF s

\* A URL that is what the text of a route stands for matches the route,
\* segment by segment, and the route's values are what its wildcards take.
LEMMA Means ==
    ASSUME NEW route \in Routes, Ordinary, NEW t, Spells(route, t),
           NEW S, NEW url \in Seq(S), NEW g, Follows(t, url, g),
           g[Len(t)] = Len(url), ~Skips(t, g)
    PROVE  Matches(route, url) /\ Values(route, url) = Bindings(t, url, g)
<1> DEFINE segments == route.segments
           k == Len(segments)
           m == Len(Slashes(url))
           slash == route.slash /\ ~EndsInCatchAll(route)
<1>1. PICK start : Lays(segments, t, start) /\ Ends(t, start[k + 1] - 1, slash)
  BY DEF Spells
<1> DEFINE z == start[k + 1] - 1
<1>2. /\ segments \in Seq(Segments) /\ CatchAllLast(segments) /\ route.slash \in BOOLEAN
      /\ DOMAIN segments = 1..k /\ k \in Nat /\ (segments # <<>> \/ route.slash)
      /\ EndsInCatchAll(route) <=> k > 0 /\ segments[k].kind = "CATCH_ALL"
  BY RouteIs
<1>3. /\ Len(t) \in Nat /\ t \in Seq(Symbols) /\ start[1] = 1
      /\ \A i \in 1..(k + 1) : start[i] \in Nat /\ start[i] >= 1 /\ start[i] <= Len(t) + 1
      /\ \A i, l \in 1..(k + 1) : i < l => start[i] < start[l]
  <2>1. t \in Seq(Symbols) /\ start[1] = 1
    BY <1>1 DEF Lays, LaysTo
  <2> QED BY <1>1, <1>2, <2>1, LaysOut
<1>4. Len(url) \in Nat /\ \A j \in 0..Len(t) : g[j] \in Nat /\ g[j] <= Len(url)
  <2>1. Len(url) \in Nat
    OBVIOUS
  <2> QED BY <1>3, <2>1, Climbs
<1>5. k + 1 \in 1..(k + 1) /\ z \in Nat
  <2>1. k + 1 \in 1..(k + 1)
    BY <1>2
  <2> QED BY <1>3, <2>1
<1>6. IF slash THEN Len(t) = z + 1 /\ t[z + 1] = Character("/") ELSE Len(t) = z
  BY <1>1 DEF Ends
<1> HIDE DEF slash, k, m, z, segments
<1>7. ASSUME NEW j \in 1..Len(t), t[j] = Character("/")
      PROVE  g[j] = g[j - 1] + 1 /\ url[g[j]] = "/" /\ g[j - 1] \in Nat
  <2>1. t[j].kind = "STATIC" /\ t[j].char = "/"
    BY <1>7, SymbolFields
  <2>2. j - 1 \in 0..Len(t)
    BY <1>3
  <2> QED BY <1>4, <2>1, <2>2 DEF Follows
<1>8. ASSUME NEW i \in 1..k, segments[i].kind # "CATCH_ALL"
      PROVE  g[start[i + 1] - 1] = Len(url) \/ url[g[start[i + 1] - 1] + 1] = "/"
  <2>1. i \in Nat /\ i + 1 \in 1..(k + 1) /\ (i < k \/ i = k)
    BY <1>2
  <2>2. start[i + 1] \in Nat /\ start[i + 1] >= 1 /\ start[i + 1] <= Len(t) + 1
    BY <1>3, <2>1
  <2>3. CASE start[i + 1] <= Len(t)
    <3>1. t[start[i + 1]] = Character("/")
      <4>1. CASE i < k
        <5>1. i + 1 \in 1..k
          BY <1>2, <4>1
        <5> QED BY <1>1, <5>1 DEF Lays, LaysTo, k, segments
      <4>2. CASE i = k
        <5>1. start[i + 1] = z + 1
          BY <2>2, <4>2 DEF z
        <5>2. Len(t) # z
          BY <1>5, <2>3, <5>1
        <5> QED BY <1>6, <5>1, <5>2
      <4> QED BY <2>1, <4>1, <4>2
    <3>2. start[i + 1] \in 1..Len(t)
      BY <1>3, <2>2, <2>3
    <3>3. url[g[start[i + 1] - 1] + 1] = "/"
      BY <1>7, <3>1, <3>2
    <3> QED BY <3>3
  <2>4. CASE ~(start[i + 1] <= Len(t))
    <3>1. start[i + 1] - 1 = Len(t)
      BY <1>3, <2>2, <2>4
    <3> QED BY <3>1
  <2> QED BY <2>3, <2>4
<1>9. ASSUME NEW i \in 1..k
      PROVE  /\ i <= m /\ Fits(segments[i], Segment(url, i))
             /\ segments[i].kind = "PARAM" =>
                   Left(segments[i], Segment(url, i)) = Taken(url, g, start[i + 1] - 1)
             /\ segments[i].kind = "CATCH_ALL" =>
                   Left(segments[i], From(url, Slashes(url)[i] + 1))
                      = Taken(url, g, start[i + 1] - 1)
  <2>0. i \in 1..Len(segments)
    BY DEF k
  <2>1. CASE segments[i].kind # "CATCH_ALL"
    <3>1. NoCatchAll(t, start[i + 1] - 1)
      BY <1>1, <1>2, <2>0, <2>1, BeforeCatchAll
    <3>2. /\ i <= Len(Slashes(url))
          /\ segments[i].kind = "PARAM" =>
                Left(segments[i], Segment(url, i)) = Taken(url, g, start[i + 1] - 1)
          /\ \/ Fits(segments[i], Segment(url, i))
             \/ segments[i].kind = "PARAM" /\ Taken(url, g, start[i + 1] - 1) = <<>>
      BY <1>1, <1>2, <1>8, <2>0, <2>1, <3>1, SegmentMeets
    <3>3. ASSUME segments[i].kind = "PARAM", Taken(url, g, start[i + 1] - 1) = <<>> PROVE FALSE
      <4> DEFINE e == start[i + 1] - 1
      <4>1. segments[i].kind # "STATIC"
        BY <3>3
      <4>2. e \in 1..Len(t) /\ t[e] = Wildcard(segments[i])
        <5> HIDE DEF e
        <5>1. start[i + 1] - 1 \in 1..Len(t) /\ t[start[i + 1] - 1] = Wildcard(segments[i])
          BY ONLY <1>1, <1>2, <2>0, <4>1, SegmentPlace, SMTT(40)
        <5> QED BY <5>1 DEF e
      <4>3. t[e].kind = "PARAM"
        BY <3>3, <4>2, SymbolFields
      <4>4. g[e - 1] <= g[e]
        BY <4>2, <4>3 DEF Follows
      <4>5. e \in 0..Len(t) /\ e - 1 \in 0..Len(t)
        <5> HIDE DEF e
        <5> QED BY <1>3, <4>2
      <4>6. g[e] \in Nat /\ g[e - 1] \in Nat /\ g[e] <= Len(url)
        BY <1>4, <4>5
      <4> HIDE DEF e
      <4>7. Len(SubSeq(url, g[e - 1] + 1, g[e])) = g[e] - g[e - 1]
        BY ONLY <4>4, <4>6, PieceIs, url \in Seq(S)
      <4>8. Taken(url, g, e) = <<>>
        BY <3>3 DEF e
      <4>9. g[e] - g[e - 1] = 0
        BY <4>7, <4>8 DEF Taken
      <4>10. g[e] = g[e - 1]
        BY <4>6, <4>9
      <4> QED BY <4>2, <4>3, <4>10 DEF Skips
    <3> QED BY <2>1, <3>2, <3>3 DEF m
  <2>2. CASE segments[i].kind = "CATCH_ALL"
    <3>1. i = k
      BY <1>2, <2>0, <2>2 DEF CatchAllLast, k
    <3>2. NoCatchAll(t, (start[i + 1] - 1) - 1)
      BY <1>1, <1>2, <2>0, BeforeCatchAll
    <3>3. g[start[i + 1] - 1] = Len(url)
      <4>1. EndsInCatchAll(route)
        BY <1>2, <2>2, <3>1
      <4>2. Len(t) = z
        BY <1>6, <4>1 DEF slash
      <4> QED BY <3>1, <4>2 DEF z
    <3>4. /\ i <= Len(Slashes(url))
          /\ Left(segments[i], From(url, Slashes(url)[i] + 1)) = Taken(url, g, start[i + 1] - 1)
          /\ Fits(segments[i], Segment(url, i))
      BY <1>1, <1>2, <2>0, <2>2, <3>2, <3>3, CatchAllMeets
    <3> QED BY <2>2, <3>4 DEF m
  <2> QED BY <2>1, <2>2
<1>10. ~EndsInCatchAll(route) =>
          \/ ~route.slash /\ m = k
          \/ route.slash /\ m = k + 1 /\ Segment(url, m) = <<>>
  <2> SUFFICES ASSUME ~EndsInCatchAll(route)
               PROVE  \/ ~route.slash /\ m = k
                      \/ route.slash /\ m = k + 1 /\ Segment(url, m) = <<>>
    OBVIOUS
  <2>1. slash = route.slash
    BY <1>2 DEF slash
  <2>2. z \in 0..Len(t) /\ g[z] \in Nat /\ g[z] <= Len(url)
    <3>1. z \in 0..Len(t)
      BY <1>3, <1>5, <1>6
    <3> QED BY <1>4, <3>1
  <2>3. /\ g[z] < Len(url) /\ url[g[z] + 1] = "/" => k < m /\ Slashes(url)[k + 1] = g[z] + 1
        /\ g[z] = Len(url) => k = m
    <3>1. CASE k = 0
      <4>1. z = 0
        BY <1>3, <3>1 DEF z
      <4>2. g[z] = 0
        BY <4>1 DEF Follows
      <4>4. /\ 0 < Len(url) /\ url[1] = "/" =>
                  0 < Len(Slashes(url)) /\ Slashes(url)[1] = 1
            /\ 0 = Len(url) => 0 = Len(Slashes(url))
        BY <1>4, SlashFirst
      <4>5. 0 + 1 = 1 /\ k + 1 = 1
        BY <3>1
      <4> QED BY <3>1, <4>2, <4>4, <4>5 DEF m
    <3>2. CASE k # 0
      <4>1. k \in 1..Len(segments) /\ segments[k].kind # "CATCH_ALL"
        BY <1>2, <3>2 DEF k
      <4>2. NoCatchAll(t, start[k + 1] - 1)
        BY <1>1, <1>2, <4>1, BeforeCatchAll
      <4>3. start[k] <= start[k + 1] - 1 /\ start[k + 1] - 1 < start[k + 1]
        BY <1>1, <1>2, <4>1, SegmentPlace
      <4>4. z \in Nat /\ start[k] <= z /\ z < start[k + 1] /\ \A j \in 1..z : t[j].kind # "CATCH_ALL"
        BY <1>5, <4>2, <4>3 DEF NoCatchAll, z
      <4>5. /\ g[z] < Len(url) /\ url[g[z] + 1] = "/" =>
                  k < Len(Slashes(url)) /\ Slashes(url)[k + 1] = g[z] + 1
            /\ g[z] = Len(url) => k = Len(Slashes(url))
        BY <1>1, <1>2, <1>4, <4>1, <4>4, SlashesMeet
      <4> QED BY <4>5 DEF m
    <3> QED BY <3>1, <3>2
  <2>4. CASE ~route.slash
    <3>1. Len(t) = z
      BY <1>6, <2>1, <2>4
    <3> QED BY <2>3, <2>4, <3>1
  <2>5. CASE route.slash
    <3>1. Len(t) = z + 1 /\ t[z + 1] = Character("/")
      BY <1>6, <2>1, <2>5
    <3>2. z + 1 \in 1..Len(t) /\ (z + 1) - 1 = z
      BY <1>5, <3>1
    <3>3. g[z + 1] = g[z] + 1 /\ url[g[z + 1]] = "/"
      BY <1>7, <3>1, <3>2
    <3>4. g[z] + 1 = Len(url) /\ url[g[z] + 1] = "/"
      BY <3>1, <3>3
    <3>5. k < m /\ Slashes(url)[k + 1] = Len(url)
      BY <2>2, <2>3, <3>4
    <3>6. Len(Slashes(url)) = k + 1 /\ Segment(url, k + 1) = <<>>
      BY <1>2, <3>5, LastSlash DEF m
    <3> QED BY <2>5, <3>6 DEF m
  <2> QED BY <1>2, <2>4, <2>5
<1>11. Matches(route, url)
  <2>1. \A i \in 1..k : i <= m /\ Fits(segments[i], Segment(url, i))
    BY <1>9
  <2> QED BY <1>10, <2>1 DEF Matches, k, m, segments
<1>12. Values(route, url) = Bindings(t, url, g)
  <2> DEFINE value(i) == Left(segments[i], IF segments[i].kind = "PARAM" THEN Segment(url, i)
                                           ELSE From(url, Slashes(url)[i] + 1))
             wild == {i \in 1..k : segments[i].kind # "STATIC"}
  <2>1. Values(route, url) = {<<segments[i].name, value(i)>> : i \in wild}
    BY <1>2 DEF Values, segments
  <2>2. ASSUME NEW i \in wild
        PROVE  /\ start[i + 1] - 1 \in Wilds(t) /\ t[start[i + 1] - 1].name = segments[i].name
               /\ value(i) = Taken(url, g, start[i + 1] - 1)
    <3>1. i \in 1..k /\ i \in 1..Len(segments) /\ segments[i].kind # "STATIC"
      BY DEF k
    <3>2. /\ start[i + 1] - 1 \in 1..Len(t) /\ t[start[i + 1] - 1] = Wildcard(segments[i])
          /\ segments[i].kind \in {"STATIC", "PARAM", "CATCH_ALL"}
      BY <1>1, <1>2, <3>1, SegmentPlace
    <3>3. /\ t[start[i + 1] - 1].name = segments[i].name
          /\ t[start[i + 1] - 1].kind # "STATIC"
      BY <3>1, <3>2, SymbolFields
    <3>4. value(i) = Taken(url, g, start[i + 1] - 1)
      BY <1>9, <3>1, <3>2
    <3> QED BY <3>2, <3>3, <3>4 DEF Wilds
  <2>3. ASSUME NEW j \in Wilds(t) PROVE \E i \in wild : j = start[i + 1] - 1
    <3>1. Ends(t, start[Len(route.segments) + 1] - 1, route.slash /\ ~EndsInCatchAll(route))
      BY <1>1 DEF k, segments, slash
    <3>2. Lays(route.segments, t, start)
      BY <1>1 DEF segments
    <3>3. PICK i \in 1..Len(route.segments) : j = start[i + 1] - 1 /\ route.segments[i].kind # "STATIC"
      BY <3>1, <3>2, WildsMeet
    <3> QED BY <3>3 DEF k, segments
  <2> HIDE DEF value, wild
  <2>4. \A p : p \in {<<segments[i].name, value(i)>> : i \in wild} <=> p \in Bindings(t, url, g)
    <3>1. ASSUME NEW i \in wild PROVE <<segments[i].name, value(i)>> \in Bindings(t, url, g)
      BY <2>2 DEF Bindings
    <3>2. ASSUME NEW j \in Wilds(t)
          PROVE  <<t[j].name, Taken(url, g, j)>> \in {<<segments[i].name, value(i)>> : i \in wild}
      BY <2>2, <2>3
    <3> QED BY <3>1, <3>2 DEF Bindings
  <2> QED BY <2>1, <2>4
<1> QED BY <1>11, <1>12

(***************************************************************************)
(* Paths with their queues of parameters.                                  *)
(***************************************************************************)

\* c[j] is the number of wildcards among the first j characters of a path.
Counts(p, c) ==
    /\ c \in [0..Len(p) -> Nat] /\ c[0] = 0
    /\ \A j \in 1..Len(p) : c[j] = c[j - 1] + (IF p[j] = ":" THEN 1 ELSE 0)

\* The symbols of a path, of which the wildcards are those of the queue.
Symbol(p, q, c, j) == IF p[j] = ":" THEN Wildcard(q[c[j]]) ELSE Character(p[j])

Reads(p, q, t) ==
    /\ t \in Seq(Symbols) /\ Len(t) = Len(p)
    /\ \E c : /\ Counts(p, c) /\ c[Len(p)] = Len(q)
              /\ \A j \in 1..Len(p) : t[j] = Symbol(p, q, c, j)

\* There are more wildcards in the queue than in the path: addRoute aborts.
Doomed(p, q) == \E c : Counts(p, c) /\ c[Len(p)] < Len(q)

\* Characters as symbols.
Plain(w) == [j \in 1..Len(w) |-> Character(w[j])]

\* A character is a symbol.
LEMMA CharacterType == ASSUME NEW c \in Chars PROVE Character(c) \in Symbols
BY DEF Character, Symbols

\* The wildcard of a segment is a symbol.
LEMMA WildcardType ==
    ASSUME NEW s \in Segments, s.kind \notin {"STATIC", "BAD"} PROVE Wildcard(s) \in Symbols
<1>1. /\ s.kind \in {"PARAM", "CATCH_ALL"} /\ s.re \in {"none", "any", "b"}
      /\ s.name \in Names \cup {""}
  BY DEF Segments
<1>2. ":" \in Chars
  BY DEF Chars
<1> QED BY <1>1, <1>2 DEF Wildcard, Symbols

\* Characters as symbols, one by one.
LEMMA PlainIs ==
    ASSUME NEW w \in Seq(Chars)
    PROVE  /\ Plain(w) \in Seq(Symbols) /\ Len(Plain(w)) = Len(w) /\ Len(w) \in Nat
           /\ \A j \in 1..Len(w) : Plain(w)[j] = Character(w[j])
<1>1. Len(w) \in Nat /\ \A j \in 1..Len(w) : w[j] \in Chars
  OBVIOUS
<1>2. \A j \in 1..Len(w) : Character(w[j]) \in Symbols
  BY <1>1, CharacterType
<1>3. Plain(w) \in [1..Len(w) -> Symbols]
  BY <1>2 DEF Plain
<1>4. Plain(w) \in Seq(Symbols) /\ Len(Plain(w)) = Len(w)
  <2> HIDE DEF Plain
  <2>1. \A n \in Nat : \A f \in [1..n -> Symbols] : f \in Seq(Symbols)
    BY SeqDef
  <2>2. Plain(w) \in Seq(Symbols)
    BY <1>1, <1>3, <2>1
  <2>3. DOMAIN Plain(w) = 1..Len(w)
    BY <1>3
  <2>4. DOMAIN Plain(w) = 1..Len(Plain(w)) /\ Len(Plain(w)) \in Nat
    BY <2>2, LenProperties
  <2> QED BY <1>1, <2>2, <2>3, <2>4
<1>5. \A j \in 1..Len(w) : Plain(w)[j] = Character(w[j])
  BY DEF Plain
<1> QED BY <1>1, <1>4, <1>5

\* Texts of symbols, one after the other.
LEMMA Joining ==
    ASSUME NEW t \in Seq(Symbols), NEW u \in Seq(Symbols)
    PROVE  /\ t \o u \in Seq(Symbols) /\ Len(t \o u) = Len(t) + Len(u)
           /\ Len(t) \in Nat /\ Len(u) \in Nat
           /\ \A j \in 1..Len(t) : (t \o u)[j] = t[j]
           /\ \A j \in 1..Len(u) : (t \o u)[Len(t) + j] = u[j]
<1> DEFINE S == Symbols
<1>1. t \in Seq(S) /\ u \in Seq(S)
  OBVIOUS
<1> HIDE DEF S
<1>2. /\ t \o u \in Seq(S) /\ Len(t \o u) = Len(t) + Len(u)
      /\ Len(t) \in Nat /\ Len(u) \in Nat
      /\ \A j \in 1..Len(t) : (t \o u)[j] = t[j]
      /\ \A j \in 1..Len(u) : (t \o u)[Len(t) + j] = u[j]
  BY ONLY <1>1, ConcatIs
<1> QED BY <1>2 DEF S

\* One wildcard at a time.
LEMMA CountsRise ==
    ASSUME NEW p \in Seq(Chars), NEW c, Counts(p, c)
    PROVE  /\ Rises(c, 0, Len(p)) /\ Len(p) \in Nat
           /\ \A j \in 0..Len(p) : c[j] \in Nat /\ c[j] <= c[Len(p)]
           /\ \A j \in 1..Len(p) : c[j - 1] \in Nat /\ (p[j] = ":" => c[j] = c[j - 1] + 1)
                                   /\ (p[j] # ":" => c[j] = c[j - 1])
<1>1. Len(p) \in Nat
  OBVIOUS
<1>2. \A j \in 0..Len(p) : c[j] \in Nat
  BY DEF Counts
<1>3. ASSUME NEW j \in 1..Len(p)
      PROVE  /\ c[j - 1] \in Nat /\ c[j] = c[j - 1] + (IF p[j] = ":" THEN 1 ELSE 0)
  <2>1. j - 1 \in 0..Len(p)
    BY <1>1
  <2> QED BY <1>2, <2>1 DEF Counts
<1>4. ASSUME NEW j \in 0..Len(p), j + 1 <= Len(p) PROVE c[j] <= c[j + 1]
  <2>1. j + 1 \in 1..Len(p) /\ (j + 1) - 1 = j
    BY <1>1, <1>4
  <2>2. c[j + 1] = c[j] + (IF p[j + 1] = ":" THEN 1 ELSE 0)
    BY <1>3, <2>1
  <2>3. c[j + 1] = c[j] + 1 \/ c[j + 1] = c[j] + 0
    BY <2>2
  <2>4. c[j] \in Nat
    BY <1>2
  <2> QED BY <2>3, <2>4
<1>5. Rises(c, 0, Len(p))
  BY <1>1, <1>2, <1>4 DEF Rises
<1>6. \A j \in 0..Len(p) : c[j] <= c[Len(p)]
  <2>1. Len(p) \in 0..Len(p)
    BY <1>1
  <2> QED BY <1>1, <1>5, <2>1, RisesFar
<1>7. \A j \in 1..Len(p) : (p[j] = ":" => c[j] = c[j - 1] + 1) /\ (p[j] # ":" => c[j] = c[j - 1])
  <2> SUFFICES ASSUME NEW j \in 1..Len(p)
               PROVE  (p[j] = ":" => c[j] = c[j - 1] + 1) /\ (p[j] # ":" => c[j] = c[j - 1])
    OBVIOUS
  <2>1. c[j - 1] + 0 = c[j - 1]
    BY <1>3
  <2> QED BY <1>3, <2>1
<1> QED BY <1>1, <1>2, <1>3, <1>5, <1>6, <1>7

\* Text at the end of a path.
LEMMA ReadsText ==
    ASSUME NEW p \in Seq(Chars), NEW q, NEW t, Reads(p, q, t),
           NEW w \in Seq(Chars), \A j \in 1..Len(w) : w[j] # ":"
    PROVE  p \o w \in Seq(Chars) /\ Reads(p \o w, q, t \o Plain(w))
<1> DEFINE n == Len(p)
           m == Len(w)
           pw == p \o w
           tw == t \o Plain(w)
<1>1. PICK c : /\ Counts(p, c) /\ c[n] = Len(q)
               /\ \A j \in 1..n : t[j] = Symbol(p, q, c, j)
  BY DEF Reads
<1>2. t \in Seq(Symbols) /\ Len(t) = n /\ n \in Nat /\ m \in Nat
  BY DEF Reads
<1>3. /\ pw \in Seq(Chars) /\ Len(pw) = n + m
      /\ \A j \in 1..n : pw[j] = p[j]
      /\ \A j \in 1..m : pw[n + j] = w[j]
  BY ConcatIs
<1>4. /\ tw \in Seq(Symbols) /\ Len(tw) = n + m
      /\ \A j \in 1..n : tw[j] = t[j]
      /\ \A j \in 1..m : tw[n + j] = Character(w[j])
  <2>1. Plain(w) \in Seq(Symbols) /\ Len(Plain(w)) = m /\ \A j \in 1..m : Plain(w)[j] = Character(w[j])
    BY PlainIs
  <2>2. /\ tw \in Seq(Symbols) /\ Len(tw) = Len(t) + Len(Plain(w))
        /\ \A j \in 1..Len(t) : tw[j] = t[j]
        /\ \A j \in 1..Len(Plain(w)) : tw[Len(t) + j] = Plain(w)[j]
    BY <1>2, <2>1, Joining
  <2> QED BY <1>2, <2>1, <2>2
<1> DEFINE d == [j \in 0..(n + m) |-> IF j <= n THEN c[j] ELSE c[n]]
<1>5. \A j \in 0..n : c[j] \in Nat
  BY <1>1 DEF Counts
<1> HIDE DEF n, m, pw, tw
<1>6. n \in 0..n /\ n + m \in 0..(n + m) /\ 0 \in 0..(n + m) /\ 0 <= n
  BY <1>2
<1>7. /\ d \in [0..(n + m) -> Nat]
      /\ \A j \in 0..n : d[j] = c[j]
      /\ \A j \in n..(n + m) : d[j] = c[n]
  <2>1. \A j \in 0..(n + m) : d[j] \in Nat
    BY <1>2, <1>5, <1>6
  <2>2. \A j \in 0..n : d[j] = c[j]
    BY <1>2
  <2>3. \A j \in n..(n + m) : d[j] = c[n]
    BY <1>2
  <2> QED BY <2>1, <2>2, <2>3
<1> HIDE DEF d
<1>8. ASSUME NEW j \in 1..(n + m)
      PROVE  /\ d[j] = d[j - 1] + (IF pw[j] = ":" THEN 1 ELSE 0)
             /\ tw[j] = Symbol(pw, q, d, j)
  <2>1. CASE j \in 1..n
    <3>1. j \in 0..n /\ j - 1 \in 0..n
      BY <1>2, <2>1
    <3>2. d[j] = c[j] /\ d[j - 1] = c[j - 1] /\ pw[j] = p[j] /\ tw[j] = t[j]
      BY <1>3, <1>4, <1>7, <2>1, <3>1
    <3>3. c[j] = c[j - 1] + (IF p[j] = ":" THEN 1 ELSE 0)
      BY <1>1, <2>1 DEF Counts, n
    <3> QED BY <1>1, <2>1, <3>2, <3>3 DEF Symbol
  <2>2. CASE j \notin 1..n
    <3>1. /\ j - n \in 1..m /\ j = n + (j - n) /\ j \in n..(n + m) /\ j - 1 \in n..(n + m)
      BY <1>2, <2>2
    <3>2. d[j] = c[n] /\ d[j - 1] = c[n] /\ c[n] \in Nat
      BY <1>5, <1>6, <1>7, <3>1
    <3>3. pw[j] = w[j - n] /\ w[j - n] # ":" /\ tw[j] = Character(w[j - n])
      BY <1>3, <1>4, <3>1 DEF m
    <3> QED BY <3>2, <3>3 DEF Symbol
  <2> QED BY <2>1, <2>2
<1>9. Counts(pw, d) /\ d[Len(pw)] = Len(q)
  <2>1. d[0] = 0
    <3>1. 0 \in 0..n
      BY <1>2
    <3>2. c[0] = 0
      BY <1>1 DEF Counts
    <3> QED BY <1>7, <3>1, <3>2
  <2>2. d[n + m] = c[n]
    <3>1. n + m \in n..(n + m)
      BY <1>2
    <3> QED BY <1>7, <3>1
  <2> QED BY <1>1, <1>3, <1>7, <1>8, <2>1, <2>2 DEF Counts
<1>10. Reads(pw, q, tw)
  BY <1>3, <1>4, <1>8, <1>9 DEF Reads
<1> QED BY <1>3, <1>10 DEF pw, tw

\* A wildcard at the end of a path.
LEMMA ReadsWildcard ==
    ASSUME NEW p \in Seq(Chars), NEW q \in Seq(Segments), NEW t, Reads(p, q, t),
           NEW s \in Segments, s.kind \notin {"STATIC", "BAD"}
    PROVE  p \o <<":">> \in Seq(Chars) /\ Reads(p \o <<":">>, Append(q, s), t \o <<Wildcard(s)>>)
<1> DEFINE n == Len(p)
           pw == p \o <<":">>
           qw == Append(q, s)
           tw == t \o <<Wildcard(s)>>
<1>1. PICK c : /\ Counts(p, c) /\ c[n] = Len(q)
               /\ \A j \in 1..n : t[j] = Symbol(p, q, c, j)
  BY DEF Reads
<1>2. t \in Seq(Symbols) /\ Len(t) = n /\ n \in Nat /\ Len(q) \in Nat
  BY DEF Reads
<1>3. /\ pw \in Seq(Chars) /\ Len(pw) = n + 1
      /\ \A j \in 1..n : pw[j] = p[j]
      /\ pw[n + 1] = ":"
  <2>1. <<":">> \in Seq(Chars) /\ Len(<<":">>) = 1 /\ <<":">>[1] = ":" /\ 1 \in 1..1
    BY DEF Chars
  <2> QED BY <2>1, ConcatIs
<1>4. /\ tw \in Seq(Symbols) /\ Len(tw) = n + 1
      /\ \A j \in 1..n : tw[j] = t[j]
      /\ tw[n + 1] = Wildcard(s)
  <2> DEFINE o == <<Wildcard(s)>>
  <2>1. o \in Seq(Symbols) /\ Len(o) = 1 /\ o[1] = Wildcard(s) /\ 1 \in 1..1
    BY WildcardType
  <2> HIDE DEF o
  <2>2. t \o o \in Seq(Symbols) /\ Len(t \o o) = n + 1
        /\ (\A j \in 1..n : (t \o o)[j] = t[j]) /\ (t \o o)[n + 1] = Wildcard(s)
    <3>1. /\ t \o o \in Seq(Symbols) /\ Len(t \o o) = Len(t) + Len(o)
          /\ \A j \in 1..Len(t) : (t \o o)[j] = t[j]
          /\ \A j \in 1..Len(o) : (t \o o)[Len(t) + j] = o[j]
      BY <1>2, <2>1, Joining
    <3> HIDE DEF n
    <3> QED BY <1>2, <2>1, <3>1
  <2> QED BY <2>2 DEF o
<1>5. /\ Len(qw) = Len(q) + 1 /\ qw[Len(q) + 1] = s /\ \A j \in 1..Len(q) : qw[j] = q[j]
  BY AppendIs
<1>6. /\ \A j \in 0..n : c[j] \in Nat /\ c[j] <= Len(q)
      /\ \A j \in 1..n : c[j - 1] \in Nat /\ (p[j] = ":" => c[j] = c[j - 1] + 1)
  BY <1>1, CountsRise
<1> DEFINE d == [j \in 0..(n + 1) |-> IF j <= n THEN c[j] ELSE Len(q) + 1]
<1> HIDE DEF n, pw, tw, qw
<1>7. /\ d \in [0..(n + 1) -> Nat]
      /\ \A j \in 0..n : d[j] = c[j]
      /\ d[n + 1] = Len(q) + 1
  <2>1. \A j \in 0..(n + 1) : d[j] \in Nat
    BY <1>2, <1>6
  <2>2. \A j \in 0..n : d[j] = c[j]
    BY <1>2
  <2>3. d[n + 1] = Len(q) + 1
    BY <1>2
  <2> QED BY <2>1, <2>2, <2>3
<1> HIDE DEF d
<1>8. ASSUME NEW j \in 1..(n + 1)
      PROVE  /\ d[j] = d[j - 1] + (IF pw[j] = ":" THEN 1 ELSE 0)
             /\ tw[j] = Symbol(pw, qw, d, j)
  <2>1. CASE j \in 1..n
    <3>1. j \in 0..n /\ j - 1 \in 0..n
      BY <1>2, <2>1
    <3>2. d[j] = c[j] /\ d[j - 1] = c[j - 1] /\ pw[j] = p[j] /\ tw[j] = t[j]
      BY <1>3, <1>4, <1>7, <2>1, <3>1
    <3>3. c[j] = c[j - 1] + (IF p[j] = ":" THEN 1 ELSE 0)
      BY <1>1, <2>1 DEF Counts, n
    <3>4. p[j] = ":" => qw[c[j]] = q[c[j]]
      <4> SUFFICES ASSUME p[j] = ":" PROVE qw[c[j]] = q[c[j]]
        OBVIOUS
      <4>1. c[j - 1] \in Nat /\ c[j] = c[j - 1] + 1 /\ c[j] <= Len(q) /\ c[j] \in Nat
        BY <1>6, <2>1, <3>1
      <4>2. c[j] \in 1..Len(q)
        BY <1>2, <4>1
      <4> QED BY <1>5, <4>2
    <3> QED BY <1>1, <2>1, <3>2, <3>3, <3>4 DEF Symbol
  <2>2. CASE j \notin 1..n
    <3>1. j = n + 1 /\ j - 1 = n /\ n \in 0..n
      BY <1>2, <2>2
    <3>2. d[j] = Len(q) + 1 /\ d[j - 1] = Len(q)
      BY <1>1, <1>7, <3>1
    <3>3. pw[j] = ":" /\ tw[j] = Wildcard(qw[Len(q) + 1])
      BY <1>3, <1>4, <1>5, <3>1
    <3> QED BY <3>2, <3>3 DEF Symbol
  <2> QED BY <2>1, <2>2
<1>9. Counts(pw, d) /\ d[Len(pw)] = Len(qw)
  <2>1. d[0] = 0
    <3>1. 0 \in 0..n
      BY <1>2
    <3>2. c[0] = 0
      BY <1>1 DEF Counts
    <3> QED BY <1>7, <3>1, <3>2
  <2> QED BY <1>3, <1>5, <1>7, <1>8, <2>1 DEF Counts
<1>10. Reads(pw, qw, tw)
  BY <1>3, <1>4, <1>8, <1>9 DEF Reads
<1> QED BY <1>3, <1>10 DEF pw, tw, qw

\* The first segments, alone.
LEMMA LaysSome ==
    ASSUME NEW segments \in Seq(Segments), NEW k \in 0..Len(segments), NEW t, NEW start,
           LaysTo(segments, k, t, start)
    PROVE  /\ Lays(SubSeq(segments, 1, k), t, start)
           /\ SubSeq(segments, 1, k) \in Seq(Segments) /\ Len(SubSeq(segments, 1, k)) = k
           /\ \A i \in 1..k : SubSeq(segments, 1, k)[i] = segments[i]
<1> DEFINE some == SubSeq(segments, 1, k)
<1>1. some \in Seq(Segments) /\ Len(some) = k /\ \A i \in 1..k : some[i] = segments[i]
  BY UpToIs
<1> HIDE DEF some
<1>2. ASSUME NEW i \in 1..k
      PROVE  /\ some[i].kind # "BAD"
             /\ start[i + 1] = start[i] + Width(some[i]) /\ start[i + 1] <= Len(t) + 1
             /\ t[start[i]] = Character("/")
             /\ \A j \in 1..Len(some[i].text) : t[start[i] + j] = Character(some[i].text[j])
             /\ some[i].kind # "STATIC" => t[start[i + 1] - 1] = Wildcard(some[i])
  <2>1. some[i] = segments[i]
    BY <1>1
  <2>2. /\ segments[i].kind # "BAD"
        /\ start[i + 1] = start[i] + Width(segments[i]) /\ start[i + 1] <= Len(t) + 1
        /\ t[start[i]] = Character("/")
        /\ \A j \in 1..Len(segments[i].text) : t[start[i] + j] = Character(segments[i].text[j])
        /\ segments[i].kind # "STATIC" => t[start[i + 1] - 1] = Wildcard(segments[i])
    BY DEF LaysTo
  <2> QED BY <2>1, <2>2
<1>3. t \in Seq(Symbols) /\ start \in [1..(k + 1) -> Nat] /\ start[1] = 1
  BY DEF LaysTo
<1>4. LaysTo(some, Len(some), t, start)
  BY <1>1, <1>2, <1>3 DEF LaysTo
<1> QED BY <1>1, <1>4 DEF some, Lays

\* Text t2 is t and segment s.
Adds(s, t, t2) ==
    /\ t2 \in Seq(Symbols) /\ Len(t2) = Len(t) + Width(s) /\ s.kind # "BAD"
    /\ \A j \in 1..Len(t) : t2[j] = t[j]
    /\ t2[Len(t) + 1] = Character("/")
    /\ \A j \in 1..Len(s.text) : t2[(Len(t) + 1) + j] = Character(s.text[j])
    /\ s.kind # "STATIC" => t2[Len(t2)] = Wildcard(s)

\* One more segment at the end of a text.
LEMMA LaysMore ==
    ASSUME NEW segments \in Seq(Segments), NEW k \in Nat, k < Len(segments), NEW t, NEW start,
           LaysTo(segments, k, t, start), start[k + 1] = Len(t) + 1,
           NEW t2, Adds(segments[k + 1], t, t2)
    PROVE  \E start2 : LaysTo(segments, k + 1, t2, start2) /\ start2[(k + 1) + 1] = Len(t2) + 1
<1> DEFINE s == segments[k + 1]
           w == Width(s)
           some == SubSeq(segments, 1, k)
           start2 == [i \in 1..(k + 2) |-> IF i <= k + 1 THEN start[i] ELSE (Len(t) + 1) + w]
<1>0. /\ t2 \in Seq(Symbols) /\ Len(t2) = Len(t) + w /\ s.kind # "BAD"
      /\ \A j \in 1..Len(t) : t2[j] = t[j]
      /\ t2[Len(t) + 1] = Character("/")
      /\ \A j \in 1..Len(s.text) : t2[(Len(t) + 1) + j] = Character(s.text[j])
      /\ s.kind # "STATIC" => t2[Len(t2)] = Wildcard(s)
  BY DEF Adds
<1>1. k \in 0..Len(segments) /\ k + 1 \in 1..Len(segments) /\ Len(segments) \in Nat
  OBVIOUS
<1>2. /\ Lays(some, t, start) /\ some \in Seq(Segments) /\ Len(some) = k
      /\ \A i \in 1..k : some[i] = segments[i]
  BY <1>1, LaysSome
<1>3. s \in Segments
  BY <1>1
<1>4. s.text \in Seq(Letters) /\ Len(s.text) \in Nat /\ w \in Nat /\ Width(s) = w
  <2>1. s.text \in Seq(Letters)
    BY <1>3 DEF Segments
  <2>2. Len(s.text) \in Nat
    BY <2>1
  <2> DEFINE v == IF s.kind = "STATIC" THEN 0 ELSE 1
             n == Len(s.text)
  <2>3. v \in Nat /\ w = 1 + n + v
    BY DEF Width
  <2> HIDE DEF v, n, w
  <2>4. w \in Nat
    BY <2>2, <2>3 DEF n
  <2> QED BY <2>1, <2>2, <2>4 DEF w
<1> HIDE DEF some, w
<1>5. /\ Len(t) \in Nat /\ t \in Seq(Symbols) /\ start \in [1..(k + 1) -> Nat] /\ start[1] = 1
      /\ \A i \in 1..(k + 1) : start[i] \in Nat
  BY <1>2, LaysOut DEF LaysTo
<1>6. /\ start2 \in [1..((k + 1) + 1) -> Nat]
      /\ \A i \in 1..(k + 1) : start2[i] = start[i]
      /\ start2[(k + 1) + 1] = (Len(t) + 1) + w
      /\ 1 \in 1..(k + 1)
  <2>1. \A i \in 1..(k + 2) : start2[i] \in Nat
    BY <1>4, <1>5
  <2>2. \A i \in 1..(k + 1) : start2[i] = start[i]
    OBVIOUS
  <2>3. (k + 1) + 1 = k + 2 /\ k + 2 \in 1..(k + 2) /\ ~(k + 2 <= k + 1)
    OBVIOUS
  <2>4. start2[k + 2] = (Len(t) + 1) + w
    BY <2>3
  <2> QED BY <2>1, <2>2, <2>3, <2>4
<1> HIDE DEF start2
<1>7. Len(t2) \in Nat /\ Len(t2) = Len(t) + w
  BY <1>0
<1>8. ASSUME NEW i \in 1..(k + 1)
      PROVE  /\ segments[i].kind # "BAD"
             /\ start2[i + 1] = start2[i] + Width(segments[i]) /\ start2[i + 1] <= Len(t2) + 1
             /\ t2[start2[i]] = Character("/")
             /\ \A j \in 1..Len(segments[i].text) :
                   t2[start2[i] + j] = Character(segments[i].text[j])
             /\ segments[i].kind # "STATIC" => t2[start2[i + 1] - 1] = Wildcard(segments[i])
  <2>1. CASE i \in 1..k
    <3>1. i \in 1..Len(some) /\ i + 1 \in 1..(k + 1) /\ some[i] = segments[i]
      BY <1>2, <2>1
    <3>2. start2[i] = start[i] /\ start2[i + 1] = start[i + 1]
      BY <1>6, <3>1
    <3>3. /\ segments[i].kind # "BAD"
          /\ start[i + 1] = start[i] + Width(segments[i])
          /\ t[start[i]] = Character("/")
          /\ \A j \in 1..Len(segments[i].text) : t[start[i] + j] = Character(segments[i].text[j])
          /\ segments[i].kind # "STATIC" => t[start[i + 1] - 1] = Wildcard(segments[i])
      BY <2>1 DEF LaysTo
    <3>4. /\ start[i] \in Nat /\ start[i] >= 1 /\ start[i + 1] \in Nat
          /\ start[i + 1] - 1 \in 1..Len(t)
          /\ start[i] <= start[i + 1] - 1
      BY <1>2, <3>1, SegmentPlace
    <3>5. start[i] \in 1..Len(t) /\ start[i + 1] <= Len(t2) + 1
      <4> DEFINE x == start[i]
                 y == start[i + 1]
      <4>1. x \in Nat /\ x >= 1 /\ y \in Nat /\ y - 1 \in 1..Len(t) /\ x <= y - 1
        BY <3>4
      <4> HIDE DEF x, y
      <4>2. x \in 1..Len(t) /\ y <= Len(t2) + 1
        BY <1>4, <1>5, <1>7, <4>1
      <4> QED BY <4>2 DEF x, y
    <3>6. \A j \in 1..Len(segments[i].text) : start[i] + j \in 1..Len(t)
      <4> DEFINE n == Len(segments[i].text)
                 e == start[i + 1] - 1
      <4>1. /\ n \in Nat /\ e \in 1..Len(t)
            /\ e = start[i] + n \/ e - 1 = start[i] + n
        <5>1. /\ Len(some[i].text) \in Nat /\ start[i + 1] - 1 \in 1..Len(t)
              /\ some[i].kind = "STATIC" => start[i + 1] - 1 = start[i] + Len(some[i].text)
              /\ some[i].kind # "STATIC" =>
                    (start[i + 1] - 1) - 1 = start[i] + Len(some[i].text)
          <6>1. Lays(some, t, start) /\ some \in Seq(Segments) /\ i \in 1..Len(some)
            BY <1>2, <3>1
          <6> QED BY ONLY <6>1, SegmentPlace
        <5> QED BY <3>1, <5>1
      <4> DEFINE x == start[i]
      <4>2. x \in Nat /\ x >= 1 /\ (e = x + n \/ e - 1 = x + n) /\ n \in Nat /\ e \in 1..Len(t)
        BY <3>4, <4>1
      <4> HIDE DEF n, e, x
      <4>3. \A j \in 1..n : x + j \in 1..Len(t)
        BY <1>5, <4>2
      <4> QED BY <4>3 DEF n, x
    <3> QED BY <1>0, <3>2, <3>3, <3>4, <3>5, <3>6
  <2>2. CASE i \notin 1..k
    <3>1. i = k + 1 /\ i \in 1..(k + 1)
      BY <2>2
    <3>2. start2[i] = Len(t) + 1 /\ start2[i + 1] = (Len(t) + 1) + w
      BY <1>6, <3>1
    <3>3. /\ (Len(t) + 1) + w <= Len(t2) + 1 /\ ((Len(t) + 1) + w) - 1 = Len(t2)
      BY <1>4, <1>5, <1>7
    <3> QED BY <1>0, <1>4, <3>1, <3>2, <3>3
  <2> QED BY <2>1, <2>2
<1>9. start2[1] = 1 /\ start2[(k + 1) + 1] = Len(t2) + 1
  BY <1>4, <1>5, <1>6, <1>7
<1>10. LaysTo(segments, k + 1, t2, start2)
  BY <1>0, <1>6, <1>8, <1>9 DEF LaysTo
<1> QED BY <1>9, <1>10

\* What the parser has made of the first i segments is their text.
ReadsSegments(p, segments, i) ==
    /\ p.calced \in Seq(Chars) /\ p.params \in Seq(Segments)
    /\ \E t, start : /\ Reads(p.calced, p.params, t) /\ LaysTo(segments, i, t, start)
                     /\ start[i + 1] = Len(t) + 1

\* No segments, no symbols.
LEMMA ReadsNothing ==
    ASSUME NEW segments \in Seq(Segments)
    PROVE  ReadsSegments([calced |-> <<>>, params |-> <<>>], segments, 0)
<1> DEFINE c == [j \in 0..0 |-> 0]
           start == [i \in 1..(0 + 1) |-> 1]
<1>1. c \in [0..0 -> Nat] /\ c[0] = 0
  OBVIOUS
<1>2. start \in [1..(0 + 1) -> Nat] /\ start[1] = 1 /\ start[0 + 1] = 1
  OBVIOUS
<1> HIDE DEF c, start
<1>3. <<>> \in Seq(Chars) /\ <<>> \in Seq(Segments) /\ <<>> \in Seq(Symbols) /\ Len(<<>>) = 0
  OBVIOUS
<1>4. Counts(<<>>, c) /\ c[Len(<<>>)] = Len(<<>>)
  BY <1>1, <1>3 DEF Counts
<1>5. Reads(<<>>, <<>>, <<>>)
  BY <1>3, <1>4 DEF Reads
<1>6. LaysTo(segments, 0, <<>>, start) /\ start[0 + 1] = Len(<<>>) + 1
  BY <1>2, <1>3 DEF LaysTo
<1> QED BY <1>3, <1>5, <1>6 DEF ReadsSegments

\* One segment more is read after the ones before it.
LEMMA ReadsSegment ==
    ASSUME NEW segments \in Seq(Segments), NEW i \in Nat, i < Len(segments), NEW p,
           ReadsSegments(p, segments, i), segments[i + 1].kind # "BAD"
    PROVE  ReadsSegments(WithSegment(p, segments[i + 1]), segments, i + 1)
<1> DEFINE s == segments[i + 1]
           c1 == p.calced \o <<"/">>
           c2 == c1 \o s.text
           slash == <<"/">>
           r == WithSegment(p, s)
<1>1. /\ p.calced \in Seq(Chars) /\ p.params \in Seq(Segments)
      /\ s \in Segments /\ s.text \in Seq(Letters) /\ s.text \in Seq(Chars)
      /\ \A j \in 1..Len(s.text) : s.text[j] # ":"
  <2>1. s \in Segments
    OBVIOUS
  <2>2. s.text \in Seq(Letters)
    BY <2>1 DEF Segments
  <2>3. \A j \in 1..Len(s.text) : s.text[j] \in Letters
    BY <2>2
  <2> QED BY <2>1, <2>2, <2>3, RoutesAssumption DEF ReadsSegments, Chars
<1>2. PICK t, start : /\ Reads(p.calced, p.params, t) /\ LaysTo(segments, i, t, start)
                      /\ start[i + 1] = Len(t) + 1
  BY DEF ReadsSegments
<1>3. slash \in Seq(Chars) /\ Len(slash) = 1 /\ slash[1] = "/" /\ \A j \in 1..Len(slash) : slash[j] # ":"
  BY DEF Chars
<1> HIDE DEF slash
<1> DEFINE t1 == t \o Plain(slash)
           t2 == t1 \o Plain(s.text)
<1>4. c1 \in Seq(Chars) /\ Reads(c1, p.params, t1)
  BY <1>1, <1>2, <1>3, ReadsText DEF slash
<1> HIDE DEF c1
<1>5. c2 \in Seq(Chars) /\ Reads(c2, p.params, t2)
  <2> HIDE DEF t1
  <2> QED BY <1>1, <1>4, ReadsText
<1> DEFINE n == Len(t)
           m == Len(s.text)
<1>6. t \in Seq(Symbols) /\ n \in Nat /\ m \in Nat /\ t1 \in Seq(Symbols) /\ t2 \in Seq(Symbols)
  <2>1. t \in Seq(Symbols) /\ t1 \in Seq(Symbols) /\ t2 \in Seq(Symbols)
    BY <1>2, <1>4, <1>5 DEF Reads
  <2> QED BY <1>1, <2>1
<1>7. /\ Len(t1) = n + 1 /\ (\A j \in 1..n : t1[j] = t[j]) /\ t1[n + 1] = Character("/")
  <2>1. Plain(slash) \in Seq(Symbols) /\ Len(Plain(slash)) = 1 /\ 1 \in 1..1
        /\ Plain(slash)[1] = Character("/")
    BY <1>3, PlainIs
  <2>2. /\ Len(t1) = Len(t) + Len(Plain(slash))
        /\ \A j \in 1..Len(t) : t1[j] = t[j]
        /\ \A j \in 1..Len(Plain(slash)) : t1[Len(t) + j] = Plain(slash)[j]
    BY <1>6, <2>1, Joining
  <2> QED BY <2>1, <2>2
<1>8. /\ Len(t2) = (n + 1) + m /\ (\A j \in 1..(n + 1) : t2[j] = t1[j])
      /\ \A j \in 1..m : t2[(n + 1) + j] = Character(s.text[j])
  <2>1. Plain(s.text) \in Seq(Symbols) /\ Len(Plain(s.text)) = m
        /\ \A j \in 1..m : Plain(s.text)[j] = Character(s.text[j])
    BY <1>1, PlainIs
  <2> HIDE DEF t1
  <2>2. /\ Len(t2) = Len(t1) + Len(Plain(s.text))
        /\ \A j \in 1..Len(t1) : t2[j] = t1[j]
        /\ \A j \in 1..Len(Plain(s.text)) : t2[Len(t1) + j] = Plain(s.text)[j]
    BY <1>6, <2>1, Joining
  <2> HIDE DEF t2
  <2>3. Len(t1) = n + 1
    BY <1>7
  <2> QED BY <2>1, <2>2, <2>3
<1> HIDE DEF t1, t2, n, m, c2
<1>9. n + 1 \in 1..(n + 1) /\ \A j \in 1..n : j \in 1..(n + 1)
  BY <1>6
<1>10. (\A j \in 1..n : t2[j] = t[j]) /\ t2[n + 1] = Character("/")
  BY <1>7, <1>8, <1>9
<1>11. CASE s.kind = "STATIC"
  <2>1. r.calced = c2 \o <<>> /\ r.params = p.params
    BY <1>11 DEF WithSegment, c1, c2
  <2>2. r.calced = c2
    BY <1>5, <2>1, ConcatEmptySeq
  <2>3. Width(s) = (1 + m) + 0
    BY <1>11 DEF Width, m
  <2>4. Len(t2) = n + Width(s)
    BY <1>6, <1>8, <2>3
  <2>5. \E start2 : LaysTo(segments, i + 1, t2, start2) /\ start2[(i + 1) + 1] = Len(t2) + 1
    <3>1. /\ Len(t2) = Len(t) + Width(segments[i + 1]) /\ segments[i + 1].kind = "STATIC"
          /\ \A j \in 1..Len(t) : t2[j] = t[j]
          /\ t2[Len(t) + 1] = Character("/")
          /\ \A j \in 1..Len(segments[i + 1].text) :
                t2[(Len(t) + 1) + j] = Character(segments[i + 1].text[j])
      BY <1>8, <1>10, <1>11, <2>4 DEF n, m
    <3>2. Adds(segments[i + 1], t, t2)
      BY <1>6, <3>1 DEF Adds
    <3> QED BY <1>2, <3>2, LaysMore
  <2> QED BY <1>1, <1>5, <2>1, <2>2, <2>5 DEF ReadsSegments
<1>12. CASE s.kind # "STATIC"
  <2> DEFINE c3 == c2 \o <<":">>
             q3 == Append(p.params, s)
             one == <<Wildcard(s)>>
             t3 == t2 \o one
  <2>1. r.calced = c3 /\ r.params = q3
    BY <1>12 DEF WithSegment, c1, c2
  <2>2. s.kind \notin {"STATIC", "BAD"}
    BY <1>12
  <2>3. c3 \in Seq(Chars) /\ Reads(c3, q3, t3)
    BY <1>1, <1>5, <2>2, ReadsWildcard
  <2>4. q3 \in Seq(Segments)
    BY <1>1, AppendIs
  <2>5. one \in Seq(Symbols) /\ Len(one) = 1 /\ one[1] = Wildcard(s) /\ 1 \in 1..1
    BY <1>1, <2>2, WildcardType
  <2> HIDE DEF c3, q3, one
  <2> DEFINE l == Len(t2)
  <2>6. /\ t3 \in Seq(Symbols) /\ Len(t3) = l + 1 /\ l \in Nat
        /\ \A j \in 1..l : t3[j] = t2[j]
        /\ t3[l + 1] = Wildcard(s)
    <3>1. /\ t3 \in Seq(Symbols) /\ Len(t3) = Len(t2) + Len(one) /\ Len(t2) \in Nat
          /\ \A j \in 1..Len(t2) : t3[j] = t2[j]
          /\ \A j \in 1..Len(one) : t3[Len(t2) + j] = one[j]
      BY <1>6, <2>5, Joining
    <3> HIDE DEF t3
    <3> QED BY <2>5, <3>1
  <2> HIDE DEF t3, l
  <2>7. l = (n + 1) + m
    BY <1>8 DEF l
  <2>8. Width(s) = (1 + m) + 1
    BY <1>12 DEF Width, m
  <2>9. Len(t3) = n + Width(s) /\ Len(t3) = l + 1
    BY <1>6, <2>6, <2>7, <2>8
  <2>10. /\ \A j \in 1..n : j \in 1..l /\ n + 1 \in 1..l
         /\ \A j \in 1..m : (n + 1) + j \in 1..l
    BY <1>6, <2>7
  <2>11. /\ \A j \in 1..n : t3[j] = t[j]
         /\ \A j \in 1..m : t3[(n + 1) + j] = Character(s.text[j])
    BY <1>8, <1>10, <2>6, <2>10
  <2>12. t3[n + 1] = Character("/")
    <3>1. n + 1 \in 1..l
      BY <1>6, <2>7
    <3> QED BY <1>10, <2>6, <3>1
  <2>13. t3[Len(t3)] = Wildcard(s)
    BY <2>6, <2>9
  <2>14. \E start2 : LaysTo(segments, i + 1, t3, start2) /\ start2[(i + 1) + 1] = Len(t3) + 1
    <3>1. /\ Len(t3) = Len(t) + Width(segments[i + 1]) /\ segments[i + 1].kind # "BAD"
          /\ \A j \in 1..Len(t) : t3[j] = t[j]
          /\ t3[Len(t) + 1] = Character("/")
          /\ \A j \in 1..Len(segments[i + 1].text) :
                t3[(Len(t) + 1) + j] = Character(segments[i + 1].text[j])
          /\ t3[Len(t3)] = Wildcard(segments[i + 1])
      BY <2>9, <2>11, <2>12, <2>13 DEF n, m
    <3>2. Adds(segments[i + 1], t, t3)
      BY <2>6, <3>1 DEF Adds
    <3> QED BY <1>2, <3>2, LaysMore
  <2> QED BY <2>1, <2>3, <2>4, <2>14 DEF ReadsSegments
<1> QED BY <1>11, <1>12

\* The segments of a route are read from the path that they make.
LEMMA ParsedReads ==
    ASSUME NEW segments \in Seq(Segments), \A i \in 1..Len(segments) : segments[i].kind # "BAD"
    PROVE  ReadsSegments(Parsed(segments)[Len(segments)], segments, Len(segments))
<1> DEFINE f == Parsed(segments)
           T == {i \in Nat : i <= Len(segments) /\ ~ReadsSegments(f[i], segments, i)}
<1>1. Len(segments) \in Nat
  OBVIOUS
<1>2. f = [i \in 0..Len(segments) |->
             IF i = 0 THEN [calced |-> <<>>, params |-> <<>>]
                      ELSE WithSegment(f[i - 1], segments[i])]
  BY ParsedIs
<1> HIDE DEF f
<1>3. T = {}
  <2> SUFFICES ASSUME T # {} PROVE FALSE
    OBVIOUS
  <2>1. PICK i \in T : \A j \in T : i <= j
    BY LeastNumber
  <2>2. i \in Nat /\ i <= Len(segments) /\ ~ReadsSegments(f[i], segments, i)
    OBVIOUS
  <2>3. CASE i = 0
    <3>1. 0 \in 0..Len(segments)
      BY <1>1
    <3>2. f[0] = [calced |-> <<>>, params |-> <<>>]
      BY <1>2, <3>1
    <3> QED BY <2>2, <2>3, <3>2, ReadsNothing
  <2>4. CASE i # 0
    <3>1. i - 1 \in Nat /\ i - 1 < Len(segments) /\ (i - 1) + 1 = i /\ i \in 0..Len(segments)
          /\ i \in 1..Len(segments) /\ ~(i <= i - 1)
      BY <1>1, <2>2, <2>4
    <3>2. ReadsSegments(f[i - 1], segments, i - 1)
      BY <2>1, <3>1
    <3>3. f[i] = WithSegment(f[i - 1], segments[i])
      BY <1>2, <2>4, <3>1
    <3>4. segments[(i - 1) + 1].kind # "BAD"
      BY <3>1
    <3>5. ReadsSegments(WithSegment(f[i - 1], segments[(i - 1) + 1]), segments, (i - 1) + 1)
      BY <3>1, <3>2, <3>4, ReadsSegment
    <3> QED BY <2>2, <3>1, <3>3, <3>5
  <2> QED BY <2>3, <2>4
<1>4. Len(segments) \notin T
  BY <1>3
<1> QED BY <1>1, <1>4 DEF f

\* What addRoute gives to insert is the text of the route
\* (router.cc:338-468).
LEMMA RouteReads ==
    ASSUME NEW route \in Routes, \A s \in ToSet(route.segments) : s.kind # "BAD"
    PROVE  \E t : Reads(Calced(route), Wildcards(route), t) /\ Whole(route, t)
<1> DEFINE segments == route.segments
           k == Len(segments)
           p == Parsed(segments)[k]
<1>1. segments \in Seq(Segments) /\ route.slash \in BOOLEAN /\ k \in Nat
  <2>1. route \in [segments : Seq(Segments), slash : BOOLEAN]
    BY RoutesAssumption
  <2> QED BY <2>1
<1>2. \A i \in 1..k : segments[i].kind # "BAD"
  <2>1. \A i \in 1..k : segments[i] \in ToSet(segments)
    BY <1>1 DEF ToSet
  <2> QED BY <2>1
<1>3. ReadsSegments(p, segments, k)
  BY <1>1, <1>2, ParsedReads
<1> HIDE DEF segments, p
<1>4. p.calced \in Seq(Chars) /\ p.params \in Seq(Segments)
  BY <1>3 DEF ReadsSegments
<1>5. PICK t, start : /\ Reads(p.calced, p.params, t) /\ LaysTo(segments, k, t, start)
                      /\ start[k + 1] = Len(t) + 1
  BY <1>3 DEF ReadsSegments
<1>6. t \in Seq(Symbols) /\ Len(t) \in Nat
  BY <1>5 DEF Reads
<1>7. Wildcards(route) = p.params
  BY DEF Wildcards, p, segments
<1>8. CASE ~route.slash
  <2>1. Calced(route) = p.calced \o <<>>
    BY <1>8 DEF Calced, p, segments
  <2>2. Calced(route) = p.calced
    BY <1>4, <2>1, ConcatEmptySeq
  <2>3. Ends(t, start[k + 1] - 1, route.slash)
    BY <1>5, <1>6, <1>8 DEF Ends
  <2>4. Whole(route, t)
    BY <1>5, <2>3 DEF Whole, Lays, segments
  <2> QED BY <1>5, <1>7, <2>2, <2>4
<1>9. CASE route.slash
  <2> DEFINE slash == <<"/">>
             u == t \o Plain(slash)
  <2>1. slash \in Seq(Chars) /\ Len(slash) = 1 /\ slash[1] = "/" /\ \A j \in 1..Len(slash) : slash[j] # ":"
    BY DEF Chars
  <2>2. Calced(route) = p.calced \o slash
    BY <1>9 DEF Calced, p, segments
  <2> HIDE DEF slash
  <2>3. Reads(Calced(route), Wildcards(route), u)
    <3> DEFINE o == p.calced
    <3>1. o \in Seq(Chars) /\ Reads(o, p.params, t)
      BY <1>4, <1>5
    <3> HIDE DEF o
    <3>2. Reads(o \o slash, p.params, t \o Plain(slash))
      BY <2>1, <3>1, ReadsText
    <3> QED BY <1>7, <2>2, <3>2 DEF o
  <2>4. Plain(slash) \in Seq(Symbols) /\ Len(Plain(slash)) = 1 /\ 1 \in 1..1
        /\ Plain(slash)[1] = Character("/")
    BY <2>1, PlainIs
  <2>5. /\ u \in Seq(Symbols) /\ Len(u) = Len(t) + Len(Plain(slash))
        /\ \A j \in 1..Len(t) : u[j] = t[j]
        /\ \A j \in 1..Len(Plain(slash)) : u[Len(t) + j] = Plain(slash)[j]
    BY <1>6, <2>4, Joining
  <2> HIDE DEF u
  <2>6. Len(u) = Len(t) + 1 /\ u[Len(t) + 1] = Character("/")
    BY <2>4, <2>5
  <2>7. start[k + 1] - 1 = Len(t)
    BY <1>5, <1>6
  <2>8. Ends(u, start[k + 1] - 1, route.slash)
    BY <1>9, <2>6, <2>7 DEF Ends
  <2>9. LaysTo(segments, k, u, start)
    <3>1. Lays(segments, t, start)
      BY <1>5 DEF Lays
    <3>2. ASSUME NEW i \in 1..k
          PROVE  /\ segments[i].kind # "BAD"
                 /\ start[i + 1] = start[i] + Width(segments[i]) /\ start[i + 1] <= Len(u) + 1
                 /\ u[start[i]] = Character("/")
                 /\ \A j \in 1..Len(segments[i].text) :
                       u[start[i] + j] = Character(segments[i].text[j])
                 /\ segments[i].kind # "STATIC" => u[start[i + 1] - 1] = Wildcard(segments[i])
      <4>1. /\ segments[i].kind # "BAD"
            /\ start[i + 1] = start[i] + Width(segments[i]) /\ start[i + 1] <= Len(t) + 1
            /\ t[start[i]] = Character("/")
            /\ \A j \in 1..Len(segments[i].text) : t[start[i] + j] = Character(segments[i].text[j])
            /\ segments[i].kind # "STATIC" => t[start[i + 1] - 1] = Wildcard(segments[i])
        BY <1>5 DEF LaysTo
      <4> DEFINE n == Len(segments[i].text)
                 e == start[i + 1] - 1
                 x == start[i]
      <4>2. /\ n \in Nat /\ e \in 1..Len(t) /\ x \in Nat /\ x >= 1 /\ x <= e /\ start[i + 1] \in Nat
            /\ e = x + n \/ e - 1 = x + n
        <5>1. /\ n \in Nat /\ e \in 1..Len(t) /\ x \in Nat /\ x >= 1 /\ x <= e /\ start[i + 1] \in Nat
              /\ segments[i].kind = "STATIC" => e = x + n
              /\ segments[i].kind # "STATIC" => e - 1 = x + n
          BY <1>1, <3>1, SegmentPlace
        <5> HIDE DEF n, e, x
        <5> QED BY <5>1
      <4> HIDE DEF n, e, x
      <4>3. x \in 1..Len(t) /\ \A j \in 1..n : x + j \in 1..Len(t)
        BY <1>6, <4>2
      <4>4. start[i + 1] <= Len(u) + 1
        BY <1>6, <2>6, <4>1, <4>2
      <4> QED BY <2>5, <4>1, <4>2, <4>3, <4>4 DEF n, e, x
    <3>3. start \in [1..(k + 1) -> Nat] /\ start[1] = 1
      BY <1>5 DEF LaysTo
    <3> QED BY <2>5, <3>2, <3>3 DEF LaysTo
  <2>10. Whole(route, u)
    BY <2>8, <2>9 DEF Whole, Lays, segments
  <2> QED BY <2>3, <2>10
<1> QED BY <1>1, <1>8, <1>9

(***************************************************************************)
(* The path and the queue get shorter together.                            *)
(***************************************************************************)

\* d counts the wildcards in the rest of a path, from character i + 1 on.
Shifted(p, i, c, d) ==
    /\ Counts(From(p, i + 1), d)
    /\ \A j \in 0..(Len(p) - i) : d[j] + c[i] = c[i + j] /\ d[j] \in Nat
    /\ d[Len(From(p, i + 1))] + c[i] = c[Len(p)] /\ d[Len(From(p, i + 1))] \in Nat

\* What is counted after the i-th character.
LEMMA Shift ==
    ASSUME NEW p \in Seq(Chars), NEW c, Counts(p, c), NEW i \in 0..Len(p)
    PROVE  /\ From(p, i + 1) \in Seq(Chars) /\ Len(From(p, i + 1)) = Len(p) - i
           /\ \A j \in 1..(Len(p) - i) : From(p, i + 1)[j] = p[i + j]
           /\ \E d : Shifted(p, i, c, d)
<1> DEFINE n == Len(p) - i
           r == From(p, i + 1)
           d == [j \in 0..n |-> c[i + j] - c[i]]
<1>1. Len(p) \in Nat /\ i \in Nat /\ n \in Nat /\ i + 1 \in 1..(Len(p) + 1)
  OBVIOUS
<1>2. r \in Seq(Chars) /\ Len(r) = n /\ \A j \in 1..n : r[j] = p[i + j]
  <2>1. /\ r \in Seq(Chars) /\ Len(r) = Len(p) - (i + 1) + 1
        /\ \A j \in 1..(Len(p) - (i + 1) + 1) : r[j] = p[(i + 1) + j - 1]
    BY <1>1, FromIs
  <2>2. Len(p) - (i + 1) + 1 = n /\ \A j \in 1..n : (i + 1) + j - 1 = i + j
    BY <1>1
  <2> QED BY <2>1, <2>2
<1>3. /\ Rises(c, 0, Len(p))
      /\ \A j \in 0..Len(p) : c[j] \in Nat
      /\ \A j \in 1..Len(p) : (p[j] = ":" => c[j] = c[j - 1] + 1) /\ (p[j] # ":" => c[j] = c[j - 1])
  BY CountsRise
<1>4. \A j \in 0..n : i + j \in 0..Len(p) /\ i <= i + j
  BY <1>1
<1>5. \A j \in 0..n : c[i + j] - c[i] \in Nat
  <2> SUFFICES ASSUME NEW j \in 0..n PROVE c[i + j] - c[i] \in Nat
    OBVIOUS
  <2> DEFINE k == i + j
  <2>1. k \in 0..Len(p) /\ i <= k
    BY <1>4
  <2> HIDE DEF k
  <2>2. c[i] <= c[k]
    BY <1>3, <2>1, RisesFar
  <2>3. c[i] \in Nat /\ c[k] \in Nat
    BY <1>3, <2>1
  <2>4. c[k] - c[i] \in Nat
    BY <2>2, <2>3
  <2> QED BY <2>4 DEF k
<1>6. /\ d \in [0..n -> Nat]
      /\ \A j \in 0..n : d[j] = c[i + j] - c[i]
  BY <1>5
<1> HIDE DEF n, r, d
<1>7. \A j \in 0..n : d[j] + c[i] = c[i + j] /\ d[j] \in Nat
  <2> SUFFICES ASSUME NEW j \in 0..n PROVE d[j] + c[i] = c[i + j] /\ d[j] \in Nat
    OBVIOUS
  <2>1. c[i] \in Nat /\ c[i + j] \in Nat /\ d[j] = c[i + j] - c[i] /\ d[j] \in Nat
    BY <1>3, <1>4, <1>5, <1>6
  <2> QED BY <2>1
<1>8. ASSUME NEW j \in 1..n PROVE d[j] = d[j - 1] + (IF r[j] = ":" THEN 1 ELSE 0)
  <2> DEFINE k == i + j
  <2>1. j \in 0..n /\ j - 1 \in 0..n /\ k \in 1..Len(p) /\ i + (j - 1) = k - 1 /\ k \in 0..Len(p)
        /\ k - 1 \in 0..Len(p)
    BY <1>1 DEF n
  <2>2. r[j] = p[k]
    BY <1>2
  <2>3. d[j] = c[k] - c[i] /\ d[j - 1] = c[k - 1] - c[i]
    BY <1>6, <2>1
  <2> HIDE DEF k
  <2>4. c[k] \in Nat /\ c[k - 1] \in Nat /\ c[i] \in Nat
    BY <1>3, <2>1
  <2>5. CASE p[k] = ":"
    <3>1. c[k] = c[k - 1] + 1
      BY <1>3, <2>1, <2>5
    <3> DEFINE x == c[k - 1]
               y == c[i]
    <3>2. (x + 1) - y = (x - y) + 1
      BY <2>4
    <3>3. d[j] = d[j - 1] + 1
      BY <2>3, <3>1, <3>2
    <3> QED BY <2>2, <2>5, <3>3
  <2>6. CASE p[k] # ":"
    <3>1. c[k] = c[k - 1]
      BY <1>3, <2>1, <2>6
    <3> QED BY <2>2, <2>3, <2>4, <2>6, <3>1
  <2> QED BY <2>5, <2>6
<1>9. d[0] = 0
  <2>1. 0 \in 0..n /\ i + 0 = i /\ c[i] \in Nat
    BY <1>1, <1>3
  <2> QED BY <1>6, <2>1
<1>10. Counts(r, d)
  BY <1>2, <1>6, <1>8, <1>9 DEF Counts
<1>11. d[Len(r)] + c[i] = c[Len(p)] /\ d[Len(r)] \in Nat
  <2>1. n \in 0..n /\ i + n = Len(p)
    BY <1>1 DEF n
  <2> QED BY <1>2, <1>7, <2>1
<1>12. Shifted(p, i, c, d)
  BY <1>7, <1>10, <1>11 DEF n, r, Shifted
<1> QED BY <1>2, <1>12 DEF n, r

\* How many wildcards there are before and after the first one.
LEMMA CountsFirst ==
    ASSUME NEW p \in Seq(Chars), NEW c, Counts(p, c), NEW i \in 0..Len(p)
    PROVE  /\ c[i] \in Nat
           /\ (\A j \in 1..i : p[j] # ":") => c[i] = 0
           /\ (\E j \in 1..i : p[j] = ":") => c[i] >= 1
           /\ i > 0 /\ p[i] = ":" /\ (\A j \in 1..(i - 1) : p[j] # ":") => c[i] = 1
<1>1. Len(p) \in Nat /\ i \in Nat
  OBVIOUS
<1>2. /\ Rises(c, 0, Len(p))
      /\ \A j \in 0..Len(p) : c[j] \in Nat
      /\ \A j \in 1..Len(p) : (p[j] = ":" => c[j] = c[j - 1] + 1) /\ (p[j] # ":" => c[j] = c[j - 1])
  BY CountsRise
<1>3. c[0] = 0
  BY DEF Counts
<1>4. ASSUME NEW k \in 0..Len(p), \A j \in 1..k : p[j] # ":" PROVE c[k] = 0
  <2> DEFINE T == {j \in Nat : j <= k /\ c[j] # 0}
  <2> SUFFICES ASSUME T # {} PROVE FALSE
    BY <1>1
  <2>1. PICK j \in T : \A m \in T : j <= m
    BY LeastNumber
  <2>2. j \in Nat /\ j <= k /\ c[j] # 0 /\ j # 0
    BY <1>3
  <2>3. j - 1 \in Nat /\ j - 1 <= k /\ ~(j <= j - 1) /\ j \in 1..k /\ j \in 1..Len(p)
    BY <1>1, <2>2
  <2>4. c[j - 1] = 0
    BY <2>1, <2>3
  <2>5. c[j] = c[j - 1]
    BY <1>2, <1>4, <2>3
  <2> QED BY <2>2, <2>4, <2>5
<1>5. ASSUME NEW j \in 1..i, p[j] = ":" PROVE c[i] >= 1
  <2>1. j \in 1..Len(p) /\ j \in 0..Len(p) /\ j - 1 \in 0..Len(p) /\ j <= i
    BY <1>1
  <2>2. c[j] = c[j - 1] + 1 /\ c[j - 1] \in Nat
    BY <1>2, <1>5, <2>1
  <2>3. c[j] <= c[i]
    BY <1>2, <2>1, RisesFar
  <2>4. c[i] \in Nat
    BY <1>2
  <2> QED BY <2>2, <2>3, <2>4
<1>6. ASSUME i > 0, p[i] = ":", \A j \in 1..(i - 1) : p[j] # ":" PROVE c[i] = 1
  <2>1. i - 1 \in 0..Len(p) /\ i \in 1..Len(p)
    BY <1>1, <1>6
  <2>2. c[i - 1] = 0
    BY <1>4, <1>6, <2>1
  <2>3. c[i] = c[i - 1] + 1
    BY <1>2, <1>6, <2>1
  <2> QED BY <2>2, <2>3
<1> QED BY <1>2, <1>4, <1>5, <1>6

\* A route of which the queue has too much keeps too much.
LEMMA StaysDoomed ==
    ASSUME NEW p \in Seq(Chars), NEW q, Len(q) \in Nat, Doomed(p, q), NEW i \in 0..Len(p)
    PROVE  Doomed(From(p, i + 1), q)
<1>1. PICK c : Counts(p, c) /\ c[Len(p)] < Len(q)
  BY DEF Doomed
<1>2. PICK d : Shifted(p, i, c, d)
  BY <1>1, Shift
<1> DEFINE rest == From(p, i + 1)
           x == d[Len(rest)]
<1>3. Counts(rest, d) /\ x + c[i] = c[Len(p)] /\ x \in Nat
  BY <1>2 DEF Shifted
<1> HIDE DEF rest, x
<1>5. c[i] \in Nat
  BY <1>1, CountsFirst
<1>6. x < Len(q)
  BY <1>1, <1>3, <1>5
<1> QED BY <1>3, <1>6 DEF Doomed, rest, x

\* A route that goes through a wildcard leaves that wildcard in the queue.
LEMMA BecomesDoomed ==
    ASSUME NEW p \in Seq(Chars), NEW q, Len(q) \in Nat, NEW t, Reads(p, q, t),
           NEW i \in 0..Len(p), \E j \in 1..i : p[j] = ":"
    PROVE  Doomed(From(p, i + 1), q)
<1>1. PICK c : Counts(p, c) /\ c[Len(p)] = Len(q)
  BY DEF Reads
<1>2. PICK d : Shifted(p, i, c, d)
  BY <1>1, Shift
<1> DEFINE rest == From(p, i + 1)
           x == d[Len(rest)]
<1>3. Counts(rest, d) /\ x + c[i] = c[Len(p)] /\ x \in Nat
  BY <1>2 DEF Shifted
<1> HIDE DEF rest, x
<1>5. c[i] \in Nat /\ c[i] >= 1
  BY <1>1, CountsFirst
<1>6. x < Len(q)
  BY <1>1, <1>3, <1>5
<1> QED BY <1>3, <1>6 DEF Doomed, rest, x

\* So does a route when a wildcard is taken out of both.
LEMMA PopDoomed ==
    ASSUME NEW p \in Seq(Chars), NEW q \in Seq(Segments), Doomed(p, q),
           NEW i \in 1..Len(p), p[i] = ":", \A j \in 1..(i - 1) : p[j] # ":"
    PROVE  q # <<>> /\ Tail(q) # <<>> /\ Doomed(From(p, i + 1), Tail(q))
<1>1. PICK c : Counts(p, c) /\ c[Len(p)] < Len(q)
  BY DEF Doomed
<1>2. i \in 0..Len(p) /\ i > 0 /\ Len(p) \in 0..Len(p) /\ Len(q) \in Nat
  OBVIOUS
<1>3. PICK d : Shifted(p, i, c, d)
  BY <1>1, <1>2, Shift
<1> DEFINE rest == From(p, i + 1)
           x == d[Len(rest)]
<1>5. Counts(rest, d) /\ x + c[i] = c[Len(p)] /\ x \in Nat
  BY <1>3 DEF Shifted
<1> HIDE DEF rest, x
<1>6. c[i] = 1
  BY <1>1, <1>2, CountsFirst
<1>7. Len(q) > 1
  BY <1>1, <1>2, <1>5, <1>6
<1>8. q # <<>> /\ Len(Tail(q)) = Len(q) - 1 /\ Tail(q) \in Seq(Segments)
  <2>1. q # <<>>
    BY <1>7
  <2> QED BY <2>1, HeadTailProperties
<1>9. x < Len(Tail(q))
  <2>1. x + 1 < Len(q)
    BY <1>1, <1>5, <1>6
  <2>2. x < Len(q) - 1
    BY <1>2, <1>5, <2>1
  <2> QED BY <1>8, <2>2
<1>10. Tail(q) # <<>>
  <2>1. Len(Tail(q)) > 0
    BY <1>2, <1>7, <1>8
  <2> DEFINE r == Tail(q)
  <2>2. Len(r) > 0
    BY <2>1
  <2> HIDE DEF r
  <2>3. r # <<>>
    BY <2>2
  <2> QED BY <2>3 DEF r
<1> QED BY <1>5, <1>8, <1>9, <1>10 DEF Doomed, rest, x

\* The rest of a text of symbols.
LEMMA Remains ==
    ASSUME NEW t \in Seq(Symbols), NEW i \in 0..Len(t)
    PROVE  /\ From(t, i + 1) \in Seq(Symbols) /\ Len(From(t, i + 1)) = Len(t) - i
           /\ Len(t) \in Nat
           /\ \A j \in 1..(Len(t) - i) : From(t, i + 1)[j] = t[i + j]
<1> DEFINE S == Symbols
           r == From(t, i + 1)
<1>1. t \in Seq(S) /\ Len(t) \in Nat /\ i + 1 \in 1..(Len(t) + 1)
  OBVIOUS
<1> HIDE DEF S
<1>2. /\ r \in Seq(S) /\ Len(r) = Len(t) - (i + 1) + 1
      /\ \A j \in 1..(Len(t) - (i + 1) + 1) : r[j] = t[(i + 1) + j - 1]
  BY <1>1, FromIs
<1>3. Len(t) - (i + 1) + 1 = Len(t) - i /\ \A j \in 1..(Len(t) - i) : (i + 1) + j - 1 = i + j
  BY <1>1
<1> QED BY <1>1, <1>2, <1>3 DEF S

\* A text is its beginning and its rest.
LEMMA Halved ==
    ASSUME NEW t \in Seq(Symbols), NEW i \in 0..Len(t), NEW u \in Seq(Symbols), Len(u) = i,
           \A j \in 1..i : u[j] = t[j]
    PROVE  t = u \o From(t, i + 1)
<1> DEFINE r == From(t, i + 1)
           v == u \o r
<1>1. /\ r \in Seq(Symbols) /\ Len(r) = Len(t) - i /\ Len(t) \in Nat
      /\ \A j \in 1..(Len(t) - i) : r[j] = t[i + j]
  BY Remains
<1> HIDE DEF r
<1>2. /\ v \in Seq(Symbols) /\ Len(v) = Len(u) + Len(r)
      /\ \A j \in 1..Len(u) : v[j] = u[j]
      /\ \A j \in 1..Len(r) : v[Len(u) + j] = r[j]
  BY <1>1, Joining
<1>3. Len(v) = Len(t)
  BY <1>1, <1>2
<1>4. ASSUME NEW j \in 1..Len(t) PROVE t[j] = v[j]
  <2>1. CASE j \in 1..i
    BY <1>2, <2>1
  <2>2. CASE j \notin 1..i
    <3>1. j - i \in 1..(Len(t) - i) /\ i + (j - i) = j
      BY <1>1, <2>2
    <3>2. v[i + (j - i)] = r[j - i] /\ r[j - i] = t[i + (j - i)]
      BY <1>1, <1>2, <3>1
    <3> QED BY <3>1, <3>2
  <2> QED BY <2>1, <2>2
<1> HIDE DEF v
<1> DEFINE S == Symbols
<1>5. t \in Seq(S) /\ v \in Seq(S)
  BY <1>2
<1> HIDE DEF S
<1>6. t = v
  BY <1>3, <1>4, <1>5, SeqEqual
<1> QED BY <1>6 DEF v, r

\* Text that a node shares with a path is taken off.
LEMMA TakesText ==
    ASSUME NEW p \in Seq(Chars), NEW q, NEW t, Reads(p, q, t), NEW i \in 0..Len(p),
           \A j \in 1..i : p[j] # ":"
    PROVE  /\ Reads(From(p, i + 1), q, From(t, i + 1))
           /\ t = Plain(SubSeq(p, 1, i)) \o From(t, i + 1)
           /\ Plain(SubSeq(p, 1, i)) \in Seq(Symbols) /\ From(t, i + 1) \in Seq(Symbols)
<1> DEFINE r == From(p, i + 1)
           tr == From(t, i + 1)
           n == Len(p) - i
           w == SubSeq(p, 1, i)
<1>1. PICK c : /\ Counts(p, c) /\ c[Len(p)] = Len(q)
               /\ \A j \in 1..Len(p) : t[j] = Symbol(p, q, c, j)
  BY DEF Reads
<1>2. t \in Seq(Symbols) /\ Len(t) = Len(p) /\ Len(p) \in Nat /\ i \in 0..Len(t) /\ i \in Nat
  BY DEF Reads
<1>3. PICK d : Shifted(p, i, c, d)
  BY <1>1, Shift
<1>4. r \in Seq(Chars) /\ Len(r) = n /\ \A j \in 1..n : r[j] = p[i + j]
  BY <1>1, Shift
<1>5. tr \in Seq(Symbols) /\ Len(tr) = n /\ \A j \in 1..n : tr[j] = t[i + j]
  BY <1>2, Remains
<1> HIDE DEF r, tr
<1>6. c[i] = 0
  BY <1>1, CountsFirst
<1>7. Counts(r, d) /\ d[Len(r)] = Len(q)
  <2>1. Counts(r, d) /\ d[Len(r)] + c[i] = c[Len(p)] /\ d[Len(r)] \in Nat
    BY <1>3 DEF Shifted, r
  <2> QED BY <1>1, <1>6, <2>1
<1>8. ASSUME NEW j \in 1..n PROVE tr[j] = Symbol(r, q, d, j)
  <2>1. i + j \in 1..Len(p) /\ j \in 0..n
    BY <1>2
  <2>2. d[j] + c[i] = c[i + j] /\ d[j] \in Nat
    BY <1>3, <2>1 DEF Shifted
  <2>3. d[j] = c[i + j]
    BY <1>6, <2>2
  <2>4. t[i + j] = Symbol(p, q, c, i + j)
    BY <1>1, <2>1
  <2> QED BY <1>4, <1>5, <2>3, <2>4 DEF Symbol
<1>9. Reads(r, q, tr)
  BY <1>4, <1>5, <1>7, <1>8 DEF Reads
<1>10. w \in Seq(Chars) /\ Len(w) = i /\ \A j \in 1..i : w[j] = p[j]
  BY UpToIs
<1> HIDE DEF w
<1>11. Plain(w) \in Seq(Symbols) /\ Len(Plain(w)) = i /\ \A j \in 1..i : Plain(w)[j] = Character(p[j])
  <2>1. /\ Plain(w) \in Seq(Symbols) /\ Len(Plain(w)) = Len(w)
        /\ \A j \in 1..Len(w) : Plain(w)[j] = Character(w[j])
    BY <1>10, PlainIs
  <2> QED BY <1>10, <2>1
<1>12. ASSUME NEW j \in 1..i PROVE Plain(w)[j] = t[j]
  <2>1. j \in 1..Len(p) /\ p[j] # ":"
    BY <1>2
  <2>2. t[j] = Character(p[j])
    BY <1>1, <2>1 DEF Symbol
  <2> QED BY <1>11, <2>2
<1>13. t = Plain(w) \o tr
  BY <1>2, <1>11, <1>12, Halved DEF tr
<1> QED BY <1>5, <1>9, <1>11, <1>13 DEF r, tr, w

\* A wildcard is taken off, with what stands for it in the queue.
LEMMA TakesWildcard ==
    ASSUME NEW p \in Seq(Chars), NEW q \in Seq(Segments), NEW t, Reads(p, q, t),
           NEW i \in 1..Len(p), p[i] = ":", \A j \in 1..(i - 1) : p[j] # ":"
    PROVE  /\ q # <<>> /\ Reads(From(p, i + 1), Tail(q), From(t, i + 1))
           /\ Wildcard(Head(q)) \in Symbols
           /\ Plain(SubSeq(p, 1, i - 1)) \in Seq(Symbols) /\ From(t, i + 1) \in Seq(Symbols)
           /\ t = (Plain(SubSeq(p, 1, i - 1)) \o <<Wildcard(Head(q))>>) \o From(t, i + 1)
<1> DEFINE r == From(p, i + 1)
           tr == From(t, i + 1)
           n == Len(p) - i
           w == SubSeq(p, 1, i - 1)
           o == <<Wildcard(Head(q))>>
           qr == Tail(q)
<1>1. PICK c : /\ Counts(p, c) /\ c[Len(p)] = Len(q)
               /\ \A j \in 1..Len(p) : t[j] = Symbol(p, q, c, j)
  BY DEF Reads
<1>2. /\ t \in Seq(Symbols) /\ Len(t) = Len(p) /\ Len(p) \in Nat /\ i \in 0..Len(t) /\ i \in Nat
      /\ i \in 0..Len(p) /\ i > 0 /\ i - 1 \in 0..Len(p) /\ i - 1 \in Nat /\ i \in 1..Len(p)
      /\ Len(q) \in Nat
  BY DEF Reads
<1>3. PICK d : Shifted(p, i, c, d)
  BY <1>1, <1>2, Shift
<1>4. r \in Seq(Chars) /\ Len(r) = n /\ \A j \in 1..n : r[j] = p[i + j]
  BY <1>1, <1>2, Shift
<1>5. tr \in Seq(Symbols) /\ Len(tr) = n /\ \A j \in 1..n : tr[j] = t[i + j]
  BY <1>2, Remains
<1> HIDE DEF r, tr
<1>6. c[i] = 1
  BY <1>1, <1>2, CountsFirst
<1>7. Len(q) >= 1
  <2>1. d[Len(r)] + c[i] = c[Len(p)] /\ d[Len(r)] \in Nat
    BY <1>3 DEF Shifted, r
  <2> QED BY <1>1, <1>2, <1>6, <2>1
<1>8. /\ q # <<>> /\ qr \in Seq(Segments) /\ Len(qr) = Len(q) - 1 /\ Head(q) = q[1]
      /\ \A k \in 1..(Len(q) - 1) : qr[k] = q[k + 1]
  <2>1. q # <<>>
    BY <1>7
  <2>2. /\ qr \in Seq(Segments) /\ Len(qr) = Len(q) - 1
        /\ \A k \in 1..Len(qr) : qr[k] = q[k + 1]
    BY <2>1, HeadTailProperties
  <2>3. Head(q) = q[1]
    BY <2>1
  <2> HIDE DEF qr
  <2> QED BY <2>1, <2>2, <2>3
<1> HIDE DEF qr
<1>9. Counts(r, d) /\ d[Len(r)] = Len(qr)
  <2>1. Counts(r, d) /\ d[Len(r)] + c[i] = c[Len(p)] /\ d[Len(r)] \in Nat
    BY <1>3 DEF Shifted, r
  <2> QED BY <1>1, <1>2, <1>6, <1>8, <2>1
<1>10. \A j \in 0..Len(p) : c[j] \in Nat /\ c[j] <= Len(q)
  BY <1>1, CountsRise
<1>11. ASSUME NEW j \in 1..n PROVE tr[j] = Symbol(r, qr, d, j)
  <2> DEFINE x == i + j
  <2>1. x \in 1..Len(p) /\ x \in 0..Len(p) /\ x - 1 \in 0..Len(p) /\ j \in 0..n /\ j - 1 \in 0..n
        /\ i + (j - 1) = x - 1
    BY <1>2
  <2>2. d[j] + c[i] = c[x] /\ d[j] \in Nat /\ d[j - 1] + c[i] = c[x - 1] /\ d[j - 1] \in Nat
    <3>1. \A k \in 0..n : d[k] + c[i] = c[i + k] /\ d[k] \in Nat
      BY <1>3 DEF Shifted
    <3>2. d[j] + c[i] = c[i + j] /\ d[j] \in Nat /\ d[j - 1] + c[i] = c[i + (j - 1)] /\ d[j - 1] \in Nat
      BY <2>1, <3>1
    <3> QED BY <2>1, <3>2
  <2>3. t[x] = Symbol(p, q, c, x)
    BY <1>1, <2>1
  <2>4. tr[j] = t[x] /\ r[j] = p[x]
    BY <1>4, <1>5
  <2> HIDE DEF x
  <2>5. p[x] = ":" => qr[d[j]] = q[c[x]]
    <3> SUFFICES ASSUME p[x] = ":" PROVE qr[d[j]] = q[c[x]]
      OBVIOUS
    <3>1. c[x] = c[x - 1] + 1 /\ c[x - 1] \in Nat /\ c[x] <= Len(q)
      BY <1>1, <1>10, <2>1, CountsRise
    <3>2. d[j] = d[j - 1] + 1
      <4> DEFINE a == d[j]
                 b == d[j - 1]
                 e == c[x]
                 f == c[x - 1]
      <4>1. a + 1 = e /\ b + 1 = f /\ e = f + 1 /\ a \in Nat /\ b \in Nat
        BY <1>6, <2>2, <3>1
      <4> HIDE DEF a, b, e, f
      <4>2. a = b + 1
        BY <4>1
      <4> QED BY <4>2 DEF a, b
    <3>3. d[j] + 1 = c[x]
      BY <1>6, <2>2
    <3>4. d[j] \in 1..(Len(q) - 1)
      <4> DEFINE a == d[j]
                 b == d[j - 1]
                 e == c[x]
      <4>1. a + 1 = e /\ a = b + 1 /\ a \in Nat /\ b \in Nat /\ e <= Len(q)
        BY <2>2, <3>1, <3>2, <3>3
      <4> HIDE DEF a, b, e
      <4>2. a \in 1..(Len(q) - 1)
        BY <1>2, <4>1
      <4> QED BY <4>2 DEF a
    <3>5. qr[d[j]] = q[d[j] + 1]
      BY <1>8, <3>4
    <3> QED BY <3>3, <3>5
  <2> QED BY <2>3, <2>4, <2>5 DEF Symbol
<1>12. Reads(r, qr, tr)
  BY <1>4, <1>5, <1>9, <1>11 DEF Reads
<1>13. w \in Seq(Chars) /\ Len(w) = i - 1 /\ \A j \in 1..(i - 1) : w[j] = p[j]
  BY <1>2, UpToIs
<1> HIDE DEF w
<1>14. /\ Plain(w) \in Seq(Symbols) /\ Len(Plain(w)) = i - 1
       /\ \A j \in 1..(i - 1) : Plain(w)[j] = Character(p[j])
  <2>1. /\ Plain(w) \in Seq(Symbols) /\ Len(Plain(w)) = Len(w)
        /\ \A j \in 1..Len(w) : Plain(w)[j] = Character(w[j])
    BY <1>13, PlainIs
  <2> QED BY <1>13, <2>1
<1>15. t[i] = Wildcard(Head(q)) /\ t[i] \in Symbols
  <2>1. t[i] = Wildcard(q[c[i]])
    BY <1>1 DEF Symbol
  <2> QED BY <1>2, <1>6, <1>8, <2>1
<1>16. o \in Seq(Symbols) /\ Len(o) = 1 /\ o[1] = t[i] /\ 1 \in 1..1
  BY <1>15
<1> HIDE DEF o
<1> DEFINE u == Plain(w) \o o
<1>17. u \in Seq(Symbols) /\ Len(u) = i /\ \A j \in 1..i : u[j] = t[j]
  <2>1. /\ u \in Seq(Symbols) /\ Len(u) = Len(Plain(w)) + Len(o)
        /\ \A j \in 1..Len(Plain(w)) : u[j] = Plain(w)[j]
        /\ \A j \in 1..Len(o) : u[Len(Plain(w)) + j] = o[j]
    BY <1>14, <1>16, Joining
  <2> HIDE DEF u
  <2>2. Len(u) = i
    BY <1>2, <1>14, <1>16, <2>1
  <2>3. ASSUME NEW j \in 1..i PROVE u[j] = t[j]
    <3>1. CASE j = i
      <4>1. u[(i - 1) + 1] = o[1] /\ (i - 1) + 1 = i
        BY <1>2, <1>14, <1>16, <2>1
      <4> QED BY <1>16, <3>1, <4>1
    <3>2. CASE j # i
      <4>1. j \in 1..(i - 1) /\ j \in 1..Len(p)
        BY <1>2, <3>2
      <4>2. u[j] = Character(p[j])
        BY <1>14, <2>1, <4>1
      <4>3. t[j] = Character(p[j])
        BY <1>1, <4>1 DEF Symbol
      <4> QED BY <4>2, <4>3
    <3> QED BY <3>1, <3>2
  <2> QED BY <2>1, <2>2, <2>3
<1> HIDE DEF u
<1>18. t = u \o tr
  BY <1>2, <1>17, Halved DEF tr
<1> QED BY <1>5, <1>8, <1>12, <1>14, <1>15, <1>18 DEF r, tr, w, o, u, qr

\* Three texts, one after the other.
LEMMA Associates ==
    ASSUME NEW t \in Seq(Symbols), NEW u \in Seq(Symbols), NEW v \in Seq(Symbols)
    PROVE  (t \o u) \o v = t \o (u \o v)
<1> DEFINE S == Symbols
<1>1. t \in Seq(S) /\ u \in Seq(S) /\ v \in Seq(S)
  OBVIOUS
<1> HIDE DEF S
<1> QED BY <1>1, ConcatAssociative

\* Route r is on its way into the tree: p and q are left of it where a walk
\* down the tree has read u.  Or more is left in the queue than the path will
\* use, and addRoute aborts.
Going(u, p, q, r) == Doomed(p, q) \/ \E t : Reads(p, q, t) /\ Whole(r, u \o t)

\* Text goes from the path to the tree.
LEMMA GoesText ==
    ASSUME NEW u \in Seq(Symbols), NEW p \in Seq(Chars), NEW q \in Seq(Segments), NEW r,
           Going(u, p, q, r), NEW i \in 0..Len(p), \A j \in 1..i : p[j] # ":"
    PROVE  Going(u \o Plain(SubSeq(p, 1, i)), From(p, i + 1), q, r)
<1>1. CASE Doomed(p, q)
  <2>1. Len(q) \in Nat
    OBVIOUS
  <2>2. Doomed(From(p, i + 1), q)
    BY <1>1, <2>1, StaysDoomed
  <2> QED BY <2>2 DEF Going
<1>2. CASE ~Doomed(p, q)
  <2>1. PICK t : Reads(p, q, t) /\ Whole(r, u \o t)
    BY <1>2 DEF Going
  <2> DEFINE a == Plain(SubSeq(p, 1, i))
             b == From(t, i + 1)
  <2>2. /\ Reads(From(p, i + 1), q, b) /\ t = a \o b
        /\ a \in Seq(Symbols) /\ b \in Seq(Symbols)
    BY <2>1, TakesText
  <2> HIDE DEF a, b
  <2>3. (u \o a) \o b = u \o t
    BY <2>2, Associates
  <2>4. Going(u \o a, From(p, i + 1), q, r)
    BY <2>1, <2>2, <2>3 DEF Going
  <2> QED BY <2>4 DEF a
<1> QED BY <1>1, <1>2

\* A route that goes through a wildcard that is there already leaves the one of
\* its own in the queue.
LEMMA GoesThrough ==
    ASSUME NEW u, NEW v, NEW p \in Seq(Chars), NEW q \in Seq(Segments), NEW r,
           Going(u, p, q, r), NEW i \in 0..Len(p), \E j \in 1..i : p[j] = ":"
    PROVE  Going(v, From(p, i + 1), q, r)
<1>1. Len(q) \in Nat
  OBVIOUS
<1>2. Doomed(p, q) => Doomed(From(p, i + 1), q)
  BY <1>1, StaysDoomed
<1>3. ASSUME NEW t, Reads(p, q, t) PROVE Doomed(From(p, i + 1), q)
  BY <1>1, <1>3, BecomesDoomed
<1> QED BY <1>2, <1>3 DEF Going

\* The first wildcard of the path goes to the tree, with the text before it.
LEMMA GoesWildcard ==
    ASSUME NEW u \in Seq(Symbols), NEW p \in Seq(Chars), NEW q \in Seq(Segments), NEW r,
           Going(u, p, q, r), NEW i \in 1..Len(p), p[i] = ":",
           \A j \in 1..(i - 1) : p[j] # ":"
    PROVE  /\ q # <<>>
           /\ Doomed(From(p, i + 1), Tail(q)) \/ Wildcard(Head(q)) \in Symbols
           /\ Going(u \o (Plain(SubSeq(p, 1, i - 1)) \o <<Wildcard(Head(q))>>),
                    From(p, i + 1), Tail(q), r)
<1>1. CASE Doomed(p, q)
  <2>1. q # <<>> /\ Doomed(From(p, i + 1), Tail(q))
    BY <1>1, PopDoomed
  <2> QED BY <2>1 DEF Going
<1>2. CASE ~Doomed(p, q)
  <2>1. PICK t : Reads(p, q, t) /\ Whole(r, u \o t)
    BY <1>2 DEF Going
  <2> DEFINE a == Plain(SubSeq(p, 1, i - 1))
             w == Wildcard(Head(q))
             b == From(t, i + 1)
  <2>2. /\ q # <<>> /\ Reads(From(p, i + 1), Tail(q), b)
        /\ w \in Symbols
        /\ a \in Seq(Symbols) /\ b \in Seq(Symbols)
        /\ t = (a \o <<w>>) \o b
    BY <2>1, TakesWildcard, SMTT(40)
  <2> HIDE DEF a, b, w
  <2>3. <<w>> \in Seq(Symbols)
    BY <2>2
  <2>4. a \o <<w>> \in Seq(Symbols)
    BY <2>2, <2>3, Joining
  <2>5. (u \o (a \o <<w>>)) \o b = u \o t
    BY <2>2, <2>4, Associates
  <2>6. Going(u \o (a \o <<w>>), From(p, i + 1), Tail(q), r)
    BY <2>1, <2>2, <2>5 DEF Going
  <2> QED BY <2>2, <2>6 DEF a, w
<1> QED BY <1>1, <1>2

\* The queue of an insertion that addRoute will abort is not empty.
LEMMA DoomedQueue ==
    ASSUME NEW p \in Seq(Chars), NEW q \in Seq(Segments), Doomed(p, q)
    PROVE  q # <<>>
<1>1. PICK c : Counts(p, c) /\ c[Len(p)] < Len(q)
  BY DEF Doomed
<1>2. c[Len(p)] \in Nat
  <2>1. Len(p) \in Nat
    OBVIOUS
  <2> QED BY <1>1, <2>1 DEF Counts
<1>3. Len(<<>>) = 0
  BY EmptyIs
<1> QED BY <1>1, <1>2, <1>3

\* Nothing of the path is left.
LEMMA GoesOut ==
    ASSUME NEW u \in Seq(Symbols), NEW q \in Seq(Segments), NEW r, Going(u, <<>>, q, r)
    PROVE  q # <<>> \/ Whole(r, u)
<1>0. <<>> \in Seq(Chars) /\ Len(<<>>) = 0
  BY EmptyIs
<1>1. CASE Doomed(<<>>, q)
  BY <1>0, <1>1, DoomedQueue
<1>2. CASE ~Doomed(<<>>, q)
  <2>1. PICK t : Reads(<<>>, q, t) /\ Whole(r, u \o t)
    BY <1>2 DEF Going
  <2>2. t \in Seq(Symbols) /\ Len(t) = 0
    BY <1>0, <2>1 DEF Reads
  <2> DEFINE S == Symbols
  <2>3. t \in Seq(S) /\ u \in Seq(S)
    BY <2>2
  <2> HIDE DEF S
  <2>4. t = <<>>
    BY <2>2, <2>3, EmptySeq
  <2>5. u \o <<>> = u
    BY <2>3, ConcatEmptySeq
  <2> QED BY <2>1, <2>4, <2>5
<1> QED BY <1>1, <1>2

\* A text of which the segments are all in its beginning.
LEMMA LaysShorter ==
    ASSUME NEW segments \in Seq(Segments), NEW t, NEW start, Lays(segments, t, start),
           NEW u \in Seq(Symbols), Len(u) = start[Len(segments) + 1] - 1,
           \A j \in 1..Len(u) : u[j] = t[j]
    PROVE  Lays(segments, u, start)
<1> DEFINE k == Len(segments)
<1>1. /\ k \in Nat /\ start \in [1..(k + 1) -> Nat] /\ start[1] = 1
      /\ start[k + 1] \in Nat /\ start[k + 1] = Len(u) + 1 /\ Len(u) \in Nat
  <2>1. k \in Nat /\ Len(u) \in Nat /\ start \in [1..(k + 1) -> Nat] /\ start[1] = 1
    BY DEF Lays, LaysTo
  <2>2. start[k + 1] \in Nat
    BY <2>1
  <2> HIDE DEF k
  <2>3. start[k + 1] = Len(u) + 1
    BY <2>1, <2>2 DEF k
  <2> QED BY <2>1, <2>2, <2>3
<1>2. ASSUME NEW i \in 1..k
      PROVE  /\ segments[i].kind # "BAD"
             /\ start[i + 1] = start[i] + Width(segments[i]) /\ start[i + 1] <= Len(u) + 1
             /\ u[start[i]] = Character("/")
             /\ \A j \in 1..Len(segments[i].text) :
                   u[start[i] + j] = Character(segments[i].text[j])
             /\ segments[i].kind # "STATIC" => u[start[i + 1] - 1] = Wildcard(segments[i])
  <2>1. /\ segments[i].kind # "BAD"
        /\ start[i + 1] = start[i] + Width(segments[i])
        /\ t[start[i]] = Character("/")
        /\ \A j \in 1..Len(segments[i].text) : t[start[i] + j] = Character(segments[i].text[j])
        /\ segments[i].kind # "STATIC" => t[start[i + 1] - 1] = Wildcard(segments[i])
    BY DEF Lays, LaysTo
  <2> DEFINE n == Len(segments[i].text)
             e == start[i + 1] - 1
             x == start[i]
             z == start[k + 1]
  <2>2. /\ n \in Nat /\ x \in Nat /\ x >= 1 /\ x <= e /\ start[i + 1] \in Nat /\ e \in Nat
        /\ e = x + n \/ e - 1 = x + n
    <3>1. /\ n \in Nat /\ x \in Nat /\ x >= 1 /\ x <= e /\ start[i + 1] \in Nat /\ e \in Nat
          /\ segments[i].kind \in {"STATIC", "PARAM", "CATCH_ALL"}
          /\ segments[i].kind = "STATIC" => e = x + n
          /\ segments[i].kind # "STATIC" => e - 1 = x + n
      BY ONLY segments \in Seq(Segments), Lays(segments, t, start), i \in 1..Len(segments),
              SegmentPlace
    <3> HIDE DEF n, e, x
    <3> QED BY <3>1
  <2>3. start[i + 1] <= z
    <3>1. i + 1 \in 1..(k + 1) /\ k + 1 \in 1..(k + 1)
      BY <1>1
    <3>2. i + 1 < k + 1 => start[i + 1] < start[k + 1]
      BY <3>1, LaysOut
    <3> QED BY <1>1, <2>2, <3>1, <3>2
  <2>4. z = Len(u) + 1
    BY <1>1
  <2>5. start[i + 1] = e + 1
    BY <2>2
  <2> HIDE DEF n, e, x, z
  <2>6. /\ x \in 1..Len(u) /\ e \in 1..Len(u) /\ \A j \in 1..n : x + j \in 1..Len(u)
        /\ start[i + 1] <= Len(u) + 1
    BY <1>1, <2>2, <2>3, <2>4, <2>5
  <2> QED BY <2>1, <2>6 DEF n, e, x
<1> QED BY <1>1, <1>2 DEF Lays, LaysTo

\* The whole text of a route without a catch-all is what it spells.
LEMMA WholeSpells ==
    ASSUME NEW route \in Routes, Ordinary, NEW t, Whole(route, t), NoCatchAll(t, Len(t))
    PROVE  Spells(route, t)
<1> DEFINE segments == route.segments
           k == Len(segments)
<1>1. PICK start : Lays(segments, t, start) /\ Ends(t, start[k + 1] - 1, route.slash)
  BY DEF Whole
<1>2. /\ segments \in Seq(Segments) /\ k \in Nat
      /\ EndsInCatchAll(route) <=> k > 0 /\ segments[k].kind = "CATCH_ALL"
  BY RouteIs
<1>3. ~EndsInCatchAll(route)
  <2> SUFFICES ASSUME EndsInCatchAll(route) PROVE FALSE
    OBVIOUS
  <2>1. k \in 1..k /\ segments[k].kind = "CATCH_ALL"
    BY <1>2
  <2>2. PICK i \in 1..Len(segments) : i = k /\ segments[i].kind = "CATCH_ALL"
    BY <2>1
  <2>3. start[i + 1] - 1 \in 1..Len(t) /\ t[start[i + 1] - 1] = Wildcard(segments[i])
    <3> HIDE DEF k
    <3> QED BY <1>1, <1>2, <2>2, SegmentPlace
  <2>4. Wildcard(segments[i]).kind = "CATCH_ALL"
    BY <2>2, SymbolFields
  <2> QED BY <2>3, <2>4 DEF NoCatchAll
<1>4. (route.slash /\ ~EndsInCatchAll(route)) = route.slash
  BY <1>3, RouteIs
<1> QED BY <1>1, <1>4 DEF Spells

\* The text of a route up to its catch-all is what it spells.
LEMMA WholeCatchAll ==
    ASSUME NEW route \in Routes, Ordinary, NEW u \in Seq(Symbols), NEW v \in Seq(Symbols),
           Whole(route, u \o v), Len(u) > 0, u[Len(u)].kind = "CATCH_ALL"
    PROVE  Spells(route, u)
<1> DEFINE segments == route.segments
           k == Len(segments)
           t == u \o v
           z == Len(u)
<1>1. PICK start : Lays(segments, t, start) /\ Ends(t, start[k + 1] - 1, route.slash)
  BY DEF Whole
<1>2. /\ segments \in Seq(Segments) /\ k \in Nat /\ CatchAllLast(segments)
      /\ EndsInCatchAll(route) <=> k > 0 /\ segments[k].kind = "CATCH_ALL"
  BY RouteIs
<1>3. /\ t \in Seq(Symbols) /\ Len(t) = z + Len(v) /\ z \in Nat /\ Len(v) \in Nat
      /\ \A j \in 1..z : t[j] = u[j]
  BY Joining
<1>4. t[z].kind = "CATCH_ALL" /\ z \in 1..z
  BY <1>3
<1>5. start[k + 1] \in Nat /\ start[k + 1] >= 1
  <2>1. k + 1 \in 1..(k + 1)
    BY <1>2
  <2> QED BY <1>1, <1>2, <2>1, LaysOut
<1>6. z \in 1..(start[k + 1] - 1)
  <2>1. CASE route.slash
    <3>1. Len(t) = (start[k + 1] - 1) + 1 /\ t[(start[k + 1] - 1) + 1] = Character("/")
      BY <1>1, <2>1 DEF Ends
    <3>2. z # (start[k + 1] - 1) + 1
      BY <1>4, <3>1, SymbolFields
    <3> DEFINE e == start[k + 1]
    <3>3. Len(t) = e /\ z # e /\ e \in Nat
      BY <1>5, <3>1, <3>2
    <3> HIDE DEF e, t, z
    <3>4. z \in 1..(e - 1)
      BY <1>3, <1>4, <3>3
    <3> QED BY <3>4 DEF e
  <2>2. CASE ~route.slash
    <3>1. Len(t) = start[k + 1] - 1
      BY <1>1, <2>2 DEF Ends
    <3> HIDE DEF t, z
    <3> QED BY <1>3, <1>4, <3>1
  <2> QED BY <2>1, <2>2
<1> HIDE DEF t
<1>7. PICK i \in 1..k : /\ z = start[i + 1] - 1 /\ segments[i].kind # "STATIC"
                        /\ t[z].kind = segments[i].kind
  <2> HIDE DEF z, segments
  <2>1. z \in 1..(start[Len(segments) + 1] - 1) /\ t[z].kind # "STATIC" /\ Lays(segments, t, start)
    BY <1>1, <1>4, <1>6
  <2>2. \E i \in 1..Len(segments) :
              /\ z = start[i + 1] - 1 /\ segments[i].kind # "STATIC"
              /\ t[z].kind = segments[i].kind /\ t[z].name = segments[i].name
    BY ONLY <1>2, <2>1, WildcardIs
  <2> QED BY <2>2
<1>8. i = k
  BY <1>2, <1>4, <1>7 DEF CatchAllLast
<1>9. EndsInCatchAll(route)
  BY <1>2, <1>4, <1>7, <1>8
<1>10. Lays(segments, u, start)
  BY <1>1, <1>2, <1>3, <1>7, <1>8, LaysShorter
<1>11. Ends(u, start[k + 1] - 1, FALSE)
  BY <1>7, <1>8 DEF Ends
<1>12. (route.slash /\ ~EndsInCatchAll(route)) = FALSE
  BY <1>9
<1> QED BY <1>10, <1>11, <1>12 DEF Spells

(***************************************************************************)
(* What of the URL forward has come past.                                  *)
(***************************************************************************)

\* The j-th symbol of t stands for its part of the URL.
Stands(t, url, g, j) ==
    /\ t[j].kind = "STATIC" => g[j] = g[j - 1] + 1 /\ url[g[j]] = t[j].char
    /\ t[j].kind # "STATIC" => g[j - 1] <= g[j]
    /\ t[j].kind = "PARAM" =>
          /\ \A p \in (g[j - 1] + 1)..g[j] : url[p] # "/"
          /\ g[j] = Len(url) \/ url[g[j] + 1] = "/"
          /\ g[j] = g[j - 1] \/ Accepts(t[j].re, Taken(url, g, j))

\* Text h goes on where g ends.
Longs(t, g, z, h) ==
    /\ Len(t) <= Len(z) /\ \A j \in 1..Len(t) : z[j] = t[j]
    /\ \A j \in 0..Len(t) : h[j] = g[j]

\* A text that goes on.
LEMMA Extends ==
    ASSUME NEW t, Len(t) \in Nat, NEW z, Len(z) \in Nat, NEW url, Len(url) \in Nat,
           NEW g, Follows(t, url, g),
           NEW h \in [0..Len(z) -> 0..Len(url)], Longs(t, g, z, h),
           \A j \in 1..Len(z) : j \in 1..Len(t) \/ Stands(z, url, h, j)
    PROVE  /\ Follows(z, url, h) /\ (Skips(t, g) => Skips(z, h))
           /\ Bindings(z, url, h) = Bindings(t, url, g) \cup
                {<<z[j].name, Taken(url, h, j)>> : j \in Wilds(z) \ 1..Len(t)}
<1>1. Len(t) \in Nat /\ Len(z) \in Nat /\ Len(t) <= Len(z)
  BY DEF Longs
<1>2. \A j \in 1..Len(t) : /\ j \in 0..Len(t) /\ j - 1 \in 0..Len(t) /\ j \in 1..Len(z)
                           /\ z[j] = t[j] /\ h[j] = g[j] /\ h[j - 1] = g[j - 1]
  <2>1. \A j \in 1..Len(t) : j \in 0..Len(t) /\ j - 1 \in 0..Len(t) /\ j \in 1..Len(z)
    BY <1>1
  <2> QED BY <2>1 DEF Longs
<1>3. h[0] = 0
  <2>1. 0 \in 0..Len(t)
    BY <1>1
  <2> QED BY <2>1 DEF Longs, Follows
<1>4. ASSUME NEW j \in 1..Len(t) PROVE Stands(z, url, h, j) /\ Taken(url, h, j) = Taken(url, g, j)
  <2>1. Stands(t, url, g, j)
    BY DEF Follows, Stands
  <2>2. Taken(url, h, j) = Taken(url, g, j)
    BY <1>2 DEF Taken
  <2> QED BY <1>2, <2>1, <2>2 DEF Stands
<1>5. \A j \in 1..Len(z) : Stands(z, url, h, j)
  BY <1>4
<1>6. Follows(z, url, h)
  BY <1>3, <1>5 DEF Follows, Stands
<1>7. Skips(t, g) => Skips(z, h)
  BY <1>2 DEF Skips
<1>8. \A j \in 1..Len(t) : j \in Wilds(z) <=> j \in Wilds(t)
  BY <1>2 DEF Wilds
<1>9. /\ Wilds(t) \subseteq 1..Len(t) /\ Wilds(t) \subseteq Wilds(z)
      /\ \A j \in Wilds(z) : j \in 1..Len(t) => j \in Wilds(t)
  BY <1>8 DEF Wilds
<1>10. Bindings(z, url, h) = Bindings(t, url, g) \cup
                {<<z[j].name, Taken(url, h, j)>> : j \in Wilds(z) \ 1..Len(t)}
  <2>1. Bindings(t, url, g) = {<<z[j].name, Taken(url, h, j)>> : j \in Wilds(t)}
    BY <1>2, <1>4, <1>9 DEF Bindings
  <2>2. Wilds(z) = Wilds(t) \cup (Wilds(z) \ 1..Len(t))
    BY <1>9
  <2> QED BY <2>1, <2>2 DEF Bindings
<1> QED BY <1>6, <1>7, <1>10

\* What is left of a text after its first a characters.
LEMMA FromAfter ==
    ASSUME NEW S, NEW s \in Seq(S), NEW a \in 0..Len(s)
    PROVE  /\ From(s, a + 1) \in Seq(S) /\ Len(From(s, a + 1)) = Len(s) - a
           /\ \A j \in 1..(Len(s) - a) : From(s, a + 1)[j] = s[a + j]
<1> DEFINE m == Len(s)
<1>1. m \in Nat /\ a \in Nat /\ a <= m /\ m <= Len(s)
  OBVIOUS
<1> HIDE DEF m
<1>2. /\ SubSeq(s, a + 1, m) \in Seq(S) /\ Len(SubSeq(s, a + 1, m)) = m - a
      /\ \A j \in 1..(m - a) : SubSeq(s, a + 1, m)[j] = s[a + j]
  BY <1>1, PieceIs
<1> QED BY <1>2 DEF From, m

\* And of that after its first k.
LEMMA FromFrom ==
    ASSUME NEW S, NEW s \in Seq(S), NEW a \in Nat, NEW k \in Nat, a + k <= Len(s)
    PROVE  From(From(s, a + 1), k + 1) = From(s, (a + k) + 1)
<1> SUFFICES ASSUME NEW m \in Nat, m = Len(s)
             PROVE  From(SubSeq(s, a + 1, m), k + 1) = SubSeq(s, (a + k) + 1, m)
  BY DEF From
<1>1. a <= m /\ m <= Len(s) /\ a + k <= m
  OBVIOUS
<1> QED BY ONLY <1>1, PieceOfPiece, s \in Seq(S), a \in Nat, m \in Nat, k \in Nat

\* Text of the tree that the URL has as well.
LEMMA ExtendsText ==
    ASSUME NEW t \in Seq(Symbols), NEW S, NEW url \in Seq(S), NEW g, Follows(t, url, g),
           NEW w \in Seq(Chars), IsPrefix(w, From(url, g[Len(t)] + 1))
    PROVE  LET z == t \o Plain(w)
           IN  \E h : /\ Follows(z, url, h) /\ (Skips(t, g) => Skips(z, h))
                      /\ Bindings(z, url, h) = Bindings(t, url, g)
                      /\ h[Len(z)] = g[Len(t)] + Len(w)
                      /\ From(From(url, g[Len(t)] + 1), Len(w) + 1) = From(url, h[Len(z)] + 1)
<1> DEFINE u == Plain(w)
           z == t \o u
           a == g[Len(t)]
           p == From(url, a + 1)
           n == Len(t)
           m == Len(url)
           k == Len(w)
<1>1. /\ u \in Seq(Symbols) /\ Len(u) = k /\ k \in Nat
      /\ \A j \in 1..k : u[j] = Character(w[j])
  BY PlainIs
<1> HIDE DEF u
<1>2. /\ z \in Seq(Symbols) /\ Len(z) = n + k /\ n \in Nat
      /\ \A j \in 1..n : z[j] = t[j]
      /\ \A j \in 1..k : z[n + j] = u[j]
  <2>1. /\ z \in Seq(Symbols) /\ Len(z) = Len(t) + Len(u) /\ Len(t) \in Nat
        /\ \A j \in 1..Len(t) : z[j] = t[j]
        /\ \A j \in 1..Len(u) : z[Len(t) + j] = u[j]
    BY <1>1, Joining
  <2> HIDE DEF z, k
  <2> QED BY <1>1, <2>1
<1> HIDE DEF z
<1>3. /\ m \in Nat /\ g \in [0..n -> 0..m] /\ a \in 0..m
  <2>1. m \in Nat /\ g \in [0..n -> 0..m] /\ n \in 0..n
    BY <1>2 DEF Follows
  <2> HIDE DEF n, m
  <2> QED BY <2>1 DEF n
<1>4. /\ Len(p) = m - a /\ \A j \in 1..(m - a) : p[j] = url[a + j]
  <2> HIDE DEF a
  <2> QED BY <1>3, FromAfter
<1>5. k <= m - a /\ \A j \in 1..k : w[j] = url[a + j]
  <2>1. k <= Len(p) /\ SubSeq(w, 1, k) = SubSeq(p, 1, k)
    BY DEF IsPrefix
  <2>2. p \in Seq(S) /\ k \in 0..Len(p) /\ k \in 0..k
    <3>1. a + 1 \in 1..(m + 1)
      BY <1>3
    <3>2. p \in Seq(S)
      BY <3>1, FromIs
    <3> HIDE DEF p, k
    <3> QED BY <1>1, <1>3, <1>4, <2>1, <3>2
  <2>3. /\ \A j \in 1..k : SubSeq(w, 1, k)[j] = w[j]
        /\ \A j \in 1..k : SubSeq(p, 1, k)[j] = p[j]
    BY <2>2, UpToIs
  <2> HIDE DEF p, k, m, a
  <2>4. \A j \in 1..k : j \in 1..(m - a)
    BY <1>1, <1>3, <1>4, <2>1
  <2> QED BY <1>4, <2>1, <2>3, <2>4
<1> DEFINE h == [j \in 0..Len(z) |-> IF j <= n THEN g[j] ELSE a + (j - n)]
<1>6. /\ \A j \in 0..n : h[j] = g[j]
      /\ \A j \in 0..k : n + j \in 0..(n + k) /\ h[n + j] = a + j
  <2> HIDE DEF a, k, n
  <2>1. \A j \in 0..n : j \in 0..(n + k) /\ j <= n
    BY <1>1, <1>2
  <2>2. \A j \in 0..n : h[j] = g[j]
    BY <1>2, <2>1
  <2>3. ASSUME NEW j \in 0..k PROVE n + j \in 0..(n + k) /\ h[n + j] = a + j
    <3>1. n + j \in 0..(n + k) /\ (n + j) - n = j /\ (n + j <= n => j = 0)
      BY <1>1, <1>2
    <3>2. CASE n + j <= n
      <4>1. j = 0 /\ n + j = n /\ n \in 0..n
        BY <1>2, <3>1, <3>2
      <4>2. h[n] = g[n]
        BY <2>2, <4>1
      <4>3. h[n + j] = a
        BY <4>1, <4>2 DEF a, n
      <4> QED BY <1>3, <3>1, <4>1, <4>3
    <3>3. CASE ~(n + j <= n)
      BY <1>2, <3>1, <3>3
    <3> QED BY <3>2, <3>3
  <2> QED BY <2>2, <2>3
<1>7. h \in [0..Len(z) -> 0..m]
  <2> SUFFICES ASSUME NEW j \in 0..Len(z) PROVE h[j] \in 0..m
    OBVIOUS
  <2>1. CASE j <= n
    <3>1. j \in 0..n
      BY <1>2, <2>1
    <3> QED BY <1>3, <1>6, <3>1
  <2>2. CASE ~(j <= n)
    <3> HIDE DEF h, a, k, n, m
    <3>1. j - n \in 0..k /\ n + (j - n) = j /\ a + (j - n) \in 0..m
      BY <1>1, <1>2, <1>3, <1>5, <2>2
    <3>2. h[n + (j - n)] = a + (j - n)
      BY <1>6, <3>1
    <3> QED BY <3>1, <3>2
  <2> QED BY <2>1, <2>2
<1> HIDE DEF h, a, k, n, m
<1>8. ASSUME NEW j \in 1..k
      PROVE  /\ z[n + j].kind = "STATIC" /\ z[n + j].char = url[a + j]
             /\ h[n + j] = a + j /\ h[(n + j) - 1] = a + (j - 1)
  <2>1. j \in 0..k /\ j - 1 \in 0..k /\ (n + j) - 1 = n + (j - 1)
    BY <1>1, <1>2
  <2> QED BY <1>1, <1>2, <1>5, <1>6, <2>1, SymbolFields
<1>9. ASSUME NEW j \in 1..Len(z), j \notin 1..n
      PROVE  Stands(z, url, h, j) /\ z[j].kind = "STATIC"
  <2>1. j - n \in 1..k /\ n + (j - n) = j
    BY <1>1, <1>2, <1>9
  <2>2. /\ z[j].kind = "STATIC" /\ z[j].char = url[a + (j - n)]
        /\ h[j] = a + (j - n) /\ h[j - 1] = a + ((j - n) - 1)
    BY <1>8, <2>1
  <2>3. h[j] = h[j - 1] + 1
    BY <1>2, <1>3, <2>1, <2>2
  <2> QED BY <2>2, <2>3 DEF Stands
<1>10. Longs(t, g, z, h)
  <2>1. n <= n + k
    BY <1>1, <1>2
  <2> QED BY <1>2, <1>6, <2>1 DEF Longs, n
<1>11. /\ Follows(z, url, h) /\ (Skips(t, g) => Skips(z, h))
       /\ Bindings(z, url, h) = Bindings(t, url, g) \cup
                {<<z[j].name, Taken(url, h, j)>> : j \in Wilds(z) \ 1..Len(t)}
  <2>1. \A j \in 1..Len(z) : j \in 1..Len(t) \/ Stands(z, url, h, j)
    BY <1>9 DEF n
  <2>2. Len(url) \in Nat /\ h \in [0..Len(z) -> 0..Len(url)]
    BY <1>3, <1>7 DEF m
  <2>3. Len(t) \in Nat /\ Len(z) \in Nat
    BY <1>1, <1>2 DEF n
  <2> QED BY <1>10, <2>1, <2>2, <2>3, Extends
<1>12. Wilds(z) \ 1..Len(t) = {}
  BY <1>9 DEF Wilds, n
<1>13. Bindings(z, url, h) = Bindings(t, url, g)
  BY <1>11, <1>12
<1>14. h[Len(z)] = a + k
  <2>1. k \in 0..k
    BY <1>1
  <2> QED BY <1>2, <1>6, <2>1
<1>15. From(p, k + 1) = From(url, (a + k) + 1)
  <2>1. a \in Nat /\ k \in Nat /\ a + k <= Len(url)
    <3>1. a \in Nat /\ k \in Nat /\ a + k <= m
      BY <1>1, <1>3, <1>5
    <3> QED BY <1>3, <3>1 DEF m
  <2> QED BY <2>1, FromFrom DEF p
<1>16. From(p, k + 1) = From(url, h[Len(z)] + 1)
  BY <1>14, <1>15
<1> QED BY <1>11, <1>13, <1>14, <1>16 DEF z, u, a, k, p

(***************************************************************************)
(* One wildcard more.                                                      *)
(***************************************************************************)

\* A text and a symbol.
LEMMA OneMore ==
    ASSUME NEW t \in Seq(Symbols), NEW w \in Symbols
    PROVE  /\ t \o <<w>> \in Seq(Symbols) /\ Len(t \o <<w>>) = Len(t) + 1 /\ Len(t) \in Nat
           /\ \A j \in 1..Len(t) : (t \o <<w>>)[j] = t[j]
           /\ (t \o <<w>>)[Len(t) + 1] = w
<1> DEFINE u == <<w>>
           z == t \o u
           n == Len(t)
<1>1. u \in Seq(Symbols) /\ Len(u) = 1 /\ u[1] = w
  <2> DEFINE S == Symbols
  <2>1. w \in S
    OBVIOUS
  <2> HIDE DEF S
  <2> QED BY <2>1
<1> HIDE DEF u
<1>2. /\ z \in Seq(Symbols) /\ Len(z) = n + Len(u) /\ n \in Nat
      /\ \A j \in 1..n : z[j] = t[j]
      /\ \A j \in 1..Len(u) : z[n + j] = u[j]
  BY <1>1, Joining
<1> HIDE DEF z, n
<1>3. z[n + 1] = w /\ Len(z) = n + 1
  BY <1>1, <1>2
<1> QED BY <1>2, <1>3 DEF z, u, n

\* z is t and symbol w.
OneAfter(t, w, z) == /\ Len(t) \in Nat /\ Len(z) = Len(t) + 1 /\ z[Len(t) + 1] = w
                     /\ \A j \in 1..Len(t) : z[j] = t[j]

\* A symbol at the end of a text.
LEMMA OneAfterIs ==
    ASSUME NEW t \in Seq(Symbols), NEW w \in Symbols
    PROVE  OneAfter(t, w, t \o <<w>>)
<1>1. /\ Len(t \o <<w>>) = Len(t) + 1 /\ Len(t) \in Nat
      /\ \A j \in 1..Len(t) : (t \o <<w>>)[j] = t[j]
      /\ (t \o <<w>>)[Len(t) + 1] = w
  BY OneMore
<1> QED BY <1>1 DEF OneAfter

\* A wildcard can stand for what is between two places of the URL.
Passes(url, a, w, e) ==
    /\ w.kind # "STATIC" /\ e \in 0..Len(url) /\ a <= e
    /\ w.kind = "PARAM" =>
          /\ \A p \in (a + 1)..e : url[p] # "/"
          /\ e = Len(url) \/ url[e + 1] = "/"
          /\ e = a \/ Accepts(w.re, SubSeq(url, a + 1, e))

\* What is between two places of the URL.
Piece(url, a, e) == SubSeq(url, a + 1, e)

\* A parameter with no text.
Empties(w, a, e) == w.kind = "PARAM" /\ e = a

\* One more binding.
Also(bound, w, v) == bound \cup {<<w.name, v>>}

\* A wildcard of the tree, with a value.
LEMMA ExtendsWildcard ==
    ASSUME NEW t, NEW w, NEW z, OneAfter(t, w, z), NEW url, Len(url) \in Nat,
           NEW g, Follows(t, url, g), NEW e, Passes(url, g[Len(t)], w, e)
    PROVE  \E h : /\ Follows(z, url, h) /\ (Skips(t, g) => Skips(z, h))
                  /\ Bindings(z, url, h) = Also(Bindings(t, url, g), w, Piece(url, g[Len(t)], e))
                  /\ h[Len(z)] = e
                  /\ Empties(w, g[Len(t)], e) => Skips(z, h)
<1> DEFINE n == Len(t)
           m == Len(url)
           a == g[n]
           h == [j \in 0..Len(z) |-> IF j <= n THEN g[j] ELSE e]
<1>0. /\ w.kind # "STATIC" /\ e \in 0..m /\ a <= e
      /\ w.kind = "PARAM" =>
              /\ \A p \in (a + 1)..e : url[p] # "/"
              /\ e = Len(url) \/ url[e + 1] = "/"
              /\ e = a \/ Accepts(w.re, SubSeq(url, a + 1, e))
  BY DEF Passes
<1>1. /\ Len(z) = n + 1 /\ n \in Nat /\ z[n + 1] = w /\ \A j \in 1..n : z[j] = t[j]
  BY DEF OneAfter
<1>2. m \in Nat /\ g \in [0..n -> 0..m] /\ e \in 0..m
  BY <1>0 DEF Follows
<1>3. a \in 0..m /\ a <= e
  <2>1. n \in 0..n
    BY <1>1
  <2> HIDE DEF m, n
  <2> QED BY <1>0, <1>2, <2>1 DEF n
<1> HIDE DEF m, n
<1>4. h[n] = a /\ h[n + 1] = e /\ \A j \in 0..n : h[j] = g[j]
  <2>1. n \in 0..(n + 1) /\ n + 1 \in 0..(n + 1) /\ ~(n + 1 <= n) /\ n <= n
    BY <1>1
  <2>2. \A j \in 0..n : j \in 0..(n + 1) /\ j <= n
    BY <1>1
  <2> QED BY <1>1, <2>1, <2>2
<1>5. h \in [0..Len(z) -> 0..m]
  <2> SUFFICES ASSUME NEW j \in 0..Len(z) PROVE h[j] \in 0..m
    OBVIOUS
  <2>1. CASE j <= n
    <3>1. j \in 0..n
      BY <1>1, <2>1
    <3> QED BY <1>2, <1>4, <3>1
  <2>2. CASE ~(j <= n)
    <3>1. h[j] = e
      BY <2>2
    <3> QED BY <1>2, <3>1
  <2> QED BY <2>1, <2>2
<1>6. (n + 1) - 1 = n
  BY <1>1
<1> HIDE DEF h, a
<1>7. Taken(url, h, n + 1) = SubSeq(url, a + 1, e)
  BY <1>4, <1>6 DEF Taken
<1>8. Stands(z, url, h, n + 1)
  BY <1>0, <1>1, <1>3, <1>4, <1>6, <1>7 DEF Stands
<1>9. \A j \in 1..Len(z) : j \in 1..n \/ j = n + 1
  BY <1>1
<1>10. Longs(t, g, z, h)
  <2>1. n <= n + 1
    BY <1>1
  <2> QED BY <1>1, <1>4, <2>1 DEF Longs, n
<1>11. /\ Follows(z, url, h) /\ (Skips(t, g) => Skips(z, h))
       /\ Bindings(z, url, h) = Bindings(t, url, g) \cup
                {<<z[j].name, Taken(url, h, j)>> : j \in Wilds(z) \ 1..Len(t)}
  <2>1. \A j \in 1..Len(z) : j \in 1..Len(t) \/ Stands(z, url, h, j)
    BY <1>8, <1>9 DEF n
  <2>2. Len(url) \in Nat /\ h \in [0..Len(z) -> 0..Len(url)]
    BY <1>2, <1>5 DEF m
  <2>3. Len(t) \in Nat /\ Len(z) \in Nat
    BY <1>1 DEF n
  <2> QED BY <1>10, <2>1, <2>2, <2>3, Extends
<1>12. Wilds(z) \ 1..Len(t) = {n + 1}
  <2>1. n + 1 \in 1..Len(z) /\ n + 1 \notin 1..n
    BY <1>1
  <2> QED BY <1>0, <1>1, <1>9, <2>1 DEF Wilds, n
<1>13. {<<z[j].name, Taken(url, h, j)>> : j \in Wilds(z) \ 1..Len(t)}
         = {<<w.name, SubSeq(url, a + 1, e)>>}
  BY <1>1, <1>7, <1>12
<1>14. Empties(w, a, e) => Skips(z, h)
  <2>1. n + 1 \in 1..Len(z)
    BY <1>1
  <2> QED BY <1>1, <1>4, <1>6, <2>1 DEF Skips, Empties
<1>15. h[Len(z)] = e
  BY <1>1, <1>4
<1>16. Bindings(z, url, h) = Also(Bindings(t, url, g), w, Piece(url, a, e))
  BY <1>11, <1>13 DEF Also, Piece
<1> QED BY <1>11, <1>14, <1>15, <1>16 DEF a, n

(***************************************************************************)
(* The names of a route.                                                   *)
(***************************************************************************)

Distinct(t) == \A i, j \in Wilds(t) : t[i].name = t[j].name => i = j

\* The wildcards of a route have different names.
LEMMA SpellsDistinct ==
    ASSUME NEW route \in Routes, Ordinary, NEW t, Spells(route, t)
    PROVE  Distinct(t)
<1> DEFINE s == route.segments
           k == Len(s)
<1>1. PICK start : /\ Lays(s, t, start)
                   /\ Ends(t, start[k + 1] - 1, route.slash /\ ~EndsInCatchAll(route))
  BY DEF Spells
<1>2. ASSUME NEW i \in Wilds(t)
      PROVE  \E c \in 1..k : i = start[c + 1] - 1 /\ s[c].kind # "STATIC" /\ t[i].name = s[c].name
  BY <1>1, WildsMeet
<1>3. \A i, j \in 1..k :
         s[i].kind # "STATIC" /\ s[j].kind # "STATIC" /\ s[i].name = s[j].name => i = j
  BY RouteIs
<1> HIDE DEF s, k
<1>4. ASSUME NEW i \in Wilds(t), NEW j \in Wilds(t), t[i].name = t[j].name PROVE i = j
  <2>1. PICK c \in 1..k : i = start[c + 1] - 1 /\ s[c].kind # "STATIC" /\ t[i].name = s[c].name
    BY <1>2
  <2>2. PICK d \in 1..k : j = start[d + 1] - 1 /\ s[d].kind # "STATIC" /\ t[j].name = s[d].name
    BY <1>2
  <2>3. c = d
    BY <1>3, <1>4, <2>1, <2>2
  <2> QED BY <2>1, <2>2, <2>3
<1> QED BY <1>4 DEF Distinct

\* Two wildcards of a route have the slash of the second between them.
LEMMA WildsApart ==
    ASSUME NEW route \in Routes, Ordinary, NEW t, Spells(route, t), NEW j \in Wilds(t)
    PROVE  j + 1 \notin Wilds(t)
<1> DEFINE s == route.segments
           k == Len(s)
<1>1. PICK start : /\ Lays(s, t, start)
                   /\ Ends(t, start[k + 1] - 1, route.slash /\ ~EndsInCatchAll(route))
  BY DEF Spells
<1>2. ASSUME NEW i \in Wilds(t)
      PROVE  \E c \in 1..k : i = start[c + 1] - 1 /\ s[c].kind # "STATIC" /\ t[i].name = s[c].name
  BY <1>1, WildsMeet
<1>3. s \in Seq(Segments) /\ k \in Nat
  BY RouteIs
<1>4. /\ \A i \in 1..(k + 1) : start[i] \in Nat
      /\ \A i, c \in 1..(k + 1) : i < c => start[i] < start[c]
      /\ \A i \in 1..k : /\ Len(s[i].text) \in Nat
                         /\ start[i + 1] = start[i] + Width(s[i]) /\ Width(s[i]) \in Nat
                         /\ i + 1 \in 1..(k + 1) /\ i \in 1..(k + 1)
  BY <1>1, <1>3, LaysOut
<1> HIDE DEF s, k
<1>5. SUFFICES ASSUME j + 1 \in Wilds(t) PROVE FALSE
  OBVIOUS
<1>6. PICK c \in 1..k : j = start[c + 1] - 1 /\ s[c].kind # "STATIC"
  BY <1>2
<1>7. PICK d \in 1..k : j + 1 = start[d + 1] - 1 /\ s[d].kind # "STATIC"
  BY <1>2, <1>5
<1>8. Width(s[d]) >= 2
  BY <1>4, <1>7 DEF Width
<1>9. /\ start[d + 1] \in Nat /\ start[c + 1] \in Nat /\ start[d] \in Nat
      /\ start[d + 1] = start[d] + Width(s[d]) /\ Width(s[d]) \in Nat
  BY <1>4
<1>10. j \in Nat /\ start[d + 1] = start[c + 1] + 1 /\ start[d] < start[c + 1]
  <2>1. j \in Nat
    BY DEF Wilds
  <2> QED BY <1>6, <1>7, <1>8, <1>9, <2>1
<1>11. CASE d < c + 1
  <2>1. d + 1 = c + 1 \/ d + 1 < c + 1
    BY <1>11
  <2>2. d + 1 < c + 1 => start[d + 1] < start[c + 1]
    BY <1>4
  <2> QED BY <1>9, <1>10, <2>1, <2>2
<1>12. CASE ~(d < c + 1)
  <2>1. d = c + 1 \/ c + 1 < d
    BY <1>12
  <2>2. c + 1 < d => start[c + 1] < start[d]
    BY <1>4
  <2> QED BY <1>9, <1>10, <2>1, <2>2
<1> QED BY <1>11, <1>12

\* What forward has bound, and one more.
LEMMA Binds ==
    ASSUME NEW t, NEW w, NEW z, OneAfter(t, w, z), w.kind # "STATIC", Distinct(z),
           NEW url, NEW g, params = Bindings(t, url, g), NEW v
    PROVE  Bind(w.name, v) = Also(Bindings(t, url, g), w, v)
<1> DEFINE n == Len(t)
<1>1. Len(z) = n + 1 /\ n \in Nat /\ z[n + 1] = w /\ \A j \in 1..n : z[j] = t[j]
  BY DEF OneAfter
<1> HIDE DEF n
<1>2. n + 1 \in Wilds(z)
  <2>1. n + 1 \in 1..Len(z)
    BY <1>1
  <2> QED BY <1>1, <2>1 DEF Wilds
<1>3. ASSUME NEW p \in params, p[1] = w.name PROVE FALSE
  <2>1. PICK j \in Wilds(t) : p = <<t[j].name, Taken(url, g, j)>>
    BY DEF Bindings
  <2>2. j \in 1..n /\ t[j].kind # "STATIC"
    BY DEF Wilds, n
  <2>3. j \in 1..Len(z) /\ j # n + 1
    BY <1>1, <2>2
  <2>4. j \in Wilds(z) /\ z[j].name = w.name
    <3>1. p[1] = t[j].name
      BY <2>1
    <3> QED BY <1>1, <1>3, <2>2, <2>3, <3>1 DEF Wilds
  <2> QED BY <1>1, <1>2, <2>3, <2>4 DEF Distinct
<1> QED BY <1>3 DEF Bind, Also

\* A part of a text has different names if the text has.
LEMMA DistinctPart ==
    ASSUME NEW t \in Seq(Symbols), NEW u \in Seq(Symbols), Distinct(t \o u)
    PROVE  Distinct(t)
<1> DEFINE z == t \o u
<1>1. /\ Len(z) = Len(t) + Len(u) /\ Len(t) \in Nat /\ Len(u) \in Nat
      /\ \A j \in 1..Len(t) : z[j] = t[j]
  BY Joining
<1>2. Distinct(z)
  OBVIOUS
<1> HIDE DEF z
<1>3. \A j \in Wilds(t) : j \in Wilds(z) /\ z[j] = t[j]
  <2>1. \A j \in 1..Len(t) : j \in 1..Len(z)
    BY <1>1
  <2> QED BY <1>1, <2>1 DEF Wilds
<1> QED BY <1>2, <1>3 DEF Distinct

\* One wildcard more, of another name: the values are those of before, and
\* its own.
LEMMA DistinctOne ==
    ASSUME NEW t, NEW w, NEW z, OneAfter(t, w, z), Distinct(z)
    PROVE  Distinct(t)
<1>1. \A j \in Wilds(t) : j \in Wilds(z) /\ z[j] = t[j]
  <2>1. \A j \in 1..Len(t) : j \in 1..Len(z)
    BY DEF OneAfter
  <2> QED BY <2>1 DEF Wilds, OneAfter
<1> QED BY <1>1 DEF Distinct

\* What forward returns at the end of the text of a route.
Right(route, url, bound) ==
    /\ Matches(route, url) \/ EmptyValue(route, url)
    /\ bound = Values(route, url) \/ EmptyValue(route, url)

\* A route of which the text has been followed to the end of the URL is
\* right, and so is one of which a parameter has been skipped.
LEMMA AnswerIs ==
    ASSUME NEW route \in Routes, Ordinary, NEW t, Spells(route, t),
           NEW S, NEW url \in Seq(S), NEW g, Follows(t, url, g),
           NEW bound, Skips(t, g) \/ (g[Len(t)] = Len(url) /\ (Distinct(t) => bound = Bindings(t, url, g)))
    PROVE  Right(route, url, bound)
<1>1. CASE Skips(t, g)
  BY <1>1, SkipsMeans DEF Right
<1>2. CASE ~Skips(t, g)
  <2>1. Distinct(t)
    BY SpellsDistinct
  <2>2. Matches(route, url) /\ Values(route, url) = Bindings(t, url, g)
    BY <1>2, Means
  <2> QED BY <1>2, <2>1, <2>2 DEF Right
<1> QED BY <1>1, <1>2
==============================================================================
