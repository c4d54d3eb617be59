------------------------------- MODULE FoundProofs ------------------------------
(***************************************************************************)
(* forward finds what there is to find, for any routes and any URLs of an  *)
(* Ordinary program: a URL that a route matches finds a controller         *)
(* (MatchIsFound), and one that only lacks its last slash is told so       *)
(* (SlashIsHinted).                                                        *)
(*                                                                         *)
(* A URL that a route matches is what the text of the route stands for     *)
(* (MatchLeads), and a node of the tree has that text. The walk never goes *)
(* back, so it is to be shown that it never leaves the way to that node:   *)
(* the node hangs below the one that forward is at, and what is left of    *)
(* the URL is what is left of the text (Seeks). This takes a tree in which *)
(* every node hangs below the root, and in which the node under a          *)
(* parameter that has a catch-all under it keeps the slash in its indices, *)
(* by which forward tells that a slash is missing (Linked); and the        *)
(* building keeps it so (LinkStep), because a route that comes past a      *)
(* parameter of another one is one that addRoute aborts on (Doomed).       *)
(***************************************************************************)
EXTENDS AnswerProofs

(***************************************************************************)
(* A URL that a route matches is what the text of the route stands for.    *)
(***************************************************************************)

\* The last character of a segment of the URL.
LastOf(url, i) == IF i = Len(Slashes(url)) THEN Len(url) ELSE Slashes(url)[i + 1] - 1

\* A segment of the URL lies between its slash and the next one.
LEMMA SegmentLies ==
    ASSUME NEW S, NEW url \in Seq(S), NEW i \in 1..Len(Slashes(url))
    PROVE  /\ Slashes(url)[i] \in 1..Len(url) /\ url[Slashes(url)[i]] = "/"
           /\ LastOf(url, i) \in Nat /\ Len(url) \in Nat
           /\ Slashes(url)[i] <= LastOf(url, i) /\ LastOf(url, i) <= Len(url)
           /\ \A p \in (Slashes(url)[i] + 1)..LastOf(url, i) : url[p] # "/"
           /\ LastOf(url, i) = Len(url) \/ url[LastOf(url, i) + 1] = "/"
           /\ Segment(url, i) = SubSeq(url, Slashes(url)[i] + 1, LastOf(url, i))
<1> DEFINE s == Slashes(url)
           m == Len(s)
           n == Len(url)
           e == LastOf(url, i)
<1>1. n \in Nat /\ Lists(url, n, s)
  <2>1. Len(url) \in Nat
    OBVIOUS
  <2> QED BY <2>1, SlashesList
<1>2. /\ m \in Nat /\ i \in Nat /\ i <= m /\ i >= 1
      /\ \A l \in 1..m : s[l] \in Nat /\ s[l] \in 1..n /\ url[s[l]] = "/"
      /\ \A l, k \in 1..m : l < k => s[l] < s[k]
      /\ \A p \in 1..n : url[p] = "/" => \E l \in 1..m : s[l] = p
  <2>1. m \in Nat
    BY <1>1 DEF Lists
  <2>2. \A l \in 1..m : SlashAt(url, s[l])
    BY <1>1 DEF Lists
  <2>3. \A l, k \in 1..m : l < k => s[l] < s[k]
    BY <1>1 DEF Lists
  <2>4. \A p \in 1..n : url[p] = "/" => \E l \in 1..m : s[l] = p
    BY <1>1 DEF Lists, SlashAt
  <2> HIDE DEF s, m, n
  <2>5. i \in 1..m
    BY DEF m, s
  <2> QED BY <1>1, <2>1, <2>2, <2>3, <2>4, <2>5 DEF SlashAt, n
<1>3. Segment(url, i) = SubSeq(url, s[i] + 1, e)
  BY DEF Segment, LastOf
<1>4. CASE i = m
  <2>1. e = n
    BY <1>4 DEF LastOf
  <2>2. \A p \in (s[i] + 1)..n : url[p] # "/"
    <3> HIDE DEF s, m, n
    <3> SUFFICES ASSUME NEW p \in (s[i] + 1)..n, url[p] = "/" PROVE FALSE
      OBVIOUS
    <3>1. p \in 1..n /\ s[i] < p /\ s[i] \in Nat
      BY <1>1, <1>2
    <3>2. PICK l \in 1..m : s[l] = p
      BY <1>2, <3>1
    <3>3. l < i \/ l = i
      BY <1>2, <1>4
    <3>4. l < i => s[l] < s[i]
      BY <1>2
    <3> QED BY <3>1, <3>2, <3>3, <3>4
  <2> HIDE DEF s, m, n, e
  <2> QED BY <1>1, <1>2, <1>3, <2>1, <2>2 DEF s, m, n, e
<1>5. CASE i # m
  <2>1. e = s[i + 1] - 1
    BY <1>5 DEF LastOf
  <2> HIDE DEF s, m, n, e
  <2>2. /\ i + 1 \in 1..m /\ s[i] < s[i + 1] /\ s[i + 1] \in 1..n /\ url[s[i + 1]] = "/"
        /\ s[i] \in 1..n
    BY <1>1, <1>2, <1>5
  <2>3. \A p \in (s[i] + 1)..e : url[p] # "/"
    <3> SUFFICES ASSUME NEW p \in (s[i] + 1)..e, url[p] = "/" PROVE FALSE
      OBVIOUS
    <3>1. p \in 1..n /\ s[i] < p /\ p < s[i + 1]
      BY <1>1, <2>1, <2>2
    <3>2. PICK l \in 1..m : s[l] = p
      BY <1>2, <3>1
    <3>3. l < i \/ l = i \/ l = i + 1 \/ i + 1 < l
      BY <1>2
    <3>4. (l < i => s[l] < s[i]) /\ (i + 1 < l => s[i + 1] < s[l])
      BY <1>2, <2>2
    <3> QED BY <1>2, <3>1, <3>2, <3>3, <3>4
  <2>4. e \in Nat /\ s[i] <= e /\ e <= n /\ url[e + 1] = "/"
    BY <1>1, <2>1, <2>2
  <2> QED BY <1>1, <1>2, <1>3, <2>2, <2>3, <2>4 DEF s, m, n, e
<1> QED BY <1>4, <1>5

\* A segment of a route that fits a segment of the URL.
LEMMA FitsAt ==
    ASSUME NEW S, NEW url \in Seq(S), NEW x \in Nat, NEW e \in Nat, x <= e, e <= Len(url),
           NEW s, NEW T, s.text \in Seq(T), Fits(s, SubSeq(url, x + 1, e)),
           s.kind \in {"STATIC", "PARAM", "CATCH_ALL"}
    PROVE  /\ Len(s.text) \in Nat /\ x + Len(s.text) <= e
           /\ \A l \in 1..Len(s.text) : url[x + l] = s.text[l]
           /\ s.kind = "STATIC" => e = x + Len(s.text)
           /\ s.kind = "PARAM" => Accepts(s.re, SubSeq(url, (x + Len(s.text)) + 1, e))
<1> DEFINE w == SubSeq(url, x + 1, e)
           n == Len(s.text)
<1>1. /\ w \in Seq(S) /\ Len(w) = e - x /\ \A j \in 1..(e - x) : w[j] = url[x + j]
  BY PieceIs
<1>2. n \in Nat
  OBVIOUS
<1>3. n <= Len(w) /\ (\A l \in 1..n : w[l] = s.text[l]) /\ (s.kind = "STATIC" => n = Len(w))
  <2>1. CASE s.kind = "STATIC"
    <3>1. w = s.text
      BY <2>1 DEF Fits
    <3> HIDE DEF w
    <3> QED BY <1>2, <3>1
  <2>2. CASE s.kind # "STATIC"
    <3>1. IsPrefix(s.text, w)
      BY <2>2 DEF Fits
    <3>2. n <= Len(w) /\ SubSeq(s.text, 1, n) = SubSeq(w, 1, n)
      BY <3>1 DEF IsPrefix
    <3>3. n \in 0..Len(w) /\ n \in 0..n
      <4> HIDE DEF n, w
      <4> QED BY <1>1, <1>2, <3>2
    <3>4. \A l \in 1..n : SubSeq(s.text, 1, n)[l] = s.text[l]
      BY <3>3, UpToIs
    <3>5. \A l \in 1..n : SubSeq(w, 1, n)[l] = w[l]
      <4> HIDE DEF n, w
      <4> QED BY <1>1, <3>3, UpToIs
    <3> QED BY <2>2, <3>2, <3>4, <3>5
  <2> QED BY <2>1, <2>2
<1>4. s.kind = "PARAM" => Accepts(s.re, From(w, n + 1))
  BY DEF Fits, Left
<1> HIDE DEF n
<1>5. x + n <= e
  BY <1>1, <1>2, <1>3
<1>6. From(w, n + 1) = SubSeq(url, (x + n) + 1, e)
  <2>1. x + n <= e
    BY <1>5
  <2>2. From(SubSeq(url, x + 1, e), n + 1) = SubSeq(url, (x + n) + 1, e)
    <3> HIDE DEF w
    <3> QED BY <1>2, <2>1, PieceOfPiece, SMTT(40)
  <2> QED BY <2>2
<1>7. \A l \in 1..n : url[x + l] = s.text[l]
  <2> HIDE DEF w
  <2>1. \A l \in 1..n : l \in 1..(e - x)
    BY <1>2, <1>5
  <2> QED BY <1>1, <1>3, <2>1
<1>8. s.kind = "STATIC" => e = x + n
  <2> HIDE DEF w
  <2> QED BY <1>1, <1>2, <1>3
<1>9. s.kind = "PARAM" => Accepts(s.re, SubSeq(url, (x + n) + 1, e))
  BY <1>4, <1>6
<1> QED BY <1>2, <1>5, <1>7, <1>8, <1>9 DEF n

\* The symbols of the i-th segment stand for the URL's i-th segment, one by
\* one, and its wildcard for what is left of it, or of the URL.
Placed(segments, start, url, g, i) ==
    /\ \A l \in 0..Len(segments[i].text) : g[start[i] + l] = Slashes(url)[i] + l
    /\ segments[i].kind = "PARAM" => g[start[i + 1] - 1] = LastOf(url, i)
    /\ segments[i].kind = "CATCH_ALL" => g[start[i + 1] - 1] = Len(url)

\* So do those of all segments; the URL has been read after the last one.
AllPlaced(segments, t, start, url, g) ==
    /\ DOMAIN g = 0..Len(t) /\ g = [j \in 0..Len(t) |-> g[j]] /\ g[0] = 0
    /\ \A i \in 1..Len(segments) : Placed(segments, start, url, g, i)
    /\ \A j \in 1..Len(t) : j >= start[Len(segments) + 1] => g[j] = Len(url)

\* A place in a text of n characters, of which the last is at e or before it.
LEMMA UpToLength ==
    ASSUME NEW a \in Nat, NEW n \in Nat, NEW e \in Nat, NEW l \in 0..n
    PROVE  /\ l \in Nat /\ a + l \in Nat /\ (a + l) - a = l /\ a <= a + l
           /\ e = a + n => a + l <= e
           /\ e - 1 = a + n => a + l < e /\ a + l <= e
OBVIOUS

\* Every symbol of the text of a route has its place.
LEMMA PlacesAre ==
    ASSUME NEW segments \in Seq(Segments), NEW t, NEW start, Lays(segments, t, start), NEW url
    PROVE  \E g : AllPlaced(segments, t, start, url, g)
<1> DEFINE k == Len(segments)
           In(i, j) == start[i] <= j /\ j < start[i + 1]
           Which(j) == CHOOSE i \in 1..k : In(i, j)
           At(i, j) == IF segments[i].kind = "STATIC" \/ j < start[i + 1] - 1
                         THEN Slashes(url)[i] + (j - start[i])
                       ELSE IF segments[i].kind = "PARAM" THEN LastOf(url, i) ELSE Len(url)
           G(j) == IF j = 0 THEN 0 ELSE IF j >= start[k + 1] THEN Len(url) ELSE At(Which(j), j)
           g == [j \in 0..Len(t) |-> G(j)]
<1>1. /\ k \in Nat /\ Len(t) \in Nat
      /\ \A i \in 1..(k + 1) : start[i] \in Nat /\ start[i] >= 1 /\ start[i] <= Len(t) + 1
      /\ \A i, l \in 1..(k + 1) : i < l => start[i] < start[l]
      /\ \A i \in 1..k : i + 1 \in 1..(k + 1) /\ i \in 1..(k + 1)
  BY LaysOut
<1>2. k + 1 \in 1..(k + 1)
  BY <1>1
<1> HIDE DEF k
<1>3. ASSUME NEW i \in 1..k, NEW j \in Nat, In(i, j)
      PROVE  j \in 0..Len(t) /\ g[j] = At(i, j)
  <2>1. ASSUME NEW l \in 1..k, In(l, j) PROVE l = i
    <3>1. /\ start[i] \in Nat /\ start[i + 1] \in Nat /\ start[l] \in Nat /\ start[l + 1] \in Nat
      BY <1>1
    <3>2. CASE l < i
      <4>1. l + 1 = i \/ l + 1 < i
        BY <1>1, <3>2
      <4>2. start[l + 1] <= start[i]
        BY <1>1, <3>1, <4>1
      <4> QED BY <1>3, <2>1, <3>1, <4>2
    <3>3. CASE i < l
      <4>1. i + 1 = l \/ i + 1 < l
        BY <1>1, <3>3
      <4>2. start[i + 1] <= start[l]
        BY <1>1, <3>1, <4>1
      <4> QED BY <1>3, <2>1, <3>1, <4>2
    <3>4. l \in Nat /\ i \in Nat
      BY <1>1
    <3> QED BY <3>2, <3>3, <3>4
  <2> HIDE DEF In
  <2>2. Which(j) = i
    BY <1>3, <2>1
  <2> USE DEF In
  <2>3. start[i] \in Nat /\ start[i] >= 1 /\ start[i + 1] \in Nat /\ start[i + 1] <= Len(t) + 1
        /\ start[k + 1] \in Nat
    BY <1>1, <1>2
  <2>4. start[i + 1] <= start[k + 1]
    <3>1. i + 1 = k + 1 \/ i + 1 < k + 1
      BY <1>1
    <3> QED BY <1>1, <1>2, <2>3, <3>1
  <2>5. j # 0 /\ ~(j >= start[k + 1]) /\ j \in 0..Len(t)
    BY <1>1, <1>3, <2>3, <2>4
  <2> HIDE DEF Which, At, In
  <2> QED BY <2>2, <2>5
<1>4. g[0] = 0
  <2>1. 0 \in 0..Len(t)
    BY <1>1
  <2> HIDE DEF At, Which
  <2> QED BY <2>1
<1>5. ASSUME NEW j \in 1..Len(t), j >= start[k + 1] PROVE g[j] = Len(url)
  <2>1. j \in 0..Len(t) /\ j # 0
    BY <1>1
  <2> HIDE DEF At, Which
  <2> QED BY <1>5, <2>1
<1> DEFINE s(i) == Slashes(url)[i]
<1> HIDE DEF g, G, Which
<1>6. ASSUME NEW i \in 1..k PROVE Placed(segments, start, url, g, i)
  <2> DEFINE n == Len(segments[i].text)
             e == start[i + 1] - 1
  <2>1. /\ n \in Nat /\ start[i] \in Nat /\ start[i] >= 1 /\ e \in Nat /\ start[i + 1] \in Nat
        /\ start[i] <= e /\ e < start[i + 1]
        /\ segments[i].kind = "STATIC" => e = start[i] + n
        /\ segments[i].kind # "STATIC" => e - 1 = start[i] + n
        /\ segments[i].kind \in {"STATIC", "PARAM", "CATCH_ALL"}
    <3>1. i \in 1..Len(segments)
      BY DEF k
    <3> QED BY <3>1, SegmentPlace
  <2> HIDE DEF n
  <2>2. ASSUME NEW l \in 0..n PROVE g[start[i] + l] = Slashes(url)[i] + l
    <3>1. /\ start[i] + l \in Nat /\ In(i, start[i] + l) /\ (start[i] + l) - start[i] = l
          /\ segments[i].kind = "STATIC" \/ start[i] + l < start[i + 1] - 1
      <4> DEFINE a == start[i]
      <4>1. /\ a \in Nat /\ n \in Nat /\ e \in Nat
            /\ segments[i].kind = "STATIC" => e = a + n
            /\ segments[i].kind # "STATIC" => e - 1 = a + n
        BY <2>1
      <4> HIDE DEF a, e
      <4>2. /\ l \in Nat /\ a + l \in Nat /\ (a + l) - a = l /\ a <= a + l
            /\ (e = a + n => a + l <= e) /\ (e - 1 = a + n => a + l < e /\ a + l <= e)
        BY <4>1, UpToLength
      <4>3. a <= a + l /\ a + l <= e /\ (segments[i].kind = "STATIC" \/ a + l < e)
        BY <4>1, <4>2
      <4>4. start[i + 1] \in Nat /\ e < start[i + 1]
        BY <2>1 DEF e
      <4>5. In(i, a + l)
        <5>1. e \in Nat /\ a + l \in Nat
          BY <4>1, <4>2
        <5>2. a + l < start[i + 1]
          BY <4>3, <4>4, <5>1
        <5> QED BY <4>3, <5>2 DEF a
      <4> QED BY <4>2, <4>3, <4>5 DEF a, e
    <3>2. g[start[i] + l] = At(i, start[i] + l)
      BY <1>3, <3>1
    <3> QED BY <3>1, <3>2
  <2>3. In(i, e) /\ ~(e < start[i + 1] - 1)
    BY <2>1
  <2>4. g[e] = At(i, e)
    BY <1>3, <2>1, <2>3
  <2>5. (segments[i].kind = "PARAM" => g[e] = LastOf(url, i))
        /\ (segments[i].kind = "CATCH_ALL" => g[e] = Len(url))
    BY <2>3, <2>4
  <2> QED BY <2>2, <2>5 DEF Placed, n
<1>7. DOMAIN g = 0..Len(t) /\ g = [j \in 0..Len(t) |-> g[j]]
  BY DEF g
<1>8. AllPlaced(segments, t, start, url, g)
  BY <1>4, <1>5, <1>6, <1>7 DEF k, AllPlaced
<1> QED BY <1>8

\* A URL and the text of a route of which the segments fit.
Guided(segments, t, start, url, g) ==
    /\ segments \in Seq(Segments) /\ Lays(segments, t, start) /\ CatchAllLast(segments)
    /\ url \in Seq(UrlChars) /\ Begins(url, "/")
    /\ Len(segments) <= Len(Slashes(url)) /\ g[0] = 0
    /\ \A i \in 1..Len(segments) :
          Fits(segments[i], Segment(url, i)) /\ Placed(segments, start, url, g, i)

\* Where a segment of the URL begins and ends, and what stands in it.
LEMMA GuidedSegment ==
    ASSUME NEW segments, NEW t, NEW start, NEW url, NEW g,
           Guided(segments, t, start, url, g), NEW i \in 1..Len(segments)
    PROVE  LET x == Slashes(url)[i]
               n == Len(segments[i].text)
               e == LastOf(url, i)
           IN  /\ x \in 1..Len(url) /\ url[x] = "/" /\ Len(url) \in Nat
               /\ n \in Nat /\ e \in Nat /\ x + n <= e /\ e <= Len(url)
               /\ \A p \in (x + 1)..e : url[p] # "/"
               /\ e = Len(url) \/ url[e + 1] = "/"
               /\ \A l \in 1..n : url[x + l] = segments[i].text[l]
               /\ segments[i].kind = "STATIC" => e = x + n
               /\ segments[i].kind = "PARAM" => Accepts(segments[i].re, SubSeq(url, (x + n) + 1, e))
<1> DEFINE x == Slashes(url)[i]
           e == LastOf(url, i)
           s == segments[i]
           n == Len(s.text)
<1>1. /\ segments \in Seq(Segments) /\ Lays(segments, t, start)
      /\ Len(segments) <= Len(Slashes(url)) /\ Fits(s, Segment(url, i))
      /\ url \in Seq(UrlChars)
  BY DEF Guided
<1>2. s.text \in Seq(Letters) /\ s.kind \in {"STATIC", "PARAM", "CATCH_ALL"}
  BY <1>1, SegmentPlace
<1>3. i \in 1..Len(Slashes(url))
  <2>1. Len(url) \in Nat
    BY <1>1
  <2>2. Len(Slashes(url)) \in Nat
    BY <2>1, SlashesList DEF Lists
  <2>3. Len(segments) \in Nat
    BY <1>1
  <2> QED BY <1>1, <2>2, <2>3
<1>4. /\ x \in 1..Len(url) /\ url[x] = "/" /\ e \in Nat /\ Len(url) \in Nat
      /\ x <= e /\ e <= Len(url)
      /\ \A p \in (x + 1)..e : url[p] # "/"
      /\ e = Len(url) \/ url[e + 1] = "/"
      /\ Segment(url, i) = SubSeq(url, x + 1, e)
  BY <1>1, <1>3, SegmentLies
<1>5. Fits(s, SubSeq(url, x + 1, e)) /\ x \in Nat
  BY <1>1, <1>4
<1> HIDE DEF x, e, s
<1>6. /\ n \in Nat /\ x + n <= e
      /\ \A l \in 1..n : url[x + l] = s.text[l]
      /\ s.kind = "STATIC" => e = x + n
      /\ s.kind = "PARAM" => Accepts(s.re, SubSeq(url, (x + n) + 1, e))
  BY <1>1, <1>2, <1>4, <1>5, FitsAt
<1> QED BY <1>4, <1>6 DEF x, e, s

\* A segment that is no catch-all stands for the URL's segment, to its end.
LEMMA GuidedEnd ==
    ASSUME NEW segments, NEW t, NEW start, NEW url, NEW g,
           Guided(segments, t, start, url, g), NEW i \in 1..Len(segments),
           segments[i].kind # "CATCH_ALL"
    PROVE  g[start[i + 1] - 1] = LastOf(url, i)
<1> DEFINE x == Slashes(url)[i]
           e == LastOf(url, i)
           s == segments[i]
           n == Len(s.text)
<1>1. /\ segments \in Seq(Segments) /\ Lays(segments, t, start)
      /\ \A l \in 0..n : g[start[i] + l] = x + l
      /\ s.kind = "PARAM" => g[start[i + 1] - 1] = e
  BY DEF Guided, Placed
<1>2. /\ s.kind \in {"STATIC", "PARAM", "CATCH_ALL"} /\ n \in Nat
      /\ s.kind = "STATIC" => start[i + 1] - 1 = start[i] + n
  BY <1>1, SegmentPlace
<1>3. s.kind = "STATIC" => e = x + n
  <2>1. /\ Slashes(url)[i] \in 1..Len(url)
        /\ segments[i].kind = "STATIC" =>
              LastOf(url, i) = Slashes(url)[i] + Len(segments[i].text)
    BY GuidedSegment
  <2> QED BY <2>1
<1>4. n \in 0..n
  BY <1>2
<1> HIDE DEF x, e, s, n
<1>5. g[start[i] + n] = x + n
  BY <1>1, <1>4
<1> QED BY <1>1, <1>2, <1>3, <1>5 DEF e, s

\* Before a segment the URL has been read up to the slash.
LEMMA GuidedBefore ==
    ASSUME NEW segments, NEW t, NEW start, NEW url, NEW g,
           Guided(segments, t, start, url, g),
           NEW i \in 1..(Len(segments) + 1), i <= Len(Slashes(url)),
           i = 1 \/ segments[i - 1].kind # "CATCH_ALL"
    PROVE  Slashes(url)[i] \in 1..Len(url) /\ g[start[i] - 1] = Slashes(url)[i] - 1
<1>1. /\ segments \in Seq(Segments) /\ Lays(segments, t, start) /\ g[0] = 0 /\ start[1] = 1
      /\ url \in Seq(UrlChars) /\ url # <<>> /\ url[1] = "/"
  BY DEF Guided, Lays, LaysTo, Begins
<1>2. Len(url) \in Nat /\ Len(url) > 0 /\ Len(segments) \in Nat
  BY <1>1
<1>3. Slashes(url)[1] = 1 /\ Len(Slashes(url)) \in Nat
  <2>1. Slashes(url)[1] = 1
    BY <1>1, <1>2, SlashFirst
  <2>2. Len(Slashes(url)) \in Nat
    BY <1>2, SlashesList DEF Lists
  <2> QED BY <2>1, <2>2
<1>4. i \in 1..Len(Slashes(url))
  BY <1>2, <1>3
<1>5. Slashes(url)[i] \in 1..Len(url)
  BY <1>1, <1>4, SegmentLies
<1>6. CASE i = 1
  <2>1. start[i] - 1 = 0 /\ Slashes(url)[i] - 1 = 0
    BY <1>1, <1>3, <1>6
  <2> QED BY <1>1, <1>5, <2>1
<1>7. CASE i # 1
  <2>1. i - 1 \in 1..Len(segments) /\ (i - 1) + 1 = i
    BY <1>2, <1>7
  <2>2. segments[i - 1].kind # "CATCH_ALL"
    BY <1>7
  <2>3. g[start[(i - 1) + 1] - 1] = LastOf(url, i - 1)
    <3> DEFINE h == i - 1
    <3>1. h \in 1..Len(segments) /\ segments[h].kind # "CATCH_ALL"
      BY <2>1, <2>2
    <3> HIDE DEF h
    <3>2. g[start[h + 1] - 1] = LastOf(url, h)
      BY <3>1, GuidedEnd
    <3> QED BY <3>2 DEF h
  <2>4. LastOf(url, i - 1) = Slashes(url)[i] - 1
    <3>1. i - 1 # Len(Slashes(url))
      BY <1>3, <1>4
    <3> QED BY <2>1, <3>1 DEF LastOf
  <2> QED BY <1>5, <2>1, <2>3, <2>4
<1> QED BY <1>6, <1>7

\* What is left of a parameter's pattern to accept: nothing.
AcceptsAt(t, url, g, j) == t[j].kind = "PARAM" => Accepts(t[j].re, Taken(url, g, j))

\* Every symbol of a segment stands for its part of the URL, and every
\* pattern accepts it.
LEMMA GuidedStands ==
    ASSUME NEW segments, NEW t, NEW start, NEW url, NEW g,
           Guided(segments, t, start, url, g),
           NEW i \in 1..Len(segments), NEW j \in Nat, start[i] <= j, j < start[i + 1]
    PROVE  g[j] \in 0..Len(url) /\ Stands(t, url, g, j) /\ AcceptsAt(t, url, g, j)
<1> DEFINE x == Slashes(url)[i]
           e == LastOf(url, i)
           s == segments[i]
           n == Len(s.text)
<1>1. /\ segments \in Seq(Segments) /\ Lays(segments, t, start) /\ CatchAllLast(segments)
      /\ Len(segments) \in Nat /\ Len(segments) <= Len(Slashes(url))
      /\ \A l \in 0..n : g[start[i] + l] = x + l
      /\ s.kind = "PARAM" => g[start[i + 1] - 1] = e
      /\ s.kind = "CATCH_ALL" => g[start[i + 1] - 1] = Len(url)
  <2>1. /\ segments \in Seq(Segments) /\ Lays(segments, t, start) /\ CatchAllLast(segments)
        /\ Len(segments) <= Len(Slashes(url)) /\ Placed(segments, start, url, g, i)
    BY DEF Guided
  <2>2. /\ \A l \in 0..n : g[start[i] + l] = x + l
        /\ s.kind = "PARAM" => g[start[i + 1] - 1] = e
        /\ s.kind = "CATCH_ALL" => g[start[i + 1] - 1] = Len(url)
    BY <2>1 DEF Placed
  <2> QED BY <2>1, <2>2
<1>2. /\ x \in 1..Len(url) /\ url[x] = "/" /\ Len(url) \in Nat
      /\ n \in Nat /\ e \in Nat /\ x + n <= e /\ e <= Len(url)
      /\ \A p \in (x + 1)..e : url[p] # "/"
      /\ e = Len(url) \/ url[e + 1] = "/"
      /\ \A l \in 1..n : url[x + l] = s.text[l]
      /\ s.kind = "STATIC" => e = x + n
      /\ s.kind = "PARAM" => Accepts(s.re, SubSeq(url, (x + n) + 1, e))
  BY GuidedSegment
<1>3. /\ s.text \in Seq(Letters) /\ start[i] \in Nat /\ start[i] >= 1 /\ start[i + 1] \in Nat
      /\ s.kind \in {"STATIC", "PARAM", "CATCH_ALL"}
      /\ s.kind # "STATIC" =>
            (start[i + 1] - 1) - 1 = start[i] + n /\ t[start[i + 1] - 1] = Wildcard(s)
  BY <1>1, SegmentPlace
<1>4. \/ j = start[i] /\ t[j] = Character("/")
      \/ \E l \in 1..n : j = start[i] + l /\ t[j] = Character(s.text[l])
      \/ j = start[i + 1] - 1 /\ s.kind # "STATIC" /\ t[j] = Wildcard(s)
  <2>1. segments \in Seq(Segments) /\ Lays(segments, t, start)
    BY <1>1
  <2>2. \/ j = start[i] /\ t[j] = Character("/")
        \/ \E l \in 1..Len(segments[i].text) :
              /\ j = start[i] + l /\ t[j] = Character(segments[i].text[l])
              /\ segments[i].text[l] \in Letters
        \/ /\ j = start[i + 1] - 1 /\ segments[i].kind # "STATIC"
           /\ t[j] = Wildcard(segments[i])
    BY ONLY <2>1, i \in 1..Len(segments), j \in Nat, start[i] <= j, j < start[i + 1], SymbolIs
  <2> QED BY <2>2
<1>5. ASSUME t[j].kind = "STATIC", g[j] \in 1..Len(url), g[j] = g[j - 1] + 1, url[g[j]] = t[j].char
      PROVE  g[j] \in 0..Len(url) /\ Stands(t, url, g, j) /\ AcceptsAt(t, url, g, j)
  BY <1>2, <1>5 DEF Stands, AcceptsAt
<1> HIDE DEF x, e, s, n
<1>6. CASE j = start[i] /\ t[j] = Character("/")
  <2>1. g[j] = x
    <3>1. 0 \in 0..n /\ start[i] + 0 = start[i] /\ x + 0 = x
      BY <1>2, <1>3
    <3>2. g[start[i] + 0] = x + 0
      BY <1>1, <3>1
    <3> QED BY <1>6, <3>1, <3>2
  <2>2. g[j - 1] = x - 1
    <3>1. i \in 1..(Len(segments) + 1) /\ i <= Len(Slashes(url))
      <4>1. Len(Slashes(url)) \in Nat
        BY <1>2, SlashesList DEF Lists
      <4> QED BY <1>1, <4>1
    <3>2. i = 1 \/ segments[i - 1].kind # "CATCH_ALL"
      <4>1. i # 1 => i - 1 \in 1..Len(segments) /\ i - 1 # Len(segments)
        BY <1>1
      <4> QED BY <1>1, <4>1 DEF CatchAllLast
    <3>3. g[start[i] - 1] = Slashes(url)[i] - 1
      BY <3>1, <3>2, GuidedBefore
    <3> QED BY <1>6, <3>3 DEF x
  <2>3. t[j].kind = "STATIC" /\ t[j].char = "/"
    BY <1>6, SymbolFields
  <2> QED BY <1>2, <1>5, <2>1, <2>2, <2>3
<1>7. CASE \E l \in 1..n : j = start[i] + l /\ t[j] = Character(s.text[l])
  <2>1. PICK l \in 1..n : j = start[i] + l /\ t[j] = Character(s.text[l])
    BY <1>7
  <2>2. l \in 0..n /\ l - 1 \in 0..n /\ j - 1 = start[i] + (l - 1) /\ l \in Nat /\ l <= n
    BY <1>2, <1>3, <2>1, SMTT(40)
  <2>3. g[j] = x + l /\ g[j - 1] = x + (l - 1)
    BY <1>1, <2>1, <2>2
  <2>4. t[j].kind = "STATIC" /\ t[j].char = s.text[l]
    BY <2>1, SymbolFields
  <2>5. url[x + l] = s.text[l]
    BY <1>2
  <2>6. x + l \in 1..Len(url) /\ x + l = (x + (l - 1)) + 1
    BY <1>2, <2>2
  <2> QED BY <1>5, <2>3, <2>4, <2>5, <2>6
<1>8. CASE j = start[i + 1] - 1 /\ s.kind # "STATIC" /\ t[j] = Wildcard(s)
  <2>1. t[j].kind = s.kind /\ (s.kind = "PARAM" => t[j].re = s.re)
    BY <1>8, SymbolFields
  <2>2. g[j - 1] = x + n
    <3>1. n \in 0..n /\ j - 1 = start[i] + n
      BY <1>2, <1>3, <1>8
    <3> QED BY <1>1, <3>1
  <2>3. CASE s.kind = "CATCH_ALL"
    <3>1. g[j] = Len(url)
      BY <1>1, <1>8, <2>3
    <3>2. x + n <= Len(url)
      BY <1>2
    <3> QED BY <1>2, <2>1, <2>2, <2>3, <3>1, <3>2 DEF Stands, AcceptsAt
  <2>4. CASE s.kind = "PARAM"
    <3>1. g[j] = e
      BY <1>1, <1>8, <2>4
    <3>2. \A p \in (g[j - 1] + 1)..g[j] : url[p] # "/"
      <4>1. \A p \in ((x + n) + 1)..e : p \in (x + 1)..e
        BY <1>2
      <4> QED BY <1>2, <2>2, <3>1, <4>1
    <3>3. Accepts(t[j].re, Taken(url, g, j))
      BY <1>2, <2>1, <2>2, <2>4, <3>1 DEF Taken
    <3> QED BY <1>2, <2>1, <2>2, <2>4, <3>1, <3>2, <3>3 DEF Stands, AcceptsAt
  <2> QED BY <1>3, <1>8, <2>3, <2>4
<1> QED BY <1>4, <1>6, <1>7, <1>8

\* The URL is what the whole of t stands for, and the patterns accept it.
Leads(t, url, g) ==
    /\ Follows(t, url, g) /\ g[Len(t)] = Len(url)
    /\ \A j \in 1..Len(t) : AcceptsAt(t, url, g, j)

\* A URL that a route matches, segment by segment, is what the text of the
\* route stands for.
LEMMA MatchLeads ==
    ASSUME NEW route \in Routes, Ordinary, NEW t, Spells(route, t),
           NEW url \in Seq(UrlChars), Begins(url, "/"), Matches(route, url)
    PROVE  \E g : Leads(t, url, g)
<1> DEFINE segments == route.segments
           k == Len(segments)
           m == Len(Slashes(url))
           n == Len(url)
           slash == route.slash /\ ~EndsInCatchAll(route)
<1>1. PICK start : Lays(segments, t, start) /\ Ends(t, start[k + 1] - 1, slash)
  BY DEF Spells
<1> DEFINE z == start[k + 1] - 1
<1>2. /\ segments \in Seq(Segments) /\ CatchAllLast(segments) /\ route.slash \in BOOLEAN
      /\ k \in Nat /\ (segments # <<>> \/ route.slash)
      /\ EndsInCatchAll(route) <=> k > 0 /\ segments[k].kind = "CATCH_ALL"
  BY RouteIs
<1>3. n \in Nat /\ m \in Nat /\ n > 0
  <2>1. n \in Nat /\ n > 0
    BY DEF Begins
  <2> QED BY <2>1, SlashesList DEF Lists
<1>4. /\ \A i \in 1..k : i <= m /\ Fits(segments[i], Segment(url, i))
      /\ \/ EndsInCatchAll(route)
         \/ ~route.slash /\ m = k
         \/ route.slash /\ m = k + 1 /\ Segment(url, m) = <<>>
  BY DEF Matches
<1>5. k <= m
  <2>1. k = 0 \/ k \in 1..k
    BY <1>2
  <2> QED BY <1>3, <1>4, <2>1
<1>6. PICK g : AllPlaced(segments, t, start, url, g)
  <2>1. \E g : AllPlaced(segments, t, start, url, g)
    <3> HIDE DEF segments
    <3> QED BY <1>1, <1>2, PlacesAre
  <2> QED BY <2>1
<1>61. /\ DOMAIN g = 0..Len(t) /\ g = [j \in 0..Len(t) |-> g[j]] /\ g[0] = 0
       /\ \A i \in 1..k : Placed(segments, start, url, g, i)
       /\ \A j \in 1..Len(t) : j >= start[k + 1] => g[j] = n
  BY <1>6 DEF AllPlaced
<1>7. Guided(segments, t, start, url, g)
  BY <1>1, <1>2, <1>4, <1>5, <1>61 DEF Guided
<1>8. /\ Len(t) \in Nat /\ start[1] = 1
      /\ \A i \in 1..(k + 1) : start[i] \in Nat /\ start[i] >= 1 /\ start[i] <= Len(t) + 1
      /\ \A j \in 1..(start[k + 1] - 1) : \E i \in 1..k : start[i] <= j /\ j < start[i + 1]
  <2>1. start[1] = 1
    BY <1>1 DEF Lays, LaysTo
  <2> QED BY <1>1, <1>2, <2>1, LaysOut
<1>9. start[k + 1] \in Nat /\ start[k + 1] >= 1 /\ z \in Nat /\ start[k + 1] = z + 1
  <2>1. k + 1 \in 1..(k + 1)
    BY <1>2
  <2>2. start[k + 1] \in Nat /\ start[k + 1] >= 1
    BY <1>8, <2>1
  <2> QED BY <2>2
<1>10. IF slash THEN Len(t) = z + 1 /\ t[z + 1] = Character("/") ELSE Len(t) = z
  BY <1>1 DEF Ends
<1> HIDE DEF slash, k, m, n, z, segments
<1>11. ASSUME k > 0, segments[k].kind # "CATCH_ALL" PROVE g[z] = LastOf(url, k)
  <2>1. k \in 1..Len(segments)
    BY <1>2, <1>11 DEF k
  <2>2. g[start[k + 1] - 1] = LastOf(url, k)
    BY <1>7, <1>11, <2>1, GuidedEnd
  <2> QED BY <2>2 DEF z
<1>12. ASSUME ~slash PROVE Len(t) = z /\ g[z] = n
  <2>1. Len(t) = z
    BY <1>10, <1>12
  <2>2. CASE EndsInCatchAll(route)
    <3>1. k \in 1..k /\ segments[k].kind = "CATCH_ALL"
      BY <1>2, <2>2
    <3>2. g[start[k + 1] - 1] = Len(url)
      BY <1>61, <3>1 DEF Placed
    <3> QED BY <2>1, <3>2 DEF z, n
  <2>3. CASE ~EndsInCatchAll(route)
    <3>1. ~route.slash /\ m = k /\ k > 0
      <4>1. ~route.slash /\ m = k
        BY <1>2, <1>4, <1>12, <2>3 DEF slash
      <4>2. segments # <<>>
        BY <1>2, <4>1
      <4> QED BY <1>2, <4>1, <4>2 DEF k
    <3>2. g[z] = LastOf(url, k)
      BY <1>2, <1>11, <2>3, <3>1
    <3> QED BY <2>1, <3>1, <3>2 DEF LastOf, m, n
  <2> QED BY <2>2, <2>3
<1>13. ASSUME slash PROVE Len(t) = z + 1 /\ g[z + 1] = n /\ g[z] = n - 1 /\ url[n] = "/"
  <2>1. Len(t) = z + 1
    BY <1>10, <1>13
  <2>2. g[z + 1] = n
    <3>1. z + 1 \in 1..Len(t) /\ z + 1 >= start[k + 1]
      BY <1>9, <2>1
    <3> QED BY <1>61, <3>1
  <2>3. m = k + 1 /\ Segment(url, m) = <<>>
    BY <1>2, <1>4, <1>13 DEF slash
  <2>4. /\ Slashes(url)[m] \in 1..n /\ url[Slashes(url)[m]] = "/"
        /\ Segment(url, m) = SubSeq(url, Slashes(url)[m] + 1, n)
    <3>1. m \in 1..Len(Slashes(url)) /\ LastOf(url, m) = n
      BY <1>2, <2>3, <1>3 DEF m, n, LastOf
    <3>2. /\ Slashes(url)[m] \in 1..Len(url) /\ url[Slashes(url)[m]] = "/"
          /\ Segment(url, m) = SubSeq(url, Slashes(url)[m] + 1, LastOf(url, m))
      BY <3>1, SegmentLies
    <3> QED BY <3>1, <3>2 DEF n
  <2>5. Slashes(url)[m] = n
    <3> DEFINE x == Slashes(url)[m]
    <3>1. x \in Nat /\ x <= n /\ n <= Len(url)
      BY <1>3, <2>4 DEF n
    <3>2. Len(SubSeq(url, x + 1, n)) = n - x
      <4> HIDE DEF x
      <4> QED BY <1>3, <3>1, PieceIs
    <3>3. n - x = 0
      <4>1. SubSeq(url, x + 1, n) = <<>>
        BY <2>3, <2>4
      <4> HIDE DEF x
      <4> QED BY <3>2, <4>1
    <3> QED BY <1>3, <3>1, <3>3
  <2>6. g[z] = n - 1
    <3>1. k + 1 \in 1..(Len(segments) + 1) /\ k + 1 <= Len(Slashes(url))
      BY <1>2, <2>3 DEF k, m
    <3>2. k + 1 = 1 \/ segments[(k + 1) - 1].kind # "CATCH_ALL"
      BY <1>2, <1>13 DEF slash
    <3> DEFINE i == k + 1
    <3> HIDE DEF i
    <3>3. i \in 1..(Len(segments) + 1) /\ i <= Len(Slashes(url))
          /\ (i = 1 \/ segments[i - 1].kind # "CATCH_ALL")
      BY <3>1, <3>2 DEF i
    <3>4. g[start[i] - 1] = Slashes(url)[i] - 1
      BY <1>7, <3>3, GuidedBefore
    <3> QED BY <2>3, <2>5, <3>4 DEF i, z
  <2> QED BY <2>1, <2>2, <2>4, <2>5, <2>6
<1>14. g[Len(t)] = n
  BY <1>12, <1>13
<1>15. ASSUME NEW j \in 1..Len(t)
       PROVE  g[j] \in 0..Len(url) /\ Stands(t, url, g, j) /\ AcceptsAt(t, url, g, j)
  <2>1. CASE j <= z
    <3>1. j \in Nat /\ j \in 1..(start[k + 1] - 1)
      BY <1>8, <1>9, <2>1
    <3>2. PICK i \in 1..k : start[i] <= j /\ j < start[i + 1]
      BY <1>8, <3>1
    <3>3. i \in 1..Len(segments)
      BY DEF k
    <3> QED BY <1>7, <3>1, <3>2, <3>3, GuidedStands
  <2>2. CASE ~(j <= z)
    <3>1. slash /\ j = z + 1
      BY <1>8, <1>9, <1>12, <1>13, <2>2
    <3>2. t[j].kind = "STATIC" /\ t[j].char = "/"
      BY <1>10, <3>1, SymbolFields
    <3>3. g[j] = n /\ g[j - 1] = n - 1 /\ url[n] = "/"
      BY <1>9, <1>13, <3>1
    <3>4. g[j] = g[j - 1] + 1 /\ url[g[j]] = t[j].char /\ g[j] \in 0..n
      BY <1>3, <3>2, <3>3
    <3> QED BY <3>2, <3>4 DEF Stands, AcceptsAt, n
  <2> QED BY <2>1, <2>2
<1>16. g \in [0..Len(t) -> 0..Len(url)]
  <2>1. ASSUME NEW j \in 0..Len(t) PROVE g[j] \in 0..Len(url)
    <3>1. j = 0 \/ j \in 1..Len(t)
      BY <1>8
    <3>2. 0 \in 0..Len(url)
      BY <1>3 DEF n
    <3> QED BY <1>61, <1>15, <3>1, <3>2
  <2> QED BY <1>61, <2>1
<1>17. Follows(t, url, g)
  <2>1. \A j \in 1..Len(t) : Stands(t, url, g, j)
    BY <1>15
  <2> QED BY <1>61, <1>16, <2>1 DEF Follows, Stands
<1> QED BY <1>14, <1>15, <1>17 DEF Leads, n

(***************************************************************************)
(* What hangs below a node.                                                *)
(***************************************************************************)

\* What a set of nodes points to is in the set.
ClosedUnder(t, R) ==
    \A k \in R : \A i \in DOMAIN t[k].children : t[k].children[i] \in R

\* Node n is a, or hangs below it: it is in every such set that a is in.
Below(t, a, n) == \A R \in SUBSET (DOMAIN t) : a \in R /\ ClosedUnder(t, R) => n \in R

\* Every node hangs below the root.
Connected(t) == \A n \in DOMAIN t : Below(t, 1, n)

\* What hangs below a node, and is another, hangs below one of its children.
LEMMA BelowChild ==
    ASSUME NEW t, Closed(t), NEW a \in DOMAIN t, NEW n, Below(t, a, n), n # a
    PROVE  \E i \in DOMAIN t[a].children : Below(t, t[a].children[i], n)
<1> SUFFICES ASSUME \A i \in DOMAIN t[a].children : ~Below(t, t[a].children[i], n)
             PROVE  FALSE
  OBVIOUS
<1> DEFINE Without == {R \in SUBSET (DOMAIN t) : ClosedUnder(t, R) /\ n \notin R}
           U == UNION Without
           V == U \cup {a}
<1>1. U \in SUBSET (DOMAIN t) /\ n \notin U
  OBVIOUS
<1>2. ASSUME NEW k \in U, NEW i \in DOMAIN t[k].children PROVE t[k].children[i] \in U
  <2>1. PICK R \in Without : k \in R
    BY <1>2
  <2>2. t[k].children[i] \in R
    BY <1>2, <2>1 DEF ClosedUnder
  <2> QED BY <2>1, <2>2
<1>3. ASSUME NEW i \in DOMAIN t[a].children PROVE t[a].children[i] \in U
  <2>1. ~Below(t, t[a].children[i], n)
    BY <1>3
  <2>2. PICK R \in SUBSET (DOMAIN t) : t[a].children[i] \in R /\ ClosedUnder(t, R) /\ n \notin R
    BY <2>1 DEF Below
  <2> QED BY <2>2
<1> HIDE DEF U
<1>4. V \in SUBSET (DOMAIN t) /\ n \notin V /\ a \in V
  BY <1>1
<1>5. ClosedUnder(t, V)
  BY <1>2, <1>3 DEF ClosedUnder
<1> QED BY <1>4, <1>5 DEF Below

\* The text that a node ends.
TextOf(t, b, n) == b[n] \o Own(t[n])

\* Text u is the beginning of text w.
Heads(u, w) == Len(u) <= Len(w) /\ \A j \in 1..Len(u) : w[j] = u[j]

\* A text is the beginning of a longer one.
LEMMA HeadsJoined ==
    ASSUME NEW u \in Seq(Symbols), NEW w \in Seq(Symbols)
    PROVE  Heads(u, u \o w) /\ u \o w \in Seq(Symbols)
<1>1. /\ u \o w \in Seq(Symbols) /\ Len(u \o w) = Len(u) + Len(w)
      /\ Len(u) \in Nat /\ Len(w) \in Nat
      /\ \A j \in 1..Len(u) : (u \o w)[j] = u[j]
  BY Joining
<1> QED BY <1>1 DEF Heads

\* And of one that is longer still.
LEMMA HeadsFar ==
    ASSUME NEW u \in Seq(Symbols), NEW v \in Seq(Symbols), NEW w \in Seq(Symbols),
           Heads(u, v), Heads(v, w)
    PROVE  Heads(u, w)
<1>1. Len(u) \in Nat /\ Len(v) \in Nat /\ Len(w) \in Nat
  OBVIOUS
<1>2. \A j \in 1..Len(u) : j \in 1..Len(v)
  BY <1>1 DEF Heads
<1> QED BY <1>1, <1>2 DEF Heads

\* What the nodes of a labelled tree stand for.
LEMMA TextsAre ==
    ASSUME NEW t \in Seq(NodeSet), NEW b, NEW reg, Labels(t, b, reg), NEW n \in DOMAIN t
    PROVE  /\ b[n] \in Seq(Symbols) /\ t[n] \in NodeSet /\ Own(t[n]) \in Seq(Symbols)
           /\ TextOf(t, b, n) \in Seq(Symbols)
           /\ \A i \in DOMAIN t[n].children : b[t[n].children[i]] = TextOf(t, b, n)
           /\ t[n].handle # 0 => Spells(reg[t[n].handle], TextOf(t, b, n))
<1>1. LabelFits(t, b, reg, n) /\ t[n] \in NodeSet
  BY DEF Labels
<1>2. b[n] \in Seq(Symbols) /\ Own(t[n]) \in Seq(Symbols)
  BY <1>1, OwnIs DEF LabelFits
<1>3. TextOf(t, b, n) \in Seq(Symbols)
  BY <1>2, Joining DEF TextOf
<1> QED BY <1>1, <1>2, <1>3 DEF LabelFits, TextOf

\* A node's text begins like that of every node above it.
LEMMA BelowText ==
    ASSUME NEW t \in Seq(NodeSet), Closed(t), NEW b, NEW reg, Labels(t, b, reg),
           NEW a \in DOMAIN t, NEW n \in DOMAIN t, Below(t, a, n)
    PROVE  Heads(TextOf(t, b, a), TextOf(t, b, n))
<1> DEFINE z == TextOf(t, b, a)
           R == {k \in DOMAIN t : Heads(z, TextOf(t, b, k))}
<1>1. a \in R
  BY TextsAre DEF Heads
<1>2. ASSUME NEW k \in R, NEW i \in DOMAIN t[k].children PROVE t[k].children[i] \in R
  <2> DEFINE c == t[k].children[i]
  <2>1. k \in DOMAIN t /\ c \in DOMAIN t
    BY DEF Closed
  <2>2. /\ TextOf(t, b, k) \in Seq(Symbols) /\ b[c] = TextOf(t, b, k)
        /\ Own(t[c]) \in Seq(Symbols) /\ z \in Seq(Symbols) /\ TextOf(t, b, c) \in Seq(Symbols)
    BY <2>1, TextsAre
  <2>3. Heads(TextOf(t, b, k), TextOf(t, b, c))
    <3>1. TextOf(t, b, c) = TextOf(t, b, k) \o Own(t[c])
      BY <2>2 DEF TextOf
    <3> QED BY <2>2, <3>1, HeadsJoined
  <2>4. Heads(z, TextOf(t, b, c))
    <3> HIDE DEF z, c
    <3> QED BY <2>2, <2>3, HeadsFar
  <2> QED BY <2>1, <2>4
<1>3. R \in SUBSET (DOMAIN t) /\ ClosedUnder(t, R)
  BY <1>2 DEF ClosedUnder
<1> QED BY <1>1, <1>3 DEF Below

(***************************************************************************)
(* A tree that is linked.                                                  *)
(***************************************************************************)

\* A tree stays connected when what hung below a node still does, and what is
\* new hangs below it, too.
LEMMA ConnectedGrows ==
    ASSUME NEW t, Closed(t), Connected(t), 1 \in DOMAIN t,
           NEW t2, DOMAIN t \subseteq DOMAIN t2,
           \A R \in SUBSET (DOMAIN t2) : ClosedUnder(t2, R) =>
              \A k \in R \cap DOMAIN t : \A i \in DOMAIN t[k].children : t[k].children[i] \in R,
           \A R \in SUBSET (DOMAIN t2) :
              ClosedUnder(t2, R) /\ DOMAIN t \subseteq R => DOMAIN t2 \subseteq R
    PROVE  Connected(t2)
<1> SUFFICES ASSUME NEW n \in DOMAIN t2, NEW R \in SUBSET (DOMAIN t2), 1 \in R, ClosedUnder(t2, R)
             PROVE  n \in R
  BY DEF Connected, Below
<1> DEFINE Q == R \cap DOMAIN t
<1>1. ClosedUnder(t, Q)
  BY DEF ClosedUnder, Closed
<1>2. Q \in SUBSET (DOMAIN t) /\ 1 \in Q
  OBVIOUS
<1>3. DOMAIN t \subseteq Q
  BY <1>1, <1>2 DEF Connected, Below
<1> QED BY <1>3

\* Node k hangs under a parameter.
UnderParam(t, k) ==
    \E n \in DOMAIN t : t[n].path = <<":">> /\ \E i \in DOMAIN t[n].children : t[n].children[i] = k

\* A node that has a catch-all under it keeps the slash in its indices.
Slashing(t, k) ==
    t[k].wild /\ t[t[k].children[1]].type = "CATCH_ALL" => t[k].indices = <<"/">>

\* Every node hangs below the root, no index is a colon, and the node under a
\* parameter that has a catch-all under it has the slash as its index.
Linked(t) ==
    /\ Connected(t) /\ \A n \in DOMAIN t : Colonless(t[n].indices)
    /\ \A k \in DOMAIN t : UnderParam(t, k) => Slashing(t, k)

\* A node that has a wildcard has a child.
Hangs(t) == \A n \in DOMAIN t : t[n].wild => 1 \in DOMAIN t[n].children

\* In a tree of the right shape it has.
LEMMA ShapedHangs ==
    ASSUME NEW t \in Seq(NodeSet), NEW f, NEW p, WellShaped(t, f, p) PROVE Hangs(t)
<1> SUFFICES ASSUME NEW n \in DOMAIN t, t[n].wild PROVE 1 \in DOMAIN t[n].children
  BY DEF Hangs
<1>1. Len(t[n].children) = 1
  BY DEF WellShaped, NodeFits, WildFits
<1>2. t[n] \in NodeSet
  OBVIOUS
<1> QED BY <1>1, <1>2, NodeTypes

\* A step that touches node a and adds others.
TouchesOne(t, t2, a) ==
    /\ Closed(t) /\ Hangs(t) /\ a \in DOMAIN t /\ DOMAIN t \subseteq DOMAIN t2
    /\ \A k \in DOMAIN t : k # a => t2[k] = t[k]
    /\ t2[a].type = "CATCH_ALL" => \A k \in DOMAIN t : t[k].wild => t[k].children[1] # a

\* It changes nothing for the other nodes.
LEMMA SlashingStays ==
    ASSUME NEW t, NEW t2, NEW a, TouchesOne(t, t2, a), NEW k \in DOMAIN t, k # a, Slashing(t, k)
    PROVE  Slashing(t2, k)
<1> DEFINE c == t[k].children[1]
<1>1. t2[k] = t[k]
  BY DEF TouchesOne
<1> SUFFICES ASSUME t[k].wild, t2[c].type = "CATCH_ALL" PROVE t[k].indices = <<"/">>
  BY <1>1 DEF Slashing
<1>2. c \in DOMAIN t
  BY DEF TouchesOne, Hangs, Closed
<1>3. c # a
  BY DEF TouchesOne
<1>4. t2[c] = t[c]
  BY <1>2, <1>3 DEF TouchesOne
<1> QED BY <1>4 DEF Slashing

\* A step that touches a node, and adds others, links the tree if it links those.
LEMMA LinkedOthers ==
    ASSUME NEW t, Linked(t), 1 \in DOMAIN t, NEW t2, NEW a, TouchesOne(t, t2, a),
           \A R \in SUBSET (DOMAIN t2) : ClosedUnder(t2, R) /\ a \in R =>
              \A i \in DOMAIN t[a].children : t[a].children[i] \in R,
           \A R \in SUBSET (DOMAIN t2) :
              ClosedUnder(t2, R) /\ DOMAIN t \subseteq R => DOMAIN t2 \subseteq R,
           \A n \in DOMAIN t2 : (n \in DOMAIN t /\ n # a) \/ Colonless(t2[n].indices),
           \A k \in DOMAIN t2 : UnderParam(t2, k) =>
              (k \in DOMAIN t /\ k # a /\ UnderParam(t, k)) \/ Slashing(t2, k)
    PROVE  Linked(t2)
<1>1. /\ Closed(t) /\ DOMAIN t \subseteq DOMAIN t2
      /\ \A k \in DOMAIN t : k # a => t2[k] = t[k]
  BY DEF TouchesOne
<1>2. ASSUME NEW R \in SUBSET (DOMAIN t2), ClosedUnder(t2, R), NEW k \in R \cap DOMAIN t,
             NEW i \in DOMAIN t[k].children
      PROVE  t[k].children[i] \in R
  <2>1. CASE k = a
    BY <1>2, <2>1
  <2>2. CASE k # a
    BY <1>1, <1>2, <2>2 DEF ClosedUnder
  <2> QED BY <2>1, <2>2
<1>3. Connected(t2)
  <2>1. Connected(t)
    BY DEF Linked
  <2> QED BY <1>1, <1>2, <2>1, ConnectedGrows
<1>4. \A n \in DOMAIN t2 : Colonless(t2[n].indices)
  BY <1>1 DEF Linked
<1>5. \A k \in DOMAIN t2 : UnderParam(t2, k) => Slashing(t2, k)
  BY SlashingStays DEF Linked
<1> QED BY <1>3, <1>4, <1>5 DEF Linked

\* A node that is cut.
LEMMA LinkedHalves ==
    ASSUME NEW t \in Seq(NodeSet), NEW t2, NEW a \in DOMAIN t, NEW i \in 1..(Len(t[a].path) - 1),
           Halves(t, t2, a, i), Closed(t), Hangs(t), Colonless(t[a].path), Linked(t),
           1 \in DOMAIN t
    PROVE  /\ Linked(t2)
           /\ \A k \in DOMAIN t2 : UnderParam(t2, k) => k \in DOMAIN t /\ UnderParam(t, k)
<1> DEFINE new == Len(t) + 1
           old == t[a]
<1>1. /\ DOMAIN t2 = 1..new /\ DOMAIN t = 1..Len(t) /\ Len(t) \in Nat
      /\ \A n \in DOMAIN t : n # a => t2[n] = t[n]
      /\ t2[a].path[1] = old.path[1] /\ t2[a].type = "STATIC" /\ ~t2[a].wild
      /\ Len(t2[a].indices) = 1 /\ t2[a].indices[1] = old.path[i + 1]
      /\ t2[a].children[1] = new /\ DOMAIN t2[a].children = 1..1
      /\ Begins(t2[new].path, old.path[i + 1]) /\ t2[new].type = old.type
      /\ t2[new].wild = old.wild /\ t2[new].indices = old.indices
      /\ t2[new].children = old.children
  BY DEF Halves
<1>2. old.path[1] # ":" /\ old.path[i + 1] # ":"
  <2>1. old \in NodeSet
    OBVIOUS
  <2>2. Len(old.path) \in Nat
    BY <2>1, NodeTypes
  <2>3. 1 \in 1..Len(old.path) /\ i + 1 \in 1..Len(old.path)
    BY <2>2
  <2> QED BY <2>3 DEF Colonless
<1>3. t2[a].path # <<":">> /\ t2[new].path # <<":">>
  BY <1>1, <1>2 DEF Begins
<1>4. new \notin DOMAIN t /\ new \in DOMAIN t2 /\ DOMAIN t \subseteq DOMAIN t2
      /\ \A k \in DOMAIN t2 : k \in DOMAIN t \/ k = new
  BY <1>1
<1> HIDE DEF new, old
<1>5. ASSUME NEW k \in DOMAIN t2, UnderParam(t2, k) PROVE k \in DOMAIN t /\ UnderParam(t, k)
  <2>1. PICK n \in DOMAIN t2 : /\ t2[n].path = <<":">>
                               /\ \E j \in DOMAIN t2[n].children : t2[n].children[j] = k
    BY <1>5 DEF UnderParam
  <2>2. n \in DOMAIN t /\ t2[n] = t[n]
    BY <1>1, <1>3, <1>4, <2>1
  <2> QED BY <2>1, <2>2 DEF UnderParam, Closed
<1>6. TouchesOne(t, t2, a)
  BY <1>1, <1>4 DEF TouchesOne
<1>7. ASSUME NEW R \in SUBSET (DOMAIN t2), ClosedUnder(t2, R), a \in R
      PROVE  new \in R /\ \A j \in DOMAIN t[a].children : t[a].children[j] \in R
  <2>1. new \in R
    BY <1>1, <1>7 DEF ClosedUnder
  <2> QED BY <1>1, <1>7, <2>1 DEF ClosedUnder, old
<1>8. ASSUME NEW R \in SUBSET (DOMAIN t2), ClosedUnder(t2, R), DOMAIN t \subseteq R
      PROVE  DOMAIN t2 \subseteq R
  BY <1>4, <1>7, <1>8
<1>9. Colonless(t2[a].indices) /\ Colonless(t2[new].indices)
  <2>1. Colonless(t2[a].indices)
    BY <1>1, <1>2 DEF Colonless
  <2> QED BY <1>1, <2>1 DEF Linked, old
<1>10. Slashing(t2, a)
  BY <1>1 DEF Slashing
<1>11. Linked(t2)
  BY <1>4, <1>5, <1>6, <1>7, <1>8, <1>9, <1>10, LinkedOthers
<1> QED BY <1>5, <1>11

\* The text that ends at a node with text of its own ends in a character; at a
\* parameter, in a wildcard.
LEMMA TextEnds ==
    ASSUME NEW t \in Seq(NodeSet), NEW b, NEW reg, Labels(t, b, reg), NEW n \in DOMAIN t,
           t[n].path # <<>>
    PROVE  LET z == TextOf(t, b, n)
           IN  z[Len(z)].kind = (IF t[n].path = <<":">> THEN "PARAM" ELSE "STATIC")
<1> DEFINE z == TextOf(t, b, n)
           p == t[n].path
           o == Own(t[n])
<1>1. /\ b[n] \in Seq(Symbols) /\ o \in Seq(Symbols) /\ t[n] \in NodeSet
      /\ LabelFits(t, b, reg, n)
  BY TextsAre DEF Labels
<1>2. /\ Len(z) = Len(b[n]) + Len(o) /\ Len(b[n]) \in Nat /\ Len(o) \in Nat
      /\ \A j \in 1..Len(o) : z[Len(b[n]) + j] = o[j]
  BY <1>1, Joining DEF TextOf
<1>3. CASE p = <<":">>
  <2> DEFINE w == Wildcard([kind |-> "PARAM", re |-> t[n].re, name |-> t[n].name])
  <2>1. o = <<w>> /\ w.kind = "PARAM"
    BY <1>3, SymbolFields DEF Own
  <2> HIDE DEF w, o, z
  <2>2. Len(o) = 1 /\ o[1] = w
    BY <2>1
  <2>3. z[Len(z)] = w
    BY <1>2, <2>2
  <2> QED BY <1>3, <2>1, <2>3 DEF z
<1>4. CASE p # <<":">>
  <2>1. p \in Seq(Chars) /\ Len(p) \in Nat /\ Len(p) # 0
    BY <1>1, NodeTypes
  <2>2. Colonless(p)
    BY <1>1, <1>4 DEF LabelFits
  <2>3. o = Plain(p)
    BY <1>1, <2>2, OwnText
  <2>4. Len(o) = Len(p) /\ \A j \in 1..Len(p) : o[j] = Character(p[j])
    BY <2>1, <2>3, PlainIs
  <2> HIDE DEF o, z, p
  <2>5. Len(o) \in 1..Len(o) /\ o[Len(o)] = Character(p[Len(p)])
    BY <2>1, <2>4
  <2>6. z[Len(z)] = Character(p[Len(p)])
    BY <1>2, <2>5
  <2>7. z[Len(z)].kind = "STATIC"
    BY <2>6, SymbolFields
  <2> QED BY <1>4, <2>7 DEF z, p
<1> QED BY <1>3, <1>4

\* A child of a node with text of its own hangs under no parameter.
LEMMA OneParent ==
    ASSUME NEW t \in Seq(NodeSet), NEW b, NEW reg, Labels(t, b, reg), NEW a \in DOMAIN t,
           t[a].path # <<>>, NEW i \in DOMAIN t[a].children, UnderParam(t, t[a].children[i])
    PROVE  t[a].path = <<":">>
<1> DEFINE c == t[a].children[i]
<1>1. PICK n \in DOMAIN t : /\ t[n].path = <<":">>
                            /\ \E j \in DOMAIN t[n].children : t[n].children[j] = c
  BY DEF UnderParam
<1>2. b[c] = TextOf(t, b, a) /\ b[c] = TextOf(t, b, n)
  BY <1>1, TextsAre
<1>3. b[c][Len(b[c])].kind = "PARAM"
  <2>1. t[n].path # <<>>
    BY <1>1
  <2> HIDE DEF c
  <2> QED BY <1>1, <1>2, <2>1, TextEnds
<1>4. b[c][Len(b[c])].kind = (IF t[a].path = <<":">> THEN "PARAM" ELSE "STATIC")
  <2> HIDE DEF c
  <2> QED BY <1>2, TextEnds
<1> QED BY <1>3, <1>4

\* The root hangs under nothing.
LEMMA RootFree ==
    ASSUME NEW t \in Seq(NodeSet), NEW b, NEW reg, Labels(t, b, reg)
    PROVE  ~UnderParam(t, 1)
<1> SUFFICES ASSUME UnderParam(t, 1) PROVE FALSE
  OBVIOUS
<1>1. PICK n \in DOMAIN t : /\ t[n].path = <<":">>
                            /\ \E j \in DOMAIN t[n].children : t[n].children[j] = 1
  BY DEF UnderParam
<1>2. b[1] = <<>> /\ b[1] = TextOf(t, b, n)
  BY <1>1, TextsAre DEF Labels
<1> DEFINE w == Wildcard([kind |-> "PARAM", re |-> t[n].re, name |-> t[n].name])
<1>3. /\ b[n] \in Seq(Symbols) /\ Own(t[n]) \in Seq(Symbols) /\ Own(t[n]) = <<w>>
  BY <1>1, TextsAre DEF Own
<1> HIDE DEF w
<1>4. Len(b[1]) = Len(b[n]) + 1 /\ Len(b[n]) \in Nat
  BY <1>2, <1>3, Joining DEF TextOf
<1> QED BY <1>2, <1>4

\* insert leaves a tree that is linked.
LEMMA CutLinked ==
    ASSUME BuildInv, phase = "inserting", nodes[1].path # <<>>, NEW b, Spelled(b), Linked(nodes)
    PROVE  /\ Linked(Cut)
           /\ \A k \in DOMAIN Cut : UnderParam(Cut, k) => k \in DOMAIN nodes /\ UnderParam(nodes, k)
<1> DEFINE np == nodes[at].path
           s == Shared
<1>1. /\ nodes \in Seq(NodeSet) /\ at \in DOMAIN nodes /\ 1 \in DOMAIN nodes
      /\ path \in Seq(Chars) /\ path # <<>> /\ Begins(np, path[1])
      /\ nodes[at] \in NodeSet /\ WellShaped(nodes, Fresh, path)
  <2>1. /\ nodes \in Seq(NodeSet) /\ at \in DOMAIN nodes /\ nodes # <<>>
        /\ path \in Seq(Chars) /\ path # <<>> /\ Begins(np, path[1])
        /\ WellShaped(nodes, Fresh, path)
    BY DEF BuildInv, Busy, Suffices, Joins
  <2> QED BY <2>1, DomainOfTree
<1>2. Closed(nodes) /\ Hangs(nodes)
  BY <1>1, ShapedClosed, ShapedHangs
<1>3. np \in Seq(Chars) /\ Len(np) \in Nat
  BY <1>1, NodeTypes
<1>4. s <= Len(np) /\ s > 0 /\ s \in Nat
  <2>1. Shared \in 0..Len(path) /\ Shared <= Len(np) /\ Shared > 0
    BY <1>1, <1>3, SharedIs
  <2> QED BY <2>1
<1>5. Cut = IF s < Len(np) THEN Split(nodes, at, s) ELSE nodes
  BY DEF Cut
<1> HIDE DEF s
<1>6. CASE s < Len(np)
  <2>1. s \in 1..(Len(np) - 1) /\ Len(np) # 1
    <3> DEFINE l == Len(np)
    <3>1. l \in Nat /\ s > 0 /\ s < l
      BY <1>3, <1>4, <1>6
    <3> HIDE DEF l
    <3>2. s \in 1..(l - 1) /\ l # 1
      BY <1>4, <3>1
    <3> QED BY <3>2 DEF l
  <2>2. Colonless(np)
    <3>1. Len(<<":">>) = 1
      OBVIOUS
    <3>2. LabelFits(nodes, b, registered, at)
      BY <1>1 DEF Spelled, Labels
    <3> QED BY <2>1, <3>1, <3>2 DEF LabelFits
  <2>3. Halves(nodes, Cut, at, s)
    BY <1>1, <1>5, <1>6, <2>1, SplitIs
  <2> QED BY <1>1, <1>2, <2>1, <2>2, <2>3, LinkedHalves
<1>7. CASE ~(s < Len(np))
  <2>1. Cut = nodes
    BY <1>5, <1>7
  <2> QED BY <2>1
<1> QED BY <1>6, <1>7

\* A route that has gone through a parameter is one that addRoute will abort,
\* and so is what is left of one that is.
LEMMA CutDoomed ==
    ASSUME BuildInv, phase = "inserting", nodes[1].path # <<>>, NEW b, Spelled(b),
           Cut[at].path = <<":">> \/ Doomed(path, queue)
    PROVE  Doomed(Rest, queue)
<1> DEFINE np == nodes[at].path
           s == Shared
<1>1. /\ nodes \in Seq(NodeSet) /\ at \in DOMAIN nodes /\ queue \in Seq(Segments)
      /\ path \in Seq(Chars) /\ path # <<>> /\ Begins(np, path[1]) /\ nodes[at] \in NodeSet
  <2>1. /\ nodes \in Seq(NodeSet) /\ at \in DOMAIN nodes /\ queue \in Seq(Segments)
        /\ path \in Seq(Chars) /\ path # <<>> /\ Begins(np, path[1])
    BY DEF BuildInv, Busy, Suffices, Joins
  <2> QED BY <2>1
<1>2. np \in Seq(Chars) /\ Len(np) \in Nat
  BY <1>1, NodeTypes
<1>3. s \in 0..Len(path) /\ s > 0
  BY <1>1, <1>2, SharedIs
<1>4. Rest = From(path, s + 1) /\ Len(queue) \in Nat
  BY <1>1 DEF Rest
<1>5. CASE Doomed(path, queue)
  <2> HIDE DEF s
  <2> QED BY <1>1, <1>3, <1>4, <1>5, StaysDoomed
<1>6. CASE ~Doomed(path, queue)
  <2>1. PICK t : Reads(path, queue, t)
    BY <1>6 DEF Spelled, Going
  <2>2. path[1] = ":"
    <3>1. Begins(Cut[at].path, path[1])
      <4>1. /\ Sound(nodes, Len(registered) - 1, valid) /\ Len(registered) - 1 \in Nat
            /\ valid \in BOOLEAN
        <5>1. Begins(nodes[1].path, "/")
          BY DEF BuildInv, Rooted, Blank
        <5>2. /\ Fresh = 0 /\ Past = Len(registered) - 1 /\ registered # <<>>
              /\ registered \in Seq(Routes) /\ valid \in BOOLEAN
              /\ WellShaped(nodes, Fresh, path) /\ Handled(nodes, Past, valid)
              /\ nodes \in Seq(NodeSet) /\ nodes # <<>>
          BY DEF BuildInv, Fresh, Past, Busy
        <5>3. 0 \notin DOMAIN nodes
          BY <5>2, DomainOfTree
        <5>4. WellShaped(nodes, 0, <<>>)
          BY <5>2, <5>3, ShapeAlone
        <5>5. Len(registered) - 1 \in Nat
          BY <5>2
        <5> QED BY <5>1, <5>2, <5>4, <5>5 DEF Sound
      <4> QED BY <1>1, <4>1, CutIs
    <3>2. Cut[at].path = <<":">>
      BY <1>6
    <3> QED BY <3>1, <3>2 DEF Begins
  <2>3. 1 \in 1..s
    <3> HIDE DEF s
    <3> QED BY <1>3
  <2> HIDE DEF s
  <2> QED BY <1>1, <1>3, <1>4, <2>1, <2>2, <2>3, BecomesDoomed
<1> QED BY <1>5, <1>6

(***************************************************************************)
(* Every step of the building leaves it linked.                            *)
(***************************************************************************)

\* A route that insert or insertChild takes to a node under a parameter is one
\* that addRoute will abort, or the node is the one just made for its slash.
OnParamAt(t, a, ph, p, q) ==
    ph \in {"inserting", "placing"} /\ UnderParam(t, a) =>
        Doomed(p, q) \/ (ph = "placing" /\ t[a].path = <<>> /\ t[a].indices = <<"/">>)

\* The tree is linked, but for one that an abort leaves behind.
LinkInv == phase # "aborted" => Linked(nodes) /\ OnParamAt(nodes, at, phase, path, queue)

\* An insertion that returns.
LEMMA ReturnLinked ==
    ASSUME NEW success, NEW left, Returns(success, left), Linked(nodes')
    PROVE  LinkInv'
<1>1. phase' \notin {"inserting", "placing"}
  BY DEF Returns
<1> QED BY <1>1 DEF LinkInv, OnParamAt

\* insert goes on in a child of the node.
LEMMA DownLinked ==
    ASSUME BuildInv, phase = "inserting", nodes[1].path # <<>>, NEW a, Spelled(a),
           Linked(nodes), OnParamAt(nodes, at, phase, path, queue),
           nodes' = Cut, queue' = queue, NEW i \in DOMAIN Cut[at].children,
           GoesOn("inserting", Cut[at].children[i], Rest)
    PROVE  LinkInv'
<1>1. Linked(Cut)
  BY CutLinked
<1>2. /\ Cut \in Seq(NodeSet) /\ at \in DOMAIN Cut /\ Cut[at].path # <<>>
      /\ \E b : Labels(Cut, b, registered)
  <2>1. Cut \in Seq(NodeSet) /\ at \in DOMAIN Cut /\ Cut[at].path # <<>>
    BY CutFacts
  <2>2. \E b : Labels(Cut, b, registered)
    BY CutFacts
  <2> QED BY <2>1, <2>2
<1>3. ASSUME UnderParam(Cut, Cut[at].children[i]) PROVE Doomed(Rest, queue)
  <2>1. Cut[at].path = <<":">>
    BY <1>2, <1>3, OneParent
  <2> QED BY <2>1, CutDoomed
<1>4. /\ nodes' = Cut /\ at' = Cut[at].children[i] /\ path' = Rest /\ queue' = queue
  BY DEF GoesOn
<1>5. OnParamAt(nodes', at', phase', path', queue')
  BY <1>3, <1>4 DEF OnParamAt
<1> QED BY <1>1, <1>4, <1>5 DEF LinkInv

\* insert goes through a wildcard or gives up.
LEMMA ThroughLinked ==
    ASSUME BuildInv, InsertThroughWildcard, NEW a, Spelled(a),
           Linked(nodes), OnParamAt(nodes, at, phase, path, queue)
    PROVE  LinkInv'
<1>1. /\ phase = "inserting" /\ nodes[1].path # <<>> /\ nodes' = Cut /\ Cut[at].wild
      /\ \/ GoesOn("inserting", Cut[at].children[1], Rest) /\ queue' = queue
         \/ Returns(FALSE, queue)
  BY DEF InsertThroughWildcard, Inserting
<1>2. 1 \in DOMAIN Cut[at].children
  <2>1. Cut[at] \in NodeSet /\ NodeFits(Cut, 0, <<>>, at)
    BY <1>1, InsertingIs
  <2>2. Len(Cut[at].children) = 1
    BY <1>1, <2>1 DEF NodeFits, WildFits
  <2>3. DOMAIN Cut[at].children = 1..Len(Cut[at].children)
    BY <2>1, NodeTypes
  <2> QED BY <2>2, <2>3
<1>3. Linked(Cut)
  BY <1>1, CutLinked
<1>4. CASE Returns(FALSE, queue)
  <2>1. Linked(nodes')
    BY <1>1, <1>3
  <2> QED BY <1>4, <2>1, ReturnLinked
<1>5. CASE GoesOn("inserting", Cut[at].children[1], Rest) /\ queue' = queue
  BY <1>1, <1>2, <1>5, DownLinked
<1> QED BY <1>1, <1>4, <1>5

\* insert goes on in a child.
LEMMA IntoChildLinked ==
    ASSUME BuildInv, InsertIntoChild, NEW a, Spelled(a),
           Linked(nodes), OnParamAt(nodes, at, phase, path, queue)
    PROVE  LinkInv'
<1>1. /\ phase = "inserting" /\ nodes[1].path # <<>> /\ nodes' = Cut /\ queue' = queue
      /\ \E c \in ToSet(Cut[at].children) : GoesOn("inserting", c, Rest)
  BY DEF InsertIntoChild, Inserting
<1>2. PICK i \in DOMAIN Cut[at].children : GoesOn("inserting", Cut[at].children[i], Rest)
  BY <1>1 DEF ToSet
<1> QED BY <1>1, <1>2, DownLinked

\* Nothing but the edges and the pointers counts.
LEMMA LinkedSame ==
    ASSUME NEW t, NEW t2, DOMAIN t2 = DOMAIN t, Linked(t), Closed(t), Hangs(t),
           \A k \in DOMAIN t : /\ t2[k].path = t[k].path /\ t2[k].indices = t[k].indices
                              /\ t2[k].children = t[k].children /\ t2[k].type = t[k].type
                              /\ t2[k].wild = t[k].wild
    PROVE  Linked(t2)
<1>1. \A R : ClosedUnder(t2, R) /\ R \subseteq DOMAIN t => ClosedUnder(t, R)
  BY DEF ClosedUnder
<1>2. Connected(t2)
  BY <1>1 DEF Linked, Connected, Below
<1>3. \A n \in DOMAIN t2 : Colonless(t2[n].indices)
  BY DEF Linked
<1>4. \A k \in DOMAIN t : UnderParam(t2, k) => UnderParam(t, k)
  BY DEF UnderParam
<1>5. ASSUME NEW k \in DOMAIN t, Slashing(t, k) PROVE Slashing(t2, k)
  <2>1. CASE t[k].wild
    <3>1. t[k].children[1] \in DOMAIN t
      BY <2>1 DEF Hangs, Closed
    <3> QED BY <1>5, <3>1 DEF Slashing
  <2>2. CASE ~t[k].wild
    BY <2>2 DEF Slashing
  <2> QED BY <2>1, <2>2
<1> QED BY <1>2, <1>3, <1>4, <1>5 DEF Linked

\* insert gives the controller to the node at which the route ends.
LEMMA HereLinked ==
    ASSUME BuildInv, InsertHere, NEW a, Spelled(a), Linked(nodes)
    PROVE  LinkInv'
<1> DEFINE up == [Cut[at] EXCEPT !.handle = Ctrl]
           t2 == [Cut EXCEPT ![at] = up]
<1>1. /\ phase = "inserting" /\ nodes[1].path # <<>>
      /\ \/ nodes' = Cut /\ Returns(FALSE, queue)
         \/ nodes' = [Cut EXCEPT ![at].handle = Ctrl] /\ Returns(TRUE, queue)
  BY DEF InsertHere
<1>2. Linked(Cut)
  BY <1>1, CutLinked
<1>3. /\ Cut \in Seq(NodeSet) /\ at \in DOMAIN Cut /\ Cut[at] \in NodeSet
      /\ Closed(Cut) /\ Hangs(Cut)
  <2>1. Cut \in Seq(NodeSet) /\ at \in DOMAIN Cut /\ Cut[at] \in NodeSet /\ Closed(Cut)
    BY <1>1, CutFacts
  <2>2. WellShaped(Cut, 0, <<>>)
    BY <1>1, InsertingIs DEF Sound
  <2> QED BY <2>1, <2>2, ShapedHangs
<1> HIDE DEF Cut
<1>4. CASE nodes' = Cut /\ Returns(FALSE, queue)
  <2>1. Linked(nodes')
    BY <1>2, <1>4
  <2> QED BY <1>4, <2>1, ReturnLinked
<1>5. CASE nodes' = [Cut EXCEPT ![at].handle = Ctrl] /\ Returns(TRUE, queue)
  <2>1. /\ up.path = Cut[at].path /\ up.indices = Cut[at].indices /\ up.children = Cut[at].children
        /\ up.type = Cut[at].type /\ up.wild = Cut[at].wild
    BY <1>3 DEF NodeSet
  <2>2. nodes' = t2
    BY <1>5
  <2> HIDE DEF up
  <2>3. /\ DOMAIN t2 = DOMAIN Cut /\ t2[at] = up
        /\ \A k \in DOMAIN Cut : k # at => t2[k] = Cut[k]
    BY <1>3
  <2> HIDE DEF t2
  <2>4. \A k \in DOMAIN Cut : /\ t2[k].path = Cut[k].path /\ t2[k].indices = Cut[k].indices
                              /\ t2[k].children = Cut[k].children /\ t2[k].type = Cut[k].type
                              /\ t2[k].wild = Cut[k].wild
    BY <2>1, <2>3
  <2>5. Linked(t2)
    BY <1>2, <1>3, <2>3, <2>4, LinkedSame
  <2>6. Linked(nodes')
    BY <2>2, <2>5
  <2> QED BY <1>5, <2>6, ReturnLinked
<1> QED BY <1>1, <1>4, <1>5

\* insert adds a child for insertChild, or leaves the wildcard to it.
LEMMA NewChildLinked ==
    ASSUME BuildInv, InsertNewChild, NEW a, Spelled(a),
           Linked(nodes), OnParamAt(nodes, at, phase, path, queue)
    PROVE  LinkInv'
<1> DEFINE n == Cut[at]
           new == Len(Cut) + 1
           leaf == Node("STATIC")
           up == [n EXCEPT !.indices = Append(@, Rest[1]), !.children = Append(@, new)]
           t1 == [Cut EXCEPT ![at] = up]
           t2 == Append(t1, leaf)
<1>1. /\ phase = "inserting" /\ nodes[1].path # <<>> /\ queue' = queue /\ ~Cut[at].wild
      /\ Rest # <<>>
      /\ \/ nodes' = Cut /\ GoesOn("placing", at, Rest)
         \/ /\ GoesOn("placing", new, Rest) /\ Rest[1] # ":"
            /\ nodes' = Append([Cut EXCEPT ![at].indices = Append(@, Rest[1]),
                                           ![at].children = Append(@, new)], leaf)
  BY DEF InsertNewChild
<1>2. /\ Cut \in Seq(NodeSet) /\ Closed(Cut) /\ at \in DOMAIN Cut /\ 1 \in DOMAIN Cut
      /\ n \in NodeSet /\ n.path # <<>> /\ queue \in Seq(Segments) /\ Rest \in Seq(Chars)
      /\ DOMAIN Cut = 1..Len(Cut) /\ Len(Cut) \in Nat
  BY <1>1, CutFacts
<1>3. /\ Linked(Cut)
      /\ \A k \in DOMAIN Cut : UnderParam(Cut, k) => k \in DOMAIN nodes /\ UnderParam(nodes, k)
  BY <1>1, CutLinked
<1>4. Hangs(Cut)
  <2>1. WellShaped(Cut, 0, <<>>)
    BY <1>1, InsertingIs DEF Sound
  <2> QED BY <1>2, <2>1, ShapedHangs
<1>5. CASE nodes' = Cut /\ GoesOn("placing", at, Rest)
  <2>1. ASSUME UnderParam(Cut, at) PROVE Doomed(Rest, queue)
    <3>1. UnderParam(nodes, at)
      BY <1>2, <1>3, <2>1
    <3>2. Doomed(path, queue)
      BY <1>1, <3>1 DEF OnParamAt
    <3> QED BY <1>1, <3>2, CutDoomed
  <2>2. nodes' = Cut /\ at' = at /\ path' = Rest /\ queue' = queue
    BY <1>1, <1>5 DEF GoesOn
  <2>3. OnParamAt(nodes', at', phase', path', queue')
    BY <2>1, <2>2 DEF OnParamAt
  <2> QED BY <1>3, <2>2, <2>3 DEF LinkInv
<1> HIDE DEF Cut, Rest
<1>6. CASE /\ GoesOn("placing", new, Rest) /\ Rest[1] # ":"
           /\ nodes' = Append([Cut EXCEPT ![at].indices = Append(@, Rest[1]),
                                          ![at].children = Append(@, new)], leaf)
  <2>1. /\ phase' = "placing" /\ at' = new /\ path' = Rest /\ nodes' = t2 /\ queue' = queue
    <3>1. phase' = "placing" /\ at' = new /\ path' = Rest /\ queue' = queue
      BY <1>1, <1>6 DEF GoesOn
    <3>2. [Cut EXCEPT ![at].indices = Append(@, Rest[1]), ![at].children = Append(@, new)] = t1
      BY <1>2 DEF NodeSet
    <3> QED BY <1>6, <3>1, <3>2
  <2> DEFINE c2 == Append(n.children, new)
             i2 == Append(n.indices, Rest[1])
  <2>2. /\ up.path = n.path /\ up.type = n.type /\ up.wild = n.wild /\ up.children = c2
        /\ up.indices = i2
    BY <1>2 DEF NodeSet
  <2>3. leaf.path = <<>> /\ ~leaf.wild /\ leaf.indices = <<>> /\ leaf.children = <<>>
    BY DEF Node
  <2> HIDE DEF up, leaf
  <2>4. /\ t1[at] = up /\ DOMAIN t1 = DOMAIN Cut /\ \A k \in DOMAIN Cut : k # at => t1[k] = Cut[k]
        /\ Len(t1) = Len(Cut)
    BY <1>2
  <2> HIDE DEF t1
  <2>5. /\ DOMAIN t2 = 1..new /\ t2[at] = up /\ t2[new] = leaf
        /\ \A k \in DOMAIN Cut : k # at => t2[k] = Cut[k]
        /\ \A k \in DOMAIN t2 : k \in DOMAIN Cut \/ k = new
        /\ \A k \in DOMAIN Cut : k \in 1..new /\ k # new
        /\ new \in 1..new
    BY <1>2, <2>4
  <2>6. /\ \A j \in DOMAIN n.children : j \in DOMAIN c2 /\ c2[j] = n.children[j]
        /\ \A j \in DOMAIN c2 : j \in DOMAIN n.children \/ c2[j] = new
        /\ \E j \in DOMAIN c2 : c2[j] = new
    <3>1. n.children \in Seq(Nat \ {0}) /\ new \in Nat \ {0}
      BY <1>2, NodeTypes
    <3>2. /\ Len(n.children) \in Nat
          /\ DOMAIN c2 = 1..(Len(n.children) + 1) /\ DOMAIN n.children = 1..Len(n.children)
          /\ \A j \in 1..Len(n.children) : c2[j] = n.children[j]
          /\ c2[Len(n.children) + 1] = new
      BY <3>1, AppendIs
    <3> HIDE DEF c2, n, new
    <3> QED BY <3>2
  <2>7. Colonless(i2)
    <3>1. n.indices \in Seq(Chars) /\ Rest[1] \in Chars
      <4>1. Rest[1] \in Chars
        BY <1>1, <1>2
      <4> QED BY <1>2, <4>1, NodeTypes
    <3>2. /\ Len(n.indices) \in Nat /\ Len(i2) = Len(n.indices) + 1
          /\ \A j \in 1..Len(n.indices) : i2[j] = n.indices[j]
          /\ i2[Len(n.indices) + 1] = Rest[1]
      BY <3>1, AppendIs
    <3>3. Colonless(n.indices)
      BY <1>2, <1>3 DEF Linked
    <3> HIDE DEF i2, n
    <3> QED BY <1>6, <3>2, <3>3 DEF Colonless
  <2>8. ~n.wild
    BY <1>1
  <2> HIDE DEF t2, new, c2, i2, n
  <2>9. DOMAIN <<>> = {} /\ Colonless(<<>>)
    BY DEF Colonless
  <2>10. TouchesOne(Cut, t2, at)
    <3>1. ASSUME t2[at].type = "CATCH_ALL", NEW k \in DOMAIN Cut, Cut[k].wild
          PROVE  Cut[k].children[1] # at
      <4>1. n.type = "CATCH_ALL" /\ n.path # <<>>
        BY <1>2, <2>2, <2>5, <3>1
      <4>2. ~IsWildcard(n)
        BY <4>1 DEF IsWildcard
      <4>3. IsWildcard(Cut[Cut[k].children[1]])
        <5>1. WellShaped(Cut, 0, <<>>)
          BY <1>1, InsertingIs DEF Sound
        <5> QED BY <3>1, <5>1 DEF WellShaped, NodeFits, WildFits
      <4> QED BY <4>2, <4>3 DEF n
    <3> QED BY <1>2, <1>4, <2>5, <3>1 DEF TouchesOne
  <2>11. ASSUME NEW R \in SUBSET (DOMAIN t2), ClosedUnder(t2, R), at \in R
         PROVE  new \in R /\ \A i \in DOMAIN Cut[at].children : Cut[at].children[i] \in R
    <3>1. \A i \in DOMAIN c2 : c2[i] \in R
      BY <2>2, <2>5, <2>11 DEF ClosedUnder
    <3> QED BY <2>6, <3>1 DEF n
  <2>12. ASSUME NEW R \in SUBSET (DOMAIN t2), ClosedUnder(t2, R), DOMAIN Cut \subseteq R
         PROVE  DOMAIN t2 \subseteq R
    BY <1>2, <2>5, <2>11, <2>12
  <2>13. ASSUME NEW k \in DOMAIN Cut, UnderParam(t2, k) PROVE UnderParam(Cut, k)
    <3>1. PICK m \in DOMAIN t2 : /\ t2[m].path = <<":">>
                                 /\ \E i \in DOMAIN t2[m].children : t2[m].children[i] = k
      BY <2>13 DEF UnderParam
    <3>2. CASE m = new
      BY <2>3, <2>5, <2>9, <3>1, <3>2
    <3>3. CASE m = at
      <4>1. n.path = <<":">> /\ \E i \in DOMAIN n.children : n.children[i] = k
        BY <2>2, <2>5, <2>6, <2>13, <3>1, <3>3
      <4> QED BY <1>2, <4>1 DEF UnderParam, n
    <3>4. CASE m \in DOMAIN Cut /\ m # at
      BY <2>5, <3>1, <3>4 DEF UnderParam
    <3> QED BY <2>5, <3>2, <3>3, <3>4
  <2>14. Linked(t2)
    <3>1. Slashing(t2, at) /\ Slashing(t2, new)
      BY <2>2, <2>3, <2>5, <2>8 DEF Slashing
    <3>2. \A k \in DOMAIN t2 : UnderParam(t2, k) =>
             (k \in DOMAIN Cut /\ k # at /\ UnderParam(Cut, k)) \/ Slashing(t2, k)
      BY <2>5, <2>13, <3>1
    <3>3. \A k \in DOMAIN t2 : (k \in DOMAIN Cut /\ k # at) \/ Colonless(t2[k].indices)
      BY <2>2, <2>3, <2>5, <2>7, <2>9
    <3>4. \A R \in SUBSET (DOMAIN t2) : ClosedUnder(t2, R) /\ at \in R =>
             \A i \in DOMAIN Cut[at].children : Cut[at].children[i] \in R
      BY <2>11
    <3>5. \A R \in SUBSET (DOMAIN t2) :
             ClosedUnder(t2, R) /\ DOMAIN Cut \subseteq R => DOMAIN t2 \subseteq R
      BY <2>12
    <3> QED BY <1>2, <1>3, <2>10, <3>2, <3>3, <3>4, <3>5, LinkedOthers
  <2>15. ASSUME UnderParam(t2, new) PROVE Doomed(Rest, queue)
    <3>1. PICK m \in DOMAIN t2 : /\ t2[m].path = <<":">>
                                 /\ \E i \in DOMAIN t2[m].children : t2[m].children[i] = new
      BY <2>15 DEF UnderParam
    <3>2. m # new
      BY <2>3, <2>5, <2>9, <3>1
    <3>3. CASE m = at
      <4>1. Cut[at].path = <<":">>
        BY <2>2, <2>5, <3>1, <3>3 DEF n
      <4> QED BY <1>1, <4>1, CutDoomed
    <3>4. CASE m # at
      <4>1. m \in DOMAIN Cut /\ t2[m] = Cut[m]
        BY <2>5, <3>2, <3>4
      <4>2. new \in DOMAIN Cut
        BY <3>1, <4>1, <1>2 DEF Closed
      <4> QED BY <2>5, <4>2
    <3> QED BY <3>3, <3>4
  <2>16. OnParamAt(nodes', at', phase', path', queue')
    BY <2>1, <2>15 DEF OnParamAt
  <2> QED BY <2>1, <2>14, <2>16 DEF LinkInv
<1> QED BY <1>1, <1>5, <1>6

\* insertChild puts the rest of a route into a node.
LEMMA StaticLinked ==
    ASSUME BuildInv, PlaceStatic, NEW b, Spelled(b), Linked(nodes)
    PROVE  LinkInv'
<1> DEFINE n == nodes[at]
           up == [n EXCEPT !.path = path, !.handle = Ctrl, !.type = "STATIC", !.indices = <<>>]
           t2 == [nodes EXCEPT ![at] = up]
<1>1. phase = "placing" /\ Colon = 0 /\ Returns(TRUE, queue)
  BY DEF PlaceStatic
<1>2. /\ nodes \in Seq(NodeSet) /\ Closed(nodes) /\ at \in DOMAIN nodes /\ 1 \in DOMAIN nodes
      /\ n \in NodeSet /\ Blank(n) /\ path \in Seq(Chars)
  BY <1>1, PlaceFacts
<1>3. Hangs(nodes)
  BY <1>1, PlacingIs, ShapedHangs
<1>4. nodes' = t2
  BY <1>2 DEF PlaceStatic, NodeSet
<1>5. /\ up.path = path /\ up.type = "STATIC" /\ up.children = <<>> /\ up.indices = <<>>
      /\ ~up.wild /\ n.children = <<>>
  BY <1>2 DEF NodeSet, Blank
<1> HIDE DEF up
<1>6. t2[at] = up /\ DOMAIN t2 = DOMAIN nodes /\ \A k \in DOMAIN nodes : k # at => t2[k] = nodes[k]
  BY <1>2
<1> HIDE DEF t2
<1>7. DOMAIN <<>> = {} /\ Colonless(<<>>)
  BY DEF Colonless
<1>8. TouchesOne(nodes, t2, at)
  BY <1>2, <1>3, <1>5, <1>6 DEF TouchesOne
<1>9. ASSUME NEW k \in DOMAIN t2, UnderParam(t2, k) PROVE UnderParam(nodes, k)
  <2>1. PICK m \in DOMAIN t2 : /\ t2[m].path = <<":">>
                               /\ \E i \in DOMAIN t2[m].children : t2[m].children[i] = k
    BY <1>9 DEF UnderParam
  <2>2. m # at
    BY <1>5, <1>6, <1>7, <2>1
  <2> QED BY <1>6, <2>1, <2>2 DEF UnderParam
<1>10. Slashing(t2, at)
  BY <1>5, <1>6 DEF Slashing
<1>11. Linked(t2)
  <2>1. \A k \in DOMAIN t2 : UnderParam(t2, k) =>
           (k \in DOMAIN nodes /\ k # at /\ UnderParam(nodes, k)) \/ Slashing(t2, k)
    BY <1>6, <1>9, <1>10
  <2>2. \A k \in DOMAIN t2 : (k \in DOMAIN nodes /\ k # at) \/ Colonless(t2[k].indices)
    BY <1>5, <1>6, <1>7
  <2>3. \A R \in SUBSET (DOMAIN t2) : ClosedUnder(t2, R) /\ at \in R =>
           \A i \in DOMAIN nodes[at].children : nodes[at].children[i] \in R
    BY <1>5, <1>7
  <2>4. \A R \in SUBSET (DOMAIN t2) :
           ClosedUnder(t2, R) /\ DOMAIN nodes \subseteq R => DOMAIN t2 \subseteq R
    BY <1>6
  <2> QED BY <1>2, <1>8, <2>1, <2>2, <2>3, <2>4, LinkedOthers
<1>12. Linked(nodes')
  BY <1>4, <1>11
<1> QED BY <1>1, <1>12, ReturnLinked

\* A wildcard hangs under the node, and perhaps a node more under it.
LEMMA HangLinked ==
    ASSUME BuildInv, WildAt, NEW b, Spelled(b), Linked(nodes), NEW id, id = Len(nodes) + 1,
           NEW t2, DOMAIN nodes \subseteq DOMAIN t2, id \in DOMAIN t2,
           t2[at] = Parent(Head(queue), id),
           \A k \in DOMAIN nodes : k # at => t2[k] = nodes[k],
           \A k \in DOMAIN t2 : k \in DOMAIN nodes \/
              /\ ~t2[k].wild /\ Colonless(t2[k].indices)
              /\ \A i \in DOMAIN t2[k].children : t2[k].children[i] \notin DOMAIN nodes,
           \A R \in SUBSET (DOMAIN t2) :
              ClosedUnder(t2, R) /\ DOMAIN nodes \subseteq R /\ id \in R => DOMAIN t2 \subseteq R,
           UnderParam(nodes, at) => Slashing(t2, at)
    PROVE  Linked(t2)
<1> DEFINE n == nodes[at]
           up == Parent(Head(queue), id)
<1>1. /\ nodes \in Seq(NodeSet) /\ Closed(nodes) /\ at \in DOMAIN nodes /\ 1 \in DOMAIN nodes
      /\ n \in NodeSet /\ DOMAIN nodes = 1..Len(nodes) /\ Len(nodes) \in Nat
  BY PlaceFacts DEF WildAt
<1>2. up.children = <<id>> /\ up.indices = n.indices /\ n.children = <<>>
  <2>1. up.children = <<id>> /\ up.indices = n.indices
    BY <1>1 DEF Parent, NodeSet
  <2> QED BY <2>1 DEF WildAt
<1>3. Hangs(nodes) /\ \A k \in DOMAIN nodes : nodes[k].wild => nodes[k].children[1] # at
  <2>1. WellShaped(nodes, Fresh, path) /\ ~IsWildcard(n)
    BY PlacingIs DEF WildAt
  <2>2. \A k \in DOMAIN nodes : nodes[k].wild => IsWildcard(nodes[nodes[k].children[1]])
    BY <2>1 DEF WellShaped, NodeFits, WildFits
  <2>3. Hangs(nodes)
    BY <1>1, <2>1, ShapedHangs
  <2> QED BY <2>1, <2>2, <2>3
<1>4. DOMAIN <<>> = {} /\ DOMAIN <<id>> = 1..1 /\ <<id>>[1] = id /\ id \notin DOMAIN nodes
  BY <1>1
<1> HIDE DEF up
<1>5. TouchesOne(nodes, t2, at)
  BY <1>1, <1>3 DEF TouchesOne
<1>6. ASSUME NEW R \in SUBSET (DOMAIN t2), ClosedUnder(t2, R), DOMAIN nodes \subseteq R
      PROVE  DOMAIN t2 \subseteq R
  <2>1. t2[at].children[1] \in R /\ t2[at].children[1] = id
    <3>1. t2[at].children = <<id>> /\ at \in R
      BY <1>1, <1>2, <1>6 DEF up
    <3>2. 1 \in DOMAIN t2[at].children
      BY <1>4, <3>1
    <3> QED BY <1>4, <1>6, <3>1, <3>2 DEF ClosedUnder
  <2> QED BY <1>6, <2>1
<1>7. ASSUME NEW k \in DOMAIN nodes, UnderParam(t2, k) PROVE UnderParam(nodes, k)
  <2>1. PICK m \in DOMAIN t2 : /\ t2[m].path = <<":">>
                               /\ \E i \in DOMAIN t2[m].children : t2[m].children[i] = k
    BY <1>7 DEF UnderParam
  <2>2. m \in DOMAIN nodes
    BY <1>7, <2>1
  <2>3. m # at
    <3>1. ASSUME m = at PROVE FALSE
      <4>1. t2[m].children = <<id>>
        BY <1>2, <3>1 DEF up
      <4>2. k = id
        BY <1>4, <2>1, <4>1
      <4> QED BY <1>4, <1>7, <4>2
    <3> QED BY <3>1
  <2> QED BY <2>1, <2>2, <2>3 DEF UnderParam
<1>8. \A k \in DOMAIN t2 : (k \in DOMAIN nodes /\ k # at) \/ Colonless(t2[k].indices)
  <2>1. Colonless(t2[at].indices)
    BY <1>1, <1>2 DEF up, Linked
  <2> QED BY <2>1
<1>9. \A k \in DOMAIN t2 : UnderParam(t2, k) =>
         (k \in DOMAIN nodes /\ k # at /\ UnderParam(nodes, k)) \/ Slashing(t2, k)
  <2>1. \A k \in DOMAIN t2 : k \notin DOMAIN nodes => Slashing(t2, k)
    BY DEF Slashing
  <2> QED BY <1>7, <2>1
<1>10. \A R \in SUBSET (DOMAIN t2) : ClosedUnder(t2, R) /\ at \in R =>
          \A i \in DOMAIN nodes[at].children : nodes[at].children[i] \in R
  BY <1>2, <1>4
<1>11. \A R \in SUBSET (DOMAIN t2) :
          ClosedUnder(t2, R) /\ DOMAIN nodes \subseteq R => DOMAIN t2 \subseteq R
  BY <1>6
<1> QED BY <1>1, <1>5, <1>8, <1>9, <1>10, <1>11, LinkedOthers

\* insertChild hangs a parameter under the node.
LEMMA ParamLinked ==
    ASSUME BuildInv, PlaceParam, NEW b, Spelled(b), Linked(nodes)
    PROVE  LinkInv'
<1> DEFINE wild == Head(queue)
           id == Len(nodes) + 1
           node == [Node("PARAM") EXCEPT !.path = <<":">>, !.re = wild.re, !.name = wild.name]
           up == Parent(wild, id)
           tree == [nodes EXCEPT ![at] = up]
           rest == From(path, Colon + 1)
           leaf == [node EXCEPT !.handle = Ctrl]
           inner == [node EXCEPT !.children = <<id + 1>>]
           last == [Node("UNKNOWN") EXCEPT !.indices = <<path[Colon + 1]>>]
<1>1. WildAt /\ wild.kind = "PARAM"
  BY DEF PlaceParam, WildAt
<1>2. /\ nodes \in Seq(NodeSet) /\ at \in DOMAIN nodes /\ Len(nodes) \in Nat
      /\ DOMAIN nodes = 1..Len(nodes) /\ path \in Seq(Chars) /\ Suffices(path, queue)
  <2>1. phase = "placing"
    BY <1>1 DEF WildAt
  <2> QED BY <2>1, PlacingIs DEF Suffices
<1>3. \/ /\ Colon = Len(path)
         /\ nodes' = Append(tree, leaf)
         /\ Returns(TRUE, Tail(queue))
      \/ /\ Colon # Len(path) /\ nodes' = tree \o <<inner, last>>
         /\ GoesOn("placing", id + 1, rest)
         /\ queue' = Tail(queue)
  BY DEF PlaceParam
<1>4. /\ leaf.type = "PARAM" /\ inner.type = "PARAM" /\ ~leaf.wild /\ ~inner.wild /\ ~last.wild
      /\ leaf.children = <<>> /\ inner.children = <<id + 1>> /\ last.children = <<>>
      /\ leaf.indices = <<>> /\ inner.indices = <<>> /\ last.indices = <<path[Colon + 1]>>
      /\ last.path = <<>>
  BY DEF Node
<1> HIDE DEF node, leaf, inner, last
<1>5. /\ tree[at] = up /\ DOMAIN tree = DOMAIN nodes /\ Len(tree) = Len(nodes)
      /\ \A k \in DOMAIN nodes : k # at => tree[k] = nodes[k]
  BY <1>2
<1>6. up.children = <<id>> /\ <<id>>[1] = id
  <2>1. nodes[at] \in NodeSet
    BY <1>2
  <2> HIDE DEF id
  <2>2. up.children = <<id>>
    BY <2>1 DEF Parent, NodeSet
  <2> QED BY <2>2
<1>7. tree \in Seq(NodeSet)
  <2>1. up \in NodeSet
    <3>1. id \in Nat \ {0}
      BY <1>2
    <3> HIDE DEF id
    <3> QED BY <1>1, <1>2, <3>1, ParentIs
  <2> HIDE DEF up
  <2> QED BY <1>2, <2>1, ExceptIs
<1>8. DOMAIN <<>> = {} /\ Colonless(<<>>)
  BY DEF Colonless
<1> HIDE DEF tree
<1>9. CASE /\ nodes' = Append(tree, leaf) /\ Returns(TRUE, Tail(queue))
  <2> DEFINE t2 == Append(tree, leaf)
  <2>1. /\ t2[at] = up /\ t2[id] = leaf /\ id \in DOMAIN t2 /\ DOMAIN nodes \subseteq DOMAIN t2
        /\ \A k \in DOMAIN nodes : k # at => t2[k] = nodes[k]
        /\ \A k \in DOMAIN t2 : k \in DOMAIN nodes \/ k = id
    <3>1. /\ DOMAIN t2 = 1..id /\ t2[id] = leaf /\ \A k \in 1..Len(nodes) : t2[k] = tree[k]
      BY <1>2, <1>5
    <3> HIDE DEF t2
    <3> QED BY <1>2, <1>5, <3>1
  <2>2. id = Len(nodes) + 1
    OBVIOUS
  <2> HIDE DEF t2, id, up
  <2>3. Slashing(t2, at)
    BY <1>4, <1>6, <2>1 DEF Slashing
  <2>4. \A k \in DOMAIN t2 : k \in DOMAIN nodes \/
           /\ ~t2[k].wild /\ Colonless(t2[k].indices)
           /\ \A i \in DOMAIN t2[k].children : t2[k].children[i] \notin DOMAIN nodes
    BY <1>4, <1>8, <2>1
  <2>5. \A R \in SUBSET (DOMAIN t2) :
           ClosedUnder(t2, R) /\ DOMAIN nodes \subseteq R /\ id \in R => DOMAIN t2 \subseteq R
    BY <2>1
  <2>6. Linked(t2)
    <3>1. t2[at] = Parent(Head(queue), id)
      BY <2>1 DEF up
    <3> QED BY <1>1, <2>1, <2>2, <2>3, <2>4, <2>5, <3>1, HangLinked
  <2>7. Linked(nodes')
    BY <1>9, <2>6 DEF t2
  <2> QED BY <1>9, <2>7, ReturnLinked
<1>10. CASE /\ Colon # Len(path) /\ nodes' = tree \o <<inner, last>>
            /\ GoesOn("placing", id + 1, rest) /\ queue' = Tail(queue)
  <2> DEFINE t2 == tree \o <<inner, last>>
             end == id + 1
  <2>1. /\ t2[at] = up /\ t2[id] = inner /\ t2[end] = last /\ id \in DOMAIN t2
        /\ DOMAIN nodes \subseteq DOMAIN t2
        /\ \A k \in DOMAIN nodes : k # at => t2[k] = nodes[k]
        /\ \A k \in DOMAIN t2 : k \in DOMAIN nodes \/ k = id \/ k = end
        /\ end \notin DOMAIN nodes
    <3>1. /\ DOMAIN t2 = 1..(id + 1) /\ t2[id] = inner /\ t2[id + 1] = last
          /\ \A k \in 1..Len(nodes) : t2[k] = tree[k]
      <4>1. id = Len(tree) + 1
        BY <1>5
      <4>3. /\ DOMAIN t2 = 1..(id + 1) /\ t2[id] = inner /\ t2[id + 1] = last
            /\ \A k \in 1..Len(tree) : t2[k] = tree[k]
        <5> HIDE DEF id
        <5> QED BY <1>7, <4>1, TwoMore
      <4> HIDE DEF t2, id
      <4> QED BY <1>5, <4>3
    <3> HIDE DEF t2
    <3>2. /\ \A k \in 1..(id + 1) : k \in DOMAIN nodes \/ k = id \/ k = id + 1
          /\ id \in 1..(id + 1) /\ id + 1 \notin DOMAIN nodes
          /\ \A k \in DOMAIN nodes : k \in 1..(id + 1)
      BY <1>2
    <3>3. \A k \in DOMAIN nodes : t2[k] = tree[k]
      BY <1>2, <3>1
    <3> HIDE DEF id, up
    <3> QED BY <1>2, <1>5, <3>1, <3>2, <3>3
  <2>2. id = Len(nodes) + 1
    OBVIOUS
  <2>3. path[Colon + 1] = "/"
    <3>1. Colon \in 0..Len(path) /\ (Colon # 0 => path[Colon] = ":") /\ Len(path) \in Nat
      BY <1>2, ColonIs
    <3>2. Colon # 0
      BY <1>1 DEF WildAt
    <3> DEFINE x == Colon
    <3>3. x = Colon
      OBVIOUS
    <3> HIDE DEF x
    <3>4. x \in 1..(Len(path) - 1) /\ path[x] = ":"
      BY <1>10, <3>1, <3>2, <3>3
    <3>5. path[x + 1] = "/"
      BY <1>2, <3>4 DEF Suffices, Slashed
    <3> QED BY <3>3, <3>5
  <2>4. inner.children = <<end>> /\ DOMAIN <<end>> = 1..1 /\ <<end>>[1] = end
    BY <1>4
  <2>5. Colonless(<<"/">>)
    <3>1. "/" # ":"
      OBVIOUS
    <3> QED BY <3>1 DEF Colonless
  <2> HIDE DEF t2, id, up, end
  <2>6. Slashing(t2, at)
    BY <1>4, <1>6, <2>1 DEF Slashing
  <2>7. \A k \in DOMAIN t2 : k \in DOMAIN nodes \/
           /\ ~t2[k].wild /\ Colonless(t2[k].indices)
           /\ \A i \in DOMAIN t2[k].children : t2[k].children[i] \notin DOMAIN nodes
    <3>1. /\ ~t2[id].wild /\ Colonless(t2[id].indices)
          /\ \A i \in DOMAIN t2[id].children : t2[id].children[i] \notin DOMAIN nodes
      BY <1>4, <1>8, <2>1, <2>4
    <3>2. /\ ~t2[end].wild /\ Colonless(t2[end].indices)
          /\ \A i \in DOMAIN t2[end].children : t2[end].children[i] \notin DOMAIN nodes
      BY <1>4, <1>8, <2>1, <2>3, <2>5
    <3> QED BY <2>1, <3>1, <3>2
  <2>8. ASSUME NEW R \in SUBSET (DOMAIN t2), ClosedUnder(t2, R), DOMAIN nodes \subseteq R, id \in R
        PROVE  DOMAIN t2 \subseteq R
    <3>1. t2[id].children = <<end>> /\ 1 \in DOMAIN t2[id].children
      BY <2>1, <2>4
    <3>2. t2[id].children[1] \in R
      BY <2>8, <3>1 DEF ClosedUnder
    <3>3. end \in R
      BY <2>4, <3>1, <3>2
    <3> QED BY <2>1, <2>8, <3>3
  <2>9. Linked(t2)
    <3>1. t2[at] = Parent(Head(queue), id)
      BY <2>1 DEF up
    <3>2. \A R \in SUBSET (DOMAIN t2) :
             ClosedUnder(t2, R) /\ DOMAIN nodes \subseteq R /\ id \in R => DOMAIN t2 \subseteq R
      BY <2>8
    <3> QED BY <1>1, <2>1, <2>2, <2>6, <2>7, <3>1, <3>2, HangLinked
  <2>10. nodes' = t2 /\ at' = end /\ phase' = "placing"
    BY <1>10 DEF GoesOn, t2, end
  <2>11. nodes'[at'].path = <<>> /\ nodes'[at'].indices = <<"/">>
    BY <1>4, <2>1, <2>3, <2>10
  <2>12. OnParamAt(nodes', at', phase', path', queue')
    BY <2>10, <2>11 DEF OnParamAt
  <2> QED BY <2>9, <2>10, <2>12 DEF LinkInv
<1> QED BY <1>3, <1>9, <1>10

\* insertChild hangs a catch-all under the node.
LEMMA CatchAllLinked ==
    ASSUME BuildInv, Ordinary, PlaceCatchAll, NEW b, Spelled(b), phase' # "aborted",
           Linked(nodes), OnParamAt(nodes, at, phase, path, queue)
    PROVE  LinkInv'
<1> DEFINE wild == Head(queue)
           id == Len(nodes) + 1
           leaf == [Node("CATCH_ALL") EXCEPT !.handle = Ctrl, !.name = wild.name]
           up == Parent(wild, id)
           tree == [nodes EXCEPT ![at] = up]
           t2 == Append(tree, leaf)
<1>1. WildAt /\ phase = "placing" /\ Colon # 0
  BY DEF PlaceCatchAll, WildAt
<1>2. /\ nodes \in Seq(NodeSet) /\ at \in DOMAIN nodes /\ Len(nodes) \in Nat
      /\ DOMAIN nodes = 1..Len(nodes) /\ path \in Seq(Chars) /\ queue \in Seq(Segments)
  BY <1>1, PlaceFacts
<1>3. nodes' = t2 /\ Returns(TRUE, Tail(queue))
  BY DEF PlaceCatchAll
<1>4. leaf.children = <<>> /\ ~leaf.wild /\ leaf.indices = <<>>
  BY DEF Node
<1> HIDE DEF leaf
<1>5. /\ tree[at] = up /\ DOMAIN tree = DOMAIN nodes /\ Len(tree) = Len(nodes)
      /\ \A k \in DOMAIN nodes : k # at => tree[k] = nodes[k]
  BY <1>2
<1>6. up.indices = nodes[at].indices
  <2>1. nodes[at] \in NodeSet
    BY <1>2
  <2> HIDE DEF id
  <2> QED BY <2>1 DEF Parent, NodeSet
<1>13. tree \in Seq(NodeSet)
  <2>1. up \in NodeSet
    <3>1. id \in Nat \ {0}
      BY <1>2
    <3> HIDE DEF id
    <3> QED BY <1>1, <1>2, <3>1, ParentIs
  <2> HIDE DEF up
  <2> QED BY <1>2, <2>1, ExceptIs
<1> HIDE DEF tree
<1>7. /\ t2[at] = up /\ t2[id] = leaf /\ id \in DOMAIN t2 /\ DOMAIN nodes \subseteq DOMAIN t2
      /\ \A k \in DOMAIN nodes : k # at => t2[k] = nodes[k]
      /\ \A k \in DOMAIN t2 : k \in DOMAIN nodes \/ k = id
  <2>1. /\ DOMAIN t2 = 1..id /\ t2[id] = leaf /\ \A k \in 1..Len(nodes) : t2[k] = tree[k]
    BY <1>2, <1>5, <1>13
  <2> HIDE DEF t2
  <2> QED BY <1>2, <1>5, <2>1
<1>8. ASSUME UnderParam(nodes, at) PROVE nodes[at].indices = <<"/">>
  <2>1. CASE Doomed(path, queue)
    <3>1. Tail(queue) # <<>>
      <4>1. Colon \in 1..Len(path) /\ path[Colon] = ":" /\ \A i \in 1..(Colon - 1) : path[i] # ":"
        BY <1>1, <1>2, ColonIs
      <4> HIDE DEF Colon
      <4> QED BY <1>2, <2>1, <4>1, PopDoomed
    <3> QED BY <1>3, <3>1, ReturnsAll
  <2> QED BY <1>1, <1>8, <2>1 DEF OnParamAt
<1>9. DOMAIN <<>> = {} /\ Colonless(<<>>)
  BY DEF Colonless
<1>10. id = Len(nodes) + 1
  OBVIOUS
<1>11. Linked(t2)
  <2>1. t2[at] = Parent(Head(queue), id)
    BY <1>7
  <2> HIDE DEF t2, id, up
  <2>2. UnderParam(nodes, at) => Slashing(t2, at)
    BY <1>6, <1>7, <1>8 DEF Slashing
  <2>3. \A k \in DOMAIN t2 : k \in DOMAIN nodes \/
           /\ ~t2[k].wild /\ Colonless(t2[k].indices)
           /\ \A i \in DOMAIN t2[k].children : t2[k].children[i] \notin DOMAIN nodes
    BY <1>4, <1>7, <1>9
  <2>4. \A R \in SUBSET (DOMAIN t2) :
           ClosedUnder(t2, R) /\ DOMAIN nodes \subseteq R /\ id \in R => DOMAIN t2 \subseteq R
    BY <1>7
  <2> QED BY <1>1, <1>7, <1>10, <2>1, <2>2, <2>3, <2>4, HangLinked
<1>12. Linked(nodes')
  BY <1>3, <1>11
<1> QED BY <1>3, <1>12, ReturnLinked

\* Every step of the building keeps the links.
LEMMA BuildLinked ==
    ASSUME BuildInv, Ordinary, BuildNext, phase # "aborted", phase' # "aborted",
           NEW b, Spelled(b), LinkInv
    PROVE  LinkInv'
<1>0. Linked(nodes) /\ OnParamAt(nodes, at, phase, path, queue)
  BY DEF LinkInv
<1>1. CASE InsertFirst
  <2>1. nodes' = nodes /\ at' = 1 /\ at = 1
    BY <1>1 DEF InsertFirst, GoesOn
  <2>2. ~UnderParam(nodes, 1)
    BY RootFree DEF BuildInv, Spelled
  <2>3. OnParamAt(nodes', at', phase', path', queue')
    BY <2>1, <2>2 DEF OnParamAt
  <2> QED BY <1>0, <2>1, <2>3 DEF LinkInv
<1>2. CASE InsertThroughWildcard
  BY <1>0, <1>2, ThroughLinked
<1>3. CASE InsertIntoChild
  BY <1>0, <1>3, IntoChildLinked
<1>4. CASE InsertNewChild
  BY <1>0, <1>4, NewChildLinked
<1>5. CASE InsertHere
  BY <1>0, <1>5, HereLinked
<1>6. CASE PlaceStatic
  BY <1>0, <1>6, StaticLinked
<1>7. CASE PlaceConflict
  <2>1. nodes' = nodes /\ Returns(FALSE, Tail(queue))
    BY <1>7 DEF PlaceConflict
  <2>2. Linked(nodes')
    BY <1>0, <2>1
  <2> QED BY <2>1, <2>2, ReturnLinked
<1>8. CASE PlaceParam
  BY <1>0, <1>8, ParamLinked
<1>9. CASE PlaceCatchAll
  BY <1>0, <1>9, CatchAllLinked
<1>10. ASSUME NEW route \in Routes, AddRoute(route) PROVE LinkInv'
  <2>1. nodes' = nodes /\ (at' = 1 \/ phase' = "building")
    BY <1>10 DEF AddRoute
  <2>2. ~UnderParam(nodes, 1)
    BY RootFree DEF BuildInv, Spelled
  <2>3. OnParamAt(nodes', at', phase', path', queue')
    BY <2>1, <2>2 DEF OnParamAt
  <2> QED BY <1>0, <2>1, <2>3 DEF LinkInv
<1> QED BY <1>1, <1>2, <1>3, <1>4, <1>5, <1>6, <1>7, <1>8, <1>9, <1>10 DEF BuildNext, Insert

\* The tree is linked at first.
LEMMA InitLinked == Init => LinkInv
<1> SUFFICES ASSUME Init PROVE LinkInv
  OBVIOUS
<1> DEFINE root == Node("ROOT")
<1>1. nodes = <<root>> /\ phase = "building"
  BY DEF Init, BuildInit
<1>2. root.path = <<>> /\ root.children = <<>> /\ root.indices = <<>>
  BY DEF Node
<1> HIDE DEF root
<1>3. DOMAIN nodes = {1} /\ nodes[1] = root
  BY <1>1
<1>4. Colonless(<<>>) /\ DOMAIN <<>> = {}
  BY DEF Colonless
<1>5. Connected(nodes)
  BY <1>3 DEF Connected, Below
<1>6. \A k : ~UnderParam(nodes, k)
  BY <1>2, <1>3, <1>4 DEF UnderParam
<1> QED BY <1>1, <1>2, <1>3, <1>4, <1>5, <1>6 DEF LinkInv, Linked, OnParamAt

\* Every step keeps the links.
LEMMA LinkStep ==
    ASSUME IInv, Ordinary, SpellInv, LinkInv, [Next]_vars
    PROVE  LinkInv'
<1> SUFFICES ASSUME phase' # "aborted" PROVE LinkInv'
  BY DEF LinkInv
<1>0. BuildInv /\ Bounded
  BY DEF IInv
<1>1. CASE BuildNext
  <2>1. phase # "aborted"
    BY <1>1 DEF BuildNext, AddRoute, Insert, InsertFirst, InsertThroughWildcard, InsertIntoChild,
                InsertNewChild, InsertHere, PlaceStatic, PlaceConflict, PlaceParam,
                PlaceCatchAll, Inserting
  <2>2. PICK b : Spelled(b)
    BY <2>1 DEF SpellInv
  <2> QED BY <1>0, <1>1, <2>1, <2>2, BuildLinked
<1>2. ASSUME nodes' = nodes, phase # "aborted", phase' \notin {"inserting", "placing"}
      PROVE  LinkInv'
  <2>1. Linked(nodes')
    BY <1>2 DEF LinkInv
  <2>2. OnParamAt(nodes', at', phase', path', queue')
    BY <1>2 DEF OnParamAt
  <2> QED BY <2>1, <2>2 DEF LinkInv
<1>3. CASE Serve \/ Redirect \/ Done \/ \E url \in Requests : Ask(url)
  <2>1. UNCHANGED built /\ phase # "aborted" /\ phase' \notin {"inserting", "placing"}
    BY <1>3, Zenon DEF Serve, Redirect, Done, Ask, Walks
  <2> QED BY <1>2, <2>1 DEF built
<1>4. CASE Walk
  <2>1. UNCHANGED built /\ phase = "walking" /\ phase' \in {"walking", "answered"}
    BY <1>0, <1>4, WalkStep
  <2> QED BY <1>2, <2>1 DEF built
<1>5. CASE UNCHANGED vars
  <2>1. nodes' = nodes /\ at' = at /\ phase' = phase /\ path' = path /\ queue' = queue
    BY <1>5 DEF vars, buildVars
  <2>2. Linked(nodes') /\ OnParamAt(nodes', at', phase', path', queue')
    BY <2>1 DEF LinkInv
  <2> QED BY <2>2 DEF LinkInv
<1> QED BY <1>1, <1>3, <1>4, <1>5 DEF Next

(***************************************************************************)
(* The way to the node of which the text stands for the URL.               *)
(***************************************************************************)

\* Characters stand in a text from a place on.
Written(x, p, w) ==
    p + Len(w) <= Len(x) /\ \A j \in 1..Len(w) : x[p + j] = Character(w[j])

\* And there they are characters of the URL.
Runs(v, g, p, w) ==
    \A j \in 0..Len(w) : g[p + j] = g[p] + j /\ (j > 0 => v[g[p] + j] = w[j])

\* Characters of the text are characters of the URL, one by one.
LEMMA TextRun ==
    ASSUME NEW x \in Seq(Symbols), NEW v \in Seq(UrlChars), NEW g, Leads(x, v, g),
           NEW p \in Nat, NEW w \in Seq(Chars), Written(x, p, w)
    PROVE  Runs(v, g, p, w)
<1>1. Follows(x, v, g) /\ Len(v) \in Nat /\ Len(w) \in Nat /\ Len(x) \in Nat
  BY DEF Leads
<1>2. \A j \in 0..Len(x) : g[j] \in Nat
  BY <1>1, Climbs
<1>0. p + Len(w) <= Len(x) /\ \A j \in 1..Len(w) : x[p + j] = Character(w[j])
  BY DEF Written
<1>3. ASSUME NEW j \in 1..Len(w) PROVE g[p + j] = g[(p + j) - 1] + 1 /\ v[g[p + j]] = w[j]
  <2> DEFINE i == p + j
  <2>1. i \in 1..Len(x)
    BY <1>0, <1>1
  <2>2. x[i] = Character(w[j])
    BY <1>0
  <2> HIDE DEF i
  <2>3. x[i].kind = "STATIC" /\ x[i].char = w[j]
    BY <2>2, SymbolFields
  <2>4. g[i] = g[i - 1] + 1 /\ v[g[i]] = w[j]
    BY <1>1, <2>1, <2>3 DEF Follows
  <2> QED BY <2>4 DEF i
<1>4. \A j \in 0..Len(w) : g[p + j] = g[p] + j
  <2> DEFINE T == {j \in 0..Len(w) : g[p + j] # g[p] + j}
  <2> SUFFICES ASSUME T # {} PROVE FALSE
    OBVIOUS
  <2>1. T \in SUBSET Nat
    OBVIOUS
  <2>2. PICK k \in T : \A m \in T : k <= m
    <3> HIDE DEF T
    <3> QED BY <2>1, LeastNumber
  <2>3. k \in 0..Len(w) /\ g[p + k] # g[p] + k
    OBVIOUS
  <2>7. g[p] \in Nat
    <3>1. p \in 0..Len(x)
      BY <1>0, <1>1
    <3> QED BY <1>2, <3>1
  <2>4. k # 0
    <3>1. p + 0 = p /\ g[p] + 0 = g[p]
      BY <2>7
    <3> QED BY <2>3, <3>1
  <2> DEFINE h == k - 1
  <2>5. h \in 0..Len(w) /\ ~(k <= h) /\ (p + k) - 1 = p + h /\ h + 1 = k
    BY <1>1, <2>3, <2>4
  <2>6. g[p + h] = g[p] + h
    BY <2>2, <2>5
  <2>8. g[p + k] = g[p + h] + 1
    BY <1>1, <1>3, <2>3, <2>4, <2>5
  <2> HIDE DEF T
  <2>9. h \in Nat /\ k \in Nat
    BY <1>1, <2>3, <2>5
  <2> HIDE DEF h
  <2>10. (g[p] + h) + 1 = g[p] + k
    <3> DEFINE s == g[p]
    <3>1. s \in Nat /\ h + 1 = k
      BY <2>5, <2>7
    <3> HIDE DEF s
    <3>2. (s + h) + 1 = s + k
      BY <2>9, <3>1
    <3> QED BY <3>2 DEF s
  <2>11. g[p + k] = (g[p] + h) + 1
    BY <2>6, <2>8
  <2> QED BY <2>3, <2>10, <2>11
<1>5. ASSUME NEW j \in 0..Len(w), j > 0 PROVE v[g[p] + j] = w[j]
  <2>1. j \in 1..Len(w)
    BY <1>1, <1>5
  <2> QED BY <1>3, <1>4, <2>1
<1> QED BY <1>4, <1>5 DEF Runs

\* No two wildcards are next to each other.
Apart(x) == \A j \in Wilds(x) : j + 1 \notin Wilds(x)

\* Node n of a good tree has a controller, and the URL is what its text
\* stands for.
Aimed(t, b, reg, n, v, g) ==
    /\ t \in Seq(NodeSet) /\ Closed(t) /\ 0 \notin DOMAIN t /\ WellShaped(t, 0, <<>>)
    /\ Labels(t, b, reg) /\ Linked(t)
    /\ n \in DOMAIN t /\ t[n].handle # 0 /\ Apart(TextOf(t, b, n))
    /\ v \in Seq(UrlChars) /\ Leads(TextOf(t, b, n), v, g)

\* The way there leads by a node: what stands above the node, and at it.
LEMMA OnTheWay ==
    ASSUME NEW t, NEW b, NEW reg, NEW n, NEW v, NEW g, Aimed(t, b, reg, n, v, g),
           NEW a \in DOMAIN t, Below(t, a, n)
    PROVE  LET x == TextOf(t, b, n)
               z == TextOf(t, b, a)
               o == Own(t[a])
           IN  /\ x \in Seq(Symbols) /\ z \in Seq(Symbols) /\ b[a] \in Seq(Symbols)
               /\ o \in Seq(Symbols) /\ Len(x) \in Nat /\ Len(z) \in Nat /\ Len(b[a]) \in Nat
               /\ Len(o) \in Nat /\ Len(z) = Len(b[a]) + Len(o) /\ Len(z) <= Len(x)
               /\ \A j \in 1..Len(o) : x[Len(b[a]) + j] = o[j]
               /\ Len(v) \in Nat /\ \A j \in 0..Len(x) : g[j] \in Nat /\ g[j] <= Len(v)
               /\ t[a] \in NodeSet /\ t[a].path \in Seq(Chars) /\ Len(t[a].path) \in Nat
               /\ (n = a => g[Len(z)] = Len(v))
<1> DEFINE x == TextOf(t, b, n)
           z == TextOf(t, b, a)
           o == Own(t[a])
<1>1. /\ t \in Seq(NodeSet) /\ Closed(t) /\ Labels(t, b, reg) /\ n \in DOMAIN t
      /\ v \in Seq(UrlChars) /\ Leads(x, v, g)
  BY DEF Aimed
<1>2. x \in Seq(Symbols)
  BY <1>1, TextsAre
<1>3. /\ b[a] \in Seq(Symbols) /\ t[a] \in NodeSet /\ o \in Seq(Symbols) /\ z \in Seq(Symbols)
  BY <1>1, TextsAre
<1>4. /\ Len(z) = Len(b[a]) + Len(o) /\ Len(b[a]) \in Nat /\ Len(o) \in Nat
      /\ \A j \in 1..Len(o) : z[Len(b[a]) + j] = o[j]
  BY <1>3, Joining DEF TextOf
<1>5. Heads(z, x)
  BY <1>1, BelowText
<1>6. t[a].path \in Seq(Chars) /\ Len(t[a].path) \in Nat
  BY <1>3, NodeTypes
<1>7. Follows(x, v, g) /\ Len(v) \in Nat /\ g[Len(x)] = Len(v)
  BY <1>1 DEF Leads
<1>8. Len(x) \in Nat /\ \A j \in 0..Len(x) : g[j] \in Nat /\ g[j] <= Len(v)
  <2> HIDE DEF x
  <2> QED BY <1>2, <1>7, Climbs
<1>9. n = a => g[Len(z)] = Len(v)
  BY <1>7
<1> HIDE DEF x, z, o
<1>10. \A j \in 1..Len(o) : x[Len(b[a]) + j] = o[j]
  <2> TAKE j \in 1..Len(o)
  <2>1. Len(b[a]) + j \in 1..Len(z)
    BY <1>4
  <2> QED BY <1>4, <1>5, <2>1 DEF Heads
<1>11. Len(z) \in Nat /\ Len(z) <= Len(x)
  BY <1>4, <1>5 DEF Heads
<1> QED BY <1>2, <1>3, <1>4, <1>6, <1>7, <1>8, <1>9, <1>10, <1>11 DEF x, z, o

\* The edge of a node that is no wildcard is in the URL.
LEMMA EdgeTaken ==
    ASSUME NEW t, NEW b, NEW reg, NEW n, NEW v, NEW g, Aimed(t, b, reg, n, v, g),
           NEW a \in DOMAIN t, Below(t, a, n), t[a].path # <<":">>,
           t[a].path # <<>> \/ t[a].type # "CATCH_ALL"
    PROVE  LET p == g[Len(b[a])]
               q == g[Len(TextOf(t, b, a))]
               e == t[a].path
           IN  /\ q = p + Len(e) /\ p \in Nat /\ q \in Nat /\ Len(e) \in Nat /\ q <= Len(v)
               /\ \A j \in 1..Len(e) : v[p + j] = e[j]
<1> DEFINE x == TextOf(t, b, n)
           z == TextOf(t, b, a)
           o == Own(t[a])
           e == t[a].path
           k == Len(b[a])
<1>1. /\ x \in Seq(Symbols) /\ k \in Nat /\ Len(o) \in Nat /\ Len(z) = k + Len(o)
      /\ Len(z) <= Len(x) /\ \A j \in 1..Len(o) : x[k + j] = o[j]
      /\ Len(x) \in Nat /\ Len(z) \in Nat
      /\ Len(v) \in Nat /\ \A j \in 0..Len(x) : g[j] \in Nat /\ g[j] <= Len(v)
      /\ t[a] \in NodeSet /\ e \in Seq(Chars) /\ Len(e) \in Nat
  BY OnTheWay
<1>2. v \in Seq(UrlChars) /\ Leads(x, v, g) /\ Colonless(e)
  BY DEF Aimed, Labels, LabelFits
<1>3. o = Plain(e)
  BY <1>1, <1>2, OwnText
<1>4. Len(o) = Len(e) /\ \A j \in 1..Len(e) : o[j] = Character(e[j])
  BY <1>1, <1>3, PlainIs
<1> HIDE DEF x, o, z, e, k
<1>5. Written(x, k, e)
  BY <1>1, <1>4 DEF Written
<1>10. Runs(v, g, k, e)
  BY <1>1, <1>2, <1>5, TextRun
<1>6. \A j \in 0..Len(e) : g[k + j] = g[k] + j /\ (j > 0 => v[g[k] + j] = e[j])
  BY <1>10 DEF Runs
<1>7. g[Len(z)] = g[k] + Len(e)
  BY <1>1, <1>4, <1>6
<1>8. g[k] \in Nat /\ g[Len(z)] \in Nat /\ g[Len(z)] <= Len(v)
  BY <1>1
<1>9. \A j \in 1..Len(e) : v[g[k] + j] = e[j]
  BY <1>1, <1>6
<1> QED BY <1>1, <1>7, <1>8, <1>9 DEF e, z, k

\* The way goes on in child c of node a, with a character of the URL.
GoesBy(t, b, n, v, g, a, c) ==
    LET q == g[Len(TextOf(t, b, a))]
    IN  /\ c \in DOMAIN t /\ Below(t, c, n) /\ b[c] = TextOf(t, b, a)
        /\ q \in Nat /\ q + 1 <= Len(v) /\ Begins(t[c].path, v[q + 1])
        /\ t[c].path # <<":">> /\ t[c].path # <<>>

\* Node c is a child of a.
ChildOf(t, a, c) == \E i \in DOMAIN t[a].children : c = t[a].children[i]

\* The URL goes on after a with d.
NextIs(t, b, v, g, a, d) == v[g[Len(TextOf(t, b, a))] + 1] = d

\* A child of which the edge begins with a character that is no colon.
LEMMA GoesByText ==
    ASSUME NEW t, NEW b, NEW reg, NEW n, NEW v, NEW g, Aimed(t, b, reg, n, v, g),
           NEW a \in DOMAIN t, Below(t, a, n),
           NEW c, ChildOf(t, a, c), Below(t, c, n), NEW d, d # ":", Begins(t[c].path, d)
    PROVE  GoesBy(t, b, n, v, g, a, c) /\ NextIs(t, b, v, g, a, d)
<1> DEFINE k == Len(TextOf(t, b, a))
           q == g[k]
<1>1. c \in DOMAIN t /\ b[c] = TextOf(t, b, a)
  <2>1. PICK i \in DOMAIN t[a].children : c = t[a].children[i]
    BY DEF ChildOf
  <2> QED BY <2>1, TextsAre DEF Aimed, Closed
<1>2. t[c].path # <<":">> /\ t[c].path # <<>> /\ t[c].path[1] = d
  BY DEF Begins
<1>3. /\ g[Len(TextOf(t, b, c))] = g[Len(b[c])] + Len(t[c].path)
      /\ g[Len(b[c])] \in Nat /\ g[Len(TextOf(t, b, c))] \in Nat
      /\ g[Len(TextOf(t, b, c))] <= Len(v)
      /\ \A j \in 1..Len(t[c].path) : v[g[Len(b[c])] + j] = t[c].path[j]
  BY <1>1, <1>2, EdgeTaken
<1>4. t[c].path \in Seq(Chars) /\ Len(t[c].path) \in Nat /\ Len(v) \in Nat
  BY <1>1, OnTheWay
<1>5. Len(b[c]) = k
  BY <1>1
<1> DEFINE e == t[c].path
<1>6. q \in Nat /\ q + Len(e) <= Len(v) /\ Len(e) # 0 /\ v[q + 1] = e[1]
  <2>1. e # <<>> /\ e \in Seq(Chars)
    BY <1>2, <1>4
  <2> HIDE DEF e
  <2>2. Len(e) # 0
    BY <2>1
  <2>3. q \in Nat /\ q + Len(e) <= Len(v)
    BY <1>3, <1>5 DEF e
  <2>4. 1 \in 1..Len(e)
    BY <1>4, <2>2 DEF e
  <2> QED BY <1>3, <1>5, <2>2, <2>3, <2>4 DEF e
<1>7. q + 1 <= Len(v)
  <2> HIDE DEF q, e
  <2>1. Len(e) \in Nat
    BY <1>4 DEF e
  <2> QED BY <1>4, <1>6, <2>1
<1>8. Begins(t[c].path, v[q + 1]) /\ v[q + 1] = d
  BY <1>2, <1>6 DEF Begins
<1>9. GoesBy(t, b, n, v, g, a, c)
  BY <1>1, <1>2, <1>6, <1>7, <1>8 DEF GoesBy
<1> QED BY <1>8, <1>9 DEF NextIs

\* A node that has no wildcard and is none: the way goes on by an index.
LEMMA PlainChild ==
    ASSUME NEW t, NEW b, NEW reg, NEW n, NEW v, NEW g, Aimed(t, b, reg, n, v, g),
           NEW a \in DOMAIN t, Below(t, a, n), n # a, ~t[a].wild, t[a].path # <<":">>
    PROVE  /\ Len(t[a].indices) = Len(t[a].children) /\ IsInjective(t[a].indices)
           /\ \E i \in DOMAIN t[a].children :
                 /\ GoesBy(t, b, n, v, g, a, t[a].children[i])
                 /\ i \in DOMAIN t[a].indices
                 /\ NextIs(t, b, v, g, a, t[a].indices[i])
<1>1. /\ t \in Seq(NodeSet) /\ Closed(t) /\ 0 \notin DOMAIN t /\ NodeFits(t, 0, <<>>, a)
      /\ Linked(t) /\ t[a] \in NodeSet
  BY DEF Aimed, WellShaped
<1>2. t[a].type # "PARAM"
  BY <1>1 DEF NodeFits, ParamFits
<1>3. /\ Len(t[a].indices) = Len(t[a].children) /\ IsInjective(t[a].indices)
      /\ \A i \in DOMAIN t[a].children :
            Joined(t, 0, <<>>, t[a].children[i], t[a].indices[i])
  BY <1>1, <1>2 DEF NodeFits, StaticFits
<1>4. PICK i \in DOMAIN t[a].children : Below(t, t[a].children[i], n)
  BY <1>1, BelowChild
<1>5. t[a].children[i] \in DOMAIN t
  BY <1>1 DEF Closed
<1>6. Begins(t[t[a].children[i]].path, t[a].indices[i])
  BY <1>1, <1>3, <1>5 DEF Joined
<1>7. i \in DOMAIN t[a].indices /\ i \in 1..Len(t[a].indices)
  BY <1>1, <1>3, NodeTypes
<1>8. t[a].indices[i] # ":"
  BY <1>1, <1>7 DEF Linked, Colonless
<1> DEFINE d == t[a].indices[i]
           c == t[a].children[i]
<1>9. d # ":" /\ Begins(t[c].path, d) /\ ChildOf(t, a, c) /\ Below(t, c, n)
  BY <1>4, <1>6, <1>8 DEF ChildOf
<1>10. GoesBy(t, b, n, v, g, a, c) /\ NextIs(t, b, v, g, a, d)
  <2> HIDE DEF d, c
  <2> QED BY <1>9, GoesByText
<1> QED BY <1>3, <1>7, <1>10

\* A node that has a wildcard: the way goes on by it.
LEMMA WildChild ==
    ASSUME NEW t, NEW b, NEW reg, NEW n, NEW v, NEW g, Aimed(t, b, reg, n, v, g),
           NEW a \in DOMAIN t, t[a].wild
    PROVE  LET c == t[a].children[1]
           IN  /\ c \in DOMAIN t /\ b[c] = TextOf(t, b, a) /\ IsWildcard(t[c])
               /\ (Below(t, a, n) /\ n # a => Below(t, c, n))
<1>1. /\ t \in Seq(NodeSet) /\ Closed(t) /\ NodeFits(t, 0, <<>>, a) /\ t[a] \in NodeSet
      /\ Labels(t, b, reg)
  BY DEF Aimed, WellShaped
<1>2. Len(t[a].children) = 1 /\ IsWildcard(t[t[a].children[1]])
  BY <1>1 DEF NodeFits, WildFits
<1>3. DOMAIN t[a].children = 1..1
  BY <1>1, <1>2, NodeTypes
<1>4. 1 \in DOMAIN t[a].children /\ \A i \in DOMAIN t[a].children : i = 1
  BY <1>3
<1>5. t[a].children[1] \in DOMAIN t /\ b[t[a].children[1]] = TextOf(t, b, a)
  BY <1>1, <1>4, TextsAre DEF Closed
<1>6. ASSUME Below(t, a, n), n # a PROVE Below(t, t[a].children[1], n)
  BY <1>1, <1>4, <1>6, BelowChild
<1> QED BY <1>2, <1>5, <1>6

\* A parameter's symbol.
LEMMA ParamSymbol ==
    ASSUME NEW t, NEW b, NEW reg, NEW n, NEW v, NEW g, Aimed(t, b, reg, n, v, g),
           NEW c \in DOMAIN t, Below(t, c, n), t[c].path = <<":">>
    PROVE  LET x == TextOf(t, b, n)
               k == Len(b[c])
           IN  /\ k \in Nat /\ k + 1 \in 1..Len(x) /\ Len(TextOf(t, b, c)) = k + 1
               /\ x[k + 1].kind = "PARAM" /\ x[k + 1].re = t[c].re
<1> DEFINE x == TextOf(t, b, n)
           o == Own(t[c])
           k == Len(b[c])
           s == [kind |-> "PARAM", re |-> t[c].re, name |-> t[c].name]
           w == Wildcard(s)
<1>1. o = <<w>>
  BY DEF Own
<1>2. w.kind = "PARAM" /\ w.re = t[c].re
  <2>1. s.kind = "PARAM" /\ s.re = t[c].re
    OBVIOUS
  <2> HIDE DEF s
  <2> QED BY <2>1, SymbolFields
<1>3. /\ Len(x) \in Nat /\ k \in Nat /\ Len(TextOf(t, b, c)) = k + Len(o)
      /\ Len(TextOf(t, b, c)) <= Len(x) /\ \A j \in 1..Len(o) : x[k + j] = o[j]
  BY OnTheWay
<1> HIDE DEF w
<1>4. Len(o) = 1 /\ o[1] = w
  BY <1>1
<1> HIDE DEF x, o, k
<1>5. x[k + 1] = w
  BY <1>3, <1>4
<1> QED BY <1>2, <1>3, <1>4, <1>5 DEF x, k

\* What a parameter takes of the URL.
ParamTakes(t, b, n, v, g, c) ==
    LET p == g[Len(b[c])]
        q == g[Len(TextOf(t, b, c))]
    IN  /\ p \in Nat /\ q \in Nat /\ p <= q /\ q <= Len(v) /\ Len(v) \in Nat
        /\ \A i \in (p + 1)..q : v[i] # "/"
        /\ q = Len(v) \/ v[q + 1] = "/"
        /\ Accepts(t[c].re, SubSeq(v, p + 1, q))
        /\ q = p => Skips(TextOf(t, b, n), g)

\* It takes the text up to a slash, and its pattern accepts it.
LEMMA ParamTaken ==
    ASSUME NEW t, NEW b, NEW reg, NEW n, NEW v, NEW g, Aimed(t, b, reg, n, v, g),
           NEW c \in DOMAIN t, Below(t, c, n), t[c].path = <<":">>
    PROVE  ParamTakes(t, b, n, v, g, c)
<1> DEFINE x == TextOf(t, b, n)
           k == Len(b[c])
           h == k + 1
<1>1. /\ k \in Nat /\ k + 1 \in 1..Len(x) /\ Len(TextOf(t, b, c)) = k + 1
      /\ x[k + 1].kind = "PARAM" /\ x[k + 1].re = t[c].re
  BY ParamSymbol
<1>2. Len(v) \in Nat /\ Len(x) \in Nat /\ \A j \in 0..Len(x) : g[j] \in Nat /\ g[j] <= Len(v)
  BY OnTheWay
<1>3. Leads(x, v, g)
  BY DEF Aimed
<1> HIDE DEF x, k
<1>4. h \in 1..Len(x) /\ h \in 0..Len(x) /\ k \in 0..Len(x) /\ h - 1 = k
  BY <1>1, <1>2
<1>5. x[h].kind = "PARAM" /\ x[h].re = t[c].re
  BY <1>1
<1> HIDE DEF h
<1>6. /\ g[h - 1] <= g[h] /\ \A p \in (g[h - 1] + 1)..g[h] : v[p] # "/"
      /\ g[h] = Len(v) \/ v[g[h] + 1] = "/"
  BY <1>3, <1>4, <1>5 DEF Leads, Follows
<1>7. Accepts(t[c].re, SubSeq(v, g[h - 1] + 1, g[h]))
  BY <1>3, <1>4, <1>5 DEF Leads, AcceptsAt, Taken
<1>8. g[h] = g[h - 1] => Skips(x, g)
  BY <1>4, <1>5 DEF Skips
<1>9. g[h] \in Nat /\ g[k] \in Nat /\ g[h] <= Len(v)
  BY <1>2, <1>4
<1>10. h = Len(TextOf(t, b, c)) /\ k = Len(b[c]) /\ x = TextOf(t, b, n)
  BY <1>1 DEF h, k, x
<1> QED BY <1>2, <1>4, <1>6, <1>7, <1>8, <1>9, <1>10 DEF ParamTakes

\* A wildcard's symbol.
LEMMA WildSymbol ==
    ASSUME NEW t, NEW b, NEW reg, NEW n, NEW v, NEW g, Aimed(t, b, reg, n, v, g),
           NEW c \in DOMAIN t, Below(t, c, n), IsWildcard(t[c])
    PROVE  LET k == Len(b[c])
           IN  /\ k \in Nat /\ k + 1 \in Wilds(TextOf(t, b, n)) /\ Len(TextOf(t, b, c)) = k + 1
<1>1. CASE t[c].path = <<":">>
  BY <1>1, ParamSymbol DEF Wilds
<1>2. CASE t[c].type = "CATCH_ALL" /\ t[c].path = <<>>
  <2> DEFINE x == TextOf(t, b, n)
             o == Own(t[c])
             k == Len(b[c])
             s == [kind |-> "CATCH_ALL", re |-> t[c].re, name |-> t[c].name]
             w == Wildcard(s)
  <2>1. o = <<w>>
    BY <1>2 DEF Own
  <2>2. w.kind = "CATCH_ALL"
    <3>1. s.kind = "CATCH_ALL"
      OBVIOUS
    <3> HIDE DEF s
    <3> QED BY <3>1, SymbolFields
  <2>3. /\ Len(x) \in Nat /\ k \in Nat /\ Len(TextOf(t, b, c)) = k + Len(o)
        /\ Len(TextOf(t, b, c)) <= Len(x) /\ \A j \in 1..Len(o) : x[k + j] = o[j]
    BY OnTheWay
  <2> HIDE DEF w
  <2>4. Len(o) = 1 /\ o[1] = w
    BY <2>1
  <2> HIDE DEF x, o, k
  <2>5. x[k + 1] = w
    BY <2>3, <2>4
  <2>6. k + 1 \in 1..Len(x) /\ Len(TextOf(t, b, c)) = k + 1
    BY <2>3, <2>4
  <2> QED BY <2>2, <2>3, <2>5, <2>6 DEF x, k, Wilds
<1> QED BY <1>1, <1>2 DEF IsWildcard

\* What is under a parameter: one node, which begins with the slash.
ParamLeads(t, b, n, v, g, c) ==
    LET d == t[c].children[1]
    IN  /\ ~t[c].wild /\ t[c].children # <<>> /\ UnderParam(t, d)
        /\ GoesBy(t, b, n, v, g, c, d) /\ NextIs(t, b, v, g, c, "/")

\* The way goes on under a parameter, or ends there.
LEMMA ParamBelow ==
    ASSUME NEW t, NEW b, NEW reg, NEW n, NEW v, NEW g, Aimed(t, b, reg, n, v, g),
           NEW c \in DOMAIN t, Below(t, c, n), t[c].path = <<":">>, t[c].type = "PARAM", n # c
    PROVE  ParamLeads(t, b, n, v, g, c)
<1>1. /\ t \in Seq(NodeSet) /\ Closed(t) /\ 0 \notin DOMAIN t /\ NodeFits(t, 0, <<>>, c)
      /\ Linked(t) /\ t[c] \in NodeSet /\ Apart(TextOf(t, b, n))
  BY DEF Aimed, WellShaped
<1>2. ~t[c].wild
  <2> SUFFICES ASSUME t[c].wild PROVE FALSE
    OBVIOUS
  <2> DEFINE d == t[c].children[1]
  <2>1. d \in DOMAIN t /\ b[d] = TextOf(t, b, c) /\ IsWildcard(t[d]) /\ Below(t, d, n)
    BY WildChild
  <2> HIDE DEF d
  <2>2. Len(b[d]) + 1 \in Wilds(TextOf(t, b, n))
    BY <2>1, WildSymbol
  <2>3. /\ Len(b[c]) \in Nat /\ Len(b[c]) + 1 \in Wilds(TextOf(t, b, n))
        /\ Len(TextOf(t, b, c)) = Len(b[c]) + 1
    BY WildSymbol DEF IsWildcard
  <2> QED BY <1>1, <2>1, <2>2, <2>3 DEF Apart
<1>3. /\ Len(t[c].children) <= 1
      /\ \A i \in DOMAIN t[c].children : Joined(t, 0, <<>>, t[c].children[i], "/")
  BY <1>1, <1>2 DEF NodeFits, ParamFits
<1>4. PICK i \in DOMAIN t[c].children : Below(t, t[c].children[i], n)
  BY <1>1, BelowChild
<1>5. i = 1
  <2>1. i \in 1..Len(t[c].children) /\ Len(t[c].children) \in Nat
    BY <1>1, NodeTypes
  <2> QED BY <1>3, <2>1
<1> DEFINE d == t[c].children[1]
<1>6. d \in DOMAIN t /\ Below(t, d, n) /\ ChildOf(t, c, d) /\ UnderParam(t, d)
  BY <1>1, <1>4, <1>5 DEF Closed, ChildOf, UnderParam
<1>7. Begins(t[d].path, "/")
  BY <1>1, <1>3, <1>4, <1>5, <1>6 DEF Joined
<1>8. t[c].children # <<>>
  <2>1. DOMAIN <<>> = {}
    OBVIOUS
  <2> QED BY <1>4, <2>1
<1> HIDE DEF d
<1>9. GoesBy(t, b, n, v, g, c, d) /\ NextIs(t, b, v, g, c, "/")
  <2>1. "/" # ":"
    OBVIOUS
  <2> QED BY <1>6, <1>7, <2>1, GoesByText
<1> QED BY <1>2, <1>6, <1>8, <1>9 DEF ParamLeads, d

\* The way ends at node a, or with a wildcard under it that takes nothing.
EndsIn(t, b, n, g, a) ==
    \/ n = a
    \/ /\ t[a].wild
       /\ LET c == t[a].children[1]
          IN  \/ t[c].type = "CATCH_ALL"
              \/ /\ t[c].type = "PARAM" /\ n = c /\ Accepts(t[c].re, <<>>)
                 /\ Skips(TextOf(t, b, n), g)

\* So it does where the URL ends.
LEMMA AtEnd ==
    ASSUME NEW t, NEW b, NEW reg, NEW n, NEW v, NEW g, Aimed(t, b, reg, n, v, g),
           NEW a \in DOMAIN t, Below(t, a, n), t[a].path # <<":">>,
           g[Len(TextOf(t, b, a))] = Len(v)
    PROVE  EndsIn(t, b, n, g, a)
<1> SUFFICES ASSUME n # a
             PROVE  /\ t[a].wild
                    /\ LET c == t[a].children[1]
                       IN  \/ t[c].type = "CATCH_ALL"
                           \/ /\ t[c].type = "PARAM" /\ n = c /\ Accepts(t[c].re, <<>>)
                              /\ Skips(TextOf(t, b, n), g)
  BY DEF EndsIn
<1>1. Len(v) \in Nat /\ v \in Seq(UrlChars)
  BY OnTheWay DEF Aimed
<1>2. t[a].wild
  <2> SUFFICES ASSUME ~t[a].wild PROVE FALSE
    OBVIOUS
  <2>1. \E c : GoesBy(t, b, n, v, g, a, c)
    BY PlainChild
  <2>2. g[Len(TextOf(t, b, a))] + 1 <= Len(v)
    BY <2>1 DEF GoesBy
  <2> QED BY <1>1, <2>2
<1> DEFINE c == t[a].children[1]
<1>3. c \in DOMAIN t /\ b[c] = TextOf(t, b, a) /\ IsWildcard(t[c]) /\ Below(t, c, n)
  BY <1>2, WildChild
<1> HIDE DEF c
<1>4. CASE t[c].type = "PARAM" /\ t[c].path = <<":">>
  <2>1. ParamTakes(t, b, n, v, g, c)
    BY <1>3, <1>4, ParamTaken
  <2> DEFINE p == g[Len(b[c])]
             q == g[Len(TextOf(t, b, c))]
  <2>2. /\ p \in Nat /\ q \in Nat /\ p <= q /\ q <= Len(v)
        /\ Accepts(t[c].re, SubSeq(v, p + 1, q)) /\ (q = p => Skips(TextOf(t, b, n), g))
    BY <2>1 DEF ParamTakes
  <2>3. p = Len(v)
    BY <1>3
  <2> HIDE DEF p, q
  <2>4. q = Len(v)
    BY <1>1, <2>2, <2>3
  <2>5. SubSeq(v, p + 1, q) = <<>>
    <3>1. /\ SubSeq(v, p + 1, q) \in Seq(UrlChars) /\ Len(SubSeq(v, p + 1, q)) = q - p
      BY <1>1, <2>2, <2>3, <2>4, PieceIs
    <3>2. q - p = 0
      BY <1>1, <2>3, <2>4
    <3> QED BY <3>1, <3>2, EmptySeq
  <2>6. n = c
    <3> SUFFICES ASSUME n # c PROVE FALSE
      OBVIOUS
    <3>1. ParamLeads(t, b, n, v, g, c)
      BY <1>3, <1>4, ParamBelow
    <3>2. q + 1 <= Len(v)
      BY <3>1 DEF ParamLeads, GoesBy, q
    <3> QED BY <1>1, <2>4, <3>2
  <2>7. Accepts(t[c].re, <<>>) /\ Skips(TextOf(t, b, n), g)
    BY <2>2, <2>3, <2>4, <2>5
  <2> QED BY <1>2, <1>4, <2>6, <2>7 DEF c
<1>5. CASE t[c].type = "CATCH_ALL"
  BY <1>2, <1>5 DEF c
<1> QED BY <1>3, <1>4, <1>5 DEF IsWildcard

(***************************************************************************)
(* forward on the way, with a URL that may lack its last slash.            *)
(***************************************************************************)

\* Text v is the URL r, or the URL and one more slash.
Lacks(r, v) ==
    /\ r \in Seq(UrlChars) /\ v \in Seq(UrlChars)
    /\ Len(v) = Len(r) \/ (Len(v) = Len(r) + 1 /\ v[Len(v)] = "/")
    /\ \A j \in 1..Len(r) : v[j] = r[j]

\* forward is at node a, with p left of the URL r, on its way to node n, of
\* which the text stands for v.
Seeks(t, b, reg, n, v, g, r, a, p) ==
    /\ Aimed(t, b, reg, n, v, g) /\ Lacks(r, v)
    /\ Len(v) # Len(r) => ~Skips(TextOf(t, b, n), g)
    /\ a \in DOMAIN t /\ Below(t, a, n)
    /\ t[a].path # <<":">> /\ (t[a].path # <<>> \/ t[a].type # "CATCH_ALL")
    /\ g[Len(b[a])] <= Len(r) /\ p = From(r, g[Len(b[a])] + 1)

\* The URL ends in the middle of an edge, before a slash.
Short(r, v, e, p, q) ==
    /\ Len(v) = Len(r) + 1 /\ q = Len(v) /\ Len(e) = Len(p) + 1 /\ Last(e) = "/"

\* The rest of the URL goes on after the edge e, up to q of the URL, ends with
\* it, or lacks its last slash.
LEMMA EdgeMeets ==
    ASSUME NEW r, NEW v, Lacks(r, v), NEW e \in Seq(Chars), NEW k \in Nat, k <= Len(r),
           NEW p, p = From(r, k + 1), NEW q, q = k + Len(e), q <= Len(v),
           \A j \in 1..Len(e) : v[k + j] = e[j]
    PROVE  \/ /\ q < Len(r) /\ Len(p) > Len(e) /\ IsPrefix(e, p)
              /\ From(p, Len(e) + 1) = From(r, q + 1)
           \/ q = Len(r) /\ p = e
           \/ Short(r, v, e, p, q) /\ p # e /\ ~(Len(p) > Len(e))
<1>1. /\ r \in Seq(UrlChars) /\ v \in Seq(UrlChars) /\ Len(r) \in Nat /\ Len(v) \in Nat
      /\ Len(v) = Len(r) \/ (Len(v) = Len(r) + 1 /\ v[Len(v)] = "/")
      /\ \A j \in 1..Len(r) : v[j] = r[j]
  BY DEF Lacks
<1>2. Len(e) \in Nat
  OBVIOUS
<1>3. k \in 0..Len(r)
  BY <1>1
<1>4. /\ p \in Seq(UrlChars) /\ Len(p) = Len(r) - k /\ \A j \in 1..(Len(r) - k) : p[j] = r[k + j]
  BY <1>1, <1>3, FromAfter
<1>5. CASE q <= Len(r)
  <2>1. \A j \in 1..Len(e) : j \in 1..(Len(r) - k) /\ k + j \in 1..Len(r)
    BY <1>1, <1>2, <1>5
  <2>2. \A j \in 1..Len(e) : p[j] = e[j]
    BY <1>1, <1>4, <2>1
  <2>3. CASE q = Len(r)
    <3>1. Len(p) = Len(e)
      BY <1>1, <1>2, <1>4, <2>3
    <3>2. p = e
      BY <1>4, <2>2, <3>1, SMTT(20)
    <3> QED BY <2>3, <3>2
  <2>4. CASE q < Len(r)
    <3>1. Len(p) > Len(e)
      BY <1>1, <1>2, <1>4, <2>4
    <3>2. IsPrefix(e, p)
      <4>1. Len(e) <= Len(p) /\ Len(p) \in Nat
        BY <1>1, <1>2, <1>4, <3>1
      <4>2. Len(e) \in 0..Len(p)
        BY <1>2, <4>1
      <4>3. SubSeq(p, 1, Len(e)) \in Seq(UrlChars) /\ Len(SubSeq(p, 1, Len(e))) = Len(e)
            /\ \A j \in 1..Len(e) : SubSeq(p, 1, Len(e))[j] = p[j]
        BY <1>4, <4>2, UpToIs
      <4>4. e = SubSeq(p, 1, Len(e))
        BY <2>2, <4>3, SMTT(20)
      <4> QED BY <4>1, <4>4 DEF IsPrefix
    <3>3. From(p, Len(e) + 1) = From(r, q + 1)
      <4>1. k + Len(e) <= Len(r)
        BY <2>4
      <4>2. From(From(r, k + 1), Len(e) + 1) = From(r, (k + Len(e)) + 1)
        BY <1>1, <1>2, <4>1, FromFrom
      <4> QED BY <4>2
    <3> QED BY <2>4, <3>1, <3>2, <3>3
  <2> QED BY <1>1, <1>2, <1>5, <2>3, <2>4
<1>6. CASE q > Len(r)
  <2>1. Len(v) = Len(r) + 1 /\ v[Len(v)] = "/" /\ q = Len(v)
    BY <1>1, <1>2, <1>6
  <2>2. Len(e) = Len(p) + 1 /\ Len(e) \in 1..Len(e) /\ k + Len(e) = Len(v) /\ Len(p) \in Nat
    BY <1>1, <1>2, <1>4, <2>1
  <2>3. Last(e) = "/"
    BY <2>1, <2>2 DEF Last
  <2>4. p # e /\ ~(Len(p) > Len(e))
    BY <1>2, <2>2
  <2> QED BY <2>1, <2>2, <2>3, <2>4 DEF Short
<1> QED BY <1>1, <1>2, <1>5, <1>6

\* What is left of the URL, and the edge of the node.
SeeksEdge(t, b, v, g, r, a, p) ==
    LET q == g[Len(TextOf(t, b, a))]
        e == t[a].path
    IN  /\ q \in Nat /\ q <= Len(v) /\ e \in Seq(Chars) /\ Len(r) \in Nat /\ Len(v) \in Nat
        /\ \/ /\ q < Len(r) /\ Len(p) > Len(e) /\ IsPrefix(e, p)
              /\ From(p, Len(e) + 1) = From(r, q + 1)
           \/ q = Len(r) /\ p = e
           \/ Short(r, v, e, p, q) /\ p # e /\ ~(Len(p) > Len(e))

\* The URL goes on after the edge of the node, ends with it or lacks its slash.
LEMMA SeeksMeets ==
    ASSUME NEW t, NEW b, NEW reg, NEW n, NEW v, NEW g, NEW r, NEW a, NEW p,
           Seeks(t, b, reg, n, v, g, r, a, p)
    PROVE  SeeksEdge(t, b, v, g, r, a, p)
<1> DEFINE k == g[Len(b[a])]
           q == g[Len(TextOf(t, b, a))]
           e == t[a].path
<1>1. /\ Aimed(t, b, reg, n, v, g) /\ Lacks(r, v) /\ a \in DOMAIN t /\ Below(t, a, n)
      /\ e # <<":">> /\ (e # <<>> \/ t[a].type # "CATCH_ALL")
      /\ k <= Len(r) /\ p = From(r, k + 1)
  BY DEF Seeks
<1>2. /\ q = k + Len(e) /\ k \in Nat /\ q \in Nat /\ q <= Len(v)
      /\ \A j \in 1..Len(e) : v[k + j] = e[j]
  BY <1>1, EdgeTaken
<1>3. e \in Seq(Chars)
  BY <1>1, OnTheWay
<1>4. Len(r) \in Nat /\ Len(v) \in Nat
  BY <1>1 DEF Lacks
<1> HIDE DEF k, q, e
<1>5. \/ q < Len(r) /\ Len(p) > Len(e) /\ IsPrefix(e, p) /\ From(p, Len(e) + 1) = From(r, q + 1)
      \/ q = Len(r) /\ p = e
      \/ Short(r, v, e, p, q) /\ p # e /\ ~(Len(p) > Len(e))
  BY <1>1, <1>2, <1>3, EdgeMeets
<1> QED BY <1>2, <1>3, <1>4, <1>5 DEF SeeksEdge, q, e

\* What is left after a node on the way is what is left before the next.
LEMMA SeeksOn ==
    ASSUME NEW t, NEW b, NEW reg, NEW n, NEW v, NEW g, NEW r, NEW a, NEW p,
           Seeks(t, b, reg, n, v, g, r, a, p),
           NEW c, NEW f, GoesBy(t, b, n, v, g, f, c), g[Len(TextOf(t, b, f))] <= Len(r),
           NEW p2, p2 = From(r, g[Len(TextOf(t, b, f))] + 1)
    PROVE  Seeks(t, b, reg, n, v, g, r, c, p2)
BY DEF Seeks, GoesBy

\* The value of a parameter is what the parameter takes.
LEMMA ValueTaken ==
    ASSUME NEW r, NEW v, Lacks(r, v), NEW q \in Nat, q < Len(r), Under = From(r, q + 1),
           NEW z \in Nat, q <= z, z <= Len(v), \A i \in (q + 1)..z : v[i] # "/",
           z = Len(v) \/ v[z + 1] = "/"
    PROVE  /\ z <= Len(r) /\ Len(Value) = z - q /\ Value = SubSeq(v, q + 1, z)
           /\ Under \in Seq(UrlChars) /\ Len(Under) = Len(r) - q
           /\ From(Under, Len(Value) + 1) = From(r, z + 1)
<1>1. /\ r \in Seq(UrlChars) /\ v \in Seq(UrlChars) /\ Len(r) \in Nat /\ Len(v) \in Nat
      /\ Len(v) = Len(r) \/ (Len(v) = Len(r) + 1 /\ v[Len(v)] = "/")
      /\ \A j \in 1..Len(r) : v[j] = r[j]
  BY DEF Lacks
<1>2. q \in 0..Len(r)
  BY <1>1
<1>3. /\ Under \in Seq(UrlChars) /\ Len(Under) = Len(r) - q
      /\ \A j \in 1..(Len(r) - q) : Under[j] = r[q + j]
  BY <1>1, <1>2, FromAfter
<1> DEFINE l == Len(Value)
<1>4. /\ l \in 0..Len(Under) /\ Len(Under) \in Nat /\ Value = SubSeq(Under, 1, l)
      /\ \A j \in 1..l : Under[j] # "/"
      /\ l = Len(Under) \/ Under[l + 1] = "/"
  BY <1>3, ValueIs
<1> HIDE DEF l
<1>5. \A j \in 1..(Len(r) - q) : Under[j] = v[q + j]
  BY <1>1, <1>3
<1>6. z <= Len(r)
  <2> SUFFICES ASSUME z > Len(r) PROVE FALSE
    BY <1>1
  <2>1. z = Len(v) /\ v[Len(v)] = "/" /\ Len(v) \in (q + 1)..z
    BY <1>1
  <2> QED BY <2>1
<1>7. ~(l < z - q)
  <2> SUFFICES ASSUME l < z - q PROVE FALSE
    OBVIOUS
  <2>1. l + 1 \in 1..(Len(r) - q) /\ q + (l + 1) \in (q + 1)..z /\ l # Len(Under) /\ l \in Nat
    BY <1>1, <1>3, <1>4, <1>6
  <2> QED BY <1>4, <1>5, <2>1
<1>8. ~(l > z - q)
  <2> SUFFICES ASSUME l > z - q PROVE FALSE
    OBVIOUS
  <2>1. /\ (z - q) + 1 \in 1..l /\ (z - q) + 1 \in 1..(Len(r) - q) /\ q + ((z - q) + 1) = z + 1
        /\ z # Len(v)
    BY <1>1, <1>3, <1>4, <1>6
  <2>2. Under[(z - q) + 1] = v[z + 1]
    BY <1>5, <2>1
  <2> QED BY <1>4, <2>1, <2>2
<1>9. l = z - q /\ z - q \in Nat
  BY <1>4, <1>7, <1>8
<1>10. Value = SubSeq(v, q + 1, z)
  <2>1. /\ SubSeq(v, q + 1, z) \in Seq(UrlChars) /\ Len(SubSeq(v, q + 1, z)) = z - q
        /\ \A j \in 1..(z - q) : SubSeq(v, q + 1, z)[j] = v[q + j]
    BY <1>1, PieceIs
  <2>2. /\ SubSeq(Under, 1, l) \in Seq(UrlChars) /\ Len(SubSeq(Under, 1, l)) = l
        /\ \A j \in 1..l : SubSeq(Under, 1, l)[j] = Under[j]
    BY <1>3, <1>4, UpToIs
  <2>3. \A j \in 1..l : Value[j] = v[q + j]
    <3>1. \A j \in 1..l : j \in 1..(Len(r) - q)
      BY <1>1, <1>3, <1>4
    <3> QED BY <1>4, <1>5, <2>2, <3>1
  <2>4. Value \in Seq(UrlChars) /\ Len(Value) = l
    BY <1>4, <2>2
  <2> HIDE DEF l
  <2>5. \A j \in 1..(z - q) : Value[j] = SubSeq(v, q + 1, z)[j]
    BY <1>9, <2>1, <2>3
  <2> QED BY <1>9, <2>1, <2>4, <2>5, SMTT(20)
<1>11. From(Under, l + 1) = From(r, z + 1)
  <2>1. q + l <= Len(r) /\ l \in Nat /\ q + l = z
    BY <1>1, <1>6, <1>9
  <2>2. From(From(r, q + 1), l + 1) = From(r, (q + l) + 1)
    BY <1>1, <2>1, FromFrom
  <2> QED BY <2>1, <2>2
<1> QED BY <1>3, <1>6, <1>9, <1>10, <1>11 DEF l

\* forward is on its way to node n.
OnWay(b, n, v, g) == Seeks(nodes, b, registered, n, v, g, request, at, path)

\* It has found a controller, or the URL lacks a slash and the client is told.
Served(v) ==
    phase' = "answered" /\ (found' # 0 \/ (Len(v) # Len(request) /\ tsr' = TRUE))

\* It is still on its way.
StillOn(b, n, v, g) == phase' = "walking" /\ OnWay(b, n, v, g)'

\* Indice finds the child of an index.
LEMMA IndiceOf ==
    ASSUME NEW m \in NodeSet, Len(m.indices) = Len(m.children), IsInjective(m.indices),
           NEW i \in DOMAIN m.indices, NEW d, d = m.indices[i]
    PROVE  Indice(m, d) = m.children[i] /\ Indice(m, d) # 0
<1>1. /\ m.indices \in Seq(Chars) /\ m.children \in Seq(Nat \ {0})
      /\ Len(m.indices) \in Nat /\ DOMAIN m.indices = 1..Len(m.indices)
      /\ DOMAIN m.children = 1..Len(m.children)
  BY NodeTypes
<1>2. Len(m.indices) <= Len(m.children)
  BY <1>1
<1>3. \/ Indice(m, d) = 0 /\ \A j \in DOMAIN m.indices : m.indices[j] # d
      \/ \E j \in DOMAIN m.indices :
            m.indices[j] = d /\ Indice(m, d) = m.children[j] /\ Indice(m, d) # 0
  BY <1>2, IndiceIs
<1>4. PICK j \in DOMAIN m.indices :
           m.indices[j] = d /\ Indice(m, d) = m.children[j] /\ Indice(m, d) # 0
  BY <1>3
<1>5. j = i
  BY <1>4 DEF IsInjective
<1> QED BY <1>4, <1>5

\* The parts of what is known on the way.
LEMMA WayIs ==
    ASSUME NEW b, NEW n, NEW v, NEW g, OnWay(b, n, v, g), phase = "walking"
    PROVE  LET q == g[Len(TextOf(nodes, b, at))]
           IN  /\ Aimed(nodes, b, registered, n, v, g) /\ Lacks(request, v)
               /\ (Len(v) # Len(request) => ~Skips(TextOf(nodes, b, n), g))
               /\ at \in DOMAIN nodes /\ Below(nodes, at, n) /\ Here \in NodeSet
               /\ Here.path # <<":">> /\ n \in DOMAIN nodes /\ nodes[n].handle # 0
               /\ q \in Nat /\ q <= Len(v) /\ Len(request) \in Nat /\ Len(v) \in Nat
               /\ Len(v) = Len(request) \/ (Len(v) = Len(request) + 1 /\ v[Len(v)] = "/")
               /\ \A j \in 1..Len(request) : v[j] = request[j]
               /\ \/ Longer /\ ~Equal /\ q < Len(request) /\ Under = From(request, q + 1)
                  \/ Equal /\ ~Longer /\ q = Len(request)
                  \/ ~Longer /\ ~Equal /\ Short(request, v, Here.path, path, q)
               /\ (n = at => q = Len(v))
<1> DEFINE q == g[Len(TextOf(nodes, b, at))]
<1>1. SeeksEdge(nodes, b, v, g, request, at, path)
  BY SeeksMeets DEF OnWay
<1>2. /\ Aimed(nodes, b, registered, n, v, g) /\ Lacks(request, v)
      /\ (Len(v) # Len(request) => ~Skips(TextOf(nodes, b, n), g))
      /\ at \in DOMAIN nodes /\ Below(nodes, at, n) /\ Here.path # <<":">>
  BY DEF OnWay, Seeks, Here
<1>3. Here \in NodeSet /\ (n = at => q = Len(v))
  BY <1>2, OnTheWay DEF Here
<1>4. n \in DOMAIN nodes /\ nodes[n].handle # 0
  BY <1>2 DEF Aimed
<1>5. /\ Len(v) = Len(request) \/ (Len(v) = Len(request) + 1 /\ v[Len(v)] = "/")
      /\ \A j \in 1..Len(request) : v[j] = request[j]
  BY <1>2 DEF Lacks
<1>6. /\ q \in Nat /\ q <= Len(v) /\ Len(request) \in Nat /\ Len(v) \in Nat
      /\ Here.path \in Seq(Chars)
      /\ \/ /\ q < Len(request) /\ Len(path) > Len(Here.path) /\ IsPrefix(Here.path, path)
            /\ Under = From(request, q + 1)
         \/ q = Len(request) /\ path = Here.path
         \/ /\ Short(request, v, Here.path, path, q) /\ path # Here.path
            /\ ~(Len(path) > Len(Here.path))
  BY <1>1 DEF SeeksEdge, Here, Under
<1> HIDE DEF q
<1>7. \/ Longer /\ ~Equal /\ q < Len(request) /\ Under = From(request, q + 1)
      \/ Equal /\ ~Longer /\ q = Len(request)
      \/ ~Longer /\ ~Equal /\ Short(request, v, Here.path, path, q)
  <2>1. Len(Here.path) \in Nat
    BY <1>6
  <2>2. CASE /\ q < Len(request) /\ Len(path) > Len(Here.path) /\ IsPrefix(Here.path, path)
             /\ Under = From(request, q + 1)
    <3>1. path # Here.path
      BY <2>1, <2>2
    <3> QED BY <2>2, <3>1 DEF Longer, Equal
  <2>3. CASE q = Len(request) /\ path = Here.path
    <3>1. ~(Len(path) > Len(Here.path))
      BY <2>1, <2>3
    <3> QED BY <2>3, <3>1 DEF Longer, Equal
  <2>4. CASE /\ Short(request, v, Here.path, path, q) /\ path # Here.path
             /\ ~(Len(path) > Len(Here.path))
    BY <2>4 DEF Longer, Equal
  <2> QED BY <1>6, <2>2, <2>3, <2>4
<1> QED BY <1>2, <1>3, <1>4, <1>5, <1>6, <1>7 DEF q

\* The wildcard under the node that forward is at is on its way.
LEMMA WayWild ==
    ASSUME NEW b, NEW n, NEW v, NEW g, OnWay(b, n, v, g), phase = "walking", Here.wild
    PROVE  LET c == Here.children[1]
           IN  /\ c \in DOMAIN nodes /\ b[c] = TextOf(nodes, b, at) /\ IsWildcard(nodes[c])
               /\ (n # at => Below(nodes, c, n)) /\ Child(Here) = nodes[c]
               /\ Here.children # <<>>
<1>1. Aimed(nodes, b, registered, n, v, g) /\ at \in DOMAIN nodes /\ Below(nodes, at, n)
  BY WayIs
<1> DEFINE c == nodes[at].children[1]
<1>2. nodes[at].wild
  BY DEF Here
<1>3. /\ c \in DOMAIN nodes /\ b[c] = TextOf(nodes, b, at) /\ IsWildcard(nodes[c])
      /\ (Below(nodes, at, n) /\ n # at => Below(nodes, c, n))
  BY <1>1, <1>2, WildChild
<1>4. nodes[at].children # <<>>
  <2>1. NodeFits(nodes, 0, <<>>, at)
    BY <1>1 DEF Aimed, WellShaped
  <2>2. Len(nodes[at].children) = 1
    BY <1>2, <2>1 DEF NodeFits, WildFits
  <2>3. Len(<<>>) = 0
    OBVIOUS
  <2> QED BY <2>2, <2>3
<1>5. Here.children[1] = c /\ Child(Here) = nodes[c] /\ Here.children # <<>>
  BY <1>4 DEF Here, Child
<1> HIDE DEF c
<1> QED BY <1>1, <1>3, <1>5

\* forward has found a controller.
LEMMA FoundServed ==
    ASSUME NEW v, NEW c, c # 0, NEW hint, NEW bound, Answers(c, hint, bound)
    PROVE  Served(v)
BY DEF Answers, Served

\* The index that the URL goes on with leads forward on its way.
LEMMA WayIndex ==
    ASSUME NEW b, NEW n, NEW v, NEW g, OnWay(b, n, v, g), phase = "walking", ~Here.wild,
           n # at
    PROVE  \E c : /\ GoesBy(nodes, b, n, v, g, at, c)
                  /\ Indice(Here, v[g[Len(TextOf(nodes, b, at))] + 1]) = c /\ c # 0
<1>1. /\ Aimed(nodes, b, registered, n, v, g) /\ at \in DOMAIN nodes /\ Below(nodes, at, n)
      /\ nodes[at].path # <<":">> /\ nodes[at] \in NodeSet /\ ~nodes[at].wild
  BY WayIs DEF Here
<1>2. /\ Len(nodes[at].indices) = Len(nodes[at].children) /\ IsInjective(nodes[at].indices)
      /\ \E i \in DOMAIN nodes[at].children :
            /\ GoesBy(nodes, b, n, v, g, at, nodes[at].children[i])
            /\ i \in DOMAIN nodes[at].indices
            /\ NextIs(nodes, b, v, g, at, nodes[at].indices[i])
  BY <1>1, PlainChild
<1>3. PICK i \in DOMAIN nodes[at].indices :
            /\ GoesBy(nodes, b, n, v, g, at, nodes[at].children[i])
            /\ NextIs(nodes, b, v, g, at, nodes[at].indices[i])
  BY <1>2
<1> DEFINE d == v[g[Len(TextOf(nodes, b, at))] + 1]
<1>4. d = nodes[at].indices[i]
  BY <1>3 DEF NextIs
<1> HIDE DEF d
<1>5. Indice(nodes[at], d) = nodes[at].children[i] /\ Indice(nodes[at], d) # 0
  BY <1>1, <1>2, <1>4, IndiceOf
<1>6. Indice(Here, d) = nodes[at].children[i] /\ nodes[at].children[i] # 0
  BY <1>5 DEF Here
<1> QED BY <1>3, <1>6 DEF d

\* forward goes on to child c.
LEMMA WayDown ==
    ASSUME NEW b, NEW n, NEW v, NEW g, OnWay(b, n, v, g), phase = "walking",
           NEW f, NEW c, GoesBy(nodes, b, n, v, g, f, c),
           g[Len(TextOf(nodes, b, f))] <= Len(request),
           NEW p2, p2 = From(request, g[Len(TextOf(nodes, b, f))] + 1),
           NEW bound, Descends(c, p2, bound)
    PROVE  StillOn(b, n, v, g)
<1>1. Seeks(nodes, b, registered, n, v, g, request, c, p2)
  BY SeeksOn DEF OnWay
<1>2. /\ nodes' = nodes /\ registered' = registered /\ request' = request /\ at' = c /\ path' = p2
      /\ phase' = "walking"
  BY DEF Descends, built
<1>3. Seeks(nodes', b, registered', n, v, g, request', at', path')
  BY <1>1, <1>2
<1> QED BY <1>2, <1>3 DEF StillOn, OnWay

\* An edge is followed, and it is on the way.
LEMMA FollowSeeks ==
    ASSUME NEW b, NEW n, NEW v, NEW g, OnWay(b, n, v, g), Follow \/ NoEdge
    PROVE  StillOn(b, n, v, g)
<1>1. phase = "walking" /\ Longer /\ ~Here.wild
  BY DEF Follow, NoEdge, Longer
<1> DEFINE q == g[Len(TextOf(nodes, b, at))]
<1>2. /\ q \in Nat /\ q < Len(request) /\ Under = From(request, q + 1) /\ Len(request) \in Nat
      /\ Len(v) \in Nat /\ Len(request) <= Len(v) /\ n # at
      /\ \A j \in 1..Len(request) : v[j] = request[j]
      /\ Lacks(request, v)
  BY <1>1, WayIs
<1>3. Under[1] = v[q + 1]
  <2> HIDE DEF q
  <2>1. q \in 0..Len(request) /\ request \in Seq(UrlChars) /\ 1 \in 1..(Len(request) - q)
        /\ q + 1 \in 1..Len(request)
    BY <1>2 DEF Lacks
  <2>2. \A j \in 1..(Len(request) - q) : From(request, q + 1)[j] = request[q + j]
    BY <2>1, FromAfter
  <2> QED BY <1>2, <2>1, <2>2
<1>4. PICK c : GoesBy(nodes, b, n, v, g, at, c) /\ Indice(Here, v[q + 1]) = c /\ c # 0
  BY <1>1, <1>2, WayIndex
<1>5. Indice(Here, Under[1]) = c /\ Indice(Here, Under[1]) # 0
  BY <1>3, <1>4
<1>6. Descends(c, Under, params)
  BY <1>5 DEF Follow, NoEdge
<1>7. g[Len(TextOf(nodes, b, at))] <= Len(request)
      /\ Under = From(request, g[Len(TextOf(nodes, b, at))] + 1)
  BY <1>2
<1> QED BY <1>1, <1>4, <1>6, <1>7, WayDown

(***************************************************************************)
(* Wildcards on the way, and its end.                                      *)
(***************************************************************************)

\* A text that is not empty has a length.
LEMMA SomeText == ASSUME NEW w \in Seq(Chars), w # <<>> PROVE Len(w) # 0
<1> DEFINE S == Chars
<1>1. w \in Seq(S)
  OBVIOUS
<1> HIDE DEF S
<1>2. \A seq \in Seq(S) : (seq # <<>>) => (Len(seq) \in Nat \ {0})
  BY EmptySeq
<1>3. Len(w) \in Nat \ {0}
  BY <1>1, <1>2
<1> QED BY <1>3

\* What is no longer than one character, and not empty, is one character.
LEMMA OneLeft ==
    ASSUME NEW z \in Nat, NEW m \in Nat, m # 0, NEW y, y = z + m, NEW l, l = z + 1, y <= l
    PROVE  m = 1 /\ y = l
OBVIOUS

\* What a parameter under the node takes is its value, and is accepted.
LEMMA WayParam ==
    ASSUME NEW b, NEW n, NEW v, NEW g, OnWay(b, n, v, g), AtParam
    PROVE  LET c == Here.children[1]
               q == g[Len(b[c])]
               z == g[Len(TextOf(nodes, b, c))]
           IN  /\ c \in DOMAIN nodes /\ Child(Here) = nodes[c] /\ nodes[c].type = "PARAM"
               /\ nodes[c].path = <<":">> /\ Below(nodes, c, n)
               /\ q \in Nat /\ z \in Nat /\ z <= Len(request) /\ Len(Value) = z - q
               /\ Len(Under) = Len(request) - q /\ Under \in Seq(UrlChars)
               /\ From(Under, Len(Value) + 1) = From(request, z + 1)
               /\ Accepts(nodes[c].re, Value)
               /\ n = c => z = Len(v)
<1>1. phase = "walking" /\ Longer /\ Here.wild /\ Child(Here).type = "PARAM"
  BY DEF AtParam, Longer
<1> DEFINE c == Here.children[1]
           q == g[Len(b[c])]
           z == g[Len(TextOf(nodes, b, c))]
<1>2. /\ Aimed(nodes, b, registered, n, v, g) /\ Lacks(request, v)
      /\ g[Len(TextOf(nodes, b, at))] < Len(request) /\ g[Len(TextOf(nodes, b, at))] \in Nat
      /\ Under = From(request, g[Len(TextOf(nodes, b, at))] + 1)
      /\ Len(request) \in Nat /\ Len(v) \in Nat /\ Len(request) <= Len(v) /\ n # at
  BY <1>1, WayIs
<1>3. /\ c \in DOMAIN nodes /\ b[c] = TextOf(nodes, b, at) /\ IsWildcard(nodes[c])
      /\ (n # at => Below(nodes, c, n)) /\ Child(Here) = nodes[c]
  BY <1>1, WayWild
<1> HIDE DEF c
<1>4. nodes[c].type = "PARAM" /\ nodes[c].path = <<":">> /\ Below(nodes, c, n)
  BY <1>1, <1>2, <1>3 DEF IsWildcard
<1>5. ParamTakes(nodes, b, n, v, g, c)
  BY <1>2, <1>3, <1>4, ParamTaken
<1>6. /\ q \in Nat /\ z \in Nat /\ q <= z /\ z <= Len(v)
      /\ (\A i \in (q + 1)..z : v[i] # "/") /\ (z = Len(v) \/ v[z + 1] = "/")
      /\ Accepts(nodes[c].re, SubSeq(v, q + 1, z))
  BY <1>5 DEF ParamTakes
<1>7. q < Len(request) /\ Under = From(request, q + 1)
  BY <1>2, <1>3
<1>8. n = c => z = Len(v)
  BY <1>2, <1>3, <1>4, OnTheWay
<1> HIDE DEF q, z
<1>9. /\ z <= Len(request) /\ Len(Value) = z - q /\ Value = SubSeq(v, q + 1, z)
      /\ Under \in Seq(UrlChars) /\ Len(Under) = Len(request) - q
      /\ From(Under, Len(Value) + 1) = From(request, z + 1)
  BY <1>2, <1>6, <1>7, ValueTaken
<1> QED BY <1>3, <1>4, <1>6, <1>8, <1>9 DEF c, q, z

\* The parameter is not refused.
LEMMA NotRefused ==
    ASSUME NEW b, NEW n, NEW v, NEW g, OnWay(b, n, v, g), AtParam
    PROVE  ~Refused
<1>1. Child(Here) = nodes[Here.children[1]] /\ Accepts(nodes[Here.children[1]].re, Value)
  BY WayParam
<1> QED BY <1>1 DEF Refused

\* What hangs under a parameter of which the URL lacks the slash.
LEMMA SlashUnder ==
    ASSUME NEW b, NEW n, NEW v, NEW g, OnWay(b, n, v, g), AtParam,
           Value = Under, Child(Here).handle = 0
    PROVE  Len(v) # Len(request) /\ SlashBelow(Child(Here))
<1> DEFINE c == Here.children[1]
           q == g[Len(b[c])]
           z == g[Len(TextOf(nodes, b, c))]
<1>1. /\ c \in DOMAIN nodes /\ Child(Here) = nodes[c] /\ nodes[c].type = "PARAM"
      /\ nodes[c].path = <<":">> /\ Below(nodes, c, n)
      /\ q \in Nat /\ z \in Nat /\ Len(Value) = z - q /\ Len(Under) = Len(request) - q
  BY WayParam
<1>2. /\ Aimed(nodes, b, registered, n, v, g) /\ nodes[n].handle # 0
      /\ (Len(v) # Len(request) => ~Skips(TextOf(nodes, b, n), g))
      /\ Len(request) \in Nat /\ Len(v) \in Nat
      /\ (Len(v) = Len(request) \/ Len(v) = Len(request) + 1)
  BY WayIs DEF AtParam, Longer
<1> HIDE DEF c, q, z
<1>0. Len(Value) = Len(Under)
  OBVIOUS
<1>3. z = Len(request)
  BY <1>0, <1>1, <1>2
<1>4. n # c
  BY <1>1, <1>2
<1>5. ParamLeads(nodes, b, n, v, g, c)
  BY <1>1, <1>2, <1>4, ParamBelow
<1> DEFINE d == nodes[c].children[1]
<1>6. /\ nodes[c].children # <<>> /\ UnderParam(nodes, d) /\ d \in DOMAIN nodes
      /\ Below(nodes, d, n) /\ b[d] = TextOf(nodes, b, c) /\ z + 1 <= Len(v)
      /\ Begins(nodes[d].path, v[z + 1]) /\ v[z + 1] = "/"
      /\ nodes[d].path # <<":">> /\ nodes[d].path # <<>>
  BY <1>5 DEF ParamLeads, GoesBy, NextIs, z
<1>7. Len(v) = Len(request) + 1 /\ ~Skips(TextOf(nodes, b, n), g)
  BY <1>2, <1>3, <1>6
<1> HIDE DEF d
<1> DEFINE e == nodes[d].path
           y == g[Len(TextOf(nodes, b, d))]
<1>8. y = g[Len(b[d])] + Len(e) /\ y \in Nat /\ Len(e) \in Nat /\ y <= Len(v)
  BY <1>2, <1>6, EdgeTaken
<1>9. g[Len(b[d])] = z
  BY <1>6 DEF z
<1>10. e \in Seq(Chars) /\ e # <<>> /\ e[1] = "/"
  BY <1>2, <1>6, OnTheWay DEF Begins
<1> HIDE DEF e, y
<1>11. Len(e) # 0
  BY <1>10, SomeText
<1>12. Len(e) = 1 /\ y = Len(v)
  <2>1. y = z + Len(e) /\ y \in Nat /\ Len(e) \in Nat /\ y <= Len(v) /\ z \in Nat
    BY <1>1, <1>8, <1>9
  <2>2. Len(v) = z + 1
    BY <1>3, <1>7
  <2> QED BY ONLY <1>11, <2>1, <2>2, OneLeft
<1>13. e = <<"/">>
  BY <1>10, <1>12, SMTT(20)
<1>14. EndsIn(nodes, b, n, g, d)
  <2>1. g[Len(TextOf(nodes, b, d))] = Len(v)
    BY <1>12 DEF y
  <2> QED BY <1>2, <1>6, <2>1, AtEnd
<1>15. CASE n = d
  BY <1>1, <1>2, <1>6, <1>7, <1>13, <1>15 DEF SlashBelow, Child, d, e
<1>16. CASE nodes[d].wild /\ nodes[nodes[d].children[1]].type = "CATCH_ALL"
  <2>1. Linked(nodes)
    BY <1>2 DEF Aimed
  <2>2. Slashing(nodes, d)
    BY <1>6, <2>1 DEF Linked
  <2>3. nodes[d].indices = <<"/">>
    BY <1>16, <2>2 DEF Slashing
  <2> QED BY <1>1, <1>6, <1>7, <2>3 DEF SlashBelow, Child, d
<1> QED BY <1>7, <1>14, <1>15, <1>16 DEF EndsIn

\* A URL that ends in a parameter.
LEMMA ParamEndsSeeks ==
    ASSUME NEW b, NEW n, NEW v, NEW g, OnWay(b, n, v, g), ParamEnds
    PROVE  Served(v)
<1>1. AtParam
  BY DEF ParamEnds
<1>2. CASE Child(Here).handle # 0 /\ Answers(Child(Here).handle, FALSE, Bound)
  BY <1>2, FoundServed
<1>3. CASE /\ Child(Here).handle = 0 /\ Value = Under
           /\ Answers(0, SlashBelow(Child(Here)), Bound)
  <2>1. Len(v) # Len(request) /\ SlashBelow(Child(Here))
    BY <1>1, <1>3, SlashUnder
  <2>2. phase' = "answered" /\ tsr' = SlashBelow(Child(Here))
    BY <1>3 DEF Answers
  <2>3. tsr' = TRUE
    <3>1. SlashBelow(Child(Here)) = TRUE
      BY <2>1 DEF SlashBelow
    <3> QED BY <2>2, <3>1
  <2> QED BY <2>1, <2>2, <2>3 DEF Served
<1> QED BY <1>2, <1>3 DEF ParamEnds

\* A URL that goes on after a parameter.
LEMMA ParamGoesOnSeeks ==
    ASSUME NEW b, NEW n, NEW v, NEW g, OnWay(b, n, v, g), ParamGoesOn
    PROVE  StillOn(b, n, v, g)
<1>1. AtParam /\ Value # Under /\ phase = "walking"
  BY DEF ParamGoesOn, AtParam, Longer
<1> DEFINE c == Here.children[1]
           q == g[Len(b[c])]
           z == g[Len(TextOf(nodes, b, c))]
<1>2. /\ c \in DOMAIN nodes /\ Child(Here) = nodes[c] /\ nodes[c].type = "PARAM"
      /\ nodes[c].path = <<":">> /\ Below(nodes, c, n)
      /\ q \in Nat /\ z \in Nat /\ z <= Len(request) /\ Len(Value) = z - q
      /\ Len(Under) = Len(request) - q /\ Under \in Seq(UrlChars)
      /\ From(Under, Len(Value) + 1) = From(request, z + 1)
      /\ (n = c => z = Len(v))
  BY <1>1, WayParam
<1>3. /\ Aimed(nodes, b, registered, n, v, g) /\ Len(request) \in Nat /\ Len(v) \in Nat
      /\ (Len(v) = Len(request) \/ Len(v) = Len(request) + 1)
  BY <1>1, WayIs
<1> HIDE DEF c, q, z
<1>4. z # Len(request)
  <2> SUFFICES ASSUME z = Len(request) PROVE FALSE
    OBVIOUS
  <2>1. Len(Value) = Len(Under)
    BY <1>2, <1>3
  <2>2. Value = SubSeq(Under, 1, Len(Value))
    BY <1>2, ValueIs
  <2>3. SubSeq(Under, 1, Len(Under)) = Under
    BY <1>2, SubSeqFull
  <2> QED BY <1>1, <2>1, <2>2, <2>3
<1>5. n # c
  BY <1>2, <1>3, <1>4
<1>6. ParamLeads(nodes, b, n, v, g, c)
  BY <1>2, <1>3, <1>5, ParamBelow
<1> DEFINE d == nodes[c].children[1]
<1>7. nodes[c].children # <<>> /\ GoesBy(nodes, b, n, v, g, c, d)
  BY <1>6 DEF ParamLeads
<1>8. Descends(d, From(request, z + 1), Bound)
  <2>1. Descends(d, From(Under, Len(Value) + 1), Bound)
    BY <1>2, <1>7 DEF ParamGoesOn
  <2> QED BY <1>2, <2>1
<1> HIDE DEF d
<1>9. z <= Len(request)
  BY <1>2
<1> QED BY <1>1, <1>7, <1>8, <1>9, WayDown DEF z

\* A catch-all takes the rest.
LEMMA TakeAllSeeks ==
    ASSUME NEW b, NEW n, NEW v, NEW g, OnWay(b, n, v, g), TakeAll
    PROVE  Served(v)
<1>1. phase = "walking" /\ Here.wild /\ Child(Here).type = "CATCH_ALL"
  BY DEF TakeAll, Longer
<1>2. Child(Here) = nodes[Here.children[1]] /\ IsWildcard(nodes[Here.children[1]])
  BY <1>1, WayWild
<1>3. Child(Here).handle # 0
  BY <1>1, <1>2 DEF IsWildcard
<1>4. Answers(Child(Here).handle, FALSE, Bind(Child(Here).name, Under))
  BY DEF TakeAll
<1> QED BY <1>3, <1>4, FoundServed

\* The wildcard under a node at which the URL ends fits, and has a controller.
LEMMA EndWild ==
    ASSUME NEW b, NEW n, NEW v, NEW g, OnWay(b, n, v, g), Equal, Here.handle = 0, Here.wild
    PROVE  EmptyFits(Child(Here)) /\ Child(Here).handle # 0
<1>1. phase = "walking"
  BY DEF Equal
<1> DEFINE c == Here.children[1]
           q == g[Len(TextOf(nodes, b, at))]
<1>2. /\ Aimed(nodes, b, registered, n, v, g) /\ nodes[n].handle # 0
      /\ (Len(v) # Len(request) => ~Skips(TextOf(nodes, b, n), g))
      /\ at \in DOMAIN nodes /\ Below(nodes, at, n) /\ nodes[at].path # <<":">>
      /\ q \in Nat /\ q = Len(request) /\ Len(request) \in Nat /\ Len(v) \in Nat
      /\ (Len(v) = Len(request) \/ (Len(v) = Len(request) + 1 /\ v[Len(v)] = "/"))
  BY <1>1, WayIs DEF Here, Longer
<1>3. n # at
  BY <1>2 DEF Here
<1>4. /\ c \in DOMAIN nodes /\ b[c] = TextOf(nodes, b, at) /\ IsWildcard(nodes[c])
      /\ Below(nodes, c, n) /\ Child(Here) = nodes[c] /\ c = nodes[at].children[1]
  BY <1>1, <1>3, WayWild DEF Here
<1>5. CASE nodes[c].type = "CATCH_ALL"
  BY <1>4, <1>5 DEF EmptyFits, IsWildcard
<1>6. CASE nodes[c].type = "PARAM" /\ nodes[c].path = <<":">>
  <2>1. CASE Len(v) = Len(request)
    <3>1. EndsIn(nodes, b, n, g, at)
      BY <1>2, <2>1, AtEnd
    <3>2. n = nodes[at].children[1] /\ Accepts(nodes[nodes[at].children[1]].re, <<>>)
      <4>1. nodes[nodes[at].children[1]].type # "CATCH_ALL"
        BY <1>4, <1>6
      <4> QED BY <1>3, <3>1, <4>1 DEF EndsIn
    <3> QED BY <1>2, <1>4, <1>6, <3>2 DEF EmptyFits
  <2>2. CASE Len(v) = Len(request) + 1 /\ v[Len(v)] = "/"
    <3> DEFINE y == g[Len(TextOf(nodes, b, c))]
    <3>1. ParamTakes(nodes, b, n, v, g, c)
      BY <1>2, <1>4, <1>6, ParamTaken
    <3> HIDE DEF c
    <3>2. /\ y \in Nat /\ g[Len(b[c])] <= y /\ y <= Len(v)
          /\ \A i \in (g[Len(b[c])] + 1)..y : v[i] # "/"
          /\ (y = g[Len(b[c])] => Skips(TextOf(nodes, b, n), g))
      BY <3>1 DEF ParamTakes
    <3>3. g[Len(b[c])] = q
      BY <1>4
    <3> HIDE DEF q, y
    <3>4. y # q
      BY <1>2, <2>2, <3>2, <3>3
    <3>5. y = Len(v) /\ Len(v) \in (q + 1)..y
      BY <1>2, <2>2, <3>2, <3>3, <3>4
    <3> QED BY <2>2, <3>2, <3>3, <3>5
  <2> QED BY <1>2, <2>1, <2>2
<1> QED BY <1>4, <1>5, <1>6 DEF IsWildcard

\* The URL ends where a wildcard begins.
LEMMA EndInWildcardSeeks ==
    ASSUME NEW b, NEW n, NEW v, NEW g, OnWay(b, n, v, g), EndInWildcard
    PROVE  Served(v)
<1>1. /\ Equal /\ Here.handle = 0 /\ Here.wild
      /\ Answers(Child(Here).handle, FALSE, Bind(Child(Here).name, <<>>))
  BY DEF EndInWildcard
<1>2. Child(Here).handle # 0
  BY <1>1, EndWild
<1> QED BY <1>1, <1>2, FoundServed

\* The URL ends at a node with a controller.
LEMMA EndWithHandleSeeks ==
    ASSUME NEW v, EndWithHandle
    PROVE  Served(v)
BY FoundServed DEF EndWithHandle

\* One more slash would end at the node under the one at which the URL ends.
LEMMA SlashFinds ==
    ASSUME NEW b, NEW n, NEW v, NEW g, OnWay(b, n, v, g), Equal, Here.handle = 0, ~Here.wild
    PROVE  /\ Len(v) # Len(request) /\ Indice(Here, "/") # 0
           /\ SlashEnds(nodes[Indice(Here, "/")])
<1>1. phase = "walking"
  BY DEF Equal
<1> DEFINE q == g[Len(TextOf(nodes, b, at))]
<1>2. /\ Aimed(nodes, b, registered, n, v, g) /\ nodes[n].handle # 0
      /\ (Len(v) # Len(request) => ~Skips(TextOf(nodes, b, n), g))
      /\ at \in DOMAIN nodes /\ Below(nodes, at, n) /\ nodes[at].path # <<":">>
      /\ q \in Nat /\ q = Len(request) /\ Len(request) \in Nat /\ Len(v) \in Nat
      /\ (Len(v) = Len(request) \/ (Len(v) = Len(request) + 1 /\ v[Len(v)] = "/"))
  BY <1>1, WayIs DEF Here, Longer
<1>3. n # at
  BY <1>2 DEF Here
<1>4. PICK c : GoesBy(nodes, b, n, v, g, at, c) /\ Indice(Here, v[q + 1]) = c /\ c # 0
  BY <1>1, <1>3, WayIndex
<1>5. /\ c \in DOMAIN nodes /\ Below(nodes, c, n) /\ b[c] = TextOf(nodes, b, at)
      /\ q + 1 <= Len(v) /\ nodes[c].path # <<":">> /\ nodes[c].path # <<>>
  BY <1>4 DEF GoesBy
<1>6. Len(v) = Len(request) + 1 /\ v[Len(v)] = "/" /\ q + 1 = Len(v)
  <2> HIDE DEF q
  <2> QED BY <1>2, <1>5
<1>7. Indice(Here, "/") = c
  BY <1>4, <1>6
<1> DEFINE e == nodes[c].path
           y == g[Len(TextOf(nodes, b, c))]
<1>8. y = g[Len(b[c])] + Len(e) /\ y \in Nat /\ Len(e) \in Nat /\ y <= Len(v)
  BY <1>2, <1>5, EdgeTaken
<1>9. g[Len(b[c])] = q /\ e # <<>>
  BY <1>5
<1>10. e \in Seq(Chars)
  BY <1>2, <1>5, OnTheWay
<1> HIDE DEF e, y, q
<1>11. Len(e) # 0
  BY <1>9, <1>10, SomeText
<1>12. Len(e) = 1 /\ y = Len(v)
  <2>1. y = q + Len(e) /\ y \in Nat /\ Len(e) \in Nat /\ y <= Len(v) /\ q \in Nat
    BY <1>2, <1>8, <1>9
  <2>2. Len(v) = q + 1
    BY <1>6
  <2> QED BY ONLY <1>11, <2>1, <2>2, OneLeft
<1>13. EndsIn(nodes, b, n, g, c)
  <2>1. g[Len(TextOf(nodes, b, c))] = Len(v)
    BY <1>12 DEF y
  <2> QED BY <1>2, <1>5, <2>1, AtEnd
<1>14. ~Skips(TextOf(nodes, b, n), g) /\ Len(v) # Len(request)
  BY <1>2, <1>6
<1>15. SlashEnds(nodes[c])
  <2>1. CASE n = c
    BY <1>2, <1>12, <2>1 DEF SlashEnds, e
  <2>2. CASE nodes[c].wild /\ nodes[nodes[c].children[1]].type = "CATCH_ALL"
    BY <2>2 DEF SlashEnds, Child
  <2> QED BY <1>13, <1>14, <2>1, <2>2 DEF EndsIn
<1> QED BY <1>4, <1>7, <1>14, <1>15

\* The URL ends at a node with no controller: it lacks a slash.
LEMMA EndWithoutSeeks ==
    ASSUME NEW b, NEW n, NEW v, NEW g, OnWay(b, n, v, g), EndWithout
    PROVE  Served(v)
<1>1. /\ Equal /\ Here.handle = 0 /\ ~(Here.wild /\ EmptyFits(Child(Here)))
      /\ phase' = "answered"
      /\ tsr' = (\/ path = <<"/">> /\ Here.wild
                 \/ /\ ~(path = <<"/">> /\ Here.wild)
                    /\ Indice(Here, "/") # 0
                    /\ SlashEnds(nodes[Indice(Here, "/")]))
  BY DEF EndWithout, Answers
<1>2. ~Here.wild
  BY <1>1, EndWild
<1>3. /\ Len(v) # Len(request) /\ Indice(Here, "/") # 0
      /\ SlashEnds(nodes[Indice(Here, "/")])
  BY <1>1, <1>2, SlashFinds
<1>4. (\/ path = <<"/">> /\ Here.wild
       \/ /\ ~(path = <<"/">> /\ Here.wild)
          /\ Indice(Here, "/") # 0
          /\ SlashEnds(nodes[Indice(Here, "/")])) = TRUE
  BY <1>2, <1>3
<1>5. tsr' = TRUE
  BY <1>1, <1>4
<1> QED BY <1>1, <1>3, <1>5 DEF Served

\* The URL ends in an edge, before its slash.
LEMMA ElsewhereSeeks ==
    ASSUME NEW b, NEW n, NEW v, NEW g, OnWay(b, n, v, g), Elsewhere
    PROVE  Served(v)
<1> DEFINE q == g[Len(TextOf(nodes, b, at))]
           hint == \/ path = <<"/">>
                   \/ /\ Len(Here.path) = Len(path) + 1 /\ Last(Here.path) = "/"
                      /\ Here.handle # 0
                   \/ Here.children # <<>> /\ Child(Here).type = "CATCH_ALL"
<1>1. phase = "walking" /\ ~Longer /\ ~Equal /\ phase' = "answered" /\ tsr' = hint
  BY DEF Elsewhere, Answers
<1>2. /\ Aimed(nodes, b, registered, n, v, g) /\ nodes[n].handle # 0
      /\ (Len(v) # Len(request) => ~Skips(TextOf(nodes, b, n), g))
      /\ at \in DOMAIN nodes /\ Below(nodes, at, n) /\ nodes[at].path # <<":">>
      /\ Short(request, v, Here.path, path, q) /\ Len(request) \in Nat
  BY <1>1, WayIs DEF Here
<1>3. /\ Len(v) # Len(request) /\ q = Len(v) /\ Len(Here.path) = Len(path) + 1
      /\ Last(Here.path) = "/"
  BY <1>2 DEF Short
<1>4. EndsIn(nodes, b, n, g, at)
  BY <1>2, <1>3, AtEnd
<1>5. hint
  <2>1. CASE n = at
    BY <1>2, <1>3, <2>1 DEF Here
  <2>2. CASE nodes[at].wild /\ nodes[nodes[at].children[1]].type = "CATCH_ALL"
    <3>1. Here.children # <<>>
      BY <1>1, <2>2, WayWild DEF Here
    <3> QED BY <2>2, <3>1 DEF Here, Child
  <2> QED BY <1>2, <1>3, <1>4, <2>1, <2>2 DEF EndsIn
<1>6. hint = TRUE
  BY <1>5
<1> HIDE DEF hint
<1>7. tsr' = TRUE
  BY <1>1, <1>6
<1> QED BY <1>1, <1>3, <1>7 DEF Served

\* A turn of the loop finds a controller, tells the client that a slash is
\* missing, or is still on the way.
LEMMA WalkSeeks ==
    ASSUME NEW b, NEW n, NEW v, NEW g, OnWay(b, n, v, g), Walk
    PROVE  Served(v) \/ StillOn(b, n, v, g)
<1>1. CASE Follow \/ NoEdge
  BY <1>1, FollowSeeks
<1>2. CASE ParamRefuses
  <2>1. AtParam /\ Refused
    BY <1>2 DEF ParamRefuses
  <2> QED BY <2>1, NotRefused
<1>3. CASE ParamEnds
  BY <1>3, ParamEndsSeeks
<1>4. CASE ParamGoesOn
  BY <1>4, ParamGoesOnSeeks
<1>5. CASE TakeAll
  BY <1>5, TakeAllSeeks
<1>6. CASE EndWithHandle
  BY <1>6, EndWithHandleSeeks
<1>7. CASE EndInWildcard
  BY <1>7, EndInWildcardSeeks
<1>8. CASE EndWithout
  BY <1>8, EndWithoutSeeks
<1>9. CASE Elsewhere
  BY <1>9, ElsewhereSeeks
<1> QED BY <1>1, <1>2, <1>3, <1>4, <1>5, <1>6, <1>7, <1>8, <1>9 DEF Walk

(***************************************************************************)
(* The tree has a node for every route, and forward begins at its root.    *)
(***************************************************************************)

\* A URL that is one with a slash more begins like it.
LEMMA LacksBegins ==
    ASSUME NEW r, NEW v, Lacks(r, v), Begins(r, "/")
    PROVE  Begins(v, "/") /\ v \in Seq(UrlChars)
<1>1. r \in Seq(UrlChars) /\ v \in Seq(UrlChars) /\ \A j \in 1..Len(r) : v[j] = r[j]
  BY DEF Lacks
<1>2. Len(r) \in Nat /\ Len(v) \in Nat /\ Len(v) >= Len(r)
  BY DEF Lacks
<1>3. Len(r) # 0
  <2> DEFINE S == UrlChars
  <2>1. r \in Seq(S) /\ r # <<>>
    BY <1>1 DEF Begins
  <2> HIDE DEF S
  <2>2. \A seq \in Seq(S) : (seq # <<>>) => (Len(seq) \in Nat \ {0})
    BY EmptySeq
  <2>3. Len(r) \in Nat \ {0}
    BY <2>1, <2>2
  <2> QED BY <2>3
<1>4. 1 \in 1..Len(r)
  BY <1>2, <1>3
<1>5. v[1] = "/"
  BY <1>1, <1>4 DEF Begins
<1>6. Len(v) # 0
  BY <1>2, <1>3
<1>7. v # <<>>
  <2>1. Len(<<>>) = 0
    OBVIOUS
  <2> QED BY <1>6, <2>1
<1> QED BY <1>1, <1>5, <1>7 DEF Begins

\* A route that v matches, with a character in every parameter when v is not
\* the URL itself.
Due(r, v, reg) ==
    \E c \in DOMAIN reg : /\ Matches(reg[c], v)
                          /\ Len(v) # Len(r) => ~EmptyValue(reg[c], v)

\* In a tree that is not being built there is a node for it, and its text
\* stands for v.
LEMMA DueAimed ==
    ASSUME BuildInv, Ordinary, ~Busy, valid, SpellInv, LinkInv, phase # "aborted",
           NEW r, NEW v, Lacks(r, v), Begins(r, "/"), Due(r, v, registered)
    PROVE  \E b, n, g : /\ Aimed(nodes, b, registered, n, v, g)
                        /\ Len(v) # Len(r) => ~Skips(TextOf(nodes, b, n), g)
<1>1. PICK c \in DOMAIN registered :
           Matches(registered[c], v) /\ (Len(v) # Len(r) => ~EmptyValue(registered[c], v))
  BY DEF Due
<1>2. /\ nodes \in Seq(NodeSet) /\ nodes # <<>> /\ WellShaped(nodes, 0, path)
      /\ Handled(nodes, Len(registered), valid)
  BY Standing
<1>3. 0 \notin DOMAIN nodes
  BY <1>2, DomainOfTree
<1>4. WellShaped(nodes, 0, <<>>) /\ Closed(nodes)
  BY <1>2, <1>3, ShapeAlone, ShapedClosed
<1>5. Linked(nodes)
  BY DEF LinkInv
<1>6. registered \in Seq(Routes)
  BY DEF BuildInv
<1>7. c \in 1..Len(registered) /\ c # 0 /\ registered[c] \in Routes
  BY <1>6
<1>8. PICK n \in DOMAIN nodes : nodes[n].handle = c
  BY <1>2, <1>7 DEF Handled
<1>9. PICK b : Labels(nodes, b, registered)
  BY DEF SpellInv, Spelled
<1> DEFINE x == TextOf(nodes, b, n)
           route == registered[c]
<1>10. x \in Seq(Symbols) /\ Spells(route, x)
  BY <1>2, <1>7, <1>8, <1>9, TextsAre
<1>11. v \in Seq(UrlChars) /\ Begins(v, "/")
  BY LacksBegins
<1> HIDE DEF x, route
<1>12. route \in Routes /\ Matches(route, v)
  BY <1>1, <1>7 DEF route
<1>13. PICK g : Leads(x, v, g)
  BY <1>10, <1>11, <1>12, MatchLeads
<1>14. Len(v) # Len(r) => ~Skips(x, g)
  <2> SUFFICES ASSUME Len(v) # Len(r), Skips(x, g) PROVE FALSE
    OBVIOUS
  <2>1. Follows(x, v, g)
    BY <1>13 DEF Leads
  <2>2. EmptyValue(route, v)
    BY <1>10, <1>11, <1>12, <2>1, SkipsMeans
  <2> QED BY <1>1, <2>2 DEF route
<1>15. Apart(x)
  BY <1>10, <1>12, WildsApart DEF Apart
<1>16. Aimed(nodes, b, registered, n, v, g)
  BY <1>2, <1>3, <1>4, <1>5, <1>7, <1>8, <1>9, <1>11, <1>13, <1>15 DEF Aimed, x
<1> QED BY <1>14, <1>16 DEF x

\* The root of the tree is no wildcard.
LEMMA RootPlain ==
    ASSUME BuildInv
    PROVE  nodes[1].path # <<":">> /\ (nodes[1].path # <<>> \/ nodes[1].type # "CATCH_ALL")
<1>1. Rooted(nodes)
  BY DEF BuildInv
<1>2. CASE Blank(nodes[1])
  <2>1. <<>> # <<":">>
    OBVIOUS
  <2> QED BY <1>2, <2>1 DEF Blank
<1>3. CASE Begins(nodes[1].path, "/")
  <2>1. <<":">>[1] = ":" /\ ":" # "/"
    OBVIOUS
  <2> QED BY <1>3, <2>1 DEF Begins
<1> QED BY <1>1, <1>2, <1>3 DEF Rooted

\* forward begins at the root, and is on its way.
LEMMA StartSeeks ==
    ASSUME BuildInv, Ordinary, ~Busy, valid, SpellInv, LinkInv, phase # "aborted",
           NEW r, Begins(r, "/"), Walks(r), UNCHANGED built,
           NEW v, Lacks(r, v), Due(r, v, registered)
    PROVE  \E b, n, g : OnWay(b, n, v, g)'
<1>1. PICK b, n, g : /\ Aimed(nodes, b, registered, n, v, g)
                     /\ Len(v) # Len(r) => ~Skips(TextOf(nodes, b, n), g)
  BY DueAimed
<1>2. /\ n \in DOMAIN nodes /\ Linked(nodes) /\ Labels(nodes, b, registered)
      /\ Leads(TextOf(nodes, b, n), v, g)
  BY <1>1 DEF Aimed
<1>3. 1 \in DOMAIN nodes /\ Below(nodes, 1, n)
  BY <1>2, Standing DEF Linked, Connected
<1>4. b[1] = <<>> /\ g[0] = 0
  BY <1>2 DEF Labels, Leads, Follows
<1>5. g[Len(b[1])] = 0
  <2>1. Len(<<>>) = 0
    OBVIOUS
  <2> QED BY <1>4, <2>1
<1>6. r \in Seq(UrlChars) /\ Len(r) \in Nat
  BY DEF Lacks
<1>7. r = From(r, 0 + 1)
  <2>1. SubSeq(r, 1, Len(r)) = r
    BY <1>6, SubSeqFull
  <2> QED BY <2>1 DEF From
<1>8. Seeks(nodes, b, registered, n, v, g, r, 1, r)
  BY <1>1, <1>3, <1>5, <1>6, <1>7, RootPlain DEF Seeks
<1>9. nodes' = nodes /\ registered' = registered /\ request' = r /\ at' = 1 /\ path' = r
  BY DEF Walks, built
<1>10. Seeks(nodes', b, registered', n, v, g, request', at', path')
  BY <1>8, <1>9
<1>11. OnWay(b, n, v, g)'
  BY <1>10 DEF OnWay
<1> QED BY <1>11

(***************************************************************************)
(* Every state.                                                            *)
(***************************************************************************)

\* Only a program of which all routes were accepted serves, and a URL begins
\* with a slash.
ServeInv ==
    /\ phase \in {"serving", "walking", "answered"} => valid
    /\ phase \in {"walking", "answered"} => Begins(request, "/")

\* It is so at first.
LEMMA ServeInit == Init => ServeInv
BY DEF Init, BuildInit, ServeInv

\* And it stays so.
LEMMA ServeInvStep == ASSUME IInv, ServeInv, request \in Seq(UrlChars), [Next]_vars PROVE ServeInv'
<1>0. BuildInv /\ Bounded
  BY DEF IInv
<1>1. CASE BuildNext
  <2>1. phase' \in {"building", "inserting", "placing", "aborted"}
    BY <1>1, BuildPhase
  <2> QED BY <2>1 DEF ServeInv
<1>2. CASE Serve
  BY <1>2 DEF Serve, ServeInv, built
<1>3. CASE Done
  BY <1>3 DEF Done, ServeInv, built
<1>4. ASSUME NEW url \in Requests, Ask(url) PROVE ServeInv'
  <2>1. phase = "serving" /\ valid' = valid /\ request' = url
    BY <1>4 DEF Ask, Walks, built
  <2>2. Begins(url, "/")
    BY RouterAssumption DEF Begins
  <2> QED BY <2>1, <2>2 DEF ServeInv
<1>5. CASE Redirect
  <2>1. phase = "answered" /\ valid' = valid /\ request' = Append(request, "/")
    BY <1>5 DEF Redirect, Walks, built
  <2>2. Begins(Append(request, "/"), "/")
    <3>1. "/" \in UrlChars
      BY DEF UrlChars
    <3>2. Lacks(request, Append(request, "/"))
      BY <3>1, AppendIs DEF Lacks
    <3>3. Begins(request, "/")
      BY <2>1 DEF ServeInv
    <3> DEFINE v == Append(request, "/")
    <3> HIDE DEF v
    <3>4. Begins(v, "/")
      BY <3>2, <3>3, LacksBegins DEF v
    <3> QED BY <3>4 DEF v
  <2> QED BY <2>1, <2>2 DEF ServeInv
<1>6. CASE Walk
  <2>1. phase = "walking" /\ valid' = valid /\ request' = request
    BY <1>0, <1>6, WalkStep, WalkKeeps DEF built
  <2> QED BY <2>1 DEF ServeInv
<1>7. CASE UNCHANGED vars
  BY <1>7 DEF vars, buildVars, ServeInv
<1> QED BY <1>1, <1>2, <1>3, <1>4, <1>5, <1>6, <1>7 DEF Next

\* forward is on its way to a controller for every v that a route matches,
\* or has found one, or has told the client to add the slash.
SearchInv ==
    \A v : Lacks(request, v) /\ Due(request, v, registered) =>
        /\ phase = "walking" => \E b, n, g : OnWay(b, n, v, g)
        /\ phase = "answered" => found # 0 \/ (Len(v) # Len(request) /\ tsr = TRUE)

\* What holds of every state.
FoundInv == AnswerInv /\ LinkInv /\ ServeInv /\ SearchInv

\* It holds at first.
LEMMA FoundInit == Init => FoundInv
<1> SUFFICES ASSUME Init PROVE FoundInv
  OBVIOUS
<1>1. phase = "building"
  BY DEF Init, BuildInit
<1>2. SearchInv
  BY <1>1 DEF SearchInv
<1> QED BY <1>2, AnswerInit, InitLinked, ServeInit DEF FoundInv

\* A request that comes, with what is known of the tree.
LEMMA AskSearch ==
    ASSUME FoundInv, Ordinary, phase \in {"serving", "answered"},
           NEW url \in Seq(UrlChars), Begins(url, "/"), Walks(url), UNCHANGED built
    PROVE  SearchInv'
<1>1. /\ BuildInv /\ SpellInv /\ LinkInv /\ ~Busy /\ phase # "aborted" /\ valid
  BY DEF FoundInv, AnswerInv, IInv, ServeInv, Busy
<1>2. phase' = "walking" /\ registered' = registered /\ request' = url
  BY DEF Walks, built
<1>3. ASSUME NEW v, Lacks(url, v), Due(url, v, registered)
      PROVE  \E b, n, g : OnWay(b, n, v, g)'
  BY <1>1, <1>3, StartSeeks
<1>4. ASSUME NEW v, Lacks(request', v), Due(request', v, registered')
      PROVE  \E b, n, g : OnWay(b, n, v, g)'
  BY <1>2, <1>3, <1>4
<1> QED BY <1>2, <1>4 DEF SearchInv

\* A turn of the loop.
LEMMA WalkSearch ==
    ASSUME FoundInv, Walk
    PROVE  SearchInv'
<1>1. phase = "walking" /\ registered' = registered /\ request' = request
  BY WalkStep, WalkKeeps DEF FoundInv, AnswerInv, IInv, built
<1>2. ASSUME NEW v, Lacks(request', v), Due(request', v, registered')
      PROVE  Served(v) \/ \E b, n, g : StillOn(b, n, v, g)
  <2>1. Lacks(request, v) /\ Due(request, v, registered)
    BY <1>1, <1>2
  <2>2. PICK b, n, g : OnWay(b, n, v, g)
    BY <1>1, <2>1 DEF FoundInv, SearchInv
  <2>3. Served(v) \/ StillOn(b, n, v, g)
    BY <2>2, WalkSeeks
  <2> QED BY <2>3
<1>3. ASSUME NEW v, Lacks(request', v), Due(request', v, registered')
      PROVE  /\ phase' = "walking" => \E b, n, g : OnWay(b, n, v, g)'
             /\ phase' = "answered" => found' # 0 \/ (Len(v) # Len(request') /\ tsr' = TRUE)
  <2>1. CASE Served(v)
    <3>1. phase' = "answered" /\ (found' # 0 \/ (Len(v) # Len(request) /\ tsr' = TRUE))
      BY <2>1 DEF Served
    <3> QED BY <1>1, <3>1
  <2>2. ASSUME NEW b, NEW n, NEW g, StillOn(b, n, v, g)
        PROVE  phase' = "walking" /\ OnWay(b, n, v, g)'
    BY <2>2 DEF StillOn
  <2>3. CASE \E b, n, g : StillOn(b, n, v, g)
    <3>1. PICK b, n, g : StillOn(b, n, v, g)
      BY <2>3
    <3>2. phase' = "walking" /\ OnWay(b, n, v, g)'
      BY <3>1, <2>2
    <3> QED BY <3>2
  <2> QED BY <1>2, <1>3, <2>1, <2>3
<1> QED BY <1>3 DEF SearchInv

\* Every step keeps it.
LEMMA FoundInvStep == ASSUME FoundInv, Ordinary, [Next]_vars PROVE FoundInv'
<1>0. /\ AnswerInv /\ LinkInv /\ ServeInv /\ SearchInv /\ IInv /\ SpellInv
      /\ BuildInv /\ Bounded /\ request \in Seq(UrlChars)
  BY DEF FoundInv, AnswerInv, IInv
<1>1. AnswerInv' /\ LinkInv' /\ ServeInv'
  BY <1>0, AnswerInvStep, LinkStep, ServeInvStep
<1>2. SUFFICES SearchInv'
  BY <1>1 DEF FoundInv
<1>3. ASSUME phase' \notin {"walking", "answered"} PROVE SearchInv'
  BY <1>3 DEF SearchInv
<1>4. CASE BuildNext
  <2>1. phase' \in {"building", "inserting", "placing", "aborted"}
    BY <1>4, BuildPhase
  <2> QED BY <1>3, <2>1
<1>5. CASE Serve
  BY <1>3, <1>5 DEF Serve
<1>6. CASE Done
  BY <1>3, <1>6 DEF Done
<1>7. ASSUME NEW url \in Requests, Ask(url) PROVE SearchInv'
  <2>1. phase = "serving" /\ Walks(url) /\ UNCHANGED built
    BY <1>7 DEF Ask
  <2>2. url \in Seq(UrlChars) /\ Begins(url, "/")
    BY Plainly, RouterAssumption DEF Begins
  <2> QED BY <2>1, <2>2, AskSearch
<1>8. CASE Redirect
  <2> DEFINE url == Append(request, "/")
  <2>1. phase = "answered" /\ Walks(url) /\ UNCHANGED built
    BY <1>8 DEF Redirect
  <2>2. url \in Seq(UrlChars)
    <3>1. "/" \in UrlChars
      BY DEF UrlChars
    <3> QED BY <1>0, <3>1
  <2>3. Begins(url, "/")
    <3>1. Begins(request', "/")
      <4>1. phase' = "walking"
        BY <2>1 DEF Walks
      <4> QED BY <1>1, <4>1 DEF ServeInv
    <3>2. request' = url
      BY <2>1 DEF Walks
    <3> QED BY <3>1, <3>2
  <2> HIDE DEF url
  <2> QED BY <2>1, <2>2, <2>3, AskSearch
<1>9. CASE Walk
  BY <1>9, WalkSearch
<1>10. CASE UNCHANGED vars
  <2>1. /\ registered' = registered /\ nodes' = nodes /\ phase' = phase /\ at' = at
        /\ path' = path /\ request' = request /\ found' = found /\ tsr' = tsr
    BY <1>10 DEF vars, buildVars
  <2>2. ASSUME NEW b, NEW n, NEW v, NEW g, OnWay(b, n, v, g) PROVE OnWay(b, n, v, g)'
    BY <2>1, <2>2 DEF OnWay
  <2> QED BY <1>0, <2>1, <2>2 DEF SearchInv
<1> QED BY <1>4, <1>5, <1>6, <1>7, <1>8, <1>9, <1>10 DEF Next

\* A URL that is itself.
LEMMA LacksNothing == ASSUME NEW r \in Seq(UrlChars) PROVE Lacks(r, r)
BY DEF Lacks

\* A URL that a route matches finds a controller, for any routes and any
\* requests of an ordinary program: the walk, which never goes back, does not
\* turn away from the only route (router.cc:694-716).
THEOREM MatchFound == ASSUME Ordinary PROVE Spec => []MatchIsFound
<1>1. FoundInv /\ [Next]_vars => FoundInv'
  BY FoundInvStep
<1>2. ASSUME FoundInv PROVE MatchIsFound
  <2> SUFFICES ASSUME phase = "answered", NEW c \in DOMAIN registered,
                      Matches(registered[c], request)
               PROVE  found # 0
    BY DEF MatchIsFound
  <2>1. Lacks(request, request)
    BY <1>2, LacksNothing DEF FoundInv, AnswerInv
  <2>2. Due(request, request, registered)
    BY DEF Due
  <2> QED BY <1>2, <2>1, <2>2 DEF FoundInv, SearchInv
<1> QED BY <1>1, <1>2, FoundInit, PTL DEF Spec

\* A client that only forgot the last slash is told so, for any routes and any
\* requests of an ordinary program (router.cc:708-852).
THEOREM SlashHinted == ASSUME Ordinary PROVE Spec => []SlashIsHinted
<1>1. FoundInv /\ [Next]_vars => FoundInv'
  BY FoundInvStep
<1>2. ASSUME FoundInv PROVE SlashIsHinted
  <2> SUFFICES ASSUME phase = "answered", found = 0, NEW c \in DOMAIN registered,
                      Matches(registered[c], Append(request, "/")),
                      ~EmptyValue(registered[c], Append(request, "/"))
               PROVE  tsr
    BY DEF SlashIsHinted
  <2> DEFINE url == Append(request, "/")
  <2>1. request \in Seq(UrlChars) /\ "/" \in UrlChars
    BY <1>2 DEF FoundInv, AnswerInv, UrlChars
  <2>2. Lacks(request, url)
    BY <2>1, AppendIs DEF Lacks
  <2>3. Due(request, url, registered)
    BY DEF Due
  <2> HIDE DEF url
  <2> QED BY <1>2, <2>2, <2>3 DEF FoundInv, SearchInv
<1> QED BY <1>1, <1>2, FoundInit, PTL DEF Spec
==============================================================================
