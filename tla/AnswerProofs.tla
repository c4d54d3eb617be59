----------------------------- MODULE AnswerProofs ----------------------------
(***************************************************************************)
(* What forward returns is right, for any routes and any URLs of an        *)
(* Ordinary program: the controller is one of a route that the URL         *)
(* matches, and is given the parameters of its own route.                  *)
(*                                                                         *)
(* The tree has lost the routes: what remains of them are edges that       *)
(* several routes share, cut where they part. The invariant puts them      *)
(* back: there is a text for every node, that of the edges above it, such  *)
(* that the text at a node with a controller, its own edge included, is    *)
(* the one that the controller's route spells (Labels); while a route is   *)
(* inserted, the text above and what is left of the path are that of the   *)
(* route (Going), unless addRoute is going to abort. forward, at a node,   *)
(* has come past the text above it, and has bound what that text binds     *)
(* (Walked).                                                               *)
(***************************************************************************)
EXTENDS RouteTextProofs

(***************************************************************************)
(* What the nodes of a tree stand for.                                     *)
(***************************************************************************)

\* Characters, cut in two.
LEMMA PlainTwo ==
    ASSUME NEW w \in Seq(Chars), NEW i \in 0..Len(w)
    PROVE  /\ Plain(w) = Plain(SubSeq(w, 1, i)) \o Plain(From(w, i + 1))
           /\ Plain(SubSeq(w, 1, i)) \in Seq(Symbols) /\ Plain(From(w, i + 1)) \in Seq(Symbols)
<1> DEFINE x == SubSeq(w, 1, i)
           y == From(w, i + 1)
           t == Plain(w)
           u == Plain(x)
           v == Plain(y)
           r == From(t, i + 1)
<1>1. /\ Len(w) \in Nat /\ x \in Seq(Chars) /\ Len(x) = i /\ \A j \in 1..i : x[j] = w[j]
  BY UpToIs
<1>2. y \in Seq(Chars) /\ Len(y) = Len(w) - i /\ \A j \in 1..(Len(w) - i) : y[j] = w[i + j]
  <2>1. i + 1 \in 1..(Len(w) + 1)
    BY <1>1
  <2>2. /\ y \in Seq(Chars) /\ Len(y) = Len(w) - (i + 1) + 1
        /\ \A j \in 1..(Len(w) - (i + 1) + 1) : y[j] = w[(i + 1) + j - 1]
    BY <2>1, FromIs
  <2>3. Len(w) - (i + 1) + 1 = Len(w) - i /\ \A j \in 1..(Len(w) - i) : (i + 1) + j - 1 = i + j
    BY <1>1
  <2> QED BY <2>2, <2>3
<1> HIDE DEF x, y
<1>3. /\ t \in Seq(Symbols) /\ Len(t) = Len(w) /\ \A j \in 1..Len(w) : t[j] = Character(w[j])
      /\ u \in Seq(Symbols) /\ Len(u) = Len(x) /\ \A j \in 1..Len(x) : u[j] = Character(x[j])
      /\ v \in Seq(Symbols) /\ Len(v) = Len(y) /\ \A j \in 1..Len(y) : v[j] = Character(y[j])
  BY <1>1, <1>2, PlainIs
<1> HIDE DEF t, u, v
<1>4. \A j \in 1..i : u[j] = t[j]
  <2>1. \A j \in 1..i : j \in 1..Len(w)
    BY <1>1
  <2> QED BY <1>1, <1>3, <2>1
<1>5. t = u \o r
  BY <1>1, <1>3, <1>4, Halved
<1>6. /\ r \in Seq(Symbols) /\ Len(r) = Len(t) - i
      /\ \A j \in 1..(Len(t) - i) : r[j] = t[i + j]
  BY <1>1, <1>3, Remains
<1> HIDE DEF r
<1>7. Len(r) = Len(v)
  BY <1>2, <1>3, <1>6
<1>8. \A j \in 1..Len(r) : r[j] = v[j]
  <2> SUFFICES ASSUME NEW j \in 1..Len(r) PROVE r[j] = v[j]
    OBVIOUS
  <2>1. j \in 1..(Len(w) - i) /\ j \in 1..Len(y) /\ i + j \in 1..Len(w) /\ j \in 1..(Len(t) - i)
    BY <1>1, <1>2, <1>3, <1>6
  <2> QED BY <1>2, <1>3, <1>6, <2>1
<1> DEFINE S == Symbols
<1>9. r \in Seq(S) /\ v \in Seq(S)
  BY <1>3, <1>6
<1> HIDE DEF S
<1>10. r = v
  BY <1>7, <1>8, <1>9, SeqEqual
<1> QED BY <1>3, <1>5, <1>10 DEF t, u, v, x, y

(***************************************************************************)
(* What the nodes of the tree stand for.                                   *)
(***************************************************************************)

\* What a node adds to the text of the routes that go through it.
Own(n) ==
    IF n.path = <<":">>
      THEN <<Wildcard([kind |-> "PARAM", re |-> n.re, name |-> n.name])>>
    ELSE IF n.path = <<>> /\ n.type = "CATCH_ALL"
      THEN <<Wildcard([kind |-> "CATCH_ALL", re |-> n.re, name |-> n.name])>>
    ELSE Plain(n.path)

\* No colon: there is no wildcard in the text.
Colonless(w) == \A j \in 1..Len(w) : w[j] # ":"

\* A node stands for symbols.
LEMMA OwnIs == ASSUME NEW n \in NodeSet PROVE Own(n) \in Seq(Symbols)
<1>1. n.path \in Seq(Chars) /\ n.re \in {"none", "any", "b"} /\ n.name \in Names \cup {""}
  BY DEF NodeSet
<1>2. ASSUME NEW k \in {"PARAM", "CATCH_ALL"}
      PROVE  <<Wildcard([kind |-> k, re |-> n.re, name |-> n.name])>> \in Seq(Symbols)
  <2> DEFINE w == Wildcard([kind |-> k, re |-> n.re, name |-> n.name])
  <2>1. w \in Symbols
    BY <1>1 DEF Wildcard, Symbols, Chars
  <2> HIDE DEF w
  <2>2. <<w>> \in Seq(Symbols)
    BY <2>1
  <2> QED BY <2>2 DEF w
<1>3. Plain(n.path) \in Seq(Symbols)
  BY <1>1, PlainIs
<1> QED BY <1>2, <1>3 DEF Own

\* Every edge but a parameter's is text.
LEMMA OwnText ==
    ASSUME NEW n \in NodeSet, Colonless(n.path), n.path # <<>> \/ n.type # "CATCH_ALL"
    PROVE  Own(n) = Plain(n.path)
<1>1. <<":">>[1] = ":" /\ Len(<<":">>) = 1 /\ 1 \in 1..1
  OBVIOUS
<1>2. n.path # <<":">>
  BY <1>1 DEF Colonless
<1> QED BY <1>2 DEF Own

\* Node n of tree t: b[n] is the text above it, and a controller is at the end
\* of the text of its route.
LabelFits(t, b, reg, n) ==
    /\ b[n] \in Seq(Symbols) /\ NoCatchAll(b[n], Len(b[n]))
    /\ t[n].path = <<":">> \/ Colonless(t[n].path)
    /\ \A i \in DOMAIN t[n].children : b[t[n].children[i]] = b[n] \o Own(t[n])
    /\ t[n].handle # 0 => Spells(reg[t[n].handle], b[n] \o Own(t[n]))

Labels(t, b, reg) == b[1] = <<>> /\ \A n \in DOMAIN t : LabelFits(t, b, reg, n)

\* Pointers lead to nodes.
Closed(t) == \A n \in DOMAIN t : \A i \in DOMAIN t[n].children : t[n].children[i] \in DOMAIN t

\* A node that is not touched stands for what it stood for.
LEMMA LabelStays ==
    ASSUME NEW t, NEW b, NEW reg, NEW n \in DOMAIN t, Closed(t), LabelFits(t, b, reg, n),
           NEW t2, t2[n] = t[n], NEW b2, \A m \in DOMAIN t : b2[m] = b[m]
    PROVE  LabelFits(t2, b2, reg, n)
<1>1. \A i \in DOMAIN t[n].children : b2[t[n].children[i]] = b[t[n].children[i]]
  BY DEF Closed
<1>2. b2[n] = b[n]
  OBVIOUS
<1> QED BY <1>1, <1>2 DEF LabelFits

\* A node that is cut.
LEMMA LabelsCut ==
    ASSUME NEW t \in Seq(NodeSet), NEW a \in DOMAIN t, NEW i \in 1..(Len(t[a].path) - 1),
           Closed(t), NEW b, NEW reg, Labels(t, b, reg)
    PROVE  LET t2 == Split(t, a, i)
           IN  \E b2 : /\ Labels(t2, b2, reg) /\ b2[a] = b[a]
                       /\ Own(t2[a]) = Plain(SubSeq(t[a].path, 1, i))
<1> DEFINE t2 == Split(t, a, i)
           old == t[a]
           w == old.path
           new == Len(t) + 1
           x == SubSeq(w, 1, i)
           y == From(w, i + 1)
           b2 == [n \in 1..new |-> IF n = new THEN b[a] \o Plain(x) ELSE b[n]]
<1>1. Halves(t, t2, a, i)
  BY SplitIs
<1>2. /\ t2 \in Seq(NodeSet) /\ DOMAIN t2 = 1..new
      /\ \A n \in DOMAIN t : n # a => t2[n] = t[n]
      /\ t2[a].type = "STATIC" /\ t2[a].handle = 0 /\ t2[a].path = x
      /\ Len(t2[a].children) = 1 /\ t2[a].children[1] = new /\ DOMAIN t2[a].children = 1..1
      /\ t2[new].path = y /\ t2[new].type = old.type /\ t2[new].handle = old.handle
      /\ t2[new].children = old.children
      /\ Len(t2[a].path) = i
  BY <1>1 DEF Halves
<1> HIDE DEF t2
<1>3. /\ DOMAIN t = 1..Len(t) /\ Len(t) \in Nat /\ new \notin DOMAIN t /\ new \in DOMAIN t2
      /\ a \in DOMAIN t2 /\ old \in NodeSet /\ a # new
      /\ \A n \in DOMAIN t2 : n = new \/ n \in DOMAIN t
  <2>1. DOMAIN t = 1..Len(t) /\ Len(t) \in Nat /\ old \in NodeSet
    BY LenProperties
  <2> HIDE DEF old
  <2> QED BY <1>2, <2>1
<1>4. w \in Seq(Chars) /\ Len(w) \in Nat /\ i \in 0..Len(w) /\ i < Len(w)
      /\ i >= 1 /\ i + 1 \in 1..(Len(w) + 1) /\ Len(w) # 1
  <2>1. w \in Seq(Chars) /\ Len(w) \in Nat
    BY <1>3, NodeTypes
  <2> DEFINE l == Len(w)
  <2>2. i \in 1..(l - 1) /\ l \in Nat
    BY <2>1
  <2> HIDE DEF l
  <2>3. /\ i \in 0..l /\ i < l
        /\ i >= 1 /\ i + 1 \in 1..(l + 1) /\ l # 1
    BY <2>2
  <2> QED BY <2>1, <2>3 DEF l
<1>5. /\ Plain(w) = Plain(x) \o Plain(y)
      /\ Plain(x) \in Seq(Symbols) /\ Plain(y) \in Seq(Symbols)
  BY <1>4, PlainTwo
<1>6. LabelFits(t, b, reg, a) /\ b[1] = <<>>
  BY DEF Labels
<1>7. Colonless(w)
  <2> HIDE DEF w
  <2>1. Len(<<":">>) = 1
    OBVIOUS
  <2>2. Len(w) # 1
    BY <1>4
  <2> QED BY <1>6, <2>1, <2>2 DEF LabelFits, w
<1>8. Colonless(x) /\ Colonless(y) /\ Len(x) = i /\ Len(y) > 0
  <2>1. Len(x) = i /\ \A j \in 1..i : x[j] = w[j] /\ j \in 1..Len(w)
    BY <1>4, UpToIs
  <2>2. /\ Len(y) = Len(w) - (i + 1) + 1
        /\ \A j \in 1..(Len(w) - (i + 1) + 1) : y[j] = w[(i + 1) + j - 1]
    BY <1>4, FromIs
  <2> HIDE DEF x, y, w
  <2>3. /\ \A j \in 1..Len(y) : (i + 1) + j - 1 \in 1..Len(w)
        /\ Len(y) > 0 /\ Len(y) = Len(w) - (i + 1) + 1
    BY <1>4, <2>2, SMTT(40)
  <2>4. \A j \in 1..Len(y) : y[j] # ":"
    BY <1>7, <2>2, <2>3 DEF Colonless
  <2> QED BY <1>7, <2>1, <2>3, <2>4 DEF Colonless
<1>9. Own(t2[a]) = Plain(x)
  <2>1. t2[a] \in NodeSet /\ t2[a].type # "CATCH_ALL"
    BY <1>2, <1>3
  <2> QED BY <1>2, <1>8, <2>1, OwnText
<1>10. Own(t2[new]) = Plain(y) /\ Own(old) = Plain(w)
  <2>1. t2[new] \in NodeSet
    BY <1>2, <1>3
  <2>2. y # <<>> /\ w # <<>>
    BY <1>4, <1>8, EmptyIs
  <2>3. Own(old) = Plain(w)
    BY <1>3, <1>7, <2>2, OwnText
  <2> QED BY <1>2, <1>8, <2>1, <2>2, <2>3, OwnText
<1>11. /\ \A n \in DOMAIN t : b2[n] = b[n]
       /\ b2[new] = b[a] \o Plain(x) /\ b2[1] = <<>> /\ b2[a] = b[a]
  <2>1. 1 # new
    BY <1>3
  <2>2. 1 \in DOMAIN t
    BY <1>3
  <2>3. \A n \in DOMAIN t : n \in 1..new /\ n # new
    BY <1>3
  <2>4. new \in 1..new
    BY <1>3
  <2> HIDE DEF new
  <2>5. \A n \in DOMAIN t : b2[n] = b[n]
    BY <2>3
  <2> QED BY <1>6, <2>2, <2>4, <2>5
<1> HIDE DEF b2, x, y, w
<1>12. b[a] \in Seq(Symbols) /\ NoCatchAll(b[a], Len(b[a]))
  BY <1>6 DEF LabelFits
<1>13. (b[a] \o Plain(x)) \o Plain(y) = b[a] \o Plain(w)
  <2>1. (b[a] \o Plain(x)) \o Plain(y) = b[a] \o (Plain(x) \o Plain(y))
    BY <1>5, <1>12, Associates
  <2> QED BY <1>5, <2>1
<1>14. b2[new] \in Seq(Symbols) /\ NoCatchAll(b2[new], Len(b2[new]))
  <2> DEFINE u == b[a]
             v == Plain(x)
             z == u \o v
  <2>1. /\ z \in Seq(Symbols) /\ Len(z) = Len(u) + Len(v) /\ Len(u) \in Nat /\ Len(v) \in Nat
        /\ \A j \in 1..Len(u) : z[j] = u[j]
        /\ \A j \in 1..Len(v) : z[Len(u) + j] = v[j]
    BY <1>5, <1>12, Joining
  <2>2. \A j \in 1..Len(v) : v[j].kind = "STATIC"
    <3>1. x \in Seq(Chars)
      BY <1>4, UpToIs DEF x
    <3> QED BY <3>1, PlainIs, SymbolFields
  <2>3. NoCatchAll(u, Len(u))
    BY <1>12
  <2> HIDE DEF u, v, z
  <2>4. NoCatchAll(z, Len(z))
    <3> SUFFICES ASSUME NEW j \in 1..Len(z) PROVE z[j].kind # "CATCH_ALL"
      BY DEF NoCatchAll
    <3>1. CASE j \in 1..Len(u)
      BY <2>1, <2>3, <3>1 DEF NoCatchAll
    <3>2. CASE j \notin 1..Len(u)
      <4>1. j - Len(u) \in 1..Len(v) /\ Len(u) + (j - Len(u)) = j
        BY <2>1, <3>2
      <4>2. z[j] = v[j - Len(u)]
        BY <2>1, <4>1
      <4> QED BY <2>2, <4>1, <4>2
    <3> QED BY <3>1, <3>2
  <2>5. b2[new] = z
    BY <1>11 DEF z, u, v
  <2> QED BY <2>1, <2>4, <2>5
<1>15. LabelFits(t2, b2, reg, a)
  <2>1. b2[a] \in Seq(Symbols) /\ NoCatchAll(b2[a], Len(b2[a]))
    BY <1>11, <1>12
  <2>2. \A j \in DOMAIN t2[a].children : b2[t2[a].children[j]] = b2[a] \o Own(t2[a])
    <3>1. \A j \in DOMAIN t2[a].children : j = 1
      BY <1>2
    <3>2. b2[new] = b2[a] \o Own(t2[a])
      BY <1>9, <1>11
    <3> HIDE DEF new
    <3> QED BY <1>2, <3>1, <3>2
  <2> QED BY <1>2, <1>8, <2>1, <2>2 DEF LabelFits
<1>16. LabelFits(t2, b2, reg, new)
  <2>1. b2[new] \o Own(t2[new]) = b[a] \o Own(old)
    BY <1>10, <1>11, <1>13
  <2>2. \A j \in DOMAIN old.children : b2[old.children[j]] = b[a] \o Own(old)
    BY <1>3, <1>6, <1>11 DEF LabelFits, Closed
  <2>3. old.handle # 0 => Spells(reg[old.handle], b[a] \o Own(old))
    BY <1>6 DEF LabelFits
  <2> HIDE DEF new, old
  <2> QED BY <1>2, <1>8, <1>14, <2>1, <2>2, <2>3 DEF LabelFits
<1>17. ASSUME NEW n \in DOMAIN t, n # a PROVE LabelFits(t2, b2, reg, n)
  <2>1. t2[n] = t[n] /\ LabelFits(t, b, reg, n)
    BY <1>2, <1>17 DEF Labels
  <2> QED BY <1>11, <2>1, LabelStays
<1>18. Labels(t2, b2, reg)
  BY <1>3, <1>11, <1>15, <1>16, <1>17 DEF Labels
<1> QED BY <1>9, <1>11, <1>18 DEF t2, x, w, old

\* The route that is being inserted.
Newest == registered[Len(registered)]

\* In a tree of the right shape pointers lead to nodes.
LEMMA ShapedClosed == ASSUME NEW t, NEW f, NEW p, WellShaped(t, f, p) PROVE Closed(t)
BY DEF WellShaped, NodeFits, Closed

\* What the route shares with a node's edge goes from its path to the tree.
LEMMA CutLabels ==
    ASSUME BuildInv, phase = "inserting", nodes[1].path # <<>>,
           NEW b, Labels(nodes, b, registered), Going(b[at], path, queue, Newest)
    PROVE  \E b2 : /\ Labels(Cut, b2, registered)
                   /\ Going(b2[at] \o Own(Cut[at]), Rest, queue, Newest)
<1> DEFINE np == nodes[at].path
           r == Newest
<1>1. /\ queue \in Seq(Segments) /\ nodes \in Seq(NodeSet) /\ at \in DOMAIN nodes
      /\ path \in Seq(Chars) /\ path # <<>> /\ Begins(np, path[1])
      /\ nodes[at] \in NodeSet
  <2>1. /\ queue \in Seq(Segments) /\ nodes \in Seq(NodeSet) /\ at \in DOMAIN nodes
        /\ path \in Seq(Chars) /\ path # <<>> /\ Begins(np, path[1])
    BY DEF BuildInv, Busy, Suffices, Joins
  <2> QED BY <2>1
<1>2. Closed(nodes)
  BY ShapedClosed DEF BuildInv
<1>3. np \in Seq(Chars) /\ Len(np) \in Nat /\ Len(path) \in Nat
  BY <1>1, NodeTypes
<1>4. /\ Shared \in 0..Len(path) /\ Shared <= Len(np) /\ Shared > 0
      /\ SubSeq(path, 1, Shared) = SubSeq(np, 1, Shared)
  BY <1>1, <1>3, SharedIs
<1> DEFINE s == Shared
           w == SubSeq(path, 1, s)
<1>5. /\ s \in 0..Len(path) /\ s \in 0..Len(np) /\ s > 0 /\ w = SubSeq(np, 1, s)
      /\ \A j \in 1..s : path[j] = np[j]
  <2>1. s \in 0..Len(path) /\ s <= Len(np) /\ s > 0 /\ w = SubSeq(np, 1, s)
    BY <1>4
  <2> HIDE DEF s
  <2>2. s \in 0..Len(np)
    BY <1>3, <2>1
  <2>3. (\A j \in 1..s : w[j] = path[j]) /\ \A j \in 1..s : SubSeq(np, 1, s)[j] = np[j]
    BY <1>1, <1>3, <2>1, <2>2, UpToIs
  <2> HIDE DEF w
  <2> QED BY <2>1, <2>2, <2>3
<1>6. Rest = From(path, s + 1)
  BY DEF Rest
<1>7. LabelFits(nodes, b, registered, at)
  BY <1>1 DEF Labels
<1>8. b[at] \in Seq(Symbols) /\ (np = <<":">> \/ Colonless(np))
  BY <1>7 DEF LabelFits
<1>9. Cut = IF s < Len(np) THEN Split(nodes, at, s) ELSE nodes
  BY DEF Cut
<1> HIDE DEF s
<1>10. ASSUME Colonless(np) PROVE Going(b[at] \o Plain(w), Rest, queue, r)
  <2>1. \A j \in 1..s : j \in 1..Len(np)
    BY <1>3, <1>5
  <2>2. \A j \in 1..s : path[j] # ":"
    BY <1>5, <1>10, <2>1 DEF Colonless
  <2> QED BY <1>1, <1>5, <1>6, <1>8, <2>2, GoesText
<1>11. CASE s < Len(np)
  <2>1. s \in 1..(Len(np) - 1) /\ Len(np) # 1
    <3> DEFINE l == Len(np)
    <3>1. l \in Nat /\ s \in 0..l /\ s > 0 /\ s < l
      BY <1>3, <1>5, <1>11
    <3> HIDE DEF l
    <3>2. s \in 1..(l - 1) /\ l # 1
      BY <3>1
    <3> QED BY <3>2 DEF l
  <2>2. Len(<<":">>) = 1
    OBVIOUS
  <2>3. Colonless(np)
    BY <1>8, <2>1, <2>2
  <2>4. PICK b2 : /\ Labels(Cut, b2, registered) /\ b2[at] = b[at]
                  /\ Own(Cut[at]) = Plain(SubSeq(np, 1, s))
    BY <1>1, <1>2, <1>9, <1>11, <2>1, LabelsCut
  <2>5. Going(b2[at] \o Own(Cut[at]), Rest, queue, r)
    BY <1>5, <1>10, <2>3, <2>4
  <2> QED BY <2>4, <2>5
<1>12. CASE ~(s < Len(np))
  <2>1. s = Len(np) /\ Cut = nodes
    BY <1>3, <1>5, <1>9, <1>12
  <2>2. CASE np = <<":">>
    <3>1. Len(<<":">>) = 1 /\ <<":">>[1] = ":" /\ 1 \in 1..1
      OBVIOUS
    <3>2. s = 1 /\ path[1] = ":"
      BY <1>5, <2>1, <2>2, <3>1
    <3>3. \E j \in 1..s : path[j] = ":"
      BY <3>1, <3>2
    <3>4. Going(b[at] \o Own(nodes[at]), Rest, queue, r)
      BY <1>1, <1>5, <1>6, <1>8, <3>3, GoesThrough
    <3> QED BY <2>1, <3>4
  <2>3. CASE Colonless(np)
    <3>1. w = np
      BY <1>3, <1>5, <2>1, SubSeqFull
    <3>2. np # <<>>
      BY <1>1 DEF Begins
    <3>3. Own(nodes[at]) = Plain(np)
      BY <1>1, <2>3, <3>2, OwnText
    <3> QED BY <1>10, <2>1, <2>3, <3>1, <3>3
  <2> QED BY <1>8, <2>2, <2>3
<1> QED BY <1>11, <1>12

(***************************************************************************)
(* Insertion keeps it: from node to node.                                  *)
(***************************************************************************)

\* Every controller is at the end of the text of its route, and the route on
\* its way is on the way to its own text.
Spelled(b) ==
    /\ Labels(nodes, b, registered)
    /\ phase = "inserting" => Going(b[at], path, queue, Newest)
    /\ phase = "placing" => Going(b[at] \o Own(nodes[at]), path, queue, Newest)

SpellInv == phase # "aborted" => \E b : Spelled(b)

\* No symbols.
LEMMA NothingSymbols == <<>> \in Seq(Symbols) /\ Len(<<>>) = 0 /\ NoCatchAll(<<>>, 0)
<1>1. <<>> \in Seq(Symbols) /\ Len(<<>>) = 0
  BY EmptyIs
<1>2. NoCatchAll(<<>>, 0)
  BY DEF NoCatchAll
<1> QED BY <1>1, <1>2

\* A text and nothing.
LEMMA NothingMore ==
    ASSUME NEW u \in Seq(Symbols)
    PROVE  u \o <<>> = u /\ <<>> \o u = u
<1> DEFINE S == Symbols
<1>1. u \in Seq(S)
  OBVIOUS
<1> HIDE DEF S
<1> QED BY <1>1, ConcatEmptySeq

\* A text of no symbols is the empty one.
LEMMA NoSymbols == ASSUME NEW u \in Seq(Symbols), Len(u) = 0 PROVE u = <<>>
<1> DEFINE S == Symbols
<1>1. u \in Seq(S)
  OBVIOUS
<1> HIDE DEF S
<1> QED BY <1>1, EmptySeq

\* No characters, no symbols.
LEMMA PlainNothing == Plain(<<>>) = <<>>
<1>1. <<>> \in Seq(Chars) /\ Len(<<>>) = 0
  BY EmptyIs
<1>2. Plain(<<>>) \in Seq(Symbols) /\ Len(Plain(<<>>)) = 0
  BY <1>1, PlainIs
<1> QED BY <1>2, NoSymbols

\* A node that has no edge yet adds nothing.
LEMMA OwnBlank == ASSUME NEW n, n.path = <<>>, n.type # "CATCH_ALL" PROVE Own(n) = <<>>
<1>1. <<>> # <<":">>
  <2>1. Len(<<>>) = 0 /\ Len(<<":">>) = 1
    OBVIOUS
  <2> QED BY <2>1
<1> QED BY <1>1, PlainNothing DEF Own

\* addRoute: the whole route is to come.
LEMMA AddSpells ==
    ASSUME BuildInv, NEW route \in Routes, AddRoute(route), NEW b, Spelled(b)
    PROVE  Spelled(b)'
<1>1. /\ phase = "building" /\ registered' = Append(registered, route) /\ nodes' = nodes
  BY DEF AddRoute
<1>2. Handled(nodes, Len(registered), valid) /\ registered \in Seq(Routes)
  BY <1>1 DEF BuildInv, Past, Busy
<1>3. /\ Len(registered) \in Nat /\ Len(registered') = Len(registered) + 1
      /\ \A i \in 1..Len(registered) : registered'[i] = registered[i]
      /\ registered'[Len(registered) + 1] = route
  BY <1>1, <1>2, AppendIs
<1>4. Labels(nodes, b, registered')
  <2>1. ASSUME NEW n \in DOMAIN nodes PROVE LabelFits(nodes, b, registered', n)
    <3>1. LabelFits(nodes, b, registered, n)
      BY DEF Spelled, Labels
    <3>2. nodes[n].handle \in 0..Len(registered)
      BY <1>2 DEF Handled
    <3>3. nodes[n].handle # 0 => registered'[nodes[n].handle] = registered[nodes[n].handle]
      BY <1>3, <3>2
    <3> QED BY <3>1, <3>3 DEF LabelFits
  <2> QED BY <2>1 DEF Spelled, Labels
<1>5. CASE \E s \in ToSet(route.segments) : s.kind = "BAD"
  <2>1. phase' = "building"
    BY <1>1, <1>5 DEF AddRoute
  <2> QED BY <1>1, <1>4, <2>1 DEF Spelled
<1>6. CASE ~ \E s \in ToSet(route.segments) : s.kind = "BAD"
  <2>1. /\ phase' = "inserting" /\ at' = 1 /\ path' = Calced(route)
        /\ queue' = Wildcards(route)
    BY <1>6 DEF AddRoute
  <2>2. PICK t : Reads(Calced(route), Wildcards(route), t) /\ Whole(route, t)
    BY <1>6, RouteReads
  <2>3. t \in Seq(Symbols)
    BY <2>2 DEF Reads
  <2>4. <<>> \o t = t
    BY <2>3, NothingMore
  <2>5. b[1] = <<>>
    BY DEF Spelled, Labels
  <2>6. Newest' = route
    BY <1>3 DEF Newest
  <2>7. Going(b[at'], path', queue', Newest')
    BY <2>1, <2>2, <2>4, <2>5, <2>6 DEF Going
  <2>8. Going(b[at], path, queue, Newest)'
    BY <2>7 DEF Going
  <2> QED BY <1>1, <1>4, <2>1, <2>7 DEF Spelled
<1> QED BY <1>5, <1>6

\* insertChild on the empty root.
LEMMA FirstSpells ==
    ASSUME BuildInv, InsertFirst, NEW b, Spelled(b)
    PROVE  Spelled(b)'
<1>1. /\ phase = "inserting" /\ at = 1 /\ nodes[1].path = <<>>
      /\ phase' = "placing" /\ at' = at /\ path' = path
      /\ UNCHANGED <<registered, nodes, queue>>
  BY DEF InsertFirst, GoesOn
<1>2. nodes[1].type # "CATCH_ALL"
  BY <1>1 DEF BuildInv, Rooted, Blank, Begins
<1>3. Own(nodes[at]) = <<>>
  BY <1>1, <1>2, OwnBlank
<1>4. b[at] = <<>>
  BY <1>1 DEF Spelled, Labels
<1>5. b[at] \o Own(nodes[at]) = b[at]
  BY <1>3, <1>4, NothingSymbols, NothingMore
<1>6. Going(b[at] \o Own(nodes[at]), path, queue, Newest)
  BY <1>1, <1>5 DEF Spelled
<1>7. Newest' = Newest
  BY <1>1 DEF Newest
<1>8. Going(b[at'] \o Own(nodes'[at']), path', queue', Newest')
  BY <1>1, <1>6, <1>7
<1>9. Labels(nodes', b, registered')
  BY <1>1 DEF Spelled
<1> QED BY <1>1, <1>8, <1>9 DEF Spelled

\* An insertion that returns, and leaves a tree that is labelled.
LEMMA ReturnSpells ==
    ASSUME NEW success, NEW left, Returns(success, left), NEW b,
           Labels(nodes', b, registered)
    PROVE  Spelled(b)'
<1>1. phase' \in {"aborted", "building"} /\ registered' = registered
  BY DEF Returns
<1> QED BY <1>1 DEF Spelled

\* A child of the node is where the rest of the route goes on.
LEMMA DownSpells ==
    ASSUME NEW b, Labels(Cut, b, registered), at \in DOMAIN Cut,
           Going(b[at] \o Own(Cut[at]), Rest, queue, Newest),
           NEW i \in DOMAIN Cut[at].children, GoesOn("inserting", Cut[at].children[i], Rest),
           nodes' = Cut, queue' = queue
    PROVE  Spelled(b)'
<1>1. /\ phase' = "inserting" /\ at' = Cut[at].children[i] /\ path' = Rest
      /\ registered' = registered
  BY DEF GoesOn
<1>2. b[Cut[at].children[i]] = b[at] \o Own(Cut[at])
  BY DEF Labels, LabelFits
<1>3. Newest' = Newest
  BY <1>1 DEF Newest
<1>4. Going(b[at'], path', queue', Newest')
  BY <1>1, <1>2, <1>3
<1>5. Labels(nodes', b, registered')
  BY <1>1
<1> QED BY <1>1, <1>4, <1>5 DEF Spelled

\* insert goes through a wildcard or gives up.
LEMMA ThroughSpells ==
    ASSUME BuildInv, InsertThroughWildcard, NEW a, Spelled(a)
    PROVE  \E b : Spelled(b)'
<1>1. /\ phase = "inserting" /\ nodes[1].path # <<>> /\ nodes' = Cut /\ Cut[at].wild
  BY DEF InsertThroughWildcard, Inserting
<1>2. /\ at \in DOMAIN Cut /\ NodeFits(Cut, 0, <<>>, at) /\ Cut[at] \in NodeSet
  BY <1>1, InsertingIs
<1>3. PICK b : /\ Labels(Cut, b, registered)
               /\ Going(b[at] \o Own(Cut[at]), Rest, queue, Newest)
  BY <1>1, CutLabels DEF Spelled
<1>4. 1 \in DOMAIN Cut[at].children
  <2>1. Len(Cut[at].children) = 1
    BY <1>1, <1>2 DEF NodeFits, WildFits
  <2> QED BY <1>2, <2>1, NodeTypes
<1>5. \/ GoesOn("inserting", Cut[at].children[1], Rest) /\ queue' = queue
      \/ Returns(FALSE, queue)
  BY DEF InsertThroughWildcard
<1>6. Spelled(b)'
  BY <1>1, <1>2, <1>3, <1>4, <1>5, DownSpells, ReturnSpells
<1> QED BY <1>6

\* insert goes on in a child.
LEMMA IntoChildSpells ==
    ASSUME BuildInv, InsertIntoChild, NEW a, Spelled(a)
    PROVE  \E b : Spelled(b)'
<1>1. /\ phase = "inserting" /\ nodes[1].path # <<>> /\ nodes' = Cut /\ queue' = queue
  BY DEF InsertIntoChild, Inserting
<1>2. at \in DOMAIN Cut
  BY <1>1, InsertingIs
<1>3. PICK b : /\ Labels(Cut, b, registered)
               /\ Going(b[at] \o Own(Cut[at]), Rest, queue, Newest)
  BY <1>1, CutLabels DEF Spelled
<1>4. PICK i \in DOMAIN Cut[at].children : GoesOn("inserting", Cut[at].children[i], Rest)
  BY DEF InsertIntoChild, ToSet
<1>5. Spelled(b)'
  BY <1>1, <1>2, <1>3, <1>4, DownSpells
<1> QED BY <1>5

(***************************************************************************)
(* Insertion keeps it: where the route ends or leaves the tree.            *)
(***************************************************************************)

\* A step that touches one node and adds others labels the tree if it labels
\* those.
LEMMA LabelsOthers ==
    ASSUME NEW t, Closed(t), 1 \in DOMAIN t, NEW b, NEW reg, Labels(t, b, reg),
           NEW a, NEW t2, \A n \in DOMAIN t : n # a => t2[n] = t[n],
           NEW b2, \A n \in DOMAIN t : b2[n] = b[n],
           \A n \in DOMAIN t2 : (n \in DOMAIN t /\ n # a) \/ LabelFits(t2, b2, reg, n)
    PROVE  Labels(t2, b2, reg)
<1>1. ASSUME NEW n \in DOMAIN t, n # a PROVE LabelFits(t2, b2, reg, n)
  <2>1. LabelFits(t, b, reg, n) /\ t2[n] = t[n]
    BY <1>1 DEF Labels
  <2> QED BY <2>1, LabelStays
<1>2. b2[1] = <<>>
  BY DEF Labels
<1> QED BY <1>1, <1>2 DEF Labels

\* Texts without a catch-all.
LEMMA NoCatchAllTwo ==
    ASSUME NEW u \in Seq(Symbols), NEW v \in Seq(Symbols),
           NoCatchAll(u, Len(u)), NoCatchAll(v, Len(v))
    PROVE  u \o v \in Seq(Symbols) /\ NoCatchAll(u \o v, Len(u \o v))
<1> DEFINE z == u \o v
<1>1. /\ z \in Seq(Symbols) /\ Len(z) = Len(u) + Len(v) /\ Len(u) \in Nat /\ Len(v) \in Nat
      /\ \A j \in 1..Len(u) : z[j] = u[j]
      /\ \A j \in 1..Len(v) : z[Len(u) + j] = v[j]
  BY Joining
<1> HIDE DEF z
<1>2. ASSUME NEW j \in 1..Len(z) PROVE z[j].kind # "CATCH_ALL"
  <2>1. CASE j \in 1..Len(u)
    BY <1>1, <2>1 DEF NoCatchAll
  <2>2. CASE j \notin 1..Len(u)
    <3>1. j - Len(u) \in 1..Len(v) /\ Len(u) + (j - Len(u)) = j
      BY <1>1, <2>2
    <3>2. z[j] = v[j - Len(u)]
      BY <1>1, <3>1
    <3> QED BY <3>1, <3>2 DEF NoCatchAll
  <2> QED BY <2>1, <2>2
<1> QED BY <1>1, <1>2 DEF NoCatchAll, z

\* A catch-all is no character.
LEMMA NoCatchAllPlain == ASSUME NEW w \in Seq(Chars) PROVE NoCatchAll(Plain(w), Len(Plain(w)))
BY PlainIs, SymbolFields DEF NoCatchAll

\* Only the node of a catch-all adds one.
LEMMA NoCatchAllOwn ==
    ASSUME NEW n \in NodeSet, n.path # <<>> \/ n.type # "CATCH_ALL"
    PROVE  NoCatchAll(Own(n), Len(Own(n)))
<1>1. CASE n.path = <<":">>
  <2> DEFINE w == Wildcard([kind |-> "PARAM", re |-> n.re, name |-> n.name])
  <2>1. Own(n) = <<w>>
    BY <1>1 DEF Own
  <2>2. w.kind = "PARAM"
    BY SymbolFields
  <2> HIDE DEF w
  <2>3. Len(<<w>>) = 1 /\ <<w>>[1] = w
    OBVIOUS
  <2> QED BY <2>1, <2>2, <2>3 DEF NoCatchAll
<1>2. CASE n.path # <<":">>
  <2>1. Own(n) = Plain(n.path)
    BY <1>2 DEF Own
  <2> QED BY <2>1, NodeTypes, NoCatchAllPlain
<1> QED BY <1>1, <1>2

\* What insert leaves of the tree for its last turns.
LEMMA CutFacts ==
    ASSUME BuildInv, phase = "inserting", nodes[1].path # <<>>, NEW a, Spelled(a)
    PROVE  /\ Cut \in Seq(NodeSet) /\ Closed(Cut) /\ DOMAIN Cut = 1..Len(Cut) /\ Len(Cut) \in Nat
           /\ at \in DOMAIN Cut /\ 1 \in DOMAIN Cut /\ Cut[at] \in NodeSet /\ Cut[at].path # <<>>
           /\ Rest \in Seq(Chars) /\ queue \in Seq(Segments)
           /\ registered \in Seq(Routes) /\ Newest \in Routes /\ Ctrl # 0
           /\ registered[Ctrl] = Newest
           /\ \E b : /\ Labels(Cut, b, registered)
                     /\ b[at] \o Own(Cut[at]) \in Seq(Symbols)
                     /\ NoCatchAll(b[at] \o Own(Cut[at]), Len(b[at] \o Own(Cut[at])))
                     /\ Going(b[at] \o Own(Cut[at]), Rest, queue, Newest)
<1>1. /\ registered \in Seq(Routes) /\ registered # <<>> /\ queue \in Seq(Segments)
      /\ Sound(Cut, Len(registered) - 1, valid)
      /\ at \in DOMAIN Cut /\ 1 \in DOMAIN Cut /\ Cut[at] \in NodeSet /\ Cut[at].path # <<>>
      /\ Rest \in Seq(Chars)
  BY InsertingIs
<1>2. /\ Cut \in Seq(NodeSet) /\ Closed(Cut) /\ DOMAIN Cut = 1..Len(Cut) /\ Len(Cut) \in Nat
  BY <1>1, ShapedClosed, DomainOfTree DEF Sound
<1>3. Newest \in Routes /\ Ctrl # 0 /\ registered[Ctrl] = Newest
  <2>1. Len(registered) \in Nat /\ Len(registered) # 0
    BY <1>1, EmptySeq
  <2>2. Len(registered) \in 1..Len(registered)
    BY <2>1
  <2> QED BY <1>1, <2>1, <2>2 DEF Newest, Ctrl
<1>4. PICK b : /\ Labels(Cut, b, registered)
               /\ Going(b[at] \o Own(Cut[at]), Rest, queue, Newest)
  BY CutLabels DEF Spelled
<1>5. b[at] \in Seq(Symbols) /\ NoCatchAll(b[at], Len(b[at]))
  BY <1>1, <1>4 DEF Labels, LabelFits
<1>6. Own(Cut[at]) \in Seq(Symbols) /\ NoCatchAll(Own(Cut[at]), Len(Own(Cut[at])))
  BY <1>1, OwnIs, NoCatchAllOwn
<1>7. /\ b[at] \o Own(Cut[at]) \in Seq(Symbols)
      /\ NoCatchAll(b[at] \o Own(Cut[at]), Len(b[at] \o Own(Cut[at])))
  BY <1>5, <1>6, NoCatchAllTwo
<1> QED BY <1>1, <1>2, <1>3, <1>4, <1>7

\* A successful insertion that leaves something in the queue aborts.
LEMMA ReturnsAll ==
    ASSUME Ordinary, NEW left, Returns(TRUE, left), phase' # "aborted"
    PROVE  left = <<>>
BY DEF Returns, Ordinary

\* insert gives the controller to the node at which the route ends.
LEMMA HereSpells ==
    ASSUME BuildInv, Ordinary, InsertHere, NEW a, Spelled(a), phase' # "aborted"
    PROVE  \E b : Spelled(b)'
<1> DEFINE n == Cut[at]
           up == [n EXCEPT !.handle = Ctrl]
           t2 == [Cut EXCEPT ![at] = up]
<1>1. /\ phase = "inserting" /\ nodes[1].path # <<>> /\ Rest = <<>>
      /\ \/ nodes' = Cut /\ Returns(FALSE, queue)
         \/ nodes' = t2 /\ Returns(TRUE, queue)
  BY DEF InsertHere
<1>2. /\ Cut \in Seq(NodeSet) /\ Closed(Cut) /\ at \in DOMAIN Cut /\ 1 \in DOMAIN Cut
      /\ n \in NodeSet /\ n.path # <<>> /\ queue \in Seq(Segments)
      /\ Newest \in Routes /\ registered[Ctrl] = Newest
  BY <1>1, CutFacts
<1>3. PICK b : /\ Labels(Cut, b, registered)
               /\ b[at] \o Own(n) \in Seq(Symbols)
               /\ NoCatchAll(b[at] \o Own(n), Len(b[at] \o Own(n)))
               /\ Going(b[at] \o Own(n), Rest, queue, Newest)
  BY <1>1, CutFacts
<1>4. CASE nodes' = Cut /\ Returns(FALSE, queue)
  <2>1. Spelled(b)'
    BY <1>3, <1>4, ReturnSpells
  <2> QED BY <2>1
<1>5. CASE nodes' = t2 /\ Returns(TRUE, queue)
  <2>1. queue = <<>>
    BY <1>5, ReturnsAll
  <2>2. Spells(Newest, b[at] \o Own(n))
    <3>1. Whole(Newest, b[at] \o Own(n))
      BY <1>1, <1>2, <1>3, <2>1, GoesOut
    <3> QED BY <1>2, <1>3, <3>1, WholeSpells
  <2> HIDE DEF Cut
  <2>3. /\ up.handle = Ctrl /\ up.path = n.path /\ up.type = n.type /\ up.re = n.re
        /\ up.name = n.name /\ up.children = n.children
    BY <1>2 DEF NodeSet
  <2>4. t2[at] = up /\ DOMAIN t2 = DOMAIN Cut /\ \A k \in DOMAIN Cut : k # at => t2[k] = Cut[k]
    BY <1>2
  <2>5. Own(up) = Own(n)
    BY <2>3 DEF Own
  <2>6. LabelFits(Cut, b, registered, at)
    BY <1>2, <1>3 DEF Labels
  <2> HIDE DEF up, t2
  <2>7. LabelFits(t2, b, registered, at)
    BY <1>2, <2>2, <2>3, <2>4, <2>5, <2>6 DEF LabelFits
  <2>8. Labels(t2, b, registered)
    BY <1>2, <1>3, <2>4, <2>7, LabelsOthers
  <2>9. Spelled(b)'
    BY <1>5, <2>8, ReturnSpells
  <2> QED BY <2>9
<1> QED BY <1>1, <1>4, <1>5

\* insert adds a child for insertChild.
LEMMA NewChildSpells ==
    ASSUME BuildInv, InsertNewChild, NEW a, Spelled(a)
    PROVE  \E b : Spelled(b)'
<1> DEFINE n == Cut[at]
           new == Len(Cut) + 1
           leaf == Node("STATIC")
           up == [n EXCEPT !.indices = Append(@, Rest[1]), !.children = Append(@, new)]
           t1 == [Cut EXCEPT ![at] = up]
           t2 == Append(t1, leaf)
<1>1. /\ phase = "inserting" /\ nodes[1].path # <<>> /\ queue' = queue
      /\ \/ nodes' = Cut /\ GoesOn("placing", at, Rest)
         \/ /\ GoesOn("placing", new, Rest)
            /\ nodes' = Append([Cut EXCEPT ![at].indices = Append(@, Rest[1]),
                                           ![at].children = Append(@, new)], leaf)
  BY DEF InsertNewChild
<1>2. /\ Cut \in Seq(NodeSet) /\ Closed(Cut) /\ at \in DOMAIN Cut /\ 1 \in DOMAIN Cut
      /\ n \in NodeSet /\ n.path # <<>> /\ queue \in Seq(Segments)
      /\ DOMAIN Cut = 1..Len(Cut) /\ Len(Cut) \in Nat
  BY <1>1, CutFacts
<1>3. PICK b : /\ Labels(Cut, b, registered)
               /\ b[at] \o Own(n) \in Seq(Symbols)
               /\ NoCatchAll(b[at] \o Own(n), Len(b[at] \o Own(n)))
               /\ Going(b[at] \o Own(n), Rest, queue, Newest)
  BY <1>1, CutFacts
<1> HIDE DEF Cut, Rest
<1>4. CASE nodes' = Cut /\ GoesOn("placing", at, Rest)
  <2>1. /\ phase' = "placing" /\ at' = at /\ path' = Rest /\ registered' = registered
        /\ nodes' = Cut /\ queue' = queue
    BY <1>1, <1>4 DEF GoesOn
  <2>2. Newest' = Newest
    BY <2>1 DEF Newest
  <2>3. Going(b[at'] \o Own(nodes'[at']), path', queue', Newest')
    BY <1>3, <2>1, <2>2
  <2>4. Labels(nodes', b, registered')
    BY <1>3, <2>1
  <2>5. Spelled(b)'
    BY <2>1, <2>3, <2>4 DEF Spelled
  <2> QED BY <2>5
<1>5. CASE /\ GoesOn("placing", new, Rest)
           /\ nodes' = Append([Cut EXCEPT ![at].indices = Append(@, Rest[1]),
                                          ![at].children = Append(@, new)], leaf)
  <2>1. /\ phase' = "placing" /\ at' = new /\ path' = Rest /\ registered' = registered
        /\ nodes' = t2 /\ queue' = queue
    <3>1. /\ phase' = "placing" /\ at' = new /\ path' = Rest /\ registered' = registered
          /\ queue' = queue
      BY <1>1, <1>5 DEF GoesOn
    <3>2. [Cut EXCEPT ![at].indices = Append(@, Rest[1]), ![at].children = Append(@, new)] = t1
      BY <1>2 DEF NodeSet
    <3> QED BY <1>5, <3>1, <3>2
  <2> DEFINE c2 == Append(n.children, new)
             b2 == [k \in 1..new |-> IF k = new THEN b[at] \o Own(n) ELSE b[k]]
  <2>2. /\ up.handle = n.handle /\ up.path = n.path /\ up.type = n.type /\ up.re = n.re
        /\ up.name = n.name /\ up.children = c2
    BY <1>2 DEF NodeSet
  <2>3. leaf.path = <<>> /\ leaf.type = "STATIC" /\ leaf.handle = 0 /\ leaf.children = <<>>
    BY DEF Node
  <2> HIDE DEF up, leaf
  <2>4. /\ t1[at] = up /\ DOMAIN t1 = DOMAIN Cut /\ \A k \in DOMAIN Cut : k # at => t1[k] = Cut[k]
        /\ Len(t1) = Len(Cut)
    BY <1>2
  <2> HIDE DEF t1
  <2>5. /\ DOMAIN t2 = 1..new /\ t2[at] = up /\ t2[new] = leaf
        /\ \A k \in DOMAIN Cut : k # at => t2[k] = Cut[k]
        /\ \A k \in DOMAIN t2 : k \in DOMAIN Cut \/ k = new
        /\ \A k \in DOMAIN Cut : k \in 1..new /\ k # new
        /\ new \in 1..new
    BY <1>2, <2>4
  <2>6. /\ \A j \in DOMAIN n.children : c2[j] = n.children[j]
        /\ \A j \in DOMAIN c2 : j \in DOMAIN n.children \/ c2[j] = new
    <3>1. n.children \in Seq(Nat \ {0}) /\ new \in Nat \ {0}
      BY <1>2, NodeTypes
    <3>2. /\ Len(n.children) \in Nat
          /\ DOMAIN c2 = 1..(Len(n.children) + 1) /\ DOMAIN n.children = 1..Len(n.children)
          /\ \A j \in 1..Len(n.children) : c2[j] = n.children[j]
          /\ c2[Len(n.children) + 1] = new
      BY <3>1, AppendIs
    <3> HIDE DEF c2, n, new
    <3> QED BY <3>2
  <2> HIDE DEF t2, new, c2
  <2>7. b2[new] = b[at] \o Own(n) /\ \A k \in DOMAIN Cut : b2[k] = b[k]
    BY <2>5
  <2> HIDE DEF b2
  <2>8. Own(up) = Own(n)
    BY <2>2 DEF Own
  <2>9. Own(leaf) = <<>>
    BY <2>3, OwnBlank
  <2>10. LabelFits(Cut, b, registered, at)
    BY <1>2, <1>3 DEF Labels
  <2>11. LabelFits(t2, b2, registered, at)
    <3>1. /\ b2[at] \in Seq(Symbols) /\ NoCatchAll(b2[at], Len(b2[at]))
          /\ t2[at].path = <<":">> \/ Colonless(t2[at].path)
          /\ t2[at].handle # 0 => Spells(registered[t2[at].handle], b2[at] \o Own(t2[at]))
      BY <1>2, <2>2, <2>5, <2>7, <2>8, <2>10 DEF LabelFits
    <3>2. ASSUME NEW j \in DOMAIN c2 PROVE b2[c2[j]] = b2[at] \o Own(up)
      <4>1. CASE j \in DOMAIN n.children
        <5>1. c2[j] = n.children[j] /\ n.children[j] \in DOMAIN Cut
          BY <1>2, <2>6, <4>1 DEF Closed
        <5>2. b[n.children[j]] = b[at] \o Own(n)
          BY <2>10, <4>1 DEF LabelFits
        <5> QED BY <1>2, <2>7, <2>8, <5>1, <5>2
      <4>2. CASE c2[j] = new
        BY <1>2, <2>7, <2>8, <4>2
      <4> QED BY <2>6, <4>1, <4>2
    <3> QED BY <2>2, <2>5, <3>1, <3>2 DEF LabelFits
  <2>12. LabelFits(t2, b2, registered, new)
    <3>1. Colonless(<<>>) /\ DOMAIN <<>> = {}
      BY DEF Colonless
    <3> QED BY <1>3, <2>3, <2>5, <2>7, <3>1 DEF LabelFits
  <2>13. Labels(t2, b2, registered)
    <3>1. \A k \in DOMAIN t2 : (k \in DOMAIN Cut /\ k # at) \/ LabelFits(t2, b2, registered, k)
      BY <2>5, <2>11, <2>12
    <3>2. \A k \in DOMAIN Cut : k # at => t2[k] = Cut[k]
      BY <2>5
    <3>3. \A k \in DOMAIN Cut : b2[k] = b[k]
      BY <2>7
    <3> QED BY <1>2, <1>3, <3>1, <3>2, <3>3, LabelsOthers, ZenonT(40)
  <2>14. b2[new] \o Own(t2[new]) = b[at] \o Own(n)
    BY <1>3, <2>5, <2>7, <2>9, NothingMore
  <2>15. Newest' = Newest
    BY <2>1 DEF Newest
  <2>16. Going(b2[at'] \o Own(nodes'[at']), path', queue', Newest')
    BY <1>3, <2>1, <2>14, <2>15
  <2>17. Labels(nodes', b2, registered')
    BY <2>1, <2>13
  <2>18. PICK c : c = b2
    OBVIOUS
  <2>19. Going(c[at'] \o Own(nodes'[at']), path', queue', Newest') /\ Labels(nodes', c, registered')
    BY <2>16, <2>17, <2>18
  <2>20. Spelled(c)'
    BY <2>1, <2>19 DEF Spelled
  <2> QED BY <2>20
<1> QED BY <1>1, <1>4, <1>5

(***************************************************************************)
(* Insertion keeps it: insertChild.                                        *)
(***************************************************************************)

\* The tree that insertChild works on.
LEMMA PlaceFacts ==
    ASSUME BuildInv, phase = "placing", NEW a, Spelled(a)
    PROVE  /\ nodes \in Seq(NodeSet) /\ Closed(nodes) /\ DOMAIN nodes = 1..Len(nodes)
           /\ Len(nodes) \in Nat /\ at \in DOMAIN nodes /\ 1 \in DOMAIN nodes
           /\ nodes[at] \in NodeSet /\ path \in Seq(Chars) /\ queue \in Seq(Segments)
           /\ registered \in Seq(Routes) /\ Newest \in Routes /\ Ctrl # 0
           /\ registered[Ctrl] = Newest
           /\ Labels(nodes, a, registered) /\ LabelFits(nodes, a, registered, at)
           /\ a[at] \in Seq(Symbols) /\ NoCatchAll(a[at], Len(a[at]))
           /\ Own(nodes[at]) \in Seq(Symbols)
           /\ Going(a[at] \o Own(nodes[at]), path, queue, Newest)
           /\ \/ Blank(nodes[at]) /\ Colon # 1 /\ Own(nodes[at]) = <<>>
              \/ /\ Colon = 1 /\ nodes[at].path # <<>> /\ Colonless(nodes[at].path)
                 /\ Own(nodes[at]) = Plain(nodes[at].path)
<1>1. /\ registered \in Seq(Routes) /\ registered # <<>> /\ queue \in Seq(Segments)
      /\ nodes \in Seq(NodeSet) /\ Len(nodes) \in Nat
      /\ DOMAIN nodes = 1..Len(nodes) /\ at \in DOMAIN nodes /\ 1 \in DOMAIN nodes
      /\ nodes[at] \in NodeSet /\ WellShaped(nodes, Fresh, path) /\ Suffices(path, queue)
      /\ \/ Blank(nodes[at]) /\ Colon # 1
         \/ nodes[at].path # <<>> /\ Colon = 1
  BY PlacingIs
<1>2. Closed(nodes) /\ path \in Seq(Chars)
  BY <1>1, ShapedClosed DEF Suffices
<1>3. Newest \in Routes /\ Ctrl # 0 /\ registered[Ctrl] = Newest
  <2>1. Len(registered) \in Nat /\ Len(registered) # 0
    BY <1>1, EmptySeq
  <2>2. Len(registered) \in 1..Len(registered)
    BY <2>1
  <2> QED BY <1>1, <2>1, <2>2 DEF Newest, Ctrl
<1>4. /\ Labels(nodes, a, registered)
      /\ Going(a[at] \o Own(nodes[at]), path, queue, Newest)
  BY DEF Spelled
<1>5. LabelFits(nodes, a, registered, at)
  BY <1>1, <1>4 DEF Labels
<1>6. a[at] \in Seq(Symbols) /\ NoCatchAll(a[at], Len(a[at]))
  BY <1>5 DEF LabelFits
<1>7. Own(nodes[at]) \in Seq(Symbols)
  BY <1>1, OwnIs
<1> HIDE DEF Colon
<1>8. Blank(nodes[at]) => Own(nodes[at]) = <<>>
  BY OwnBlank DEF Blank
<1>9. nodes[at].path # <<>> =>
         Colonless(nodes[at].path) /\ Own(nodes[at]) = Plain(nodes[at].path)
  <2> SUFFICES ASSUME nodes[at].path # <<>>
               PROVE  Colonless(nodes[at].path) /\ Own(nodes[at]) = Plain(nodes[at].path)
    OBVIOUS
  <2>1. nodes[at].path # <<":">>
    BY DEF BuildInv, Places
  <2>2. Colonless(nodes[at].path)
    BY <1>5, <2>1 DEF LabelFits
  <2> QED BY <1>1, <2>2, OwnText
<1> QED BY <1>1, <1>2, <1>3, <1>4, <1>5, <1>6, <1>7, <1>8, <1>9

\* insertChild puts the rest of a route into a node.
LEMMA StaticSpells ==
    ASSUME BuildInv, Ordinary, PlaceStatic, NEW b, Spelled(b), phase' # "aborted"
    PROVE  Spelled(b)'
<1> DEFINE n == nodes[at]
           up == [n EXCEPT !.path = path, !.handle = Ctrl, !.type = "STATIC", !.indices = <<>>]
           t2 == [nodes EXCEPT ![at] = up]
<1>1. phase = "placing" /\ Colon = 0 /\ Returns(TRUE, queue)
  BY DEF PlaceStatic
<1>2. /\ nodes \in Seq(NodeSet) /\ Closed(nodes) /\ at \in DOMAIN nodes /\ 1 \in DOMAIN nodes
      /\ n \in NodeSet /\ path \in Seq(Chars) /\ queue \in Seq(Segments)
      /\ Newest \in Routes /\ Ctrl # 0 /\ registered[Ctrl] = Newest
      /\ Labels(nodes, b, registered) /\ LabelFits(nodes, b, registered, at)
      /\ b[at] \in Seq(Symbols) /\ NoCatchAll(b[at], Len(b[at]))
      /\ Going(b[at] \o Own(n), path, queue, Newest)
      /\ Blank(n) /\ Own(n) = <<>>
  BY <1>1, PlaceFacts
<1>3. nodes' = t2
  BY <1>2 DEF PlaceStatic, NodeSet
<1>4. /\ up.handle = Ctrl /\ up.path = path /\ up.type = "STATIC" /\ up.children = <<>>
      /\ up \in NodeSet
  <2>1. Ctrl \in Nat
    BY DEF Ctrl, BuildInv
  <2>2. <<>> \in Seq(Chars)
    OBVIOUS
  <2> QED BY <1>2, <2>1, <2>2 DEF NodeSet, Blank
<1> HIDE DEF up
<1>5. t2[at] = up /\ DOMAIN t2 = DOMAIN nodes /\ \A k \in DOMAIN nodes : k # at => t2[k] = nodes[k]
  BY <1>2
<1> HIDE DEF t2
<1>6. Colonless(path)
  BY <1>1, <1>2, ColonIs DEF Colonless
<1>7. Own(up) = Plain(path)
  BY <1>4, <1>6, OwnText
<1>8. queue = <<>>
  BY <1>1, ReturnsAll
<1> DEFINE v == b[at] \o Plain(path)
<1>9. v \in Seq(Symbols) /\ NoCatchAll(v, Len(v))
  BY <1>2, PlainIs, NoCatchAllPlain, NoCatchAllTwo
<1>10. Whole(Newest, v)
  <2>1. Going(b[at], path, queue, Newest)
    BY <1>2, NothingMore
  <2>2. Len(path) \in Nat /\ Len(path) \in 0..Len(path)
    BY <1>2
  <2>3. \A j \in 1..Len(path) : path[j] # ":"
    BY <1>6 DEF Colonless
  <2>4. Going(b[at] \o Plain(SubSeq(path, 1, Len(path))), From(path, Len(path) + 1), queue, Newest)
    BY <1>2, <2>1, <2>2, <2>3, GoesText
  <2>5. SubSeq(path, 1, Len(path)) = path
    BY <1>2, SubSeqFull
  <2>6. From(path, Len(path) + 1) = <<>>
    <3>1. Len(path) + 1 \in 1..(Len(path) + 1) /\ Len(path) - (Len(path) + 1) + 1 = 0
      BY <2>2
    <3>2. /\ From(path, Len(path) + 1) \in Seq(Chars)
          /\ Len(From(path, Len(path) + 1)) = Len(path) - (Len(path) + 1) + 1
      BY <1>2, <3>1, FromIs
    <3> QED BY <3>1, <3>2, EmptySeq
  <2>7. Going(v, <<>>, queue, Newest)
    BY <2>4, <2>5, <2>6
  <2> HIDE DEF v
  <2> QED BY <1>2, <1>8, <1>9, <2>7, GoesOut
<1>11. Spells(Newest, v)
  BY <1>2, <1>9, <1>10, WholeSpells
<1>12. LabelFits(t2, b, registered, at)
  <2>1. DOMAIN <<>> = {}
    OBVIOUS
  <2> QED BY <1>2, <1>4, <1>5, <1>6, <1>7, <1>11, <2>1 DEF LabelFits
<1>13. Labels(t2, b, registered)
  BY <1>2, <1>5, <1>12, LabelsOthers
<1> QED BY <1>1, <1>3, <1>13, ReturnSpells

\* A wildcard beside children is refused.
LEMMA ConflictSpells ==
    ASSUME BuildInv, PlaceConflict, NEW b, Spelled(b) PROVE Spelled(b)'
<1>1. Returns(FALSE, Tail(queue)) /\ nodes' = nodes /\ Labels(nodes, b, registered)
  BY DEF PlaceConflict, Spelled
<1>2. Labels(nodes', b, registered)
  BY <1>1
<1> QED BY <1>1, <1>2, ReturnSpells

\* The node that a wildcard hangs under takes the text before it.
LEMMA ParentSpells ==
    ASSUME BuildInv, WildAt, NEW b, Spelled(b), NEW id \in Nat \ {0}
    PROVE  LET up == Parent(Head(queue), id)
               v == b[at] \o Own(up)
               w == Wildcard(Head(queue))
           IN  /\ up.children = <<id>> /\ Colonless(up.path) /\ up.handle = nodes[at].handle
               /\ v \in Seq(Symbols) /\ NoCatchAll(v, Len(v)) /\ w \in Symbols
               /\ nodes[at].handle # 0 => Own(up) = Own(nodes[at])
               /\ Going(v \o <<w>>, From(path, Colon + 1), Tail(queue), Newest)
<1> DEFINE n == nodes[at]
           up == Parent(Head(queue), id)
           p == IF Colon > 1 THEN SubSeq(path, 1, Colon - 1) ELSE n.path
           ty == IF Colon > 1 THEN "STATIC" ELSE Head(queue).kind
           x == SubSeq(path, 1, Colon - 1)
           w == Wildcard(Head(queue))
           v == b[at] \o Own(up)
           rest == From(path, Colon + 1)
<1>1. /\ n \in NodeSet /\ path \in Seq(Chars) /\ queue \in Seq(Segments)
      /\ LabelFits(nodes, b, registered, at)
      /\ b[at] \in Seq(Symbols) /\ NoCatchAll(b[at], Len(b[at])) /\ Own(n) \in Seq(Symbols)
      /\ Going(b[at] \o Own(n), path, queue, Newest)
      /\ \/ Blank(n) /\ Colon # 1 /\ Own(n) = <<>>
         \/ Colon = 1 /\ n.path # <<>> /\ Colonless(n.path) /\ Own(n) = Plain(n.path)
  BY PlaceFacts DEF WildAt
<1>2. /\ Colon \in 1..Len(path) /\ Len(path) \in Nat /\ path[Colon] = ":"
      /\ \A j \in 1..(Colon - 1) : path[j] # ":"
  BY <1>1, ColonIs DEF WildAt
<1>3. w \in Symbols /\ <<w>> \in Seq(Symbols)
  <2>1. Head(queue) \in Segments /\ Head(queue).kind \notin {"STATIC", "BAD"}
    BY QueueIs DEF WildAt
  <2>2. w \in Symbols
    BY <2>1, WildcardType
  <2> HIDE DEF w
  <2> QED BY <2>2
<1>4. up = [n EXCEPT !.path = p, !.type = ty, !.wild = TRUE, !.children = <<id>>]
  BY DEF Parent
<1>5. up \in NodeSet
  BY ParentIs
<1>6. /\ up.path = p /\ up.type = ty /\ up.children = <<id>> /\ up.handle = n.handle
  BY <1>1, <1>4 DEF NodeSet
<1> HIDE DEF Colon, up, w
<1>7. /\ Colon - 1 \in 0..Len(path) /\ x \in Seq(Chars) /\ Len(x) = Colon - 1
      /\ Colonless(x)
  <2>1. Colon - 1 \in 0..Len(path)
    BY <1>2
  <2>2. x \in Seq(Chars) /\ Len(x) = Colon - 1 /\ \A j \in 1..(Colon - 1) : x[j] = path[j]
    BY <1>1, <2>1, UpToIs
  <2> QED BY <1>2, <2>1, <2>2 DEF Colonless
<1>8. Plain(x) \in Seq(Symbols)
  BY <1>7, PlainIs
<1>9. ASSUME NEW u \in Seq(Symbols), Going(u, path, queue, Newest)
      PROVE  Going((u \o Plain(x)) \o <<w>>, rest, Tail(queue), Newest)
  <2>1. Going(u \o (Plain(x) \o <<w>>), rest, Tail(queue), Newest)
    BY <1>1, <1>2, <1>9, GoesWildcard DEF w
  <2>2. (u \o Plain(x)) \o <<w>> = u \o (Plain(x) \o <<w>>)
    BY <1>3, <1>8, <1>9, Associates
  <2> QED BY <2>1, <2>2
<1>10. CASE Blank(n) /\ Colon # 1 /\ Own(n) = <<>>
  <2>1. Colon > 1
    BY <1>2, <1>10
  <2>2. p = x /\ ty = "STATIC"
    BY <2>1
  <2>3. Own(up) = Plain(x)
    BY <1>5, <1>6, <1>7, <2>2, OwnText
  <2>4. v \in Seq(Symbols) /\ NoCatchAll(v, Len(v))
    BY <1>1, <1>7, <1>8, <2>3, NoCatchAllPlain, NoCatchAllTwo
  <2>5. Going(b[at], path, queue, Newest)
    BY <1>1, <1>10, NothingMore
  <2>6. Going(v \o <<w>>, rest, Tail(queue), Newest)
    BY <1>1, <1>9, <2>3, <2>5
  <2>7. n.handle = 0
    BY <1>10 DEF Blank
  <2>8. Colonless(up.path)
    BY <1>6, <1>7, <2>2
  <2> QED BY <1>3, <1>6, <2>4, <2>6, <2>7, <2>8 DEF up, w
<1>11. CASE Colon = 1 /\ n.path # <<>> /\ Colonless(n.path) /\ Own(n) = Plain(n.path)
  <2>1. p = n.path /\ Colonless(up.path)
    BY <1>6, <1>11
  <2>2. Own(up) = Own(n)
    BY <1>5, <1>6, <1>11, <2>1, OwnText
  <2>3. v \in Seq(Symbols) /\ NoCatchAll(v, Len(v))
    <3>1. NoCatchAll(Own(n), Len(Own(n)))
      BY <1>1, <1>11, NoCatchAllOwn
    <3> QED BY <1>1, <2>2, <3>1, NoCatchAllTwo
  <2>4. Plain(x) = <<>>
    <3>1. Len(x) = 0
      BY <1>7, <1>11
    <3>2. x = <<>>
      BY <1>7, <3>1, EmptySeq
    <3> QED BY <3>2, PlainNothing
  <2>5. Going(v, path, queue, Newest)
    BY <1>1, <2>2
  <2> HIDE DEF v
  <2>6. v \o Plain(x) = v
    BY <2>3, <2>4, NothingMore
  <2>7. Going(v \o <<w>>, rest, Tail(queue), Newest)
    BY <1>9, <2>3, <2>5, <2>6
  <2> QED BY <1>3, <1>6, <2>1, <2>2, <2>3, <2>7 DEF up, w, v
<1> QED BY <1>1, <1>10, <1>11

\* A node with one child.
LEMMA OneChild ==
    ASSUME NEW s, NEW id, s = <<id>>, NEW b, NEW v, b[id] = v
    PROVE  \A i \in DOMAIN s : b[s[i]] = v
<1>1. DOMAIN <<id>> = 1..1 /\ <<id>>[1] = id
  OBVIOUS
<1>2. ASSUME NEW i \in DOMAIN s PROVE b[s[i]] = v
  <2>1. i = 1
    BY <1>1, <1>2
  <2> QED BY <1>1, <2>1
<1> QED BY <1>2

\* Two nodes behind a tree.
LEMMA TwoMore ==
    ASSUME NEW T, NEW t \in Seq(T), NEW x, NEW y, NEW n, n = Len(t) + 1
    PROVE  LET t2 == t \o <<x, y>>
           IN  /\ DOMAIN t2 = 1..(n + 1) /\ t2[n] = x /\ t2[n + 1] = y
               /\ \A k \in 1..Len(t) : t2[k] = t[k]
<1> DEFINE u == <<x, y>>
           t2 == t \o u
           S == T \cup {x, y}
<1>0. t \in Seq(S) /\ x \in S /\ y \in S
  OBVIOUS
<1> HIDE DEF S
<1>1. u \in Seq(S) /\ Len(u) = 2 /\ u[1] = x /\ u[2] = y
  BY <1>0
<1> HIDE DEF u
<1>2. /\ t2 \in Seq(S) /\ Len(t2) = Len(t) + Len(u)
      /\ \A i \in 1..(Len(t) + Len(u)) : t2[i] = IF i <= Len(t) THEN t[i] ELSE u[i - Len(t)]
  BY <1>0, <1>1, ConcatProperties
<1>3. Len(t) \in Nat /\ DOMAIN t2 = 1..Len(t2)
  BY <1>2
<1> HIDE DEF t2
<1>4. /\ n \in 1..(Len(t) + 2) /\ n + 1 \in 1..(Len(t) + 2) /\ ~(n <= Len(t))
      /\ ~(n + 1 <= Len(t)) /\ n - Len(t) = 1 /\ (n + 1) - Len(t) = 2 /\ Len(t) + 2 = n + 1
  BY <1>3
<1>5. \A k \in 1..Len(t) : k \in 1..(Len(t) + 2) /\ k <= Len(t)
  BY <1>3
<1>6. t2[n] = x /\ t2[n + 1] = y
  BY <1>1, <1>2, <1>4
<1>7. \A k \in 1..Len(t) : t2[k] = t[k]
  BY <1>1, <1>2, <1>5
<1> QED BY <1>1, <1>2, <1>3, <1>4, <1>6, <1>7 DEF t2, u

\* A tree in which a wildcard hangs under the node is labelled if what hangs
\* there is.
LEMMA HangLabels ==
    ASSUME BuildInv, WildAt, NEW b, Spelled(b), NEW id, id = Len(nodes) + 1,
           NEW t2, t2[at] = Parent(Head(queue), id),
           \A k \in DOMAIN nodes : k # at => t2[k] = nodes[k],
           NEW b2, \A k \in DOMAIN nodes : b2[k] = b[k],
           b2[id] = b[at] \o Own(Parent(Head(queue), id)),
           \A k \in DOMAIN t2 : k \in DOMAIN nodes \/ LabelFits(t2, b2, registered, k)
    PROVE  Labels(t2, b2, registered)
<1> DEFINE up == Parent(Head(queue), id)
<1>1. /\ Closed(nodes) /\ at \in DOMAIN nodes /\ 1 \in DOMAIN nodes /\ Len(nodes) \in Nat
      /\ Labels(nodes, b, registered) /\ LabelFits(nodes, b, registered, at)
      /\ b[at] \in Seq(Symbols) /\ NoCatchAll(b[at], Len(b[at]))
  BY PlaceFacts DEF WildAt
<1>2. id \in Nat \ {0}
  BY <1>1
<1>3. /\ up.children = <<id>> /\ Colonless(up.path) /\ up.handle = nodes[at].handle
      /\ nodes[at].handle # 0 => Own(up) = Own(nodes[at])
  BY <1>2, ParentSpells
<1>4. t2[at] = up /\ b2[id] = b[at] \o Own(up) /\ b2[at] = b[at]
  BY <1>1
<1> HIDE DEF up
<1>5. LabelFits(t2, b2, registered, at)
  <2>2. \A i \in DOMAIN t2[at].children : b2[t2[at].children[i]] = b2[at] \o Own(t2[at])
    <3> DEFINE s == t2[at].children
               z == b2[at] \o Own(t2[at])
    <3>1. s = <<id>> /\ b2[id] = z
      BY <1>3, <1>4
    <3> HIDE DEF s, z
    <3>2. \A i \in DOMAIN s : b2[s[i]] = z
      BY <3>1, OneChild
    <3> QED BY <3>2 DEF s, z
  <2>3. t2[at].handle # 0 => Spells(registered[t2[at].handle], b2[at] \o Own(t2[at]))
    BY <1>1, <1>3, <1>4 DEF LabelFits
  <2> QED BY <1>1, <1>3, <1>4, <2>2, <2>3 DEF LabelFits
<1>6. \A k \in DOMAIN t2 : (k \in DOMAIN nodes /\ k # at) \/ LabelFits(t2, b2, registered, k)
  BY <1>5
<1> QED BY <1>1, <1>6, LabelsOthers

\* The node of a parameter stands for it.
LEMMA OwnParam ==
    ASSUME NEW n, NEW wild, wild.kind = "PARAM", n.path = <<":">>, n.re = wild.re,
           n.name = wild.name
    PROVE  Own(n) = <<Wildcard(wild)>>
BY DEF Own, Wildcard

\* The node of a catch-all stands for it.
LEMMA OwnCatchAll ==
    ASSUME NEW n, NEW wild, wild.kind = "CATCH_ALL", n.path = <<>>, n.type = "CATCH_ALL",
           n.name = wild.name
    PROVE  Own(n) = <<Wildcard(wild)>>
<1>1. <<>> # <<":">>
  <2>1. Len(<<>>) = 0 /\ Len(<<":">>) = 1
    OBVIOUS
  <2> QED BY <2>1
<1> QED BY <1>1 DEF Own, Wildcard

\* Nothing of the path is left after its last character.
LEMMA FromEnd == ASSUME NEW p \in Seq(Chars) PROVE From(p, Len(p) + 1) = <<>>
<1>1. Len(p) \in Nat
  OBVIOUS
<1>2. Len(p) + 1 \in 1..(Len(p) + 1) /\ Len(p) - (Len(p) + 1) + 1 = 0
  BY <1>1
<1>3. /\ From(p, Len(p) + 1) \in Seq(Chars)
      /\ Len(From(p, Len(p) + 1)) = Len(p) - (Len(p) + 1) + 1
  BY <1>2, FromIs
<1> QED BY <1>2, <1>3, EmptySeq

\* insertChild hangs a parameter under the node.
LEMMA ParamSpells ==
    ASSUME BuildInv, Ordinary, PlaceParam, NEW b, Spelled(b), phase' # "aborted"
    PROVE  \E c : Spelled(c)'
<1> DEFINE wild == Head(queue)
           id == Len(nodes) + 1
           node == [Node("PARAM") EXCEPT !.path = <<":">>, !.re = wild.re, !.name = wild.name]
           up == Parent(wild, id)
           tree == [nodes EXCEPT ![at] = up]
           w == Wildcard(wild)
           v == b[at] \o Own(up)
           rest == From(path, Colon + 1)
<1>1. WildAt /\ wild.kind = "PARAM"
  BY DEF PlaceParam, WildAt
<1>2. /\ nodes \in Seq(NodeSet) /\ at \in DOMAIN nodes /\ Len(nodes) \in Nat
      /\ DOMAIN nodes = 1..Len(nodes) /\ path \in Seq(Chars)
      /\ Newest \in Routes /\ registered[Ctrl] = Newest
  BY <1>1, PlaceFacts DEF WildAt
<1>3. /\ v \in Seq(Symbols) /\ NoCatchAll(v, Len(v)) /\ w \in Symbols
      /\ Going(v \o <<w>>, rest, Tail(queue), Newest)
  <2>1. id \in Nat \ {0}
    BY <1>2
  <2> HIDE DEF id
  <2> QED BY <1>1, <2>1, ParentSpells
<1>4. \/ /\ Colon = Len(path)
         /\ nodes' = Append(tree, [node EXCEPT !.handle = Ctrl])
         /\ Returns(TRUE, Tail(queue))
      \/ /\ nodes' = tree \o <<[node EXCEPT !.children = <<id + 1>>],
                               [Node("UNKNOWN") EXCEPT !.indices = <<path[Colon + 1]>>]>>
         /\ GoesOn("placing", id + 1, rest)
         /\ queue' = Tail(queue)
  BY DEF PlaceParam
<1>5. /\ node.path = <<":">> /\ node.re = wild.re /\ node.name = wild.name
      /\ node.children = <<>> /\ node.handle = 0
      /\ DOMAIN node = {"path", "indices", "children", "handle", "type", "re", "name", "wild"}
  BY DEF Node
<1> DEFINE leaf == [node EXCEPT !.handle = Ctrl]
           inner == [node EXCEPT !.children = <<id + 1>>]
           last == [Node("UNKNOWN") EXCEPT !.indices = <<path[Colon + 1]>>]
<1>6. /\ leaf.path = <<":">> /\ leaf.re = wild.re /\ leaf.name = wild.name
      /\ leaf.children = <<>> /\ leaf.handle = Ctrl
      /\ inner.path = <<":">> /\ inner.re = wild.re /\ inner.name = wild.name
      /\ inner.children = <<id + 1>> /\ inner.handle = 0
      /\ last.path = <<>> /\ last.type = "UNKNOWN" /\ last.children = <<>> /\ last.handle = 0
  BY DEF Node
<1> HIDE DEF node, leaf, inner, last
<1>7. Own(leaf) = <<w>> /\ Own(inner) = <<w>> /\ Own(last) = <<>>
  <2> HIDE DEF wild
  <2> QED BY <1>1, <1>6, OwnParam, OwnBlank
<1>8. /\ tree[at] = up /\ DOMAIN tree = DOMAIN nodes /\ Len(tree) = Len(nodes)
      /\ \A k \in DOMAIN nodes : k # at => tree[k] = nodes[k]
  BY <1>2
<1>9. <<w>> \in Seq(Symbols) /\ Len(<<w>>) = 1 /\ <<w>>[1] = w /\ w.kind = "PARAM"
  <2>1. w.kind = "PARAM"
    BY <1>1, SymbolFields
  <2> HIDE DEF w
  <2> QED BY <1>3, <2>1
<1>10. v \o <<w>> \in Seq(Symbols) /\ NoCatchAll(v \o <<w>>, Len(v \o <<w>>))
  <2> HIDE DEF v, w
  <2>1. NoCatchAll(<<w>>, Len(<<w>>))
    BY <1>9 DEF NoCatchAll
  <2> QED BY <1>3, <1>9, <2>1, NoCatchAllTwo
<1>11. DOMAIN <<>> = {}
  OBVIOUS
<1>16. tree \in Seq(NodeSet)
  <2>1. up \in NodeSet
    <3>1. id \in Nat \ {0}
      BY <1>2
    <3> HIDE DEF id
    <3> QED BY <1>1, <1>2, <3>1, ParentIs
  <2> HIDE DEF up
  <2> QED BY <1>2, <2>1, ExceptIs
<1> HIDE DEF tree
<1>12. CASE /\ Colon = Len(path) /\ nodes' = Append(tree, leaf) /\ Returns(TRUE, Tail(queue))
  <2> DEFINE t2 == Append(tree, leaf)
             b2 == [k \in 1..id |-> IF k = id THEN v ELSE b[k]]
  <2>1. /\ t2[at] = up /\ t2[id] = leaf
        /\ \A k \in DOMAIN nodes : k # at => t2[k] = nodes[k]
        /\ \A k \in DOMAIN t2 : k \in DOMAIN nodes \/ k = id
    <3>1. /\ DOMAIN t2 = 1..id /\ t2[id] = leaf /\ \A k \in 1..Len(nodes) : t2[k] = tree[k]
      BY <1>2, <1>8
    <3> HIDE DEF t2
    <3> QED BY <1>2, <1>8, <3>1
  <2>2. b2[id] = v /\ \A k \in DOMAIN nodes : b2[k] = b[k]
    <3>1. id \in 1..id /\ \A k \in DOMAIN nodes : k \in 1..id /\ k # id
      BY <1>2
    <3> HIDE DEF id, v
    <3> QED BY <3>1
  <2>3. Tail(queue) = <<>>
    BY <1>12, ReturnsAll
  <2>4. rest = <<>>
    BY <1>2, <1>12, FromEnd
  <2>5. Spells(Newest, v \o <<w>>)
    <3> HIDE DEF v, w
    <3> DEFINE q == Tail(queue)
               z == v \o <<w>>
    <3> HIDE DEF rest
    <3>1. Going(z, rest, q, Newest) /\ z \in Seq(Symbols) /\ q = <<>>
      BY <1>3, <1>10, <2>3
    <3>3. q \in Seq(Segments)
      BY <3>1, EmptyIs
    <3> HIDE DEF q, z
    <3>2. Whole(Newest, z)
      BY <2>4, <3>1, <3>3, GoesOut
    <3>4. Whole(Newest, v \o <<w>>)
      BY <3>2 DEF z
    <3> QED BY <1>2, <1>10, <3>4, WholeSpells
  <2>6. LabelFits(t2, b2, registered, id)
    <3>1. b2[id] \o Own(t2[id]) = v \o <<w>>
      BY <1>7, <2>1, <2>2
    <3>2. /\ t2[id].path = <<":">> /\ t2[id].children = <<>> /\ t2[id].handle = Ctrl
      BY <1>6, <2>1
    <3> HIDE DEF t2, b2, id
    <3> QED BY <1>2, <1>3, <1>11, <2>2, <2>5, <3>1, <3>2 DEF LabelFits
  <2>7. PICK c : c = b2
    OBVIOUS
  <2>8. Labels(t2, c, registered)
    <3>1. \A k \in DOMAIN t2 : k \in DOMAIN nodes \/ LabelFits(t2, b2, registered, k)
      BY <2>1, <2>6
    <3>2. id = Len(nodes) + 1
      OBVIOUS
    <3> HIDE DEF t2, b2, id
    <3> QED BY <1>1, <2>1, <2>2, <2>7, <3>1, <3>2, HangLabels DEF WildAt
  <2>9. Labels(nodes', c, registered)
    BY <1>12, <2>8
  <2> QED BY <1>12, <2>9, ReturnSpells
<1>13. CASE /\ nodes' = tree \o <<inner, last>>
            /\ GoesOn("placing", id + 1, rest)
            /\ queue' = Tail(queue)
  <2> DEFINE t2 == tree \o <<inner, last>>
             b2 == [k \in 1..(id + 1) |->
                      IF k = id THEN v ELSE IF k = id + 1 THEN v \o <<w>> ELSE b[k]]
  <2>1. /\ t2[at] = up /\ t2[id] = inner /\ t2[id + 1] = last
        /\ \A k \in DOMAIN nodes : k # at => t2[k] = nodes[k]
        /\ \A k \in DOMAIN t2 : k \in DOMAIN nodes \/ k = id \/ k = id + 1
    <3>1. /\ DOMAIN t2 = 1..(id + 1) /\ t2[id] = inner /\ t2[id + 1] = last
          /\ \A k \in 1..Len(nodes) : t2[k] = tree[k]
      <4>1. id = Len(tree) + 1
        BY <1>8
      <4>2. tree \in Seq(NodeSet)
        BY <1>2, <1>16
      <4>3. /\ DOMAIN t2 = 1..(id + 1) /\ t2[id] = inner /\ t2[id + 1] = last
            /\ \A k \in 1..Len(tree) : t2[k] = tree[k]
        <5> HIDE DEF id
        <5> QED BY <4>1, <4>2, TwoMore
      <4> HIDE DEF t2, id
      <4> QED BY <1>8, <4>3
    <3> HIDE DEF t2
    <3>2. \A k \in 1..(id + 1) : k \in DOMAIN nodes \/ k = id \/ k = id + 1
      BY <1>2
    <3>3. \A k \in DOMAIN nodes : t2[k] = tree[k]
      BY <1>2, <3>1
    <3> HIDE DEF id, b2
    <3> QED BY <1>2, <1>8, <3>1, <3>2, <3>3
  <2>2. b2[id] = v /\ b2[id + 1] = v \o <<w>> /\ \A k \in DOMAIN nodes : b2[k] = b[k]
    <3>1. /\ id \in 1..(id + 1) /\ id + 1 \in 1..(id + 1) /\ id # id + 1
          /\ \A k \in DOMAIN nodes : k \in 1..(id + 1) /\ k # id /\ k # id + 1
      BY <1>2
    <3> HIDE DEF id, v, w
    <3> QED BY <3>1
  <2>3. LabelFits(t2, b2, registered, id)
    <3>1. t2[id].children = <<id + 1>> /\ b2[id + 1] = b2[id] \o Own(t2[id])
      <4> HIDE DEF t2, b2, id, v, w
      <4> QED BY <1>6, <1>7, <2>1, <2>2
    <3>2. \A i \in DOMAIN t2[id].children : b2[t2[id].children[i]] = b2[id] \o Own(t2[id])
      <4> DEFINE s == t2[id].children
                 z == b2[id] \o Own(t2[id])
                 k == id + 1
      <4>1. s = <<k>> /\ b2[k] = z
        BY <3>1
      <4> HIDE DEF s, z, k, b2
      <4>2. \A i \in DOMAIN s : b2[s[i]] = z
        BY <4>1, OneChild
      <4> QED BY <4>2 DEF s, z
    <3>3. t2[id].path = <<":">> /\ t2[id].handle = 0
      BY <1>6, <2>1
    <3> HIDE DEF t2, b2, id
    <3> QED BY <1>3, <2>2, <3>2, <3>3 DEF LabelFits
  <2>4. LabelFits(t2, b2, registered, id + 1)
    <3>1. t2[id + 1].path = <<>> /\ t2[id + 1].children = <<>> /\ t2[id + 1].handle = 0
      BY <1>6, <2>1
    <3>2. Colonless(<<>>)
      BY DEF Colonless
    <3> HIDE DEF t2, b2, id
    <3> QED BY <1>10, <1>11, <2>2, <3>1, <3>2 DEF LabelFits
  <2>5. PICK c : c = b2
    OBVIOUS
  <2>6. Labels(t2, c, registered)
    <3>1. \A k \in DOMAIN t2 : k \in DOMAIN nodes \/ LabelFits(t2, b2, registered, k)
      BY <2>1, <2>3, <2>4
    <3>2. id = Len(nodes) + 1
      OBVIOUS
    <3> HIDE DEF t2, b2, id
    <3> QED BY <1>1, <2>1, <2>2, <2>5, <3>1, <3>2, HangLabels DEF WildAt
  <2>7. /\ phase' = "placing" /\ at' = id + 1 /\ path' = rest /\ registered' = registered
        /\ nodes' = t2 /\ queue' = Tail(queue)
    BY <1>13 DEF GoesOn
  <2>8. Newest' = Newest
    BY <2>7 DEF Newest
  <2>9. c[id + 1] \o Own(t2[id + 1]) = v \o <<w>>
    BY <1>7, <1>10, <2>1, <2>2, <2>5, NothingMore
  <2>10. Going(c[at'] \o Own(nodes'[at']), path', queue', Newest')
    BY <1>3, <2>7, <2>8, <2>9
  <2>11. Labels(nodes', c, registered')
    BY <2>6, <2>7
  <2>12. Spelled(c)'
    BY <2>7, <2>10, <2>11 DEF Spelled
  <2> QED BY <2>12
<1> QED BY <1>4, <1>12, <1>13 DEF leaf, inner, last

\* insertChild hangs a catch-all under the node.
LEMMA CatchAllSpells ==
    ASSUME BuildInv, Ordinary, PlaceCatchAll, NEW b, Spelled(b), phase' # "aborted"
    PROVE  \E c : Spelled(c)'
<1> DEFINE wild == Head(queue)
           id == Len(nodes) + 1
           leaf == [Node("CATCH_ALL") EXCEPT !.handle = Ctrl, !.name = wild.name]
           up == Parent(wild, id)
           tree == [nodes EXCEPT ![at] = up]
           w == Wildcard(wild)
           v == b[at] \o Own(up)
           rest == From(path, Colon + 1)
           t2 == Append(tree, leaf)
           b2 == [k \in 1..id |-> IF k = id THEN v ELSE b[k]]
<1>1. WildAt /\ wild.kind = "CATCH_ALL"
  BY DEF PlaceCatchAll, WildAt
<1>2. /\ nodes \in Seq(NodeSet) /\ at \in DOMAIN nodes /\ Len(nodes) \in Nat
      /\ DOMAIN nodes = 1..Len(nodes) /\ path \in Seq(Chars)
      /\ Newest \in Routes /\ registered[Ctrl] = Newest
  BY <1>1, PlaceFacts DEF WildAt
<1>3. /\ v \in Seq(Symbols) /\ NoCatchAll(v, Len(v)) /\ w \in Symbols
      /\ Going(v \o <<w>>, rest, Tail(queue), Newest)
  <2>1. id \in Nat \ {0}
    BY <1>2
  <2> HIDE DEF id
  <2> QED BY <1>1, <2>1, ParentSpells
<1>4. nodes' = t2 /\ Returns(TRUE, Tail(queue))
  BY DEF PlaceCatchAll
<1>5. /\ leaf.path = <<>> /\ leaf.type = "CATCH_ALL" /\ leaf.name = wild.name
      /\ leaf.children = <<>> /\ leaf.handle = Ctrl
  BY DEF Node
<1> HIDE DEF leaf
<1>6. Own(leaf) = <<w>>
  <2> HIDE DEF wild
  <2> QED BY <1>1, <1>5, OwnCatchAll
<1>7. /\ tree[at] = up /\ DOMAIN tree = DOMAIN nodes /\ Len(tree) = Len(nodes)
      /\ \A k \in DOMAIN nodes : k # at => tree[k] = nodes[k]
  BY <1>2
<1> HIDE DEF tree
<1>8. <<w>> \in Seq(Symbols) /\ Len(<<w>>) = 1 /\ <<w>>[1] = w /\ w.kind = "CATCH_ALL"
  <2>1. w.kind = "CATCH_ALL"
    BY <1>1, SymbolFields
  <2> HIDE DEF w
  <2> QED BY <1>3, <2>1
<1>9. /\ t2[at] = up /\ t2[id] = leaf
      /\ \A k \in DOMAIN nodes : k # at => t2[k] = nodes[k]
      /\ \A k \in DOMAIN t2 : k \in DOMAIN nodes \/ k = id
  <2>1. /\ DOMAIN t2 = 1..id /\ t2[id] = leaf /\ \A k \in 1..Len(nodes) : t2[k] = tree[k]
    BY <1>2, <1>7
  <2> HIDE DEF t2
  <2> QED BY <1>2, <1>7, <2>1
<1>10. b2[id] = v /\ \A k \in DOMAIN nodes : b2[k] = b[k]
  <2>1. id \in 1..id /\ \A k \in DOMAIN nodes : k \in 1..id /\ k # id
    BY <1>2
  <2> HIDE DEF id, v
  <2> QED BY <2>1
<1>11. Tail(queue) = <<>>
  BY <1>4, ReturnsAll
<1>12. Spells(Newest, v \o <<w>>)
  <2> HIDE DEF v, w
  <2> DEFINE z == v \o <<w>>
  <2>1. rest \in Seq(Chars) /\ <<>> \in Seq(Segments)
    <3>1. Colon + 1 \in 1..(Len(path) + 1)
      BY <1>1, <1>2, ColonIs DEF WildAt
    <3> QED BY <1>2, <3>1, FromIs
  <2>2. ~Doomed(rest, <<>>)
    BY <2>1, DoomedQueue
  <2>3. PICK t : Reads(rest, <<>>, t) /\ Whole(Newest, z \o t)
    BY <1>3, <1>11, <2>2 DEF Going
  <2>4. t \in Seq(Symbols)
    BY <2>3 DEF Reads
  <2>5. /\ z \in Seq(Symbols) /\ Len(z) = Len(v) + 1 /\ Len(v) \in Nat /\ z[Len(v) + 1] = w
    <3>1. /\ z \in Seq(Symbols) /\ Len(z) = Len(v) + Len(<<w>>) /\ Len(v) \in Nat
          /\ \A j \in 1..Len(<<w>>) : z[Len(v) + j] = <<w>>[j]
      BY <1>3, <1>8, Joining
    <3>2. 1 \in 1..1
      OBVIOUS
    <3> HIDE DEF z
    <3> QED BY <1>8, <3>1, <3>2
  <2> HIDE DEF z
  <2>6. Len(z) > 0 /\ z[Len(z)].kind = "CATCH_ALL"
    BY <1>8, <2>5
  <2>7. Spells(Newest, z)
    BY <1>2, <2>3, <2>4, <2>5, <2>6, WholeCatchAll
  <2> QED BY <2>7 DEF z
<1>13. LabelFits(t2, b2, registered, id)
  <2>1. b2[id] \o Own(t2[id]) = v \o <<w>>
    BY <1>6, <1>9, <1>10
  <2>2. t2[id].path = <<>> /\ t2[id].children = <<>> /\ t2[id].handle = Ctrl
    BY <1>5, <1>9
  <2>3. Colonless(<<>>) /\ DOMAIN <<>> = {}
    BY DEF Colonless
  <2> HIDE DEF t2, b2, id
  <2> QED BY <1>2, <1>3, <1>10, <1>12, <2>1, <2>2, <2>3 DEF LabelFits
<1>14. PICK c : c = b2
  OBVIOUS
<1>15. Labels(t2, c, registered)
  <2>1. \A k \in DOMAIN t2 : k \in DOMAIN nodes \/ LabelFits(t2, b2, registered, k)
    BY <1>9, <1>13
  <2>2. id = Len(nodes) + 1
    OBVIOUS
  <2> HIDE DEF t2, b2, id
  <2> QED BY <1>1, <1>9, <1>10, <1>14, <2>1, <2>2, HangLabels DEF WildAt
<1>16. Labels(nodes', c, registered)
  BY <1>4, <1>15
<1> QED BY <1>4, <1>16, ReturnSpells

(***************************************************************************)
(* Every step keeps it.                                                    *)
(***************************************************************************)

\* An empty tree stands for nothing.
LEMMA InitSpells == Init => SpellInv
<1> SUFFICES ASSUME Init PROVE \E b : Spelled(b)
  BY DEF SpellInv
<1> DEFINE root == Node("ROOT")
           b == [n \in {1} |-> <<>>]
<1>1. nodes = <<root>> /\ phase = "building"
  BY DEF Init, BuildInit
<1>2. root.path = <<>> /\ root.children = <<>> /\ root.handle = 0
  BY DEF Node
<1> HIDE DEF root
<1>3. DOMAIN nodes = {1} /\ nodes[1] = root /\ b[1] = <<>>
  BY <1>1
<1> HIDE DEF b
<1>4. Colonless(<<>>) /\ DOMAIN <<>> = {}
  BY DEF Colonless
<1>5. LabelFits(nodes, b, registered, 1)
  BY <1>2, <1>3, <1>4, NothingSymbols DEF LabelFits
<1>6. Labels(nodes, b, registered)
  BY <1>3, <1>5 DEF Labels
<1>7. Spelled(b)
  BY <1>1, <1>6 DEF Spelled
<1> QED BY <1>7

\* What the tree stands for, after a step of the building.
LEMMA BuildSpells ==
    ASSUME BuildInv, Ordinary, BuildNext, phase' # "aborted", NEW b, Spelled(b)
    PROVE  \E c : Spelled(c)'
<1>1. CASE InsertFirst
  <2>1. Spelled(b)'
    BY <1>1, FirstSpells
  <2> QED BY <2>1
<1>2. CASE InsertThroughWildcard
  BY <1>2, ThroughSpells
<1>3. CASE InsertIntoChild
  BY <1>3, IntoChildSpells
<1>4. CASE InsertNewChild
  BY <1>4, NewChildSpells
<1>5. CASE InsertHere
  BY <1>5, HereSpells
<1>6. CASE PlaceStatic
  <2>1. Spelled(b)'
    BY <1>6, StaticSpells
  <2> QED BY <2>1
<1>7. CASE PlaceConflict
  <2>1. Spelled(b)'
    BY <1>7, ConflictSpells
  <2> QED BY <2>1
<1>8. CASE PlaceParam
  BY <1>8, ParamSpells
<1>9. CASE PlaceCatchAll
  BY <1>9, CatchAllSpells
<1>10. ASSUME NEW route \in Routes, AddRoute(route) PROVE \E c : Spelled(c)'
  <2>1. Spelled(b)'
    BY <1>10, AddSpells
  <2> QED BY <2>1
<1> QED BY <1>1, <1>2, <1>3, <1>4, <1>5, <1>6, <1>7, <1>8, <1>9, <1>10 DEF BuildNext, Insert

\* A step that leaves the tree alone.
LEMMA ServeSpells ==
    ASSUME UNCHANGED built, phase' \notin {"inserting", "placing"}, NEW b, Spelled(b)
    PROVE  Spelled(b)'
<1>1. nodes' = nodes /\ registered' = registered
  BY DEF built
<1>2. Labels(nodes', b, registered')
  BY <1>1 DEF Spelled
<1> QED BY <1>2 DEF Spelled

\* Every step keeps what the tree stands for.
LEMMA SpellStep ==
    ASSUME IInv, Ordinary, SpellInv, [Next]_vars
    PROVE  SpellInv'
<1> SUFFICES ASSUME phase' # "aborted" PROVE \E c : Spelled(c)'
  BY DEF SpellInv
<1>0. BuildInv /\ Bounded
  BY DEF IInv
<1>1. CASE BuildNext
  <2>1. phase # "aborted"
    BY <1>1 DEF BuildNext, AddRoute, Insert, InsertFirst, InsertThroughWildcard, InsertIntoChild,
                InsertNewChild, InsertHere, PlaceStatic, PlaceConflict, PlaceParam,
                PlaceCatchAll, Inserting
  <2>2. PICK b : Spelled(b)
    BY <2>1 DEF SpellInv
  <2> QED BY <1>0, <1>1, <2>2, BuildSpells
<1>2. CASE Serve \/ Redirect \/ Done \/ \E url \in Requests : Ask(url)
  <2>1. UNCHANGED built /\ phase # "aborted" /\ phase' \notin {"inserting", "placing"}
    BY <1>2, Zenon DEF Serve, Redirect, Done, Ask, Walks
  <2>2. PICK b : Spelled(b)
    BY <2>1 DEF SpellInv
  <2>3. Spelled(b)'
    BY <2>1, <2>2, ServeSpells
  <2> QED BY <2>3
<1>3. CASE Walk
  <2>1. UNCHANGED built /\ phase = "walking" /\ phase' \in {"walking", "answered"}
    BY <1>0, <1>3, WalkStep
  <2>2. PICK b : Spelled(b)
    BY <2>1 DEF SpellInv
  <2>3. Spelled(b)'
    BY <2>1, <2>2, ServeSpells
  <2> QED BY <2>3
<1>4. CASE UNCHANGED vars
  <2>1. /\ phase' = phase /\ at' = at /\ path' = path /\ queue' = queue
        /\ registered' = registered /\ nodes' = nodes
    BY <1>4 DEF vars, buildVars
  <2>2. PICK b : Spelled(b)
    BY <2>1 DEF SpellInv
  <2>3. Newest' = Newest
    BY <2>1 DEF Newest
  <2>4. Spelled(b)'
    BY <2>1, <2>2, <2>3 DEF Spelled
  <2> QED BY <2>4
<1> QED BY <1>1, <1>2, <1>3, <1>4 DEF Next

(***************************************************************************)
(* forward on its way.                                                     *)
(***************************************************************************)

\* What clients send: no character that stands for a wildcard.
UrlChars == Letters \cup {"/"}

\* What has been bound on the way along t is what t binds.
BoundAlong(t, g, bound) == Skips(t, g) \/ (Distinct(t) => bound = Bindings(t, request, g))

\* forward is at a node, and has come past the text above it.
Walked(b, g) ==
    /\ Labels(nodes, b, registered)
    /\ Here.path # <<>> \/ Here.type # "CATCH_ALL"
    /\ Follows(b[at], request, g) /\ path = From(request, g[Len(b[at])] + 1)
    /\ BoundAlong(b[at], g, params)

\* forward has come past the text of its node, too.
Comes(z, h) ==
    /\ z \in Seq(Symbols) /\ Follows(z, request, h) /\ h[Len(z)] \in 0..Len(request)
    /\ Under = From(request, h[Len(z)] + 1)
    /\ BoundAlong(z, h, params)

\* A text that is followed is followed to a place in the URL.
LEMMA EndOf ==
    ASSUME NEW t \in Seq(Symbols), NEW url, NEW g, Follows(t, url, g)
    PROVE  g[Len(t)] \in 0..Len(url) /\ Len(t) \in Nat
<1> DEFINE n == Len(t)
<1>1. n \in Nat /\ g \in [0..n -> 0..Len(url)]
  BY DEF Follows
<1>2. n \in 0..n
  BY <1>1
<1> HIDE DEF n
<1>3. g[n] \in 0..Len(url)
  BY <1>1, <1>2
<1> QED BY <1>1, <1>3 DEF n

\* No colon in a URL.
LEMMA NoColon == ":" \notin UrlChars
BY RoutesAssumption DEF UrlChars

\* The node that forward is at is no parameter if the URL goes past it, so
\* that its edge is text.
LEMMA HereIsText ==
    ASSUME BuildInv, ~Busy, NEW b, NEW g, Walked(b, g), path \in Seq(UrlChars),
           IsPrefix(Here.path, path)
    PROVE  Here \in NodeSet /\ Here.path \in Seq(Chars) /\ Own(Here) = Plain(Here.path)
<1> DEFINE w == Here.path
<1>1. Here \in NodeSet /\ w \in Seq(Chars)
  BY Standing, NodeTypes DEF Here
<1>2. w # <<":">>
  <2>1. SUFFICES ASSUME w = <<":">> PROVE FALSE
    OBVIOUS
  <2>2. Len(w) = 1 /\ w[1] = ":" /\ 1 \in 1..1
    BY <2>1
  <2>3. Len(w) <= Len(path) /\ SubSeq(w, 1, Len(w)) = SubSeq(path, 1, Len(w))
    BY DEF IsPrefix
  <2> HIDE DEF w
  <2>4. Len(path) \in Nat /\ 1 \in 0..Len(path) /\ 1 \in 0..Len(w)
    BY <2>2, <2>3
  <2>5. SubSeq(w, 1, 1)[1] = w[1] /\ SubSeq(path, 1, 1)[1] = path[1]
    BY <1>1, <2>2, <2>4, UpToIs
  <2>6. path[1] = ":"
    BY <2>2, <2>3, <2>5
  <2>7. path[1] \in UrlChars
    BY <2>2, <2>3, <2>4
  <2> QED BY <2>6, <2>7, NoColon
<1>3. w # <<>> \/ Here.type # "CATCH_ALL"
  BY DEF Walked
<1> QED BY <1>1, <1>2, <1>3 DEF Own

\* Past the edge of the node.
LEMMA HereText ==
    ASSUME BuildInv, ~Busy, NEW b, NEW g, Walked(b, g), request \in Seq(UrlChars),
           IsPrefix(Here.path, path)
    PROVE  LET z == b[at] \o Own(Here)
           IN  \E h : /\ Comes(z, h) /\ Under \in Seq(UrlChars)
                      /\ Len(Under) = Len(request) - h[Len(z)]
                      /\ path = Here.path => h[Len(z)] = Len(request)
<1> DEFINE t == b[at]
           w == Here.path
           u == Plain(w)
           z == t \o u
           a == g[Len(t)]
           m == Len(request)
<1>1. /\ at \in DOMAIN nodes /\ Labels(nodes, b, registered)
  BY Standing DEF Walked
<1>2. t \in Seq(Symbols)
  BY <1>1 DEF Labels, LabelFits
<1>3. Follows(t, request, g) /\ path = From(request, a + 1) /\ BoundAlong(t, g, params)
  BY DEF Walked
<1>4. a \in 0..m /\ m \in Nat
  BY <1>2, <1>3, EndOf
<1>5. path \in Seq(UrlChars) /\ Len(path) = m - a
  <2> HIDE DEF a
  <2> QED BY <1>3, <1>4, FromAfter
<1>6. /\ w \in Seq(Chars) /\ Own(Here) = u
  BY <1>5, HereIsText
<1>7. IsPrefix(w, From(request, a + 1))
  BY <1>3
<1>8. PICK h : /\ Follows(z, request, h) /\ (Skips(t, g) => Skips(z, h))
               /\ Bindings(z, request, h) = Bindings(t, request, g)
               /\ h[Len(z)] = a + Len(w)
               /\ From(From(request, a + 1), Len(w) + 1) = From(request, h[Len(z)] + 1)
  <2>1. /\ t \in Seq(Symbols) /\ request \in Seq(UrlChars) /\ Follows(t, request, g)
        /\ w \in Seq(Chars) /\ IsPrefix(w, From(request, g[Len(t)] + 1))
    BY <1>2, <1>3, <1>6, <1>7
  <2> HIDE DEF w, t
  <2>2. \E h : /\ Follows(t \o Plain(w), request, h) /\ (Skips(t, g) => Skips(t \o Plain(w), h))
               /\ Bindings(t \o Plain(w), request, h) = Bindings(t, request, g)
               /\ h[Len(t \o Plain(w))] = g[Len(t)] + Len(w)
               /\ From(From(request, g[Len(t)] + 1), Len(w) + 1) = From(request, h[Len(t \o Plain(w))] + 1)
    BY ONLY <2>1, ExtendsText
  <2> QED BY <2>2
<1>9. z \in Seq(Symbols) /\ u \in Seq(Symbols)
  <2>1. u \in Seq(Symbols)
    BY <1>6, PlainIs
  <2> HIDE DEF u
  <2> QED BY <1>2, <2>1, Joining
<1>10. Under = From(request, h[Len(z)] + 1)
  BY <1>3, <1>8 DEF Under
<1>11. BoundAlong(z, h, params)
  <2>1. Distinct(z) => Distinct(t)
    BY <1>2, <1>9, DistinctPart
  <2> HIDE DEF z, t
  <2> QED BY <1>3, <1>8, <2>1 DEF BoundAlong
<1>12. h[Len(z)] \in 0..m
  <2> HIDE DEF z
  <2> QED BY <1>8, <1>9, EndOf
<1>13. Under \in Seq(UrlChars) /\ Len(Under) = m - h[Len(z)]
  <2> DEFINE e == h[Len(z)]
  <2>1. e \in 0..m
    BY <1>12
  <2> HIDE DEF e
  <2>2. Under = From(request, e + 1)
    BY <1>10 DEF e
  <2>3. Under \in Seq(UrlChars) /\ Len(Under) = m - e
    BY <2>1, <2>2, FromAfter
  <2> QED BY <2>3 DEF e
<1>14. path = w => h[Len(z)] = m
  <2> HIDE DEF z, w, a, m
  <2> QED BY <1>4, <1>5, <1>8
<1>15. Comes(z, h)
  BY <1>8, <1>9, <1>10, <1>11, <1>12 DEF Comes
<1> QED BY <1>6, <1>13, <1>14, <1>15

\* What hangs under a node that has a wildcard.
LEMMA ChildText ==
    ASSUME BuildInv, ~Busy, Here.wild, NEW b, Labels(nodes, b, registered)
    PROVE  LET k == Here.children[1]
               c == Child(Here)
               z == b[at] \o Own(Here)
           IN  /\ k \in DOMAIN nodes /\ c = nodes[k] /\ b[k] = z /\ c \in NodeSet
               /\ c.type \in {"PARAM", "CATCH_ALL"}
               /\ \E w \in Symbols : /\ Own(c) = <<w>> /\ w.kind = c.type /\ w.name = c.name
                                     /\ c.type = "PARAM" => w.re = c.re
               /\ c.handle # 0 => Spells(registered[c.handle], z \o Own(c))
<1> DEFINE k == Here.children[1]
           c == Child(Here)
           z == b[at] \o Own(Here)
<1>1. /\ nodes \in Seq(NodeSet) /\ at \in DOMAIN nodes
      /\ \A n \in DOMAIN nodes : NodeFits(nodes, 0, path, n)
  BY Standing
<1>2. k \in DOMAIN nodes /\ c = nodes[k]
  BY ChildIs
<1>3. Len(Here.children) = 1 /\ IsWildcard(c) /\ Here \in NodeSet
  BY <1>1, <1>2 DEF NodeFits, WildFits, Here
<1>4. 1 \in DOMAIN Here.children
  BY <1>3, NodeTypes
<1>5. LabelFits(nodes, b, registered, at) /\ LabelFits(nodes, b, registered, k)
  BY <1>1, <1>2 DEF Labels
<1>6. b[k] = z
  BY <1>4, <1>5 DEF LabelFits, Here
<1>7. c \in NodeSet
  BY <1>1, <1>2
<1>8. c.handle # 0 => Spells(registered[c.handle], z \o Own(c))
  BY <1>2, <1>5, <1>6 DEF LabelFits
<1> HIDE DEF c, k, z
<1>9. c.type \in {"PARAM", "CATCH_ALL"} /\ c.re \in {"none", "any", "b"} /\ c.name \in Names \cup {""}
  BY <1>3, <1>7 DEF IsWildcard, NodeSet
<1>10. <<>> # <<":">>
  <2>1. Len(<<>>) = 0 /\ Len(<<":">>) = 1
    OBVIOUS
  <2> QED BY <2>1
<1> DEFINE s == [kind |-> c.type, re |-> c.re, name |-> c.name]
           w == Wildcard(s)
<1>11. Own(c) = <<w>>
  BY <1>3, <1>10 DEF IsWildcard, Own
<1>12. s.kind = c.type /\ s.re = c.re /\ s.name = c.name
  OBVIOUS
<1> HIDE DEF s
<1>13. w \in Symbols
  BY <1>9, <1>12 DEF Wildcard, Symbols, Chars
<1>14. w.kind = c.type /\ w.name = c.name /\ (c.type = "PARAM" => w.re = c.re)
  BY <1>12, SymbolFields
<1> QED BY <1>2, <1>6, <1>7, <1>8, <1>9, <1>11, <1>13, <1>14 DEF c, k, z

\* An edge of a node with no wildcard is not empty.
LEMMA EdgeNotEmpty ==
    ASSUME BuildInv, ~Busy, NEW n \in DOMAIN nodes, ~nodes[n].wild, NEW i \in DOMAIN nodes[n].children
    PROVE  nodes[nodes[n].children[i]].path # <<>>
<1> DEFINE k == nodes[n].children[i]
<1>1. /\ NodeFits(nodes, 0, path, n) /\ 0 \notin DOMAIN nodes
      /\ nodes \in Seq(NodeSet)
  BY Standing, DomainOfTree
<1>2. k \in DOMAIN nodes /\ k # 0 /\ n # 0
  BY <1>1 DEF NodeFits
<1>3. \E c : Joined(nodes, 0, path, k, c)
  <2>1. CASE nodes[n].type = "PARAM"
    BY <1>1, <2>1 DEF NodeFits, ParamFits
  <2>2. CASE nodes[n].type # "PARAM"
    BY <1>1, <1>2, <2>2 DEF NodeFits, StaticFits
  <2> QED BY <2>1, <2>2
<1> QED BY <1>2, <1>3 DEF Joined, Begins

\* The value of a parameter is the text up to the next slash.
LEMMA ValueIs ==
    ASSUME NEW S, Under \in Seq(S)
    PROVE  /\ Len(Value) \in 0..Len(Under) /\ Len(Under) \in Nat
           /\ Value = SubSeq(Under, 1, Len(Value))
           /\ \A j \in 1..Len(Value) : Under[j] # "/"
           /\ Len(Value) = Len(Under) \/ Under[Len(Value) + 1] = "/"
           /\ Value = <<>> <=> Len(Value) = 0
<1> DEFINE I == {i \in 1..Len(Under) : Under[i] = "/"}
           slash == IF I # {} THEN Min(I) ELSE 0
<1>1. Value = IF slash = 0 THEN Under ELSE SubSeq(Under, 1, slash - 1)
  BY DEF Value, SelectInSeq
<1>2. I \in SUBSET Nat /\ Len(Under) \in Nat
  OBVIOUS
<1>3. I # {} => Min(I) \in I /\ \A i \in I : Min(I) <= i
  BY <1>2, SelectsFirst
<1> HIDE DEF I
<1>4. CASE I = {}
  <2>1. Value = Under
    BY <1>1, <1>4
  <2>2. Under = SubSeq(Under, 1, Len(Under))
    BY SubSeqFull
  <2>3. \A j \in 1..Len(Under) : Under[j] # "/"
    BY <1>4 DEF I
  <2>4. Under = <<>> <=> Len(Under) = 0
    BY EmptySeq
  <2>5. Len(Under) \in 0..Len(Under)
    BY <1>2
  <2> QED BY <1>2, <2>1, <2>2, <2>3, <2>4, <2>5
<1>5. CASE I # {}
  <2>1. slash \in I /\ \A i \in I : slash <= i
    BY <1>3, <1>5
  <2> HIDE DEF slash
  <2>2. slash \in 1..Len(Under) /\ Under[slash] = "/"
    BY <2>1 DEF I
  <2> DEFINE k == slash - 1
  <2>3. k \in 0..Len(Under) /\ k + 1 = slash /\ slash # 0
    BY <1>2, <2>2
  <2>4. Value = SubSeq(Under, 1, k)
    BY <1>1, <2>3
  <2>5. \A j \in 1..k : Under[j] # "/"
    <3>1. ASSUME NEW j \in 1..k, Under[j] = "/" PROVE FALSE
      <4>1. j \in 1..Len(Under) /\ ~(slash <= j)
        BY <1>2, <2>2
      <4>2. j \in I
        BY <3>1, <4>1 DEF I
      <4> QED BY <2>1, <4>1, <4>2
    <3> QED BY <3>1
  <2> HIDE DEF k
  <2>6. Value \in Seq(S) /\ Len(Value) = k
    BY <2>3, <2>4, UpToIs
  <2>7. Value = <<>> <=> Len(Value) = 0
    BY <2>6, EmptySeq
  <2> QED BY <1>2, <2>2, <2>3, <2>4, <2>5, <2>6, <2>7
<1> QED BY <1>4, <1>5

\* What is bound when forward takes one more wildcard.
LEMMA BoundOn ==
    ASSUME NEW z, NEW h, Comes(z, h), NEW w, NEW y, OneAfter(z, w, y), w.kind # "STATIC",
           NEW v, NEW e, Skips(z, h) => Skips(y, e),
           Bindings(y, request, e) = Also(Bindings(z, request, h), w, v)
    PROVE  BoundAlong(y, e, Bind(w.name, v))
<1>1. BoundAlong(z, h, params)
  BY DEF Comes
<1>3. CASE Skips(z, h)
  BY <1>3 DEF BoundAlong
<1>4. CASE ~Skips(z, h)
  <2>1. SUFFICES ASSUME Distinct(y) PROVE Bind(w.name, v) = Bindings(y, request, e)
    BY DEF BoundAlong
  <2>2. Distinct(z)
    BY <2>1, DistinctOne
  <2>3. params = Bindings(z, request, h)
    BY <1>1, <1>4, <2>2 DEF BoundAlong
  <2>4. Bind(w.name, v) = Also(Bindings(z, request, h), w, v)
    BY <2>1, <2>3, Binds
  <2> QED BY <2>4
<1> QED BY <1>3, <1>4

\* Past a parameter that is not refused.
LEMMA ParamText ==
    ASSUME NEW z, NEW h, Comes(z, h), request \in Seq(UrlChars), Under \in Seq(UrlChars),
           Len(Under) = Len(request) - h[Len(z)],
           NEW w, NEW y, OneAfter(z, w, y), w.kind = "PARAM", w.re = Child(Here).re,
           w.name = Child(Here).name, ~Refused
    PROVE  \E e : /\ Follows(y, request, e) /\ BoundAlong(y, e, Bound)
                  /\ From(Under, Len(Value) + 1) = From(request, e[Len(y)] + 1)
                  /\ Value = Under => e[Len(y)] = Len(request)
                  /\ Value = <<>> => Skips(y, e)
<1> DEFINE m == Len(request)
           a == h[Len(z)]
           k == Len(Value)
           n == a + k
<1>1. /\ z \in Seq(Symbols) /\ Follows(z, request, h) /\ a \in 0..m
      /\ Under = From(request, a + 1)
  BY DEF Comes
<1>2. m \in Nat /\ Len(Under) = m - a
  OBVIOUS
<1>3. /\ k \in 0..Len(Under)
      /\ Value = SubSeq(Under, 1, k)
      /\ \A j \in 1..k : Under[j] # "/"
      /\ k = Len(Under) \/ Under[k + 1] = "/"
      /\ Value = <<>> <=> k = 0
  BY ValueIs
<1>4. Value = Under => k = Len(Under)
  OBVIOUS
<1> HIDE DEF k
<1>5. \A j \in 1..(m - a) : Under[j] = request[a + j]
  <2> HIDE DEF a
  <2> QED BY <1>1, FromAfter
<1> HIDE DEF a, m
<1>6. /\ a \in Nat /\ k \in Nat /\ m \in Nat /\ n \in 0..m /\ a <= n
      /\ (k = Len(Under) <=> n = m) /\ (k = 0 <=> n = a)
  BY <1>1, <1>2, <1>3
<1>7. \A p \in (a + 1)..n : request[p] # "/"
  <2> SUFFICES ASSUME NEW p \in (a + 1)..n PROVE request[p] # "/"
    OBVIOUS
  <2>1. p - a \in 1..k /\ p - a \in 1..(m - a) /\ a + (p - a) = p
    BY <1>6
  <2> QED BY <1>3, <1>5, <2>1
<1>8. n = m \/ request[n + 1] = "/"
  <2>1. CASE k = Len(Under)
    BY <1>6, <2>1
  <2>2. CASE k # Len(Under)
    <3>1. k + 1 \in 1..(m - a) /\ a + (k + 1) = n + 1
      BY <1>2, <1>3, <1>6, <2>2
    <3> QED BY <1>3, <1>5, <2>2, <3>1
  <2> QED BY <2>1, <2>2
<1>9. Value = SubSeq(request, a + 1, n)
  <2>1. Under = SubSeq(request, a + 1, m)
    BY <1>1 DEF From, m
  <2>2. a <= m /\ m <= Len(request) /\ a + k <= m
    BY <1>6 DEF m
  <2>3. \A i \in Nat : a + i <= m => SubSeq(SubSeq(request, a + 1, m), 1, i) = SubSeq(request, a + 1, a + i)
    <3> SUFFICES ASSUME NEW i \in Nat, a + i <= m
                 PROVE  SubSeq(SubSeq(request, a + 1, m), 1, i) = SubSeq(request, a + 1, a + i)
      OBVIOUS
    <3> QED BY ONLY <1>6, <2>2, PieceOfPiece, request \in Seq(UrlChars), i \in Nat, a + i <= m
  <2>4. SubSeq(SubSeq(request, a + 1, m), 1, k) = SubSeq(request, a + 1, a + k)
    BY <1>6, <2>2, <2>3
  <2> QED BY <1>3, <2>1, <2>4
<1>10. From(Under, k + 1) = From(request, n + 1)
  <2>1. a + k <= Len(request)
    BY <1>6 DEF m
  <2>2. From(From(request, a + 1), k + 1) = From(request, (a + k) + 1)
    BY <1>6, <2>1, FromFrom
  <2> QED BY <1>1, <2>2
<1>11. Value = <<>> \/ Accepts(w.re, Value)
  BY DEF Refused
<1> HIDE DEF n
<1>12. Len(request) \in Nat /\ Passes(request, h[Len(z)], w, n)
  BY <1>3, <1>6, <1>7, <1>8, <1>9, <1>11 DEF a, m, Passes
<1>13. PICK e : /\ Follows(y, request, e) /\ (Skips(z, h) => Skips(y, e))
                /\ Bindings(y, request, e) =
                     Also(Bindings(z, request, h), w, Piece(request, h[Len(z)], n))
                /\ e[Len(y)] = n
                /\ Empties(w, h[Len(z)], n) => Skips(y, e)
  <2>1. OneAfter(z, w, y) /\ Follows(z, request, h)
    BY <1>1
  <2> QED BY ONLY <1>12, <2>1, ExtendsWildcard
<1>14. Value = <<>> => Skips(y, e)
  BY <1>3, <1>6, <1>13 DEF a, Empties
<1>15. BoundAlong(y, e, Bind(w.name, Value))
  <2>1. Bindings(y, request, e) = Also(Bindings(z, request, h), w, Value)
    BY <1>9, <1>13 DEF a, Piece
  <2>2. w.kind # "STATIC"
    OBVIOUS
  <2> QED BY <1>13, <2>1, <2>2, BoundOn
<1>16. BoundAlong(y, e, Bound)
  <2>1. CASE Value = <<>>
    BY <1>14, <2>1 DEF BoundAlong
  <2>2. CASE Accepts(w.re, Value)
    BY <1>15, <2>2 DEF Bound
  <2> QED BY <1>11, <2>1, <2>2
<1>17. Value = Under => e[Len(y)] = Len(request)
  BY <1>4, <1>6, <1>13 DEF m
<1>18. From(Under, Len(Value) + 1) = From(request, e[Len(y)] + 1)
  BY <1>10, <1>13 DEF k
<1> QED BY <1>13, <1>14, <1>16, <1>17, <1>18

\* Past a parameter with no text, at the end of the URL.
LEMMA EmptyText ==
    ASSUME NEW z, NEW h, Comes(z, h), request \in Seq(UrlChars), h[Len(z)] = Len(request),
           NEW w, NEW y, OneAfter(z, w, y), w.kind = "PARAM"
    PROVE  \E e : Follows(y, request, e) /\ Skips(y, e)
<1> DEFINE m == Len(request)
<1>1. z \in Seq(Symbols) /\ Follows(z, request, h) /\ m \in Nat /\ m \in 0..m
  BY DEF Comes
<1>2. \A p \in (m + 1)..m : request[p] # "/"
  BY <1>1
<1>3. Len(request) \in Nat /\ Passes(request, h[Len(z)], w, m)
  BY <1>1, <1>2 DEF Passes
<1>4. \E e : /\ Follows(y, request, e) /\ (Skips(z, h) => Skips(y, e))
             /\ Bindings(y, request, e) =
                     Also(Bindings(z, request, h), w, Piece(request, h[Len(z)], m))
             /\ e[Len(y)] = m
             /\ Empties(w, h[Len(z)], m) => Skips(y, e)
  BY <1>1, <1>3, ExtendsWildcard
<1>5. Empties(w, h[Len(z)], m)
  BY DEF Empties
<1> QED BY <1>4, <1>5

\* Past a catch-all, which takes all the rest.
LEMMA AllText ==
    ASSUME NEW z, NEW h, Comes(z, h), request \in Seq(UrlChars),
           NEW w, NEW y, OneAfter(z, w, y), w.kind = "CATCH_ALL"
    PROVE  \E e : /\ Follows(y, request, e) /\ BoundAlong(y, e, Bind(w.name, Under))
                  /\ e[Len(y)] = Len(request)
<1> DEFINE m == Len(request)
           a == h[Len(z)]
<1>1. /\ z \in Seq(Symbols) /\ Follows(z, request, h) /\ m \in Nat /\ m \in 0..m /\ a \in 0..m
      /\ Under = From(request, a + 1)
  BY DEF Comes
<1>2. Len(request) \in Nat /\ Passes(request, h[Len(z)], w, m) /\ w.kind # "STATIC"
  BY <1>1 DEF Passes
<1>3. PICK e : /\ Follows(y, request, e) /\ (Skips(z, h) => Skips(y, e))
               /\ Bindings(y, request, e) =
                     Also(Bindings(z, request, h), w, Piece(request, h[Len(z)], m))
               /\ e[Len(y)] = m
  BY <1>1, <1>2, ExtendsWildcard
<1>4. Under = Piece(request, h[Len(z)], m)
  BY <1>1 DEF From, Piece
<1>5. BoundAlong(y, e, Bind(w.name, Under))
  <2>1. Bindings(y, request, e) = Also(Bindings(z, request, h), w, Under)
    BY <1>3, <1>4
  <2> QED BY <1>2, <1>3, <2>1, BoundOn
<1> QED BY <1>3, <1>5

(***************************************************************************)
(* A turn of the loop.                                                     *)
(***************************************************************************)

WalkInv == phase = "walking" => \E b, g : Walked(b, g)

\* The controller of a node is that of a route.
LEMMA HandleRoute ==
    ASSUME BuildInv, ~Busy, NEW n, \E k \in DOMAIN nodes : n = nodes[k], n.handle # 0
    PROVE  registered[n.handle] \in Routes
<1>1. Handled(nodes, Len(registered), valid) /\ registered \in Seq(Routes)
  BY Standing DEF BuildInv
<1>2. n.handle \in 0..Len(registered) /\ Len(registered) \in Nat
  BY <1>1 DEF Handled
<1>3. n.handle \in 1..Len(registered)
  BY <1>2
<1> QED BY <1>1, <1>3

\* forward returns.
LEMMA AnswerStep ==
    ASSUME NEW c, NEW hint, NEW bound, Answers(c, hint, bound),
           c # 0 => Right(registered[c], request, bound)
    PROVE  AnswersAreRight' /\ WalkInv'
<1>1. /\ phase' = "answered" /\ found' = c /\ params' = bound /\ registered' = registered
      /\ request' = request
  BY DEF Answers, built
<1>2. AnswersAreRight'
  BY <1>1 DEF AnswersAreRight, FoundMeansMatch, ParamsAreValues, Right
<1> QED BY <1>1, <1>2 DEF WalkInv

\* forward goes down.
LEMMA DescendStep ==
    ASSUME NEW n, NEW url, NEW bound, Descends(n, url, bound), phase = "walking",
           NEW b, Labels(nodes, b, registered), NEW z, b[n] = z, NEW h, Follows(z, request, h),
           url = From(request, h[Len(z)] + 1), BoundAlong(z, h, bound),
           nodes[n].path # <<>> \/ nodes[n].type # "CATCH_ALL"
    PROVE  AnswersAreRight' /\ WalkInv'
<1>1. /\ phase' = "walking" /\ at' = n /\ path' = url /\ params' = bound
      /\ registered' = registered /\ nodes' = nodes /\ request' = request
  BY DEF Descends, built
<1>2. AnswersAreRight'
  BY <1>1 DEF AnswersAreRight, FoundMeansMatch, ParamsAreValues
<1>3. Here' = nodes[n]
  BY <1>1 DEF Here
<1>4. Labels(nodes', b, registered')
  BY <1>1
<1>5. b[at]' = z /\ request' = request /\ path' = From(request, h[Len(z)] + 1)
  BY <1>1
<1>6. Skips(z, h) \/ (Distinct(z) => params' = Bindings(z, request', h))
  BY <1>1 DEF BoundAlong
<1>7. WalkInv'
  <2>1. Follows(z, request', h)
    BY <1>1
  <2>2. BoundAlong(z, h, params)'
    BY <1>6, <1>1 DEF BoundAlong
  <2>3. Here'.path # <<>> \/ Here'.type # "CATCH_ALL"
    BY <1>3
  <2>4. \E b2, g2 : Walked(b2, g2)'
    BY <1>1, <1>4, <1>6, <2>1, <2>3 DEF Walked, BoundAlong
  <2> QED BY <2>4 DEF WalkInv
<1> QED BY <1>2, <1>7

\* The URL goes at least to the end of the node's edge.
LEMMA Prefixed ==
    ASSUME BuildInv, ~Busy, Longer \/ Equal
    PROVE  IsPrefix(Here.path, path)
<1>1. Here \in NodeSet
  BY Standing DEF Here
<1>2. Len(Here.path) \in Nat
  BY <1>1, NodeTypes
<1> QED BY <1>2 DEF Longer, Equal, IsPrefix

\* An edge is followed.
LEMMA FollowIs ==
    ASSUME BuildInv, ~Busy, request \in Seq(UrlChars), NEW b, NEW g, Walked(b, g), Follow
    PROVE  AnswersAreRight' /\ WalkInv'
<1> DEFINE z == b[at] \o Own(Here)
           n == Indice(Here, Under[1])
<1>1. /\ phase = "walking" /\ (Longer \/ Equal) /\ ~Here.wild /\ n # 0
      /\ Descends(n, Under, params)
  BY DEF Follow, Longer
<1>2. PICK h : Comes(z, h)
  BY <1>1, Prefixed, HereText
<1>3. Labels(nodes, b, registered)
  BY DEF Walked
<1>4. \E i \in DOMAIN Here.children : n = Here.children[i]
  <2>1. /\ nodes \in Seq(NodeSet) /\ at \in DOMAIN nodes /\ NodeFits(nodes, 0, path, at)
        /\ 0 \notin DOMAIN nodes
    BY Standing, DomainOfTree
  <2>2. Here \in NodeSet
    BY <2>1 DEF Here
  <2>3. Len(Here.indices) \in Nat /\ Len(Here.children) \in Nat
        /\ DOMAIN Here.indices = 1..Len(Here.indices) /\ DOMAIN Here.children = 1..Len(Here.children)
    BY <2>2, NodeTypes
  <2>4. Len(Here.indices) <= Len(Here.children)
    <3>1. at # 0
      BY <2>1
    <3>2. CASE Here.type = "PARAM"
      BY <1>1, <2>1, <3>2 DEF NodeFits, ParamFits, Here
    <3>3. CASE Here.type # "PARAM"
      <4>1. Len(Here.indices) = Len(Here.children)
        BY <1>1, <2>1, <3>1, <3>3 DEF NodeFits, StaticFits, Here
      <4> QED BY <2>3, <4>1
    <3> QED BY <3>2, <3>3
  <2>5. PICK i \in DOMAIN Here.indices : n = Here.children[i]
    BY <1>1, <2>2, <2>4, IndiceIs
  <2>6. i \in DOMAIN Here.children
    BY <2>3, <2>4
  <2> QED BY <2>5, <2>6
<1>5. PICK i \in DOMAIN Here.children : n = Here.children[i]
  BY <1>4
<1>6. b[n] = z /\ at \in DOMAIN nodes
  <2>1. LabelFits(nodes, b, registered, at) /\ at \in DOMAIN nodes
    BY <1>3, Standing DEF Labels
  <2> QED BY <1>5, <2>1 DEF LabelFits, Here
<1>7. nodes[n].path # <<>>
  BY <1>1, <1>5, <1>6, EdgeNotEmpty DEF Here
<1> HIDE DEF z, n
<1>8. Follows(z, request, h) /\ Under = From(request, h[Len(z)] + 1) /\ BoundAlong(z, h, params)
  BY <1>2 DEF Comes
<1> QED BY <1>1, <1>3, <1>6, <1>7, <1>8, DescendStep

\* The wildcard under the node, and the text that forward has come past.
LEMMA AtChild ==
    ASSUME BuildInv, ~Busy, request \in Seq(UrlChars), NEW b, NEW g, Walked(b, g),
           Longer \/ Equal, Here.wild
    PROVE  LET c == Child(Here)
           IN  \E z, h, w, y :
                 /\ Comes(z, h) /\ OneAfter(z, w, y) /\ Under \in Seq(UrlChars)
                 /\ Len(Under) = Len(request) - h[Len(z)]
                 /\ (path = Here.path => h[Len(z)] = Len(request))
                 /\ y = b[Here.children[1]] \o Own(c) /\ w.kind = c.type /\ w.name = c.name
                 /\ (c.type = "PARAM" => w.re = c.re) /\ c.type \in {"PARAM", "CATCH_ALL"}
                 /\ (c.handle # 0 => Spells(registered[c.handle], y) /\ registered[c.handle] \in Routes)
                 /\ Here.children[1] \in DOMAIN nodes /\ c = nodes[Here.children[1]]
                 /\ z \in Seq(Symbols) /\ w \in Symbols /\ Own(c) = <<w>>
                 /\ z = b[Here.children[1]]
<1> DEFINE c == Child(Here)
           k == Here.children[1]
           z == b[at] \o Own(Here)
<1>1. PICK h : /\ Comes(z, h) /\ Under \in Seq(UrlChars)
               /\ Len(Under) = Len(request) - h[Len(z)]
               /\ path = Here.path => h[Len(z)] = Len(request)
  BY Prefixed, HereText
<1>2. Labels(nodes, b, registered)
  BY DEF Walked
<1>3. /\ k \in DOMAIN nodes /\ c = nodes[k] /\ b[k] = z /\ c \in NodeSet
      /\ c.type \in {"PARAM", "CATCH_ALL"}
      /\ \E w \in Symbols : /\ Own(c) = <<w>> /\ w.kind = c.type /\ w.name = c.name
                            /\ c.type = "PARAM" => w.re = c.re
      /\ c.handle # 0 => Spells(registered[c.handle], z \o Own(c))
  BY <1>2, ChildText
<1> HIDE DEF z, c, k
<1>4. PICK w \in Symbols : /\ Own(c) = <<w>> /\ w.kind = c.type /\ w.name = c.name
                           /\ c.type = "PARAM" => w.re = c.re
  BY <1>3
<1>5. z \in Seq(Symbols)
  BY <1>1 DEF Comes
<1>6. OneAfter(z, w, z \o <<w>>)
  BY <1>5, OneAfterIs
<1>7. c.handle # 0 => registered[c.handle] \in Routes
  BY <1>3, HandleRoute
<1> DEFINE y == z \o <<w>>
<1>8. y = b[k] \o Own(c)
  BY <1>3, <1>4
<1>9. c.handle # 0 => Spells(registered[c.handle], y)
  BY <1>3, <1>4
<1> HIDE DEF y
<1>10. OneAfter(z, w, y)
  BY <1>6 DEF y
<1> QED BY <1>1, <1>3, <1>4, <1>5, <1>7, <1>8, <1>9, <1>10 DEF c, k

\* The steps that return no controller.
LEMMA NothingIs ==
    ASSUME NoEdge \/ ParamRefuses \/ EndWithout \/ Elsewhere
    PROVE  AnswersAreRight' /\ WalkInv'
<1>1. PICK hint : Answers(0, hint, params)
  BY DEF NoEdge, ParamRefuses, EndWithout, Elsewhere
<1> QED BY <1>1, AnswerStep

\* A route of which the text has been followed is right.
LEMMA RightIs ==
    ASSUME Ordinary, request \in Seq(UrlChars), NEW route \in Routes, NEW y, Spells(route, y),
           NEW e, Follows(y, request, e), NEW bound, BoundAlong(y, e, bound),
           Skips(y, e) \/ e[Len(y)] = Len(request)
    PROVE  Right(route, request, bound)
<1>1. Skips(y, e) \/ (e[Len(y)] = Len(request) /\ (Distinct(y) => bound = Bindings(y, request, e)))
  BY DEF BoundAlong
<1> QED BY <1>1, AnswerIs

\* The URL ends in a parameter.
LEMMA ParamEndsIs ==
    ASSUME BuildInv, Ordinary, ~Busy, request \in Seq(UrlChars), NEW b, NEW g, Walked(b, g),
           ParamEnds
    PROVE  AnswersAreRight' /\ WalkInv'
<1> DEFINE c == Child(Here)
<1>1. /\ Longer /\ Here.wild /\ c.type = "PARAM" /\ ~Refused
      /\ Value = Under \/ Value = <<>>
      /\ \/ c.handle # 0 /\ Answers(c.handle, FALSE, Bound)
         \/ c.handle = 0 /\ Answers(0, SlashBelow(c), Bound)
  BY DEF ParamEnds, AtParam
<1>2. PICK z, h, w, y :
         /\ Comes(z, h) /\ OneAfter(z, w, y) /\ Under \in Seq(UrlChars)
         /\ Len(Under) = Len(request) - h[Len(z)]
         /\ w.kind = c.type /\ w.name = c.name /\ (c.type = "PARAM" => w.re = c.re)
         /\ (c.handle # 0 => Spells(registered[c.handle], y) /\ registered[c.handle] \in Routes)
  BY <1>1, AtChild
<1>3. PICK e : /\ Follows(y, request, e) /\ BoundAlong(y, e, Bound)
               /\ Value = Under => e[Len(y)] = Len(request)
               /\ Value = <<>> => Skips(y, e)
  BY <1>1, <1>2, ParamText
<1> HIDE DEF c
<1>4. CASE c.handle # 0 /\ Answers(c.handle, FALSE, Bound)
  <2>1. Right(registered[c.handle], request, Bound)
    BY <1>1, <1>2, <1>3, <1>4, RightIs
  <2> QED BY <1>4, <2>1, AnswerStep
<1>5. CASE c.handle = 0 /\ Answers(0, SlashBelow(c), Bound)
  BY <1>5, AnswerStep
<1> QED BY <1>1, <1>4, <1>5

\* A catch-all takes the rest.
LEMMA TakeAllIs ==
    ASSUME BuildInv, Ordinary, ~Busy, request \in Seq(UrlChars), NEW b, NEW g, Walked(b, g),
           TakeAll
    PROVE  AnswersAreRight' /\ WalkInv'
<1> DEFINE c == Child(Here)
<1>1. /\ Longer /\ Here.wild /\ c.type = "CATCH_ALL"
      /\ Answers(c.handle, FALSE, Bind(c.name, Under))
  BY DEF TakeAll
<1>2. PICK z, h, w, y :
         /\ Comes(z, h) /\ OneAfter(z, w, y)
         /\ w.kind = c.type /\ w.name = c.name
         /\ (c.handle # 0 => Spells(registered[c.handle], y) /\ registered[c.handle] \in Routes)
  BY <1>1, AtChild
<1>3. PICK e : /\ Follows(y, request, e) /\ BoundAlong(y, e, Bind(c.name, Under))
               /\ e[Len(y)] = Len(request)
  BY <1>1, <1>2, AllText
<1> HIDE DEF c
<1>4. c.handle # 0 => Right(registered[c.handle], request, Bind(c.name, Under))
  BY <1>2, <1>3, RightIs
<1> QED BY <1>1, <1>4, AnswerStep

\* The URL ends at a node.
LEMMA EndWithHandleIs ==
    ASSUME BuildInv, Ordinary, ~Busy, request \in Seq(UrlChars), NEW b, NEW g, Walked(b, g),
           EndWithHandle
    PROVE  AnswersAreRight' /\ WalkInv'
<1> DEFINE z == b[at] \o Own(Here)
<1>1. Equal /\ path = Here.path /\ Here.handle # 0 /\ Answers(Here.handle, FALSE, params)
  BY DEF EndWithHandle, Equal
<1>2. PICK h : Comes(z, h) /\ h[Len(z)] = Len(request)
  BY <1>1, Prefixed, HereText
<1>3. at \in DOMAIN nodes /\ Here = nodes[at]
  BY Standing DEF Here
<1>4. Spells(registered[Here.handle], z)
  BY <1>1, <1>3 DEF Walked, Labels, LabelFits
<1>5. registered[Here.handle] \in Routes
  BY <1>1, <1>3, HandleRoute
<1> HIDE DEF z
<1>6. Follows(z, request, h) /\ BoundAlong(z, h, params)
  BY <1>2 DEF Comes
<1>7. Right(registered[Here.handle], request, params)
  BY <1>2, <1>4, <1>5, <1>6, RightIs
<1> QED BY <1>1, <1>7, AnswerStep

\* The URL ends where a wildcard begins.
LEMMA EndInWildcardIs ==
    ASSUME BuildInv, Ordinary, ~Busy, request \in Seq(UrlChars), NEW b, NEW g, Walked(b, g),
           EndInWildcard
    PROVE  AnswersAreRight' /\ WalkInv'
<1> DEFINE c == Child(Here)
           bound == Bind(c.name, <<>>)
<1>1. /\ Equal /\ path = Here.path /\ Here.wild /\ c.type \in {"CATCH_ALL", "PARAM"}
      /\ Answers(c.handle, FALSE, bound)
  BY DEF EndInWildcard, Equal, EmptyFits
<1>2. PICK z, h, w, y :
         /\ Comes(z, h) /\ OneAfter(z, w, y) /\ Under \in Seq(UrlChars)
         /\ Len(Under) = Len(request) - h[Len(z)] /\ h[Len(z)] = Len(request)
         /\ w.kind = c.type /\ w.name = c.name
         /\ (c.handle # 0 => Spells(registered[c.handle], y) /\ registered[c.handle] \in Routes)
  BY <1>1, AtChild
<1>3. Under = <<>>
  <2>1. Len(request) \in Nat /\ Len(Under) = Len(request) - Len(request)
    BY <1>2
  <2>2. Len(Under) = 0
    BY <2>1
  <2> QED BY <1>2, <2>2
<1>4. CASE c.type = "CATCH_ALL"
  <2>1. PICK e : /\ Follows(y, request, e) /\ BoundAlong(y, e, bound)
                 /\ e[Len(y)] = Len(request)
    BY <1>2, <1>3, <1>4, AllText
  <2> HIDE DEF c, bound
  <2>2. c.handle # 0 => Right(registered[c.handle], request, bound)
    BY <1>2, <2>1, RightIs
  <2> QED BY <1>1, <2>2, AnswerStep
<1>5. CASE c.type = "PARAM"
  <2>1. PICK e : Follows(y, request, e) /\ Skips(y, e)
    BY <1>2, <1>5, EmptyText
  <2> HIDE DEF c, bound
  <2>2. BoundAlong(y, e, bound)
    BY <2>1 DEF BoundAlong
  <2>3. c.handle # 0 => Right(registered[c.handle], request, bound)
    BY <1>2, <2>1, <2>2, RightIs
  <2> QED BY <1>1, <2>3, AnswerStep
<1> QED BY <1>1, <1>4, <1>5

\* No wildcard follows a wildcard: a catch-all is not right under a parameter.
LEMMA NoCatchAllUnder ==
    ASSUME BuildInv, Ordinary, ~Busy, NEW b, Labels(nodes, b, registered),
           NEW k \in DOMAIN nodes, nodes[k].children # <<>>,
           NEW z, NEW w, NEW y, OneAfter(z, w, y), w.kind = "PARAM",
           y = b[k] \o Own(nodes[k]), y \in Seq(Symbols)
    PROVE  LET n == nodes[k].children[1]
           IN  nodes[n].path # <<>> \/ nodes[n].type # "CATCH_ALL"
<1> DEFINE n == nodes[k].children[1]
           m == nodes[n]
<1>1. /\ nodes \in Seq(NodeSet) /\ NodeFits(nodes, 0, path, k)
  BY Standing
<1>2. 1 \in DOMAIN nodes[k].children
  <2>1. nodes[k] \in NodeSet
    BY <1>1
  <2>2. nodes[k].children \in Seq(Nat \ {0})
    BY <2>1, NodeTypes
  <2>3. Len(nodes[k].children) \in Nat /\ Len(nodes[k].children) # 0
    BY <2>2
  <2> QED BY <2>2, <2>3
<1>3. n \in DOMAIN nodes /\ b[n] = y
  BY <1>1, <1>2 DEF NodeFits, Labels, LabelFits
<1>4. CASE ~nodes[k].wild
  BY <1>2, <1>4, EdgeNotEmpty
<1>5. CASE nodes[k].wild
  <2>1. SUFFICES ASSUME m.path = <<>>, m.type = "CATCH_ALL" PROVE FALSE
    OBVIOUS
  <2>2. IsWildcard(m)
    BY <1>1, <1>5 DEF NodeFits, WildFits
  <2>3. m.handle # 0
    BY <2>1, <2>2 DEF IsWildcard
  <2> DEFINE u == Wildcard([kind |-> "CATCH_ALL", re |-> m.re, name |-> m.name])
             r == registered[m.handle]
  <2>4. m \in NodeSet
    BY <1>1, <1>3
  <2>5. Own(m) = <<u>>
    <3>1. <<":">> # <<>>
      OBVIOUS
    <3> QED BY <2>1, <3>1 DEF Own
  <2>6. u \in Symbols /\ u.kind = "CATCH_ALL"
    <3>1. <<u>> \in Seq(Symbols)
      BY <2>4, <2>5, OwnIs
    <3>2. u.kind = "CATCH_ALL"
      BY DEF Wildcard
    <3> HIDE DEF u
    <3>3. <<u>>[1] \in Symbols
      BY <3>1
    <3> QED BY <3>2, <3>3
  <2>7. Spells(r, y \o <<u>>)
    BY <1>3, <2>3, <2>5 DEF Labels, LabelFits
  <2>8. r \in Routes
    BY <1>3, <2>3, HandleRoute
  <2> HIDE DEF u, r, m, n
  <2>9. OneAfter(y, u, y \o <<u>>)
    BY <2>6, OneAfterIs
  <2> DEFINE t == y \o <<u>>
             l == Len(z)
  <2>10. Spells(r, t) /\ OneAfter(y, u, t)
    BY <2>7, <2>9
  <2> HIDE DEF t
  <2>11. /\ l \in Nat /\ Len(y) = l + 1 /\ y[l + 1] = w
    BY DEF OneAfter
  <2>12. Len(t) = (l + 1) + 1 /\ t[(l + 1) + 1] = u
    BY <2>10, <2>11 DEF OneAfter
  <2>13. t[l + 1] = w
    <3>1. l + 1 \in 1..Len(y)
      BY <2>11
    <3>2. t[l + 1] = y[l + 1]
      BY <2>10, <3>1 DEF OneAfter
    <3> QED BY <2>11, <3>2
  <2>14. l + 1 \in Wilds(t) /\ (l + 1) + 1 \in Wilds(t)
    BY <2>6, <2>11, <2>12, <2>13 DEF Wilds
  <2> QED BY <2>8, <2>10, <2>14, WildsApart
<1> QED BY <1>4, <1>5

\* The URL goes on after a parameter.
LEMMA ParamGoesOnIs ==
    ASSUME BuildInv, Ordinary, ~Busy, request \in Seq(UrlChars), NEW b, NEW g, Walked(b, g),
           ParamGoesOn
    PROVE  AnswersAreRight' /\ WalkInv'
<1> DEFINE c == Child(Here)
           url == From(Under, Len(Value) + 1)
           k == Here.children[1]
           n == c.children[1]
<1>1. /\ Longer /\ Here.wild /\ c.type = "PARAM" /\ ~Refused
      /\ IF c.children # <<>> THEN Descends(n, url, Bound) ELSE Answers(0, url = <<"/">>, Bound)
  BY DEF ParamGoesOn, AtParam
<1>2. PICK z, h, w, y :
         /\ Comes(z, h) /\ OneAfter(z, w, y) /\ Under \in Seq(UrlChars)
         /\ Len(Under) = Len(request) - h[Len(z)]
         /\ y = b[k] \o Own(c) /\ w.kind = c.type /\ w.name = c.name
         /\ (c.type = "PARAM" => w.re = c.re)
         /\ k \in DOMAIN nodes /\ c = nodes[k]
         /\ z \in Seq(Symbols) /\ w \in Symbols /\ Own(c) = <<w>> /\ z = b[k]
  BY <1>1, AtChild, SMTT(40)
<1>3. PICK e : /\ Follows(y, request, e) /\ BoundAlong(y, e, Bound)
               /\ url = From(request, e[Len(y)] + 1)
  BY <1>1, <1>2, ParamText, ZenonT(40)
<1>4. phase = "walking" /\ Labels(nodes, b, registered)
  BY <1>1 DEF Longer, Walked
<1> HIDE DEF c, url, k, n
<1>5. CASE c.children = <<>>
  BY <1>1, <1>5, AnswerStep
<1>6. CASE c.children # <<>>
  <2>1. y \in Seq(Symbols)
    BY <1>2, OneMore
  <2>2. nodes[n].path # <<>> \/ nodes[n].type # "CATCH_ALL"
    BY <1>1, <1>2, <1>4, <1>6, <2>1, NoCatchAllUnder DEF n
  <2>3. b[n] = y
    <3>1. LabelFits(nodes, b, registered, k)
      BY <1>2, <1>4 DEF Labels
    <3>2. c \in NodeSet
      BY <1>2, Standing
    <3>3. c.children \in Seq(Nat \ {0})
      BY <3>2, NodeTypes
    <3>4. 1 \in DOMAIN c.children
      <4>1. Len(c.children) \in Nat /\ Len(c.children) # 0
        BY <1>6, <3>3
      <4> QED BY <3>3, <4>1
    <3> QED BY <1>2, <3>1, <3>4 DEF LabelFits, n
  <2>4. Descends(n, url, Bound)
    BY <1>1, <1>6
  <2> QED BY <1>3, <1>4, <2>2, <2>3, <2>4, DescendStep
<1> QED BY <1>5, <1>6

\* One turn of the loop.
LEMMA WalkIs ==
    ASSUME BuildInv, Ordinary, ~Busy, request \in Seq(UrlChars), WalkInv, Walk
    PROVE  AnswersAreRight' /\ WalkInv'
<1>1. phase = "walking"
  BY DEF Walk, Follow, NoEdge, ParamRefuses, ParamEnds, ParamGoesOn, TakeAll, EndWithHandle,
         EndInWildcard, EndWithout, Elsewhere, AtParam, Longer, Equal
<1>2. PICK b, g : Walked(b, g)
  BY <1>1 DEF WalkInv
<1>3. CASE Follow
  BY <1>2, <1>3, FollowIs
<1>4. CASE NoEdge \/ ParamRefuses \/ EndWithout \/ Elsewhere
  BY <1>4, NothingIs
<1>5. CASE ParamEnds
  BY <1>2, <1>5, ParamEndsIs
<1>6. CASE ParamGoesOn
  BY <1>2, <1>6, ParamGoesOnIs
<1>7. CASE TakeAll
  BY <1>2, <1>7, TakeAllIs
<1>8. CASE EndWithHandle
  BY <1>2, <1>8, EndWithHandleIs
<1>9. CASE EndInWildcard
  BY <1>2, <1>9, EndInWildcardIs
<1> QED BY <1>3, <1>4, <1>5, <1>6, <1>7, <1>8, <1>9 DEF Walk

(***************************************************************************)
(* Every state.                                                            *)
(***************************************************************************)

\* Nothing has been walked.
LEMMA NothingWalked ==
    ASSUME NEW url \in Seq(UrlChars), NEW g, g = [j \in 0..0 |-> 0]
    PROVE  /\ Follows(<<>>, url, g) /\ url = From(url, g[Len(<<>>)] + 1)
           /\ Bindings(<<>>, url, g) = {}
<1>1. Len(<<>>) = 0 /\ Len(url) \in Nat /\ 1..0 = {} /\ 0 \in 0..0
  OBVIOUS
<1>2. g \in [0..0 -> 0..Len(url)] /\ g[0] = 0
  <2>1. 0 \in 0..Len(url)
    BY <1>1
  <2> QED BY <1>1, <2>1
<1>3. Follows(<<>>, url, g)
  BY <1>1, <1>2 DEF Follows
<1>4. From(url, 0 + 1) = url
  BY DEF From
<1>5. Wilds(<<>>) = {}
  BY <1>1 DEF Wilds
<1> QED BY <1>1, <1>2, <1>3, <1>4, <1>5 DEF Bindings

\* forward begins at the root.
LEMMA StartIs ==
    ASSUME BuildInv, ~Busy, SpellInv, phase # "aborted", NEW url \in Seq(UrlChars), Walks(url),
           UNCHANGED built
    PROVE  request' \in Seq(UrlChars) /\ AnswersAreRight' /\ WalkInv'
<1>1. /\ phase' = "walking" /\ at' = 1 /\ path' = url /\ request' = url /\ params' = {}
      /\ nodes' = nodes /\ registered' = registered
  BY DEF Walks, built
<1>2. AnswersAreRight'
  BY <1>1 DEF AnswersAreRight, FoundMeansMatch, ParamsAreValues
<1>3. PICK b : Spelled(b)
  BY DEF SpellInv
<1>4. Labels(nodes, b, registered) /\ b[1] = <<>>
  BY <1>3 DEF Spelled, Labels
<1> DEFINE g == [j \in 0..0 |-> 0]
           root == nodes[1]
<1>5. /\ Follows(<<>>, url, g) /\ url = From(url, g[Len(<<>>)] + 1)
      /\ Bindings(<<>>, url, g) = {}
  BY NothingWalked
<1>6. root.path # <<>> \/ root.type # "CATCH_ALL"
  <2>1. Rooted(nodes)
    BY DEF BuildInv
  <2>2. CASE Blank(root)
    BY <2>2 DEF Blank
  <2>3. CASE Begins(root.path, "/")
    BY <2>3 DEF Begins
  <2> QED BY <2>1, <2>2, <2>3 DEF Rooted
<1> HIDE DEF g
<1>7. Here' = root
  BY <1>1 DEF Here
<1>8. WalkInv'
  <2>1. Labels(nodes', b, registered') /\ b[at'] = <<>>
    BY <1>1, <1>4
  <2>2. Here'.path # <<>> \/ Here'.type # "CATCH_ALL"
    BY <1>6, <1>7
  <2>3. Follows(b[at'], request', g) /\ path' = From(request', g[Len(b[at'])] + 1)
    BY <1>1, <1>5, <2>1
  <2>4. Skips(b[at'], g) \/ (Distinct(b[at']) => params' = Bindings(b[at'], request', g))
    BY <1>1, <1>5, <2>1
  <2>5. \E b2, g2 : Walked(b2, g2)'
    BY <2>1, <2>2, <2>3, <2>4 DEF Walked, BoundAlong
  <2> QED BY <2>5 DEF WalkInv
<1> QED BY <1>1, <1>2, <1>8

\* What holds of every state: the tree, what its nodes stand for, what
\* forward has come past, and what it has answered.
AnswerInv == IInv /\ SpellInv /\ request \in Seq(UrlChars) /\ WalkInv /\ AnswersAreRight

\* It holds at first.
LEMMA AnswerInit == Init => AnswerInv
<1> SUFFICES ASSUME Init PROVE AnswerInv
  OBVIOUS
<1>1. phase = "building" /\ request = <<>>
  BY DEF Init, BuildInit
<1>2. <<>> \in Seq(UrlChars)
  OBVIOUS
<1>3. WalkInv /\ AnswersAreRight
  BY <1>1 DEF WalkInv, AnswersAreRight, FoundMeansMatch, ParamsAreValues
<1> QED BY <1>1, <1>2, <1>3, IInvInit, InitSpells DEF AnswerInv

\* A client's URL.
LEMMA Plainly ==
    ASSUME Ordinary, NEW url \in Requests
    PROVE  url \in Seq(UrlChars)
BY DEF Ordinary, UrlChars

\* The building goes on, or fails.
LEMMA BuildPhase ==
    ASSUME BuildNext
    PROVE  phase' \in {"building", "inserting", "placing", "aborted"}
<1>1. ASSUME NEW route \in Routes, AddRoute(route)
      PROVE  phase' \in {"building", "inserting", "placing", "aborted"}
  BY <1>1 DEF AddRoute
<1>2. CASE Insert
  BY <1>2 DEF Insert, InsertFirst, InsertThroughWildcard, InsertIntoChild, InsertNewChild,
              InsertHere, PlaceStatic, PlaceConflict, PlaceParam, PlaceCatchAll, GoesOn, Returns
<1> QED BY <1>1, <1>2 DEF BuildNext

\* The URL stays as it is on the way.
LEMMA WalkKeeps == ASSUME Walk PROVE request' = request
<1>1. ASSUME NEW c, NEW hint, NEW bound, Answers(c, hint, bound) PROVE request' = request
  BY <1>1 DEF Answers
<1>2. ASSUME NEW n, NEW url, NEW bound, Descends(n, url, bound) PROVE request' = request
  BY <1>2 DEF Descends
<1> QED BY <1>1, <1>2, Zenon DEF Walk, Follow, NoEdge, ParamRefuses, ParamEnds, ParamGoesOn, TakeAll,
         EndWithHandle, EndInWildcard, EndWithout, Elsewhere

\* Every step keeps it.
LEMMA AnswerInvStep == ASSUME AnswerInv, Ordinary, [Next]_vars PROVE AnswerInv'
<1>0. /\ IInv /\ BuildInv /\ Bounded /\ SpellInv /\ request \in Seq(UrlChars)
      /\ WalkInv /\ AnswersAreRight
  BY DEF AnswerInv, IInv
<1>1. IInv' /\ SpellInv'
  BY <1>0, IInvStep, SpellStep
<1>2. SUFFICES request' \in Seq(UrlChars) /\ WalkInv' /\ AnswersAreRight'
  BY <1>1 DEF AnswerInv
<1>3. ASSUME request' \in Seq(UrlChars), phase' \notin {"walking", "answered"}
      PROVE  request' \in Seq(UrlChars) /\ WalkInv' /\ AnswersAreRight'
  BY <1>3 DEF WalkInv, AnswersAreRight, FoundMeansMatch, ParamsAreValues
<1>4. CASE BuildNext /\ UNCHANGED <<request, params, found, tsr, redirects>>
  <2>1. phase' \in {"building", "inserting", "placing", "aborted"}
    BY <1>4, BuildPhase
  <2> QED BY <1>0, <1>3, <1>4, <2>1
<1>5. CASE Serve
  BY <1>0, <1>3, <1>5 DEF Serve
<1>6. CASE Done
  <2>1. request' = <<>> /\ phase' = "serving"
    BY <1>6 DEF Done
  <2>2. <<>> \in Seq(UrlChars)
    OBVIOUS
  <2> QED BY <1>3, <2>1, <2>2
<1>7. ASSUME NEW url \in Requests, Ask(url)
      PROVE  request' \in Seq(UrlChars) /\ WalkInv' /\ AnswersAreRight'
  <2>1. phase = "serving" /\ Walks(url) /\ UNCHANGED built
    BY <1>7 DEF Ask
  <2>2. ~Busy
    BY <2>1 DEF Busy
  <2> QED BY <1>0, <2>1, <2>2, Plainly, StartIs
<1>8. CASE Redirect
  <2> DEFINE url == Append(request, "/")
  <2>1. phase = "answered" /\ Walks(url) /\ UNCHANGED built
    BY <1>8 DEF Redirect
  <2>2. ~Busy
    BY <2>1 DEF Busy
  <2>3. url \in Seq(UrlChars)
    <3>1. "/" \in UrlChars
      BY DEF UrlChars
    <3> QED BY <1>0, <3>1
  <2> HIDE DEF url
  <2> QED BY <1>0, <2>1, <2>2, <2>3, StartIs
<1>9. CASE Walk
  <2>1. phase = "walking" /\ UNCHANGED <<built, redirects>>
    BY <1>0, <1>9, WalkStep
  <2>2. ~Busy
    BY <2>1 DEF Busy
  <2>3. request' = request
    BY <1>9, WalkKeeps
  <2> QED BY <1>0, <1>9, <2>2, <2>3, WalkIs
<1>10. CASE UNCHANGED vars
  <2>1. /\ registered' = registered /\ nodes' = nodes /\ phase' = phase /\ at' = at
        /\ path' = path /\ request' = request /\ params' = params /\ found' = found
    BY <1>10 DEF vars, buildVars
  <2>2. AnswersAreRight'
    BY <1>0, <2>1 DEF AnswersAreRight, FoundMeansMatch, ParamsAreValues
  <2>3. Here' = Here
    BY <2>1 DEF Here
  <2>4. ASSUME NEW b, NEW g, Walked(b, g) PROVE Walked(b, g)'
    BY <2>1, <2>3, <2>4 DEF Walked, BoundAlong
  <2>5. WalkInv'
    BY <1>0, <2>1, <2>4 DEF WalkInv
  <2> QED BY <1>0, <2>1, <2>2, <2>5
<1> QED BY <1>4, <1>5, <1>6, <1>7, <1>8, <1>9, <1>10 DEF Next

\* The answers of forward, for any routes and any requests of an ordinary
\* program: a controller that is returned is that of a route that the URL
\* matches, and its parameters are the route's own, with the text of the URL
\* that they stand for (router.cc:694-852).
THEOREM AnswersRight == ASSUME Ordinary PROVE Spec => []AnswersAreRight
<1>1. AnswerInv /\ [Next]_vars => AnswerInv'
  BY AnswerInvStep
<1>2. AnswerInv => AnswersAreRight
  BY DEF AnswerInv
<1> QED BY <1>1, <1>2, AnswerInit, PTL DEF Spec
==============================================================================
