----------------------------- MODULE RegexOwner -----------------------------
(***************************************************************************)
(* Regex (lib/src/utils.h, lib/src/utils.cc): who owns the compiled code   *)
(* and the copy of the pattern, through construction, compilation, move,   *)
(* swap and destruction, in any order, compilations that fail among them.  *)
(***************************************************************************)

CONSTANTS Objects,  \* Regex objects
          Cells,    \* blocks of the heap
          Null

ASSUME RegexAssumption == Null \notin Cells

VARIABLES
    live,       \* the objects that exist
    allocated,  \* the blocks in use
    re,         \* re_ of each object
    pattern,    \* pattern_ of each object, which may point at a free block
    twice       \* history: a destructor has freed what was freed before

regexVars == <<live, allocated, re, pattern, twice>>

RegexTypeOK ==
    /\ live \subseteq Objects
    /\ allocated \subseteq Cells
    /\ re \in [Objects -> Cells \cup {Null}]
    /\ pattern \in [Objects -> Cells \cup {Null}]
    /\ twice \in BOOLEAN

\* Regex().
Construct(o) ==
    /\ o \notin live
    /\ live' = live \cup {o}
    /\ re' = [re EXCEPT ![o] = Null]
    /\ pattern' = [pattern EXCEPT ![o] = Null]
    /\ UNCHANGED <<allocated, twice>>

\* Mutant: the code moves, the pattern is copied.
ExchangedCopying(o, p) ==
    /\ re' = [re EXCEPT ![o] = re[p], ![p] = re[o]]
    /\ pattern' = [pattern EXCEPT ![o] = pattern[p]]

\* swap, and move assignment, which is a swap too.
Exchanged(o, p) ==
    /\ re' = [re EXCEPT ![o] = re[p], ![p] = re[o]]
    /\ pattern' = [pattern EXCEPT ![o] = pattern[p], ![p] = pattern[o]]

Swap(o, p) ==
    /\ o \in live /\ p \in live
    /\ Exchanged(o, p)
    /\ UNCHANGED <<live, allocated, twice>>

\* Regex(Regex &&): empty, then a swap.
MoveConstruct(o, p) ==
    /\ o \notin live /\ p \in live
    /\ live' = live \cup {o}
    /\ re' = [re EXCEPT ![o] = re[p], ![p] = Null]
    /\ pattern' = [pattern EXCEPT ![o] = pattern[p], ![p] = Null]
    /\ UNCHANGED <<allocated, twice>>

\* What the destructor frees.
Freed(o) == {re[o], pattern[o]} \ {Null}

\* Mutant: a second compilation forgets the first.
FreedNever(o) == {}

\* compileRegex calls the destructor of an object that has code.
FreedFirst(o) == IF re[o] # Null THEN Freed(o) ELSE {}

Compile(o) ==
    /\ o \in live
    /\ \E code \in Cells, copy \in Cells :
          /\ code # copy
          /\ {code, copy} \cap (allocated \ FreedFirst(o)) = {}
          /\ allocated' = (allocated \ FreedFirst(o)) \cup {code, copy}
          /\ re' = [re EXCEPT ![o] = code]
          /\ pattern' = [pattern EXCEPT ![o] = copy]
    /\ UNCHANGED <<live, twice>>

\* A pattern that does not compile: re_ is set, pattern_ is not, and points
\* where it did, at what the destructor has just freed if there was code.
CompileFails(o) ==
    /\ o \in live
    /\ allocated' = allocated \ FreedFirst(o)
    /\ re' = [re EXCEPT ![o] = Null]
    /\ UNCHANGED <<live, pattern, twice>>

\* The pattern of o was freed when its last compilation failed.  The block may
\* be another object's by now.
Stale(o) == re[o] = Null /\ pattern[o] # Null

\* Its members are gone, and told as Null.
Destroy(o) ==
    /\ o \in live
    /\ live' = live \ {o}
    /\ allocated' = allocated \ Freed(o)
    /\ twice' = (twice \/ Stale(o))
    /\ re' = [re EXCEPT ![o] = Null]
    /\ pattern' = [pattern EXCEPT ![o] = Null]

RegexInit ==
    /\ live = {} /\ allocated = {}
    /\ re = [o \in Objects |-> Null]
    /\ pattern = [o \in Objects |-> Null]
    /\ twice = FALSE

RegexNext ==
    \E o \in Objects :
        \/ Construct(o) \/ Compile(o) \/ CompileFails(o) \/ Destroy(o)
        \/ \E p \in Objects : Swap(o, p) \/ MoveConstruct(o, p)

RegexSpec == RegexInit /\ [][RegexNext]_regexVars

(***************************************************************************)
(* Properties                                                              *)
(***************************************************************************)

\* A block in use belongs to an object: a second compilation frees the first,
\* whether it succeeds or fails, and nothing that is moved is lost
\* (test/utils.cc:109: "re-compile. test whether there exist memory leak").
NothingLeaks == \A c \in allocated : \E o \in live : c \in Freed(o)

\* What has code has a pattern, both in use, neither another's: match never
\* runs on code that is gone.  It stays so when a second compilation fails, and
\* when the object that this leaves with a stale pattern is moved or compiled
\* once more, and ends only when such an object is destroyed (utils.h:84-118,
\* utils.cc:242-272 and 359-368).
CodeOwnsBlocks ==
    ~twice =>
        \A o \in live : re[o] # Null =>
            /\ pattern[o] # Null /\ re[o] # pattern[o]
            /\ Freed(o) \subseteq allocated
            /\ \A p \in live :
                  p # o /\ re[p] # Null => Freed(o) \cap Freed(p) = {}

\* What is compiled again and destroyed frees each block once
\* (test/utils.cc:109-124).
FreedOnce == ~twice
=============================================================================
