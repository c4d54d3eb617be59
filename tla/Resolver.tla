------------------------------ MODULE Resolver ------------------------------
(***************************************************************************)
(* InetAddress::fromHost over c-ares (lib/src/dns.cc): look-ups by several *)
(* threads, the first of which initialise the library, until the process   *)
(* exits and cleanUpCares runs once for each initialisation.               *)
(*                                                                         *)
(* c-ares counts its initialisations.  It calls DnsQueryCallback once for  *)
(* a query, with addresses or without, in time.  exit() is called when no  *)
(* look-up runs.                                                           *)
(***************************************************************************)
EXTENDS Naturals

CONSTANTS Callers,      \* threads that look names up
          MaxLookups    \* bound on the look-ups of a caller

ASSUME ResolverAssumption == MaxLookups \in Nat

VARIABLES
    inited,     \* InetAddress::inited
    holder,     \* global::mutex: who has it
    library,    \* how often c-ares has been initialised and not cleaned up
    cleanups,   \* calls of cleanUpCares that atexit has still to make
    exiting,    \* exit() has been called
    lookups,    \* how many look-ups a caller has begun
    at          \* where in fromHost a caller is

resolverVars == <<inited, holder, library, cleanups, exiting, lookups, at>>

Nobody == "nobody"

ResolverTypeOK ==
    /\ inited \in BOOLEAN /\ exiting \in BOOLEAN
    /\ holder \in Callers \cup {Nobody}
    /\ library \in Nat /\ cleanups \in Nat
    /\ lookups \in [Callers -> 0 .. MaxLookups]
    /\ at \in [Callers -> {"outside", "entered", "locking", "locked",
                           "channel", "asking"}]

Goes(c, where) == at' = [at EXCEPT ![c] = where]

Begin(c) ==
    /\ at[c] = "outside" /\ ~exiting /\ lookups[c] < MaxLookups
    /\ Goes(c, "entered")
    /\ lookups' = [lookups EXCEPT ![c] = @ + 1]
    /\ UNCHANGED <<inited, holder, library, cleanups, exiting>>

\* inited is read without the mutex, and not again with it.
ReadInited(c) ==
    /\ at[c] = "entered"
    /\ Goes(c, IF inited THEN "channel" ELSE "locking")
    /\ UNCHANGED <<inited, holder, library, cleanups, exiting, lookups>>

LockMutex(c) ==
    /\ at[c] = "locking" /\ holder = Nobody
    /\ holder' = c
    /\ Goes(c, "locked")
    /\ UNCHANGED <<inited, library, cleanups, exiting, lookups>>

\* Mutants: one clean-up for all, a return with the mutex, and inited without
\* a look at the status.
RegisteredOnce == 1
UnlockedNever == holder
InitedAnyhow == TRUE

\* cleanups after atexit(cleanUpCares), the mutex after the block, and inited
\* after an initialisation that failed.
Registered == cleanups + 1
Unlocked == Nobody
InitedNot == inited

InitLibrary(c) ==
    /\ at[c] = "locked"
    /\ library' = library + 1
    /\ cleanups' = Registered
    /\ inited' = TRUE
    /\ holder' = Unlocked
    /\ Goes(c, "channel")
    /\ UNCHANGED <<exiting, lookups>>

InitLibraryFails(c) ==
    /\ at[c] = "locked"
    /\ inited' = InitedNot
    /\ holder' = Unlocked
    /\ Goes(c, "outside")
    /\ UNCHANGED <<library, cleanups, exiting, lookups>>

\* ares_init, and ares_gethostbyname.
OpenChannel(c) ==
    /\ at[c] = "channel"
    /\ \/ Goes(c, "asking")
       \/ Goes(c, "outside")
    /\ UNCHANGED <<inited, holder, library, cleanups, exiting, lookups>>

\* DnsQueryCallback, with addresses or without, and ares_fds returns 0 from now
\* on.  What the look-up returns is whether out has an address by then.
EndLookup(c) ==
    /\ at[c] = "asking"
    /\ Goes(c, "outside")
    /\ UNCHANGED <<inited, holder, library, cleanups, exiting, lookups>>

Exit ==
    /\ ~exiting /\ \A c \in Callers : at[c] = "outside"
    /\ exiting' = TRUE
    /\ UNCHANGED <<inited, holder, library, cleanups, lookups, at>>

\* cleanUpCares waits for the mutex, and sets inited to true.
CleanUpCares ==
    /\ exiting /\ cleanups > 0 /\ holder = Nobody
    /\ cleanups' = cleanups - 1
    /\ library' = library - 1
    /\ inited' = TRUE
    /\ UNCHANGED <<holder, exiting, lookups, at>>

ResolverInit ==
    /\ inited = FALSE /\ holder = Nobody /\ library = 0 /\ cleanups = 0
    /\ exiting = FALSE
    /\ lookups = [c \in Callers |-> 0]
    /\ at = [c \in Callers |-> "outside"]

Lookup(c) ==
    \/ ReadInited(c) \/ LockMutex(c) \/ InitLibrary(c) \/ InitLibraryFails(c)
    \/ OpenChannel(c) \/ EndLookup(c)

ResolverNext ==
    \/ \E c \in Callers : Begin(c) \/ Lookup(c)
    \/ Exit \/ CleanUpCares

\* Threads run on, c-ares answers or times out, and the mutex is fair enough
\* for a thread to get it at last.  exit() makes the calls that are registered.
ResolverFairness ==
    /\ \A c \in Callers : WF_resolverVars(Lookup(c)) /\ SF_resolverVars(LockMutex(c))
    /\ WF_resolverVars(CleanUpCares)

ResolverSpec == ResolverInit /\ [][ResolverNext]_resolverVars /\ ResolverFairness

(***************************************************************************)
(* Properties                                                              *)
(***************************************************************************)

\* A channel is opened, and a query made, only while c-ares is initialised,
\* although inited is read without the mutex and other first look-ups may
\* fail to initialise at that moment (dns.cc:72-87).
AskedWhenReady ==
    \A c \in Callers : at[c] \in {"channel", "asking"} => library > 0

\* However many first look-ups have initialised c-ares at once, and others
\* failed to, it is cleaned up for each of them when the process exits, and no
\* clean-up waits for a mutex that a look-up has left locked (dns.cc:20-26 and
\* 72-83).
LibraryReleased == exiting ~> library = 0

\* Every look-up returns, whichever initialisations fail (dns.cc:73-80 and
\* 102-111).
LookupsReturn == \A c \in Callers : at[c] = "entered" ~> at[c] = "outside"
=============================================================================
