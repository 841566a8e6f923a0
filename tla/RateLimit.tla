------------------------------ MODULE RateLimit ------------------------------
(***************************************************************************)
(* The rate limiter of bench-web (packages/web/src/rate-limit.ts), which   *)
(* main.ts puts before the invites, the sign-in, the signup and the        *)
(* runners' routes: windows of a fixed length per address, and a timer     *)
(* that removes the entries of windows that are over.                      *)
(***************************************************************************)
EXTENDS Integers, FiniteSets, Sequences

CONSTANTS
  Addresses,    \* the addresses requests come from
  WindowMs,     \* windowMs, in ticks
  MaxRequests,  \* maxRequests
  MaxNow,       \* bound: the time
  MaxAsks       \* bound: requests

ASSUME RateAssumption == WindowMs \in Nat \ {0} /\ {MaxRequests, MaxNow, MaxAsks} \subseteq Nat

VARIABLES now, entries, asks, passed, refused

rateVars == <<now, entries, asks, passed, refused>>

\* The type invariant: an entry per address seen, and what was let through when.
RateTypeOK ==
  /\ now \in 0..MaxNow
  /\ \A a \in DOMAIN entries : a \in Addresses /\ entries[a].count > 0
  /\ asks \in 0..MaxAsks
  /\ passed \in Seq([from : Addresses, at : 0..MaxNow])
  /\ refused \subseteq [from : Addresses, at : 0..MaxNow]

RateInit == now = 0 /\ entries = <<>> /\ asks = 0 /\ passed = <<>> /\ refused = {}

\* Fault: a window goes on for the instant in which it is over.
OverLate(a) == a \notin DOMAIN entries \/ now > entries[a].resetAt

\* The address has no entry, or one whose window is over.
Over(a) == IF a \in DOMAIN entries THEN now >= entries[a].resetAt ELSE TRUE

\* Fault: the request that opens a window is not counted.
FreshUncounted == [count |-> 0, resetAt |-> now + WindowMs]

Fresh == [count |-> 1, resetAt |-> now + WindowMs]

\* The middleware: a new window if the old one is over, then the request is
\* counted and passed on or answered 429.
Limit(a) ==
  LET entry == IF Over(a) THEN Fresh
               ELSE [entries[a] EXCEPT !.count = @ + 1]
  IN /\ entries' = [b \in {a} \cup DOMAIN entries |-> IF b = a THEN entry ELSE entries[b]]
     /\ IF entry.count > MaxRequests
        THEN refused' = refused \cup {[from |-> a, at |-> now]} /\ UNCHANGED passed
        ELSE passed' = Append(passed, [from |-> a, at |-> now]) /\ UNCHANGED refused
     /\ asks < MaxAsks /\ asks' = asks + 1
     /\ UNCHANGED now

\* Fault: the timer empties the map.
Empty == {}

\* The entries the timer keeps.
Kept == {a \in DOMAIN entries : now < entries[a].resetAt}

\* The interval of sixty seconds: entries of windows that are over are deleted.
CleanUp ==
  /\ entries' = [a \in Kept |-> entries[a]]
  /\ UNCHANGED <<now, asks, passed, refused>>

Tick ==
  /\ now < MaxNow
  /\ now' = now + 1
  /\ UNCHANGED <<entries, asks, passed, refused>>

RateNext == Tick \/ CleanUp \/ \E a \in Addresses : Limit(a)

RateSpec == RateInit /\ [][RateNext]_rateVars

-----------------------------------------------------------------------------

Admitted(a, from, to) ==
  Cardinality({k \in DOMAIN passed : passed[k].from = a /\ passed[k].at \in from..to})

\* No address gets more than two windows' worth of requests through in any
\* stretch as long as a window, wherever its windows begin and whenever the
\* timer cleans up.
BurstIsBounded ==
  \A a \in Addresses, t \in 0..now : Admitted(a, t, t + WindowMs - 1) <= 2 * MaxRequests

\* Nobody is refused who has not used up his requests within the window's
\* length: the Retry-After of an answer is honest.
RefusalIsEarned ==
  \A r \in refused : Admitted(r.from, r.at - WindowMs + 1, r.at) >= MaxRequests

\* The limit lets through no more than it says and refuses no less.
LimitIsExact == RateTypeOK /\ BurstIsBounded /\ RefusalIsEarned
=============================================================================
