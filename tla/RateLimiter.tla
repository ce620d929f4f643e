----------------------------- MODULE RateLimiter -----------------------------
(***************************************************************************)
(* RateLimiter.__call__ of app/core/rate_limit.py, with                    *)
(* settings.rate_limit_enabled: a deque of timestamps per key (limiter     *)
(* name and client address) in process memory.  The body has no await, so  *)
(* a call is one step of the event loop.  time.monotonic() is a clock in   *)
(* ticks; calls may come at the same tick.                                 *)
(***************************************************************************)
EXTENDS Integers, Sequences

CONSTANTS
    Keys,    \* f"{name}:{client_ip}"
    Limit,   \* the limit of the limiter a key belongs to
    Window,  \* window_seconds, in ticks
    MaxTime  \* bound on the clock

ASSUME ClockAssumption == MaxTime \in Nat /\ Window \in Nat \ {0}
ASSUME LimitAssumption == Limit \in [Keys -> Nat \ {0}]

VARIABLES
    now,     \* time.monotonic()
    hits,    \* _HITS
    log,     \* history: the times of all admitted requests since boot
    verdict  \* per key: the answer to its last request

vars == <<now, hits, log, verdict>>

Verdicts == {"none", "admitted", "429"}

Init == /\ now = 0
        /\ hits = [k \in Keys |-> <<>>]
        /\ log = [k \in Keys |-> <<>>]
        /\ verdict = [k \in Keys |-> "none"]
-----------------------------------------------------------------------------
\* The eviction loop pops the d oldest hits: those at or before the cutoff,
\* up to the first one after it.
LazyEvicts(s, cutoff, d) ==
    /\ \A i \in 1 .. d : s[i] < cutoff
    /\ d < Len(s) => s[d + 1] >= cutoff
Evicts(s, cutoff, d) ==
    /\ \A i \in 1 .. d : s[i] <= cutoff
    /\ d < Len(s) => s[d + 1] > cutoff

\* The hits that are left are at the limit: TooManyRequestsError.
IsFull(k, kept) == Len(kept) >= Limit[k]

Reject(k, kept) ==
    /\ IsFull(k, kept)
    /\ hits' = [hits EXCEPT ![k] = kept]
    /\ verdict' = [verdict EXCEPT ![k] = "429"]
    /\ UNCHANGED log

Accept(k, kept) ==
    /\ ~IsFull(k, kept)
    /\ hits' = [hits EXCEPT ![k] = Append(kept, now)]
    /\ log' = [log EXCEPT ![k] = Append(@, now)]
    /\ verdict' = [verdict EXCEPT ![k] = "admitted"]

Call(k) ==
    /\ \E d \in 0 .. Len(hits[k]) :
          /\ Evicts(hits[k], now - Window, d)
          /\ LET kept == SubSeq(hits[k], d + 1, Len(hits[k]))
             IN  Reject(k, kept) \/ Accept(k, kept)
    /\ UNCHANGED now

\* Time passes.
Tick == /\ now < MaxTime
        /\ now' = now + 1
        /\ UNCHANGED <<hits, log, verdict>>

\* A new process starts with no hits; so does reset_rate_limits().
Restart == /\ hits' = [k \in Keys |-> <<>>]
           /\ log' = [k \in Keys |-> <<>>]
           /\ verdict' = [k \in Keys |-> "none"]
           /\ UNCHANGED now

Next == Tick \/ Restart \/ \E k \in Keys : Call(k)

Spec == Init /\ [][Next]_vars
-----------------------------------------------------------------------------
(* Properties *)

\* The clock, the deques and the log have their types.
TypeOK == /\ now \in 0 .. MaxTime
          /\ hits \in [Keys -> Seq(0 .. MaxTime)]
          /\ log \in [Keys -> Seq(0 .. MaxTime)]
          /\ verdict \in [Keys -> Verdicts]

\* Any Limit + 1 admitted requests of a key span more than a window: no
\* sliding window, wherever it starts, holds more than Limit of them.
Spaced == \A k \in Keys : \A i, j \in DOMAIN log[k] :
              i + Limit[k] <= j => log[k][j] - log[k][i] >= Window

\* A deque never outgrows the limit: refused requests leave nothing in memory.
DequeBounded == \A k \in Keys : Len(hits[k]) <= Limit[k]

\* The limiter admits and refuses exactly as the complete log would: eviction
\* forgets nothing that still counts, and keeps nothing that no longer does.
Promise == INSTANCE SlidingWindow WITH
    Keys <- Keys, Limit <- Limit, Window <- Window, MaxTime <- MaxTime,
    now <- now, log <- log, verdict <- verdict
Implements == Promise!Spec
=============================================================================
