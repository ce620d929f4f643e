---------------------------- MODULE SlidingWindow ----------------------------
(***************************************************************************)
(* What app/core/rate_limit.py promises a client: a request is admitted    *)
(* if and only if fewer than Limit requests of its key were admitted in    *)
(* the window that ends now.  The log of admitted requests is complete,    *)
(* nothing is forgotten except by a restart of the process.                *)
(***************************************************************************)
EXTENDS Integers, Sequences, FiniteSets

CONSTANTS Keys, Limit, Window, MaxTime

VARIABLES now,     \* the monotonic clock, in ticks
          log,     \* per key: the times of the admitted requests since boot
          verdict  \* per key: the answer to its last request

Verdicts == {"none", "admitted", "429"}

\* The admitted requests of the window (now - Window, now].
InWindow(k) == {i \in DOMAIN log[k] : log[k][i] > now - Window}

Init == /\ now = 0
        /\ log = [k \in Keys |-> <<>>]
        /\ verdict = [k \in Keys |-> "none"]

Admit(k) == /\ Cardinality(InWindow(k)) < Limit[k]
            /\ log' = [log EXCEPT ![k] = Append(@, now)]
            /\ verdict' = [verdict EXCEPT ![k] = "admitted"]
            /\ UNCHANGED now

Refuse(k) == /\ Cardinality(InWindow(k)) >= Limit[k]
             /\ verdict' = [verdict EXCEPT ![k] = "429"]
             /\ UNCHANGED <<now, log>>

Tick == now < MaxTime /\ now' = now + 1 /\ UNCHANGED <<log, verdict>>

Forget == /\ log' = [k \in Keys |-> <<>>]
          /\ verdict' = [k \in Keys |-> "none"]
          /\ UNCHANGED now

Next == Tick \/ Forget \/ \E k \in Keys : Admit(k) \/ Refuse(k)

Spec == Init /\ [][Next]_<<now, log, verdict>>
=============================================================================
