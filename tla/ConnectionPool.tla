--------------------------- MODULE ConnectionPool ---------------------------
(***************************************************************************)
(* The connections of the engine, which webhooks and mails share.  A mail  *)
(* keeps its connection from the flush of its log to the commit after its  *)
(* last attempt, through sends and backoffs; a webhook keeps its own from  *)
(* its first query to its commit (in detail: Settlement).                  *)
(*                                                                         *)
(* External: the pool of SQLAlchemy, with the defaults of                  *)
(* create_async_engine.  Who finds no connection waits; who has waited for *)
(* the pool's timeout gets an error, which ends a mail without a log and a *)
(* webhook with a 500, so that the provider repeats it.                    *)
(***************************************************************************)
EXTENDS EmailDelivery, FiniteSets

CONSTANTS
    Webhooks, \* events of payments that the provider repeats until a 200
    PoolSize  \* connections: pool_size and max_overflow

ASSUME PoolAssumption == PoolSize \in Nat \ {0}

VARIABLE webhook \* per event: where its delivery is

poolVars == <<vars, webhook>>

\* The session of a mail is closed with its task: `async with`.
HoldsUnclosed(m) == session[m] # "none" /\ pc[m] \notin {"scheduled", "lost"}
Holds(m) == pc[m] \in {"send", "commit", "backoff", "record"}

InUse == Cardinality({m \in Mails : Holds(m)}) + Cardinality({w \in Webhooks : webhook[w] = "holding"})
Full  == InUse >= PoolSize

Step(w, from, to) == webhook[w] = from /\ webhook' = [webhook EXCEPT ![w] = to]

\* The provider delivers the event, for the first time or after a failure.
DeliverEvent(w) == /\ \/ Step(w, "due", "waiting") \/ Step(w, "failed", "waiting")
                   /\ UNCHANGED vars

Acquire(w) == ~Full /\ Step(w, "waiting", "holding") /\ UNCHANGED vars
Refuse(w)  == Full /\ Step(w, "waiting", "failed") /\ UNCHANGED vars
Answer(w)  == Step(w, "holding", "answered") /\ UNCHANGED vars

\* A mail without a connection waits, or ends as it does when its flush fails.
MailStep(m) == /\ TaskStep(m)
               /\ At(m, "scheduled") /\ Full => pc'[m] = "done"
               /\ UNCHANGED webhook

\* The deliveries of the process that dies are not answered either.
CrashPool == /\ Crash
             /\ webhook' = [w \in Webhooks |->
                    IF webhook[w] \in {"waiting", "holding"} THEN "failed" ELSE webhook[w]]

PoolInit == Init /\ webhook = [w \in Webhooks |-> "due"]

PoolNext == \/ CrashPool
            \/ \E m \in Mails : (Schedule(m) /\ UNCHANGED webhook) \/ MailStep(m)
            \/ \E w \in Webhooks : DeliverEvent(w) \/ Acquire(w) \/ Refuse(w) \/ Answer(w)

PoolSpec == PoolInit /\ [][PoolNext]_poolVars

\* The event loop runs mails and handlers on, with their timeouts, and the
\* provider repeats an event that failed.
PoolFairSpec ==
    /\ PoolSpec
    /\ \A m \in Mails : WF_poolVars(MailStep(m))
    /\ \A w \in Webhooks : WF_poolVars(DeliverEvent(w)) /\ WF_poolVars(Acquire(w) \/ Answer(w))
-----------------------------------------------------------------------------
(* Properties *)

\* Rule 10, as far as the code keeps it: whatever the mails do with the
\* connections, every event of a payment is answered 200 in the end.
PaymentsGetThrough == \A w \in Webhooks : (webhook[w] # "answered") ~> (webhook[w] = "answered")

\* notification_service.py: email delivery never blocks or fails a payment.
\* Not kept: mails in progress may hold all connections for longer than the
\* pool's timeout, and the webhook is answered 500.
MailNeverFailsPayments ==
    [][\A w \in Webhooks : Refuse(w) => \E x \in Webhooks : webhook[x] = "holding"]_poolVars
=============================================================================
