------------------------------ MODULE Gateway ------------------------------
(***************************************************************************)
(* app/integrations/payments: how a payment becomes a checkout URL in      *)
(* cents, and how the bytes of a webhook become a WebhookEvent or are      *)
(* refused, with the provider Wompi and with the fake one of development.  *)
(*                                                                         *)
(* Settings are read once per process (lru_cache), so after the secrets of *)
(* the merchant account were rotated the process goes on with the old ones *)
(* until it is restarted.  Payments keep the URL they were created with.   *)
(* The provider (external) reports notices and repeats each until it is    *)
(* answered 200; deliveries are lost or changed on the way, in any field.  *)
(***************************************************************************)
EXTENDS Integers, Sequences, FiniteSets

CONSTANTS
    Providers,    \* values of PAYMENT_PROVIDER: "wompi", "fake"
    References,   \* external references of payments
    Transactions, \* transaction ids of the provider
    Prices,       \* Decimal amounts of purchases
    RawStatuses,  \* statuses the provider may report, known to the code or not
    Timestamps,   \* of Wompi's events
    PropertyLists, \* values of signature.properties
    Digits(_),    \* the decimal notation of a number
    None,
    MaxReports, MaxRotations, MaxFaults  \* bounds

\* A decimal of at most two digits: it stands for coef * 10^-exp.
Decimal == [coef : Nat, exp : 0 .. 2]

\* What an event may list as signed: up to three values of its transaction.
Property   == {"id", "status", "amount", "reference", "unknown"}
WompiSigned == <<"id", "status", "amount">>
OtherSigned == <<"unknown", "unknown", "unknown">>
Digit == {"0", "1", "2", "3", "4", "5", "6", "7", "8", "9"}

ASSUME PricesAssumption == Prices \subseteq Decimal
ASSUME TextAssumption ==
    /\ Timestamps \subseteq Nat \ {0}
    /\ {WompiSigned, OtherSigned} \subseteq PropertyLists
    /\ PropertyLists \subseteq [1 .. 3 -> Property]
    /\ Transactions \cap (References \cup RawStatuses \cup Digit) = {}
    /\ RawStatuses \cap (References \cup Digit) = {}
ASSUME BoundsAssumption == MaxReports \in Nat /\ MaxRotations \in Nat /\ MaxFaults \in Nat
ASSUME NoneAssumption ==
    /\ None \notin Transactions /\ None \notin References
    /\ None \notin RawStatuses /\ None \notin Decimal /\ None \notin Nat

VARIABLES
    provider, \* the setting of this deployment
    payments, \* reference -> amount, transaction id and what the URL carries
    reported, \* the provider's notices
    secret,   \* generation of the secrets of the merchant account
    held,     \* the generation that the process has read
    wire,     \* deliveries on their way
    accepted, \* history: the events process_webhook went on with
    answered, \* the notices answered 200
    altered,  \* history: those whose delivery had been changed where the
              \* signature alone binds nothing
    faults    \* deliveries lost or changed so far

vars == <<provider, payments, reported, secret, held, wire, accepted, answered, altered, faults>>
-----------------------------------------------------------------------------
(* Amounts: decimals on our side, cents on Wompi's.                        *)

Hundredths(d) == d.coef * <<100, 10, 1>>[d.exp + 1]

WholePesos(d) == [coef |-> (d.coef \div 10 ^ d.exp) * 100, exp |-> 0]
ToCents(d)    == [coef |-> Hundredths(d), exp |-> 0]
FromCents(c)  == [coef |-> c.coef, exp |-> 2]

(* Statuses: one that the map does not know says nothing yet. *)

WompiStatusMap == {"APPROVED", "DECLINED", "VOIDED", "ERROR", "PENDING"}
FakeStatusMap  == WompiStatusMap \cup {"REFUNDED"}

Status(map, raw) == IF raw \in map THEN raw ELSE "PENDING"

(* The fake transaction id is a hash of the reference. *)

FakeTxId(r) == <<"fake", r>>
-----------------------------------------------------------------------------
(* create_payment *)

WompiPayment(d) == [amount |-> d, tx |-> None,
                    url |-> [amount |-> ToCents(d), signedWith |-> held]]
FakePayment(r, d) == [amount |-> d, tx |-> FakeTxId(r),
                      url |-> [amount |-> None, signedWith |-> None]]

CreatePayment(r, d) ==
    /\ payments[r] = None
    /\ payments' = [payments EXCEPT
                      ![r] = IF provider = "wompi" THEN WompiPayment(d) ELSE FakePayment(r, d)]
    /\ UNCHANGED <<provider, reported, secret, held, wire, accepted, answered, altered, faults>>
-----------------------------------------------------------------------------
(* verify_and_parse_webhook, a function of the delivery and of the secret  *)
(* that the process holds.                                                 *)

\* `or ""` drops a zero and what is missing.  An id, a reference or a status is
\* one symbol, a number its digits.
Symbol(x) == IF x = None THEN <<>> ELSE <<x>>
Number(n) == IF n \in {None, 0} THEN <<>> ELSE Digits(n)

\* _dig
Shown(body, property) ==
    CASE property = "id"        -> Symbol(body.tx)
      [] property = "status"    -> Symbol(body.raw)
      [] property = "reference" -> Symbol(body.ref)
      [] property = "amount"    -> IF body.amount = None THEN <<>> ELSE Number(body.amount.coef)
      [] OTHER                  -> <<>>

\* The values that the event itself lists, then its timestamp, without
\* separators; the secret, which comes last, is kept apart.
Text(body) == Shown(body, body.properties[1]) \o Shown(body, body.properties[2])
              \o Shown(body, body.properties[3]) \o Number(body.timestamp)
Checksum(body, key) == [text |-> Text(body), key |-> key]

\* A checksum or list that is missing is None.
WompiAcceptsUnchecked(m) == m.readable /\ m.signature # None /\ m.body.tx # None
WompiAccepts(m) == /\ m.readable
                   /\ m.signature # None
                   /\ m.signature = Checksum(m.body, held)
                   /\ m.body.tx # None

WompiEvent(body) ==
    [reference |-> body.ref,
     tx        |-> body.tx,
     status    |-> Status(WompiStatusMap, body.raw),
     amount    |-> IF body.amount = None THEN None ELSE FromCents(body.amount)]

FakeAccepts(m) == /\ m.signature = <<held>>
                  /\ m.readable
                  /\ m.body.tx # None \/ m.body.ref # None

FakeEvent(body) ==
    [reference |-> body.ref,
     tx        |-> IF body.tx = None THEN FakeTxId(body.ref) ELSE body.tx,
     status    |-> IF body.raw = None THEN "APPROVED" ELSE Status(FakeStatusMap, body.raw),
     amount    |-> body.amount]

Accepts(m) == IF provider = "wompi" THEN WompiAccepts(m) ELSE FakeAccepts(m)
ParsedEvent(body) == IF provider = "wompi" THEN WompiEvent(body) ELSE FakeEvent(body)

\* Wompi's checksum vouches for its transactions: their ids and statuses.
Vouched(n) == provider = "wompi" /\ n.tx # None

\* What a delivery of n does not bind: the reference, the timestamp and the list
\* of what is signed; of other events, and for the fake provider, the whole body.
Unbound(n, body) == IF Vouched(n) THEN <<body.ref, body.timestamp, body.properties>> ELSE body

\* The webhook endpoint: 200 for an event that process_webhook went on with;
\* 422 (InvalidWebhookError) for the rest, which changes nothing.
ReceiveAnsweringAll(m) ==
    /\ m \in wire
    /\ wire' = wire \ {m}
    /\ accepted' = accepted \cup {ParsedEvent(b) : b \in {x \in {m.body} : Accepts(m)}}
    /\ answered' = answered \cup {m.of}
    /\ UNCHANGED <<provider, payments, reported, secret, held, altered, faults>>
Receive(m) ==
    /\ m \in wire
    /\ wire' = wire \ {m}
    /\ \/ /\ Accepts(m)
          /\ accepted' = accepted \cup {ParsedEvent(m.body)}
          /\ answered' = answered \cup {m.of}
          /\ altered' = altered \cup {n \in {m.of} : Unbound(n, m.body) # Unbound(n, n)}
       \/ /\ ~Accepts(m)
          /\ UNCHANGED <<accepted, answered, altered>>
    /\ UNCHANGED <<provider, payments, reported, secret, held, faults>>

\* The process starts again and reads its settings.
RestartKeepingSettings == held # secret /\ UNCHANGED vars
Restart ==
    /\ held # secret
    /\ held' = secret
    /\ UNCHANGED <<provider, payments, reported, secret, wire, accepted, answered, altered, faults>>
-----------------------------------------------------------------------------
(* The providers (external). A notice is the body of a webhook.            *)

Cents   == {ToCents(d) : d \in Prices}
Numbers == {c.coef : c \in Cents} \cup Timestamps

ASSUME DigitsAssumption ==
    \A n \in Numbers \ {0} :
        /\ Digits(n) \in Seq(Digit) \ {<<>>}
        /\ \A k \in Numbers \ {0} : Digits(k) = Digits(n) => k = n

Body    == [tx : Transactions \cup {None}, ref : References \cup {None},
            raw : RawStatuses \cup {None}, amount : Cents \cup Prices \cup {None},
            timestamp : Timestamps, properties : PropertyLists]

\* Of a transaction Wompi signs the same three properties always; what it signs
\* of another event is that event's, and left out here.
Notice(t, r, raw, amount, now) ==
    [tx |-> t, ref |-> r, raw |-> raw, amount |-> amount, timestamp |-> now,
     properties |-> IF t = None THEN OtherSigned ELSE WompiSigned]

Report(n) ==
    /\ Cardinality(reported) < MaxReports
    /\ reported' = reported \cup {n}
    /\ UNCHANGED <<provider, payments, secret, held, wire, accepted, answered, altered, faults>>

\* REFUNDED is a status of the backend's, which _WOMPI_STATUS_MAP lacks.
WompiStatuses == RawStatuses \ {"REFUNDED"}

\* A transaction pays one reference, with the status it has at the time.
PaysOnly(t, r) == \A n \in reported : n.tx = t => n.ref = r

\* Wompi: paid at a URL whose signature is good; it charges no empty amount.
ReportPayment ==
    /\ provider = "wompi"
    /\ \E t \in Transactions, r \in References, raw \in WompiStatuses, now \in Timestamps :
          /\ payments[r] # None /\ PaysOnly(t, r)
          /\ payments[r].url.signedWith = secret
          /\ payments[r].url.amount.coef > 0
          /\ Report(Notice(t, r, raw, payments[r].url.amount, now))

\* Wompi: transactions without a reference of ours, events about other things.
ReportOther ==
    /\ provider = "wompi"
    /\ \E now \in Timestamps :
          \/ \E t \in Transactions, raw \in WompiStatuses, c \in Cents :
                /\ c.coef > 0 /\ PaysOnly(t, None)
                /\ Report(Notice(t, None, raw, c, now))
          \/ Report(Notice(None, None, None, None, now))

\* Fake: posted by hand for a payment, with as little as the code takes.
ReportByHand ==
    /\ provider = "fake"
    /\ \E r \in References, raw \in RawStatuses \cup {None}, now \in Timestamps :
          /\ payments[r] # None
          /\ \E amount \in {None, payments[r].amount} :
                Report(Notice(None, r, raw, amount, now))

Sign(n) == IF provider = "wompi" THEN Checksum(n, secret) ELSE <<secret>>

Send(n) ==
    /\ n \in reported \ answered
    /\ \A m \in wire : m.of # n
    /\ wire' = wire \cup {[of |-> n, body |-> n, signature |-> Sign(n), readable |-> TRUE]}
    /\ UNCHANGED <<provider, payments, reported, secret, held, accepted, answered, altered, faults>>

\* What may become of a delivery, the more so the oftener it is disturbed.
Damaged(m) ==
    {[m EXCEPT !.readable = FALSE], [m EXCEPT !.signature = None]}
    \cup {[m EXCEPT !.body.tx = t] : t \in Transactions \cup {None}}
    \cup {[m EXCEPT !.body.ref = r] : r \in References \cup {None}}
    \cup {[m EXCEPT !.body.raw = raw] : raw \in RawStatuses \cup {None}}
    \cup {[m EXCEPT !.body = [@ EXCEPT !.amount = x.amount, !.timestamp = x.timestamp]] :
             x \in [amount : Cents \cup {None}, timestamp : Timestamps]}
    \cup {[m EXCEPT !.body.properties = ps] : ps \in PropertyLists}

Disturb(m) ==
    /\ faults < MaxFaults
    /\ faults' = faults + 1
    /\ wire' \in {wire \ {m}} \cup {(wire \ {m}) \cup {d} : d \in Damaged(m)}
    /\ UNCHANGED <<provider, payments, reported, secret, held, accepted, answered, altered>>

\* The operators rotate the secrets of the merchant account.
Rotate ==
    /\ secret < MaxRotations
    /\ secret' = secret + 1
    /\ UNCHANGED <<provider, payments, reported, held, wire, accepted, answered, altered, faults>>
-----------------------------------------------------------------------------
Init ==
    /\ provider \in Providers
    /\ payments = [r \in References |-> None]
    /\ reported = {} /\ wire = {} /\ accepted = {} /\ answered = {} /\ altered = {}
    /\ secret = 0 /\ held = 0 /\ faults = 0

Next == \/ \E r \in References, d \in Prices : CreatePayment(r, d)
        \/ ReportPayment \/ ReportOther \/ ReportByHand
        \/ \E n \in reported : Send(n)
        \/ \E m \in wire : Receive(m) \/ Disturb(m)
        \/ Rotate \/ Restart

Spec == Init /\ [][Next]_vars

\* The notices that mean something to us: those about a transaction.
Meaningful == {n \in reported : n.tx # None \/ n.ref # None}

\* The provider repeats, for each transaction or reference, until it has its
\* 200; what is not lost arrives; whoever rotates the secrets restarts.
Subjects == Transactions \cup References
About(x) == {n \in Meaningful : x \in {n.tx, n.ref}}

Fairness ==
    /\ \A x \in Subjects : WF_vars(\E n \in About(x) : Send(n))
    /\ \A x \in Subjects : WF_vars(\E m \in wire : m.of \in About(x) /\ Receive(m))
    /\ WF_vars(Restart)

FairSpec == Spec /\ Fairness
-----------------------------------------------------------------------------
(* Properties *)

\* Every variable holds rows, notices, deliveries and counters of its type.
TypeOK ==
    /\ provider \in Providers
    /\ \A r \in References : payments[r] # None =>
          payments[r].amount \in Prices /\ payments[r].url.amount \in Cents \cup {None}
    /\ reported \subseteq Body /\ answered \subseteq reported /\ altered \subseteq answered
    /\ secret \in 0 .. MaxRotations /\ held \in 0 .. secret
    /\ \A m \in wire : m.of \in reported /\ m.body \in Body
    /\ faults \in 0 .. MaxFaults

\* A notice in our terms. What was paid for a reference of ours is the price
\* frozen in its payment, whatever cents, JSON and decimals it went through.
Meaning(n) ==
    [reference |-> n.ref,
     tx        |-> IF n.tx = None THEN payments[n.ref].tx ELSE n.tx,
     status    |-> IF n.raw = None THEN "APPROVED"
                   ELSE IF n.raw \in FakeStatusMap THEN n.raw ELSE "PENDING",
     amount    |-> IF n.amount = None THEN None
                   ELSE IF n.ref = None THEN n.amount.coef
                   ELSE Hundredths(payments[n.ref].amount)]
InHundredths(e) == [e EXCEPT !.amount = IF @ = None THEN None ELSE Hundredths(@)]

Received == {InHundredths(e) : e \in accepted}

Channel == INSTANCE EventChannel WITH
    reported <- {Meaning(n) : n \in Meaningful},
    altered  <- {Meaning(n) : n \in {x \in altered : Vouched(x)}},
    stray    <- {n \in altered : ~Vouched(n)},
    received <- Received

\* Rule 6: what process_webhook works on is what the provider said of a
\* payment, in reference, status and price, although secrets change and amounts
\* go through cents.  Of what was changed on the way transaction and status are
\* as Wompi reported them; an event that signs no transaction, and the fake
\* provider, bring one untrue event for a delivery that was changed.
ImplementsChannel == Channel!Spec

\* A 200 is a receipt: the provider never stops repeating a notice that the
\* business logic has not had, as it would after a lenient refusal.
NoNoticeIsLost ==
    \A n \in answered :
        \/ n \in Meaningful /\ Meaning(n) \in Received
        \/ n \in altered /\ (Vouched(n) => \E e \in Received : Channel!SameFact(e, Meaning(n)))

\* Notices about transactions get their 200 in the end, those refused while
\* the process held old secrets included.
EveryNoticeAnswered == \A x \in Subjects : (About(x) # {}) ~> (About(x) \subseteq answered)

\* payments.py: every authentic event is answered 200.  Not kept for an event
\* about something else than a transaction.
AuthenticNoticesAnswered == (reported # {}) ~> (reported \subseteq answered)

\* Rule 6, for deliveries that are changed on the way too.  Not kept: the
\* checksum covers what the event lists, where Wompi names no reference.
EventsAreAsReported == Received \subseteq {Meaning(n) : n \in Meaningful}

\* A pending payment can be paid at the URL that create_payment hands out
\* again.  Not kept after a rotation of the integrity secret.
UrlsStayGood ==
    \A r \in References : payments[r] # None /\ provider = "wompi" =>
        payments[r].url.signedWith = held
=============================================================================
