--------------------------- MODULE GatewayProofs ---------------------------
(***************************************************************************)
(* Theorems about Gateway, for any number of payments, transactions,       *)
(* prices, rotations and changed deliveries, whatever field they change.   *)
(* The inductive invariant says what is true of every notice and of every  *)
(* delivery on the wire.  From it, and from the symbols that texts consist *)
(* of, follows what a delivery that passes verification still says of what *)
(* was reported (AcceptedKeepsFact, AcceptedIntact).                       *)
(***************************************************************************)
EXTENDS Gateway, TLAPS

Url == [amount : Cents \cup {None}, signedWith : (0 .. MaxRotations) \cup {None}]
Payment == [amount : Prices, tx : {None} \cup {FakeTxId(r) : r \in References}, url : Url]

TypeInv ==
    /\ provider \in Providers
    /\ payments \in [References -> Payment \cup {None}]
    /\ reported \subseteq Body /\ answered \subseteq reported /\ altered \subseteq answered
    /\ secret \in 0 .. MaxRotations /\ held \in 0 .. secret
    /\ faults \in 0 .. MaxFaults

\* The terms of a payment, as the URL and the notices about it carry them.
PaymentMade(r) ==
    payments[r] # None => IF provider = "wompi"
                          THEN payments[r].url.amount = ToCents(payments[r].amount)
                          ELSE payments[r].tx = FakeTxId(r)

WompiNotice(n) ==
    \/ n.tx = None /\ n.ref = None /\ n.amount = None
    \/ /\ n.tx # None /\ n.raw \in WompiStatuses
       /\ n.amount \in Cents /\ n.amount.coef > 0 /\ n.properties = WompiSigned
       /\ n.ref # None => payments[n.ref] # None /\ n.amount = ToCents(payments[n.ref].amount)

FakeNotice(n) ==
    /\ n.tx = None /\ n.ref # None /\ payments[n.ref] # None
    /\ n.amount \in {None, payments[n.ref].amount}

Genuine(n) == IF provider = "wompi" THEN WompiNotice(n) ELSE FakeNotice(n)

\* What no change on the way brings about: Wompi's checksum is of the text of
\* the notice.
Delivery(m) ==
    /\ m = [of |-> m.of, body |-> m.body, signature |-> m.signature, readable |-> m.readable]
    /\ m.of \in reported \ answered /\ m.body \in Body
    /\ provider = "wompi" =>
          /\ m.body.amount \in Cents \cup {None}
          /\ m.signature = None \/ \E k : m.signature = [text |-> Text(m.of), key |-> k]

OnePerNotice == \A m, d \in wire : m.of = d.of => m = d

Meant   == {Meaning(n) : n \in Meaningful}
Changed == {Meaning(n) : n \in {x \in altered : Vouched(x)}}
Stray   == {n \in altered : ~Vouched(n)}

\* A step of the abstract specification, or none.
ChannelStep == [Channel!Report \/ Channel!Receive]_Channel!vars

IInv == /\ TypeInv
        /\ \A r \in References : PaymentMade(r)
        /\ \A n \in reported : Genuine(n)
        /\ \A m \in wire : Delivery(m)
        /\ OnePerNotice
        /\ NoNoticeIsLost
-----------------------------------------------------------------------------
(* Amounts *)

LEMMA CentsAreDecimals == Cents \subseteq Decimal /\ Prices \subseteq Decimal
<1> SUFFICES ASSUME NEW d \in Prices PROVE ToCents(d) \in Decimal
  BY PricesAssumption DEF Cents
<1>1. d \in Decimal /\ d.exp + 1 \in 1 .. 3
  BY PricesAssumption DEF Decimal
<1>2. <<100, 10, 1>>[d.exp + 1] \in Nat
  BY <1>1
<1>3. Hundredths(d) \in Nat
  BY <1>1, <1>2 DEF Hundredths, Decimal
<1> QED BY <1>3 DEF ToCents, Decimal

\* _to_cents and _from_cents: nothing is lost on the way to Wompi and back.
LEMMA CentsAreExact ==
    ASSUME NEW d \in Prices
    PROVE  /\ ToCents(d).coef = Hundredths(d)
           /\ Hundredths(FromCents(ToCents(d))) = Hundredths(d)
<1>1. ToCents(d) \in Decimal
  BY CentsAreDecimals DEF Cents
<1>2. ToCents(d).coef = Hundredths(d)
  BY DEF ToCents
<1>3. Hundredths(FromCents(ToCents(d))) = ToCents(d).coef * 1
  BY DEF FromCents, Hundredths
<1> QED BY <1>1, <1>2, <1>3 DEF Decimal

LEMMA ParsedCents ==
    ASSUME NEW c \in Cents
    PROVE  FromCents(c) # None /\ Hundredths(FromCents(c)) = c.coef
<1>1. c \in Decimal /\ c.coef \in Nat
  BY CentsAreDecimals DEF Decimal
<1>2. FromCents(c) \in Decimal
  BY <1>1 DEF FromCents, Decimal
<1>3. Hundredths(FromCents(c)) = c.coef * 1
  BY DEF FromCents, Hundredths
<1> QED BY <1>1, <1>2, <1>3, NoneAssumption
-----------------------------------------------------------------------------
(* Texts *)

Alphabet == Transactions \cup References \cup RawStatuses \cup Digit
Symbols(s) == {s[i] : i \in 1 .. Len(s)}

LEMMA SymbolsOfConcat ==
    ASSUME NEW S, NEW s \in Seq(S), NEW t \in Seq(S)
    PROVE  s \o t \in Seq(S) /\ Symbols(s \o t) = Symbols(s) \cup Symbols(t)
<1>1. s \o t \in Seq(S) /\ Len(s \o t) = Len(s) + Len(t)
  OBVIOUS
<1>2. ASSUME NEW x \in Symbols(s \o t) PROVE x \in Symbols(s) \cup Symbols(t)
  <2>1. PICK i \in 1 .. Len(s) + Len(t) : x = (s \o t)[i]
    BY <1>1, <1>2 DEF Symbols
  <2>2. CASE i <= Len(s)
    BY <2>1, <2>2 DEF Symbols
  <2>3. CASE i > Len(s)
    <3>1. x = t[i - Len(s)] /\ i - Len(s) \in 1 .. Len(t)
      BY <2>1, <2>3
    <3> QED BY <3>1 DEF Symbols
  <2> QED BY <2>1, <2>2, <2>3
<1>3. ASSUME NEW x \in Symbols(s) PROVE x \in Symbols(s \o t)
  <2>1. PICK i \in 1 .. Len(s) : x = s[i]
    BY <1>3 DEF Symbols
  <2>2. x = (s \o t)[i] /\ i \in 1 .. Len(s \o t)
    BY <1>1, <2>1
  <2> QED BY <2>2 DEF Symbols
<1>4. ASSUME NEW x \in Symbols(t) PROVE x \in Symbols(s \o t)
  <2>1. PICK i \in 1 .. Len(t) : x = t[i]
    BY <1>4 DEF Symbols
  <2>2. x = (s \o t)[Len(s) + i] /\ Len(s) + i \in 1 .. Len(s \o t)
    BY <1>1, <2>1
  <2> QED BY <2>2 DEF Symbols
<1> QED BY <1>1, <1>2, <1>3, <1>4

LEMMA SymbolsOfText ==
    ASSUME NEW S, NEW a \in Seq(S), NEW b \in Seq(S), NEW c \in Seq(S), NEW d \in Seq(S)
    PROVE  Symbols(a \o b \o c \o d) = Symbols(a) \cup Symbols(b) \cup Symbols(c) \cup Symbols(d)
<1>1. PICK x : x = a \o b
  OBVIOUS
<1>2. x \in Seq(S) /\ Symbols(x) = Symbols(a) \cup Symbols(b)
  BY <1>1, SymbolsOfConcat
<1>3. PICK y : y = x \o c
  OBVIOUS
<1>4. y \in Seq(S) /\ Symbols(y) = Symbols(x) \cup Symbols(c)
  BY <1>2, <1>3, SymbolsOfConcat
<1>5. Symbols(y \o d) = Symbols(y) \cup Symbols(d)
  BY <1>4, SymbolsOfConcat
<1> QED BY <1>1, <1>2, <1>3, <1>4, <1>5

\* Where a text has the same beginning and end, what is between is the same.
LEMMA MiddleIsSame ==
    ASSUME NEW S, NEW x \in S, NEW y \in S, NEW a \in Seq(S), NEW b \in Seq(S), NEW z \in Seq(S),
           <<x>> \o <<y>> \o a \o z = <<x>> \o <<y>> \o b \o z
    PROVE  a = b
<1> DEFINE text(c) == <<x>> \o <<y>> \o c \o z
<1>1. ASSUME NEW c \in Seq(S)
      PROVE  /\ Len(text(c)) = 2 + Len(c) + Len(z)
             /\ \A i \in 1 .. Len(c) : text(c)[2 + i] = c[i]
  OBVIOUS
<1>2. text(a) = text(b)
  OBVIOUS
<1> HIDE DEF text
<1>3. Len(a) = Len(b)
  BY <1>1, <1>2
<1>4. \A i \in 1 .. Len(a) : a[i] = b[i]
  BY <1>1, <1>2, <1>3
<1> QED BY <1>3, <1>4

\* Bodies of Wompi's events have their amount in cents.
WompiBody == {b \in Body : b.amount \in Cents \cup {None}}

LEMMA NumbersAreNumbers == \A c \in Cents : c.coef \in Nat /\ c.coef \in Numbers
BY CentsAreDecimals DEF Numbers, Decimal

LEMMA WrittenNumbers ==
    ASSUME NEW n \in Numbers \cup {None}
    PROVE  Number(n) \in Seq(Digit) /\ Symbols(Number(n)) \subseteq Digit
<1>1. Number(n) \in Seq(Digit)
  BY DigitsAssumption DEF Number
<1> QED BY <1>1 DEF Symbols

\* Whatever is listed, only the id of a transaction reads like one, and only
\* its status like a status.
LEMMA ShownSymbols ==
    ASSUME NEW b \in WompiBody, NEW p \in Property
    PROVE  /\ Shown(b, p) \in Seq(Alphabet)
           /\ Symbols(Shown(b, p)) \cap Transactions \subseteq {b.tx}
           /\ Symbols(Shown(b, p)) \cap RawStatuses \subseteq {b.raw}
<1>1. b \in Body /\ b.amount \in Cents \cup {None}
  BY DEF WompiBody
<1>2. b.tx \in Transactions \cup {None} /\ b.ref \in References \cup {None}
      /\ b.raw \in RawStatuses \cup {None}
  BY <1>1 DEF Body
<1>3. ASSUME NEW x \in Alphabet \cup {None}
      PROVE  Symbol(x) \in Seq(Alphabet) /\ Symbols(Symbol(x)) \subseteq {x}
  BY DEF Symbol, Symbols
<1>4. CASE p = "id"
  BY <1>2, <1>3, <1>4, TextAssumption, NoneAssumption DEF Shown, Alphabet
<1>5. CASE p = "status"
  BY <1>2, <1>3, <1>5, TextAssumption, NoneAssumption DEF Shown, Alphabet
<1>6. CASE p = "reference"
  BY <1>2, <1>3, <1>6, TextAssumption, NoneAssumption DEF Shown, Alphabet
<1>7. CASE p = "amount"
  <2>1. Shown(b, p) = IF b.amount = None THEN <<>> ELSE Number(b.amount.coef)
    BY <1>7 DEF Shown
  <2>2. Shown(b, p) \in Seq(Digit) /\ Symbols(Shown(b, p)) \subseteq Digit
    BY <1>1, <2>1, NumbersAreNumbers, WrittenNumbers DEF Symbols
  <2> QED BY <2>2, TextAssumption DEF Alphabet
<1>8. CASE p = "unknown"
  BY <1>8 DEF Shown, Symbols
<1> QED BY <1>4, <1>5, <1>6, <1>7, <1>8 DEF Property

LEMMA TextSymbols ==
    ASSUME NEW b \in WompiBody
    PROVE  /\ Symbols(Text(b)) \cap Transactions \subseteq {b.tx}
           /\ Symbols(Text(b)) \cap RawStatuses \subseteq {b.raw}
           /\ b.properties = WompiSigned =>
                 /\ b.tx # None => b.tx \in Symbols(Text(b))
                 /\ b.raw # None => b.raw \in Symbols(Text(b))
<1> DEFINE s(i) == Shown(b, b.properties[i])
           time == Number(b.timestamp)
<1>1. b.properties \in [1 .. 3 -> Property] /\ b.timestamp \in Numbers
  BY TextAssumption DEF WompiBody, Body, Numbers
<1>2. b.properties[1] \in Property /\ b.properties[2] \in Property /\ b.properties[3] \in Property
  BY <1>1
<1>3. s(1) \in Seq(Alphabet) /\ s(2) \in Seq(Alphabet) /\ s(3) \in Seq(Alphabet)
  BY <1>2, ShownSymbols
<1>4. time \in Seq(Alphabet) /\ Symbols(time) \subseteq Digit
  BY <1>1, WrittenNumbers DEF Alphabet
<1>5. b.properties = WompiSigned => s(1) = Symbol(b.tx) /\ s(2) = Symbol(b.raw)
  BY DEF WompiSigned, Shown
<1>6. /\ Symbols(s(1)) \cap Transactions \subseteq {b.tx} /\ Symbols(s(1)) \cap RawStatuses \subseteq {b.raw}
      /\ Symbols(s(2)) \cap Transactions \subseteq {b.tx} /\ Symbols(s(2)) \cap RawStatuses \subseteq {b.raw}
      /\ Symbols(s(3)) \cap Transactions \subseteq {b.tx} /\ Symbols(s(3)) \cap RawStatuses \subseteq {b.raw}
  BY <1>2, ShownSymbols
<1>7. Text(b) = s(1) \o s(2) \o s(3) \o time
  BY DEF Text
<1> HIDE DEF s, time
<1>8. Symbols(Text(b)) = Symbols(s(1)) \cup Symbols(s(2)) \cup Symbols(s(3)) \cup Symbols(time)
  BY <1>3, <1>4, <1>7, SymbolsOfText
<1>9. \A x : x # None => x \in Symbols(Symbol(x))
  <2> SUFFICES ASSUME NEW x, x # None PROVE x \in Symbols(<<x>>)
    BY DEF Symbol
  <2>1. Len(<<x>>) = 1 /\ <<x>>[1] = x
    OBVIOUS
  <2> QED BY <2>1 DEF Symbols
<1> QED BY <1>4, <1>5, <1>6, <1>8, <1>9, TextAssumption
-----------------------------------------------------------------------------
(* Verification and parsing *)

\* What Wompi's checksum lets pass of a transaction has its id and its status.
LEMMA ChecksumBindsFact ==
    ASSUME IInv, provider = "wompi", NEW m \in wire, WompiAccepts(m), m.of.tx # None
    PROVE  /\ m.body \in WompiBody /\ m.of \in WompiBody /\ Text(m.body) = Text(m.of)
           /\ m.body.tx = m.of.tx /\ m.body.raw = m.of.raw
<1>1. Delivery(m) /\ m.of \in reported /\ m.of \in Body
  BY DEF IInv, TypeInv, Delivery
<1>2. WompiNotice(m.of)
  BY <1>1 DEF IInv, Genuine
<1>3. m.body \in WompiBody /\ m.of \in WompiBody
  BY <1>1, <1>2 DEF Delivery, WompiNotice, WompiBody
<1>4. PICK k : m.signature = [text |-> Text(m.of), key |-> k]
  BY <1>1 DEF Delivery, WompiAccepts
<1>5. [text |-> Text(m.of), key |-> k] = [text |-> Text(m.body), key |-> held]
  BY <1>4 DEF WompiAccepts, Checksum
<1>6. Text(m.body) = Text(m.of)
  BY <1>5
<1>7. m.of.tx \in Transactions /\ m.of.raw \in RawStatuses /\ m.of.raw # None
      /\ m.of.properties = WompiSigned
  BY <1>1, <1>2, NoneAssumption DEF WompiNotice, WompiStatuses, Body
<1>8. m.of.tx \in Symbols(Text(m.body)) /\ m.of.raw \in Symbols(Text(m.body))
  BY <1>3, <1>6, <1>7, TextSymbols
<1> QED BY <1>3, <1>6, <1>7, <1>8, TextSymbols

\* And if nothing was changed that it does not bind, it is what was reported.
LEMMA ChecksumCoversAmount ==
    ASSUME IInv, provider = "wompi", NEW m \in wire, WompiAccepts(m), m.of.tx # None,
           Unbound(m.of, m.body) = Unbound(m.of, m.of)
    PROVE  m.body = m.of
<1>1. /\ m.body \in WompiBody /\ m.of \in WompiBody /\ Text(m.body) = Text(m.of)
      /\ m.body.tx = m.of.tx /\ m.body.raw = m.of.raw
  BY ChecksumBindsFact
<1>2. m.of \in reported /\ m.of \in Body /\ m.body \in Body
  BY DEF IInv, TypeInv, Delivery
<1>3. WompiNotice(m.of)
  BY <1>2 DEF IInv, Genuine
<1>4. m.body.ref = m.of.ref /\ m.body.timestamp = m.of.timestamp
      /\ m.body.properties = WompiSigned /\ m.of.properties = WompiSigned
  BY <1>3 DEF Unbound, Vouched, WompiNotice
<1> DEFINE sum(b) == Shown(b, "amount")
<1>5. sum(m.body) \in Seq(Alphabet) /\ sum(m.of) \in Seq(Alphabet)
  BY <1>1, ShownSymbols DEF Property
<1>6. m.of.tx \in Alphabet /\ m.of.raw \in Alphabet /\ m.of.raw # None
  BY <1>2, <1>3, NoneAssumption DEF WompiNotice, WompiStatuses, Body, Alphabet
<1>7. Number(m.of.timestamp) \in Seq(Alphabet)
  BY <1>2, WrittenNumbers DEF Body, Numbers, Alphabet
<1>8. ASSUME NEW b, b.properties = WompiSigned, b.tx # None, b.raw # None
      PROVE  Text(b) = <<b.tx>> \o <<b.raw>> \o sum(b) \o Number(b.timestamp)
  <2>1. b.properties[1] = "id" /\ b.properties[2] = "status" /\ b.properties[3] = "amount"
    BY <1>8 DEF WompiSigned
  <2>2. Shown(b, "id") = <<b.tx>> /\ Shown(b, "status") = <<b.raw>>
    BY <1>8 DEF Shown, Symbol
  <2> QED BY <2>1, <2>2 DEF Text
<1>9. sum(m.body) = sum(m.of)
  <2>1. Text(m.of) = <<m.of.tx>> \o <<m.of.raw>> \o sum(m.of) \o Number(m.of.timestamp)
    BY <1>4, <1>6, <1>8
  <2>2. Text(m.body) = <<m.of.tx>> \o <<m.of.raw>> \o sum(m.body) \o Number(m.of.timestamp)
    BY <1>1, <1>4, <1>6, <1>8
  <2>3. PICK x, y, z : x = sum(m.of) /\ y = sum(m.body) /\ z = Number(m.of.timestamp)
    OBVIOUS
  <2> HIDE DEF sum
  <2>4. <<m.of.tx>> \o <<m.of.raw>> \o x \o z = <<m.of.tx>> \o <<m.of.raw>> \o y \o z
    BY <1>1, <2>1, <2>2, <2>3
  <2>5. x \in Seq(Alphabet) /\ y \in Seq(Alphabet) /\ z \in Seq(Alphabet)
    BY <1>5, <1>7, <2>3
  <2>6. x = y
    BY <1>6, <2>4, <2>5, MiddleIsSame
  <2> QED BY <2>3, <2>6
<1>10. m.body.amount = m.of.amount
  <2>1. m.of.amount \in Cents /\ m.of.amount # None /\ m.of.amount.coef \in Numbers \ {0}
        /\ m.of.amount.coef # None
    BY <1>3, NumbersAreNumbers, CentsAreDecimals, NoneAssumption DEF WompiNotice
  <2>2. sum(m.of) = Digits(m.of.amount.coef) /\ sum(m.of) # <<>>
    BY <2>1, DigitsAssumption DEF Shown, Number
  <2>3. m.body.amount \in Cents /\ m.body.amount.coef \in Numbers \ {0}
        /\ sum(m.body) = Digits(m.body.amount.coef)
    BY <1>1, <1>9, <2>2, NumbersAreNumbers DEF Shown, Number, WompiBody
  <2>4. m.body.amount.coef = m.of.amount.coef
    BY <1>9, <2>1, <2>2, <2>3, DigitsAssumption
  <2>5. \A c \in Cents : c = [coef |-> c.coef, exp |-> 0]
    BY DEF Cents, ToCents
  <2> QED BY <2>1, <2>3, <2>4, <2>5
<1> QED BY <1>1, <1>2, <1>4, <1>10 DEF Body

LEMMA WompiMeansReported ==
    ASSUME IInv, provider = "wompi", NEW n \in reported, n.tx # None
    PROVE  InHundredths(WompiEvent(n)) = Meaning(n)
<1>1. n \in Body /\ WompiNotice(n)
  BY DEF IInv, TypeInv, Genuine
<1>2. n.amount \in Cents /\ n.amount # None /\ n.raw \in WompiStatuses /\ n.raw # None
  BY <1>1, CentsAreDecimals, NoneAssumption DEF WompiNotice, WompiStatuses
<1>3. Status(WompiStatusMap, n.raw) = IF n.raw \in FakeStatusMap THEN n.raw ELSE "PENDING"
  BY <1>2 DEF Status, WompiStatusMap, FakeStatusMap, WompiStatuses
<1>4. Hundredths(FromCents(n.amount)) = IF n.ref = None THEN n.amount.coef
                                        ELSE Hundredths(payments[n.ref].amount)
  <2>1. CASE n.ref = None
    BY <1>2, <2>1, ParsedCents
  <2>2. CASE n.ref # None
    <3>1. n.ref \in References /\ payments[n.ref] # None
          /\ n.amount = ToCents(payments[n.ref].amount)
      BY <1>1, <2>2 DEF Body, WompiNotice
    <3>2. payments[n.ref].amount \in Prices
      BY <3>1 DEF IInv, TypeInv, Payment
    <3> QED BY <2>2, <3>1, <3>2, CentsAreExact
  <2> QED BY <2>1, <2>2
<1>5. FromCents(n.amount) # None
  BY <1>2, ParsedCents
<1>6. InHundredths(WompiEvent(n)) =
        [reference |-> n.ref, tx |-> n.tx, status |-> Status(WompiStatusMap, n.raw),
         amount |-> Hundredths(FromCents(n.amount))]
  BY <1>2, <1>5 DEF InHundredths, WompiEvent
<1> QED BY <1>2, <1>3, <1>4, <1>6 DEF Meaning

LEMMA FakeMeansReported ==
    ASSUME IInv, provider # "wompi", NEW n \in reported
    PROVE  InHundredths(FakeEvent(n)) = Meaning(n)
<1>1. n \in Body /\ FakeNotice(n)
  BY DEF IInv, TypeInv, Genuine
<1>2. n.ref \in References /\ n.ref # None /\ payments[n.ref] \in Payment /\ n.tx = None
  BY <1>1 DEF FakeNotice, Body, IInv, TypeInv
<1>3. payments[n.ref].tx = FakeTxId(n.ref)
  BY <1>1, <1>2 DEF IInv, PaymentMade, FakeNotice
<1>4. n.amount \in {None, payments[n.ref].amount}
  BY <1>1 DEF FakeNotice
<1>5. InHundredths(FakeEvent(n)) =
        [reference |-> n.ref, tx |-> FakeTxId(n.ref),
         status |-> IF n.raw = None THEN "APPROVED" ELSE Status(FakeStatusMap, n.raw),
         amount |-> IF n.amount = None THEN None ELSE Hundredths(n.amount)]
  BY <1>2 DEF InHundredths, FakeEvent
<1> QED BY <1>2, <1>3, <1>4, <1>5 DEF Meaning, Status

\* What passes the verification of either provider, and was not changed where
\* that binds nothing, says what was reported.
LEMMA AcceptedIntact ==
    ASSUME IInv, NEW m \in wire, Accepts(m), Unbound(m.of, m.body) = Unbound(m.of, m.of)
    PROVE  m.of \in Meaningful /\ InHundredths(ParsedEvent(m.body)) = Meaning(m.of)
<1>1. m.of \in reported /\ Genuine(m.of)
  BY DEF IInv, Delivery
<1>2. CASE provider = "wompi" /\ m.of.tx # None
  BY <1>1, <1>2, ChecksumCoversAmount, WompiMeansReported DEF Accepts, ParsedEvent, Meaningful
<1>3. CASE provider = "wompi" /\ m.of.tx = None
  BY <1>3 DEF Unbound, Vouched, Accepts, WompiAccepts
<1>4. CASE provider # "wompi"
  <2>1. m.body = m.of /\ FakeNotice(m.of)
    BY <1>1, <1>4 DEF Unbound, Vouched, Genuine
  <2> QED BY <1>1, <1>4, <2>1, FakeMeansReported DEF ParsedEvent, Meaningful, FakeNotice
<1> QED BY <1>2, <1>3, <1>4

\* Whatever was changed, Wompi's transactions keep their status.
LEMMA AcceptedKeepsFact ==
    ASSUME IInv, NEW m \in wire, Accepts(m), Vouched(m.of)
    PROVE  m.of \in Meaningful
           /\ Channel!SameFact(InHundredths(ParsedEvent(m.body)), Meaning(m.of))
<1>1. provider = "wompi" /\ WompiAccepts(m) /\ m.of.tx # None /\ m.of \in reported
  BY DEF Vouched, Accepts, IInv, Delivery
<1>2. m.body.tx = m.of.tx /\ m.body.raw = m.of.raw
  BY <1>1, ChecksumBindsFact
<1>3. InHundredths(WompiEvent(m.of)) = Meaning(m.of)
  BY <1>1, WompiMeansReported
<1>4. \A b : InHundredths(WompiEvent(b)).tx = b.tx
             /\ InHundredths(WompiEvent(b)).status = Status(WompiStatusMap, b.raw)
  BY DEF InHundredths, WompiEvent
<1>5. InHundredths(WompiEvent(m.body)).tx = InHundredths(WompiEvent(m.of)).tx
      /\ InHundredths(WompiEvent(m.body)).status = InHundredths(WompiEvent(m.of)).status
  BY <1>2, <1>4
<1> QED BY <1>1, <1>3, <1>5 DEF ParsedEvent, Channel!SameFact, Meaningful
-----------------------------------------------------------------------------
(* What a step leaves as it was *)

\* Payments are only added, so notices keep their meaning.
PaymentsStay == /\ provider' = provider
                /\ \A r \in References : payments[r] # None => payments'[r] = payments[r]

LEMMA NoticesStay ==
    ASSUME IInv, PaymentsStay, NEW n \in reported
    PROVE  Genuine(n)' /\ (n \in Meaningful => Meaning(n)' = Meaning(n))
<1>1. n \in Body /\ Genuine(n)
  BY DEF IInv, TypeInv
<1>2. n.ref # None /\ n.ref \in References /\ payments[n.ref] # None
      => payments'[n.ref] = payments[n.ref]
  BY DEF PaymentsStay
<1>3. n.ref # None => n.ref \in References /\ payments[n.ref] # None
  BY <1>1 DEF Body, Genuine, WompiNotice, FakeNotice
<1>4. Genuine(n)'
  BY <1>1, <1>2, <1>3 DEF Genuine, WompiNotice, FakeNotice, PaymentsStay
<1>5. n \in Meaningful => Meaning(n)' = Meaning(n)
  BY <1>2, <1>3 DEF Meaning, Meaningful
<1> QED BY <1>4, <1>5

LEMMA ChangesStay ==
    ASSUME IInv, PaymentsStay, altered' = altered
    PROVE  Changed' = Changed /\ Stray' = Stray
<1>1. \A n : Vouched(n)' = Vouched(n)
  BY DEF Vouched, PaymentsStay
<1>2. ASSUME NEW n \in altered, Vouched(n) PROVE Meaning(n)' = Meaning(n)
  <2>1. n \in reported /\ n \in Meaningful
    BY <1>2 DEF IInv, TypeInv, Vouched, Meaningful
  <2> QED BY <2>1, NoticesStay
<1> QED BY <1>1, <1>2 DEF Changed, Stray

\* Steps that neither answer nor accept anything.
LEMMA QuietStep ==
    ASSUME IInv, PaymentsStay, TypeInv', \A r \in References : PaymentMade(r)',
           reported \subseteq reported', \A n \in reported' \ reported : Genuine(n)',
           \A m \in wire' : Delivery(m)', OnePerNotice',
           UNCHANGED <<accepted, answered, altered>>
    PROVE  IInv' /\ ChannelStep
<1>1. \A n \in reported' : Genuine(n)'
  BY NoticesStay
<1>2. Meaningful \subseteq Meaningful'
  BY DEF Meaningful
<1>3. Meant \subseteq Meant'
  <2> SUFFICES ASSUME NEW n \in Meaningful PROVE Meaning(n) \in Meant'
    BY DEF Meant
  <2>1. n \in reported
    BY DEF Meaningful
  <2> QED BY <1>2, <2>1, NoticesStay DEF Meant
<1>4. Received' = Received
  BY DEF Received
<1>5. NoNoticeIsLost'
  <2> SUFFICES ASSUME NEW n \in answered
               PROVE  \/ n \in Meaningful' /\ Meaning(n)' \in Received'
                      \/ /\ n \in altered'
                         /\ Vouched(n)' => \E e \in Received' : Channel!SameFact(e, Meaning(n)')
    BY DEF NoNoticeIsLost, Channel!SameFact
  <2>1. n \in reported /\ (n \in Meaningful => Meaning(n)' = Meaning(n))
    BY NoticesStay DEF IInv, TypeInv
  <2>2. \/ n \in Meaningful /\ Meaning(n) \in Received
        \/ /\ n \in altered
           /\ Vouched(n) => \E e \in Received : Channel!SameFact(e, Meaning(n))
    BY DEF IInv, NoNoticeIsLost
  <2>3. Vouched(n)' = Vouched(n) /\ (Vouched(n) => n \in Meaningful)
    BY <2>1 DEF Vouched, PaymentsStay, Meaningful
  <2> QED BY <1>2, <1>4, <2>1, <2>2, <2>3
<1>6. IInv'
  BY <1>1, <1>5 DEF IInv
<1>7. Channel!Report
  BY <1>3, <1>4, ChangesStay DEF Channel!Report, Meant, Received, Changed, Stray
<1> QED BY <1>6, <1>7 DEF ChannelStep
-----------------------------------------------------------------------------
(* The actions *)

LEMMA CreatePaymentKeeps ==
    ASSUME IInv, NEW r \in References, NEW d \in Prices, CreatePayment(r, d)
    PROVE  IInv' /\ ChannelStep
<1> DEFINE payment == IF provider = "wompi" THEN WompiPayment(d) ELSE FakePayment(r, d)
<1>1. /\ payments[r] = None /\ payments' = [payments EXCEPT ![r] = payment]
      /\ UNCHANGED <<provider, reported, secret, held, wire, accepted, answered, altered, faults>>
  BY DEF CreatePayment
<1>2. payment \in Payment
  <2>1. held \in 0 .. MaxRotations
    BY BoundsAssumption DEF IInv, TypeInv
  <2> QED BY <2>1 DEF WompiPayment, FakePayment, Payment, Url, Cents
<1>3. IF provider = "wompi" THEN payment.url.amount = ToCents(payment.amount)
                            ELSE payment.tx = FakeTxId(r)
  BY DEF WompiPayment, FakePayment
<1> HIDE DEF payment
<1>4. /\ payments' \in [References -> Payment \cup {None}]
      /\ payments'[r] = payment
      /\ \A x \in References \ {r} : payments'[x] = payments[x]
  BY <1>1, <1>2 DEF IInv, TypeInv
<1>5. PaymentsStay /\ TypeInv' /\ \A x \in References : PaymentMade(x)'
  BY <1>1, <1>3, <1>4 DEF IInv, TypeInv, PaymentsStay, PaymentMade
<1>6. (\A m \in wire' : Delivery(m)') /\ OnePerNotice'
  BY <1>1 DEF IInv, Delivery, OnePerNotice
<1> QED BY <1>1, <1>5, <1>6, QuietStep

\* Whatever the provider reports is genuine at that time.
LEMMA ReportKeeps ==
    ASSUME IInv, NEW n \in Body, Genuine(n), Report(n) PROVE IInv' /\ ChannelStep
<1>1. /\ reported' = reported \cup {n}
      /\ UNCHANGED <<provider, payments, secret, held, wire, accepted, answered, altered, faults>>
  BY DEF Report
<1>2. PaymentsStay /\ TypeInv' /\ \A r \in References : PaymentMade(r)'
  BY <1>1 DEF IInv, TypeInv, PaymentsStay, PaymentMade
<1>3. Genuine(n)'
  BY <1>1 DEF Genuine, WompiNotice, FakeNotice
<1>4. (\A m \in wire' : Delivery(m)') /\ OnePerNotice'
  BY <1>1 DEF IInv, Delivery, OnePerNotice
<1> QED BY <1>1, <1>2, <1>3, <1>4, QuietStep

LEMMA ReportsAreGenuine ==
    ASSUME IInv, ReportPayment \/ ReportOther \/ ReportByHand PROVE IInv' /\ ChannelStep
<1>0. ASSUME NEW t \in Transactions \cup {None}, NEW r \in References \cup {None},
             NEW raw \in RawStatuses \cup {None}, NEW amount \in Cents \cup Prices \cup {None},
             NEW now \in Timestamps
      PROVE  LET n == Notice(t, r, raw, amount, now)
             IN  /\ n \in Body /\ n.tx = t /\ n.ref = r /\ n.raw = raw /\ n.amount = amount
                 /\ t # None => n.properties = WompiSigned
  BY TextAssumption DEF Notice, Body
<1>1. CASE ReportPayment
  <2>1. PICK t \in Transactions, r \in References, raw \in WompiStatuses, now \in Timestamps :
           /\ payments[r] # None /\ payments[r].url.amount.coef > 0
           /\ Report(Notice(t, r, raw, payments[r].url.amount, now))
    BY <1>1 DEF ReportPayment
  <2> DEFINE n == Notice(t, r, raw, payments[r].url.amount, now)
  <2>2. payments[r].amount \in Prices /\ payments[r].url.amount = ToCents(payments[r].amount)
    BY <1>1, <2>1 DEF ReportPayment, IInv, TypeInv, Payment, PaymentMade
  <2>3. payments[r].url.amount \in Cents /\ raw \in RawStatuses
    BY <2>2 DEF Cents, WompiStatuses
  <2>4. /\ n \in Body /\ n.tx = t /\ n.ref = r /\ n.raw = raw /\ n.amount = payments[r].url.amount
        /\ t # None => n.properties = WompiSigned
    BY <2>3, <1>0
  <2> HIDE DEF n
  <2>5. Genuine(n)
    BY <1>1, <2>1, <2>2, <2>3, <2>4, NoneAssumption DEF ReportPayment, Genuine, WompiNotice
  <2>6. Report(n)
    BY <2>1 DEF n
  <2> QED BY <2>4, <2>5, <2>6, ReportKeeps
<1>2. CASE ReportOther
  <2>1. PICK n \in Body : Report(n) /\ WompiNotice(n)
    <3>1. ASSUME NEW now \in Timestamps, NEW t \in Transactions, NEW raw \in WompiStatuses,
                 NEW c \in Cents, c.coef > 0, Report(Notice(t, None, raw, c, now))
          PROVE  \E n \in Body : Report(n) /\ WompiNotice(n)
      <4> DEFINE n == Notice(t, None, raw, c, now)
      <4>1. /\ n \in Body /\ n.tx = t /\ n.ref = None /\ n.raw = raw /\ n.amount = c
            /\ t # None => n.properties = WompiSigned
        <5>1. /\ t \in Transactions \cup {None} /\ None \in References \cup {None}
              /\ raw \in RawStatuses \cup {None} /\ c \in Cents \cup Prices \cup {None}
          BY DEF WompiStatuses
        <5> QED BY <5>1, <1>0
      <4> HIDE DEF n
      <4>2. WompiNotice(n)
        BY <3>1, <4>1, NoneAssumption DEF WompiNotice
      <4>3. Report(n)
        BY <3>1 DEF n
      <4> QED BY <4>1, <4>2, <4>3
    <3>2. ASSUME NEW now \in Timestamps, Report(Notice(None, None, None, None, now))
          PROVE  \E n \in Body : Report(n) /\ WompiNotice(n)
      <4> DEFINE n == Notice(None, None, None, None, now)
      <4>1. n \in Body /\ n.tx = None /\ n.ref = None /\ n.amount = None
        BY <1>0
      <4> HIDE DEF n
      <4>2. Report(n) /\ WompiNotice(n)
        BY <3>2, <4>1 DEF n, WompiNotice
      <4> QED BY <4>1, <4>2
    <3> QED BY <1>2, <3>1, <3>2 DEF ReportOther
  <2> QED BY <1>2, <2>1, ReportKeeps DEF ReportOther, Genuine
<1>3. CASE ReportByHand
  <2>0. PICK r \in References, raw \in RawStatuses \cup {None}, now \in Timestamps :
           /\ payments[r] # None
           /\ \E amount \in {None, payments[r].amount} : Report(Notice(None, r, raw, amount, now))
    BY <1>3 DEF ReportByHand
  <2>1. PICK amount \in {None, payments[r].amount} : Report(Notice(None, r, raw, amount, now))
    BY <2>0
  <2> DEFINE n == Notice(None, r, raw, amount, now)
  <2>2. payments[r].amount \in Prices
    BY <2>0 DEF IInv, TypeInv, Payment
  <2>3. n \in Body /\ n.tx = None /\ n.ref = r /\ n.amount = amount
    <3>1. /\ None \in Transactions \cup {None} /\ r \in References \cup {None}
          /\ amount \in Cents \cup Prices \cup {None}
      BY <2>2
    <3>2. n.tx = None /\ n.ref = r /\ n.amount = amount
      BY DEF Notice
    <3> QED BY <3>1, <3>2, TextAssumption DEF Notice, Body
  <2> HIDE DEF n
  <2>4. Genuine(n)
    BY <1>3, <2>0, <2>3, NoneAssumption DEF ReportByHand, Genuine, FakeNotice
  <2>5. Report(n)
    BY <2>1 DEF n
  <2> QED BY <2>3, <2>4, <2>5, ReportKeeps
<1> QED BY <1>1, <1>2, <1>3

\* Steps that change no payment, notice or answer, only what is on the wire,
\* which secrets there are and which the process holds.
LEMMA WireStep ==
    ASSUME IInv, UNCHANGED <<provider, payments, reported, accepted, answered, altered>>,
           secret' \in 0 .. MaxRotations, held' \in 0 .. secret', faults' \in 0 .. MaxFaults,
           \A m \in wire' : Delivery(m), OnePerNotice'
    PROVE  IInv' /\ ChannelStep
<1>1. PaymentsStay /\ TypeInv' /\ \A r \in References : PaymentMade(r)'
  BY DEF IInv, TypeInv, PaymentsStay, PaymentMade
<1>2. \A m \in wire' : Delivery(m)'
  BY DEF Delivery
<1> QED BY <1>1, <1>2, QuietStep

LEMMA SendKeeps == ASSUME IInv, NEW n \in reported, Send(n) PROVE IInv' /\ ChannelStep
<1> DEFINE m == [of |-> n, body |-> n, signature |-> Sign(n), readable |-> TRUE]
<1>1. wire' = wire \cup {m}
      /\ UNCHANGED <<provider, payments, reported, secret, held, accepted, answered, altered, faults>>
  BY DEF Send
<1>2. m.of = n /\ m.body = n /\ m.signature = Sign(n)
      /\ m = [of |-> m.of, body |-> m.body, signature |-> m.signature, readable |-> m.readable]
  OBVIOUS
<1> HIDE DEF m
<1>3. n \in Body /\ Genuine(n) /\ n \in reported \ answered /\ \A d \in wire : d.of # n
  BY DEF IInv, TypeInv, Send
<1>4. provider = "wompi" => m.signature = [text |-> Text(m.of), key |-> secret]
  <2>1. provider = "wompi" => Sign(n) = [text |-> Text(n), key |-> secret]
    BY DEF Sign, Checksum
  <2> QED BY <1>2, <2>1
<1>5. provider = "wompi" => n.amount \in Cents \cup {None}
  BY <1>3 DEF Genuine, WompiNotice
<1>6. Delivery(m)
  BY <1>2, <1>3, <1>4, <1>5 DEF Delivery
<1>7. OnePerNotice'
  BY <1>1, <1>2, <1>3 DEF IInv, OnePerNotice
<1> QED BY <1>1, <1>6, <1>7, WireStep DEF IInv, TypeInv

LEMMA DamagedIsADelivery ==
    ASSUME IInv, NEW m \in wire, NEW d \in Damaged(m) PROVE Delivery(d) /\ d.of = m.of
<1>1. Delivery(m) /\ m.of \in Body /\ m.body \in Body
  BY DEF IInv, TypeInv, Delivery
<1>2. m.body = [tx |-> m.body.tx, ref |-> m.body.ref, raw |-> m.body.raw, amount |-> m.body.amount,
                timestamp |-> m.body.timestamp, properties |-> m.body.properties]
  BY <1>1 DEF Body
<1>3. ASSUME NEW b \in Body, b.amount = m.body.amount \/ b.amount \in Cents \cup {None},
             d = [m EXCEPT !.body = b]
      PROVE  Delivery(d) /\ d.of = m.of
  <2>1. d = [of |-> m.of, body |-> b, signature |-> m.signature, readable |-> m.readable]
    BY <1>1, <1>3 DEF Delivery
  <2> QED BY <1>1, <1>3, <2>1 DEF Delivery
<1>4. CASE d \in {[m EXCEPT !.readable = FALSE], [m EXCEPT !.signature = None]}
  BY <1>1, <1>4 DEF Delivery
<1>5. ASSUME NEW t \in Transactions \cup {None}, d = [m EXCEPT !.body.tx = t]
      PROVE  Delivery(d) /\ d.of = m.of
  <2>1. [m.body EXCEPT !.tx = t] \in Body /\ [m.body EXCEPT !.tx = t].amount = m.body.amount
    BY <1>1 DEF Body
  <2>2. d = [m EXCEPT !.body = [m.body EXCEPT !.tx = t]]
    BY <1>1, <1>2, <1>5 DEF Delivery
  <2> QED BY <1>3, <2>1, <2>2
<1>6. ASSUME NEW x \in References \cup {None}, d = [m EXCEPT !.body.ref = x]
      PROVE  Delivery(d) /\ d.of = m.of
  <2>1. [m.body EXCEPT !.ref = x] \in Body /\ [m.body EXCEPT !.ref = x].amount = m.body.amount
    BY <1>1 DEF Body
  <2>2. d = [m EXCEPT !.body = [m.body EXCEPT !.ref = x]]
    BY <1>1, <1>2, <1>6 DEF Delivery
  <2> QED BY <1>3, <2>1, <2>2
<1>7. ASSUME NEW raw \in RawStatuses \cup {None}, d = [m EXCEPT !.body.raw = raw]
      PROVE  Delivery(d) /\ d.of = m.of
  <2>1. [m.body EXCEPT !.raw = raw] \in Body /\ [m.body EXCEPT !.raw = raw].amount = m.body.amount
    BY <1>1 DEF Body
  <2>2. d = [m EXCEPT !.body = [m.body EXCEPT !.raw = raw]]
    BY <1>1, <1>2, <1>7 DEF Delivery
  <2> QED BY <1>3, <2>1, <2>2
<1>8. ASSUME NEW x \in [amount : Cents \cup {None}, timestamp : Timestamps],
             d = [m EXCEPT !.body = [@ EXCEPT !.amount = x.amount, !.timestamp = x.timestamp]]
      PROVE  Delivery(d) /\ d.of = m.of
  <2> DEFINE b == [m.body EXCEPT !.amount = x.amount, !.timestamp = x.timestamp]
  <2>1. b \in Body /\ b.amount = x.amount
    BY <1>1 DEF Body
  <2>2. d = [m EXCEPT !.body = b]
    BY <1>1, <1>2, <1>8 DEF Delivery
  <2> QED BY <1>3, <2>1, <2>2
<1>9. ASSUME NEW ps \in PropertyLists, d = [m EXCEPT !.body.properties = ps]
      PROVE  Delivery(d) /\ d.of = m.of
  <2>1. /\ [m.body EXCEPT !.properties = ps] \in Body
        /\ [m.body EXCEPT !.properties = ps].amount = m.body.amount
    BY <1>1 DEF Body
  <2>2. d = [m EXCEPT !.body = [m.body EXCEPT !.properties = ps]]
    BY <1>1, <1>2, <1>9 DEF Delivery
  <2> QED BY <1>3, <2>1, <2>2
<1>10. \/ d \in {[m EXCEPT !.readable = FALSE], [m EXCEPT !.signature = None]}
       \/ \E t \in Transactions \cup {None} : d = [m EXCEPT !.body.tx = t]
       \/ \E x \in References \cup {None} : d = [m EXCEPT !.body.ref = x]
       \/ \E raw \in RawStatuses \cup {None} : d = [m EXCEPT !.body.raw = raw]
       \/ \E x \in [amount : Cents \cup {None}, timestamp : Timestamps] :
             d = [m EXCEPT !.body = [@ EXCEPT !.amount = x.amount, !.timestamp = x.timestamp]]
       \/ \E ps \in PropertyLists : d = [m EXCEPT !.body.properties = ps]
  <2> DEFINE A == {[m EXCEPT !.readable = FALSE], [m EXCEPT !.signature = None]}
             B == {[m EXCEPT !.body.tx = t] : t \in Transactions \cup {None}}
             C == {[m EXCEPT !.body.ref = x] : x \in References \cup {None}}
             D == {[m EXCEPT !.body.raw = raw] : raw \in RawStatuses \cup {None}}
             E == {[m EXCEPT !.body = [@ EXCEPT !.amount = x.amount, !.timestamp = x.timestamp]] :
                      x \in [amount : Cents \cup {None}, timestamp : Timestamps]}
             F == {[m EXCEPT !.body.properties = ps] : ps \in PropertyLists}
  <2>1. Damaged(m) = A \cup B \cup C \cup D \cup E \cup F
    BY DEF Damaged
  <2>2. d \in E => \E x \in [amount : Cents \cup {None}, timestamp : Timestamps] :
          d = [m EXCEPT !.body = [@ EXCEPT !.amount = x.amount, !.timestamp = x.timestamp]]
    BY Zenon
  <2>3. /\ d \in B => \E t \in Transactions \cup {None} : d = [m EXCEPT !.body.tx = t]
        /\ d \in C => \E x \in References \cup {None} : d = [m EXCEPT !.body.ref = x]
        /\ d \in D => \E raw \in RawStatuses \cup {None} : d = [m EXCEPT !.body.raw = raw]
        /\ d \in F => \E ps \in PropertyLists : d = [m EXCEPT !.body.properties = ps]
    BY Zenon
  <2>4. d \in A \/ d \in B \/ d \in C \/ d \in D \/ d \in E \/ d \in F
    <3> HIDE DEF A, B, C, D, E, F
    <3> QED BY <2>1
  <2> QED
    <3>1. d \in A => d \in {[m EXCEPT !.readable = FALSE], [m EXCEPT !.signature = None]}
      OBVIOUS
    <3> HIDE DEF A, B, C, D, E, F
    <3> QED BY <2>2, <2>3, <2>4, <3>1
<1> QED BY <1>4, <1>5, <1>6, <1>7, <1>8, <1>9, <1>10

LEMMA DisturbKeeps == ASSUME IInv, NEW m \in wire, Disturb(m) PROVE IInv' /\ ChannelStep
<1>1. /\ faults < MaxFaults /\ faults' = faults + 1
      /\ wire' \in {wire \ {m}} \cup {(wire \ {m}) \cup {d} : d \in Damaged(m)}
      /\ UNCHANGED <<provider, payments, reported, secret, held, accepted, answered, altered>>
  BY DEF Disturb
<1>2. \A x \in wire' : x \in wire \/ x \in Damaged(m)
  BY <1>1
<1>3. \A x \in wire' : Delivery(x)
  BY <1>2, DamagedIsADelivery DEF IInv
<1>4. OnePerNotice'
  <2>1. \/ wire' \subseteq wire
        \/ \E d : d.of = m.of /\ wire' = (wire \ {m}) \cup {d}
    BY <1>1, DamagedIsADelivery
  <2> QED BY <2>1 DEF IInv, OnePerNotice
<1>5. faults' \in 0 .. MaxFaults
  BY <1>1, BoundsAssumption DEF IInv, TypeInv
<1> QED BY <1>1, <1>3, <1>4, <1>5, WireStep DEF IInv, TypeInv

LEMMA SecretsKeep == ASSUME IInv, Rotate \/ Restart PROVE IInv' /\ ChannelStep
<1>1. UNCHANGED <<provider, payments, reported, wire, accepted, answered, altered, faults>>
  BY DEF Rotate, Restart
<1>2. secret' \in 0 .. MaxRotations /\ held' \in 0 .. secret'
  BY BoundsAssumption DEF Rotate, Restart, IInv, TypeInv
<1>3. OnePerNotice'
  BY <1>1 DEF IInv, OnePerNotice
<1> QED BY <1>1, <1>2, <1>3, WireStep DEF IInv, TypeInv

LEMMA ReceiveKeeps == ASSUME IInv, NEW m \in wire, Receive(m) PROVE IInv' /\ ChannelStep
<1>1. wire' = wire \ {m} /\ UNCHANGED <<provider, payments, reported, secret, held, faults>>
  BY DEF Receive
<1>2. OnePerNotice' /\ m.of \in reported \ answered /\ \A x \in wire' : x.of # m.of
  BY <1>1 DEF IInv, OnePerNotice, Delivery
<1>3. CASE ~Accepts(m)
  BY <1>1, <1>2, <1>3, WireStep DEF Receive, IInv, TypeInv
<1>4. CASE Accepts(m)
  <2> DEFINE e == InHundredths(ParsedEvent(m.body))
             intact == Unbound(m.of, m.body) = Unbound(m.of, m.of)
  <2>1. /\ accepted' = accepted \cup {ParsedEvent(m.body)}
        /\ answered' = answered \cup {m.of}
        /\ altered' = altered \cup {n \in {m.of} : Unbound(n, m.body) # Unbound(n, n)}
    BY <1>4 DEF Receive
  <2>2. Received' = Received \cup {e}
    BY <2>1 DEF Received
  <2>3. intact => m.of \in Meaningful /\ e = Meaning(m.of)
    BY <1>4, AcceptedIntact
  <2>4. Vouched(m.of) => m.of \in Meaningful /\ Channel!SameFact(e, Meaning(m.of))
    BY <1>4, AcceptedKeepsFact
  <2>5. altered' = IF intact THEN altered ELSE altered \cup {m.of}
    BY <2>1
  <2> HIDE DEF e, intact
  <2>6. /\ Meaningful' = Meaningful /\ Meant' = Meant
        /\ \A n : Meaning(n)' = Meaning(n) /\ Vouched(n)' = Vouched(n)
    BY <1>1 DEF Meaningful, Meant, Meaning, Vouched
  <2>7. NoNoticeIsLost'
    <3> SUFFICES ASSUME NEW n \in answered'
                 PROVE  \/ n \in Meaningful /\ Meaning(n) \in Received'
                        \/ /\ n \in altered'
                           /\ Vouched(n) => \E x \in Received' : Channel!SameFact(x, Meaning(n))
      BY <2>6 DEF NoNoticeIsLost, Channel!SameFact
    <3>1. CASE n \in answered
      BY <2>2, <2>5, <3>1 DEF IInv, NoNoticeIsLost
    <3>2. CASE n = m.of
      BY <2>2, <2>3, <2>4, <2>5, <3>2
    <3> QED BY <2>1, <3>1, <3>2
  <2>8. TypeInv'
    BY <1>1, <1>2, <2>1, <2>5 DEF IInv, TypeInv
  <2>9. /\ \A r \in References : PaymentMade(r)'
        /\ \A n \in reported' : Genuine(n)'
        /\ \A x \in wire' : Delivery(x)'
    BY <1>1, <1>2, <2>1 DEF IInv, PaymentMade, Genuine, WompiNotice, FakeNotice, Delivery
  <2>10. Channel!Receive
    <3>1. e \in Received' /\ Received' = Received \cup {e}
      BY <2>2
    <3>2. \/ e \in Meant /\ Changed' = Changed /\ Stray' = Stray
          \/ /\ \E f \in Meant : Channel!SameFact(e, f) /\ Changed' = Changed \cup {f}
             /\ Stray' = Stray
          \/ Stray \subseteq Stray' /\ Stray # Stray' /\ Changed' = Changed
      <4>1. CASE intact
        BY <2>3, <2>5, <2>6, <4>1 DEF Meant, Changed, Stray
      <4>2. CASE ~intact /\ Vouched(m.of)
        <5>1. Changed' = Changed \cup {Meaning(m.of)} /\ Stray' = Stray
          BY <2>5, <2>6, <4>2 DEF Changed, Stray
        <5> QED BY <2>4, <4>2, <5>1 DEF Meant
      <4>3. CASE ~intact /\ ~Vouched(m.of)
        <5>1. m.of \notin altered
          BY <1>2 DEF IInv, TypeInv
        <5>2. Stray' = Stray \cup {m.of} /\ m.of \notin Stray /\ Changed' = Changed
          BY <2>5, <2>6, <4>3, <5>1 DEF Changed, Stray
        <5> QED BY <5>2
      <4> QED BY <4>1, <4>2, <4>3
    <3> QED BY <2>6, <3>1, <3>2 DEF Channel!Receive, Received, Meant, Changed, Stray
  <2> QED BY <1>2, <2>7, <2>8, <2>9, <2>10 DEF IInv, ChannelStep
<1> QED BY <1>3, <1>4
-----------------------------------------------------------------------------
(* The theorems *)

LEMMA InitIInv == Init => IInv /\ Channel!Init
<1> SUFFICES ASSUME Init PROVE IInv /\ Channel!Init
  OBVIOUS
<1>1. Meant = {} /\ Received = {} /\ Changed = {} /\ Stray = {}
  BY DEF Init, Meant, Received, Meaningful, Changed, Stray
<1>2. TypeInv
  BY BoundsAssumption DEF Init, TypeInv
<1>3. IInv
  BY <1>1, <1>2 DEF Init, IInv, PaymentMade, NoNoticeIsLost, OnePerNotice
<1> QED BY <1>1, <1>3 DEF Channel!Init, Meant, Received, Changed, Stray

LEMMA NextKeeps == ASSUME IInv, [Next]_vars PROVE IInv' /\ ChannelStep
<1>1. CASE UNCHANGED vars
  BY <1>1, WireStep DEF vars, IInv, TypeInv, OnePerNotice
<1>2. CASE Next
  BY <1>2, CreatePaymentKeeps, ReportsAreGenuine, SendKeeps, ReceiveKeeps, DisturbKeeps,
     SecretsKeep DEF Next
<1> QED BY <1>1, <1>2

LEMMA Inductive == Spec => []IInv
<1>1. IInv /\ [Next]_vars => IInv'
  BY NextKeeps
<1> QED BY <1>1, InitIInv, PTL DEF Spec

\* Payments, notices, deliveries and secrets of app/integrations/payments have
\* their types, whatever is rotated or changed on the way.
THEOREM TypeCorrect == Spec => []TypeOK
<1>1. IInv => TypeOK
  BY BoundsAssumption DEF IInv, TypeInv, Payment, Url, Delivery, TypeOK
<1> QED BY <1>1, Inductive, PTL

\* The webhook endpoint answers 200 only for notices that the business logic
\* has had in the meaning they were reported with; if the delivery was changed
\* in what the checksum leaves out, wompi.py still had its transaction and status.
THEOREM NothingAnsweredIsLost == Spec => []NoNoticeIsLost
<1>1. IInv => NoNoticeIsLost
  BY DEF IInv
<1> QED BY <1>1, Inductive, PTL

\* verify_and_parse_webhook translates what it lets through without loss: the
\* payment providers implement EventChannel, which says what is left of an
\* event whose reference, timestamp or list of properties was changed.
THEOREM ChannelRefinement == Spec => ImplementsChannel
<1>1. IInv /\ [Next]_vars => [Channel!Report \/ Channel!Receive]_Channel!vars
  BY NextKeeps DEF ChannelStep
<1>2. Init => Channel!Init
  BY InitIInv
<1> QED BY <1>1, <1>2, Inductive, PTL DEF Spec, ImplementsChannel, Channel!Spec
=============================================================================
