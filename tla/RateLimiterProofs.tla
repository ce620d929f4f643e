-------------------------- MODULE RateLimiterProofs --------------------------
(***************************************************************************)
(* Theorems of RateLimiter, for every set of keys, every limit and window. *)
(* The deque of a key is the end of its log, and what was evicted is older *)
(* than the window: DequeIsRecent is the inductive invariant from which    *)
(* the spacing of the admitted requests and the refinement follow.         *)
(***************************************************************************)
EXTENDS RateLimiter, FiniteSetTheorems, SequenceTheorems, TLAPS

\* How many admitted requests of a key its deque no longer holds.
Dropped(k) == Len(log[k]) - Len(hits[k])

Recent(k) ==
    /\ Len(hits[k]) <= Len(log[k])
    /\ \A i \in 1 .. Len(hits[k]) : hits[k][i] = log[k][Dropped(k) + i]
    /\ \A i \in 1 .. Dropped(k) : log[k][i] <= now - Window
DequeIsRecent == \A k \in Keys : Recent(k)

\* The log is in the order of the clock.
LogOrdered ==
    \A k \in Keys :
        /\ \A i \in DOMAIN log[k] : log[k][i] <= now
        /\ \A i, j \in DOMAIN log[k] : i <= j => log[k][i] <= log[k][j]

IInv == TypeOK /\ DequeIsRecent /\ LogOrdered /\ Spaced /\ DequeBounded
-----------------------------------------------------------------------------
\* What SubSeq leaves of a sequence without its first d elements.
LEMMA SuffixOfSequence ==
    ASSUME NEW S, NEW s \in Seq(S), NEW d \in 0 .. Len(s)
    PROVE  LET t == SubSeq(s, d + 1, Len(s))
           IN  /\ t \in Seq(S)
               /\ Len(t) = Len(s) - d
               /\ \A i \in 1 .. Len(s) - d : t[i] = s[d + i]
<1> DEFINE t == SubSeq(s, d + 1, Len(s))
<1>1. Len(s) \in Nat /\ d \in Int
  OBVIOUS
<1>2. \A i \in d + 1 .. Len(s) : s[i] \in S
  BY <1>1
<1>3. t \in Seq(S)
  BY <1>1, <1>2, SubSeqProperties
<1>4. Len(t) = Len(s) - d
  BY <1>1, SubSeqProperties
<1>5. \A i \in 1 .. Len(s) - d : t[i] = s[d + i]
  BY <1>1, SubSeqProperties
<1> QED BY <1>3, <1>4, <1>5

\* The eviction leaves the end of the deque: Call with its d and kept.
Calls(k, d, kept) ==
    /\ d \in 0 .. Len(hits[k])
    /\ Evicts(hits[k], now - Window, d)
    /\ kept = SubSeq(hits[k], d + 1, Len(hits[k]))

\* The hits that an eviction keeps are the last ones of the log, and they are
\* those of the window: everything before them is out of it.
KeepsTheWindow(k, kept) ==
    LET older == Len(log[k]) - Len(kept)
    IN  /\ kept \in Seq(0 .. MaxTime)
        /\ Len(kept) <= Len(hits[k]) /\ Len(kept) <= Len(log[k])
        /\ \A i \in 1 .. Len(kept) : kept[i] = log[k][older + i]
        /\ \A i \in 1 .. older : log[k][i] <= now - Window
        /\ \A i \in 1 .. Len(kept) : kept[i] > now - Window

LEMMA KeptIsTheWindow ==
    ASSUME IInv, NEW k \in Keys, NEW d, NEW kept, Calls(k, d, kept)
    PROVE  KeepsTheWindow(k, kept)
<1> DEFINE n == Len(log[k])
           h == Len(hits[k])
<1>1. /\ hits[k] \in Seq(0 .. MaxTime) /\ log[k] \in Seq(0 .. MaxTime)
      /\ now \in Int /\ Window \in Int /\ MaxTime \in Int
  BY ClockAssumption DEF IInv, TypeOK
<1>2. h \in Nat /\ n \in Nat
  BY <1>1
<1>3. d \in 0 .. h /\ kept = SubSeq(hits[k], d + 1, h)
  BY DEF Calls
<1>4. h <= n
  BY DEF IInv, DequeIsRecent, Recent
<1>5. /\ kept \in Seq(0 .. MaxTime) /\ Len(kept) = h - d
      /\ \A i \in 1 .. h - d : kept[i] = hits[k][d + i]
  BY <1>1, <1>3, SuffixOfSequence
<1>6. /\ \A i \in 1 .. h : hits[k][i] = log[k][(n - h) + i]
      /\ \A i \in 1 .. n - h : log[k][i] <= now - Window
  BY DEF IInv, DequeIsRecent, Recent, Dropped
<1>7. /\ \A i \in 1 .. d : hits[k][i] <= now - Window
      /\ d < h => hits[k][d + 1] > now - Window
  BY DEF Calls, Evicts
<1>8. \A i, j \in 1 .. n : i <= j => log[k][i] <= log[k][j]
  BY <1>1 DEF IInv, LogOrdered
<1>9. \A i \in 1 .. n : log[k][i] \in Int
  BY <1>1
<1> HIDE DEF n, h
<1>10. ASSUME NEW i \in 1 .. h - d
       PROVE  kept[i] = log[k][n - (h - d) + i]
  <2>1. d + i \in 1 .. h /\ (n - h) + (d + i) = n - (h - d) + i
    BY <1>2, <1>3
  <2> QED BY <2>1, <1>5, <1>6
<1>11. ASSUME NEW i \in 1 .. n - (h - d)
       PROVE  log[k][i] <= now - Window
  <2>1. CASE i > n - h
    <3>1. i - (n - h) \in 1 .. d /\ i - (n - h) \in 1 .. h /\ (n - h) + (i - (n - h)) = i
      BY <1>2, <1>3, <1>4, <2>1
    <3> QED BY <3>1, <1>6, <1>7
  <2>2. CASE i <= n - h
    BY <1>2, <1>3, <1>4, <1>6, <2>2
  <2> QED BY <2>1, <2>2, <1>2, <1>3
<1>12. ASSUME NEW i \in 1 .. h - d
       PROVE  kept[i] > now - Window
  <2>1. d < h /\ d + 1 \in 1 .. h /\ d + i \in 1 .. h
    BY <1>2, <1>3
  <2>2. /\ kept[i] = log[k][(n - h) + (d + i)]
        /\ hits[k][d + 1] = log[k][(n - h) + (d + 1)]
    BY <2>1, <1>5, <1>6
  <2>3. /\ (n - h) + (d + i) \in 1 .. n /\ (n - h) + (d + 1) \in 1 .. n
        /\ (n - h) + (d + 1) <= (n - h) + (d + i)
    BY <1>2, <1>3, <1>4
  <2>4. log[k][(n - h) + (d + 1)] <= log[k][(n - h) + (d + i)]
    BY <2>3, <1>8
  <2>5. log[k][(n - h) + (d + 1)] > now - Window
    BY <2>1, <2>2, <1>7
  <2> QED BY <2>2, <2>3, <2>4, <2>5, <1>1, <1>9
<1>13. h - d <= h /\ h - d <= n
  BY <1>2, <1>3, <1>4
<1> QED BY <1>5, <1>10, <1>11, <1>12, <1>13 DEF KeepsTheWindow, n, h
-----------------------------------------------------------------------------
(* The inductive invariant *)

LEMMA InitIInv == Init => IInv
  BY ClockAssumption, LimitAssumption
     DEF Init, IInv, TypeOK, Verdicts, DequeIsRecent, Recent, Dropped, LogOrdered, Spaced, DequeBounded

LEMMA RejectKeeps ==
    ASSUME IInv, NEW k \in Keys, NEW d, NEW kept, Calls(k, d, kept),
           Reject(k, kept), UNCHANGED now
    PROVE  IInv'
<1>1. KeepsTheWindow(k, kept)
  BY KeptIsTheWindow
<1>2. /\ hits' = [hits EXCEPT ![k] = kept] /\ log' = log /\ now' = now
      /\ verdict' = [verdict EXCEPT ![k] = "429"]
  BY DEF Reject
<1>3. TypeOK'
  BY <1>1, <1>2 DEF IInv, TypeOK, Verdicts, KeepsTheWindow
<1>4. hits'[k] = kept /\ \A j \in Keys : j # k => hits'[j] = hits[j]
  BY <1>2 DEF IInv, TypeOK
<1>5. DequeIsRecent'
  <2>1. Recent(k)'
    BY <1>1, <1>2, <1>4 DEF Recent, Dropped, KeepsTheWindow
  <2>2. ASSUME NEW j \in Keys, j # k
        PROVE  Recent(j)'
    <3>1. hits'[j] = hits[j] /\ log'[j] = log[j] /\ now' = now /\ Recent(j)
      BY <2>2, <1>2, <1>4 DEF IInv, DequeIsRecent
    <3> QED BY <3>1 DEF Recent, Dropped
  <2> QED BY <2>1, <2>2 DEF DequeIsRecent
<1>6. LogOrdered' /\ Spaced'
  BY <1>2 DEF IInv, LogOrdered, Spaced
<1>7. Len(hits[k]) \in Nat /\ Len(kept) \in Nat /\ Limit[k] \in Nat
  BY <1>1, LimitAssumption DEF IInv, TypeOK, KeepsTheWindow
<1>8. DequeBounded'
  BY <1>1, <1>4, <1>7 DEF IInv, DequeBounded, KeepsTheWindow
<1> QED BY <1>3, <1>5, <1>6, <1>8 DEF IInv

LEMMA AcceptKeeps ==
    ASSUME IInv, NEW k \in Keys, NEW d, NEW kept, Calls(k, d, kept),
           Accept(k, kept), UNCHANGED now
    PROVE  IInv'
<1> DEFINE n == Len(log[k])
           w == Len(kept)
<1>1. KeepsTheWindow(k, kept)
  BY KeptIsTheWindow
<1>2. /\ hits' = [hits EXCEPT ![k] = Append(kept, now)]
      /\ log' = [log EXCEPT ![k] = Append(log[k], now)] /\ now' = now
      /\ verdict' = [verdict EXCEPT ![k] = "admitted"] /\ ~(w >= Limit[k])
  BY DEF Accept, IsFull
<1>3. /\ log[k] \in Seq(0 .. MaxTime) /\ kept \in Seq(0 .. MaxTime)
      /\ now \in 0 .. MaxTime /\ n \in Nat /\ w \in Nat
      /\ Limit[k] \in Nat \ {0} /\ Window \in Nat \ {0} /\ MaxTime \in Nat
  BY <1>1, ClockAssumption, LimitAssumption DEF IInv, TypeOK, KeepsTheWindow
<1>4. TypeOK'
  BY <1>2, <1>3 DEF IInv, TypeOK, Verdicts
<1>5. /\ hits'[k] = Append(kept, now) /\ log'[k] = Append(log[k], now)
      /\ \A j \in Keys : j # k => hits'[j] = hits[j] /\ log'[j] = log[j]
  BY <1>2 DEF IInv, TypeOK
<1>6. /\ Len(hits'[k]) = w + 1 /\ Len(log'[k]) = n + 1
      /\ \A i \in 1 .. w : hits'[k][i] = kept[i]
      /\ \A i \in 1 .. n : log'[k][i] = log[k][i]
      /\ hits'[k][w + 1] = now /\ log'[k][n + 1] = now
  BY <1>3, <1>5
<1>7. /\ w <= n
      /\ \A i \in 1 .. w : kept[i] = log[k][n - w + i]
      /\ \A i \in 1 .. n - w : log[k][i] <= now - Window
  BY <1>1 DEF KeepsTheWindow
<1>8. /\ \A i \in 1 .. n : log[k][i] <= now /\ log[k][i] \in Int
      /\ \A i, j \in 1 .. n : i <= j => log[k][i] <= log[k][j]
      /\ \A i, j \in 1 .. n : i + Limit[k] <= j => log[k][j] - log[k][i] >= Window
  <2>1. DOMAIN log[k] = 1 .. n /\ \A i \in 1 .. n : log[k][i] \in Int
    BY <1>3
  <2>2. /\ \A i \in 1 .. n : log[k][i] <= now
        /\ \A i, j \in 1 .. n : i <= j => log[k][i] <= log[k][j]
    BY <2>1 DEF IInv, LogOrdered
  <2>3. \A i, j \in 1 .. n : i + Limit[k] <= j => log[k][j] - log[k][i] >= Window
    BY <2>1 DEF IInv, Spaced
  <2> QED BY <2>1, <2>2, <2>3
<1>9. DOMAIN log'[k] = 1 .. n + 1
  BY <1>3, <1>5
<1> HIDE DEF n, w
<1>10. /\ w + 1 <= n + 1
       /\ \A i \in 1 .. w + 1 : hits'[k][i] = log'[k][(n + 1) - (w + 1) + i]
       /\ \A i \in 1 .. (n + 1) - (w + 1) : log'[k][i] <= now - Window
  <2>1. ASSUME NEW i \in 1 .. w
        PROVE  hits'[k][i] = log'[k][(n + 1) - (w + 1) + i]
    <3>1. n - w + i \in 1 .. n /\ (n + 1) - (w + 1) + i = n - w + i
      BY <1>3, <1>7
    <3> QED BY <3>1, <1>6, <1>7
  <2>2. hits'[k][w + 1] = log'[k][(n + 1) - (w + 1) + (w + 1)]
    BY <1>3, <1>6
  <2>3. ASSUME NEW i \in 1 .. (n + 1) - (w + 1)
        PROVE  log'[k][i] <= now - Window
    <3>1. i \in 1 .. n - w /\ i \in 1 .. n
      BY <1>3
    <3> QED BY <3>1, <1>6, <1>7
  <2>4. \A i \in 1 .. w + 1 : i \in 1 .. w \/ i = w + 1
    BY <1>3
  <2>5. \A i \in 1 .. w + 1 : hits'[k][i] = log'[k][(n + 1) - (w + 1) + i]
    BY <2>1, <2>2, <2>4
  <2>6. w + 1 <= n + 1
    BY <1>3, <1>7
  <2> QED BY <2>3, <2>5, <2>6
<1>11. DequeIsRecent'
  <2>1. Recent(k)'
    BY <1>2, <1>6, <1>10 DEF Recent, Dropped
  <2>2. ASSUME NEW j \in Keys, j # k
        PROVE  Recent(j)'
    <3>1. hits'[j] = hits[j] /\ log'[j] = log[j] /\ now' = now /\ Recent(j)
      BY <2>2, <1>2, <1>5 DEF IInv, DequeIsRecent
    <3> QED BY <3>1 DEF Recent, Dropped
  <2> QED BY <2>1, <2>2 DEF DequeIsRecent
<1>12. \A i \in 1 .. n + 1 : i \in 1 .. n \/ i = n + 1
  BY <1>3
<1>13. LogOrdered'
  <2>1. ASSUME NEW i \in 1 .. n + 1
        PROVE  log'[k][i] <= now
    <3>1. CASE i \in 1 .. n
      BY <3>1, <1>6, <1>8
    <3>2. CASE i = n + 1
      BY <3>2, <1>3, <1>6
    <3> QED BY <3>1, <3>2, <1>12
  <2>2. ASSUME NEW i \in 1 .. n + 1, NEW j \in 1 .. n + 1, i <= j
        PROVE  log'[k][i] <= log'[k][j]
    <3>1. CASE j \in 1 .. n
      <4>1. i \in 1 .. n
        BY <2>2, <3>1, <1>3
      <4> QED BY <4>1, <3>1, <2>2, <1>6, <1>8
    <3>2. CASE j = n + 1
      BY <2>1, <3>2, <1>6
    <3> QED BY <3>1, <3>2, <1>12
  <2> QED BY <2>1, <2>2, <1>2, <1>5, <1>9 DEF IInv, LogOrdered
<1>14. Spaced'
  <2>1. ASSUME NEW i \in 1 .. n, i + Limit[k] <= n + 1
        PROVE  now - log[k][i] >= Window
    <3>1. i \in 1 .. n - w
      BY <2>1, <1>2, <1>3, <1>7 DEF w
    <3> QED BY <3>1, <1>3, <1>7, <1>8
  <2>2. \A i, j \in 1 .. n + 1 : i + Limit[k] <= j =>
            log'[k][j] - log'[k][i] >= Window
    <3> SUFFICES ASSUME NEW i \in 1 .. n + 1, NEW j \in 1 .. n + 1, i + Limit[k] <= j
                 PROVE  log'[k][j] - log'[k][i] >= Window
      OBVIOUS
    <3>1. i \in 1 .. n
      BY <1>3
    <3>2. CASE j \in 1 .. n
      BY <3>1, <3>2, <1>6, <1>8
    <3>3. CASE j = n + 1
      BY <3>1, <3>3, <2>1, <1>6
    <3> QED BY <3>2, <3>3, <1>12
  <2> QED BY <2>2, <1>2, <1>5, <1>9 DEF IInv, Spaced
<1>15. DequeBounded'
  BY <1>2, <1>3, <1>5, <1>6 DEF IInv, DequeBounded, w
<1> QED BY <1>4, <1>11, <1>13, <1>14, <1>15 DEF IInv

LEMMA TickKeeps == IInv /\ Tick => IInv'
<1> SUFFICES ASSUME IInv, Tick PROVE IInv'
  OBVIOUS
<1>1. now' = now + 1 /\ UNCHANGED <<hits, log, verdict>> /\ now' \in 0 .. MaxTime
  BY ClockAssumption DEF Tick, IInv, TypeOK
<1>2. \A k \in Keys : \A i \in DOMAIN log[k] : log[k][i] \in Int
  BY ClockAssumption DEF IInv, TypeOK
<1>3. /\ TypeOK' /\ Spaced' /\ DequeBounded'
  BY <1>1 DEF IInv, TypeOK, Spaced, DequeBounded
<1>4. now \in Int /\ Window \in Int
  BY ClockAssumption DEF IInv, TypeOK
<1>5. LogOrdered'
  BY <1>1, <1>2, <1>4 DEF IInv, LogOrdered
<1>6. DequeIsRecent'
  <2> SUFFICES ASSUME NEW k \in Keys, NEW i \in 1 .. Dropped(k)
               PROVE  log[k][i] <= (now + 1) - Window
    BY <1>1 DEF IInv, DequeIsRecent, Recent, Dropped
  <2>1. i \in DOMAIN log[k]
    BY DEF IInv, TypeOK, Dropped, DequeIsRecent, Recent
  <2>2. log[k][i] <= now - Window
    BY DEF IInv, DequeIsRecent, Recent, Dropped
  <2> QED BY <2>1, <2>2, <1>2, <1>4
<1> QED BY <1>3, <1>5, <1>6 DEF IInv

LEMMA RestartKeeps == IInv /\ Restart => IInv'
  BY ClockAssumption, LimitAssumption
     DEF Restart, IInv, TypeOK, Verdicts, DequeIsRecent, Recent, Dropped, LogOrdered, Spaced,
         DequeBounded

LEMMA NextKeeps == IInv /\ [Next]_vars => IInv'
<1> SUFFICES ASSUME IInv, [Next]_vars PROVE IInv'
  OBVIOUS
<1>1. CASE Tick \/ Restart
  BY <1>1, TickKeeps, RestartKeeps
<1>2. ASSUME NEW k \in Keys, Call(k) PROVE IInv'
  <2>1. PICK d \in 0 .. Len(hits[k]) :
           /\ Evicts(hits[k], now - Window, d)
           /\ LET kept == SubSeq(hits[k], d + 1, Len(hits[k]))
              IN  Reject(k, kept) \/ Accept(k, kept)
    BY <1>2 DEF Call
  <2>2. Calls(k, d, SubSeq(hits[k], d + 1, Len(hits[k])))
    BY <2>1 DEF Calls
  <2>3. UNCHANGED now
    BY <1>2 DEF Call
  <2> QED BY <2>1, <2>2, <2>3, RejectKeeps, AcceptKeeps
<1>3. CASE UNCHANGED vars
  BY <1>3 DEF vars, IInv, TypeOK, DequeIsRecent, Recent, Dropped, LogOrdered, Spaced, DequeBounded
<1> QED BY <1>1, <1>2, <1>3 DEF Next

\* IInv is an invariant of the limiter.
THEOREM Invariant == Spec => []IInv
  BY InitIInv, NextKeeps, PTL DEF Spec

\* Clock, deques, log and answers have their types.
THEOREM TypeCorrect == Spec => []TypeOK
<1>1. IInv => TypeOK
  BY DEF IInv
<1> QED BY <1>1, Invariant, PTL

\* No sliding window holds more admitted requests of a key than its limit.
THEOREM AdmissionsAreSpaced == Spec => []Spaced
<1>1. IInv => Spaced
  BY DEF IInv
<1> QED BY <1>1, Invariant, PTL

\* A deque never holds more hits than the limit, whatever is refused.
THEOREM DequesAreBounded == Spec => []DequeBounded
<1>1. IInv => DequeBounded
  BY DEF IInv
<1> QED BY <1>1, Invariant, PTL
-----------------------------------------------------------------------------
(* The refinement *)

\* What the eviction keeps counts the log's requests of the window.
LEMMA KeptCountsTheWindow ==
    ASSUME IInv, NEW k \in Keys, NEW d, NEW kept, Calls(k, d, kept)
    PROVE  Cardinality(Promise!InWindow(k)) = Len(kept)
<1> DEFINE n == Len(log[k])
           w == Len(kept)
<1>1. /\ log[k] \in Seq(0 .. MaxTime) /\ now \in Int /\ Window \in Int /\ MaxTime \in Int
  BY ClockAssumption DEF IInv, TypeOK
<1>2. KeepsTheWindow(k, kept)
  BY KeptIsTheWindow
<1>3. /\ w \in Nat /\ n \in Nat /\ w <= n
      /\ \A i \in 1 .. w : kept[i] = log[k][n - w + i] /\ kept[i] > now - Window
      /\ \A i \in 1 .. n - w : log[k][i] <= now - Window
  BY <1>1, <1>2 DEF KeepsTheWindow
<1>4. DOMAIN log[k] = 1 .. n /\ \A i \in 1 .. n : log[k][i] \in Int
  BY <1>1
<1> HIDE DEF n, w
<1>5. ASSUME NEW i \in 1 .. n
      PROVE  log[k][i] > now - Window <=> i \in n - w + 1 .. n
  <2>1. CASE i <= n - w
    BY <2>1, <1>1, <1>3, <1>4
  <2>2. CASE i > n - w
    <3>1. i - (n - w) \in 1 .. w /\ n - w + (i - (n - w)) = i
      BY <2>2, <1>3
    <3> QED BY <2>2, <3>1, <1>3
  <2> QED BY <2>1, <2>2, <1>3
<1>6. n - w + 1 .. n \subseteq 1 .. n
  BY <1>3
<1>7. Promise!InWindow(k) = n - w + 1 .. n
  BY <1>4, <1>5, <1>6 DEF Promise!InWindow
<1>8. Cardinality(n - w + 1 .. n) = w
  BY <1>3, FS_Interval
<1> QED BY <1>7, <1>8 DEF w

\* Cardinality means the same in the module of the promise.
LEMMA SameCardinality == \A S : Promise!Cardinality(S) = Cardinality(S)
  BY DEF Promise!Cardinality, Cardinality

\* Every call is an admission or a refusal of the promise.
LEMMA CallImplements ==
    ASSUME IInv, NEW k \in Keys, Call(k)
    PROVE  Promise!Admit(k) \/ Promise!Refuse(k)
<1>1. PICK d \in 0 .. Len(hits[k]) :
         /\ Evicts(hits[k], now - Window, d)
         /\ LET kept == SubSeq(hits[k], d + 1, Len(hits[k]))
            IN  Reject(k, kept) \/ Accept(k, kept)
  BY DEF Call
<1> DEFINE kept == SubSeq(hits[k], d + 1, Len(hits[k]))
<1>2. UNCHANGED now
  BY DEF Call
<1>3. Calls(k, d, kept)
  BY <1>1 DEF Calls
<1>4. KeepsTheWindow(k, kept) /\ Promise!Cardinality(Promise!InWindow(k)) = Len(kept)
  BY <1>3, KeptIsTheWindow, KeptCountsTheWindow, SameCardinality
<1>5. Len(kept) \in Nat /\ Limit[k] \in Nat
  BY <1>4, LimitAssumption DEF KeepsTheWindow
<1> HIDE DEF kept
<1>6. CASE Reject(k, kept)
  BY <1>2, <1>4, <1>6 DEF Reject, IsFull, Promise!Refuse
<1>7. CASE Accept(k, kept)
  BY <1>2, <1>4, <1>5, <1>7 DEF Accept, IsFull, Promise!Admit
<1> QED BY <1>1, <1>6, <1>7 DEF kept

\* The limiter with its deques implements the complete log of SlidingWindow.
THEOREM Refinement == Spec => Implements
<1>1. Init => Promise!Init
  BY DEF Init, Promise!Init
<1>2. IInv /\ [Next]_vars => [Promise!Next]_<<now, log, verdict>>
  <2> SUFFICES ASSUME IInv, [Next]_vars
               PROVE  [Promise!Next]_<<now, log, verdict>>
    OBVIOUS
  <2>1. CASE Tick
    BY <2>1 DEF Tick, Promise!Next, Promise!Tick
  <2>2. CASE Restart
    BY <2>2 DEF Restart, Promise!Next, Promise!Forget
  <2>3. CASE \E k \in Keys : Call(k)
    BY <2>3, CallImplements DEF Promise!Next
  <2>4. CASE UNCHANGED vars
    BY <2>4 DEF vars
  <2> QED BY <2>1, <2>2, <2>3, <2>4 DEF Next
<1> QED BY <1>1, <1>2, Invariant, PTL DEF Spec, Implements, Promise!Spec
=============================================================================
