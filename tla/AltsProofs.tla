----------------------------- MODULE AltsProofs -----------------------------
(***************************************************************************)
(* Theorems about alts!, puts, takes and closes and their proofs: for any  *)
(* channels, capacities and calls.                                         *)
(***************************************************************************)
EXTENDS Alts, FiniteSetTheorems, TLAPS

\* The parts of the inductive invariant.

Answer == [kind : Kinds, ch : Chans \cup {None}, val : Calls \cup {None}]

\* A call that has begun has an operation, and looks at one of its ports.
Types ==
    /\ buf \in [Chans -> Seq(Calls)]
    /\ \A c \in Chans : Len(buf[c]) <= Cap[c]
    /\ closed \in [Chans -> BOOLEAN]
    /\ op \in [Calls -> Menu \cup {None}]
    /\ pc \in [Calls -> {"idle", "checking", "selecting", "parked", "returned"}]
    /\ pos \in [Calls -> Nat \ {0}]
    /\ result \in [Calls -> Answer]
    /\ \A k \in Calls : pc[k] # "idle" => op[k] \in Menu
    /\ \A k \in Calls : pc[k] = "idle" => pos[k] = 1
    /\ \A k \in Calls : pc[k] = "checking" => pos[k] <= Len(op[k].ports)

\* A call that has not returned has no result.
Fresh == \A k \in Calls : pc[k] # "returned" => result[k] = Pending

PutOn(k, c) == result[k].kind = "put" /\ result[k].ch = c

\* An answer that says the value of k, or the error it put, came from c.
Took(r, k, c) == r.kind \in {"take", "raise"} /\ r.ch = c /\ r.val = k
TakenBy(j, k, c) == Took(result[j], k, c)

\* No call is parked while one of its ports is ready: this is Go's select, and why a
\* close finds nothing left in a channel that a taker is parked on.
NoLostWakeup == \A k \in Calls : pc[k] = "parked" => ~SomeReady(k)

\* The value of a call is somewhere on c exactly when the call put it there.
Where ==
    \A k \in Calls, c \in Chans :
        PutOn(k, c) <=> InBuffer(k, c) \/ \E j \in Calls : TakenBy(j, k, c)

\* It is in one place of the buffer only, or with one taker.
Once ==
    /\ \A c \in Chans : \A i, j \in 1..Len(buf[c]) : buf[c][i] = buf[c][j] => i = j
    /\ \A k \in Calls, c \in Chans : \A i, j \in Calls :
         TakenBy(i, k, c) /\ TakenBy(j, k, c) => i = j
    /\ \A k \in Calls, c \in Chans, j \in Calls : TakenBy(j, k, c) => ~InBuffer(k, c)

\* Who was told the end, was told the truth.
NilIsEnd ==
    \A k \in Calls, c \in Chans :
        result[k].kind = "nil" /\ result[k].ch = c => closed[c] /\ buf[c] = <<>>

IInv == Types /\ Fresh /\ Where /\ Once /\ NilIsEnd /\ NoLostWakeup

-----------------------------------------------------------------------------
LEMMA AppendFacts ==
    ASSUME NEW S, NEW s \in Seq(S), NEW e \in S
    PROVE  /\ Append(s, e) \in Seq(S)
           /\ Len(Append(s, e)) = Len(s) + 1 /\ Len(s) \in Nat
           /\ Append(s, e)[Len(s) + 1] = e
           /\ \A i \in 1..Len(s) : Append(s, e)[i] = s[i]
  OBVIOUS

LEMMA TailFacts ==
    ASSUME NEW S, NEW s \in Seq(S), s # <<>>
    PROVE  /\ Len(s) \in Nat \ {0}
           /\ Head(s) = s[1] /\ Head(s) \in S
           /\ Tail(s) \in Seq(S) /\ Len(Tail(s)) = Len(s) - 1
           /\ \A i \in 1..Len(s) - 1 : Tail(s)[i] = s[i + 1]
  OBVIOUS

LEMMA OutcomeFacts ==
    ASSUME NEW kind, NEW c, NEW v
    PROVE  /\ Outcome(kind, c, v).kind = kind
           /\ Outcome(kind, c, v).ch = c
           /\ Outcome(kind, c, v).val = v
           /\ kind \in Kinds /\ c \in Chans \cup {None} /\ v \in Calls \cup {None}
                => Outcome(kind, c, v) \in Answer
  BY DEF Outcome, Answer

LEMMA DeliveryFacts ==
    ASSUME NEW c \in Chans, NEW k \in Calls
    PROVE  /\ Delivery(c, k) \in Answer /\ Took(Delivery(c, k), k, c)
           /\ Delivery(c, k).kind # "nil"
<1>1. PICK kind \in {"take", "raise"} : Delivery(c, k) = Outcome(kind, c, k)
  BY DEF Delivery
<1>2. QED
  BY <1>1, OutcomeFacts DEF Took, Kinds

LEMMA PendingFacts == Pending.kind = "pending" /\ Pending \in Answer
  BY DEF Pending, Answer, Kinds

-----------------------------------------------------------------------------
\* What a step may do to values and verdicts, in four lemmas.

\* Calls return, or none does, and no value moves.
LEMMA NoneMoves ==
    ASSUME Where, Once, UNCHANGED buf,
           \A j \in Calls : \/ result'[j] = result[j]
                            \/ /\ result[j] = Pending
                               /\ result'[j].kind \notin {"put", "take", "raise"}
    PROVE  Where' /\ Once'
<1>1. \A k \in Calls, c \in Chans : PutOn(k, c)' <=> PutOn(k, c)
  BY PendingFacts DEF PutOn
<1>2. \A j, k \in Calls, c \in Chans : TakenBy(j, k, c)' <=> TakenBy(j, k, c)
  BY PendingFacts, OutcomeFacts DEF TakenBy, Took
<1>3. \A k \in Calls, c \in Chans : InBuffer(k, c)' <=> InBuffer(k, c)
  BY DEF InBuffer
<1>4. QED
  BY <1>1, <1>2, <1>3 DEF Where, Once

\* Call a hands its value to call b.
LEMMA HandedOver ==
    ASSUME Types, Where, Once, NEW a \in Calls, NEW b \in Calls, NEW c \in Chans, a # b,
           result[a] = Pending, result[b] = Pending, UNCHANGED buf,
           result'[a] = Outcome("put", c, None), Took(result'[b], a, c),
           \A j \in Calls \ {a, b} : result'[j] = result[j]
    PROVE  Where' /\ Once'
<1>1. \A k \in Calls, d \in Chans : PutOn(k, d)' <=> PutOn(k, d) \/ (k = a /\ d = c)
  BY PendingFacts, OutcomeFacts DEF PutOn, Took
<1>2. \A j, k \in Calls, d \in Chans :
        TakenBy(j, k, d)' <=> TakenBy(j, k, d) \/ (j = b /\ k = a /\ d = c)
  BY PendingFacts, OutcomeFacts DEF TakenBy, Took
<1>3. \A k \in Calls, d \in Chans : InBuffer(k, d)' <=> InBuffer(k, d)
  BY DEF InBuffer
<1>4. ~InBuffer(a, c) /\ \A j \in Calls : ~TakenBy(j, a, c)
  BY PendingFacts DEF Where, PutOn
<1>5. QED
  BY <1>1, <1>2, <1>3, <1>4 DEF Where, Once

\* The entries of a sequence that grows, or loses its head.
Has(s, e) == \E i \in 1..Len(s) : s[i] = e
Distinct(s) == \A i, j \in 1..Len(s) : s[i] = s[j] => i = j

LEMMA InAppend ==
    ASSUME NEW S, NEW s \in Seq(S), NEW e \in S, Distinct(s), ~Has(s, e)
    PROVE  /\ \A x \in S : Has(Append(s, e), x) <=> Has(s, x) \/ x = e
           /\ Distinct(Append(s, e))
<1>1. /\ Len(Append(s, e)) = Len(s) + 1 /\ Len(s) \in Nat
      /\ Append(s, e)[Len(s) + 1] = e
      /\ \A i \in 1..Len(s) : Append(s, e)[i] = s[i]
  BY AppendFacts
<1>2. \A i \in 1..Len(s) + 1 : i \in 1..Len(s) \/ i = Len(s) + 1
  BY <1>1
<1>3. ASSUME NEW x \in S PROVE Has(Append(s, e), x) <=> Has(s, x) \/ x = e
  BY <1>1, <1>2 DEF Has
<1>4. Distinct(Append(s, e))
  BY <1>1, <1>2 DEF Distinct, Has
<1>5. QED
  BY <1>3, <1>4

LEMMA InTail ==
    ASSUME NEW S, NEW s \in Seq(S), s # <<>>, Distinct(s)
    PROVE  /\ \A x \in S : Has(Tail(s), x) <=> Has(s, x) /\ x # Head(s)
           /\ Distinct(Tail(s))
           /\ Has(s, Head(s))
<1>1. /\ Len(s) \in Nat \ {0} /\ Head(s) = s[1] /\ Len(Tail(s)) = Len(s) - 1
      /\ \A i \in 1..Len(s) - 1 : Tail(s)[i] = s[i + 1]
  BY TailFacts
<1>2. ASSUME NEW x \in S, Has(Tail(s), x) PROVE Has(s, x) /\ x # Head(s)
  <2>1. PICK i \in 1..Len(s) - 1 : s[i + 1] = x
    BY <1>1, <1>2 DEF Has
  <2>2. QED
    BY <1>1, <2>1 DEF Has, Distinct
<1>3. ASSUME NEW x \in S, Has(s, x), x # Head(s) PROVE Has(Tail(s), x)
  <2>1. PICK i \in 1..Len(s) : s[i] = x
    BY <1>3 DEF Has
  <2>2. i - 1 \in 1..Len(s) - 1 /\ Tail(s)[i - 1] = x
    BY <1>1, <1>3, <2>1
  <2>3. QED
    BY <1>1, <2>2 DEF Has
<1>4. Distinct(Tail(s))
  BY <1>1 DEF Distinct
<1>5. Has(s, Head(s))
  BY <1>1 DEF Has
<1>6. QED
  BY <1>2, <1>3, <1>4, <1>5

LEMMA BufferHas ==
    ASSUME Types, NEW k \in Calls, NEW c \in Chans
    PROVE  InBuffer(k, c) <=> Has(buf[c], k)
  BY DEF Types, InBuffer, Has

\* Call k puts its value into the buffer of c.
LEMMA PutIn ==
    ASSUME Types, Types', Where, Once, NEW k \in Calls, NEW c \in Chans,
           result[k] = Pending, result'[k] = Outcome("put", c, None),
           \A j \in Calls \ {k} : result'[j] = result[j],
           buf' = [buf EXCEPT ![c] = Append(@, k)]
    PROVE  Where' /\ Once'
<1>1. \A j \in Calls, d \in Chans : PutOn(j, d)' <=> PutOn(j, d) \/ (j = k /\ d = c)
  BY PendingFacts, OutcomeFacts DEF PutOn
<1>2. \A i, j \in Calls, d \in Chans : TakenBy(i, j, d)' <=> TakenBy(i, j, d)
  BY PendingFacts, OutcomeFacts DEF TakenBy, Took
<1>3. /\ buf[c] \in Seq(Calls) /\ Distinct(buf[c])
      /\ ~Has(buf[c], k) /\ \A j \in Calls : ~TakenBy(j, k, c)
  BY PendingFacts, BufferHas DEF Types, Where, Once, Distinct, PutOn
<1>4. /\ buf'[c] = Append(buf[c], k)
      /\ \A d \in Chans \ {c} : buf'[d] = buf[d]
  BY DEF Types
<1>5. /\ \A j \in Calls : Has(buf'[c], j) <=> Has(buf[c], j) \/ j = k
      /\ Distinct(buf'[c])
  BY <1>3, <1>4, InAppend
<1>6. \A j \in Calls, d \in Chans : InBuffer(j, d) <=> Has(buf[d], j)
  BY BufferHas
<1>7. \A j \in Calls, d \in Chans : InBuffer(j, d)' <=> InBuffer(j, d) \/ (j = k /\ d = c)
  <2>1. \A j \in Calls, d \in Chans : InBuffer(j, d)' <=> Has(buf'[d], j)
    <3>1. \A d \in Chans : DOMAIN buf'[d] = 1..Len(buf'[d])
      BY DEF Types
    <3>2. QED
      BY <3>1 DEF InBuffer, Has
  <2>2. QED
    BY <1>4, <1>5, <1>6, <2>1
<1>8. \A d \in Chans : Distinct(buf'[d])
  BY <1>4, <1>5 DEF Once, Distinct
<1>9. Where'
  BY <1>1, <1>2, <1>7 DEF Where
<1>10. Once'
  BY <1>2, <1>3, <1>7, <1>8 DEF Once, Distinct
<1>11. QED
  BY <1>9, <1>10

\* Call k takes the head of the buffer of c, and nothing is put behind.
LEMMA TakenOut ==
    ASSUME Types, Types', Where, Once, NEW k \in Calls, NEW c \in Chans, buf[c] # <<>>,
           result[k] = Pending, Took(result'[k], Head(buf[c]), c),
           \A j \in Calls \ {k} : result'[j] = result[j],
           buf' = [buf EXCEPT ![c] = Tail(@)]
    PROVE  Where' /\ Once'
<1> DEFINE h == Head(buf[c])
<1>1. \A j \in Calls, d \in Chans : PutOn(j, d)' <=> PutOn(j, d)
  BY PendingFacts, OutcomeFacts DEF PutOn, Took
<1>2. \A i, j \in Calls, d \in Chans :
        TakenBy(i, j, d)' <=> TakenBy(i, j, d) \/ (i = k /\ j = h /\ d = c)
  BY PendingFacts, OutcomeFacts DEF TakenBy, Took
<1>3. /\ buf[c] \in Seq(Calls) /\ Distinct(buf[c]) /\ h \in Calls
  BY TailFacts DEF Types, Once, Distinct
<1>4. /\ buf'[c] = Tail(buf[c])
      /\ \A d \in Chans \ {c} : buf'[d] = buf[d]
  BY DEF Types
<1> HIDE DEF h
<1>5. /\ \A j \in Calls : Has(buf'[c], j) <=> Has(buf[c], j) /\ j # h
      /\ Distinct(buf'[c]) /\ Has(buf[c], h)
  BY <1>3, <1>4, InTail DEF h
<1>6. \A j \in Calls, d \in Chans : InBuffer(j, d) <=> Has(buf[d], j)
  BY BufferHas
<1>7. \A j \in Calls, d \in Chans : InBuffer(j, d)' <=> InBuffer(j, d) /\ ~(j = h /\ d = c)
  <2>1. \A j \in Calls, d \in Chans : InBuffer(j, d)' <=> Has(buf'[d], j)
    <3>1. \A d \in Chans : DOMAIN buf'[d] = 1..Len(buf'[d])
      BY DEF Types
    <3>2. QED
      BY <3>1 DEF InBuffer, Has
  <2>2. QED
    BY <1>4, <1>5, <1>6, <2>1
<1>8. \A d \in Chans : Distinct(buf'[d])
  BY <1>4, <1>5 DEF Once, Distinct
<1>9. InBuffer(h, c) /\ \A j \in Calls : ~TakenBy(j, h, c)
  BY <1>3, <1>5, <1>6 DEF Once
<1>10. Where'
  BY <1>1, <1>2, <1>3, <1>7, <1>9 DEF Where
<1>11. Once'
  BY <1>2, <1>3, <1>7, <1>8, <1>9 DEF Once, Distinct
<1>12. QED
  BY <1>10, <1>11

\* Call k takes the head of the buffer of c, and the value of call p moves up.
LEMMA TakenAndRefilled ==
    ASSUME Types, Types', Where, Once, NEW k \in Calls, NEW p \in Calls, NEW c \in Chans,
           buf[c] # <<>>, k # p, result[k] = Pending, result[p] = Pending,
           Took(result'[k], Head(buf[c]), c), result'[p] = Outcome("put", c, None),
           \A j \in Calls \ {k, p} : result'[j] = result[j],
           buf' = [buf EXCEPT ![c] = Append(Tail(@), p)]
    PROVE  Where' /\ Once'
<1> DEFINE h == Head(buf[c])
<1>1. \A j \in Calls, d \in Chans : PutOn(j, d)' <=> PutOn(j, d) \/ (j = p /\ d = c)
  BY PendingFacts, OutcomeFacts DEF PutOn, Took
<1>2. \A i, j \in Calls, d \in Chans :
        TakenBy(i, j, d)' <=> TakenBy(i, j, d) \/ (i = k /\ j = h /\ d = c)
  BY PendingFacts, OutcomeFacts DEF TakenBy, Took
<1>3. /\ buf[c] \in Seq(Calls) /\ Distinct(buf[c]) /\ h \in Calls
      /\ Tail(buf[c]) \in Seq(Calls)
      /\ ~Has(buf[c], p) /\ \A j \in Calls : ~TakenBy(j, p, c)
  BY TailFacts, PendingFacts, BufferHas DEF Types, Where, Once, Distinct, PutOn
<1>4. /\ buf'[c] = Append(Tail(buf[c]), p)
      /\ \A d \in Chans \ {c} : buf'[d] = buf[d]
  BY DEF Types
<1> HIDE DEF h
<1>5. /\ \A j \in Calls : Has(Tail(buf[c]), j) <=> Has(buf[c], j) /\ j # h
      /\ Distinct(Tail(buf[c])) /\ Has(buf[c], h)
  BY <1>3, InTail DEF h
<1>6. /\ \A j \in Calls : Has(buf'[c], j) <=> (Has(buf[c], j) /\ j # h) \/ j = p
      /\ Distinct(buf'[c])
  <2>1. ~Has(Tail(buf[c]), p)
    BY <1>3, <1>5
  <2>2. /\ \A j \in Calls : Has(Append(Tail(buf[c]), p), j) <=> Has(Tail(buf[c]), j) \/ j = p
        /\ Distinct(Append(Tail(buf[c]), p))
    BY <1>3, <1>5, <2>1, InAppend
  <2>3. QED
    BY <1>4, <1>5, <2>2
<1>7. \A j \in Calls, d \in Chans : InBuffer(j, d) <=> Has(buf[d], j)
  BY BufferHas
<1>8. \A j \in Calls, d \in Chans :
        InBuffer(j, d)' <=> (InBuffer(j, d) /\ ~(j = h /\ d = c)) \/ (j = p /\ d = c)
  <2>1. \A j \in Calls, d \in Chans : InBuffer(j, d)' <=> Has(buf'[d], j)
    <3>1. \A d \in Chans : DOMAIN buf'[d] = 1..Len(buf'[d])
      BY DEF Types
    <3>2. QED
      BY <3>1 DEF InBuffer, Has
  <2>2. QED
    BY <1>4, <1>6, <1>7, <2>1
<1>9. \A d \in Chans : Distinct(buf'[d])
  BY <1>4, <1>6 DEF Once, Distinct
<1>10. /\ InBuffer(h, c) /\ h # p
       /\ \A j \in Calls : ~TakenBy(j, h, c)
  BY <1>3, <1>5, <1>7 DEF Once
<1>11. Where'
  BY <1>1, <1>2, <1>3, <1>8, <1>10 DEF Where
<1>12. Once'
  <2>1. \A i, j, m \in Calls, d \in Chans : TakenBy(i, m, d)' /\ TakenBy(j, m, d)' => i = j
    BY <1>2, <1>10 DEF Once
  <2>2. \A m, j \in Calls, d \in Chans : TakenBy(j, m, d)' => ~InBuffer(m, d)'
    BY <1>2, <1>3, <1>8, <1>10 DEF Once
  <2>3. QED
    BY <1>9, <2>1, <2>2 DEF Once, Distinct
<1>13. QED
  BY <1>11, <1>12

-----------------------------------------------------------------------------
\* Who sleeps, and what is ready.

LEMMA PortFacts ==
    ASSUME NEW k \in Calls, op[k] \in Menu
    PROVE  Puts(k) \subseteq Chans /\ Takes(k) \subseteq Chans
<1>1. op[k].ports \in Seq(Port)
  BY AltsAssumption
<1>2. PortsOf(k) \subseteq Port
  BY <1>1 DEF PortsOf
<1>3. QED
  BY <1>2 DEF Puts, Takes, Port

\* Those who sleep on, sleep on rightly, when each channel is as it was, or is
\* none of theirs, or was full of values and is as full as it was.
LEMMA Asleep ==
    ASSUME Types, NoLostWakeup,
           \A j \in Calls : pc'[j] = "parked" => pc[j] = "parked" /\ op'[j] = op[j],
           \A c \in Chans :
             \/ closed'[c] = closed[c] /\ buf'[c] = buf[c]
             \/ \A j \in Calls : pc'[j] = "parked" => c \notin Puts(j) /\ c \notin Takes(j)
             \/ /\ closed'[c] = closed[c] /\ Len(buf'[c]) = Len(buf[c])
                /\ \A j \in Calls : pc'[j] = "parked" => c \notin Takes(j)
    PROVE  NoLostWakeup'
<1> SUFFICES ASSUME NEW j \in Calls, pc'[j] = "parked", SomeReady(j)'
             PROVE  FALSE
  BY DEF NoLostWakeup
<1>1. /\ pc[j] = "parked" /\ op'[j] = op[j] /\ ~SomeReady(j)
      /\ Puts(j)' = Puts(j) /\ Takes(j)' = Takes(j)
      /\ Puts(j) \subseteq Chans /\ Takes(j) \subseteq Chans
  <2>1. pc[j] = "parked" /\ op'[j] = op[j] /\ op[j] \in Menu
    BY DEF Types
  <2>2. Puts(j)' = Puts(j) /\ Takes(j)' = Takes(j)
    BY <2>1 DEF Puts, Takes, PortsOf
  <2>3. QED
    BY <2>1, <2>2, PortFacts DEF NoLostWakeup
<1>2. \A c : Takers(c)' \subseteq Takers(c) /\ Putters(c)' \subseteq Putters(c)
  <2>1. \A i \in Calls : pc'[i] = "parked" => Puts(i)' = Puts(i) /\ Takes(i)' = Takes(i)
    BY DEF Puts, Takes, PortsOf
  <2>2. QED
    BY <2>1 DEF Takers, Putters
<1>3. ASSUME NEW c \in Puts(j),
             closed'[c] \/ Len(buf'[c]) < Cap[c] \/ Takers(c)' \ {j} # {}
      PROVE  FALSE
  <2>1. ~closed[c] /\ ~(Len(buf[c]) < Cap[c]) /\ Takers(c) \ {j} = {}
    BY <1>1 DEF SomeReady
  <2>2. closed'[c] = closed[c] /\ Len(buf'[c]) = Len(buf[c])
    BY <1>1
  <2>3. QED
    BY <1>2, <1>3, <2>1, <2>2
<1>4. ASSUME NEW c \in Takes(j),
             closed'[c] \/ buf'[c] # <<>> \/ Putters(c)' \ {j} # {}
      PROVE  FALSE
  <2>1. ~closed[c] /\ buf[c] = <<>> /\ Putters(c) \ {j} = {}
    BY <1>1 DEF SomeReady
  <2>2. closed'[c] = closed[c] /\ buf'[c] = buf[c]
    BY <1>1
  <2>3. QED
    BY <1>2, <1>4, <2>1, <2>2
<1>5. QED
  BY <1>1, <1>3, <1>4 DEF SomeReady

\* One more falls asleep.
LEMMA ParkAsleep ==
    ASSUME Types, NoLostWakeup, NEW k \in Calls, SelectPark(k)
    PROVE  NoLostWakeup'
<1>1. /\ pc' = [pc EXCEPT ![k] = "parked"] /\ ~SomeReady(k) /\ UNCHANGED <<buf, closed, op>>
      /\ pc[k] = "selecting"
  BY DEF SelectPark
<1>2. \A i \in Calls : Puts(i)' = Puts(i) /\ Takes(i)' = Takes(i)
  BY <1>1 DEF Puts, Takes, PortsOf
<1>3. \A c : /\ Takers(c)' = Takers(c) \cup {i \in {k} : c \in Takes(k)}
             /\ Putters(c)' = Putters(c) \cup {i \in {k} : c \in Puts(k)}
  BY <1>1, <1>2 DEF Takers, Putters, Types
<1> SUFFICES ASSUME NEW j \in Calls, pc'[j] = "parked", SomeReady(j)'
             PROVE  FALSE
  BY DEF NoLostWakeup
<1>4. CASE j = k
  BY <1>1, <1>2, <1>3, <1>4 DEF SomeReady
<1>5. CASE j # k
  <2>1. pc[j] = "parked" /\ ~SomeReady(j)
    BY <1>1, <1>5 DEF NoLostWakeup, Types
  <2>2. ASSUME NEW c, c \in Puts(j), c \in Takes(k) PROVE FALSE
    <3>1. j \in Putters(c) \ {k}
      BY <1>5, <2>1, <2>2 DEF Putters
    <3>2. QED
      BY <1>1, <2>2, <3>1 DEF SomeReady
  <2>3. ASSUME NEW c, c \in Takes(j), c \in Puts(k) PROVE FALSE
    <3>1. j \in Takers(c) \ {k}
      BY <1>5, <2>1, <2>3 DEF Takers
    <3>2. QED
      BY <1>1, <2>3, <3>1 DEF SomeReady
  <2>4. QED
    BY <1>1, <1>2, <1>3, <2>1, <2>2, <2>3 DEF SomeReady
<1>6. QED
  BY <1>4, <1>5

-----------------------------------------------------------------------------
LEMMA EndStays ==
    ASSUME NilIsEnd,
           \A j \in Calls : \/ result'[j] = result[j]
                            \/ result'[j].kind # "nil"
                            \/ \E c \in Chans : /\ result'[j].ch = c
                                                /\ closed'[c] /\ buf'[c] = <<>>,
           \A c \in Chans : closed[c] /\ buf[c] = <<>> => closed'[c] /\ buf'[c] = <<>>
    PROVE  NilIsEnd'
  BY DEF NilIsEnd

\* The calls of S return.
LEMMA Returns ==
    ASSUME Types, Fresh, NEW S, S \subseteq Calls,
           \A k \in S : pc[k] \in {"checking", "selecting", "parked"},
           pc' = [k \in Calls |-> IF k \in S THEN "returned" ELSE pc[k]],
           result' = [k \in Calls |-> result'[k]],
           \A k \in S : result'[k] \in Answer,
           \A k \in Calls \ S : result'[k] = result[k],
           buf' \in [Chans -> Seq(Calls)], \A c \in Chans : Len(buf'[c]) <= Cap[c],
           closed' \in [Chans -> BOOLEAN], UNCHANGED <<op, pos>>
    PROVE  /\ Types' /\ Fresh'
           /\ \A k \in S : result[k] = Pending
           /\ \A k \in Calls : pc'[k] = "parked" => pc[k] = "parked" /\ k \notin S
<1>1. /\ pc' \in [Calls -> {"idle", "checking", "selecting", "parked", "returned"}]
      /\ \A k \in Calls : pc'[k] = IF k \in S THEN "returned" ELSE pc[k]
  BY DEF Types
<1>2. result' \in [Calls -> Answer]
  BY DEF Types
<1>3. Types'
  BY <1>1, <1>2 DEF Types
<1>4. Fresh' /\ \A k \in S : result[k] = Pending
  BY <1>1 DEF Fresh
<1>5. QED
  BY <1>1, <1>3, <1>4

\* One call returns through no channel that changes.
LEMMA OneReturns ==
    ASSUME IInv, NEW k \in Calls, NEW r \in Answer, r.kind \notin {"put", "take", "raise"},
           r.kind = "nil" => r.ch \in Chans /\ closed[r.ch] /\ buf[r.ch] = <<>>,
           pc[k] \in {"checking", "selecting"},
           pc' = [j \in Calls |-> IF j \in {k} THEN "returned" ELSE pc[j]],
           result' = [j \in Calls |-> IF j \in {k} THEN r ELSE result[j]],
           UNCHANGED <<buf, closed, op, pos>>
    PROVE  IInv'
<1>1. /\ result'[k] = r /\ \A j \in Calls \ {k} : result'[j] = result[j]
      /\ result' = [j \in Calls |-> result'[j]]
  OBVIOUS
<1>2. /\ Types' /\ Fresh' /\ result[k] = Pending
      /\ \A j \in Calls : pc'[j] = "parked" => pc[j] = "parked"
  <2>1. /\ buf' \in [Chans -> Seq(Calls)] /\ closed' \in [Chans -> BOOLEAN]
        /\ \A c \in Chans : Len(buf'[c]) <= Cap[c]
    BY DEF IInv, Types
  <2>2. QED
    BY <1>1, <2>1, Returns DEF IInv
<1>3. Where' /\ Once'
  BY <1>1, <1>2, NoneMoves DEF IInv
<1>4. NilIsEnd'
  BY <1>1, EndStays DEF IInv
<1>5. NoLostWakeup'
  BY <1>2, Asleep DEF IInv
<1>6. QED
  BY <1>2, <1>3, <1>4, <1>5 DEF IInv

-----------------------------------------------------------------------------
\* One lemma for each action.

LEMMA BeginKeeps ==
    ASSUME IInv, NEW k \in Calls, Begin(k)
    PROVE  IInv'
<1>1. PICK o \in Menu : op' = [op EXCEPT ![k] = o]
  BY DEF Begin
<1>2. /\ pc[k] = "idle" /\ pc' = [pc EXCEPT ![k] = "checking"]
      /\ UNCHANGED <<buf, closed, pos, result>>
  BY DEF Begin
<1>3. Len(o.ports) \in Nat \ {0}
  <2>1. o.ports \in Seq(Port) /\ o.ports # <<>>
    BY AltsAssumption
  <2>2. QED
    BY <2>1
<1>4. Types'
  <2>1. /\ op' \in [Calls -> Menu \cup {None}]
        /\ pc' \in [Calls -> {"idle", "checking", "selecting", "parked", "returned"}]
        /\ \A j \in Calls : /\ pc'[j] = IF j = k THEN "checking" ELSE pc[j]
                            /\ op'[j] = IF j = k THEN o ELSE op[j]
    BY <1>1, <1>2 DEF IInv, Types
  <2>2. \A j \in Calls : pc'[j] # "idle" => op'[j] \in Menu
    BY <2>1 DEF IInv, Types
  <2>3. /\ \A j \in Calls : pc'[j] = "idle" => pos'[j] = 1
        /\ \A j \in Calls : pc'[j] = "checking" => pos'[j] <= Len(op'[j].ports)
    <3>1. pos[k] = 1 /\ pos' = pos
      BY <1>2 DEF IInv, Types
    <3>2. QED
      BY <1>3, <2>1, <3>1 DEF IInv, Types
  <2>4. QED
    BY <1>2, <2>1, <2>2, <2>3 DEF IInv, Types
<1>5. Fresh'
  BY <1>2 DEF IInv, Fresh, Types
<1>6. Where' /\ Once' /\ NilIsEnd'
  BY <1>2, NoneMoves, EndStays DEF IInv
<1>7. NoLostWakeup'
  <2>1. \A j \in Calls : pc'[j] = "parked" => pc[j] = "parked" /\ op'[j] = op[j]
    BY <1>1, <1>2 DEF IInv, Types
  <2>2. QED
    BY <1>2, <2>1, Asleep DEF IInv
<1>8. QED
  BY <1>4, <1>5, <1>6, <1>7 DEF IInv

LEMMA CheckPortKeeps ==
    ASSUME IInv, NEW k \in Calls, CheckPort(k)
    PROVE  IInv'
<1> DEFINE port == op[k].ports[pos[k]]
<1>1. /\ pc[k] = "checking" /\ UNCHANGED <<buf, closed, op>>
      /\ op[k] \in Menu /\ op[k].ports \in Seq(Port) /\ pos[k] \in 1..Len(op[k].ports)
  <2>1. pc[k] = "checking" /\ UNCHANGED <<buf, closed, op>>
    BY DEF CheckPort
  <2>2. op[k] \in Menu /\ pos[k] \in Nat \ {0}
    BY <2>1 DEF IInv, Types
  <2>3. op[k].ports \in Seq(Port) /\ op[k].ports # <<>>
    BY <2>2, AltsAssumption
  <2>4. pos[k] <= Len(op[k].ports)
    BY <2>1 DEF IInv, Types
  <2>5. QED
    BY <2>1, <2>2, <2>3, <2>4
<1>2. port \in Port
  BY <1>1
<1>3. CASE /\ port.put /\ closed[port.ch] /\ UNCHANGED pos
           /\ ReturnAll([j \in {k} |-> Outcome("refused", port.ch, None)])
  <2>1. PICK r : r = Outcome("refused", port.ch, None)
    OBVIOUS
  <2>2. r \in Answer /\ r.kind = "refused"
    BY <1>2, <2>1, OutcomeFacts DEF Port, Kinds
  <2>3. /\ pc' = [j \in Calls |-> IF j \in {k} THEN "returned" ELSE pc[j]]
        /\ result' = [j \in Calls |-> IF j \in {k} THEN r ELSE result[j]]
    BY <1>3, <2>1 DEF ReturnAll
  <2>4. QED
    BY <1>1, <1>3, <2>2, <2>3, OneReturns
<1>4. CASE /\ pos' = [pos EXCEPT ![k] = @ + 1]
           /\ pc' = [pc EXCEPT ![k] = IF pos[k] = Len(op[k].ports)
                                      THEN "selecting" ELSE "checking"]
           /\ UNCHANGED result
  <2>1. /\ pc' \in [Calls -> {"idle", "checking", "selecting", "parked", "returned"}]
        /\ pos' \in [Calls -> Nat \ {0}]
        /\ \A j \in Calls \ {k} : pc'[j] = pc[j] /\ pos'[j] = pos[j]
        /\ pc'[k] = IF pos[k] = Len(op[k].ports) THEN "selecting" ELSE "checking"
        /\ pos'[k] = pos[k] + 1
    BY <1>4 DEF IInv, Types
  <2>2. pc'[k] = "checking" => pos'[k] <= Len(op[k].ports)
    BY <1>1, <2>1
  <2>3. Types'
    BY <1>1, <1>4, <2>1, <2>2 DEF IInv, Types
  <2>4. Fresh'
    BY <1>1, <1>4, <2>1 DEF IInv, Fresh
  <2>5. Where' /\ Once' /\ NilIsEnd'
    BY <1>1, <1>4, NoneMoves, EndStays DEF IInv
  <2>6. NoLostWakeup'
    BY <1>1, <2>1, Asleep DEF IInv
  <2>7. QED
    BY <2>3, <2>4, <2>5, <2>6 DEF IInv
<1>5. QED
  BY <1>3, <1>4 DEF CheckPort

LEMMA PutOnClosedFacts ==
    ASSUME NEW k \in Calls, NEW c \in Chans
    PROVE  /\ PutOnClosed(k, c) \in Answer
           /\ PutOnClosed(k, c).kind \in {"refused", "panic"}
           /\ PutOnClosed(k, c).ch = c
  BY OutcomeFacts DEF PutOnClosed, Outcome, Answer, Kinds

LEMMA SelectPutClosedKeeps ==
    ASSUME IInv, NEW k \in Calls, NEW c \in Chans, SelectPutClosed(k, c)
    PROVE  IInv'
<1>1. PICK r : r = PutOnClosed(k, c)
  OBVIOUS
<1>2. r \in Answer /\ r.kind \in {"refused", "panic"}
  BY <1>1, PutOnClosedFacts
<1>3. /\ pc' = [j \in Calls |-> IF j \in {k} THEN "returned" ELSE pc[j]]
      /\ result' = [j \in Calls |-> IF j \in {k} THEN r ELSE result[j]]
      /\ pc[k] = "selecting" /\ UNCHANGED <<buf, closed, op, pos>>
  BY <1>1 DEF SelectPutClosed, ReturnAll
<1>4. QED
  BY <1>2, <1>3, OneReturns

LEMMA SelectTakeClosedKeeps ==
    ASSUME IInv, NEW k \in Calls, NEW c \in Chans, SelectTakeClosed(k, c)
    PROVE  IInv'
<1>1. PICK r : r = Outcome("nil", c, None)
  OBVIOUS
<1>2. r \in Answer /\ r.kind = "nil" /\ r.ch = c
  BY <1>1, OutcomeFacts DEF Kinds
<1>3. /\ pc' = [j \in Calls |-> IF j \in {k} THEN "returned" ELSE pc[j]]
      /\ result' = [j \in Calls |-> IF j \in {k} THEN r ELSE result[j]]
      /\ pc[k] = "selecting" /\ UNCHANGED <<buf, closed, op, pos>>
      /\ closed[c] /\ buf[c] = <<>>
  BY <1>1 DEF SelectTakeClosed, ReturnAll
<1>4. QED
  BY <1>2, <1>3, OneReturns

LEMMA SelectDefaultKeeps ==
    ASSUME IInv, NEW k \in Calls, SelectDefault(k)
    PROVE  IInv'
<1>1. PICK r : r = Outcome("default", None, None)
  OBVIOUS
<1>2. r \in Answer /\ r.kind = "default"
  BY <1>1, OutcomeFacts DEF Kinds
<1>3. /\ pc' = [j \in Calls |-> IF j \in {k} THEN "returned" ELSE pc[j]]
      /\ result' = [j \in Calls |-> IF j \in {k} THEN r ELSE result[j]]
      /\ pc[k] = "selecting" /\ UNCHANGED <<buf, closed, op, pos>>
  BY <1>1 DEF SelectDefault, ReturnAll
<1>4. QED
  BY <1>2, <1>3, OneReturns

LEMMA SelectPutBufferKeeps ==
    ASSUME IInv, NEW k \in Calls, NEW c \in Chans, SelectPutBuffer(k, c)
    PROVE  IInv'
<1>1. /\ pc[k] = "selecting" /\ ~closed[c] /\ Takers(c) = {} /\ Len(buf[c]) < Cap[c]
      /\ buf' = [buf EXCEPT ![c] = Append(@, k)]
      /\ pc' = [j \in Calls |-> IF j \in {k} THEN "returned" ELSE pc[j]]
      /\ result' = [j \in Calls |-> IF j \in {k} THEN Outcome("put", c, None) ELSE result[j]]
      /\ UNCHANGED <<closed, op, pos>>
  BY DEF SelectPutBuffer, ReturnAll
<1>2. /\ result'[k] = Outcome("put", c, None) /\ result'[k] \in Answer
      /\ \A j \in Calls \ {k} : result'[j] = result[j]
      /\ result' = [j \in Calls |-> result'[j]]
  BY <1>1, OutcomeFacts DEF Kinds
<1>3. /\ buf' \in [Chans -> Seq(Calls)] /\ buf'[c] = Append(buf[c], k)
      /\ \A d \in Chans \ {c} : buf'[d] = buf[d]
      /\ Len(buf'[c]) = Len(buf[c]) + 1 /\ Len(buf[c]) \in Nat
  BY <1>1, AppendFacts DEF IInv, Types
<1>4. \A d \in Chans : Len(buf'[d]) <= Cap[d]
  BY <1>1, <1>3, AltsAssumption DEF IInv, Types
<1>5. closed' \in [Chans -> BOOLEAN]
  BY <1>1 DEF IInv, Types
<1>6. /\ Types' /\ Fresh' /\ result[k] = Pending
      /\ \A j \in Calls : pc'[j] = "parked" => pc[j] = "parked" /\ j # k
  BY <1>1, <1>2, <1>3, <1>4, <1>5, Returns DEF IInv
<1>7. Where' /\ Once'
  BY <1>1, <1>2, <1>6, PutIn DEF IInv
<1>8. NilIsEnd'
  <2>1. \A j \in Calls : result'[j] = result[j] \/ result'[j].kind # "nil"
    BY <1>2, OutcomeFacts
  <2>2. QED
    BY <1>1, <1>3, <2>1, EndStays DEF IInv
<1>9. NoLostWakeup'
  <2>1. \A j \in Calls : pc'[j] = "parked" => c \notin Puts(j) /\ c \notin Takes(j)
    <3>1. ASSUME NEW j \in Calls, pc'[j] = "parked", c \in Puts(j) PROVE FALSE
      BY <1>1, <1>6, <3>1 DEF IInv, NoLostWakeup, SomeReady
    <3>2. QED
      BY <1>1, <1>6, <3>1 DEF Takers
  <2>2. QED
    BY <1>1, <1>3, <1>6, <2>1, Asleep DEF IInv
<1>10. QED
  BY <1>6, <1>7, <1>8, <1>9 DEF IInv

\* Two calls meet: a puts, b takes the value of a.
LEMMA TwoMeet ==
    ASSUME IInv, NEW a \in Calls, NEW b \in Calls, NEW c \in Chans, a # b,
           pc[a] \in {"selecting", "parked"}, pc[b] \in {"selecting", "parked"},
           pc' = [j \in Calls |-> IF j \in {a, b} THEN "returned" ELSE pc[j]],
           result' = [j \in Calls |-> IF j \in {a, b}
                        THEN IF j = a THEN Outcome("put", c, None) ELSE Delivery(c, a)
                        ELSE result[j]],
           UNCHANGED <<buf, closed, op, pos>>
    PROVE  IInv'
<1>1. /\ result'[a] = Outcome("put", c, None) /\ result'[a] \in Answer
      /\ Took(result'[b], a, c) /\ result'[b] \in Answer /\ result'[b].kind # "nil"
      /\ \A j \in Calls \ {a, b} : result'[j] = result[j]
      /\ result' = [j \in Calls |-> result'[j]]
  BY OutcomeFacts, DeliveryFacts DEF Kinds
<1>2. /\ buf' \in [Chans -> Seq(Calls)] /\ closed' \in [Chans -> BOOLEAN]
      /\ \A d \in Chans : Len(buf'[d]) <= Cap[d]
  BY DEF IInv, Types
<1>3. PICK S : S = {a, b}
  OBVIOUS
<1>4. /\ S \subseteq Calls /\ \A j \in S : pc[j] \in {"selecting", "parked"}
      /\ \A j \in S : result'[j] \in Answer
      /\ \A j \in Calls \ S : result'[j] = result[j]
  BY <1>1, <1>3
<1>5. /\ Types' /\ Fresh' /\ result[a] = Pending /\ result[b] = Pending
      /\ \A j \in Calls : pc'[j] = "parked" => pc[j] = "parked"
  BY <1>1, <1>2, <1>3, <1>4, Returns DEF IInv
<1>6. Where' /\ Once'
  BY <1>1, <1>5, HandedOver DEF IInv
<1>7. NilIsEnd'
  <2>1. \A j \in Calls : result'[j] = result[j] \/ result'[j].kind # "nil"
    BY <1>1, OutcomeFacts
  <2>2. QED
    BY <2>1, EndStays DEF IInv
<1>8. NoLostWakeup'
  BY <1>5, Asleep DEF IInv
<1>9. QED
  BY <1>5, <1>6, <1>7, <1>8 DEF IInv

LEMMA SelectPutHandOverKeeps ==
    ASSUME IInv, NEW k \in Calls, NEW c \in Chans, SelectPutHandOver(k, c)
    PROVE  IInv'
<1>1. PICK t \in Takers(c) :
         ReturnAll([j \in {k, t} |-> IF j = k THEN Outcome("put", c, None)
                                             ELSE Delivery(c, k)])
  BY DEF SelectPutHandOver
<1>2. /\ pc[k] = "selecting" /\ UNCHANGED <<buf, closed, op, pos>>
      /\ t \in Calls /\ pc[t] = "parked"
  BY DEF SelectPutHandOver, Takers
<1>3. QED
  BY <1>1, <1>2, TwoMeet DEF ReturnAll

LEMMA SelectTakeDirectKeeps ==
    ASSUME IInv, NEW k \in Calls, NEW c \in Chans, SelectTakeDirect(k, c)
    PROVE  IInv'
<1>1. PICK p \in Putters(c) :
         ReturnAll([j \in {k, p} |-> IF j = k THEN Delivery(c, p)
                                             ELSE Outcome("put", c, None)])
  BY DEF SelectTakeDirect
<1>2. /\ pc[k] = "selecting" /\ UNCHANGED <<buf, closed, op, pos>>
      /\ p \in Calls /\ pc[p] = "parked"
  BY DEF SelectTakeDirect, Putters
<1>3. /\ pc' = [j \in Calls |-> IF j \in {p, k} THEN "returned" ELSE pc[j]]
      /\ result' = [j \in Calls |-> IF j \in {p, k}
                      THEN IF j = p THEN Outcome("put", c, None) ELSE Delivery(c, p)
                      ELSE result[j]]
  BY <1>1, <1>2 DEF ReturnAll
<1>4. QED
  BY <1>2, <1>3, TwoMeet

LEMMA SelectTakeBufferKeeps ==
    ASSUME IInv, NEW k \in Calls, NEW c \in Chans, SelectTakeBuffer(k, c)
    PROVE  IInv'
<1>1. /\ pc[k] = "selecting" /\ buf[c] # <<>> /\ UNCHANGED <<closed, op, pos>>
  BY DEF SelectTakeBuffer
<1>2. PICK v : v = Head(buf[c])
  OBVIOUS
<1>3. /\ buf[c] \in Seq(Calls) /\ Len(buf[c]) <= Cap[c] /\ closed' \in [Chans -> BOOLEAN]
      /\ Tail(buf[c]) \in Seq(Calls) /\ Len(Tail(buf[c])) = Len(buf[c]) - 1
      /\ Len(buf[c]) \in Nat \ {0} /\ v \in Calls
  BY <1>1, <1>2, TailFacts DEF IInv, Types
<1>4. /\ Delivery(c, v) \in Answer /\ Took(Delivery(c, v), v, c) /\ Delivery(c, v).kind # "nil"
      /\ Outcome("put", c, None) \in Answer
  BY <1>3, OutcomeFacts, DeliveryFacts DEF Kinds
<1>5. Cap[c] \in Nat
  BY AltsAssumption
<1>6. CASE /\ Putters(c) = {}
           /\ buf' = [buf EXCEPT ![c] = Tail(@)]
           /\ ReturnAll([j \in {k} |-> Delivery(c, Head(buf[c]))])
  <2>1. /\ pc' = [j \in Calls |-> IF j \in {k} THEN "returned" ELSE pc[j]]
        /\ result' = [j \in Calls |-> IF j \in {k} THEN Delivery(c, v) ELSE result[j]]
    BY <1>2, <1>6 DEF ReturnAll
  <2>2. /\ Took(result'[k], v, c) /\ result'[k] \in Answer /\ result'[k].kind # "nil"
        /\ \A j \in Calls \ {k} : result'[j] = result[j]
        /\ result' = [j \in Calls |-> result'[j]]
    BY <1>4, <2>1
  <2>3. /\ buf' \in [Chans -> Seq(Calls)] /\ buf'[c] = Tail(buf[c])
        /\ \A d \in Chans \ {c} : buf'[d] = buf[d]
    BY <1>3, <1>6 DEF IInv, Types
  <2>4. \A d \in Chans : Len(buf'[d]) <= Cap[d]
    <3>1. Len(buf'[c]) <= Cap[c]
      <4>1. \A n, m, l : n \in Nat \ {0} /\ m \in Nat /\ n <= m /\ l = n - 1 => l <= m
        OBVIOUS
      <4>2. QED
        BY <1>3, <1>5, <2>3, <4>1
    <3>2. QED
      BY <2>3, <3>1 DEF IInv, Types
  <2>5. /\ Types' /\ Fresh' /\ result[k] = Pending
        /\ \A j \in Calls : pc'[j] = "parked" => pc[j] = "parked"
    BY <1>1, <1>3, <2>1, <2>2, <2>3, <2>4, Returns DEF IInv
  <2>6. Where' /\ Once'
    BY <1>1, <1>2, <1>6, <2>2, <2>5, TakenOut DEF IInv
  <2>7. NilIsEnd'
    <3>1. \A j \in Calls : result'[j] = result[j] \/ result'[j].kind # "nil"
      BY <2>2, OutcomeFacts
    <3>2. QED
      BY <1>1, <2>3, <3>1, EndStays DEF IInv
  <2>8. NoLostWakeup'
    <3>1. \A j \in Calls : pc'[j] = "parked" => c \notin Puts(j) /\ c \notin Takes(j)
      <4>1. ASSUME NEW j \in Calls, pc'[j] = "parked", c \in Takes(j) PROVE FALSE
        BY <1>1, <2>5, <4>1 DEF IInv, NoLostWakeup, SomeReady
      <4>2. QED
        BY <1>6, <2>5, <4>1 DEF Putters
    <3>2. QED
      BY <1>1, <2>3, <2>5, <3>1, Asleep DEF IInv
  <2>9. QED
    BY <2>5, <2>6, <2>7, <2>8 DEF IInv
<1>7. ASSUME NEW p \in Putters(c),
             buf' = [buf EXCEPT ![c] = Append(Tail(@), p)],
             ReturnAll([j \in {k, p} |-> IF j = k THEN Delivery(c, Head(buf[c]))
                                                  ELSE Outcome("put", c, None)])
      PROVE  IInv'
  <2>1. p \in Calls /\ pc[p] = "parked" /\ p # k
    BY <1>1 DEF Putters
  <2>2. /\ pc' = [j \in Calls |-> IF j \in {k, p} THEN "returned" ELSE pc[j]]
        /\ result' = [j \in Calls |-> IF j \in {k, p}
                        THEN IF j = k THEN Delivery(c, v) ELSE Outcome("put", c, None)
                        ELSE result[j]]
    BY <1>2, <1>7 DEF ReturnAll
  <2>3. /\ Took(result'[k], v, c) /\ result'[k] \in Answer /\ result'[k].kind # "nil"
        /\ result'[p] = Outcome("put", c, None) /\ result'[p] \in Answer
        /\ \A j \in Calls \ {k, p} : result'[j] = result[j]
        /\ result' = [j \in Calls |-> result'[j]]
    BY <1>4, <2>1, <2>2
  <2>4. /\ buf' \in [Chans -> Seq(Calls)] /\ buf'[c] = Append(Tail(buf[c]), p)
        /\ \A d \in Chans \ {c} : buf'[d] = buf[d]
        /\ Len(buf'[c]) = Len(buf[c]) /\ buf'[c] # <<>>
    <3>1. /\ Append(Tail(buf[c]), p) \in Seq(Calls)
          /\ Len(Append(Tail(buf[c]), p)) = Len(Tail(buf[c])) + 1
      BY <1>3, <2>1, AppendFacts
    <3>2. Len(Append(Tail(buf[c]), p)) = Len(buf[c]) /\ Append(Tail(buf[c]), p) # <<>>
      <4>1. \A n, l, m : n \in Nat \ {0} /\ l = n - 1 /\ m = l + 1 => m = n
        OBVIOUS
      <4>2. Len(Append(Tail(buf[c]), p)) = Len(buf[c])
        BY <1>3, <3>1, <4>1
      <4>3. Len(<<>>) = 0
        OBVIOUS
      <4>4. QED
        BY <1>3, <4>2, <4>3
    <3>3. QED
      BY <1>7, <3>1, <3>2 DEF IInv, Types
  <2>5. \A d \in Chans : Len(buf'[d]) <= Cap[d]
    BY <2>4 DEF IInv, Types
  <2>6. PICK S : S = {k, p}
    OBVIOUS
  <2>7. /\ S \subseteq Calls /\ \A j \in S : pc[j] \in {"selecting", "parked"}
        /\ \A j \in S : result'[j] \in Answer
        /\ \A j \in Calls \ S : result'[j] = result[j]
    BY <1>1, <2>1, <2>3, <2>6
  <2>8. /\ Types' /\ Fresh' /\ result[k] = Pending /\ result[p] = Pending
        /\ \A j \in Calls : pc'[j] = "parked" => pc[j] = "parked"
    BY <1>1, <1>3, <2>2, <2>3, <2>4, <2>5, <2>6, <2>7, Returns DEF IInv
  <2>9. Where' /\ Once'
    BY <1>1, <1>2, <1>7, <2>1, <2>3, <2>8, TakenAndRefilled DEF IInv
  <2>10. NilIsEnd'
    <3>1. \A j \in Calls : result'[j] = result[j] \/ result'[j].kind # "nil"
      BY <2>3, OutcomeFacts
    <3>2. QED
      BY <1>1, <2>4, <3>1, EndStays DEF IInv
  <2>11. NoLostWakeup'
    <3>1. \A j \in Calls : pc'[j] = "parked" => c \notin Takes(j)
      BY <1>1, <2>8 DEF IInv, NoLostWakeup, SomeReady
    <3>2. QED
      BY <1>1, <2>4, <2>8, <3>1, Asleep DEF IInv
  <2>12. QED
    BY <2>8, <2>9, <2>10, <2>11 DEF IInv
<1>8. QED
  BY <1>6, <1>7 DEF SelectTakeBuffer

LEMMA SelectParkKeeps ==
    ASSUME IInv, NEW k \in Calls, SelectPark(k)
    PROVE  IInv'
<1>1. /\ pc' = [pc EXCEPT ![k] = "parked"] /\ UNCHANGED <<buf, closed, op, pos, result>>
      /\ pc[k] = "selecting"
  BY DEF SelectPark
<1>2. Types'
  <2>1. /\ pc' \in [Calls -> {"idle", "checking", "selecting", "parked", "returned"}]
        /\ \A j \in Calls : pc'[j] = IF j = k THEN "parked" ELSE pc[j]
    BY <1>1 DEF IInv, Types
  <2>2. QED
    BY <1>1, <2>1 DEF IInv, Types
<1>3. Fresh'
  BY <1>1 DEF IInv, Types, Fresh
<1>4. Where' /\ Once' /\ NilIsEnd'
  BY <1>1, NoneMoves, EndStays DEF IInv
<1>5. NoLostWakeup'
  BY ParkAsleep DEF IInv
<1>6. QED
  BY <1>2, <1>3, <1>4, <1>5 DEF IInv

LEMMA CloseChannelKeeps ==
    ASSUME IInv, NEW c \in Chans, CloseChannel(c)
    PROVE  IInv'
<1>1. PICK S : S = Putters(c) \cup Takers(c)
  OBVIOUS
<1>2. /\ S \subseteq Calls /\ \A j \in S : pc[j] = "parked"
  BY <1>1 DEF Putters, Takers
<1>3. /\ closed' = [closed EXCEPT ![c] = TRUE] /\ UNCHANGED <<buf, op, pos>>
      /\ pc' = [j \in Calls |-> IF j \in S THEN "returned" ELSE pc[j]]
      /\ result' = [j \in Calls |-> IF j \in S
           THEN IF j \in Takers(c) THEN Outcome("nil", c, None) ELSE PutOnClosed(j, c)
           ELSE result[j]]
  BY <1>1 DEF CloseChannel, ReturnAll
<1>4. /\ \A j \in S : IF j \in Takers(c) THEN result'[j] = Outcome("nil", c, None)
                                         ELSE result'[j] = PutOnClosed(j, c)
      /\ \A j \in Calls \ S : result'[j] = result[j]
      /\ result' = [j \in Calls |-> result'[j]]
  BY <1>2, <1>3
<1>5. \A j \in S : /\ result'[j] \in Answer /\ result'[j].kind \notin {"put", "take", "raise"}
                   /\ result'[j].ch = c
                   /\ result'[j].kind = "nil" => j \in Takers(c)
  <2>1. ASSUME NEW j \in S, j \in Takers(c)
        PROVE  result'[j] \in Answer /\ result'[j].kind = "nil" /\ result'[j].ch = c
    BY <1>4, <2>1, OutcomeFacts DEF Kinds
  <2>2. ASSUME NEW j \in S, j \notin Takers(c)
        PROVE  /\ result'[j] \in Answer /\ result'[j].kind \in {"refused", "panic"}
               /\ result'[j].ch = c
    BY <1>2, <1>4, <2>2, PutOnClosedFacts
  <2>3. QED
    BY <2>1, <2>2
<1>6. /\ buf' \in [Chans -> Seq(Calls)] /\ closed' \in [Chans -> BOOLEAN]
      /\ \A d \in Chans : Len(buf'[d]) <= Cap[d]
      /\ closed'[c] /\ \A d \in Chans \ {c} : closed'[d] = closed[d]
  BY <1>3 DEF IInv, Types
<1>7. /\ Types' /\ Fresh' /\ \A j \in S : result[j] = Pending
      /\ \A j \in Calls : pc'[j] = "parked" => pc[j] = "parked" /\ j \notin S
  BY <1>2, <1>3, <1>4, <1>5, <1>6, Returns DEF IInv
<1>8. Where' /\ Once'
  BY <1>3, <1>4, <1>5, <1>7, NoneMoves DEF IInv
<1>9. NilIsEnd'
  <2>1. \A j \in Takers(c) : buf[c] = <<>>
    BY DEF IInv, NoLostWakeup, SomeReady, Takers
  <2>2. \A j \in Calls : \/ result'[j] = result[j]
                         \/ result'[j].kind # "nil"
                         \/ result'[j].ch = c /\ closed'[c] /\ buf'[c] = <<>>
    BY <1>3, <1>4, <1>5, <1>6, <2>1
  <2>3. \A d \in Chans : closed[d] /\ buf[d] = <<>> => closed'[d] /\ buf'[d] = <<>>
    BY <1>3, <1>6
  <2>4. QED
    BY <2>2, <2>3, EndStays DEF IInv
<1>10. NoLostWakeup'
  <2>1. \A j \in Calls : pc'[j] = "parked" => c \notin Puts(j) /\ c \notin Takes(j)
    BY <1>1, <1>7 DEF Putters, Takers
  <2>2. QED
    BY <1>3, <1>6, <1>7, <2>1, Asleep DEF IInv
<1>11. QED
  BY <1>7, <1>8, <1>9, <1>10 DEF IInv

-----------------------------------------------------------------------------
LEMMA InitHolds == Init => IInv
<1> SUFFICES ASSUME Init PROVE IInv
  OBVIOUS
<1>1. Types
  <2>1. <<>> \in Seq(Calls) /\ Len(<<>>) = 0
    OBVIOUS
  <2>2. \A c \in Chans : Cap[c] \in Nat
    BY AltsAssumption
  <2>3. \A c \in Chans : buf[c] = <<>> /\ Len(buf[c]) <= Cap[c]
    BY <2>1, <2>2 DEF Init
  <2>4. QED
    BY <2>1, <2>3, PendingFacts DEF Init, Types
<1>2. Fresh /\ NoLostWakeup /\ NilIsEnd
  BY PendingFacts DEF Init, Fresh, NoLostWakeup, NilIsEnd
<1>3. Where
  <2>1. ASSUME NEW k \in Calls, NEW c \in Chans
        PROVE  /\ ~PutOn(k, c) /\ ~InBuffer(k, c)
               /\ \A j \in Calls : ~TakenBy(j, k, c)
    BY PendingFacts, OutcomeFacts DEF Init, PutOn, InBuffer, TakenBy, Took
  <2>2. QED
    BY <2>1 DEF Where
<1>4. Once
  <2>1. \A c \in Chans : 1..Len(buf[c]) = {}
    BY DEF Init
  <2>2. \A j, k \in Calls, c \in Chans : ~TakenBy(j, k, c)
    BY PendingFacts, OutcomeFacts DEF Init, TakenBy, Took
  <2>3. QED
    BY <2>1, <2>2 DEF Once
<1>5. QED
  BY <1>1, <1>2, <1>3, <1>4 DEF IInv

LEMMA StepKeeps == IInv /\ [Next]_vars => IInv'
<1> SUFFICES ASSUME IInv, [Next]_vars PROVE IInv'
  OBVIOUS
<1>1. ASSUME NEW k \in Calls, Begin(k) PROVE IInv'
  BY <1>1, BeginKeeps
<1>2. ASSUME NEW k \in Calls, CallStep(k) PROVE IInv'
  BY <1>2, CheckPortKeeps, SelectPutClosedKeeps, SelectPutBufferKeeps,
     SelectPutHandOverKeeps, SelectTakeBufferKeeps, SelectTakeDirectKeeps,
     SelectTakeClosedKeeps, SelectDefaultKeeps, SelectParkKeeps DEF CallStep
<1>3. ASSUME NEW c \in Chans, CloseChannel(c) PROVE IInv'
  BY <1>3, CloseChannelKeeps
<1>4. CASE UNCHANGED vars
  <2>1. UNCHANGED <<buf, closed, op, pc, pos, result>>
    BY <1>4 DEF vars
  <2>2. Where' /\ Once' /\ NilIsEnd'
    BY <2>1, NoneMoves, EndStays DEF IInv
  <2>3. NoLostWakeup'
    BY <2>1, Asleep DEF IInv
  <2>4. QED
    BY <2>1, <2>2, <2>3 DEF IInv, Types, Fresh
<1>5. QED
  BY <1>1, <1>2, <1>3, <1>4 DEF Next

LEMMA Always == Spec => []IInv
  BY InitHolds, StepKeeps, PTL DEF Spec

-----------------------------------------------------------------------------
LEMMA AtMostOne ==
    ASSUME NEW A, \A x, y \in A : x = y
    PROVE  Cardinality(A) = IF A = {} THEN 0 ELSE 1
<1>1. CASE A = {}
  BY <1>1, FS_EmptySet
<1>2. ASSUME NEW x \in A PROVE Cardinality(A) = 1
  <2>1. A = {x}
    BY <1>2
  <2>2. QED
    BY <2>1, FS_Singleton
<1>3. QED
  BY <1>1, <1>2

LEMMA OneCopy ==
    ASSUME IInv, NEW k \in Calls, NEW c \in Chans
    PROVE  Cardinality({i \in DOMAIN buf[c] : buf[c][i] = k}) + Cardinality(TakenFrom(k, c))
             = IF PutOn(k, c) THEN 1 ELSE 0
<1>1. PICK places : places = {i \in DOMAIN buf[c] : buf[c][i] = k}
  OBVIOUS
<1>2. PICK takers : takers = TakenFrom(k, c)
  OBVIOUS
<1>3. /\ places # {} <=> InBuffer(k, c)
      /\ takers # {} <=> \E j \in Calls : TakenBy(j, k, c)
  BY <1>1, <1>2 DEF InBuffer, TakenFrom, TakenBy, Took
<1>4. \A i, j \in places : i = j
  <2>1. DOMAIN buf[c] = 1..Len(buf[c])
    BY DEF IInv, Types
  <2>2. QED
    BY <1>1, <2>1 DEF IInv, Once
<1>5. \A i, j \in takers : i = j
  BY <1>2 DEF TakenFrom, TakenBy, Took, IInv, Once
<1>6. /\ Cardinality(places) = IF places = {} THEN 0 ELSE 1
      /\ Cardinality(takers) = IF takers = {} THEN 0 ELSE 1
  BY <1>4, <1>5, AtMostOne
<1>7. /\ ~(places # {} /\ takers # {})
      /\ PutOn(k, c) <=> places # {} \/ takers # {}
  BY <1>3 DEF IInv, Once, Where
<1>8. Cardinality(places) + Cardinality(takers) = IF PutOn(k, c) THEN 1 ELSE 0
  BY <1>6, <1>7
<1>9. QED
  BY <1>1, <1>2, <1>8

\* Every variable keeps its type, no buffer ever holds more than its capacity,
\* and every call that answers names one of the eight outcomes of
\* runtime_kernel.go and a channel of its own world.
THEOREM TypeCorrect == Spec => []TypeOK
<1>1. IInv => TypeOK
  BY DEF IInv, Types, TypeOK, Answer
<1>2. QED
  BY <1>1, Always, PTL

\* procAlts commits one port and names it: however many calls and channels, the
\* value of a call is on a channel, once, exactly when the call says it put it
\* there, and who is told the end finds the channel closed and empty.
THEOREM OneCommitCorrect == Spec => []OneCommit
<1>1. IInv => OneCommit
  <2> SUFFICES ASSUME IInv PROVE OneCommit
    OBVIOUS
  <2>1. \A k \in Calls, c \in Chans :
          Cardinality({i \in DOMAIN buf[c] : buf[c][i] = k}) + Cardinality(TakenFrom(k, c))
            = IF PutOn(k, c) THEN 1 ELSE 0
    BY OneCopy
  <2>2. QED
    BY <2>1 DEF OneCommit, PutOn, IInv, NilIsEnd
<1>2. QED
  BY <1>1, Always, PTL

\* procAlts asks every put port whether its channel is closed before it selects: a call
\* with a closed one still ahead answers [false ch] and touches none of its other ports,
\* for any number of ports, calls and closes.
THEOREM ClosedIsRefusedCorrect == Spec => ClosedIsRefused
<1> DEFINE Refused(k) == /\ pc'[k] = "returned"
                         /\ \E c \in Puts(k) : closed[c] /\ result'[k] = Outcome("refused", c, None)
<1>1. ASSUME IInv, [Next]_vars, NEW k \in Calls, Doomed(k) PROVE Doomed(k)' \/ Refused(k)
  <2>1. pc[k] = "checking" /\ pc \in [Calls -> {"idle", "checking", "selecting", "parked", "returned"}]
    BY <1>1 DEF Doomed, IInv, Types
  <2>2. PICK i \in pos[k]..Len(op[k].ports) : op[k].ports[i].put /\ closed[op[k].ports[i].ch]
    BY <1>1 DEF Doomed
  <2>3. /\ pos[k] \in Nat \ {0} /\ op[k] \in Menu /\ op[k].ports \in Seq(Port)
        /\ Len(op[k].ports) \in Nat /\ i \in 1..Len(op[k].ports)
        /\ op[k].ports[i] \in Port
    <3>1. op[k] \in Menu /\ pos[k] \in Nat \ {0}
      BY <2>1, <1>1 DEF IInv, Types
    <3>2. op[k].ports \in Seq(Port)
      BY <3>1, AltsAssumption
    <3>3. QED
      BY <2>2, <3>1, <3>2
  <2>4. CASE CheckPort(k)
    <3> DEFINE port == op[k].ports[pos[k]]
    <3>0. pos[k] \in 1..Len(op[k].ports)
      BY <2>2, <2>3
    <3>1. CASE port.put /\ closed[port.ch]
      <4>1. ReturnAll([j \in {k} |-> Outcome("refused", port.ch, None)])
        BY <2>4, <3>1 DEF CheckPort
      <4>2. pc'[k] = "returned" /\ result'[k] = Outcome("refused", port.ch, None)
        BY <4>1 DEF ReturnAll
      <4>3. port.ch \in Puts(k)
        BY <3>0, <3>1, <2>3 DEF Puts, PortsOf
      <4>4. QED
        BY <3>1, <4>2, <4>3
    <3>2. CASE ~(port.put /\ closed[port.ch])
      <4>1. /\ UNCHANGED <<op, closed>>
            /\ pos' = [pos EXCEPT ![k] = @ + 1]
            /\ pc' = [pc EXCEPT ![k] = IF pos[k] = Len(op[k].ports) THEN "selecting" ELSE "checking"]
        BY <2>4, <3>2 DEF CheckPort
      <4>2. i # pos[k] /\ pos[k] # Len(op[k].ports) /\ i \in (pos[k] + 1)..Len(op[k].ports)
        BY <2>2, <2>3, <3>0, <3>2
      <4>3. pos'[k] = pos[k] + 1
        BY <4>1, <1>1 DEF IInv, Types
      <4>4. pc'[k] = "checking"
        BY <4>1, <4>2, <2>1
      <4>5. QED
        BY <2>2, <4>1, <4>2, <4>3, <4>4 DEF Doomed
    <3>3. QED
      BY <3>1, <3>2
  <2>5. ASSUME pc'[k] = pc[k], pos'[k] = pos[k], op'[k] = op[k],
               \A c \in Chans : closed[c] => closed'[c]
        PROVE  Doomed(k)'
    BY <2>1, <2>2, <2>3, <2>5 DEF Doomed, Port
  <2>6. ASSUME NEW c \in Chans, CloseChannel(c) PROVE Doomed(k)'
    <3>1. k \notin Putters(c) \cup Takers(c)
      BY <2>1 DEF Putters, Takers
    <3>2. pc'[k] = pc[k]
      BY <2>6, <3>1 DEF CloseChannel, ReturnAll
    <3>3. \A d \in Chans : closed[d] => closed'[d]
      BY <2>6, <1>1 DEF CloseChannel, IInv, Types
    <3>4. QED
      BY <2>5, <2>6, <3>2, <3>3 DEF CloseChannel
  <2>7. ASSUME NEW j \in Calls, Begin(j) PROVE Doomed(k)'
    <3>1. j # k
      BY <2>1, <2>7 DEF Begin
    <3>2. pc'[k] = pc[k] /\ op'[k] = op[k]
      BY <1>1, <2>7, <3>1 DEF Begin, IInv, Types
    <3>3. QED
      BY <2>5, <2>7, <3>2 DEF Begin
  <2>8. ASSUME NEW j \in Calls, CallStep(j), ~CheckPort(k) PROVE Doomed(k)'
    <3>1. /\ UNCHANGED <<op, closed>> /\ pos'[k] = pos[k]
          /\ \/ pc'[k] = pc[k]
             \/ \E f : ReturnAll(f) /\ \A x \in DOMAIN f : x # k
      <4>1. CASE CheckPort(j)
        <5>1. j # k
          BY <2>8, <4>1
        <5>2. UNCHANGED <<op, closed>> /\ pos'[k] = pos[k]
          BY <1>1, <4>1, <5>1 DEF CheckPort, IInv, Types
        <5>3. pc'[k] = pc[k]
          BY <1>1, <4>1, <5>1 DEF CheckPort, ReturnAll, IInv, Types
        <5>4. QED
          BY <5>2, <5>3
      <4>2. ASSUME NEW c \in Chans,
                   SelectPutClosed(j, c) \/ SelectPutBuffer(j, c) \/ SelectTakeClosed(j, c)
                     \/ SelectPutHandOver(j, c) \/ SelectTakeBuffer(j, c) \/ SelectTakeDirect(j, c)
            PROVE  pc'[k] = pc[k] /\ UNCHANGED <<op, closed, pos>>
        <5>1. j # k /\ k \notin Takers(c) /\ k \notin Putters(c)
          BY <2>1, <4>2 DEF SelectPutClosed, SelectPutBuffer, SelectTakeClosed, SelectPutHandOver,
             SelectTakeBuffer, SelectTakeDirect, Takers, Putters
        <5>2. QED
          BY <4>2, <5>1 DEF SelectPutClosed, SelectPutBuffer, SelectTakeClosed, SelectPutHandOver,
             SelectTakeBuffer, SelectTakeDirect, ReturnAll
      <4>3. CASE SelectDefault(j)
        BY <2>1, <4>3 DEF SelectDefault, ReturnAll
      <4>4. CASE SelectPark(j)
        BY <2>1, <4>4 DEF SelectPark
      <4>5. QED
        BY <2>8, <4>1, <4>2, <4>3, <4>4 DEF CallStep
    <3>2. pc'[k] = pc[k]
      BY <3>1 DEF ReturnAll
    <3>3. QED
      BY <2>5, <3>1, <3>2
  <2>9. CASE UNCHANGED vars
    BY <2>5, <2>9 DEF vars
  <2>10. QED
    BY <1>1, <2>4, <2>6, <2>7, <2>8, <2>9 DEF Next
<1>2. IInv /\ [Next]_vars =>
        [\A k \in Calls : Doomed(k) =>
           \/ Doomed(k)'
           \/ pc'[k] = "returned" /\ \E c \in Puts(k) : closed[c] /\ result'[k] = Outcome("refused", c, None)
        ]_vars
  BY <1>1
<1>3. QED
  BY <1>2, Always, PTL DEF Spec, ClosedIsRefused
=============================================================================
