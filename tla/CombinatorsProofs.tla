--------------------------- MODULE CombinatorsProofs ---------------------------
(***************************************************************************)
(* Theorems about the combinators of core.async: for every kind of them,   *)
(* any channels, any number of values, and however taps and subscribers    *)
(* come, go and close meanwhile.                                           *)
(***************************************************************************)
EXTENDS Combinators, SequenceTheorems, FiniteSetTheorems, TLAPS

-----------------------------------------------------------------------------
\* The members of a sequence, as they are taken from it and added to it.
LEMMA HeadFacts ==
    ASSUME NEW S, NEW s \in Seq(S), s # <<>>
    PROVE  /\ Head(s) \in S /\ Tail(s) \in Seq(S)
           /\ Range(s) = {Head(s)} \cup Range(Tail(s))
           /\ Len(s) = 1 <=> Tail(s) = <<>>
           /\ IsInjective(s) => IsInjective(Tail(s)) /\ Head(s) \notin Range(Tail(s))
<1> DEFINE t == Tail(s)  n == Len(s)
<1>1. /\ n \in Nat \ {0} /\ t \in Seq(S) /\ Len(t) = n - 1
      /\ \A i \in 1..n - 1 : t[i] = s[i + 1]
      /\ Head(s) = s[1] /\ s[1] \in S /\ DOMAIN s = 1..n /\ DOMAIN t = 1..n - 1
  OBVIOUS
<1>2. n = 1 <=> t = <<>>
  <2> HIDE DEF n, t
  <2>1. Len(t) = 0 <=> t = <<>>
    BY <1>1, EmptySeq
  <2>2. QED
    BY <1>1, <2>1
<1> HIDE DEF n, t
<1>3. \A i \in 1..n : i = 1 \/ (i - 1 \in 1..n - 1 /\ s[i] = t[i - 1])
  BY <1>1
<1>4. \A i \in 1..n - 1 : i + 1 \in 1..n /\ i + 1 # 1 /\ t[i] = s[i + 1]
  BY <1>1
<1>5. 1 \in 1..n
  BY <1>1
<1>6. Range(s) = {s[1]} \cup Range(t)
  <2>1. ASSUME NEW x \in Range(s) PROVE x \in {s[1]} \cup Range(t)
    <3>1. PICK i \in 1..n : x = s[i]
      BY <1>1, <2>1 DEF Range
    <3>2. i - 1 \in 1..n - 1 => t[i - 1] \in Range(t)
      BY <1>1 DEF Range
    <3>3. QED
      BY <1>3, <3>1, <3>2
  <2>2. ASSUME NEW x \in Range(t) PROVE x \in Range(s)
    BY <1>1, <1>4 DEF Range
  <2>3. s[1] \in Range(s)
    BY <1>1, <1>5 DEF Range
  <2>4. QED
    BY <2>1, <2>2, <2>3
<1>7. ASSUME IsInjective(s) PROVE IsInjective(t) /\ s[1] \notin Range(t)
  <2>1. \A i, j \in 1..n : s[i] = s[j] => i = j
    BY <1>1, <1>7 DEF IsInjective
  <2>2. ASSUME NEW i \in 1..n - 1, NEW j \in 1..n - 1, t[i] = t[j] PROVE i = j
    <3>1. i + 1 = j + 1
      BY <1>4, <2>1, <2>2
    <3>2. QED
      BY <1>1, <3>1
  <2>3. s[1] \notin Range(t)
    <3>1. \A i \in 1..n - 1 : t[i] # s[1]
      BY <1>4, <1>5, <2>1
    <3>2. QED
      BY <1>1, <3>1 DEF Range
  <2>4. QED
    BY <1>1, <2>2, <2>3 DEF IsInjective
<1>8. QED
  BY <1>1, <1>2, <1>6, <1>7 DEF n, t

LEMMA MoreFacts ==
    ASSUME NEW S, NEW s \in Seq(S), NEW e \in S
    PROVE  /\ Append(s, e) \in Seq(S) /\ Len(s) \in Nat
           /\ DOMAIN s = 1..Len(s) /\ DOMAIN Append(s, e) = 1..Len(s) + 1
           /\ \A i \in 1..Len(s) : Append(s, e)[i] = s[i]
           /\ Append(s, e)[Len(s) + 1] = e
           /\ Range(Append(s, e)) = Range(s) \cup {e}
           /\ IsInjective(s) /\ e \notin Range(s) => IsInjective(Append(s, e))
<1> DEFINE t == Append(s, e)  n == Len(s)
<1>1. /\ n \in Nat /\ t \in Seq(S) /\ Len(t) = n + 1 /\ t[n + 1] = e
      /\ \A i \in 1..n : t[i] = s[i]
      /\ DOMAIN s = 1..n /\ DOMAIN t = 1..n + 1
  OBVIOUS
<1> HIDE DEF n, t
<1>2. \A i \in 1..n + 1 : i = n + 1 \/ i \in 1..n
  BY <1>1
<1>3. n + 1 \in 1..n + 1 /\ n + 1 \notin 1..n /\ 1..n \subseteq 1..n + 1
  BY <1>1
<1>4. Range(t) = Range(s) \cup {e}
  <2>1. ASSUME NEW x \in Range(t) PROVE x \in Range(s) \cup {e}
    BY <1>1, <1>2 DEF Range
  <2>2. ASSUME NEW x \in Range(s) PROVE x \in Range(t)
    BY <1>1, <1>3 DEF Range
  <2>3. e \in Range(t)
    BY <1>1, <1>3 DEF Range
  <2>4. QED
    BY <2>1, <2>2, <2>3
<1>5. ASSUME IsInjective(s), e \notin Range(s) PROVE IsInjective(t)
  <2>1. \A i, j \in 1..n : s[i] = s[j] => i = j
    BY <1>1, <1>5 DEF IsInjective
  <2>2. \A i \in 1..n : s[i] # e
    BY <1>1, <1>5 DEF Range
  <2>3. \A i, j \in 1..n + 1 : t[i] = t[j] => i = j
    BY <1>1, <1>2, <1>3, <2>1, <2>2
  <2>4. QED
    BY <1>1, <2>3 DEF IsInjective
<1>6. QED
  BY <1>1, <1>4, <1>5 DEF n, t

LEMMA NoneFacts ==
    ASSUME NEW S
    PROVE  <<>> \in Seq(S) /\ Range(<<>>) = {} /\ IsInjective(<<>>)
<1>1. <<>> \in Seq(S) /\ Len(<<>>) = 0 /\ DOMAIN <<>> = {}
  OBVIOUS
<1>2. QED
  BY <1>1 DEF Range, IsInjective

LEMMA OneFacts ==
    ASSUME NEW S, NEW e \in S
    PROVE  <<e>> \in Seq(S) /\ Range(<<e>>) = {e} /\ IsInjective(<<e>>)
<1>1. <<e>> \in Seq(S) /\ <<e>>[1] = e /\ DOMAIN <<e>> = {1}
  OBVIOUS
<1>2. QED
  BY <1>1 DEF Range, IsInjective

LEMMA RangeFacts ==
    ASSUME NEW S, NEW s \in Seq(S)
    PROVE  Range(s) \subseteq S /\ IsFiniteSet(Range(s))
<1>1. Len(s) \in Nat /\ DOMAIN s = 1..Len(s) /\ s \in [1..Len(s) -> S]
  OBVIOUS
<1>2. Range(s) \subseteq S
  BY <1>1 DEF Range
<1>3. s \in Surjection(1..Len(s), Range(s))
  BY <1>1 DEF Surjection, Range
<1>4. IsFiniteSet(1..Len(s))
  BY <1>1, FS_Interval
<1>5. QED
  BY <1>2, <1>3, <1>4, FS_Surjection

\* The orders of a finite set.
LEMMA OrderFacts ==
    ASSUME NEW T, IsFiniteSet(T), NEW s \in SetToSeqs(T)
    PROVE  s \in Seq(T) /\ Range(s) = T /\ IsInjective(s)
<1> DEFINE n == Cardinality(T)
<1>1. n \in Nat
  BY FS_CardinalityType
<1>2. s \in [1..n -> T] /\ \A i, j \in 1..n : i # j => s[i] # s[j]
  BY DEF SetToSeqs
<1> HIDE DEF n
<1>3. s \in Seq(T)
  BY <1>1, <1>2
<1>4. IsInjective(s) /\ s \in Injection(1..n, T)
  BY <1>2 DEF IsInjective, Injection
<1>5. Cardinality(1..n) = n
  BY <1>1, FS_Interval
<1>6. s \in Surjection(1..n, T)
  BY <1>4, <1>5, FS_Injection DEF n
<1>7. Range(s) = T
  BY <1>2, <1>6 DEF Surjection, Range
<1>8. QED
  BY <1>3, <1>4, <1>7

-----------------------------------------------------------------------------
\* A list without a channel: the recursion of Without has a solution, by
\* induction, which rests on the finite subsets of Nat being well founded under
\* inclusion.
IsWithout(f, s, c, n) ==
    f = [i \in 0..n |-> IF i = 0 THEN <<>>
                        ELSE IF s[i] = c THEN f[i - 1]
                        ELSE Append(f[i - 1], s[i])]

\* A set of natural numbers has a least member.
LEMMA LeastNat ==
  ASSUME NEW T \in SUBSET Nat, T # {}
  PROVE \E x \in T : \A y \in T : x <= y
<1> DEFINE U == {0..x : x \in T}
<1>1. U \subseteq FiniteSubsetsOf(Nat) /\ U # {}
  <2>1. \A x \in T : 0..x \subseteq Nat /\ IsFiniteSet(0..x)
    BY FS_Interval
  <2>2. QED
   BY <2>1 DEF FiniteSubsetsOf
<1>2. PICK X \in U : \A Y \in U : ~(<<Y, X>> \in StrictSubsetOrdering(Nat))
  <2> HIDE DEF U
  <2> QED
  BY <1>1, FS_StrictSubsetOrderingWellFounded, WFMin, Zenon
<1>3. PICK x \in T : X = 0..x
  OBVIOUS
<1>4. ASSUME NEW y \in T, y < x PROVE FALSE
  <2>1. 0..y \subseteq 0..x /\ x \in 0..x /\ x \notin 0..y
    BY <1>4
  <2>2. 0..y \in U /\ 0..y \subseteq Nat /\ 0..x \subseteq Nat
    OBVIOUS
  <2>3. <<0..y, X>> \in StrictSubsetOrdering(Nat)
    BY <1>3, <2>1, <2>2 DEF StrictSubsetOrdering
  <2>4. QED
    BY <1>2, <2>2, <2>3
<1>5. QED
  BY <1>4


\* Induction, for sets.
LEMMA NatInd ==
    ASSUME NEW S, 0 \in S, \A n \in Nat : n \in S => n + 1 \in S
    PROVE  Nat \subseteq S
<1> SUFFICES ASSUME NEW m \in Nat \ S PROVE FALSE
  OBVIOUS
<1>1. PICK x \in Nat \ S : \A y \in Nat \ S : x <= y
  BY LeastNat
<1>2. x # 0 /\ x - 1 \in Nat
  BY <1>1
<1>3. x - 1 \in S
  BY <1>1, <1>2
<1>4. QED
  BY <1>1, <1>2, <1>3

LEMMA WithoutExists ==
    ASSUME NEW s, NEW c, NEW m \in Nat
    PROVE  \E f : IsWithout(f, s, c, m)
<1> DEFINE S == {n \in Nat : \E f : IsWithout(f, s, c, n)}
<1>1. 0 \in S
  <2> DEFINE f == [i \in 0..0 |-> <<>>]
  <2>1. \A i \in 0..0 : i = 0
    OBVIOUS
  <2>2. IsWithout(f, s, c, 0)
    BY <2>1 DEF IsWithout
  <2>3. QED
    BY <2>2
<1>2. ASSUME NEW n \in Nat, n \in S PROVE n + 1 \in S
  <2>1. PICK f : IsWithout(f, s, c, n)
    BY <1>2
  <2> DEFINE g == [i \in 0..n + 1 |->
                     IF i # n + 1 THEN f[i]
                     ELSE IF s[n + 1] = c THEN f[n] ELSE Append(f[n], s[n + 1])]
  <2>2. \A i \in 0..n : i # n + 1 /\ i \in 0..n + 1 /\ g[i] = f[i]
    OBVIOUS
  <2>3. n + 1 \in 0..n + 1 /\ g[n + 1] = IF s[n + 1] = c THEN f[n]
                                         ELSE Append(f[n], s[n + 1])
    OBVIOUS
  <2>d. g = [i \in 0..n + 1 |-> g[i]]
    OBVIOUS
  <2> HIDE DEF g
  <2>4. ASSUME NEW i \in 0..n + 1
        PROVE  g[i] = IF i = 0 THEN <<>>
                      ELSE IF s[i] = c THEN g[i - 1]
                      ELSE Append(g[i - 1], s[i])
    <3>1. CASE i = n + 1
      <4>1. i # 0 /\ i - 1 = n /\ n \in 0..n
        BY <3>1
      <4>2. g[i - 1] = f[n]
        BY <2>2, <4>1
      <4>3. QED
        BY <2>3, <3>1, <4>1, <4>2
    <3>2. CASE i # n + 1
      <4>1. i \in 0..n /\ (i # 0 => i - 1 \in 0..n)
        BY <3>2
      <4>2. f[i] = IF i = 0 THEN <<>>
                   ELSE IF s[i] = c THEN f[i - 1]
                   ELSE Append(f[i - 1], s[i])
        BY <2>1, <4>1 DEF IsWithout
      <4>3. g[i] = f[i] /\ (i # 0 => g[i - 1] = f[i - 1])
        BY <2>2, <4>1
      <4>4. QED
        BY <4>2, <4>3
    <3>3. QED
      BY <3>1, <3>2
  <2>5. IsWithout(g, s, c, n + 1)
    BY <2>d, <2>4 DEF IsWithout
  <2>6. QED
    BY <2>5
<1> HIDE DEF S
<1>3. Nat \subseteq S
  BY <1>1, <1>2, NatInd
<1>4. QED
  BY <1>3 DEF S

LEMMA WithoutIs ==
    ASSUME NEW S, NEW s \in Seq(S), NEW c
    PROVE  \E f : IsWithout(f, s, c, Len(s)) /\ Without(s, c) = f[Len(s)]
<1>1. Len(s) \in Nat
  OBVIOUS
<1>2. \E f : IsWithout(f, s, c, Len(s))
  BY <1>1, WithoutExists
<1>3. Without(s, c) = (CHOOSE f : IsWithout(f, s, c, Len(s)))[Len(s)]
  BY DEF Without, IsWithout
<1>4. QED
  BY <1>2, <1>3

\* Without takes one channel from a list and no other, and adds no double.
LEMMA WithoutFacts ==
    ASSUME NEW S, NEW s \in Seq(S), NEW c
    PROVE  /\ Without(s, c) \in Seq(S)
           /\ Range(Without(s, c)) = Range(s) \ {c}
           /\ IsInjective(s) => IsInjective(Without(s, c))
<1> DEFINE n == Len(s)
           First(i) == {s[k] : k \in 1..i}
<1>1. PICK f : IsWithout(f, s, c, n) /\ Without(s, c) = f[n]
  BY WithoutIs
<1>2. n \in Nat /\ DOMAIN s = 1..n /\ \A i \in 1..n : s[i] \in S
  OBVIOUS
<1> HIDE DEF n
<1>3. f[0] = <<>> /\ \A i \in 1..n : f[i] = IF s[i] = c THEN f[i - 1] ELSE Append(f[i - 1], s[i])
  <2>1. 0 \in 0..n /\ \A i \in 1..n : i \in 0..n /\ i # 0
    BY <1>2
  <2>2. QED
    BY <1>1, <2>1 DEF IsWithout
<1> DEFINE T == {i \in Nat : i <= n => /\ f[i] \in Seq(S)
                                       /\ Range(f[i]) = First(i) \ {c}
                                       /\ IsInjective(s) => IsInjective(f[i])}
<1>4. 0 \in T
  <2>1. First(0) = {}
    OBVIOUS
  <2>2. QED
    BY <1>3, <2>1, NoneFacts
<1>5. ASSUME NEW i \in Nat, i \in T PROVE i + 1 \in T
  <2> SUFFICES ASSUME i + 1 <= n
               PROVE  /\ f[i + 1] \in Seq(S)
                      /\ Range(f[i + 1]) = First(i + 1) \ {c}
                      /\ IsInjective(s) => IsInjective(f[i + 1])
    OBVIOUS
  <2> DEFINE e == s[i + 1]
  <2>1. i + 1 \in 1..n /\ (i + 1) - 1 = i /\ e \in S
    BY <1>2
  <2>2. /\ f[i] \in Seq(S) /\ Range(f[i]) = First(i) \ {c}
        /\ IsInjective(s) => IsInjective(f[i])
    BY <1>2, <1>5, <2>1
  <2>3. f[i + 1] = IF e = c THEN f[i] ELSE Append(f[i], e)
    BY <1>3, <2>1
  <2>4. First(i + 1) = First(i) \cup {e}
    <3>1. 1..(i + 1) = 1..i \cup {i + 1}
      OBVIOUS
    <3>2. QED
      BY <3>1
  <2>5. IsInjective(s) => e \notin First(i)
    <3>1. \A k \in 1..i : k \in 1..n /\ k # i + 1
      BY <1>2, <2>1
    <3>2. QED
      BY <1>2, <2>1, <3>1 DEF IsInjective
  <2> HIDE DEF e, First
  <2>6. CASE e = c
    BY <2>2, <2>3, <2>4, <2>6
  <2>7. CASE e # c
    <3>1. /\ Append(f[i], e) \in Seq(S) /\ Range(Append(f[i], e)) = Range(f[i]) \cup {e}
          /\ IsInjective(f[i]) /\ e \notin Range(f[i]) => IsInjective(Append(f[i], e))
      BY <2>1, <2>2, MoreFacts
    <3>2. QED
      BY <2>2, <2>3, <2>4, <2>5, <2>7, <3>1
  <2>8. QED
    BY <2>6, <2>7
<1> HIDE DEF T
<1>6. Nat \subseteq T
  BY <1>4, <1>5, NatInd
<1>7. /\ f[n] \in Seq(S) /\ Range(f[n]) = First(n) \ {c}
      /\ IsInjective(s) => IsInjective(f[n])
  <2> HIDE DEF First
  <2>1. n \in T /\ n <= n
    BY <1>2, <1>6
  <2>2. QED
    BY <2>1 DEF T
<1>8. First(n) = Range(s)
  BY <1>2 DEF Range
<1>9. QED
  BY <1>1, <1>7, <1>8

-----------------------------------------------------------------------------
\* The parts of the inductive invariant.

Places == {"receiving", "routing", "sending", "closing", "done"}
Live == {"receiving", "routing", "sending"}

Types ==
    /\ kind \in Kinds
    /\ members \in [Topic -> Seq(Sinks)]
    /\ pc \in [Goroutine -> Places]
    /\ received \in [Goroutine -> 0..N + 1] /\ hand \in [Goroutine -> 0..N]
    /\ todo \in [Goroutine -> Seq(Sinks)]
    /\ \A g \in Goroutine : todo[g] = <<>> <=> pc[g] \notin {"sending", "closing"}
    /\ quit \subseteq closed /\ closed \subseteq Sinks
    /\ got \in [Sinks -> Seq(Goroutine \X (1..N))]
    /\ asked \in [Topic -> SUBSET Sinks]
    /\ mark \in [Topic -> [Sinks -> 0..N + 1]]
    /\ changes \in 0..Changes

\* What a goroutine has in hand is the value it received last, or the end.
Phases ==
    \A g \in Goroutine :
        /\ pc[g] \in {"receiving", "sending"} => hand[g] = received[g]
        /\ hand[g] # 0 => hand[g] = received[g]
        /\ pc[g] = "sending" => hand[g] # 0
        /\ pc[g] \in {"closing", "done"} => hand[g] = 0

\* Who asked for a topic is who is in its list, for all but pub once.
Tables ==
    /\ \A t \in Topic : asked[t] = Range(members[t])
    /\ kind # "pub" => \A t \in Topic : IsInjective(members[t])
    /\ kind = "mult" => members["no"] = <<>>

\* Of the channels a value has still to go to, those that left did so when it was
\* already received.
Hands ==
    \A g \in Workers : pc[g] = "sending" =>
        /\ kind # "pub" => IsInjective(todo[g])
        /\ LET t == TopicOfValue(hand[g]) IN
           \A c \in Range(todo[g]) : c \notin asked[t] => hand[g] <= mark[t][c]

\* What c got from g was received before what g has in hand for it.
Before(c, g, i) ==
    /\ g \in Workers
    /\ i <= received[g]
    /\ pc[g] = "routing" /\ hand[g] # 0 => i < hand[g]
    /\ kind # "pub" /\ pc[g] = "sending" /\ c \in Range(todo[g]) => i < hand[g]

Delivered == \A c \in Sinks : \A a \in DOMAIN got[c] : Before(c, got[c][a][1], got[c][a][2])

\* Until the end of the source only consumers close channels.
Open ==
    /\ \A g \in Workers : pc[g] \in Live => closed \subseteq quit
    /\ kind = "merge" => \A g \in Goroutine : pc[g] # "closing"

Order ==
    \A c \in Sinks : \A a, b \in DOMAIN got[c] :
        a < b /\ got[c][a][1] = got[c][b][1] =>
            /\ got[c][a][2] <= got[c][b][2]
            /\ kind # "pub" => got[c][a][2] # got[c][b][2]

\* c has a claim to the i-th value of g.
Due(c, t, g, i) ==
    /\ c \in asked[t] /\ c \notin quit /\ TopicOfValue(i) = t
    /\ mark[t][c] < i /\ i <= received[g] /\ (hand[g] = 0 => i < received[g])

Stream ==
    \A c \in Sinks, t \in Topic, g \in Workers, i \in 1..N :
        Due(c, t, g, i) => <<g, i>> \in Range(got[c]) \/ UnderWay(g, i, c)

IInv ==
    /\ Types /\ Phases /\ Tables /\ Hands /\ Delivered /\ Open
    /\ Order /\ Stream /\ NothingAfterLeaving

-----------------------------------------------------------------------------
LEMMA WorkersFacts == Workers \subseteq Goroutine /\ 1 \in Goroutine /\ 1 \in Workers
  BY DEF Workers, Goroutine

LEMMA GoFacts ==
    ASSUME Types, Phases, NEW g \in Goroutine
    PROVE  /\ pc[g] \in Places /\ todo[g] \in Seq(Sinks)
           /\ received[g] \in 0..N + 1 /\ received[g] \in Nat
           /\ hand[g] \in 0..N /\ hand[g] \in Nat
           /\ todo[g] = <<>> <=> pc[g] \notin {"sending", "closing"}
           /\ pc[g] \in {"receiving", "sending"} => hand[g] = received[g]
           /\ hand[g] # 0 => hand[g] = received[g] /\ hand[g] \in 1..N
           /\ pc[g] = "sending" => hand[g] # 0
           /\ pc[g] \in {"closing", "done"} => hand[g] = 0
<1>1. N \in Nat /\ 0..N + 1 \subseteq Nat /\ 0..N \subseteq Nat /\ \A i \in 0..N : i # 0 => i \in 1..N
  BY CombinatorsAssumption
<1>2. /\ pc[g] \in Places /\ todo[g] \in Seq(Sinks)
      /\ received[g] \in 0..N + 1 /\ hand[g] \in 0..N
      /\ todo[g] = <<>> <=> pc[g] \notin {"sending", "closing"}
  BY DEF Types
<1>3. QED
  BY <1>1, <1>2 DEF Phases

LEMMA GotFacts ==
    ASSUME Types, NEW c \in Sinks, NEW a \in DOMAIN got[c]
    PROVE  \E h \in Goroutine, i \in 1..N : got[c][a] = <<h, i>>
<1>1. got[c] \in Seq(Goroutine \X (1..N))
  BY DEF Types
<1>2. got[c][a] \in Goroutine \X (1..N)
  <2>1. \A S : \A s \in Seq(S) : \A x \in DOMAIN s : s[x] \in S
    OBVIOUS
  <2>2. QED
    BY <1>1, <2>1
<1>3. QED
  BY <1>2

LEMMA TopicFacts ==
    ASSUME NEW i \in 1..N
    PROVE  TopicOfValue(i) \in Topic
BY CombinatorsAssumption DEF TopicOfValue, Topic

\* A step that leaves values taken, and claims, as they were.
LEMMA TableKept ==
    ASSUME Tables, UNCHANGED <<kind, members, asked>>
    PROVE  Tables'
BY DEF Tables

LEMMA OrderKept ==
    ASSUME Order, UNCHANGED <<kind, got>>
    PROVE  Order'
BY DEF Order

LEMMA LeftKept ==
    ASSUME NothingAfterLeaving, UNCHANGED <<kind, got, asked, mark>>
    PROVE  NothingAfterLeaving'
BY DEF NothingAfterLeaving, TopicOfValue

\* A step of g that takes it no further than what it had: what it does not touch.
LEMMA OthersHand ==
    ASSUME NEW g \in Goroutine, Hands, UNCHANGED <<kind, asked, mark>>,
           \A h \in Goroutine \ {g} : pc'[h] = pc[h] /\ hand'[h] = hand[h] /\ todo'[h] = todo[h],
           pc'[g] # "sending"
    PROVE  Hands'
<1>1. ASSUME NEW h \in Workers, pc'[h] = "sending"
      PROVE  /\ h \in Workers /\ pc[h] = "sending" /\ todo'[h] = todo[h] /\ hand'[h] = hand[h]
             /\ TopicOfValue(hand[h])' = TopicOfValue(hand[h])
  BY <1>1, WorkersFacts DEF TopicOfValue
<1>2. Workers' = Workers
  BY DEF Workers
<1>3. QED
  BY <1>1, <1>2 DEF Hands

\* A goroutine receives a value, or the end.
LEMMA ReceiveInductive ==
    ASSUME IInv, NEW g \in Workers, Receive(g) \/ ReceiveEnd(g)
    PROVE  IInv'
<1>0. /\ Types /\ Phases /\ Tables /\ Hands /\ Delivered /\ Open
      /\ Order /\ Stream /\ NothingAfterLeaving
  BY DEF IInv
<1>1. g \in Goroutine /\ N \in Nat
  BY WorkersFacts, CombinatorsAssumption
<1>a. PICK v \in {0, received[g] + 1} : /\ v # 0 => received[g] < N
                                       /\ hand' = [hand EXCEPT ![g] = v]
  BY DEF Receive, ReceiveEnd
<1>2. /\ pc[g] = "receiving"
      /\ v # 0 => received[g] < N
      /\ received' = [received EXCEPT ![g] = received[g] + 1]
      /\ hand' = [hand EXCEPT ![g] = v]
      /\ pc' = [pc EXCEPT ![g] = "routing"]
      /\ UNCHANGED <<kind, todo, members, asked, mark, changes, closed, quit, got>>
  BY <1>a DEF Receive, ReceiveEnd, Goto, table
<1>3. /\ pc'[g] = "routing" /\ received'[g] = received[g] + 1 /\ hand'[g] = v
      /\ v \in Nat
      /\ hand[g] = received[g] /\ todo[g] = <<>> /\ received[g] \in Nat
      /\ \A h \in Goroutine \ {g} : /\ pc'[h] = pc[h] /\ hand'[h] = hand[h]
                                    /\ received'[h] = received[h]
  <2>1. hand[g] = received[g] /\ todo[g] = <<>> /\ received[g] \in Nat /\ v \in Nat
    BY <1>0, <1>1, <1>2, GoFacts
  <2>2. QED
    BY <1>0, <1>1, <1>2, <2>1 DEF Types
<1>w. Workers' = Workers
  BY <1>2 DEF Workers
<1>4. Types'
  <2>1. received[g] + 1 \in 0..N + 1 /\ v \in 0..N
    <3>1. received[g] \in 0..N
      BY <1>0, <1>1, <1>3, GoFacts
    <3>2. QED
      BY <1>1, <1>2, <3>1
  <2>2. received' \in [Goroutine -> 0..N + 1] /\ hand' \in [Goroutine -> 0..N]
        /\ pc' \in [Goroutine -> Places]
    BY <1>0, <1>2, <2>1 DEF Types, Places
  <2>3. \A h \in Goroutine : todo'[h] = <<>> <=> pc'[h] \notin {"sending", "closing"}
    BY <1>0, <1>2, <1>3 DEF Types
  <2>4. QED
    BY <1>0, <1>2, <2>2, <2>3 DEF Types
<1>5. Phases'
  BY <1>0, <1>1, <1>3 DEF Phases, Types
<1>6. Tables' /\ Order' /\ NothingAfterLeaving'
  BY <1>0, <1>2, TableKept, OrderKept, LeftKept
<1>7. Hands'
  BY <1>0, <1>1, <1>2, <1>3, OthersHand
<1>8. Delivered'
  <2> SUFFICES ASSUME NEW c \in Sinks, NEW a \in DOMAIN got[c]
               PROVE  Before(c, got[c][a][1], got[c][a][2])'
    BY <1>2 DEF Delivered
  <2>1. Before(c, got[c][a][1], got[c][a][2])
    BY <1>0 DEF Delivered
  <2>2. PICK h \in Goroutine, i \in 1..N : got[c][a] = <<h, i>>
    BY <1>0, GotFacts
  <2>3. Before(c, h, i)
    BY <2>1, <2>2
  <2>4. Before(c, h, i)'
    BY <1>1, <1>2, <1>3, <1>w, <2>3 DEF Before
  <2>5. QED
    BY <1>2, <2>2, <2>4
<1>9. Open'
  BY <1>0, <1>2, <1>3, <1>w DEF Open, Live
<1>10. Stream'
  <2> SUFFICES ASSUME NEW c \in Sinks, NEW t \in Topic, NEW h \in Workers, NEW i \in 1..N,
                      Due(c, t, h, i)'
               PROVE  <<h, i>> \in Range(got[c]) \/ UnderWay(h, i, c)'
    BY <1>2, <1>w DEF Stream
  <2>1. CASE h = g /\ i = received[g] + 1
    <3>1. v # 0
      BY <1>3, <2>1 DEF Due
    <3>2. QED
      BY <1>3, <2>1, <3>1 DEF UnderWay
  <2>2. CASE h = g /\ i # received[g] + 1
    <3>1. Due(c, t, g, i)
      BY <1>1, <1>2, <1>3, <2>2 DEF Due, TopicOfValue
    <3>2. ~UnderWay(g, i, c)
      BY <1>2, <1>3, NoneFacts DEF UnderWay
    <3>3. QED
      BY <1>0, <2>2, <3>1, <3>2 DEF Stream
  <2>3. CASE h # g
    <3>1. Due(c, t, h, i)
      BY <1>2, <1>3, <2>3, WorkersFacts DEF Due, TopicOfValue
    <3>2. UnderWay(h, i, c)' <=> UnderWay(h, i, c)
      BY <1>2, <1>3, <2>3, WorkersFacts DEF UnderWay
    <3>3. QED
      BY <1>0, <3>1, <3>2 DEF Stream
  <2>4. QED
    BY <2>1, <2>2, <2>3
<1>11. QED
  BY <1>4, <1>5, <1>6, <1>7, <1>8, <1>9, <1>10 DEF IInv

-----------------------------------------------------------------------------
\* What is true of an entry of got stays true.
LEMMA DeliveredKept ==
    ASSUME Types, Delivered, got' = got,
           \A c \in Sinks, h \in Goroutine, i \in 1..N : Before(c, h, i) => Before(c, h, i)'
    PROVE  Delivered'
<1> SUFFICES ASSUME NEW c \in Sinks, NEW a \in DOMAIN got[c]
             PROVE  Before(c, got[c][a][1], got[c][a][2])'
  BY DEF Delivered
<1>1. Before(c, got[c][a][1], got[c][a][2])
  BY DEF Delivered
<1>2. PICK h \in Goroutine, i \in 1..N : got[c][a] = <<h, i>>
  BY GotFacts
<1>3. Before(c, h, i)
  BY <1>1, <1>2
<1>4. Before(c, h, i)'
  BY <1>3
<1>5. QED
  BY <1>2, <1>4

\* A goroutine starts to send a value to a copy of the list of its topic.
LEMMA CopiedInductive ==
    ASSUME IInv, NEW g \in Workers, pc[g] = "routing", hand[g] # 0,
           NEW s \in Seq(Sinks), Copied(g, s),
           Range(s) = Range(members[TopicOfValue(hand[g])]),
           kind # "pub" => IsInjective(s)
    PROVE  IInv'
<1>0. /\ Types /\ Phases /\ Tables /\ Hands /\ Delivered /\ Open
      /\ Order /\ Stream /\ NothingAfterLeaving
  BY DEF IInv
<1>1. g \in Goroutine /\ N \in Nat
  BY WorkersFacts, CombinatorsAssumption
<1>2. /\ todo' = [todo EXCEPT ![g] = s]
      /\ pc' = [pc EXCEPT ![g] = IF s = <<>> THEN "receiving" ELSE "sending"]
      /\ UNCHANGED <<kind, received, hand, members, asked, mark, changes, closed, quit, got>>
  BY DEF Copied, Goto, table
<1>3. /\ todo'[g] = s /\ pc'[g] = IF s = <<>> THEN "receiving" ELSE "sending"
      /\ hand[g] = received[g] /\ hand[g] \in 1..N /\ received[g] \in Nat
      /\ \A h \in Goroutine \ {g} : pc'[h] = pc[h] /\ todo'[h] = todo[h]
  <2>1. hand[g] = received[g] /\ hand[g] \in 1..N /\ received[g] \in Nat
    BY <1>0, <1>1, GoFacts
  <2>2. QED
    BY <1>0, <1>1, <1>2, <2>1 DEF Types
<1>w. Workers' = Workers /\ \A i : TopicOfValue(i)' = TopicOfValue(i)
  BY <1>2 DEF Workers, TopicOfValue
<1>4. Types'
  <2>1. pc' \in [Goroutine -> Places] /\ todo' \in [Goroutine -> Seq(Sinks)]
    BY <1>0, <1>2 DEF Types, Places
  <2>2. \A h \in Goroutine : todo'[h] = <<>> <=> pc'[h] \notin {"sending", "closing"}
    BY <1>0, <1>3 DEF Types
  <2>3. QED
    BY <1>0, <1>2, <2>1, <2>2 DEF Types
<1>5. Phases'
  BY <1>0, <1>2, <1>3 DEF Phases
<1>6. Tables' /\ Order' /\ NothingAfterLeaving'
  BY <1>0, <1>2, TableKept, OrderKept, LeftKept
<1>7. Hands'
  <2> SUFFICES ASSUME NEW h \in Workers, pc'[h] = "sending"
               PROVE  /\ kind # "pub" => IsInjective(todo'[h])
                      /\ \A c \in Range(todo'[h]) :
                           c \notin asked[TopicOfValue(hand[h])] =>
                             hand[h] <= mark[TopicOfValue(hand[h])][c]
    BY <1>2, <1>w DEF Hands
  <2>1. CASE h = g
    <3>1. TopicOfValue(hand[g]) \in Topic
      BY <1>3, TopicFacts
    <3>2. asked[TopicOfValue(hand[g])] = Range(s)
      BY <1>0, <3>1 DEF Tables
    <3>3. QED
      BY <1>3, <2>1, <3>2
  <2>2. CASE h # g
    BY <1>0, <1>3, <2>2, WorkersFacts DEF Hands
  <2>3. QED
    BY <2>1, <2>2
<1>8. Delivered'
  <2>1. ASSUME NEW c \in Sinks, NEW h \in Goroutine, NEW i \in 1..N, Before(c, h, i)
        PROVE  Before(c, h, i)'
    <3>1. CASE h = g
      BY <1>2, <1>3, <1>w, <2>1, <3>1 DEF Before
    <3>2. CASE h # g
      BY <1>2, <1>3, <1>w, <2>1, <3>2 DEF Before
    <3>3. QED
      BY <3>1, <3>2
  <2>2. QED
    BY <1>0, <1>2, <2>1, DeliveredKept
<1>9. Open'
  BY <1>0, <1>2, <1>3, <1>w DEF Open, Live
<1>10. Stream'
  <2> SUFFICES ASSUME NEW c \in Sinks, NEW t \in Topic, NEW h \in Workers, NEW i \in 1..N,
                      Due(c, t, h, i)'
               PROVE  <<h, i>> \in Range(got[c]) \/ UnderWay(h, i, c)'
    BY <1>2, <1>w DEF Stream
  <2>1. Due(c, t, h, i)
    BY <1>2, <1>w DEF Due
  <2>2. <<h, i>> \in Range(got[c]) \/ UnderWay(h, i, c)
    BY <1>0, <2>1 DEF Stream
  <2>3. ASSUME UnderWay(h, i, c) PROVE UnderWay(h, i, c)'
    <3>1. CASE h = g
      <4>1. hand[g] = i /\ TopicOfValue(i) = t /\ c \in asked[t]
        BY <2>1, <2>3, <3>1 DEF UnderWay, Due
      <4>2. c \in Range(s)
        BY <1>0, <4>1 DEF Tables
      <4>3. QED
        BY <1>2, <1>3, <3>1, <4>1, <4>2 DEF UnderWay
    <3>2. CASE h # g
      BY <1>2, <1>3, <2>3, <3>2, WorkersFacts DEF UnderWay
    <3>3. QED
      BY <3>1, <3>2
  <2>4. QED
    BY <2>2, <2>3
<1>11. QED
  BY <1>4, <1>5, <1>6, <1>7, <1>8, <1>9, <1>10 DEF IInv

LEMMA RouteInductive ==
    ASSUME IInv, NEW g \in Workers, RouteTaps(g) \/ RouteByTopic(g)
    PROVE  IInv'
<1>0. Types /\ Phases /\ Tables
  BY DEF IInv
<1>1. g \in Goroutine /\ pc[g] = "routing" /\ hand[g] # 0
  BY WorkersFacts DEF RouteTaps, RouteByTopic
<1>2. hand[g] \in 1..N
  BY <1>0, <1>1, GoFacts
<1>3. TopicOfValue(hand[g]) \in Topic
  BY <1>2, TopicFacts
<1>4. CASE RouteTaps(g)
  <2>1. PICK s \in SetToSeqs(Range(members["yes"])) : Copied(g, s)
    BY <1>4 DEF RouteTaps
  <2>2. members["yes"] \in Seq(Sinks) /\ TopicOfValue(hand[g]) = "yes"
    BY <1>0, <1>4 DEF Types, Topic, RouteTaps, TopicOfValue
  <2>3. Range(members["yes"]) \subseteq Sinks /\ IsFiniteSet(Range(members["yes"]))
    BY <2>2, RangeFacts
  <2>4. /\ s \in Seq(Range(members["yes"])) /\ Range(s) = Range(members["yes"])
        /\ IsInjective(s)
    BY <2>3, OrderFacts
  <2>5. s \in Seq(Sinks)
    BY <2>3, <2>4
  <2>6. QED
    BY <1>1, <2>1, <2>2, <2>4, <2>5, CopiedInductive
<1>5. CASE RouteByTopic(g)
  <2>1. Copied(g, members[TopicOfValue(hand[g])])
    BY <1>5 DEF RouteByTopic
  <2>2. /\ members[TopicOfValue(hand[g])] \in Seq(Sinks)
        /\ kind # "pub" => IsInjective(members[TopicOfValue(hand[g])])
    BY <1>0, <1>3 DEF Types, Tables
  <2>3. QED
    BY <1>1, <2>1, <2>2, CopiedInductive
<1>6. QED
  BY <1>4, <1>5

-----------------------------------------------------------------------------
\* A send ends, the value taken or refused: all but what is about values taken.
LEMMA SentKeeps ==
    ASSUME IInv, NEW g \in Workers, pc[g] = "sending", Sent(g)
    PROVE  /\ todo[g] # <<>> /\ todo[g] \in Seq(Sinks) /\ hand[g] \in 1..N
           /\ hand[g] = received[g] /\ pc'[g] # "routing"
           /\ todo'[g] = Tail(todo[g])
           /\ \A h \in Goroutine \ {g} : pc'[h] = pc[h] /\ todo'[h] = todo[h]
           /\ pc' \in [Goroutine -> Places] /\ todo' \in [Goroutine -> Seq(Sinks)]
           /\ \A h \in Goroutine : todo'[h] = <<>> <=> pc'[h] \notin {"sending", "closing"}
           /\ Phases' /\ Tables' /\ Hands' /\ Open'
<1>0. Types /\ Phases /\ Tables /\ Hands /\ Open
  BY DEF IInv
<1>1. g \in Goroutine /\ N \in Nat
  BY WorkersFacts, CombinatorsAssumption
<1>2. /\ todo' = [todo EXCEPT ![g] = Tail(todo[g])]
      /\ pc' = [pc EXCEPT ![g] = IF Len(todo[g]) = 1 THEN "receiving" ELSE "sending"]
      /\ UNCHANGED <<kind, received, hand, members, asked, mark, changes, closed, quit>>
  BY DEF Sent, Goto, table
<1>3. /\ todo[g] # <<>> /\ todo[g] \in Seq(Sinks) /\ hand[g] \in 1..N /\ hand[g] = received[g]
  BY <1>0, <1>1, GoFacts
<1>4. /\ Tail(todo[g]) \in Seq(Sinks) /\ Range(Tail(todo[g])) \subseteq Range(todo[g])
      /\ Len(todo[g]) = 1 <=> Tail(todo[g]) = <<>>
      /\ IsInjective(todo[g]) => IsInjective(Tail(todo[g]))
  BY <1>3, HeadFacts
<1>5. /\ todo'[g] = Tail(todo[g])
      /\ pc'[g] = IF Tail(todo[g]) = <<>> THEN "receiving" ELSE "sending"
      /\ \A h \in Goroutine \ {g} : pc'[h] = pc[h] /\ todo'[h] = todo[h]
  BY <1>0, <1>1, <1>2, <1>4 DEF Types
<1>w. Workers' = Workers /\ \A i : TopicOfValue(i)' = TopicOfValue(i)
  BY <1>2 DEF Workers, TopicOfValue
<1>6. pc' \in [Goroutine -> Places] /\ todo' \in [Goroutine -> Seq(Sinks)]
  BY <1>0, <1>2, <1>4 DEF Types, Places
<1>7. \A h \in Goroutine : todo'[h] = <<>> <=> pc'[h] \notin {"sending", "closing"}
  BY <1>0, <1>5 DEF Types
<1>8. Phases'
  BY <1>0, <1>2, <1>3, <1>5 DEF Phases
<1>9. Tables'
  BY <1>0, <1>2, TableKept
<1>10. Hands'
  <2> SUFFICES ASSUME NEW h \in Workers, pc'[h] = "sending"
               PROVE  /\ kind # "pub" => IsInjective(todo'[h])
                      /\ \A c \in Range(todo'[h]) :
                           c \notin asked[TopicOfValue(hand[h])] =>
                             hand[h] <= mark[TopicOfValue(hand[h])][c]
    BY <1>2, <1>w DEF Hands
  <2>1. CASE h = g
    BY <1>0, <1>4, <1>5, <2>1 DEF Hands
  <2>2. CASE h # g
    BY <1>0, <1>5, <2>2, WorkersFacts DEF Hands
  <2>3. QED
    BY <2>1, <2>2
<1>11. Open'
  BY <1>0, <1>2, <1>5, <1>w DEF Open, Live
<1>12. QED
  BY <1>3, <1>5, <1>6, <1>7, <1>8, <1>9, <1>10, <1>11

\* A channel refuses a value: its consumer has closed it.
LEMMA SendRefusedInductive ==
    ASSUME IInv, NEW g \in Workers, SendRefused(g)
    PROVE  IInv'
<1>0. /\ Types /\ Delivered /\ Open /\ Order /\ Stream /\ NothingAfterLeaving
  BY DEF IInv
<1>1. /\ pc[g] = "sending" /\ Head(todo[g]) \in closed /\ Sent(g) /\ g \in Goroutine
      /\ UNCHANGED <<kind, received, hand, members, asked, mark, changes, closed, quit, got>>
  BY WorkersFacts DEF SendRefused, Sent, table
<1>2. /\ todo[g] # <<>> /\ todo[g] \in Seq(Sinks) /\ hand[g] \in 1..N
      /\ hand[g] = received[g] /\ pc'[g] # "routing"
      /\ todo'[g] = Tail(todo[g])
      /\ \A h \in Goroutine \ {g} : pc'[h] = pc[h] /\ todo'[h] = todo[h]
      /\ pc' \in [Goroutine -> Places] /\ todo' \in [Goroutine -> Seq(Sinks)]
      /\ \A h \in Goroutine : todo'[h] = <<>> <=> pc'[h] \notin {"sending", "closing"}
      /\ Phases' /\ Tables' /\ Hands' /\ Open'
  BY <1>1, SentKeeps
<1>3. Range(todo[g]) = {Head(todo[g])} \cup Range(Tail(todo[g]))
  BY <1>2, HeadFacts
<1>w. Workers' = Workers /\ \A i : TopicOfValue(i)' = TopicOfValue(i)
  BY <1>1 DEF Workers, TopicOfValue
<1>4. Types'
  BY <1>0, <1>1, <1>2 DEF Types
<1>5. Order' /\ NothingAfterLeaving'
  BY <1>0, <1>1, OrderKept, LeftKept
<1>6. Delivered'
  <2>1. ASSUME NEW c \in Sinks, NEW h \in Goroutine, NEW i \in 1..N, Before(c, h, i)
        PROVE  Before(c, h, i)'
    <3>1. CASE h = g
      BY <1>1, <1>2, <1>3, <1>w, <2>1, <3>1 DEF Before
    <3>2. CASE h # g
      BY <1>1, <1>2, <1>w, <2>1, <3>2 DEF Before
    <3>3. QED
      BY <3>1, <3>2
  <2>2. QED
    BY <1>0, <1>1, <2>1, DeliveredKept
<1>7. Stream'
  <2> SUFFICES ASSUME NEW c \in Sinks, NEW t \in Topic, NEW h \in Workers, NEW i \in 1..N,
                      Due(c, t, h, i)'
               PROVE  <<h, i>> \in Range(got[c]) \/ UnderWay(h, i, c)'
    BY <1>1, <1>w DEF Stream
  <2>1. Due(c, t, h, i) /\ c \notin quit
    BY <1>1, <1>w DEF Due
  <2>2. <<h, i>> \in Range(got[c]) \/ UnderWay(h, i, c)
    BY <1>0, <2>1 DEF Stream
  <2>3. ASSUME UnderWay(h, i, c) PROVE UnderWay(h, i, c)'
    <3>1. CASE h = g
      <4>1. hand[g] = i /\ c \in Range(todo[g])
        BY <1>1, <2>3, <3>1 DEF UnderWay
      <4>2. c # Head(todo[g])
        BY <1>0, <1>1, <2>1 DEF Open, Live
      <4>3. QED
        BY <1>1, <1>2, <1>3, <3>1, <4>1, <4>2 DEF UnderWay
    <3>2. CASE h # g
      BY <1>1, <1>2, <2>3, <3>2, WorkersFacts DEF UnderWay
    <3>3. QED
      BY <3>1, <3>2
  <2>4. QED
    BY <2>2, <2>3
<1>8. QED
  BY <1>2, <1>4, <1>5, <1>6, <1>7 DEF IInv

\* A channel takes a value: the next one of the goroutine that sends it.
LEMMA SendTakenInductive ==
    ASSUME IInv, NEW g \in Workers, SendTaken(g)
    PROVE  IInv'
<1> DEFINE E == Goroutine \X (1..N)
<1>a. PICK d, k : d = Head(todo[g]) /\ k = hand[g]
  OBVIOUS
<1> DEFINE e == <<g, k>>
<1>0. /\ Types /\ Hands /\ Delivered /\ Open /\ Order /\ Stream /\ NothingAfterLeaving
  BY DEF IInv
<1>1. /\ pc[g] = "sending" /\ Sent(g) /\ g \in Goroutine
      /\ got' = [got EXCEPT ![d] = Append(got[d], e)]
      /\ UNCHANGED <<kind, received, hand, members, asked, mark, changes, closed, quit>>
  BY <1>a, WorkersFacts DEF SendTaken, Sent, table
<1>2. /\ todo[g] # <<>> /\ todo[g] \in Seq(Sinks) /\ k \in 1..N
      /\ k = hand[g] /\ k = received[g] /\ pc'[g] # "routing"
      /\ todo'[g] = Tail(todo[g])
      /\ \A h \in Goroutine \ {g} : pc'[h] = pc[h] /\ todo'[h] = todo[h]
      /\ pc' \in [Goroutine -> Places] /\ todo' \in [Goroutine -> Seq(Sinks)]
      /\ \A h \in Goroutine : todo'[h] = <<>> <=> pc'[h] \notin {"sending", "closing"}
      /\ Phases' /\ Tables' /\ Hands' /\ Open'
  BY <1>1, <1>a, SentKeeps
<1>3. /\ d \in Sinks /\ d \in Range(todo[g])
      /\ Range(todo[g]) = {d} \cup Range(todo'[g])
      /\ kind # "pub" => d \notin Range(todo'[g])
  <2>1. kind # "pub" => IsInjective(todo[g])
    BY <1>0, <1>1 DEF Hands
  <2>2. QED
    BY <1>2, <1>a, <2>1, HeadFacts
<1>w. Workers' = Workers /\ \A i : TopicOfValue(i)' = TopicOfValue(i)
  BY <1>1 DEF Workers, TopicOfValue
<1>4. e \in E /\ got[d] \in Seq(E) /\ e[1] = g /\ e[2] = k
  BY <1>0, <1>1, <1>2, <1>3 DEF Types
<1> HIDE DEF e, E
<1>5. /\ got' \in [Sinks -> Seq(E)] /\ got'[d] = Append(got[d], e)
      /\ \A c \in Sinks \ {d} : got'[c] = got[c]
  <2>1. got \in [Sinks -> Seq(E)]
    BY <1>0 DEF Types, E
  <2>2. Append(got[d], e) \in Seq(E)
    BY <1>4, MoreFacts
  <2>3. QED
    BY <1>1, <1>3, <2>1, <2>2
<1>6. /\ DOMAIN got[d] = 1..Len(got[d]) /\ DOMAIN got'[d] = 1..Len(got[d]) + 1
      /\ \A a \in 1..Len(got[d]) : got'[d][a] = got[d][a]
      /\ got'[d][Len(got[d]) + 1] = e /\ Len(got[d]) \in Nat
      /\ Range(got'[d]) = Range(got[d]) \cup {e}
  BY <1>4, <1>5, MoreFacts
\* An entry is an old one, or the new one.
<1>7. ASSUME NEW c \in Sinks, NEW a \in DOMAIN got'[c]
      PROVE  \/ a \in DOMAIN got[c] /\ got'[c][a] = got[c][a]
             \/ /\ c = d /\ a = Len(got[d]) + 1 /\ got'[c][a] = e
  <2>1. CASE c = d
    BY <1>6, <1>7, <2>1
  <2>2. CASE c # d
    BY <1>5, <1>7, <2>2
  <2>3. QED
    BY <2>1, <2>2
<1>8. Types'
  BY <1>0, <1>1, <1>2, <1>5 DEF Types, E
<1>9. ASSUME NEW c \in Sinks, NEW h \in Goroutine, NEW i \in 1..N, Before(c, h, i)
      PROVE  Before(c, h, i)'
  <2>1. CASE h = g
    BY <1>1, <1>2, <1>3, <1>w, <1>9, <2>1 DEF Before
  <2>2. CASE h # g
    BY <1>1, <1>2, <1>w, <1>9, <2>2 DEF Before
  <2>3. QED
    BY <2>1, <2>2
<1>10. Delivered'
  <2> SUFFICES ASSUME NEW c \in Sinks, NEW a \in DOMAIN got'[c]
               PROVE  Before(c, got[c][a][1], got[c][a][2])'
    BY DEF Delivered
  <2>1. CASE a \in DOMAIN got[c] /\ got'[c][a] = got[c][a]
    <3>1. Before(c, got[c][a][1], got[c][a][2])
      BY <1>0, <2>1 DEF Delivered
    <3>2. PICK h \in Goroutine, i \in 1..N : got[c][a] = <<h, i>>
      BY <1>0, <2>1, GotFacts
    <3>3. Before(c, h, i)
      BY <3>1, <3>2
    <3>4. Before(c, h, i)'
      BY <1>9, <3>3
    <3>5. QED
      BY <2>1, <3>2, <3>4
  <2>2. CASE c = d /\ got'[c][a] = e
    <3>1. Before(d, g, k)'
      BY <1>1, <1>2, <1>3, <1>w DEF Before
    <3>2. got'[c][a][1] = g /\ got'[c][a][2] = k
      BY <1>4, <2>2
    <3>3. QED
      BY <2>2, <3>1, <3>2
  <2>3. QED
    BY <1>7, <2>1, <2>2
<1>11. Order'
  <2> SUFFICES ASSUME NEW c \in Sinks, NEW a \in DOMAIN got'[c], NEW b \in DOMAIN got'[c],
                      a < b, got'[c][a][1] = got'[c][b][1]
               PROVE  /\ got'[c][a][2] <= got'[c][b][2]
                      /\ kind # "pub" => got'[c][a][2] # got'[c][b][2]
    BY <1>1 DEF Order
  <2>1. CASE b \in DOMAIN got[c] /\ got'[c][b] = got[c][b]
    <3>1. a \in DOMAIN got[c] /\ got'[c][a] = got[c][a]
      <4>1. CASE c = d
        <5>1. a \in 1..Len(got[d])
          BY <1>6, <2>1, <4>1
        <5>2. QED
          BY <1>6, <4>1, <5>1
      <4>2. CASE c # d
        BY <1>5, <4>2
      <4>3. QED
        BY <4>1, <4>2
    <3>2. QED
      BY <1>0, <2>1, <3>1 DEF Order
  <2>2. CASE c = d /\ b = Len(got[d]) + 1 /\ got'[c][b] = e
    <3>1. a \in DOMAIN got[d] /\ got'[c][a] = got[d][a]
      BY <1>6, <2>2
    <3>2. Before(d, got[d][a][1], got[d][a][2])
      BY <1>0, <1>3, <3>1 DEF Delivered
    <3>3. PICK i \in 1..N : got[d][a] = <<g, i>>
      <4>1. PICK h \in Goroutine, i \in 1..N : got[d][a] = <<h, i>>
        BY <1>0, <1>3, <3>1, GotFacts
      <4>2. h = g
        BY <1>4, <2>2, <3>1, <4>1
      <4>3. QED
        BY <4>1, <4>2
    <3>4. Before(d, g, i)
      BY <3>2, <3>3
    <3>5. i <= k /\ (kind # "pub" => i < k)
      BY <1>1, <1>2, <1>3, <3>4 DEF Before
    <3>6. got'[c][a][2] = i /\ got'[c][b][2] = k
      BY <1>4, <2>2, <3>1, <3>3
    <3>7. QED
      BY <1>2, <3>5, <3>6
  <2>3. QED
    BY <1>7, <2>1, <2>2
<1>12. Stream'
  <2> SUFFICES ASSUME NEW c \in Sinks, NEW t \in Topic, NEW h \in Workers, NEW i \in 1..N,
                      Due(c, t, h, i)'
               PROVE  <<h, i>> \in Range(got'[c]) \/ UnderWay(h, i, c)'
    BY <1>w DEF Stream
  <2>1. Due(c, t, h, i)
    BY <1>1, <1>w DEF Due
  <2>2. <<h, i>> \in Range(got[c]) \/ UnderWay(h, i, c)
    BY <1>0, <2>1 DEF Stream
  <2>3. Range(got[c]) \subseteq Range(got'[c])
    BY <1>5, <1>6
  <2>4. ASSUME UnderWay(h, i, c) PROVE <<h, i>> \in Range(got'[c]) \/ UnderWay(h, i, c)'
    <3>1. CASE h = g
      <4>1. k = i /\ c \in Range(todo[g])
        BY <1>1, <1>2, <2>4, <3>1 DEF UnderWay
      <4>2. CASE c = d
        BY <1>6, <3>1, <4>1, <4>2 DEF e
      <4>3. CASE c # d
        BY <1>1, <1>2, <1>3, <3>1, <4>1, <4>3 DEF UnderWay
      <4>4. QED
        BY <4>2, <4>3
    <3>2. CASE h # g
      BY <1>1, <1>2, <2>4, <3>2, WorkersFacts DEF UnderWay
    <3>3. QED
      BY <3>1, <3>2
  <2>5. QED
    BY <2>2, <2>3, <2>4
<1>13. NothingAfterLeaving'
  <2> SUFFICES ASSUME NEW c \in Sinks, NEW t \in Topic, c \notin asked[t],
                      NEW a \in DOMAIN got'[c], TopicOfValue(got'[c][a][2]) = t
               PROVE  got'[c][a][2] <= mark[t][c]
    BY <1>1, <1>w DEF NothingAfterLeaving
  <2>1. CASE a \in DOMAIN got[c] /\ got'[c][a] = got[c][a]
    BY <1>0, <2>1 DEF NothingAfterLeaving
  <2>2. CASE c = d /\ got'[c][a] = e
    <3>1. \A x \in Range(todo[g]) : x \notin asked[TopicOfValue(hand[g])] =>
                                      hand[g] <= mark[TopicOfValue(hand[g])][x]
      BY <1>0, <1>1 DEF Hands
    <3>2. got'[c][a][2] = k /\ hand[g] = k /\ TopicOfValue(k) = t
      BY <1>2, <1>4, <2>2
    <3>3. QED
      BY <1>3, <2>2, <3>1, <3>2
  <2>3. QED
    BY <1>7, <2>1, <2>2
<1>14. QED
  BY <1>2, <1>8, <1>10, <1>11, <1>12, <1>13 DEF IInv

-----------------------------------------------------------------------------
\* After the end of its source a goroutine closes channels, and no value is
\* concerned.
LEMMA ClosingInductive ==
    ASSUME IInv, NEW g \in Workers, hand[g] = 0, pc[g] \in {"routing", "closing"},
           NEW s \in Seq(Sinks), NEW l \in {"closing", "done"}, s = <<>> <=> l = "done",
           todo' = [todo EXCEPT ![g] = s], pc' = [pc EXCEPT ![g] = l],
           closed \subseteq closed', closed' \subseteq Sinks,
           kind = "merge" => l = "done" /\ closed' = closed,
           UNCHANGED <<kind, received, hand, table, quit, got>>
    PROVE  IInv'
<1>0. /\ Types /\ Phases /\ Tables /\ Hands /\ Delivered /\ Open
      /\ Order /\ Stream /\ NothingAfterLeaving
  BY DEF IInv
<1>1. g \in Goroutine /\ UNCHANGED <<members, asked, mark, changes>>
  BY WorkersFacts DEF table
<1>2. /\ todo'[g] = s /\ pc'[g] = l
      /\ \A h \in Goroutine \ {g} : pc'[h] = pc[h] /\ todo'[h] = todo[h]
  BY <1>0, <1>1 DEF Types
<1>w. Workers' = Workers /\ \A i : TopicOfValue(i)' = TopicOfValue(i)
  BY DEF Workers, TopicOfValue
<1>3. Types'
  <2>1. pc' \in [Goroutine -> Places] /\ todo' \in [Goroutine -> Seq(Sinks)]
    BY <1>0, <1>1 DEF Types, Places
  <2>2. \A h \in Goroutine : todo'[h] = <<>> <=> pc'[h] \notin {"sending", "closing"}
    BY <1>0, <1>2 DEF Types
  <2>3. quit' \subseteq closed'
    BY <1>0 DEF Types
  <2>4. QED
    BY <1>0, <1>1, <2>1, <2>2, <2>3 DEF Types
<1>4. Phases'
  BY <1>0, <1>2 DEF Phases
<1>5. Tables' /\ Order' /\ NothingAfterLeaving'
  BY <1>0, <1>1, TableKept, OrderKept, LeftKept
<1>6. Hands'
  BY <1>0, <1>1, <1>2, OthersHand
<1>7. Delivered'
  <2>1. ASSUME NEW c \in Sinks, NEW h \in Goroutine, NEW i \in 1..N, Before(c, h, i)
        PROVE  Before(c, h, i)'
    <3>1. CASE h = g
      BY <1>2, <1>w, <2>1, <3>1 DEF Before
    <3>2. CASE h # g
      BY <1>2, <1>w, <2>1, <3>2 DEF Before
    <3>3. QED
      BY <3>1, <3>2
  <2>2. QED
    BY <1>0, <2>1, DeliveredKept
<1>8. Open'
  <2>1. CASE kind = "merge"
    BY <1>0, <1>2, <1>w, <2>1, WorkersFacts DEF Open, Live
  <2>2. CASE kind # "merge"
    <3>1. Workers = {g}
      BY <2>2 DEF Workers
    <3>2. QED
      BY <1>2, <1>w, <2>2, <3>1 DEF Open, Live
  <2>3. QED
    BY <2>1, <2>2
<1>9. Stream'
  <2> SUFFICES ASSUME NEW c \in Sinks, NEW t \in Topic, NEW h \in Workers, NEW i \in 1..N,
                      Due(c, t, h, i)'
               PROVE  <<h, i>> \in Range(got[c]) \/ UnderWay(h, i, c)'
    BY <1>w DEF Stream
  <2>1. Due(c, t, h, i)
    BY <1>1, <1>w DEF Due
  <2>2. <<h, i>> \in Range(got[c]) \/ UnderWay(h, i, c)
    BY <1>0, <2>1 DEF Stream
  <2>3. ASSUME UnderWay(h, i, c) PROVE UnderWay(h, i, c)'
    <3>1. h # g
      BY <2>3 DEF UnderWay
    <3>2. QED
      BY <1>2, <2>3, <3>1, WorkersFacts DEF UnderWay
  <2>4. QED
    BY <2>2, <2>3
<1>10. QED
  BY <1>3, <1>4, <1>5, <1>6, <1>7, <1>8, <1>9 DEF IInv

LEMMA EndingFacts ==
    ASSUME Types
    PROVE  Ending \subseteq Sinks /\ IsFiniteSet(Ending) /\ (kind = "merge" => Ending = {})
<1>1. members["yes"] \in Seq(Sinks) /\ members["no"] \in Seq(Sinks)
  BY DEF Types, Topic
<1>2. /\ Range(members["yes"]) \subseteq Sinks /\ IsFiniteSet(Range(members["yes"]))
      /\ Range(members["no"]) \subseteq Sinks /\ IsFiniteSet(Range(members["no"]))
  BY <1>1, RangeFacts
<1>3. IsFiniteSet(Range(members["yes"]) \cup Range(members["no"]))
  BY <1>2, FS_Union
<1>4. UNION {Range(members[t]) : t \in Topic} = Range(members["yes"]) \cup Range(members["no"])
  BY DEF Topic
<1>5. IsFiniteSet({})
  BY FS_EmptySet
<1>6. Ending \in {{}, UNION {Range(members[t]) : t \in Topic}}
  BY DEF Ending
<1>7. kind = "merge" => Ending = {}
  BY DEF Ending
<1>8. QED
  BY <1>2, <1>3, <1>4, <1>5, <1>6, <1>7

LEMMA RouteEndInductive ==
    ASSUME IInv, NEW g \in Workers, RouteEnd(g)
    PROVE  IInv'
<1>0. Types
  BY DEF IInv
<1>1. pc[g] = "routing" /\ hand[g] = 0
  BY DEF RouteEnd
<1>2. PICK s \in SetToSeqs(Ending) :
        /\ todo' = [todo EXCEPT ![g] = s]
        /\ pc' = [pc EXCEPT ![g] = IF s = <<>> THEN "done" ELSE "closing"]
  BY DEF RouteEnd, Goto
<1>3. Ending \subseteq Sinks /\ s \in Seq(Ending) /\ Range(s) = Ending
  BY <1>0, EndingFacts, OrderFacts
<1>4. s \in Seq(Sinks) /\ (kind = "merge" => s = <<>>)
  <2>1. ASSUME s # <<>> PROVE Ending # {}
    BY <1>3, <2>1, HeadFacts
  <2>2. QED
    BY <1>0, <1>3, <2>1, EndingFacts
<1>5. PICK l \in {"closing", "done"} : l = IF s = <<>> THEN "done" ELSE "closing"
  OBVIOUS
<1>6. closed \subseteq closed /\ closed \subseteq Sinks
  BY <1>0 DEF Types
<1>7. UNCHANGED <<kind, received, hand, table, closed, quit, got>>
  BY DEF RouteEnd
<1>8. s = <<>> <=> l = "done"
  BY <1>5
<1>9. QED
  BY <1>1, <1>2, <1>4, <1>5, <1>6, <1>7, <1>8, ClosingInductive

LEMMA CloseNextInductive ==
    ASSUME IInv, NEW g \in Workers, CloseNext(g)
    PROVE  IInv'
<1>0. Types /\ Phases /\ Open
  BY DEF IInv
<1>1. pc[g] = "closing" /\ g \in Goroutine
  BY WorkersFacts DEF CloseNext
<1>2. todo[g] # <<>> /\ todo[g] \in Seq(Sinks) /\ hand[g] = 0
  BY <1>0, <1>1, GoFacts
<1>3. /\ Head(todo[g]) \in Sinks /\ Tail(todo[g]) \in Seq(Sinks)
      /\ Len(todo[g]) = 1 <=> Tail(todo[g]) = <<>>
  BY <1>2, HeadFacts
<1>4. PICK s, l : s = Tail(todo[g]) /\ l = IF s = <<>> THEN "done" ELSE "closing"
  OBVIOUS
<1>5. /\ todo' = [todo EXCEPT ![g] = s] /\ pc' = [pc EXCEPT ![g] = l]
      /\ closed' = closed \cup {Head(todo[g])}
      /\ UNCHANGED <<kind, received, hand, table, quit, got>>
  BY <1>3, <1>4 DEF CloseNext, Goto
<1>6. s \in Seq(Sinks) /\ l \in {"closing", "done"} /\ (s = <<>> <=> l = "done")
  BY <1>3, <1>4
<1>7. closed \subseteq closed' /\ closed' \subseteq Sinks
  BY <1>0, <1>3, <1>5 DEF Types
<1>8. kind # "merge"
  BY <1>0, <1>1 DEF Open
<1>9. QED
  BY <1>1, <1>2, <1>5, <1>6, <1>7, <1>8, ClosingInductive

\* merge closes its output when all its goroutines are done; a consumer closes
\* its channel.
LEMMA CloseInductive ==
    ASSUME IInv, MergeClose \/ \E c \in Quitters : Quit(c)
    PROVE  IInv'
<1>0. /\ Types /\ Phases /\ Tables /\ Hands /\ Delivered /\ Open
      /\ Order /\ Stream /\ NothingAfterLeaving
  BY DEF IInv
<1>1. UNCHANGED <<kind, pc, received, hand, todo, members, asked, mark, changes, got>>
  BY DEF MergeClose, Quit, flow, table
<1>w. Workers' = Workers /\ \A i : TopicOfValue(i)' = TopicOfValue(i)
  BY <1>1 DEF Workers, TopicOfValue
<1>2. /\ closed \subseteq closed' /\ closed' \subseteq Sinks
      /\ quit \subseteq quit' /\ quit' \subseteq closed'
      /\ \A g \in Workers : pc[g] \in Live => closed' \subseteq quit'
  <2>1. CASE MergeClose
    BY <1>0, <2>1, CombinatorsAssumption DEF MergeClose, Types, Live
  <2>2. CASE \E c \in Quitters : Quit(c)
    BY <1>0, <2>2, CombinatorsAssumption DEF Quit, Types, Open
  <2>3. QED
    BY <2>1, <2>2
<1>3. Types'
  BY <1>0, <1>1, <1>2 DEF Types
<1>4. Phases' /\ Open'
  BY <1>0, <1>1, <1>2, <1>w DEF Phases, Open
<1>5. Tables' /\ Order' /\ NothingAfterLeaving'
  BY <1>0, <1>1, TableKept, OrderKept, LeftKept
<1>6. Hands'
  BY <1>0, <1>1, <1>w DEF Hands
<1>7. Delivered'
  <2>1. \A c \in Sinks, h \in Goroutine, i \in 1..N : Before(c, h, i) => Before(c, h, i)'
    BY <1>1, <1>w DEF Before
  <2>2. QED
    BY <1>0, <1>1, <2>1, DeliveredKept
<1>8. Stream'
  <2>1. \A c \in Sinks, t \in Topic, h \in Workers, i \in 1..N :
          /\ Due(c, t, h, i)' => Due(c, t, h, i)
          /\ UnderWay(h, i, c)' <=> UnderWay(h, i, c)
    BY <1>1, <1>2, <1>w DEF Due, UnderWay
  <2>2. QED
    BY <1>0, <1>1, <1>w, <2>1 DEF Stream
<1>9. QED
  BY <1>3, <1>4, <1>5, <1>6, <1>7, <1>8 DEF IInv

-----------------------------------------------------------------------------
\* Channels join and leave the table of a mult or a pub.
LEMMA ChangedInductive ==
    ASSUME IInv, kind \in {"mult", "pub"},
           NEW m \in [Topic -> Seq(Sinks)], NEW new, members' = m, Changed(new),
           new \in [Topic -> SUBSET Sinks], \A t \in Topic : new[t] = Range(m[t]),
           kind = "mult" => m["no"] = <<>> /\ \A t \in Topic : IsInjective(m[t])
    PROVE  IInv'
<1>0. /\ Types /\ Phases /\ Tables /\ Hands /\ Delivered /\ Open
      /\ Order /\ Stream /\ NothingAfterLeaving
  BY DEF IInv
<1>1. /\ changes < Changes /\ changes' = changes + 1 /\ asked' = new
      /\ mark' = [t \in Topic |-> [c \in Sinks |->
                    IF (c \in new[t]) # (c \in asked[t]) THEN received[1] ELSE mark[t][c]]]
      /\ UNCHANGED <<kind, pc, received, hand, todo, closed, quit, got>>
  BY DEF Changed, flow
<1>w. Workers' = Workers /\ \A i : TopicOfValue(i)' = TopicOfValue(i)
  BY <1>1 DEF Workers, TopicOfValue
<1>2. Workers = {1} /\ 1 \in Goroutine
  BY DEF Workers, Goroutine
<1>3. received[1] \in 0..N + 1 /\ received[1] \in Nat
  BY <1>0, <1>2, GoFacts
<1>4. \A t \in Topic, c \in Sinks :
        mark'[t][c] = IF (c \in asked'[t]) # (c \in asked[t]) THEN received[1] ELSE mark[t][c]
  BY <1>1
<1>5. Types'
  <2>1. mark' \in [Topic -> [Sinks -> 0..N + 1]]
    BY <1>0, <1>1, <1>3 DEF Types
  <2>2. changes' \in 0..Changes
    BY <1>0, <1>1, CombinatorsAssumption DEF Types
  <2>3. QED
    BY <1>0, <1>1, <2>1, <2>2 DEF Types
<1>6. Phases' /\ Open' /\ Order'
  BY <1>0, <1>1, <1>w DEF Phases, Open, Order
<1>7. Tables'
  BY <1>1 DEF Tables
<1>8. Hands'
  <2> SUFFICES ASSUME NEW h \in Workers, pc[h] = "sending", NEW c \in Range(todo[h]),
                      c \notin asked'[TopicOfValue(hand[h])]
               PROVE  hand[h] <= mark'[TopicOfValue(hand[h])][c]
    BY <1>0, <1>1, <1>w DEF Hands
  <2>1. hand[h] \in 1..N /\ hand[h] = received[1] /\ todo[h] \in Seq(Sinks)
    BY <1>0, <1>2, GoFacts
  <2>2. TopicOfValue(hand[h]) \in Topic /\ c \in Sinks
    BY <2>1, TopicFacts, RangeFacts
  <2>3. c \notin asked[TopicOfValue(hand[h])] => hand[h] <= mark[TopicOfValue(hand[h])][c]
    BY <1>0 DEF Hands
  <2>4. QED
    BY <1>3, <1>4, <2>1, <2>2, <2>3
<1>9. Delivered'
  <2>1. \A c \in Sinks, h \in Goroutine, i \in 1..N : Before(c, h, i) => Before(c, h, i)'
    BY <1>1, <1>w DEF Before
  <2>2. QED
    BY <1>0, <1>1, <2>1, DeliveredKept
<1>10. Stream'
  <2> SUFFICES ASSUME NEW c \in Sinks, NEW t \in Topic, NEW h \in Workers, NEW i \in 1..N,
                      Due(c, t, h, i)'
               PROVE  <<h, i>> \in Range(got[c]) \/ UnderWay(h, i, c)'
    BY <1>1, <1>w DEF Stream
  <2>1. Due(c, t, h, i)
    <3>1. c \in asked[t] /\ mark'[t][c] = mark[t][c]
      <4>1. mark'[t][c] < i /\ i <= received[1] /\ c \in asked'[t]
        BY <1>1, <1>2 DEF Due
      <4>2. mark'[t][c] # received[1]
        BY <1>3, <4>1
      <4>3. QED
        BY <1>4, <4>1, <4>2
    <3>2. QED
      BY <1>1, <1>w, <3>1 DEF Due
  <2>2. UnderWay(h, i, c)' <=> UnderWay(h, i, c)
    BY <1>1 DEF UnderWay
  <2>3. QED
    BY <1>0, <2>1, <2>2 DEF Stream
<1>11. NothingAfterLeaving'
  <2> SUFFICES ASSUME NEW c \in Sinks, NEW t \in Topic, c \notin asked'[t],
                      NEW a \in DOMAIN got[c], TopicOfValue(got[c][a][2]) = t
               PROVE  got[c][a][2] <= mark'[t][c]
    BY <1>1, <1>w DEF NothingAfterLeaving
  <2>1. CASE c \in asked[t]
    <3>1. mark'[t][c] = received[1]
      BY <1>4, <2>1
    <3>2. Before(c, got[c][a][1], got[c][a][2])
      BY <1>0 DEF Delivered
    <3>3. QED
      BY <1>2, <3>1, <3>2 DEF Before
  <2>2. CASE c \notin asked[t]
    BY <1>0, <1>4, <2>2 DEF NothingAfterLeaving
  <2>3. QED
    BY <2>1, <2>2
<1>12. QED
  BY <1>5, <1>6, <1>7, <1>8, <1>9, <1>10, <1>11 DEF IInv

LEMMA ChangeInductive ==
    ASSUME IInv, Change
    PROVE  IInv'
<1>0. Types /\ Tables
  BY DEF IInv
<1>t. "yes" \in Topic /\ "no" \in Topic /\ \A t \in Topic : t = "yes" \/ t = "no"
  BY DEF Topic
<1>m. /\ members \in [Topic -> Seq(Sinks)] /\ asked \in [Topic -> SUBSET Sinks]
      /\ \A t \in Topic : asked[t] = Range(members[t])
      /\ kind = "mult" => members["no"] = <<>> /\ \A t \in Topic : IsInjective(members[t])
  BY <1>0 DEF Types, Tables
\* One channel joins or leaves one list, s: a mult has no other, and s no doubles.
<1>1. ASSUME NEW c \in Sinks, NEW t \in Topic, NEW s \in Seq(Sinks), NEW T \in SUBSET Sinks,
             kind \in {"mult", "pub"}, kind = "mult" => t = "yes" /\ IsInjective(s),
             Range(s) = T, members' = [members EXCEPT ![t] = s],
             Changed([asked EXCEPT ![t] = T])
      PROVE  IInv'
  <2> DEFINE m == [members EXCEPT ![t] = s]
             new == [asked EXCEPT ![t] = T]
  <2>1. /\ m \in [Topic -> Seq(Sinks)] /\ new \in [Topic -> SUBSET Sinks]
        /\ \A u \in Topic : new[u] = Range(m[u])
    BY <1>m, <1>1
  <2>2. kind = "mult" => m["no"] = <<>> /\ \A u \in Topic : IsInjective(m[u])
    BY <1>m, <1>1, <1>t
  <2>3. members' = m /\ Changed(new)
    BY <1>1
  <2> HIDE DEF m, new
  <2>4. \E x \in [Topic -> Seq(Sinks)], y \in [Topic -> SUBSET Sinks] : x = m /\ y = new
    BY <2>1
  <2>5. QED
    BY <1>1, <2>1, <2>2, <2>3, <2>4, ChangedInductive
<1>2. ASSUME NEW c \in Sinks, TapChannel(c) PROVE IInv'
  <2>1. /\ kind = "mult" /\ c \notin Range(members["yes"]) /\ members["yes"] \in Seq(Sinks)
        /\ members' = [members EXCEPT !["yes"] = Append(members["yes"], c)]
        /\ Changed([asked EXCEPT !["yes"] = asked["yes"] \cup {c}])
    BY <1>2, <1>t, <1>m DEF TapChannel, In
  <2>2. /\ Append(members["yes"], c) \in Seq(Sinks) /\ IsInjective(Append(members["yes"], c))
        /\ Range(Append(members["yes"], c)) = asked["yes"] \cup {c}
        /\ asked["yes"] \cup {c} \in SUBSET Sinks
    BY <1>t, <1>m, <2>1, MoreFacts
  <2>3. QED
    BY <1>1, <1>t, <2>1, <2>2
<1>3. ASSUME NEW c \in Sinks, NEW t \in Topic, Sub(c, t) PROVE IInv'
  <2>1. /\ kind = "pub" /\ members[t] \in Seq(Sinks)
        /\ members' = [members EXCEPT ![t] = Append(members[t], c)]
        /\ Changed([asked EXCEPT ![t] = asked[t] \cup {c}])
    BY <1>3, <1>m DEF Sub
  <2>2. /\ Append(members[t], c) \in Seq(Sinks)
        /\ Range(Append(members[t], c)) = asked[t] \cup {c}
        /\ asked[t] \cup {c} \in SUBSET Sinks
    BY <1>m, <2>1, MoreFacts
  <2>3. QED
    BY <1>1, <2>1, <2>2
<1>4. ASSUME NEW c \in Sinks, NEW t \in Topic, Unsub(c, t) \/ (t = "yes" /\ Untap(c))
      PROVE  IInv'
  <2>1. /\ kind \in {"mult", "pub"} /\ members[t] \in Seq(Sinks)
        /\ kind = "mult" => t = "yes" /\ IsInjective(members[t])
        /\ members' = [members EXCEPT ![t] = Without(members[t], c)]
        /\ Changed([asked EXCEPT ![t] = asked[t] \ {c}])
    BY <1>4, <1>m DEF Unsub, Untap
  <2>2. /\ Without(members[t], c) \in Seq(Sinks)
        /\ Range(Without(members[t], c)) = asked[t] \ {c}
        /\ kind = "mult" => IsInjective(Without(members[t], c))
        /\ asked[t] \ {c} \in SUBSET Sinks
    BY <1>m, <2>1, WithoutFacts
  <2>3. QED
    BY <1>1, <2>1, <2>2
<1>5. ASSUME UntapAll PROVE IInv'
  <2> DEFINE new == [t \in Topic |-> {}]
  <2>1. kind = "mult" /\ members' = Empty /\ Changed(new)
    BY <1>5 DEF UntapAll
  <2>2. /\ Empty \in [Topic -> Seq(Sinks)] /\ new \in [Topic -> SUBSET Sinks]
        /\ \A t \in Topic : new[t] = Range(Empty[t]) /\ IsInjective(Empty[t])
        /\ Empty["no"] = <<>>
    BY <1>t, NoneFacts DEF Empty
  <2> HIDE DEF new
  <2>3. PICK x : x = new
    OBVIOUS
  <2>4. QED
    BY <2>1, <2>2, <2>3, ChangedInductive
<1>6. ASSUME NEW T, UnsubAll(T) PROVE IInv'
  <2> DEFINE m == [t \in Topic |-> IF t \in T THEN <<>> ELSE members[t]]
             new == [t \in Topic |-> IF t \in T THEN {} ELSE asked[t]]
  <2>1. kind = "pub" /\ members' = m /\ Changed(new)
    BY <1>6 DEF UnsubAll
  <2>2. /\ m \in [Topic -> Seq(Sinks)] /\ new \in [Topic -> SUBSET Sinks]
        /\ \A t \in Topic : new[t] = Range(m[t])
    BY <1>m, NoneFacts
  <2> HIDE DEF new, m
  <2>3. QED
    BY <2>1, <2>2, ChangedInductive
<1>7. QED
  BY <1>2, <1>3, <1>4, <1>5, <1>6, <1>t DEF Change

-----------------------------------------------------------------------------
\* What is wired at first.
LEMMA WiringFacts ==
    ASSUME NEW k \in Kinds
    PROVE  /\ Wiring[k] \in [Topic -> Seq(Sinks)]
           /\ \A t \in Topic : IsInjective(Wiring[k][t])
           /\ k = "mult" => Wiring[k]["no"] = <<>>
<1>1. Wiring[k] \in {Empty, ToChan, OntoChan, Pipe, Merge, Split, MapFrom, MapTo, FilterFrom, FilterTo}
      /\ (k = "mult" => Wiring[k] = Empty)
  BY KindsAssumption DEF Wiring
<1>2. /\ <<>> \in Seq(Sinks) /\ <<Out>> \in Seq(Sinks) /\ <<Alt>> \in Seq(Sinks)
      /\ IsInjective(<<>>) /\ IsInjective(<<Out>>) /\ IsInjective(<<Alt>>)
  BY NoneFacts, OneFacts, CombinatorsAssumption
<1>3. ASSUME NEW w \in {Empty, ToChan, OntoChan, Pipe, Merge, Split, MapFrom, MapTo, FilterFrom, FilterTo}
      PROVE  \E f : w = [t \in Topic |-> f[t]] /\ \A t \in Topic : f[t] \in {<<>>, <<Out>>, <<Alt>>}
  BY DEF Empty, ToChan, OntoChan, Pipe, Merge, Split, MapFrom, MapTo, FilterFrom, FilterTo
<1>4. PICK f : /\ Wiring[k] = [t \in Topic |-> f[t]]
               /\ \A t \in Topic : f[t] \in {<<>>, <<Out>>, <<Alt>>}
  BY <1>1, <1>3
<1>5. Empty["no"] = <<>>
  BY DEF Empty, Topic
<1>6. QED
  BY <1>1, <1>2, <1>4, <1>5

LEMMA InitInductive == Init => IInv
<1> SUFFICES ASSUME Init PROVE IInv
  OBVIOUS
<1> USE CombinatorsAssumption DEF Init
<1>1. /\ members \in [Topic -> Seq(Sinks)] /\ \A t \in Topic : IsInjective(members[t])
      /\ kind = "mult" => members["no"] = <<>>
  BY WiringFacts
<1>2. Types
  <2>1. asked \in [Topic -> SUBSET Sinks]
    <3>1. \A t \in Topic : Range(members[t]) \subseteq Sinks
      BY <1>1, RangeFacts
    <3>2. QED
      BY <3>1
  <2>2. \A S : <<>> \in Seq(S)
    OBVIOUS
  <2>3. todo \in [Goroutine -> Seq(Sinks)] /\ got \in [Sinks -> Seq(Goroutine \X (1..N))]
    BY <2>2
  <2>4. 0 \in 0..N /\ 0 \in 0..N + 1 /\ 0 \in 0..Changes
    OBVIOUS
  <2>5. QED
    BY <1>1, <2>1, <2>3, <2>4 DEF Types, Places
<1>3. Tables
  BY <1>1 DEF Tables
<1>4. \A c \in Sinks : got[c] = <<>> /\ DOMAIN got[c] = {}
  OBVIOUS
<1>5. Delivered /\ Order /\ NothingAfterLeaving
  BY <1>4 DEF Delivered, Order, NothingAfterLeaving
<1>6. Phases /\ Hands /\ Open
  BY WorkersFacts DEF Phases, Hands, Open
<1>7. Stream
  <2>1. \A g \in Workers : received[g] = 0
    BY WorkersFacts
  <2>2. QED
    BY <2>1 DEF Stream, Due
<1>8. QED
  BY <1>2, <1>3, <1>5, <1>6, <1>7 DEF IInv

LEMMA StutterInductive ==
    ASSUME IInv, UNCHANGED vars
    PROVE  IInv'
<1>0. /\ Types /\ Phases /\ Tables /\ Hands /\ Delivered /\ Open
      /\ Order /\ Stream /\ NothingAfterLeaving
  BY DEF IInv
<1>1. UNCHANGED <<kind, members, pc, received, hand, todo, closed, quit, got, asked, mark, changes>>
  BY DEF vars, flow, table
<1>w. Workers' = Workers /\ \A i : TopicOfValue(i)' = TopicOfValue(i)
  BY <1>1 DEF Workers, TopicOfValue
<1>2. Types'
  BY <1>0, <1>1 DEF Types
<1>3. Phases' /\ Open' /\ Hands'
  BY <1>0, <1>1, <1>w DEF Phases, Open, Hands
<1>4. Tables' /\ Order' /\ NothingAfterLeaving'
  BY <1>0, <1>1, TableKept, OrderKept, LeftKept
<1>5. Delivered'
  BY <1>0, <1>1, <1>w DEF Delivered, Before
<1>6. Stream'
  BY <1>0, <1>1, <1>w DEF Stream, Due, UnderWay
<1>7. QED
  BY <1>2, <1>3, <1>4, <1>5, <1>6 DEF IInv

LEMMA Inductive == IInv /\ [Next]_vars => IInv'
<1> SUFFICES ASSUME IInv, [Next]_vars PROVE IInv'
  OBVIOUS
<1>1. ASSUME NEW g \in Workers, Step(g) PROVE IInv'
  BY <1>1, ReceiveInductive, RouteInductive, SendTakenInductive, SendRefusedInductive,
     RouteEndInductive, CloseNextInductive DEF Step
<1>2. QED
  BY <1>1, CloseInductive, ChangeInductive, StutterInductive DEF Next

LEMMA Invariant == Spec => []IInv
  BY InitInductive, Inductive, PTL DEF Spec

-----------------------------------------------------------------------------
\* Every variable keeps its type; no channel is twice among the taps of a mult.
THEOREM TypeCorrect == Spec => []TypeOK
<1>1. IInv => TypeOK
  <2> SUFFICES ASSUME IInv PROVE TypeOK
    OBVIOUS
  <2>1. Types /\ Tables
    BY DEF IInv
  <2>2. kind = "mult" => IsInjective(members["yes"]) /\ members["no"] = <<>>
    BY <2>1 DEF Tables, Topic
  <2>3. \A g \in Goroutine : /\ received[g] \in 0..N + 1 /\ hand[g] \in 0..N
                             /\ todo[g] \in Seq(Sinks)
                             /\ todo[g] = <<>> <=> pc[g] \notin {"sending", "closing"}
    BY <2>1 DEF Types
  <2>4. QED
    BY <2>1, <2>2, <2>3 DEF Types, TypeOK, Places
<1>2. QED
  BY <1>1, Invariant, PTL

\* Who taps or subscribes to a combinator, or is its output, gets every value its
\* source gives from then on, in order and once, whoever else is slow, joins,
\* leaves or closes; only the value under way may be missing.
THEOREM EachGetsItsStreamCorrect == Spec => []EachGetsItsStream
<1>1. IInv => EachGetsItsStream
  BY DEF IInv, Order, Stream, Due, EachGetsItsStream
<1>2. QED
  BY <1>1, Invariant, PTL

\* A channel that left hears of no value received after it did.
THEOREM NothingAfterLeavingCorrect == Spec => []NothingAfterLeaving
<1>1. IInv => NothingAfterLeaving
  BY DEF IInv
<1>2. QED
  BY <1>1, Invariant, PTL

-----------------------------------------------------------------------------
\* Whatever joins or leaves, a channel that has its place since before the end keeps it.
LEMMA ChangeIsChanged ==
    ASSUME Change
    PROVE  \E new : Changed(new)
<1>1. ASSUME NEW c \in Sinks, TapChannel(c) \/ Untap(c) PROVE \E new : Changed(new)
  BY <1>1 DEF TapChannel, Untap
<1>2. ASSUME NEW c \in Sinks, NEW t \in Topic, Sub(c, t) \/ Unsub(c, t) PROVE \E new : Changed(new)
  BY <1>2 DEF Sub, Unsub
<1>3. ASSUME UntapAll PROVE \E new : Changed(new)
  BY <1>3 DEF UntapAll
<1>4. ASSUME NEW T, UnsubAll(T) PROVE \E new : Changed(new)
  BY <1>4 DEF UnsubAll
<1>5. QED
  BY <1>1, <1>2, <1>3, <1>4 DEF Change

LEMMA NoneMissesTheEndKept ==
    ASSUME IInv, NoneMissesTheEnd, [Next]_vars
    PROVE  NoneMissesTheEnd'
<1>0. /\ Types /\ Phases /\ Tables /\ Types'
  BY Inductive DEF IInv
<1>1. UNCHANGED kind
  <2>1. ASSUME NEW g \in Workers, Step(g) PROVE UNCHANGED kind
    BY <2>1 DEF Step, Receive, ReceiveEnd, RouteTaps, RouteByTopic, Copied, SendTaken,
       SendRefused, Sent, RouteEnd, CloseNext
  <2>2. Change => UNCHANGED kind
    BY ChangeIsChanged DEF Changed
  <2>3. QED
    BY <2>1, <2>2 DEF Next, MergeClose, Quit, vars
<1> SUFFICES ASSUME kind \notin StaysOpen \cup {"merge"}, pc'[1] \in {"closing", "done"},
                    NEW t \in Topic, NEW c \in asked'[t], mark'[t][c] < received'[1]
             PROVE  c \in closed' \/ c \in Range(todo'[1])
  BY <1>1 DEF NoneMissesTheEnd, StaysOpen
<1>2. Workers = {1} /\ 1 \in Goroutine
  BY DEF Workers, Goroutine
<1>3. c \in Sinks /\ received[1] \in Nat
  BY <1>0, <1>2, GoFacts DEF Types
<1>4. ASSUME pc[1] \in {"closing", "done"}, c \in asked[t], mark[t][c] < received[1]
      PROVE  c \in closed \/ c \in Range(todo[1])
  BY <1>4 DEF NoneMissesTheEnd
<1>5. pc \in [Goroutine -> Places] /\ todo \in [Goroutine -> Seq(Sinks)]
  BY <1>0 DEF Types
<1>6. CASE Step(1)
  <2>1. CASE Receive(1) \/ ReceiveEnd(1)
    BY <1>2, <1>5, <2>1 DEF Receive, ReceiveEnd, Goto
  <2>2. CASE RouteTaps(1) \/ RouteByTopic(1)
    BY <1>2, <1>5, <2>2 DEF RouteTaps, RouteByTopic, Copied, Goto
  <2>3. CASE SendTaken(1) \/ SendRefused(1)
    BY <1>2, <1>5, <2>3 DEF SendTaken, SendRefused, Sent, Goto
  <2>4. CASE RouteEnd(1)
    <3>1. PICK s \in SetToSeqs(Ending) : todo'[1] = s
      BY <1>2, <1>5, <2>4 DEF RouteEnd
    <3>2. Range(todo'[1]) = Ending
      BY <1>0, <3>1, EndingFacts, OrderFacts
    <3>3. asked' = asked /\ asked[t] = Range(members[t])
      BY <1>0, <2>4 DEF RouteEnd, table, Tables
    <3>4. Ending = UNION {Range(members[u]) : u \in Topic}
      BY DEF Ending
    <3>5. QED
      BY <3>2, <3>3, <3>4
  <2>5. CASE CloseNext(1)
    <3>1. /\ pc[1] = "closing" /\ closed' = closed \cup {Head(todo[1])}
          /\ todo'[1] = Tail(todo[1]) /\ UNCHANGED <<asked, mark, received>>
      BY <1>2, <1>5, <2>5 DEF CloseNext, table
    <3>2. todo[1] # <<>> /\ todo[1] \in Seq(Sinks)
      BY <1>0, <1>2, <3>1, GoFacts
    <3>3. Range(todo[1]) = {Head(todo[1])} \cup Range(Tail(todo[1]))
      BY <3>2, HeadFacts
    <3>4. QED
      BY <1>4, <3>1, <3>3
  <2>6. QED
    BY <1>6, <2>1, <2>2, <2>3, <2>4, <2>5 DEF Step
<1>7. CASE Change
  <2>1. PICK new : Changed(new)
    BY <1>7, ChangeIsChanged
  <2>2. /\ UNCHANGED <<pc, received, todo, closed>>
        /\ mark'[t][c] = IF (c \in asked'[t]) # (c \in asked[t]) THEN received[1] ELSE mark[t][c]
    BY <1>3, <2>1 DEF Changed, flow
  <2>3. c \in asked[t] /\ mark'[t][c] = mark[t][c]
    BY <1>3, <2>2
  <2>4. QED
    BY <1>4, <2>2, <2>3
<1>8. CASE (\E q \in Quitters : Quit(q)) \/ UNCHANGED vars
  <2>1. UNCHANGED <<pc, received, todo, asked, mark>> /\ closed \subseteq closed'
    BY <1>8 DEF Quit, vars, flow, table
  <2>2. QED
    BY <1>4, <2>1
<1>9. ~MergeClose
  BY DEF MergeClose
<1>10. QED
  BY <1>2, <1>6, <1>7, <1>8, <1>9 DEF Next

\* The end of a source reaches every output, tap and subscriber there was when it
\* came: none is passed over, whoever comes, leaves and closes while they are closed
\* one after the other.
THEOREM NoneMissesTheEndCorrect == Spec => []NoneMissesTheEnd
<1>1. Init => NoneMissesTheEnd
  BY WorkersFacts DEF Init, NoneMissesTheEnd
<1>2. QED
  BY <1>1, Invariant, NoneMissesTheEndKept, PTL DEF Spec

=============================================================================
