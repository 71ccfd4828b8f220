---------------------------- MODULE ChannelProofs ----------------------------
(***************************************************************************)
(* Proofs about Channel, for every set of callers and every capacity.      *)
(***************************************************************************)
EXTENDS Channel, SequenceTheorems, TLAPS

-----------------------------------------------------------------------------
\* What the sequence operators of the model return, position by position.
LEMMA AppendAt ==
    ASSUME NEW S, NEW s \in Seq(S), NEW e \in S
    PROVE  /\ Append(s, e) \in Seq(S)
           /\ Len(Append(s, e)) = Len(s) + 1
           /\ \A i \in 1..Len(s) : Append(s, e)[i] = s[i]
           /\ Append(s, e)[Len(s) + 1] = e
  OBVIOUS

LEMMA TailAt ==
    ASSUME NEW S, NEW s \in Seq(S), s # <<>>
    PROVE  /\ Tail(s) \in Seq(S)
           /\ Head(s) \in S
           /\ Head(s) = s[1]
           /\ Len(s) \in Nat \ {0}
           /\ Len(Tail(s)) = Len(s) - 1
           /\ \A i \in 1..Len(s) - 1 : Tail(s)[i] = s[i + 1]
  OBVIOUS

LEMMA PrefixAt ==
    ASSUME NEW S, NEW s \in Seq(S), NEW n \in 0..Len(s)
    PROVE  /\ SubSeq(s, 1, n) \in Seq(S)
           /\ Len(SubSeq(s, 1, n)) = n
           /\ \A i \in 1..n : SubSeq(s, 1, n)[i] = s[i]
  OBVIOUS

LEMMA EmptyQueue ==
    ASSUME NEW S, NEW s \in Seq(S), Len(s) = 0
    PROVE  s = <<>>
  OBVIOUS

\* How many entries are buffered.
LEMMA BufferedRange ==
    ASSUME TypeOK
    PROVE  /\ Buffered \in 0..Len(queue)
           /\ Buffered <= Cap
           /\ Len(queue) <= Cap => Buffered = Len(queue)
           /\ Len(queue) > Cap => Buffered = Cap
  BY ChannelAssumption DEF TypeOK, Buffered, SmallerOf

-----------------------------------------------------------------------------
\* Every variable keeps its type, for all callers and every capacity.
THEOREM TypeCorrect == Spec => []TypeOK
<1>1. Init => TypeOK
  <2> SUFFICES ASSUME Init PROVE TypeOK
    OBVIOUS
  <2>1. queue \in Seq(Msgs) /\ delivered \in Seq(Msgs)
    BY DEF Init
  <2>2. /\ sendPc \in [Msgs -> SendStates]
        /\ recvPc \in [Receivers -> {"idle", "waiting"}]
        /\ answer \in [Receivers -> Answers]
        /\ closePc \in [Closers -> CloseStates]
    BY DEF Init, SendStates, CloseStates, Answers
  <2>3. /\ chClosed \in BOOLEAN /\ isClosed \in BOOLEAN
        /\ doneFired \in BOOLEAN /\ closeMu \in Closers \cup {Nobody}
    BY DEF Init
  <2>4. QED
    BY <2>1, <2>2, <2>3 DEF TypeOK
<1>2. TypeOK /\ [Next]_vars => TypeOK'
  <2> SUFFICES ASSUME TypeOK, [Next]_vars
               PROVE  TypeOK'
    OBVIOUS
  <2> USE DEF TypeOK, SendStates, CloseStates, Answers
  <2>1. ASSUME NEW m \in Msgs, ProcSend(m) PROVE TypeOK'
    BY <2>1 DEF ProcSend
  <2>2. ASSUME NEW m \in Msgs, SendCheck(m) PROVE TypeOK'
    BY <2>2 DEF SendCheck
  <2>3. ASSUME NEW m \in Msgs, SendPut(m) PROVE TypeOK'
    BY <2>3, AppendAt DEF SendPut
  <2>4. ASSUME NEW m \in Msgs, SendPanics(m) PROVE TypeOK'
    BY <2>4 DEF SendPanics
  <2>5. ASSUME NEW r \in Receivers, ReceiveCall(r) PROVE TypeOK'
    BY <2>5 DEF ReceiveCall
  <2>6. ASSUME NEW r \in Receivers, ReceiveValue(r) PROVE TypeOK'
    <3>1. queue' \in Seq(Msgs) /\ delivered' \in Seq(Msgs)
      BY <2>6, TailAt, AppendAt DEF ReceiveValue
    <3>2. sendPc' \in [Msgs -> SendStates]
      BY <2>6 DEF ReceiveValue
    <3>3. QED
      BY <2>6, <3>1, <3>2 DEF ReceiveValue, Return
  <2>7. ASSUME NEW r \in Receivers, ReceiveClosed(r) PROVE TypeOK'
    BY <2>7 DEF ReceiveClosed, Return
  <2>8. ASSUME NEW r \in Receivers, ReceiveDone(r) PROVE TypeOK'
    BY <2>8 DEF ReceiveDone, Return
  <2>9. CASE FireDone
    BY <2>9 DEF FireDone
  <2>10. ASSUME NEW c \in Closers, CloseAgain(c) PROVE TypeOK'
    BY <2>10 DEF CloseAgain
  <2>11. ASSUME NEW c \in Closers, CloseFlag(c) PROVE TypeOK'
    BY <2>11 DEF CloseFlag
  <2>12. ASSUME NEW c \in Closers, CloseChan(c) PROVE TypeOK'
    <3>1. queue' \in Seq(Msgs)
      BY <2>12, BufferedRange, PrefixAt DEF CloseChan
    <3>2. QED
      BY <2>12, <3>1 DEF CloseChan
  <2>13. CASE UNCHANGED vars
    BY <2>13 DEF vars
  <2>14. QED
    BY <2>1, <2>2, <2>3, <2>4, <2>5, <2>6, <2>7, <2>8, <2>9, <2>10, <2>11,
       <2>12, <2>13 DEF Next, SendStep, ReceiveStep, CloseStep
<1>3. QED
  BY <1>1, <1>2, PTL DEF Spec

-----------------------------------------------------------------------------
\* The mutex and the flag: whoever is between Close's two writes holds the
\* mutex, and when nobody does the flag tells the truth about the channel.
LockInv ==
    /\ \A c \in Closers : closePc[c] = "closing" <=> closeMu = c
    /\ closeMu = Nobody => isClosed = chClosed
    /\ closeMu # Nobody => isClosed /\ ~chClosed

LEMMA LockInvariant == Spec => []LockInv
<1>1. Init => LockInv
  <2> SUFFICES ASSUME Init PROVE LockInv
    OBVIOUS
  <2>1. \A c \in Closers : closePc[c] # "closing" /\ closeMu # c
    BY ChannelAssumption DEF Init
  <2>2. closeMu = Nobody /\ isClosed = chClosed
    BY DEF Init
  <2>3. QED
    BY <2>1, <2>2 DEF LockInv
<1>2. TypeOK /\ LockInv /\ [Next]_vars => LockInv'
  <2> SUFFICES ASSUME TypeOK, LockInv, [Next]_vars
               PROVE  LockInv'
    OBVIOUS
  <2>1. ASSUME NEW c \in Closers, CloseFlag(c) PROVE LockInv'
    BY <2>1, ChannelAssumption DEF CloseFlag, IsClosedReturns, LockInv, TypeOK
  <2>2. ASSUME NEW c \in Closers, CloseChan(c) PROVE LockInv'
    BY <2>2, ChannelAssumption DEF CloseChan, LockInv, TypeOK
  <2>3. ASSUME NEW c \in Closers, CloseAgain(c) PROVE LockInv'
    BY <2>3, ChannelAssumption DEF CloseAgain, IsClosedReturns, LockInv, TypeOK
  <2>4. CASE UNCHANGED <<isClosed, chClosed, closeMu, closePc>>
    BY <2>4 DEF LockInv
  <2>5. ASSUME NEW m \in Msgs, SendStep(m)
        PROVE  UNCHANGED <<isClosed, chClosed, closeMu, closePc>>
    BY <2>5 DEF SendStep, ProcSend, SendCheck, SendPut, SendPanics
  <2>6. ASSUME NEW r \in Receivers, ReceiveCall(r) \/ ReceiveStep(r)
        PROVE  UNCHANGED <<isClosed, chClosed, closeMu, closePc>>
    BY <2>6 DEF ReceiveStep, ReceiveCall, ReceiveValue, ReceiveClosed, ReceiveDone
  <2>7. FireDone \/ UNCHANGED vars
          => UNCHANGED <<isClosed, chClosed, closeMu, closePc>>
    BY DEF FireDone, vars
  <2>8. QED
    BY <2>1, <2>2, <2>3, <2>4, <2>5, <2>6, <2>7 DEF Next, CloseStep
<1>3. QED
  BY <1>1, <1>2, TypeCorrect, PTL DEF Spec

\* close(ch) runs at most once, whatever Closes race.
THEOREM CloseOnceCorrect == Spec => []CloseRunsOnce
<1>1. TypeOK /\ LockInv => CloseRunsOnce
  BY ChannelAssumption DEF LockInv, CloseRunsOnce, TypeOK
<1>2. QED
  BY <1>1, LockInvariant, TypeCorrect, PTL

-----------------------------------------------------------------------------
\* What the queue and the history hold, entry by entry: buffered entries have
\* been accepted, those behind them are parked, and every accepted value is in
\* one of the two sequences, once.
QueueInv ==
    /\ \A i \in 1..Len(queue) :
         sendPc[queue[i]] = IF i <= Cap THEN "accepted" ELSE "parked"
    /\ \A i \in 1..Len(delivered) : sendPc[delivered[i]] = "accepted"
    /\ \A i, j \in 1..Len(queue) : queue[i] = queue[j] => i = j
    /\ \A i, j \in 1..Len(delivered) : delivered[i] = delivered[j] => i = j
    /\ \A i \in 1..Len(queue), j \in 1..Len(delivered) : queue[i] # delivered[j]
    /\ \A m \in Msgs : sendPc[m] \in {"accepted", "parked"} =>
         \/ \E i \in 1..Len(queue) : queue[i] = m
         \/ \E j \in 1..Len(delivered) : delivered[j] = m
    /\ chClosed => Len(queue) <= Cap

\* A step of Send that leaves the queue alone moves a message that is in
\* neither sequence to a state that claims no place in them.
LEMMA QueueKept ==
    ASSUME TypeOK, QueueInv, NEW m \in Msgs, NEW v \in SendStates,
           sendPc[m] \notin {"accepted", "parked"},
           v \notin {"accepted", "parked"},
           sendPc' = [sendPc EXCEPT ![m] = v],
           UNCHANGED <<queue, delivered, chClosed>>
    PROVE  QueueInv'
<1>1. \A i \in 1..Len(queue) : queue[i] \in Msgs /\ queue[i] # m
  BY DEF TypeOK, QueueInv
<1>2. \A i \in 1..Len(delivered) : delivered[i] \in Msgs /\ delivered[i] # m
  BY DEF TypeOK, QueueInv
<1>3. \A n \in Msgs : n # m => sendPc'[n] = sendPc[n]
  BY DEF TypeOK
<1>4. sendPc'[m] = v
  BY DEF TypeOK
<1>5. QED
  BY <1>1, <1>2, <1>3, <1>4 DEF QueueInv

LEMMA QueueInvariant == Spec => []QueueInv
<1>1. Init => QueueInv
  BY ChannelAssumption DEF Init, QueueInv
<1>2. TypeOK /\ QueueInv /\ [Next]_vars => QueueInv'
  <2> SUFFICES ASSUME TypeOK, QueueInv, [Next]_vars
               PROVE  QueueInv'
    OBVIOUS
  <2>1. ASSUME NEW m \in Msgs, ProcSend(m) PROVE QueueInv'
    BY <2>1, QueueKept DEF ProcSend, SendStates
  <2>2. ASSUME NEW m \in Msgs, SendCheck(m) PROVE QueueInv'
    BY <2>2, QueueKept DEF SendCheck, SendStates
  <2>3. ASSUME NEW m \in Msgs, SendPanics(m) PROVE QueueInv'
    BY <2>3, QueueKept DEF SendPanics, SendStates
  <2>4. ASSUME NEW m \in Msgs, SendPut(m) PROVE QueueInv'
    <3> DEFINE n == Len(queue)
    <3>1. /\ Len(queue') = n + 1 /\ n \in Nat
          /\ \A i \in 1..n : queue'[i] = queue[i]
          /\ queue'[n + 1] = m
      BY <2>4, AppendAt DEF SendPut, TypeOK
    <3>2. /\ \A i \in 1..n : queue[i] \in Msgs /\ queue[i] # m
          /\ \A i \in 1..Len(delivered) : delivered[i] \in Msgs /\ delivered[i] # m
      BY <2>4 DEF SendPut, TypeOK, QueueInv
    <3>3. /\ \A k \in Msgs : k # m => sendPc'[k] = sendPc[k]
          /\ sendPc'[m] = IF n < Cap THEN "accepted" ELSE "parked"
          /\ delivered' = delivered /\ ~chClosed'
      BY <2>4 DEF SendPut, TypeOK
    <3> HIDE DEF n
    <3>4. \A i \in 1..Len(queue') :
            sendPc'[queue'[i]] = IF i <= Cap THEN "accepted" ELSE "parked"
      <4> SUFFICES ASSUME NEW i \in 1..(n + 1)
                   PROVE  sendPc'[queue'[i]] = IF i <= Cap THEN "accepted" ELSE "parked"
        BY <3>1
      <4>1. CASE i \in 1..n
        BY <4>1, <3>1, <3>2, <3>3 DEF QueueInv, n
      <4>2. CASE i = n + 1
        BY <4>2, <3>1, <3>3, ChannelAssumption
      <4>3. QED
        BY <4>1, <4>2, <3>1
    <3>5. \A i \in 1..Len(delivered') : sendPc'[delivered'[i]] = "accepted"
      BY <3>2, <3>3 DEF QueueInv
    <3>6. \A i, j \in 1..Len(queue') : queue'[i] = queue'[j] => i = j
      BY <3>1, <3>2 DEF QueueInv, n
    <3>7. \A i \in 1..Len(queue'), j \in 1..Len(delivered') :
            queue'[i] # delivered'[j]
      BY <3>1, <3>2, <3>3 DEF QueueInv, n
    <3>8. \A k \in Msgs : sendPc'[k] \in {"accepted", "parked"} =>
            \/ \E i \in 1..Len(queue') : queue'[i] = k
            \/ \E j \in 1..Len(delivered') : delivered'[j] = k
      <4> SUFFICES ASSUME NEW k \in Msgs, sendPc'[k] \in {"accepted", "parked"}
                   PROVE  \/ \E i \in 1..(n + 1) : queue'[i] = k
                          \/ \E j \in 1..Len(delivered) : delivered[j] = k
        BY <3>1, <3>3
      <4>1. CASE k = m
        BY <4>1, <3>1
      <4>2. CASE k # m
        BY <4>2, <3>1, <3>3 DEF QueueInv, n
      <4>3. QED
        BY <4>1, <4>2
    <3>9. QED
      BY <3>3, <3>4, <3>5, <3>6, <3>7, <3>8 DEF QueueInv
  <2>5. ASSUME NEW r \in Receivers, ReceiveValue(r) PROVE QueueInv'
    <3> DEFINE n == Len(queue)
               d == Len(delivered)
    <3>1. /\ n \in Nat \ {0} /\ d \in Nat
          /\ Len(queue') = n - 1
          /\ \A i \in 1..n - 1 : queue'[i] = queue[i + 1]
      BY <2>5, TailAt DEF ReceiveValue, TypeOK
    <3>2. /\ Len(delivered') = d + 1
          /\ \A i \in 1..d : delivered'[i] = delivered[i]
          /\ delivered'[d + 1] = queue[1]
      BY <2>5, TailAt, AppendAt DEF ReceiveValue, TypeOK
    <3>3. \A k \in Msgs :
            sendPc'[k] = IF n > Cap /\ k = queue[Cap + 1] THEN "accepted"
                                                          ELSE sendPc[k]
      BY <2>5, <3>1, ChannelAssumption DEF ReceiveValue, TypeOK
    <3>4. /\ \A i \in 1..n : queue[i] \in Msgs
          /\ \A i \in 1..d : delivered[i] \in Msgs
          /\ chClosed' = chClosed
      BY <2>5 DEF ReceiveValue, TypeOK
    <3> HIDE DEF n, d
    <3>5. \A i \in 1..n : sendPc'[queue[i]] =
            IF i <= Cap + 1 THEN "accepted" ELSE "parked"
      <4> SUFFICES ASSUME NEW i \in 1..n
                   PROVE  sendPc'[queue[i]] = IF i <= Cap + 1 THEN "accepted"
                                                              ELSE "parked"
        OBVIOUS
      <4>1. sendPc[queue[i]] = IF i <= Cap THEN "accepted" ELSE "parked"
        BY DEF QueueInv, n
      <4>2. \A j \in 1..n : queue[i] = queue[j] => i = j
        BY DEF QueueInv, n
      <4>3. i \in Nat /\ Cap \in Nat /\ queue[i] \in Msgs
        BY <3>4, ChannelAssumption
      <4>4. CASE i = Cap + 1
        BY <4>3, <4>4, <3>1, <3>3
      <4>5. CASE i # Cap + 1
        <5>1. ~(n > Cap /\ queue[i] = queue[Cap + 1])
          BY <4>2, <4>3, <4>5, <3>1
        <5>2. QED
          BY <5>1, <4>1, <4>3, <4>5, <3>3
      <4>6. QED
        BY <4>4, <4>5
    <3>6. \A i \in 1..Len(queue') :
            sendPc'[queue'[i]] = IF i <= Cap THEN "accepted" ELSE "parked"
      BY <3>1, <3>5, ChannelAssumption
    <3>7. \A i \in 1..Len(delivered') : sendPc'[delivered'[i]] = "accepted"
      <4>1. \A i \in 1..d : sendPc'[delivered[i]] = "accepted"
        BY <3>3, <3>4 DEF QueueInv, d
      <4>2. sendPc'[queue[1]] = "accepted"
        BY <3>1, <3>5, ChannelAssumption
      <4>3. QED
        BY <4>1, <4>2, <3>1, <3>2
    <3>8. \A i, j \in 1..Len(queue') : queue'[i] = queue'[j] => i = j
      BY <3>1 DEF QueueInv, n
    <3>9. \A i, j \in 1..Len(delivered') : delivered'[i] = delivered'[j] => i = j
      <4>1. \A i \in 1..d : delivered[i] # queue[1]
        BY <3>1 DEF QueueInv, n, d
      <4>2. \A i, j \in 1..d : delivered[i] = delivered[j] => i = j
        BY DEF QueueInv, d
      <4>3. \A i \in 1..(d + 1) : i \in 1..d \/ i = d + 1
        BY <3>1
      <4>4. QED
        BY <4>1, <4>2, <4>3, <3>2
    <3>10. \A i \in 1..Len(queue'), j \in 1..Len(delivered') :
            queue'[i] # delivered'[j]
      <4>1. \A i \in 1..n - 1 : queue[i + 1] # queue[1]
        BY <3>1 DEF QueueInv, n
      <4>2. \A i \in 1..n - 1, j \in 1..d : queue[i + 1] # delivered[j]
        BY <3>1 DEF QueueInv, n, d
      <4> SUFFICES ASSUME NEW i \in 1..n - 1, NEW j \in 1..(d + 1)
                   PROVE  queue[i + 1] # delivered'[j]
        BY <3>1, <3>2
      <4>3. CASE j \in 1..d
        BY <4>2, <4>3, <3>2
      <4>4. CASE j = d + 1
        BY <4>1, <4>4, <3>2
      <4>5. QED
        BY <4>3, <4>4, <3>1
    <3>11. \A k \in Msgs : sendPc'[k] \in {"accepted", "parked"} =>
            \/ \E i \in 1..Len(queue') : queue'[i] = k
            \/ \E j \in 1..Len(delivered') : delivered'[j] = k
      <4> SUFFICES ASSUME NEW k \in Msgs, sendPc'[k] \in {"accepted", "parked"}
                   PROVE  \/ \E i \in 1..n - 1 : queue'[i] = k
                          \/ \E j \in 1..(d + 1) : delivered'[j] = k
        BY <3>1, <3>2
      <4>1. \/ \E i \in 1..n : queue[i] = k
            \/ \E j \in 1..d : delivered[j] = k
        <5>1. CASE n > Cap /\ k = queue[Cap + 1]
          BY <5>1, <3>1, ChannelAssumption
        <5>2. CASE ~(n > Cap /\ k = queue[Cap + 1])
          BY <5>2, <3>3 DEF QueueInv, n, d
        <5>3. QED
          BY <5>1, <5>2
      <4>2. CASE \E j \in 1..d : delivered[j] = k
        BY <4>2, <3>1, <3>2
      <4>3. ASSUME NEW i \in 1..n, queue[i] = k
            PROVE  \/ \E a \in 1..n - 1 : queue'[a] = k
                   \/ \E j \in 1..(d + 1) : delivered'[j] = k
        <5>1. CASE i = 1
          BY <5>1, <4>3, <3>1, <3>2
        <5>2. CASE i # 1
          <6>1. i - 1 \in 1..n - 1 /\ queue'[i - 1] = queue[i]
            BY <5>2, <3>1
          <6>2. QED
            BY <6>1, <4>3
        <5>3. QED
          BY <5>1, <5>2
      <4>4. QED
        BY <4>1, <4>2, <4>3
    <3>12. chClosed' => Len(queue') <= Cap
      BY <3>1, <3>4, ChannelAssumption DEF QueueInv, n
    <3>13. QED
      BY <3>6, <3>7, <3>8, <3>9, <3>10, <3>11, <3>12 DEF QueueInv
  <2>6. ASSUME NEW c \in Closers, CloseChan(c) PROVE QueueInv'
    <3> DEFINE b == Buffered
    <3>1. b \in 0..Len(queue) /\ b <= Cap /\ (Len(queue) > Cap => b = Cap)
          /\ (Len(queue) <= Cap => b = Len(queue))
      BY BufferedRange
    <3>2. /\ Len(queue') = b
          /\ \A i \in 1..b : queue'[i] = queue[i]
      BY <2>6, <3>1, PrefixAt DEF CloseChan, TypeOK
    <3>3. /\ \A k \in Msgs : sendPc'[k] = IF sendPc[k] = "parked" THEN "refused"
                                                                ELSE sendPc[k]
          /\ delivered' = delivered
      BY <2>6 DEF CloseChan
    <3>4. /\ \A i \in 1..Len(queue) : queue[i] \in Msgs
          /\ \A i \in 1..Len(delivered) : delivered[i] \in Msgs
          /\ Len(queue) \in Nat
      BY DEF TypeOK
    <3> HIDE DEF b
    <3>5. \A i \in 1..Len(queue') :
            sendPc'[queue'[i]] = IF i <= Cap THEN "accepted" ELSE "parked"
      BY <3>1, <3>2, <3>3, <3>4, ChannelAssumption DEF QueueInv
    <3>6. \A i \in 1..Len(delivered') : sendPc'[delivered'[i]] = "accepted"
      BY <3>3, <3>4 DEF QueueInv
    <3>7. /\ \A i, j \in 1..Len(queue') : queue'[i] = queue'[j] => i = j
          /\ \A i \in 1..Len(queue'), j \in 1..Len(delivered') :
               queue'[i] # delivered'[j]
      <4>1. \A i \in 1..Len(queue') : i \in 1..Len(queue) /\ queue'[i] = queue[i]
        BY <3>1, <3>2, <3>4
      <4>2. \A i, j \in 1..Len(queue) : queue[i] = queue[j] => i = j
        BY DEF QueueInv
      <4>3. \A i \in 1..Len(queue), j \in 1..Len(delivered) : queue[i] # delivered[j]
        BY DEF QueueInv
      <4>4. QED
        BY <3>3, <4>1, <4>2, <4>3
    <3>8. \A k \in Msgs : sendPc'[k] \in {"accepted", "parked"} =>
            \/ \E i \in 1..Len(queue') : queue'[i] = k
            \/ \E j \in 1..Len(delivered') : delivered'[j] = k
      <4> SUFFICES ASSUME NEW k \in Msgs, sendPc'[k] \in {"accepted", "parked"}
                   PROVE  \/ \E i \in 1..b : queue'[i] = k
                          \/ \E j \in 1..Len(delivered) : delivered[j] = k
        BY <3>2, <3>3
      <4>1. sendPc[k] = "accepted"
        BY <3>3
      <4>2. ASSUME NEW i \in 1..Len(queue), queue[i] = k
            PROVE  i \in 1..b
        BY <4>1, <4>2, <3>1, <3>4, ChannelAssumption DEF QueueInv
      <4>3. QED
        BY <4>1, <4>2, <3>2 DEF QueueInv
    <3>9. QED
      BY <3>1, <3>2, <3>3, <3>5, <3>6, <3>7, <3>8 DEF QueueInv
  <2>7. CASE UNCHANGED <<queue, delivered, sendPc, chClosed>>
    BY <2>7 DEF QueueInv
  <2>8. ASSUME NEW r \in Receivers,
               ReceiveCall(r) \/ ReceiveClosed(r) \/ ReceiveDone(r)
        PROVE  UNCHANGED <<queue, delivered, sendPc, chClosed>>
    BY <2>8 DEF ReceiveCall, ReceiveClosed, ReceiveDone
  <2>9. ASSUME NEW c \in Closers, CloseAgain(c) \/ CloseFlag(c)
        PROVE  UNCHANGED <<queue, delivered, sendPc, chClosed>>
    BY <2>9 DEF CloseAgain, CloseFlag
  <2>10. FireDone \/ UNCHANGED vars
           => UNCHANGED <<queue, delivered, sendPc, chClosed>>
    BY DEF FireDone, vars
  <2>11. QED
    BY <2>1, <2>2, <2>3, <2>4, <2>5, <2>6, <2>7, <2>8, <2>9, <2>10
       DEF Next, SendStep, ReceiveStep, CloseStep
<1>3. QED
  BY <1>1, <1>2, TypeCorrect, PTL DEF Spec

\* The verdict a Send returns is the fate of its value.
THEOREM VerdictCorrect == Spec => []VerdictMatchesFate
<1>1. TypeOK /\ QueueInv => VerdictMatchesFate
  <2> SUFFICES ASSUME TypeOK, QueueInv, NEW m \in Msgs
               PROVE  (sendPc[m] = "accepted") <=>
                        (\/ m \in Elements(delivered)
                         \/ \E i \in 1..Buffered : queue[i] = m)
    BY DEF VerdictMatchesFate
  <2>1. /\ Buffered \in 0..Len(queue) /\ Buffered <= Cap
        /\ Len(queue) <= Cap => Buffered = Len(queue)
        /\ Len(queue) > Cap => Buffered = Cap
    BY BufferedRange
  <2>2. Len(queue) \in Nat
    BY DEF TypeOK
  <2>3. ASSUME sendPc[m] = "accepted", NEW i \in 1..Len(queue), queue[i] = m
        PROVE  i \in 1..Buffered
    BY <2>1, <2>2, <2>3, ChannelAssumption DEF QueueInv
  <2>4. ASSUME NEW i \in 1..Buffered, queue[i] = m
        PROVE  sendPc[m] = "accepted"
    BY <2>1, <2>2, <2>4, ChannelAssumption DEF QueueInv
  <2>5. ASSUME NEW j \in 1..Len(delivered), delivered[j] = m
        PROVE  sendPc[m] = "accepted"
    BY <2>5 DEF QueueInv
  <2>6. sendPc[m] = "accepted" =>
          \/ \E i \in 1..Len(queue) : queue[i] = m
          \/ \E j \in 1..Len(delivered) : delivered[j] = m
    BY DEF QueueInv
  <2>7. QED
    BY <2>3, <2>4, <2>5, <2>6 DEF Elements
<1>2. QED
  BY <1>1, QueueInvariant, TypeCorrect, PTL

\* No value is received twice, or received and still queued.
THEOREM NoDuplicatesCorrect == Spec => []NoDuplicates
<1>1. QueueInv => NoDuplicates
  BY DEF QueueInv, NoDuplicates, Distinct, Elements
<1>2. QED
  BY <1>1, QueueInvariant, PTL

\* A Receive that answered "closed" told the truth, for good.
THEOREM ClosedMeansDrainedCorrect == Spec => []ClosedMeansDrained
<1> DEFINE Drained == \A r \in Receivers :
                        answer[r] = "closed" => queue = <<>> /\ chClosed
<1>1. Init => Drained
  BY DEF Init
<1>2. TypeOK /\ Drained /\ [Next]_vars => Drained'
  <2> SUFFICES ASSUME TypeOK, Drained, [Next]_vars
               PROVE  Drained'
    OBVIOUS
  <2>1. ASSUME NEW m \in Msgs, SendStep(m) PROVE Drained'
    BY <2>1 DEF SendStep, ProcSend, SendCheck, SendPut, SendPanics
  <2>2. ASSUME NEW s \in Receivers, ReceiveCall(s) \/ ReceiveStep(s) PROVE Drained'
    BY <2>2 DEF ReceiveStep, ReceiveCall, ReceiveValue, ReceiveClosed,
                ReceiveDone, Return, TypeOK
  <2>3. ASSUME NEW c \in Closers, CloseStep(c) PROVE Drained'
    <3>1. CASE CloseChan(c)
      <4>1. ASSUME queue = <<>> PROVE queue' = <<>>
        <5>1. Buffered = 0
          BY <4>1, BufferedRange
        <5>2. queue' \in Seq(Msgs) /\ Len(queue') = 0
          BY <3>1, <5>1, PrefixAt, BufferedRange DEF CloseChan, TypeOK
        <5>3. QED
          BY <5>2, EmptyQueue
      <4>2. answer' = answer /\ chClosed' = TRUE
        BY <3>1 DEF CloseChan
      <4>3. QED
        BY <4>1, <4>2
    <3>2. CASE CloseAgain(c) \/ CloseFlag(c)
      <4>1. UNCHANGED <<queue, answer, chClosed>>
        BY <3>2 DEF CloseAgain, CloseFlag
      <4>2. QED
        BY <4>1
    <3>3. QED
      BY <2>3, <3>1, <3>2 DEF CloseStep
  <2>4. FireDone \/ UNCHANGED vars => Drained'
    BY DEF FireDone, vars
  <2>5. QED
    BY <2>1, <2>2, <2>3, <2>4 DEF Next
<1>3. Drained => ClosedMeansDrained
  BY DEF ClosedMeansDrained
<1>4. QED
  BY <1>1, <1>2, <1>3, TypeCorrect, PTL DEF Spec

\* Close is final: once close(ch) has run no further Send is accepted.
THEOREM CloseIsFinalCorrect == Spec => CloseIsFinal
<1>1. TypeOK /\ QueueInv /\ [Next]_vars =>
        [chClosed => \A m \in Msgs :
           sendPc'[m] \in {"accepted", "parked"} => sendPc[m] = "accepted"]_vars
  <2> SUFFICES ASSUME TypeOK, QueueInv, Next, chClosed, NEW m \in Msgs,
                      sendPc'[m] \in {"accepted", "parked"}
               PROVE  sendPc[m] = "accepted"
    OBVIOUS
  <2>1. sendPc[m] # "parked"
    BY ChannelAssumption DEF QueueInv, TypeOK
  <2>2. ASSUME NEW k \in Msgs, SendStep(k) PROVE sendPc[m] = "accepted"
    BY <2>1, <2>2 DEF SendStep, ProcSend, SendCheck, SendPut, SendPanics, TypeOK
  <2>3. ASSUME NEW r \in Receivers, ReceiveValue(r) PROVE sendPc' = sendPc
    BY <2>3, ChannelAssumption DEF ReceiveValue, QueueInv, TypeOK
  <2>4. ASSUME NEW r \in Receivers, ReceiveCall(r) \/ ReceiveStep(r)
        PROVE  sendPc' = sendPc
    BY <2>3, <2>4 DEF ReceiveStep, ReceiveCall, ReceiveClosed, ReceiveDone
  <2>5. ASSUME NEW c \in Closers, CloseStep(c)
        PROVE  sendPc' = sendPc \/ CloseChan(c)
    BY <2>5 DEF CloseStep, CloseAgain, CloseFlag
  <2>6. ASSUME NEW c \in Closers, CloseChan(c) PROVE sendPc[m] = "accepted"
    BY <2>1, <2>6 DEF CloseChan
  <2>7. CASE FireDone
    BY <2>1, <2>7 DEF FireDone
  <2>8. QED
    BY <2>1, <2>2, <2>4, <2>5, <2>6, <2>7 DEF Next
<1>2. QED
  BY <1>1, QueueInvariant, TypeCorrect, PTL DEF Spec, CloseIsFinal

\* No Send is parked on a channel that is closed or has room, and none that is parked
\* is left out of the queue; closeMu comes free by a step nothing can hold up.
THEOREM ParkedForAReasonCorrect == Spec => []ParkedForAReason
<1>1. TypeOK /\ LockInv /\ QueueInv => ParkedForAReason
  <2> SUFFICES ASSUME TypeOK, LockInv, QueueInv PROVE ParkedForAReason
    OBVIOUS
  <2>0. Len(queue) \in Nat /\ Cap \in Nat
    BY ChannelAssumption DEF TypeOK
  <2>1. ASSUME NEW m \in Msgs, sendPc[m] = "parked"
        PROVE  /\ ~chClosed /\ Buffered = Cap
               /\ \E i \in (Cap + 1)..Len(queue) : queue[i] = m
    <3>1. \A j \in 1..Len(delivered) : delivered[j] # m
      BY <2>1 DEF QueueInv
    <3>2. PICK i \in 1..Len(queue) : queue[i] = m
      BY <2>1, <3>1 DEF QueueInv
    <3>3. ~(i <= Cap)
      BY <2>1, <3>2 DEF QueueInv
    <3>4. i \in (Cap + 1)..Len(queue) /\ Cap < Len(queue)
      BY <2>0, <3>3
    <3>5. ~chClosed
      BY <2>0, <3>4 DEF QueueInv
    <3>6. QED
      BY <2>0, <3>2, <3>4, <3>5 DEF Buffered, SmallerOf
  <2>2. closeMu # Nobody => closePc[closeMu] = "closing" /\ ~chClosed
    BY DEF LockInv, TypeOK
  <2>3. QED
    BY <2>1, <2>2 DEF ParkedForAReason
<1>2. QED
  BY <1>1, TypeCorrect, LockInvariant, QueueInvariant, PTL

-----------------------------------------------------------------------------
\* Prefixes of a sequence that grows, shrinks or is cut, as sequences.
LEMMA SamePrefix ==
    ASSUME NEW S, NEW s \in Seq(S), NEW t \in Seq(S), NEW n \in Nat,
           n <= Len(s), n <= Len(t), \A i \in 1..n : s[i] = t[i]
    PROVE  SubSeq(s, 1, n) = SubSeq(t, 1, n)
<1>1. /\ SubSeq(s, 1, n) \in Seq(S) /\ Len(SubSeq(s, 1, n)) = n
      /\ \A i \in 1..n : SubSeq(s, 1, n)[i] = s[i]
  BY PrefixAt
<1>2. /\ SubSeq(t, 1, n) \in Seq(S) /\ Len(SubSeq(t, 1, n)) = n
      /\ \A i \in 1..n : SubSeq(t, 1, n)[i] = t[i]
  BY PrefixAt
<1>3. QED
  BY <1>1, <1>2, SeqEqual

LEMMA WholePrefix ==
    ASSUME NEW S, NEW s \in Seq(S)
    PROVE  SubSeq(s, 1, Len(s)) = s
<1>1. /\ SubSeq(s, 1, Len(s)) \in Seq(S) /\ Len(SubSeq(s, 1, Len(s))) = Len(s)
      /\ \A i \in 1..Len(s) : SubSeq(s, 1, Len(s))[i] = s[i]
  BY PrefixAt
<1>2. QED
  BY <1>1, SeqEqual

\* A prefix grows by the entry that follows it.
LEMMA PrefixGrows ==
    ASSUME NEW S, NEW s \in Seq(S), NEW n \in Nat, n < Len(s)
    PROVE  SubSeq(s, 1, n + 1) = Append(SubSeq(s, 1, n), s[n + 1])
<1> DEFINE p == SubSeq(s, 1, n)
<1>1. p \in Seq(S) /\ Len(p) = n /\ \A i \in 1..n : p[i] = s[i]
  BY PrefixAt
<1>2. s[n + 1] \in S
  OBVIOUS
<1> HIDE DEF p
<1>3. /\ Append(p, s[n + 1]) \in Seq(S) /\ Len(Append(p, s[n + 1])) = n + 1
      /\ \A i \in 1..n : Append(p, s[n + 1])[i] = s[i]
      /\ Append(p, s[n + 1])[n + 1] = s[n + 1]
  BY <1>1, <1>2, AppendAt
<1>4. /\ SubSeq(s, 1, n + 1) \in Seq(S) /\ Len(SubSeq(s, 1, n + 1)) = n + 1
      /\ \A i \in 1..n + 1 : SubSeq(s, 1, n + 1)[i] = s[i]
  BY PrefixAt
<1>5. \A i \in 1..n + 1 : SubSeq(s, 1, n + 1)[i] = Append(p, s[n + 1])[i]
  BY <1>3, <1>4
<1>6. QED
  BY <1>3, <1>4, <1>5, SeqEqual DEF p

\* The prefix of a tail is the tail of a prefix.
LEMMA PrefixOfTail ==
    ASSUME NEW S, NEW s \in Seq(S), NEW n \in Nat, n < Len(s)
    PROVE  /\ SubSeq(Tail(s), 1, n) = Tail(SubSeq(s, 1, n + 1))
           /\ Head(SubSeq(s, 1, n + 1)) = Head(s)
           /\ SubSeq(s, 1, n + 1) # <<>>
<1> DEFINE p == SubSeq(s, 1, n + 1)
<1>1. p \in Seq(S) /\ Len(p) = n + 1 /\ \A i \in 1..n + 1 : p[i] = s[i]
  BY PrefixAt
<1> HIDE DEF p
<1>2. s # <<>> /\ p # <<>>
  BY <1>1
<1>3. /\ Tail(s) \in Seq(S) /\ Len(Tail(s)) = Len(s) - 1 /\ Head(s) = s[1]
      /\ \A i \in 1..Len(s) - 1 : Tail(s)[i] = s[i + 1]
  BY <1>2, TailAt
<1>4. /\ Tail(p) \in Seq(S) /\ Len(Tail(p)) = n /\ Head(p) = p[1]
      /\ \A i \in 1..n : Tail(p)[i] = p[i + 1]
  BY <1>1, <1>2, TailAt
<1>5. /\ SubSeq(Tail(s), 1, n) \in Seq(S) /\ Len(SubSeq(Tail(s), 1, n)) = n
      /\ \A i \in 1..n : SubSeq(Tail(s), 1, n)[i] = Tail(s)[i]
  BY <1>3, PrefixAt
<1>6. \A i \in 1..n : SubSeq(Tail(s), 1, n)[i] = Tail(p)[i]
  BY <1>1, <1>3, <1>4, <1>5
<1>7. SubSeq(Tail(s), 1, n) = Tail(p)
  BY <1>4, <1>5, <1>6, SeqEqual
<1>8. QED
  BY <1>1, <1>2, <1>3, <1>4, <1>7 DEF p

-----------------------------------------------------------------------------
\* What the refinement mapping shows.
Items == SubSeq(queue, 1, Buffered)
Outcome == [m \in Msgs |-> IF sendPc[m] \in {"accepted", "refused"}
                           THEN sendPc[m] ELSE "pending"]

\* A Send that answers false does so because the channel is closed.
LEMMA RefusalMaps ==
    ASSUME TypeOK, chClosed, NEW m \in Msgs,
           sendPc[m] \notin {"accepted", "refused"},
           sendPc' = [sendPc EXCEPT ![m] = "refused"],
           UNCHANGED <<queue, delivered, chClosed, answer>>
    PROVE  Abstract!Refuse(m)
<1>1. Outcome[m] = "pending" /\ Outcome' = [Outcome EXCEPT ![m] = "refused"]
  BY DEF Outcome, TypeOK
<1>2. Items' = Items
  BY DEF Items, Buffered, SmallerOf
<1>3. QED
  BY <1>1, <1>2 DEF Abstract!Refuse, Items, Outcome

Invisible == UNCHANGED <<Items, delivered, chClosed, Outcome, answer>>

\* What moves a Send from one place to another before its outcome is invisible.
LEMMA ProgressInvisible ==
    ASSUME TypeOK, NEW m \in Msgs, NEW l \in {"prechecked", "checked"},
           sendPc[m] \notin {"accepted", "refused"},
           sendPc' = [sendPc EXCEPT ![m] = l],
           UNCHANGED <<queue, delivered, chClosed, answer>>
    PROVE  Invisible
<1>1. Outcome' = Outcome
  BY DEF Outcome, TypeOK
<1>2. QED
  BY <1>1 DEF Invisible, Items, Buffered, SmallerOf

LEMMA SendMaps ==
    ASSUME TypeOK, LockInv, QueueInv, NEW m \in Msgs, SendStep(m)
    PROVE  Abstract!Accept(m) \/ Abstract!Refuse(m) \/ Invisible
<1>1. ASSUME ProcSend(m) \/ SendCheck(m)
      PROVE  Abstract!Refuse(m) \/ Invisible
  <2>1. PICK b \in BOOLEAN, l \in {"prechecked", "checked"} :
          /\ IsClosedReturns(b)
          /\ sendPc' = [sendPc EXCEPT ![m] = IF b THEN "refused" ELSE l]
    BY <1>1 DEF ProcSend, SendCheck
  <2>2. /\ sendPc[m] \notin {"accepted", "refused"}
        /\ UNCHANGED <<queue, delivered, chClosed, answer>>
    BY <1>1 DEF ProcSend, SendCheck
  <2>3. CASE b
    BY <2>1, <2>2, <2>3, RefusalMaps DEF IsClosedReturns, LockInv
  <2>4. CASE ~b
    BY <2>1, <2>2, <2>4, ProgressInvisible
  <2>5. QED
    BY <2>3, <2>4
<1>2. ASSUME SendPanics(m) PROVE Abstract!Refuse(m)
  BY <1>2, RefusalMaps DEF SendPanics
<1>3. ASSUME SendPut(m) PROVE Abstract!Accept(m) \/ Invisible
  <2> DEFINE n == Len(queue)
  <2>1. /\ queue \in Seq(Msgs) /\ n \in Nat
        /\ queue' \in Seq(Msgs) /\ Len(queue') = n + 1 /\ queue'[n + 1] = m
        /\ \A i \in 1..n : queue'[i] = queue[i]
    BY <1>3, AppendAt DEF SendPut, TypeOK
  <2>2. sendPc[m] = "checked" /\ ~chClosed /\ UNCHANGED <<delivered, chClosed, answer>>
    BY <1>3 DEF SendPut
  <2> HIDE DEF n
  <2>3. CASE n < Cap
    <3>1. Buffered = n /\ Buffered' = n + 1
      BY <2>1, <2>3, ChannelAssumption DEF Buffered, SmallerOf, n
    <3>2. SubSeq(queue', 1, n + 1) = Append(SubSeq(queue', 1, n), m)
      BY <2>1, PrefixGrows
    <3>3. SubSeq(queue', 1, n) = SubSeq(queue, 1, n)
      BY <2>1, SamePrefix DEF n
    <3>4. Items' = Append(Items, m)
      BY <3>1, <3>2, <3>3 DEF Items
    <3>5. sendPc' = [sendPc EXCEPT ![m] = "accepted"]
      BY <1>3, <2>3 DEF SendPut, n
    <3>6. Outcome[m] = "pending" /\ Outcome' = [Outcome EXCEPT ![m] = "accepted"]
      BY <2>2, <3>5 DEF Outcome, TypeOK
    <3>7. QED
      BY <2>2, <3>4, <3>6 DEF Abstract!Accept, Items, Outcome
  <2>4. CASE ~(n < Cap)
    <3>1. Buffered = Cap /\ Buffered' = Cap
      BY <2>1, <2>4, ChannelAssumption DEF Buffered, SmallerOf, n
    <3>2. SubSeq(queue', 1, Cap) = SubSeq(queue, 1, Cap)
      <4>1. Cap \in Nat /\ Cap <= n
        BY <2>1, <2>4, ChannelAssumption
      <4>2. QED
        BY <4>1, <2>1, SamePrefix DEF n
    <3>3. sendPc' = [sendPc EXCEPT ![m] = "parked"]
      BY <1>3, <2>4 DEF SendPut, n
    <3>4. Outcome' = Outcome
      BY <2>2, <3>3 DEF Outcome, TypeOK
    <3>5. QED
      BY <2>2, <3>1, <3>2, <3>4 DEF Invisible, Items
  <2>5. QED
    BY <2>3, <2>4
<1>4. QED
  BY <1>1, <1>2, <1>3 DEF SendStep

LEMMA ReceiveMaps ==
    ASSUME TypeOK, QueueInv, NEW r \in Receivers, ReceiveCall(r) \/ ReceiveStep(r)
    PROVE  \/ Abstract!Deliver(r) \/ Abstract!AnswerClosed(r) \/ Abstract!AnswerOther(r)
           \/ \E m \in Msgs : Abstract!Exchange(r, m)
<1>1. ASSUME ReceiveCall(r) \/ ReceiveDone(r) PROVE Abstract!AnswerOther(r)
  <2>1. \E a \in {"none", "done"} : answer' = [answer EXCEPT ![r] = a]
    BY <1>1 DEF ReceiveCall, ReceiveDone, Return
  <2>2. UNCHANGED <<queue, delivered, chClosed, sendPc>>
    BY <1>1 DEF ReceiveCall, ReceiveDone
  <2>3. Items' = Items /\ Outcome' = Outcome
    BY <2>2 DEF Items, Outcome, Buffered, SmallerOf
  <2>4. QED
    BY <2>1, <2>2, <2>3 DEF Abstract!AnswerOther, Items, Outcome
<1>2. ASSUME ReceiveClosed(r) PROVE Abstract!AnswerClosed(r)
  <2>1. /\ queue = <<>> /\ chClosed /\ UNCHANGED <<queue, delivered, chClosed, sendPc>>
        /\ answer' = [answer EXCEPT ![r] = "closed"]
    BY <1>2 DEF ReceiveClosed, Return
  <2>2. Items = <<>>
    <3>1. Len(queue) = 0 /\ Buffered = 0
      BY <2>1, BufferedRange
    <3>2. Items \in Seq(Msgs) /\ Len(Items) = 0
      BY <3>1, PrefixAt DEF Items, TypeOK
    <3>3. QED
      BY <3>2, EmptyQueue
  <2>3. Items' = Items /\ Outcome' = Outcome
    BY <2>1 DEF Items, Outcome, Buffered, SmallerOf
  <2>4. QED
    BY <2>1, <2>2, <2>3 DEF Abstract!AnswerClosed, Items, Outcome
<1>3. ASSUME ReceiveValue(r)
      PROVE  Abstract!Deliver(r) \/ \E m \in Msgs : Abstract!Exchange(r, m)
  <2> DEFINE n == Len(queue)
  <2>1. /\ queue # <<>> /\ queue' = Tail(queue) /\ UNCHANGED chClosed
        /\ delivered' = Append(delivered, Head(queue))
        /\ answer' = [answer EXCEPT ![r] = "value"]
    BY <1>3 DEF ReceiveValue, Return
  <2>2. /\ queue \in Seq(Msgs) /\ n \in Nat \ {0}
        /\ queue' \in Seq(Msgs) /\ Len(queue') = n - 1
    BY <2>1, TailAt DEF TypeOK
  <2> HIDE DEF n
  <2>3. CASE n <= Cap
    <3>1. Buffered = n /\ Buffered' = n - 1
      BY <2>2, <2>3, ChannelAssumption DEF Buffered, SmallerOf, n
    <3>2. Items = queue /\ Items' = queue'
      BY <2>2, <3>1, WholePrefix DEF Items, n
    <3>3. sendPc' = sendPc
      BY <1>3, <2>2, <2>3, ChannelAssumption DEF ReceiveValue, n
    <3>4. Outcome' = Outcome
      BY <3>3 DEF Outcome
    <3>5. QED
      BY <2>1, <3>2, <3>4 DEF Abstract!Deliver, Items, Outcome
  <2>4. CASE ~(n <= Cap)
    <3>1. Buffered = Cap /\ Buffered' = Cap /\ Cap \in Nat /\ Cap < n
      BY <2>2, <2>4, ChannelAssumption DEF Buffered, SmallerOf, n
    <3>2. PICK m \in Msgs : m = queue[Cap + 1]
      BY <2>2, <3>1 DEF n
    <3>3. sendPc[m] = "parked" /\ ~chClosed
      BY <2>2, <3>1, <3>2 DEF QueueInv, n
    <3>4. sendPc' = [sendPc EXCEPT ![m] = "accepted"]
      BY <1>3, <3>1, <3>2 DEF ReceiveValue, n
    <3>5. Outcome[m] = "pending" /\ Outcome' = [Outcome EXCEPT ![m] = "accepted"]
      BY <3>3, <3>4 DEF Outcome, TypeOK
    <3>6. Append(Items, m) = SubSeq(queue, 1, Cap + 1)
      BY <2>2, <3>1, <3>2, PrefixGrows DEF Items, n
    <3>7. /\ Items' = Tail(Append(Items, m))
          /\ Head(Append(Items, m)) = Head(queue)
      BY <2>1, <2>2, <3>1, <3>6, PrefixOfTail DEF Items, n
    <3>8. Abstract!Exchange(r, m)
      BY <2>1, <3>3, <3>5, <3>7 DEF Abstract!Exchange, Items, Outcome
    <3>9. QED
      BY <3>8
  <2>5. QED
    BY <2>3, <2>4
<1>4. QED
  BY <1>1, <1>2, <1>3 DEF ReceiveStep

LEMMA CloseMaps ==
    ASSUME TypeOK, LockInv, NEW c \in Closers, CloseStep(c)
    PROVE  Abstract!CloseOnce \/ Invisible
<1>1. ASSUME CloseAgain(c) \/ CloseFlag(c) PROVE Invisible
  BY <1>1 DEF CloseAgain, CloseFlag, Invisible, Items, Outcome, Buffered, SmallerOf
<1>2. ASSUME CloseChan(c) PROVE Abstract!CloseOnce
  <2> DEFINE b == Buffered
             waiting == {m \in Msgs : sendPc[m] = "parked"}
  <2>1. /\ chClosed' = TRUE /\ queue' = SubSeq(queue, 1, b) /\ UNCHANGED <<delivered, answer>>
        /\ sendPc' = [m \in Msgs |-> IF sendPc[m] = "parked" THEN "refused" ELSE sendPc[m]]
    BY <1>2 DEF CloseChan
  <2>2. ~chClosed
    BY <1>2, ChannelAssumption DEF CloseChan, LockInv
  <2>3. Items' = Items
    <3>1. b \in 0..Len(queue) /\ b <= Cap
      BY BufferedRange
    <3>2. queue' \in Seq(Msgs) /\ Len(queue') = b
      BY <2>1, <3>1, PrefixAt DEF TypeOK
    <3>3. Buffered' = b
      BY <3>1, <3>2, ChannelAssumption DEF Buffered, SmallerOf
    <3>4. Items' = queue'
      BY <3>2, <3>3, WholePrefix DEF Items
    <3>5. QED
      BY <2>1, <3>4 DEF Items
  <2>4. /\ waiting \in SUBSET {m \in Msgs : Outcome[m] = "pending"}
        /\ Outcome' = [m \in Msgs |-> IF m \in waiting THEN "refused" ELSE Outcome[m]]
    BY <2>1 DEF Outcome
  <2> HIDE DEF waiting
  <2>5. QED
    BY <2>1, <2>2, <2>3, <2>4 DEF Abstract!CloseOnce, Items, Outcome
<1>3. QED
  BY <1>1, <1>2 DEF CloseStep

\* The channel keeps its promise: parked Sends, the flag and its mutex cannot be
\* seen, for all callers and every capacity.
THEOREM PromiseKept == Spec => KeepsPromise
<1>1. Init => Abstract!SpecInit
  <2> SUFFICES ASSUME Init PROVE Abstract!SpecInit
    OBVIOUS
  <2>1. Items = <<>>
    <3>1. queue = <<>> /\ Len(queue) = 0 /\ Buffered = 0 /\ queue \in Seq(Msgs)
      BY ChannelAssumption DEF Init, Buffered, SmallerOf
    <3>2. QED
      BY <3>1, WholePrefix DEF Items
  <2>2. QED
    BY <2>1 DEF Init, Abstract!SpecInit, Items
<1>2. TypeOK /\ LockInv /\ QueueInv /\ [Next]_vars
        => [Abstract!SpecNext]_(Abstract!specVars)
  <2> SUFFICES ASSUME TypeOK, LockInv, QueueInv, [Next]_vars
               PROVE  Abstract!SpecNext \/ Invisible
    BY DEF Invisible, Items, Outcome, Abstract!specVars
  <2>1. FireDone \/ UNCHANGED vars => Invisible
    BY DEF FireDone, vars, Invisible, Items, Outcome, Buffered, SmallerOf
  <2>2. QED
    BY <2>1, SendMaps, ReceiveMaps, CloseMaps DEF Next, Abstract!SpecNext
<1>3. QED
  BY <1>1, <1>2, TypeCorrect, LockInvariant, QueueInvariant, PTL
     DEF Spec, KeepsPromise, Abstract!ChannelPromise
=============================================================================
