----------------------------- MODULE PodsProofs -----------------------------
(***************************************************************************)
(* Theorems about a pod and their proofs: for every number of invokes, any *)
(* capacity of their channels, and whatever the pod says: an invoke gets   *)
(* only what the pod said about it, in the order it was said.              *)
(***************************************************************************)
EXTENDS Pods, SequenceTheorems, TLAPS

\* The parts of the inductive invariant.

Spoke == [id : Requests, msg : Message]

Types ==
    /\ TypeOK
    /\ stdout \in Seq(Spoke)
    /\ buffer \in [Requests -> Seq(Message)]
    /\ received \in [Requests -> Seq(Message)]
    /\ pc \in [Requests -> {"idle", "send", "wait", "unregister", "shutdown", "returned"}]
    /\ outcome \in [Requests -> {"none", "ok", "failed", "timeout"}]

\* The pod speaks of requests that were made; an invoke is made once load-pod has
\* returned with success, and then load-pod shuts nothing down.
Order ==
    /\ \A i \in DOMAIN stdout : stdout[i].id \in asked
    /\ router \in Holding => router.id \in asked
    /\ \A r \in Requests : pc[r] = "idle" => r \notin asked \cup pending \cup closed
    /\ \A r \in Invokes : pc[r] # "idle" => pc[Describe] = "returned" /\ outcome[Describe] = "ok"
    /\ pc[Describe] = "shutdown" => outcome[Describe] # "ok"
    /\ \A r \in Invokes : pc[r] # "shutdown"

\* A channel that is closed, or soon will be by the router, has no entry.
Entries ==
    /\ closed \cap pending = {}
    /\ router \in Holding /\ router.msg.done => router.id \notin pending
    /\ router \in Holding /\ router.stage = "closing" => router.msg.done
    /\ ReturnedLeavesNothing

\* The last of what came for r so far is a last message.
LastCame(r) ==
    \/ buffer[r] # <<>> /\ buffer[r][Len(buffer[r])].done
    \/ buffer[r] = <<>> /\ received[r] # <<>> /\ received[r][Len(received[r])].done

\* While an invoke waits it has met no error, and its channel is closed, or about
\* to be, after a last message or by the router's end.
Success ==
    /\ \A r \in Invokes : pc[r] = "wait" =>
         /\ outcome[r] = "none"
         /\ \A i \in DOMAIN received[r] : ~received[r][i].error
         /\ r \in closed => LastCame(r) \/ router = Ended
         /\ router \in Holding /\ router.stage = "closing" /\ router.id = r => LastCame(r)
    /\ \A r \in Invokes : pc[r] \in {"idle", "send"} => outcome[r] = "none" /\ received[r] = <<>>
    /\ \A r \in Invokes : pc[r] = "send" => r \notin asked /\ (r \in closed => router = Ended)
    /\ SuccessMeansDone

IInv == Types /\ Order /\ Entries /\ Success

-----------------------------------------------------------------------------
\* What is known of sequences, once for all.
LEMMA EmptyFacts ==
    ASSUME NEW S
    PROVE  <<>> \in Seq(S) /\ Len(<<>>) = 0
OBVIOUS

LEMMA TailFacts ==
    ASSUME NEW S, NEW s \in Seq(S), s # <<>>
    PROVE  /\ Len(s) \in Nat \ {0} /\ DOMAIN s = 1..Len(s)
           /\ Head(s) = s[1] /\ Head(s) \in S
           /\ Tail(s) \in Seq(S) /\ Len(Tail(s)) = Len(s) - 1
           /\ \A i \in 1..Len(s) - 1 : Tail(s)[i] = s[i + 1]
OBVIOUS

LEMMA AppendFacts ==
    ASSUME NEW S, NEW s \in Seq(S), NEW e \in S
    PROVE  /\ Append(s, e) \in Seq(S) /\ Append(s, e) # <<>>
           /\ Len(Append(s, e)) = Len(s) + 1 /\ Len(s) \in Nat
           /\ DOMAIN Append(s, e) = 1..Len(s) + 1 /\ DOMAIN s = 1..Len(s)
           /\ Append(s, e)[Len(s) + 1] = e
           /\ \A i \in 1..Len(s) : Append(s, e)[i] = s[i]
OBVIOUS

LEMMA EmptyWhenNoLength ==
    ASSUME NEW S, NEW s \in Seq(S)
    PROVE  s = <<>> <=> Len(s) = 0
OBVIOUS

LEMMA RouterFacts ==
    ASSUME router \in Holding \cup {Nothing, Ended}
    PROVE  /\ router.stage \in {"sending", "closing"} <=> router \in Holding
           /\ router \in Holding => /\ router.id \in Requests /\ router.msg \in Message
                                    /\ router # Nothing /\ router # Ended
           /\ Nothing # Ended /\ Nothing \notin Holding /\ Ended \notin Holding
<1>1. Nothing.stage = "reading" /\ Ended.stage = "ended"
  BY DEF Nothing, Ended
<1>2. \A h \in Holding : h.stage \in {"sending", "closing"} /\ h.id \in Requests /\ h.msg \in Message
  BY DEF Holding
<1>3. QED
  BY <1>1, <1>2

LEMMA InitInductive == Init => IInv
<1> SUFFICES ASSUME Init PROVE IInv
  OBVIOUS
<1> USE PodsAssumption DEF Init, Requests
<1>0. router \notin Holding
  BY DEF Holding, Nothing
<1>1. Types
  <2>1. TypeOK
    <3>1. \A r \in Requests : Len(buffer[r]) <= Cap
      BY EmptyFacts
    <3>2. \A r \in Requests :
            /\ pc[r] \in {"idle", "send", "wait", "unregister", "shutdown", "returned"}
            /\ outcome[r] \in {"none", "ok", "failed", "timeout"}
      OBVIOUS
    <3>3. QED
      BY <3>1, <3>2 DEF TypeOK
  <2>2. /\ buffer = [r \in Requests |-> <<>>] /\ received = [r \in Requests |-> <<>>]
        /\ <<>> \in Seq(Message) /\ stdout \in Seq(Spoke)
    BY EmptyFacts
  <2>3. /\ buffer \in [Requests -> Seq(Message)]
        /\ received \in [Requests -> Seq(Message)]
    BY <2>2
  <2>4. /\ pc \in [Requests -> {"idle", "send", "wait", "unregister", "shutdown", "returned"}]
        /\ outcome \in [Requests -> {"none", "ok", "failed", "timeout"}]
    OBVIOUS
  <2>5. QED
    BY <2>1, <2>2, <2>3, <2>4 DEF Types
<1>2. Order
  BY <1>0 DEF Order
<1>3. Entries
  BY <1>0 DEF Entries, ReturnedLeavesNothing
<1>4. Success
  BY <1>0 DEF Success, SuccessMeansDone
<1>5. QED
  BY <1>1, <1>2, <1>3, <1>4 DEF IInv

-----------------------------------------------------------------------------
\* The pod.
LEMMA ProcessInductive ==
    ASSUME IInv, Mute \/ Die \/ \E r \in Requests : \E m \in Menu[r] : Say(r, m)
    PROVE  IInv'
<1>0. Types /\ Order /\ Entries /\ Success
  BY DEF IInv
<1> USE <1>0, PodsAssumption DEF channels, callers
<1>1. CASE Mute \/ Die
  <2> USE <1>1 DEF Mute, Die
  <2>1. Types'
    BY DEF Types, TypeOK
  <2>2. Order' /\ Entries' /\ Success'
    BY DEF Order, Entries, ReturnedLeavesNothing, Success, SuccessMeansDone, LastCame
  <2>3. QED
    BY <2>1, <2>2 DEF IInv
<1>2. ASSUME NEW r \in Requests, NEW m \in Menu[r], Say(r, m) PROVE IInv'
  <2> USE <1>2 DEF Say
  <2>1. m \in Message
    OBVIOUS
  <2>2. stdout' \in Seq(Spoke)
    BY <2>1 DEF Types, Spoke
  <2>3. Types'
    BY <2>2 DEF Types, TypeOK
  <2>4. \A i \in DOMAIN stdout' : stdout'[i].id \in asked
    BY DEF Types, Order
  <2>5. Order'
    BY <2>4 DEF Order
  <2>6. Entries' /\ Success'
    BY DEF Entries, ReturnedLeavesNothing, Success, SuccessMeansDone, LastCame
  <2>7. QED
    BY <2>3, <2>5, <2>6 DEF IInv
<1>3. QED
  BY <1>1, <1>2

-----------------------------------------------------------------------------
\* The router.
LEMMA RouterInductive ==
    ASSUME IInv, Router
    PROVE  IInv'
<1>0. Types /\ Order /\ Entries /\ Success
  BY DEF IInv
<1>f. router \in Holding \cup {Nothing, Ended}
  BY <1>0 DEF Types, TypeOK
<1> USE <1>0, PodsAssumption DEF process, callers
<1>1. CASE RouterRead
  <2> DEFINE r == Head(stdout).id
             m == Head(stdout).msg
  <2> USE <1>1 DEF RouterRead
  <2>1. stdout \in Seq(Spoke) /\ stdout # <<>>
    BY DEF Types
  <2>2. Head(stdout) = stdout[1] /\ 1 \in DOMAIN stdout /\ Head(stdout) \in Spoke
    BY <2>1
  <2>3. r \in Requests /\ m \in Message /\ r \in asked
    BY <2>2 DEF Spoke, Order
  <2>4. stdout' \in Seq(Spoke) /\ \A i \in DOMAIN stdout' : stdout'[i].id \in asked
    BY <2>1 DEF Order
  <2> HIDE DEF r, m
  <2>5. \/ /\ r \in pending /\ router' \in Holding /\ router'.stage = "sending"
           /\ router'.id = r /\ router'.msg = m
        \/ router' = Nothing
    BY <2>3 DEF Holding, InHand, r, m
  <2>6. pending' = IF m.done THEN pending \ {r} ELSE pending
    BY DEF m, r
  <2>7. Nothing \notin Holding /\ router # Ended
    BY <1>f, RouterFacts
  <2>8. Types'
    BY <2>4, <2>5, <2>6 DEF Types, TypeOK
  <2>9. Order'
    BY <2>3, <2>4, <2>5, <2>6, <2>7 DEF Order
  <2>10. Entries'
    BY <2>5, <2>6, <2>7 DEF Entries, ReturnedLeavesNothing
  <2>11. Success'
    BY <2>5, <2>7 DEF Success, SuccessMeansDone, LastCame
  <2>12. QED
    BY <2>8, <2>9, <2>10, <2>11 DEF IInv
<1>2. CASE RouterSend
  <2> USE <1>2 DEF RouterSend
  <2>1. /\ router \in Holding /\ router.id \in Requests /\ router.msg \in Message
        /\ router # Ended /\ Nothing \notin Holding /\ Nothing # Ended
    BY <1>f, RouterFacts
  <2>2. \/ /\ router.msg.done /\ router' \in Holding /\ router'.stage = "closing"
           /\ router'.id = router.id /\ router'.msg = router.msg
        \/ ~router.msg.done /\ router' = Nothing
    BY <2>1 DEF AfterSend, Holding
  <2>3. \/ router.id \in closed /\ buffer' = buffer
        \/ /\ router.id \notin closed /\ Len(buffer[router.id]) < Cap
           /\ buffer' = [buffer EXCEPT ![router.id] = Append(@, router.msg)]
    OBVIOUS
  <2>4. Types'
    <3>1. \A r \in Requests : buffer[r] \in Seq(Message) /\ Len(buffer[r]) <= Cap
      BY DEF Types, TypeOK
    <3>2. Len(buffer[router.id]) < Cap =>
            /\ Append(buffer[router.id], router.msg) \in Seq(Message)
            /\ Len(Append(buffer[router.id], router.msg)) <= Cap
      BY <2>1, <3>1, AppendFacts
    <3>3. buffer' \in [Requests -> Seq(Message)]
      BY <2>1, <2>3, <3>1, <3>2 DEF Types
    <3>4. \A r \in Requests : Len(buffer'[r]) <= Cap
      BY <2>1, <2>3, <3>1, <3>2 DEF Types
    <3>5. router' \in Holding \cup {Nothing, Ended}
      BY <2>2
    <3>6. QED
      BY <3>3, <3>4, <3>5 DEF Types, TypeOK
  <2>5. Order'
    BY <2>1, <2>2 DEF Order
  <2>6. Entries'
    BY <2>1, <2>2 DEF Entries, ReturnedLeavesNothing
  <2>7. \A r \in Requests : r \in closed \/ r # router.id => buffer'[r] = buffer[r]
    BY <2>1, <2>3 DEF Types
  <2>8. ASSUME NEW r \in Requests, r = router.id, r \notin closed, router.msg.done
        PROVE  LastCame(r)'
    <3>1. buffer[r] \in Seq(Message) /\ buffer'[r] = Append(buffer[r], router.msg)
      BY <2>3, <2>8 DEF Types
    <3>2. buffer'[r] # <<>> /\ buffer'[r][Len(buffer'[r])] = router.msg
      BY <2>1, <3>1, AppendFacts
    <3>3. QED
      BY <2>8, <3>2 DEF LastCame
  <2>9. Success'
    <3>1. ASSUME NEW r \in Invokes, pc[r] = "wait", r \in closed PROVE LastCame(r)'
      BY <2>1, <2>7, <3>1 DEF Success, LastCame, Requests
    <3>2. ASSUME NEW r \in Invokes, pc[r] = "wait", router' \in Holding, router'.id = r
          PROVE  LastCame(r)'
      BY <2>1, <2>2, <2>8, <3>1, <3>2 DEF Requests
    <3>3. router' # Ended
      BY <2>1, <2>2, RouterFacts, <1>f DEF Ended, Holding
    <3>4. SuccessMeansDone'
      BY <2>1, <3>3 DEF Success, SuccessMeansDone
    <3>5. \A r \in Invokes : r \in closed => pc[r] # "send"
      BY <2>1 DEF Success
    <3>6. QED
      BY <3>1, <3>2, <3>4, <3>5 DEF Success
  <2>10. QED
    BY <2>4, <2>5, <2>6, <2>9 DEF IInv
<1>3. CASE RouterClose
  <2> USE <1>3 DEF RouterClose
  <2>1. /\ router \in Holding /\ router.id \in Requests /\ router.msg.done
        /\ router # Ended /\ Nothing \notin Holding /\ Nothing # Ended
    BY <1>f, RouterFacts DEF Entries
  <2>2. Types'
    BY <2>1 DEF Types, TypeOK
  <2>3. Order'
    BY <2>1 DEF Order
  <2>4. Entries'
    BY <2>1 DEF Entries, ReturnedLeavesNothing
  <2>5. Success'
    <3>1. ASSUME NEW r \in Invokes, pc[r] = "wait", r \in closed' PROVE LastCame(r)'
      BY <2>1, <3>1 DEF Success, LastCame
    <3>2. \A r \in Invokes : pc[r] = "send" => r # router.id
      BY <2>1 DEF Order, Success
    <3>3. SuccessMeansDone'
      BY <2>1 DEF Success, SuccessMeansDone
    <3>4. QED
      BY <2>1, <3>1, <3>2, <3>3 DEF Success
  <2>6. QED
    BY <2>2, <2>3, <2>4, <2>5 DEF IInv
<1>4. CASE RouterEnd
  <2> USE <1>4 DEF RouterEnd, ClosePending
  <2>1. Ended \notin Holding /\ router' = Ended /\ router # Ended
    BY <1>f, RouterFacts
  <2>2. Types'
    BY <2>1 DEF Types, TypeOK
  <2>3. Order'
    BY <2>1 DEF Order
  <2>4. Entries'
    BY <2>1 DEF Entries, ReturnedLeavesNothing
  <2>5. Success'
    BY <2>1 DEF Success, SuccessMeansDone, LastCame
  <2>6. QED
    BY <2>2, <2>3, <2>4, <2>5 DEF IInv
<1>5. QED
  BY <1>1, <1>2, <1>3, <1>4 DEF Router

-----------------------------------------------------------------------------
\* The callers, when they take nothing from their channel.
LEMMA CallerInductive ==
    ASSUME IInv, NEW q \in Requests,
           InvokeBegin(q) \/ Request(q) \/ ReceiveClosed(q) \/ Timeout(q) \/ Unregister(q)
    PROVE  IInv'
<1>0. Types /\ Order /\ Entries /\ Success
  BY DEF IInv
<1> USE <1>0, PodsAssumption DEF process, channels, Finish, Goto, Requests
<1>1. CASE InvokeBegin(q)
  <2> USE <1>1 DEF InvokeBegin
  <2>1. q \notin asked \cup pending \cup closed
    BY DEF Order
  <2>2. Types'
    BY DEF Types, TypeOK
  <2>3. Order'
    BY DEF Order, Types
  <2>4. Entries'
    BY <2>1 DEF Entries, ReturnedLeavesNothing, Types, Order
  <2>5. Success'
    BY <2>1 DEF Success, SuccessMeansDone, LastCame, Types
  <2>6. QED
    BY <2>2, <2>3, <2>4, <2>5 DEF IInv
<1>2. CASE Request(q)
  <2> USE <1>2 DEF Request, Cleanup
  <2>1. /\ pc[q] = "send"
        /\ \E l \in {"wait", "unregister", "shutdown"} :
             /\ pc' = [pc EXCEPT ![q] = l]
             /\ l = "shutdown" => q = Describe /\ outcome'[q] = "failed"
             /\ l = "wait" => outcome' = outcome
        /\ outcome' = outcome \/ outcome' = [outcome EXCEPT ![q] = "failed"]
        /\ asked' \in {asked, asked \cup {q}}
        /\ UNCHANGED <<stdin, stdout, eof, said, channels, received, router>>
    BY DEF Types
  <2>2. PICK l \in {"wait", "unregister", "shutdown"} :
             /\ pc' = [pc EXCEPT ![q] = l]
             /\ l = "shutdown" => q = Describe /\ outcome'[q] = "failed"
             /\ l = "wait" => outcome' = outcome
    BY <2>1
  <2> HIDE <1>2 DEF Request
  <2>3. Types'
    <3>1. /\ pc' \in [Requests -> {"idle", "send", "wait", "unregister", "shutdown", "returned"}]
          /\ outcome' \in [Requests -> {"none", "ok", "failed", "timeout"}]
      BY <2>1, <2>2 DEF Types
    <3>2. asked' \subseteq Requests
      BY <2>1 DEF Types, TypeOK
    <3>3. QED
      BY <2>1, <3>1, <3>2 DEF Types, TypeOK
  <2>4. Order'
    BY <2>1, <2>2 DEF Order, Types
  <2>5. Entries'
    BY <2>1, <2>2 DEF Entries, ReturnedLeavesNothing, Types
  <2>6. Success'
    <3>1. ASSUME NEW r \in Invokes, pc'[r] = "wait"
          PROVE  /\ outcome'[r] = "none"
                 /\ \A i \in DOMAIN received'[r] : ~received'[r][i].error
                 /\ r \in closed' => LastCame(r)' \/ router' = Ended
                 /\ router' \in Holding /\ router'.stage = "closing" /\ router'.id = r => LastCame(r)'
      <4>1. CASE r = q
        BY <2>1, <2>2, <3>1, <4>1 DEF Success, Order, Types
      <4>2. CASE r # q
        BY <2>1, <2>2, <3>1, <4>2 DEF Success, Types, LastCame
      <4>3. QED
        BY <4>1, <4>2
    <3>2. \A r \in Invokes : pc'[r] \in {"idle", "send"} => outcome'[r] = "none" /\ received'[r] = <<>>
      BY <2>1, <2>2 DEF Success, Types
    <3>3. \A r \in Invokes : pc'[r] = "send" => r \notin asked' /\ (r \in closed' => router' = Ended)
      BY <2>1, <2>2 DEF Success, Types
    <3>4. SuccessMeansDone'
      BY <2>1, <2>2 DEF Success, SuccessMeansDone, Types
    <3>5. QED
      BY <3>1, <3>2, <3>3, <3>4 DEF Success
  <2>7. QED
    BY <2>3, <2>4, <2>5, <2>6 DEF IInv
<1>3. CASE ReceiveClosed(q)
  <2> USE <1>3 DEF ReceiveClosed
  <2>1. Types'
    BY DEF Types, TypeOK
  <2>2. Order'
    BY DEF Order, Types
  <2>3. Entries'
    BY DEF Entries, ReturnedLeavesNothing, Types
  <2>4. Success'
    <3>1. ASSUME NEW r \in Invokes, pc'[r] = "wait"
          PROVE  /\ outcome'[r] = "none"
                 /\ \A i \in DOMAIN received'[r] : ~received'[r][i].error
                 /\ r \in closed' => LastCame(r)' \/ router' = Ended
                 /\ router' \in Holding /\ router'.stage = "closing" /\ router'.id = r => LastCame(r)'
      BY <3>1 DEF Success, Types, LastCame
    <3>2. \A r \in Invokes : pc'[r] \in {"idle", "send"} => outcome'[r] = "none" /\ received'[r] = <<>>
      BY DEF Success, Types
    <3>3. \A r \in Invokes : pc'[r] = "send" => r \notin asked' /\ (r \in closed' => router' = Ended)
      BY DEF Success, Types
    <3>4. SuccessMeansDone'
      BY DEF Success, SuccessMeansDone, Types, LastCame, Last
    <3>5. QED
      BY <3>1, <3>2, <3>3, <3>4 DEF Success
  <2>5. QED
    BY <2>1, <2>2, <2>3, <2>4 DEF IInv
<1>4. CASE Timeout(q)
  <2> USE <1>4 DEF Timeout, Cleanup
  <2>1. Types'
    BY DEF Types, TypeOK
  <2>2. Order'
    BY DEF Order, Types
  <2>3. Entries'
    BY DEF Entries, ReturnedLeavesNothing, Types
  <2>4. Success'
    BY DEF Success, SuccessMeansDone, LastCame, Types
  <2>5. QED
    BY <2>1, <2>2, <2>3, <2>4 DEF IInv
<1>5. CASE Unregister(q)
  <2> USE <1>5 DEF Unregister
  <2>1. Types'
    BY DEF Types, TypeOK
  <2>2. Order'
    BY DEF Order, Types
  <2>3. Entries'
    BY DEF Entries, ReturnedLeavesNothing, Types
  <2>4. Success'
    BY DEF Success, SuccessMeansDone, LastCame, Types
  <2>5. QED
    BY <2>1, <2>2, <2>3, <2>4 DEF IInv
<1>6. QED
  BY <1>1, <1>2, <1>3, <1>4, <1>5

-----------------------------------------------------------------------------
\* The callers, when they take a message from their channel.
LEMMA ReceiveInductive ==
    ASSUME IInv, NEW q \in Requests, Receives(q),
           InvokeReceive(q) \/ (q = Describe /\ DescribeReceive)
    PROVE  IInv'
<1>0. Types /\ Order /\ Entries /\ Success
  BY DEF IInv
<1> USE <1>0, PodsAssumption DEF Finish, Goto, Requests
<1>1. /\ pc[q] = "wait" /\ buffer[q] \in Seq(Message) /\ buffer[q] # <<>>
      /\ received[q] \in Seq(Message)
      /\ buffer' = [buffer EXCEPT ![q] = Tail(@)]
      /\ received' = [received EXCEPT ![q] = Append(@, Head(buffer[q]))]
      /\ UNCHANGED <<process, pending, closed, router>>
  BY DEF Receives, Types
<1>2. \/ /\ q \in Invokes /\ Head(buffer[q]).error
         /\ pc' = [pc EXCEPT ![q] = "unregister"] /\ outcome' = [outcome EXCEPT ![q] = "failed"]
      \/ q \in Invokes /\ ~Head(buffer[q]).error /\ UNCHANGED <<pc, outcome>>
      \/ /\ q = Describe
         /\ \/ pc' = [pc EXCEPT ![q] = "returned"] /\ outcome' = [outcome EXCEPT ![q] = "ok"]
            \/ pc' = [pc EXCEPT ![q] = "shutdown"] /\ outcome' = [outcome EXCEPT ![q] = "failed"]
  BY DEF InvokeReceive, DescribeReceive, InstallNamespaces
<1>3. Head(buffer[q]) \in Message
  BY <1>1
<1> USE DEF process
<1>4. Types'
  <2>1. buffer' \in [Requests -> Seq(Message)] /\ received' \in [Requests -> Seq(Message)]
    BY <1>1, <1>3, TailFacts, AppendFacts DEF Types
  <2>2. \A r \in Requests : Len(buffer'[r]) <= Cap
    <3>1. Len(Tail(buffer[q])) <= Cap
      BY <1>1, TailFacts DEF Types, TypeOK
    <3>2. QED
      BY <1>1, <3>1 DEF Types, TypeOK
  <2>3. /\ pc' \in [Requests -> {"idle", "send", "wait", "unregister", "shutdown", "returned"}]
        /\ outcome' \in [Requests -> {"none", "ok", "failed", "timeout"}]
    BY <1>2 DEF Types
  <2>4. QED
    BY <1>1, <2>1, <2>2, <2>3 DEF Types, TypeOK
<1>5. Order'
  BY <1>1, <1>2 DEF Order, Types
<1>6. Entries'
  BY <1>1, <1>2 DEF Entries, ReturnedLeavesNothing, Types
<1>7. LastCame(q) => LastCame(q)'
  <2> SUFFICES ASSUME LastCame(q) PROVE LastCame(q)'
    OBVIOUS
  <2>1. buffer[q][Len(buffer[q])].done
    BY <1>1 DEF LastCame
  <2>2. buffer'[q] = Tail(buffer[q]) /\ received'[q] = Append(received[q], Head(buffer[q]))
    BY <1>1 DEF Types
  <2>t. /\ Len(buffer[q]) \in Nat \ {0} /\ Head(buffer[q]) = buffer[q][1]
        /\ buffer'[q] \in Seq(Message) /\ Len(buffer'[q]) = Len(buffer[q]) - 1
        /\ \A i \in 1..Len(buffer[q]) - 1 : buffer'[q][i] = buffer[q][i + 1]
    <3>1. buffer[q] \in Seq(Message) /\ buffer[q] # <<>>
      BY <1>1
    <3> HIDE <1>0, PodsAssumption
    <3>2. /\ Len(buffer[q]) \in Nat \ {0} /\ Head(buffer[q]) = buffer[q][1]
          /\ Tail(buffer[q]) \in Seq(Message) /\ Len(Tail(buffer[q])) = Len(buffer[q]) - 1
          /\ \A i \in 1..Len(buffer[q]) - 1 : Tail(buffer[q])[i] = buffer[q][i + 1]
      BY <3>1, TailFacts
    <3>3. buffer'[q] = Tail(buffer[q])
      BY <2>2
    <3>4. QED
      BY <3>2, <3>3, Zenon
  <2>3. CASE Len(buffer[q]) = 1
    <3>1. buffer'[q] = <<>> /\ Head(buffer[q]) = buffer[q][1]
      BY <2>3, <2>t, EmptyWhenNoLength
    <3>2. received'[q] # <<>> /\ received'[q][Len(received'[q])] = Head(buffer[q])
      <4>1. received[q] \in Seq(Message) /\ received'[q] = Append(received[q], Head(buffer[q]))
        BY <1>1, <2>2
      <4>2. QED
        BY <1>3, <4>1, AppendFacts
    <3>3. QED
      BY <2>1, <2>3, <3>1, <3>2 DEF LastCame
  <2>4. CASE Len(buffer[q]) # 1
    <3>1. /\ buffer'[q] # <<>>
          /\ buffer'[q][Len(buffer'[q])] = buffer[q][Len(buffer[q])]
      <4>1. Len(buffer[q]) - 1 \in 1..Len(buffer[q]) - 1 /\ Len(buffer'[q]) # 0
        <5>1. \A n, k \in Nat : n # 0 /\ n # 1 /\ k = n - 1 => n - 1 \in 1..n - 1 /\ k # 0
          OBVIOUS
        <5>2. Len(buffer[q]) \in Nat /\ Len(buffer'[q]) \in Nat
          BY <2>t, EmptyFacts
        <5>3. Len(buffer[q]) # 0 /\ Len(buffer[q]) # 1 /\ Len(buffer'[q]) = Len(buffer[q]) - 1
          BY <2>4, <2>t
        <5>4. QED
          BY <5>1, <5>2, <5>3
      <4>2. buffer'[q][Len(buffer[q]) - 1] = buffer[q][(Len(buffer[q]) - 1) + 1]
        BY <2>t, <4>1
      <4>3. (Len(buffer[q]) - 1) + 1 = Len(buffer[q])
        BY <2>t
      <4>4. QED
        BY <2>t, <4>1, <4>2, <4>3, EmptyFacts
    <3>2. QED
      BY <2>1, <3>1 DEF LastCame
  <2>5. QED
    BY <2>3, <2>4
<1>8. \A r \in Requests : r # q => /\ received'[r] = received[r] /\ buffer'[r] = buffer[r]
                                   /\ pc'[r] = pc[r] /\ outcome'[r] = outcome[r]
  BY <1>1, <1>2 DEF Types
<1>9. Success'
  <2>1. ASSUME NEW r \in Invokes, pc'[r] = "wait"
        PROVE  /\ outcome'[r] = "none"
               /\ \A i \in DOMAIN received'[r] : ~received'[r][i].error
               /\ r \in closed' => LastCame(r)' \/ router' = Ended
               /\ router' \in Holding /\ router'.stage = "closing" /\ router'.id = r => LastCame(r)'
    <3>1. CASE r = q
      <4>1. q \in Invokes /\ ~Head(buffer[q]).error /\ outcome'[q] = outcome[q]
        BY <1>2, <2>1, <3>1 DEF Types
      <4>2. \A i \in DOMAIN received'[q] : ~received'[q][i].error
        <5>1. \A i \in DOMAIN received[q] : ~received[q][i].error
          BY <1>1, <4>1 DEF Success
        <5>2. received'[q] = Append(received[q], Head(buffer[q]))
          BY <1>1 DEF Types
        <5>3. QED
          BY <1>1, <1>3, <4>1, <5>1, <5>2
      <4>3. QED
        BY <1>1, <1>7, <2>1, <3>1, <4>1, <4>2 DEF Success
    <3>2. CASE r # q
      BY <1>1, <1>8, <2>1, <3>2 DEF Success, LastCame
    <3>3. QED
      BY <3>1, <3>2
  <2>2. \A r \in Invokes : pc'[r] \in {"idle", "send"} => r # q
    BY <1>1, <1>2 DEF Types
  <2>3. \A r \in Invokes : pc'[r] \in {"idle", "send"} => outcome'[r] = "none" /\ received'[r] = <<>>
    BY <1>8, <2>2 DEF Success
  <2>4. \A r \in Invokes : pc'[r] = "send" => r \notin asked' /\ (r \in closed' => router' = Ended)
    BY <1>1, <1>8, <2>2 DEF Success
  <2>5. q \in Invokes => outcome'[q] # "ok"
    BY <1>1, <1>2 DEF Success, Types
  <2>6. SuccessMeansDone'
    BY <1>1, <1>8, <2>5 DEF Success, SuccessMeansDone
  <2>7. QED
    BY <2>1, <2>3, <2>4, <2>6 DEF Success
<1>10. QED
  BY <1>4, <1>5, <1>6, <1>9 DEF IInv

\* load-pod gives up.
LEMMA ShutdownInductive ==
    ASSUME IInv, Shutdown
    PROVE  IInv'
<1>0. Types /\ Order /\ Entries /\ Success
  BY DEF IInv
<1> USE <1>0, PodsAssumption DEF Shutdown, ClosePending, Goto, Requests
<1>1. \A r \in Invokes : pc[r] = "idle" /\ pc'[r] = "idle" /\ r \notin pending
  BY DEF Order, Types
<1>2. Types'
  <2>1. stdout' \in Seq(Spoke)
    BY EmptyFacts
  <2>2. pc' \in [Requests -> {"idle", "send", "wait", "unregister", "shutdown", "returned"}]
    BY DEF Types
  <2>3. closed' \subseteq Requests /\ pending' \subseteq Requests
    BY DEF Types, TypeOK
  <2>4. QED
    BY <2>1, <2>2, <2>3 DEF Types, TypeOK
<1>3. Order'
  BY <1>1 DEF Order, Types
<1>4. Entries'
  BY DEF Entries, ReturnedLeavesNothing
<1>5. Success'
  BY <1>1 DEF Success, SuccessMeansDone
<1>6. QED
  BY <1>2, <1>3, <1>4, <1>5 DEF IInv

LEMMA Inductive == IInv /\ [Next]_vars => IInv'
<1> SUFFICES ASSUME IInv, [Next]_vars PROVE IInv'
  OBVIOUS
<1>1. CASE Router
  BY <1>1, RouterInductive
<1>2. CASE Mute \/ Die \/ \E r \in Requests : \E m \in Menu[r] : Say(r, m)
  BY <1>2, ProcessInductive
<1>3. ASSUME NEW r \in Requests, InvokeBegin(r) \/ CallStep(r) \/ Timeout(r) PROVE IInv'
  <2>1. CASE InvokeReceive(r) \/ (r = Describe /\ DescribeReceive)
    BY <2>1, ReceiveInductive DEF InvokeReceive, DescribeReceive
  <2>2. QED
    BY <1>3, <2>1, CallerInductive, ShutdownInductive DEF CallStep
<1>4. CASE UNCHANGED vars
  BY <1>4 DEF vars, process, channels, callers, IInv, Types, TypeOK, Order, Entries, Success,
     ReturnedLeavesNothing, SuccessMeansDone, LastCame
<1>5. QED
  BY <1>1, <1>2, <1>3, <1>4 DEF Next

LEMMA Invariant == Spec => []IInv
  BY InitInductive, Inductive, PTL DEF Spec

-----------------------------------------------------------------------------
\* Every variable keeps its type; no channel ever holds more than its capacity.
THEOREM TypeCorrect == Spec => []TypeOK
<1>1. IInv => TypeOK
  BY DEF IInv, Types
<1>2. QED
  BY <1>1, Invariant, PTL

\* However an invoke ends, its entry is gone: what the pod still says about it
\* finds nobody, and its identifier is never pending again.
THEOREM ReturnedLeavesNothingCorrect == Spec => []ReturnedLeavesNothing
<1>1. IInv => ReturnedLeavesNothing
  BY DEF IInv, Entries
<1>2. QED
  BY <1>1, Invariant, PTL

\* An invoke that succeeds got its last message, with no error before it, unless
\* the router has ended.
THEOREM SuccessMeansDoneCorrect == Spec => []SuccessMeansDone
<1>1. IInv => SuccessMeansDone
  BY DEF IInv, Success
<1>2. QED
  BY <1>1, Invariant, PTL

-----------------------------------------------------------------------------
\* Entries leave the table with a last message, which the router then has in
\* hand, or for a closed channel, or when their invoke is over.
LEMMA NoneForgottenKept ==
    ASSUME IInv, NoneForgotten, [Next]_vars
    PROVE  NoneForgotten'
<1> USE PodsAssumption DEF IInv, Types, TypeOK, channels, callers, process, Goto, Finish
<1>0. /\ pc \in [Requests -> {"idle", "send", "wait", "unregister", "shutdown", "returned"}]
      /\ Invokes \subseteq Requests /\ Describe \notin Invokes
      /\ router \in Holding \cup {Nothing, Ended}
  BY DEF Requests
<1> SUFFICES ASSUME NEW r \in Invokes, pc'[r] \in {"send", "wait"}
             PROVE  r \in pending' \cup closed' \/ LastInHand(r)'
  BY DEF NoneForgotten
<1>1. pc[r] \in {"send", "wait"} => r \in pending \cup closed \/ LastInHand(r)
  BY DEF NoneForgotten
<1> HIDE DEF IInv, Types, TypeOK
<1>2. CASE RouterRead
  <2> USE <1>2 DEF RouterRead
  <2>1. stdout \in Seq(Spoke) /\ stdout # <<>>
    BY DEF IInv, Types
  <2>2. Head(stdout).id \in Requests /\ Head(stdout).msg \in Message
    <3>1. Head(stdout) \in Spoke
      BY <2>1, TailFacts
    <3>2. QED
      BY <3>1 DEF Spoke
  <2>3. pc'[r] = pc[r] /\ closed' = closed /\ ~LastInHand(r)
    BY RouterFacts, <1>0 DEF LastInHand
  <2>4. CASE r \in pending /\ Head(stdout).id = r /\ Head(stdout).msg.done
    <3>1. router' = InHand("sending", r, Head(stdout).msg)
      BY <2>4
    <3>2. QED
      BY <2>2, <2>4, <3>1, <1>0 DEF LastInHand, InHand, Holding
  <2>5. QED
    BY <1>1, <2>3, <2>4
<1>3. CASE RouterSend
  <2> USE <1>3 DEF RouterSend, AfterSend
  <2>1. router \in Holding
    BY RouterFacts, <1>0
  <2>2. LastInHand(r) => LastInHand(r)'
    BY <2>1 DEF LastInHand, Holding
  <2>3. QED
    BY <1>1, <2>2
<1>4. CASE RouterClose
  <2>1. LastInHand(r) => r \in closed'
    BY <1>4 DEF RouterClose, LastInHand
  <2>2. QED
    BY <1>1, <1>4, <2>1 DEF RouterClose
<1>5. CASE RouterEnd
  <2>1. ~LastInHand(r)
    BY <1>5, <1>0, RouterFacts DEF RouterEnd, LastInHand
  <2>2. QED
    BY <1>1, <1>5, <2>1 DEF RouterEnd, ClosePending
<1>6. CASE Shutdown
  BY <1>0, <1>1, <1>6 DEF Shutdown, ClosePending, LastInHand
<1>7. CASE \E q \in Requests : InvokeBegin(q) \/ Unregister(q)
  <2>1. PICK q \in Requests : InvokeBegin(q) \/ Unregister(q)
    BY <1>7
  <2>2. LastInHand(r)' = LastInHand(r)
    BY <2>1 DEF InvokeBegin, Unregister, LastInHand
  <2>3. CASE q = r
    BY <1>0, <2>1, <2>3 DEF InvokeBegin, Unregister
  <2>4. CASE q # r
    BY <1>0, <1>1, <2>1, <2>2, <2>4 DEF InvokeBegin, Unregister
  <2>5. QED
    BY <2>3, <2>4
<1>8. ASSUME UNCHANGED <<pending, closed, router>>, pc'[r] = pc[r] \/ pc[r] = "send"
      PROVE  r \in pending' \cup closed' \/ LastInHand(r)'
  BY <1>1, <1>8 DEF LastInHand
<1>9. CASE \/ Mute \/ Die \/ UNCHANGED vars
           \/ \E q \in Requests : \E m \in Menu[q] : Say(q, m)
  BY <1>8, <1>9 DEF Mute, Die, Say, vars
<1>10. CASE \E q \in Requests :
              \/ Request(q) \/ InvokeReceive(q) \/ ReceiveClosed(q) \/ Timeout(q)
              \/ DescribeReceive
  <2>1. PICK q \in Requests :
              \/ Request(q) \/ InvokeReceive(q) \/ ReceiveClosed(q) \/ Timeout(q)
              \/ DescribeReceive
    BY <1>10
  <2>2. UNCHANGED <<pending, closed, router>>
    BY <2>1 DEF Request, InvokeReceive, ReceiveClosed, Timeout, DescribeReceive, Receives
  <2>3. pc'[r] = pc[r] \/ pc[r] = "send"
    BY <1>0, <2>1 DEF Request, InvokeReceive, ReceiveClosed, Timeout, DescribeReceive,
       InstallNamespaces, Receives, Cleanup
  <2>4. QED
    BY <1>8, <2>2, <2>3
<1>11. QED
  BY <1>2, <1>3, <1>4, <1>5, <1>6, <1>7, <1>9, <1>10 DEF Next, Router, CallStep

\* An invoke that waits is in the table, or released, or about to be: no answer and
\* no end of the pod passes it by, whatever other callers and the router do.
THEOREM NoneForgottenCorrect == Spec => []NoneForgotten
<1>1. Init => NoneForgotten
  BY PodsAssumption DEF Init, NoneForgotten, Requests
<1>2. QED
  BY <1>1, Invariant, NoneForgottenKept, PTL DEF Spec

-----------------------------------------------------------------------------
\* Sequences laid end to end.
LEMMA OneFacts ==
    ASSUME NEW S, NEW e \in S
    PROVE  <<e>> \in Seq(S) /\ Len(<<e>>) = 1 /\ <<e>>[1] = e /\ <<e>> # <<>>
OBVIOUS

LEMMA HeadAndTail ==
    ASSUME NEW S, NEW s \in Seq(S), s # <<>>
    PROVE  s = <<Head(s)>> \o Tail(s)
<1> DEFINE w == <<Head(s)>>  t == Tail(s)
<1>1. Len(s) \in Nat \ {0} /\ w \in Seq(S) /\ Len(w) = 1 /\ w[1] = s[1]
  BY TailFacts, OneFacts
<1>2. t \in Seq(S) /\ Len(t) = Len(s) - 1 /\ \A i \in 1..Len(s) - 1 : t[i] = s[i + 1]
  BY TailFacts
<1> HIDE DEF w, t
<1>3. /\ w \o t \in Seq(S) /\ Len(w \o t) = Len(w) + Len(t)
      /\ \A i \in 1..Len(w) + Len(t) : (w \o t)[i] = IF i <= Len(w) THEN w[i] ELSE t[i - Len(w)]
  BY <1>1, <1>2, ConcatProperties
<1>4. Len(s) = Len(w \o t)
  BY <1>1, <1>2, <1>3
<1>5. \A i \in 1..Len(s) : s[i] = (w \o t)[i]
  BY <1>1, <1>2, <1>3
<1>6. w \o t = s
  BY <1>3, <1>4, <1>5, SeqEqual
<1>7. QED
  BY <1>6 DEF w, t

\* A message moved from the front of one to the end of the other changes nothing
\* of two sequences laid end to end.
LEMMA MoveAcross ==
    ASSUME NEW S, NEW a \in Seq(S), NEW b \in Seq(S), b # <<>>
    PROVE  Append(a, Head(b)) \o Tail(b) = a \o b
<1> DEFINE h == <<Head(b)>>
<1>1. Head(b) \in S /\ Tail(b) \in Seq(S) /\ h \in Seq(S)
  BY TailFacts, OneFacts
<1>2. Append(a, Head(b)) = a \o h /\ b = h \o Tail(b)
  BY <1>1, AppendIsConcat, HeadAndTail
<1> HIDE DEF h
<1>3. (a \o h) \o Tail(b) = a \o (h \o Tail(b))
  <2>1. \A x, y, z \in Seq(S) : (x \o y) \o z = x \o (y \o z)
    BY ConcatAssociative, SMTT(30)
  <2>2. QED
    BY <1>1, <2>1
<1>4. QED
  BY <1>2, <1>3, Zenon

LEMMA AppendAfter ==
    ASSUME NEW S, NEW a \in Seq(S), NEW b \in Seq(S), NEW e \in S
    PROVE  a \o Append(b, e) = Append(a \o b, e)
<1> DEFINE h == <<e>>
<1>1. h \in Seq(S) /\ a \o b \in Seq(S)
  BY OneFacts, ConcatProperties
<1>2. Append(b, e) = b \o h /\ Append(a \o b, e) = (a \o b) \o h
  BY <1>1, AppendIsConcat
<1> HIDE DEF h
<1>3. (a \o b) \o h = a \o (b \o h)
  BY <1>1, ConcatAssociative
<1>4. QED
  BY <1>2, <1>3, Zenon

LEMMA PrefixOfConcat ==
    ASSUME NEW S, NEW s \in Seq(S), NEW u \in Seq(S)
    PROVE  IsPrefix(s, s \o u)
<1> DEFINE t == s \o u
<1>1. /\ t \in Seq(S) /\ Len(t) = Len(s) + Len(u) /\ Len(s) \in Nat /\ Len(u) \in Nat
      /\ \A i \in 1..Len(s) + Len(u) : t[i] = IF i <= Len(s) THEN s[i] ELSE u[i - Len(s)]
  BY ConcatProperties
<1> HIDE DEF t
<1>2. Len(s) <= Len(t)
  BY <1>1
<1>3. SubSeq(s, 1, Len(s)) = SubSeq(t, 1, Len(s))
  <2>1. \A i \in 1..Len(s) : s[i] = t[i]
    BY <1>1
  <2>2. SubSeq(s, 1, Len(s)) = [i \in 1..Len(s) |-> s[i]]
    BY <1>1
  <2>3. SubSeq(t, 1, Len(s)) = [i \in 1..Len(s) |-> t[i]]
    BY <1>1
  <2>4. QED
    BY <2>1, <2>2, <2>3
<1>4. QED
  BY <1>2, <1>3 DEF IsPrefix, t

-----------------------------------------------------------------------------
\* t is what the messages s say about r, in order: f gives the places of s that
\* are about r, all of them, from the first on.
Places(f, s, r, t) ==
    /\ f \in [1..Len(t) -> 1..Len(s)]
    /\ \A i, j \in 1..Len(t) : i < j => f[i] < f[j]
    /\ \A j \in 1..Len(t) : s[f[j]].id = r /\ s[f[j]].msg = t[j]
    /\ \A i \in 1..Len(s) : s[i].id = r => \E j \in 1..Len(t) : f[j] = i

About(s, r, t) == \E f : Places(f, s, r, t)

\* Nothing is said about a request the pod did not read ...
LEMMA AboutNone ==
    ASSUME NEW r \in Requests, NEW s \in Seq(Spoke), \A i \in 1..Len(s) : s[i].id # r
    PROVE  About(s, r, <<>>)
<1>1. Len(<<>>) = 0 /\ 1..0 = {}
  OBVIOUS
<1> DEFINE f == [j \in 1..0 |-> j]
<1>2. f \in [1..0 -> 1..Len(s)]
  BY <1>1
<1>3. Places(f, s, r, <<>>)
  BY <1>1, <1>2 DEF Places
<1>4. QED
  BY <1>3 DEF About

\* ... a message more is one more about its own request ...
LEMMA AboutAppend ==
    ASSUME NEW r \in Requests, NEW s \in Seq(Spoke), NEW t \in Seq(Message),
           NEW e \in Spoke, About(s, r, t)
    PROVE  /\ e.id = r => About(Append(s, e), r, Append(t, e.msg))
           /\ e.id # r => About(Append(s, e), r, t)
<1> DEFINE n == Len(s)  k == Len(t)  s1 == Append(s, e)  t1 == Append(t, e.msg)
<1>1. PICK f \in [1..k -> 1..n] :
        /\ \A i, j \in 1..k : i < j => f[i] < f[j]
        /\ \A j \in 1..k : s[f[j]].id = r /\ s[f[j]].msg = t[j]
        /\ \A i \in 1..n : s[i].id = r => \E j \in 1..k : f[j] = i
  BY DEF About, Places
<1>2. /\ n \in Nat /\ k \in Nat
      /\ s1 \in Seq(Spoke) /\ Len(s1) = n + 1 /\ s1[n + 1] = e
      /\ \A i \in 1..n : s1[i] = s[i]
  OBVIOUS
<1>3. /\ Len(t1) = k + 1 /\ t1[k + 1] = e.msg
      /\ \A i \in 1..k : t1[i] = t[i]
  BY DEF Spoke
<1>k. Len(t) = k
  OBVIOUS
<1> HIDE DEF n, k, s1, t1
<1>4. ASSUME e.id = r PROVE About(s1, r, t1)
  <2> DEFINE g == [j \in 1..k + 1 |-> IF j = k + 1 THEN n + 1 ELSE f[j]]
  <2>1. /\ \A j \in 1..k : g[j] = f[j] /\ f[j] \in 1..n /\ g[j] # n + 1
        /\ g[k + 1] = n + 1
    BY <1>2
  <2>2. g \in [1..k + 1 -> 1..n + 1]
    BY <1>2
  <2> HIDE DEF g
  <2>3. \A i, j \in 1..k + 1 : i < j => g[i] < g[j]
    <3> SUFFICES ASSUME NEW i \in 1..k + 1, NEW j \in 1..k + 1, i < j PROVE g[i] < g[j]
      OBVIOUS
    <3>1. i \in 1..k
      BY <1>2
    <3>2. CASE j \in 1..k
      <4>1. f[i] < f[j]
        BY <1>1, <3>1, <3>2
      <4>2. QED
        BY <2>1, <3>1, <3>2, <4>1
    <3>3. CASE j = k + 1
      <4>1. g[i] \in 1..n /\ g[j] = n + 1
        BY <2>1, <3>1, <3>3
      <4>2. QED
        BY <1>2, <4>1
    <3>4. j \in 1..k \/ j = k + 1
      BY <1>2
    <3>5. QED
      BY <3>2, <3>3, <3>4
  <2>4. ASSUME NEW j \in 1..k + 1 PROVE s1[g[j]].id = r /\ s1[g[j]].msg = t1[j]
    <3>1. CASE j = k + 1
      BY <1>2, <1>3, <1>4, <2>1, <3>1
    <3>2. CASE j # k + 1
      <4>1. j \in 1..k
        BY <1>2, <3>2
      <4>2. g[j] = f[j] /\ f[j] \in 1..n /\ t1[j] = t[j]
        BY <1>3, <2>1, <4>1
      <4>3. s1[g[j]] = s[f[j]]
        BY <1>2, <4>2
      <4>4. s[f[j]].id = r /\ s[f[j]].msg = t[j]
        BY <1>1, <4>1
      <4>5. QED
        BY <4>2, <4>3, <4>4
    <3>3. QED
      BY <3>1, <3>2
  <2>5. ASSUME NEW i \in 1..n + 1, s1[i].id = r PROVE \E j \in 1..k + 1 : g[j] = i
    <3>1. CASE i = n + 1
      BY <1>2, <2>1, <3>1
    <3>2. CASE i # n + 1
      <4>1. i \in 1..n /\ s[i].id = r
        BY <1>2, <2>5, <3>2
      <4>2. PICK j \in 1..k : f[j] = i
        BY <1>1, <4>1
      <4>3. QED
        BY <1>2, <2>1, <4>2
    <3>3. QED
      BY <3>1, <3>2
  <2>6. Places(g, s1, r, t1)
    BY <1>2, <1>3, <2>2, <2>3, <2>4, <2>5 DEF Places
  <2>7. QED
    BY <2>6 DEF About
<1>5. ASSUME e.id # r PROVE About(s1, r, t)
  <2>1. f \in [1..k -> 1..n + 1]
    BY <1>2
  <2>2. \A j \in 1..k : s1[f[j]].id = r /\ s1[f[j]].msg = t[j]
    BY <1>1, <1>2
  <2>3. \A i \in 1..n + 1 : s1[i].id = r => \E j \in 1..k : f[j] = i
    BY <1>1, <1>2, <1>5
  <2>4. Places(f, s1, r, t)
    BY <1>1, <1>2, <1>k, <2>1, <2>2, <2>3 DEF Places
  <2>5. QED
    BY <2>4 DEF About
<1>6. QED
  BY <1>4, <1>5 DEF s1, t1

\* ... and the first is the first about its own.
LEMMA AboutTail ==
    ASSUME NEW r \in Requests, NEW s \in Seq(Spoke), NEW t \in Seq(Message),
           s # <<>>, About(s, r, t)
    PROVE  /\ Head(s).id = r => /\ t # <<>> /\ Head(t) = Head(s).msg
                                /\ About(Tail(s), r, Tail(t))
           /\ Head(s).id # r => About(Tail(s), r, t)
<1> DEFINE n == Len(s)  k == Len(t)  s1 == Tail(s)
<1>1. PICK f \in [1..k -> 1..n] :
        /\ \A i, j \in 1..k : i < j => f[i] < f[j]
        /\ \A j \in 1..k : s[f[j]].id = r /\ s[f[j]].msg = t[j]
        /\ \A i \in 1..n : s[i].id = r => \E j \in 1..k : f[j] = i
  BY DEF About, Places
<1>2. /\ n \in Nat \ {0} /\ k \in Nat
      /\ s1 \in Seq(Spoke) /\ Len(s1) = n - 1 /\ Head(s) = s[1]
      /\ \A i \in 1..n - 1 : s1[i] = s[i + 1]
  OBVIOUS
<1>k. Len(t) = k
  OBVIOUS
<1> HIDE DEF n, k, s1
<1>3. ASSUME Head(s).id = r
      PROVE  t # <<>> /\ Head(t) = Head(s).msg /\ About(s1, r, Tail(t))
  <2>1. PICK j0 \in 1..k : f[j0] = 1
    BY <1>1, <1>2, <1>3
  <2>2. k # 0 /\ t # <<>>
    BY <2>1 DEF k
  <2>3. j0 = 1
    <3>1. CASE 1 < j0
      <4>1. f[1] < f[j0] /\ f[1] \in 1..n
        BY <1>1, <1>2, <2>1, <2>2, <3>1
      <4>2. QED
        BY <1>2, <2>1, <4>1
    <3>2. QED
      BY <1>2, <2>1, <3>1
  <2>4. f[1] = 1 /\ 1 \in 1..k
    BY <2>1, <2>3
  <2> DEFINE t1 == Tail(t)
  <2>5. /\ Head(t) = t[1] /\ Len(t1) = k - 1
        /\ \A i \in 1..k - 1 : t1[i] = t[i + 1]
    BY <2>2 DEF k
  <2>6. Head(t) = Head(s).msg
    BY <1>1, <1>2, <2>4, <2>5
  <2> HIDE DEF t1
  <2>7. \A j \in 1..k - 1 : j + 1 \in 1..k /\ f[j + 1] \in 1..n /\ f[j + 1] > 1
    BY <1>1, <1>2, <2>4
  <2> DEFINE g == [j \in 1..k - 1 |-> f[j + 1] - 1]
  <2>8. g \in [1..k - 1 -> 1..n - 1]
    BY <1>2, <2>7
  <2>9. \A j \in 1..k - 1 : g[j] = f[j + 1] - 1
    OBVIOUS
  <2> HIDE DEF g
  <2>10. \A i, j \in 1..k - 1 : i < j => g[i] < g[j]
    <3> SUFFICES ASSUME NEW i \in 1..k - 1, NEW j \in 1..k - 1, i < j PROVE g[i] < g[j]
      OBVIOUS
    <3>1. f[i + 1] < f[j + 1]
      BY <1>1, <1>2, <2>7
    <3>2. QED
      BY <1>2, <2>7, <2>9, <3>1
  <2>11. ASSUME NEW j \in 1..k - 1 PROVE s1[g[j]].id = r /\ s1[g[j]].msg = t1[j]
    <3>1. s1[g[j]] = s[f[j + 1]]
      <4>1. g[j] \in 1..n - 1 /\ g[j] = f[j + 1] - 1 /\ f[j + 1] \in 1..n
        BY <2>7, <2>8, <2>9
      <4>2. \A x \in 1..n - 1 : s1[x] = s[x + 1]
        BY <1>2
      <4>3. s1[g[j]] = s[g[j] + 1]
        BY <4>1, <4>2
      <4>4. \A x \in 1..n : (x - 1) + 1 = x
        BY <1>2
      <4>5. QED
        BY <4>1, <4>3, <4>4
    <3>2. QED
      BY <1>1, <2>5, <2>7, <3>1
  <2>12. ASSUME NEW i \in 1..n - 1, s1[i].id = r PROVE \E j \in 1..k - 1 : g[j] = i
    <3>1. i + 1 \in 1..n /\ s[i + 1].id = r
      BY <1>2, <2>12
    <3>2. PICK j \in 1..k : f[j] = i + 1
      BY <1>1, <3>1
    <3>3. j # 1 /\ j - 1 \in 1..k - 1
      BY <1>2, <2>4, <3>2
    <3>4. g[j - 1] = i
      <4>1. g[j - 1] = f[(j - 1) + 1] - 1
        BY <2>9, <3>3
      <4>2. (j - 1) + 1 = j /\ (i + 1) - 1 = i
        BY <1>2
      <4>3. QED
        BY <3>2, <4>1, <4>2
    <3>5. QED
      BY <3>3, <3>4
  <2>13. Places(g, s1, r, t1)
    BY <1>2, <2>5, <2>8, <2>10, <2>11, <2>12 DEF Places
  <2>14. QED
    BY <2>2, <2>6, <2>13 DEF t1, About
<1>4. ASSUME Head(s).id # r PROVE About(s1, r, t)
  <2>1. \A j \in 1..k : f[j] \in 1..n /\ f[j] # 1
    BY <1>1, <1>2, <1>4
  <2> DEFINE g == [j \in 1..k |-> f[j] - 1]
  <2>2. g \in [1..k -> 1..n - 1] /\ \A j \in 1..k : g[j] = f[j] - 1
    BY <1>2, <2>1
  <2> HIDE DEF g
  <2>3. \A i, j \in 1..k : i < j => g[i] < g[j]
    BY <1>1, <1>2, <2>1, <2>2
  <2>4. ASSUME NEW j \in 1..k PROVE s1[g[j]].id = r /\ s1[g[j]].msg = t[j]
    <3>1. g[j] \in 1..n - 1 /\ g[j] = f[j] - 1 /\ f[j] \in 1..n
      BY <2>1, <2>2
    <3>2. s1[g[j]] = s[g[j] + 1]
      BY <1>2, <3>1, Zenon
    <3>3. g[j] + 1 = f[j]
      BY <3>1
    <3>4. QED
      BY <1>1, <3>2, <3>3
  <2>5. ASSUME NEW i \in 1..n - 1, s1[i].id = r PROVE \E j \in 1..k : g[j] = i
    <3>1. i + 1 \in 1..n /\ s[i + 1].id = r
      BY <1>2, <2>5
    <3>2. PICK j \in 1..k : f[j] = i + 1
      BY <1>1, <3>1
    <3>3. QED
      BY <1>2, <2>2, <3>2
  <2>6. Places(g, s1, r, t)
    BY <1>2, <1>k, <2>2, <2>3, <2>4, <2>5 DEF Places
  <2>7. QED
    BY <2>6 DEF About
<1>5. QED
  BY <1>3, <1>4 DEF s1

-----------------------------------------------------------------------------
\* What the pod said about r is what came to its caller, or to its channel, then
\* the message the router is sending it, then what the router did not read yet.
\* Without an entry the rest is thrown away, and once the channel is closed so
\* is the message in hand; what came before stays a beginning.
Held(r) ==
    IF router \in Holding /\ router.stage = "sending" /\ router.id = r
    THEN <<router.msg>> ELSE <<>>

Came(r) == received[r] \o buffer[r]

FlowView(r) ==
    /\ \E u \in Seq(Message) : said[r] = Came(r) \o u
    /\ r \notin closed => \E u \in Seq(Message) : said[r] = (Came(r) \o Held(r)) \o u
    /\ r \in pending => \E u \in Seq(Message) :
           About(stdout, r, u) /\ said[r] = (Came(r) \o Held(r)) \o u
    /\ r \notin asked => said[r] = <<>> /\ Came(r) = <<>>

FlowInv == said \in [Requests -> Seq(Message)] /\ \A r \in Requests : FlowView(r)

LEMMA FlowTypes ==
    ASSUME IInv, NEW r \in Requests
    PROVE  Held(r) \in Seq(Message) /\ Came(r) \in Seq(Message)
           /\ Came(r) \o Held(r) \in Seq(Message)
<1>1. received[r] \in Seq(Message) /\ buffer[r] \in Seq(Message)
  BY DEF IInv, Types
<1>2. Came(r) \in Seq(Message)
  BY <1>1, ConcatProperties DEF Came
<1>3. Held(r) \in Seq(Message)
  BY OneFacts, EmptyFacts DEF Held, Holding
<1>4. QED
  BY <1>2, <1>3, ConcatProperties

\* A request of which nothing is said or received, and that keeps its entry only
\* if nothing is read.
LEMMA FlowKept ==
    ASSUME NEW r \in Requests, FlowView(r),
           said'[r] = said[r], Came(r)' = Came(r), Held(r)' = Held(r),
           r \in pending' => r \in pending /\ stdout' = stdout,
           r \in closed => r \in closed', r \in asked => r \in asked'
    PROVE  FlowView(r)'
  BY DEF FlowView

LEMMA FlowSay ==
    ASSUME IInv, FlowInv, NEW q \in Requests, NEW m \in Message, Say(q, m)
    PROVE  FlowInv'
<1> DEFINE e == [id |-> q, msg |-> m]
<1>1. /\ q \in asked /\ stdout' = Append(stdout, e)
      /\ said' = [said EXCEPT ![q] = Append(@, m)]
      /\ UNCHANGED <<asked, pending, buffer, closed, received, router>>
  BY DEF Say, channels, callers
<1>2. e \in Spoke /\ e.id = q /\ e.msg = m /\ stdout \in Seq(Spoke)
  BY DEF Spoke, IInv, Types
<1> HIDE DEF e
<1>3. \A r \in Requests : Came(r)' = Came(r) /\ Held(r)' = Held(r)
  BY <1>1 DEF Came, Held
<1>4. said[q] \in Seq(Message) /\ Append(said[q], m) \in Seq(Message)
  BY DEF FlowInv
<1>5. said' \in [Requests -> Seq(Message)] /\ said'[q] = Append(said[q], m)
  BY <1>1, <1>4 DEF FlowInv
<1>6. ASSUME NEW a \in Seq(Message), NEW u \in Seq(Message), said[q] = a \o u
      PROVE  Append(u, m) \in Seq(Message) /\ said'[q] = a \o Append(u, m)
  <2>1. Append(u, m) \in Seq(Message)
    OBVIOUS
  <2>2. a \o Append(u, m) = Append(a \o u, m)
    BY AppendAfter
  <2>3. QED
    BY <1>5, <1>6, <2>1, <2>2
<1>7. FlowView(q)'
  <2>1. Came(q) \in Seq(Message) /\ Came(q) \o Held(q) \in Seq(Message)
    BY FlowTypes
  <2>2. \E u \in Seq(Message) : said'[q] = Came(q) \o u
    BY <1>6, <2>1 DEF FlowInv, FlowView
  <2>3. q \notin closed => \E u \in Seq(Message) : said'[q] = (Came(q) \o Held(q)) \o u
    BY <1>6, <2>1 DEF FlowInv, FlowView
  <2>4. ASSUME q \in pending
        PROVE  \E u \in Seq(Message) :
                 About(stdout', q, u) /\ said'[q] = (Came(q) \o Held(q)) \o u
    <3>1. PICK u \in Seq(Message) :
            About(stdout, q, u) /\ said[q] = (Came(q) \o Held(q)) \o u
      BY <2>4 DEF FlowInv, FlowView
    <3>2. About(stdout', q, Append(u, m))
      BY <1>1, <1>2, <3>1, AboutAppend
    <3>3. QED
      BY <1>6, <2>1, <3>1, <3>2
  <2>5. QED
    BY <1>1, <1>3, <2>2, <2>3, <2>4 DEF FlowView
<1>8. ASSUME NEW r \in Requests, r # q PROVE FlowView(r)'
  <2>1. said'[r] = said[r]
    BY <1>1, <1>8 DEF FlowInv
  <2>2. \A u \in Seq(Message) : About(stdout, r, u) => About(stdout', r, u)
    BY <1>1, <1>2, <1>8, AboutAppend
  <2>3. FlowView(r)
    BY DEF FlowInv
  <2>4. QED
    BY <1>1, <1>3, <2>1, <2>2, <2>3 DEF FlowView
<1>9. QED
  BY <1>5, <1>7, <1>8 DEF FlowInv

LEMMA FlowRead ==
    ASSUME IInv, FlowInv, RouterRead,
           NEW q, q = Head(stdout).id, NEW m, m = Head(stdout).msg
    PROVE  FlowInv'
<1>1. /\ router = Nothing /\ stdout # <<>> /\ stdout' = Tail(stdout)
      /\ router' = IF q \in pending THEN InHand("sending", q, m) ELSE Nothing
      /\ pending' = IF m.done THEN pending \ {q} ELSE pending
      /\ UNCHANGED <<asked, said, buffer, closed, received>>
  BY DEF RouterRead, callers
<1>2. stdout \in Seq(Spoke) /\ q \in Requests /\ m \in Message
  <2>1. stdout \in Seq(Spoke)
    BY DEF IInv, Types
  <2>2. Head(stdout) \in Spoke
    BY <1>1, <2>1, TailFacts
  <2>3. QED
    BY <2>1, <2>2 DEF Spoke
<1>3. Nothing \notin Holding
  BY DEF Nothing, Holding
<1>4. \A r \in Requests : Came(r)' = Came(r) /\ Held(r) = <<>>
  BY <1>1, <1>3 DEF Came, Held
<1>5. Held(q)' = (IF q \in pending THEN <<m>> ELSE <<>>)
      /\ \A r \in Requests : r # q => Held(r)' = <<>>
  BY <1>1, <1>2, <1>3 DEF Held, InHand, Holding
<1>6. ASSUME NEW r \in Requests
      PROVE  Came(r) \in Seq(Message) /\ Came(r) \o <<>> = Came(r)
  BY FlowTypes, ConcatEmptySeq
<1>7. FlowView(q)'
  <2>1. CASE q \in pending
    <3>1. PICK u \in Seq(Message) : About(stdout, q, u) /\ said[q] = (Came(q) \o Held(q)) \o u
      BY <1>2, <2>1 DEF FlowInv, FlowView
    <3>2. said[q] = Came(q) \o u
      BY <1>2, <1>4, <1>6, <3>1
    <3>3. u # <<>> /\ Head(u) = m /\ About(stdout', q, Tail(u))
      BY <1>1, <1>2, <3>1, AboutTail
    <3>4. Tail(u) \in Seq(Message) /\ <<m>> \in Seq(Message) /\ u = <<m>> \o Tail(u)
      BY <1>2, <3>3, TailFacts, OneFacts, HeadAndTail
    <3>5. said[q] = (Came(q) \o <<m>>) \o Tail(u)
      <4>1. \A a, b, c \in Seq(Message) : (a \o b) \o c = a \o (b \o c)
        BY ConcatAssociative, SMTT(30)
      <4>2. Came(q) \in Seq(Message)
        BY <1>2, <1>6
      <4>3. (Came(q) \o <<m>>) \o Tail(u) = Came(q) \o (<<m>> \o Tail(u))
        BY <3>4, <4>1, <4>2, Zenon
      <4>4. QED
        BY <3>2, <3>4, <4>3, Zenon
    <3>6. Came(q)' = Came(q) /\ Held(q)' = <<m>>
      BY <1>2, <1>4, <1>5, <2>1
    <3>7. q \in asked
      BY <1>1, <1>2, TailFacts DEF IInv, Order
    <3>8. QED
      BY <1>1, <3>1, <3>2, <3>3, <3>4, <3>5, <3>6, <3>7 DEF FlowView
  <2>2. CASE q \notin pending
    <3>1. Held(q)' = Held(q) /\ q \notin pending'
      BY <1>1, <1>2, <1>4, <1>5, <2>2
    <3>2. FlowView(q)
      BY <1>2 DEF FlowInv
    <3>3. QED
      BY <1>1, <1>2, <1>4, <3>1, <3>2, FlowKept
  <2>3. QED
    BY <2>1, <2>2
<1>8. ASSUME NEW r \in Requests, r # q PROVE FlowView(r)'
  <2>1. \A u \in Seq(Message) : About(stdout, r, u) => About(stdout', r, u)
    BY <1>1, <1>2, <1>8, AboutTail
  <2>2. FlowView(r) /\ Came(r)' = Came(r) /\ Held(r)' = Held(r)
    BY <1>4, <1>5, <1>8 DEF FlowInv
  <2>3. r \in pending' => r \in pending
    BY <1>1
  <2>4. QED
    BY <1>1, <2>1, <2>2, <2>3 DEF FlowView
<1>9. QED
  BY <1>1, <1>7, <1>8 DEF FlowInv

LEMMA FlowSend ==
    ASSUME IInv, FlowInv, RouterSend,
           NEW q, q = router.id, NEW m, m = router.msg
    PROVE  FlowInv'
<1>1. /\ router \in Holding /\ router.stage = "sending"
      /\ router' = AfterSend
      /\ UNCHANGED <<stdout, asked, said, pending, closed, received>>
      /\ \/ q \in closed /\ buffer' = buffer
         \/ q \notin closed /\ buffer' = [buffer EXCEPT ![q] = Append(@, m)]
  BY RouterFacts DEF RouterSend, process, callers, IInv, Types, TypeOK
<1>2. q \in Requests /\ m \in Message
  BY <1>1 DEF Holding
<1>3. Held(q) = <<m>> /\ \A r \in Requests : r # q => Held(r) = <<>>
  BY <1>1 DEF Held
<1>4. \A r \in Requests : Held(r)' = <<>>
  <2>1. router' \notin Holding \/ router'.stage = "closing"
    BY <1>1 DEF AfterSend, Nothing, Holding
  <2>2. QED
    BY <2>1 DEF Held
<1>5. FlowView(q)'
  <2>1. CASE q \in closed
    <3>1. Came(q)' = Came(q) /\ q \notin pending /\ FlowView(q)
      BY <1>1, <1>2, <2>1 DEF Came, IInv, Entries, FlowInv
    <3>2. QED
      BY <1>1, <2>1, <3>1 DEF FlowView
  <2>2. CASE q \notin closed
    <3>1. received[q] \in Seq(Message) /\ buffer[q] \in Seq(Message)
      BY <1>2 DEF IInv, Types
    <3>2. buffer'[q] = Append(buffer[q], m)
      BY <1>1, <1>2, <2>2 DEF IInv, Types
    <3>3. Came(q)' = Came(q) \o Held(q)
      <4>1. received[q] \o Append(buffer[q], m) = Append(received[q] \o buffer[q], m)
        <5>1. \A a, b \in Seq(Message) : a \o Append(b, m) = Append(a \o b, m)
          BY <1>2, AppendAfter
        <5>2. QED
          BY <3>1, <5>1
      <4>2. Append(Came(q), m) = Came(q) \o <<m>>
        BY <1>2, FlowTypes, AppendIsConcat
      <4>3. QED
        BY <1>1, <1>3, <3>2, <4>1, <4>2 DEF Came
    <3>4. Came(q)' \in Seq(Message) /\ (Came(q) \o Held(q))' = Came(q)'
      <4>1. Came(q) \o Held(q) \in Seq(Message)
        BY <1>2, FlowTypes
      <4>2. Came(q)' \o <<>> = Came(q)'
        BY <3>3, <4>1, ConcatEmptySeq
      <4>3. QED
        BY <1>2, <1>4, <3>3, <4>1, <4>2
    <3>5. FlowView(q) /\ q \in asked
      BY <1>1, <1>2 DEF FlowInv, IInv, Order
    <3>6. Held(q)' = <<>> /\ Came(q)' = Came(q) \o Held(q)
      BY <1>2, <1>4, <3>3
    <3>7. UNCHANGED <<stdout, asked, said, pending, closed>>
      BY <1>1
    <3>8. /\ \E u \in Seq(Message) : said[q] = Came(q)' \o u
          /\ q \in pending => \E u \in Seq(Message) :
               About(stdout, q, u) /\ said[q] = Came(q)' \o u
      BY <2>2, <3>5, <3>6 DEF FlowView
    <3>9. QED
      BY <3>4, <3>5, <3>7, <3>8 DEF FlowView
  <2>3. QED
    BY <2>1, <2>2
<1>6. ASSUME NEW r \in Requests, r # q PROVE FlowView(r)'
  <2>1. buffer'[r] = buffer[r]
    BY <1>1, <1>2, <1>6 DEF IInv, Types
  <2>2. Came(r)' = Came(r) /\ Held(r)' = Held(r) /\ FlowView(r)
    BY <1>1, <1>3, <1>4, <1>6, <2>1 DEF Came, FlowInv
  <2>3. QED
    BY <1>1, <2>2, FlowKept
<1>7. QED
  BY <1>1, <1>5, <1>6 DEF FlowInv

LEMMA FlowReceives ==
    ASSUME IInv, FlowInv, NEW q \in Requests, Receives(q)
    PROVE  FlowInv'
<1>1. /\ buffer[q] # <<>> /\ buffer[q] \in Seq(Message) /\ received[q] \in Seq(Message)
      /\ buffer' = [buffer EXCEPT ![q] = Tail(@)]
      /\ received' = [received EXCEPT ![q] = Append(@, Head(buffer[q]))]
      /\ UNCHANGED <<stdout, asked, said, pending, closed, router>>
  BY DEF Receives, process, IInv, Types
<1>2. ASSUME NEW r \in Requests PROVE Came(r)' = Came(r)
  <2>1. CASE r = q
    <3>1. Append(received[q], Head(buffer[q])) \o Tail(buffer[q]) = received[q] \o buffer[q]
      BY <1>1, MoveAcross
    <3>2. buffer'[q] = Tail(buffer[q]) /\ received'[q] = Append(received[q], Head(buffer[q]))
      BY <1>1 DEF IInv, Types
    <3>3. QED
      BY <2>1, <3>1, <3>2 DEF Came
  <2>2. CASE r # q
    BY <1>1, <2>2 DEF Came, IInv, Types
  <2>3. QED
    BY <2>1, <2>2
<1>3. \A r \in Requests : Held(r)' = Held(r) /\ FlowView(r)
  BY <1>1 DEF Held, FlowInv
<1>4. \A r \in Requests : FlowView(r)'
  BY <1>1, <1>2, <1>3, FlowKept
<1>5. QED
  BY <1>1, <1>4 DEF FlowInv

\* An invoke begins with nothing said, asked or received.
LEMMA FlowBegin ==
    ASSUME IInv, FlowInv, NEW q \in Requests, InvokeBegin(q)
    PROVE  FlowInv'
<1>1. /\ pending' = pending \cup {q}
      /\ UNCHANGED <<stdout, asked, said, buffer, closed, received, router>>
  BY DEF InvokeBegin, process
<1>2. \A r \in Requests : Came(r)' = Came(r) /\ Held(r)' = Held(r) /\ FlowView(r)
  BY <1>1 DEF Came, Held, FlowInv
<1>3. ASSUME NEW r \in Requests, r # q PROVE FlowView(r)'
  BY <1>1, <1>2, <1>3, FlowKept
<1>4. FlowView(q)'
  <2>1. q \notin asked
    BY DEF InvokeBegin, IInv, Order
  <2>2. said[q] = <<>> /\ Came(q) = <<>> /\ Held(q) = <<>>
    BY <1>2, <2>1 DEF FlowView, Held, IInv, Order
  <2>3. (Came(q) \o Held(q)) \o <<>> = <<>>
    BY <2>2, EmptyFacts, ConcatEmptySeq
  <2>4. About(stdout, q, <<>>)
    <3>1. stdout \in Seq(Spoke) /\ \A i \in 1..Len(stdout) : stdout[i].id # q
      BY <2>1 DEF IInv, Types, Order
    <3>2. QED
      BY <3>1, AboutNone
  <2>5. QED
    BY <1>1, <1>2, <2>2, <2>3, <2>4, EmptyFacts DEF FlowView
<1>5. QED
  BY <1>1, <1>3, <1>4 DEF FlowInv

\* Every other step leaves what was said and what came alone.
LEMMA FlowRest ==
    ASSUME IInv, FlowInv,
           UNCHANGED <<said, buffer, received>>,
           \A r \in Requests : Held(r)' = Held(r),
           pending' \subseteq pending, pending' = {} \/ stdout' = stdout,
           closed \subseteq closed', asked \subseteq asked'
    PROVE  FlowInv'
<1>1. \A r \in Requests : Came(r)' = Came(r) /\ FlowView(r)
  BY DEF Came, FlowInv
<1>2. \A r \in Requests : FlowView(r)'
  BY <1>1, FlowKept
<1>3. QED
  BY <1>2 DEF FlowInv

LEMMA FlowInductive == IInv /\ FlowInv /\ [Next]_vars => FlowInv'
<1> SUFFICES ASSUME IInv, FlowInv, [Next]_vars PROVE FlowInv'
  OBVIOUS
<1> USE DEF process, channels, callers
<1>1. CASE RouterRead
  BY <1>1, FlowRead
<1>2. CASE RouterSend
  BY <1>2, FlowSend
<1>3. CASE RouterClose
  <2>1. \A r \in Requests : Held(r)' = Held(r)
    BY <1>3 DEF RouterClose, Held, Nothing, Holding
  <2>2. QED
    BY <1>3, <2>1, FlowRest DEF RouterClose
<1>4. CASE RouterEnd
  <2>1. \A r \in Requests : Held(r)' = Held(r)
    BY <1>4 DEF RouterEnd, Held, Nothing, Ended, Holding
  <2>2. QED
    BY <1>4, <2>1, FlowRest DEF RouterEnd, ClosePending
<1>5. ASSUME NEW r \in Requests, NEW m \in Menu[r], Say(r, m) PROVE FlowInv'
  BY <1>5, FlowSay, PodsAssumption
<1>6. ASSUME NEW r \in Requests, InvokeBegin(r) PROVE FlowInv'
  BY <1>6, FlowBegin
<1>7. ASSUME NEW r \in Requests, InvokeReceive(r) PROVE FlowInv'
  BY <1>7, FlowReceives DEF InvokeReceive
<1>8. CASE DescribeReceive
  BY <1>8, FlowReceives DEF DescribeReceive, Requests
<1>9. ASSUME UNCHANGED router,
             UNCHANGED <<said, buffer, received>>,
             pending' \subseteq pending, pending' = {} \/ stdout' = stdout,
             closed \subseteq closed', asked \subseteq asked'
      PROVE  FlowInv'
  BY <1>9, FlowRest DEF Held
<1>10. CASE Mute \/ Die
  BY <1>9, <1>10 DEF Mute, Die
<1>11. ASSUME NEW r \in Requests,
              Request(r) \/ ReceiveClosed(r) \/ Timeout(r) \/ Unregister(r)
       PROVE  FlowInv'
  BY <1>9, <1>11 DEF Request, ReceiveClosed, Timeout, Unregister
<1>12. CASE Shutdown
  BY <1>9, <1>12 DEF Shutdown, ClosePending
<1>13. CASE UNCHANGED vars
  BY <1>9, <1>13 DEF vars
<1>14. QED
  BY <1>1, <1>2, <1>3, <1>4, <1>5, <1>6, <1>7, <1>8, <1>10, <1>11, <1>12, <1>13
     DEF Next, Router, CallStep

\* What a caller receives is the beginning of what the pod said about its
\* request, whatever the pod says, however many requests it answers at once, and
\* whoever times out or shuts the pod down meanwhile.
THEOREM AnswersAreOwnCorrect == Spec => []AnswersAreOwn
<1>1. Init => FlowInv
  <2> SUFFICES ASSUME Init PROVE FlowInv
    OBVIOUS
  <2>1. said \in [Requests -> Seq(Message)]
    BY EmptyFacts DEF Init
  <2>2. ASSUME NEW r \in Requests PROVE FlowView(r)
    <3>1. said[r] = <<>> /\ Came(r) = <<>> \o <<>> /\ Held(r) = <<>>
      BY DEF Init, Came, Held, Holding, Nothing
    <3>2. <<>> \o <<>> = <<>> /\ <<>> \in Seq(Message)
      BY EmptyFacts, ConcatEmptySeq
    <3>3. About(stdout, r, <<>>)
      <4>1. stdout \in Seq(Spoke) /\ Len(stdout) = 0
        BY EmptyFacts DEF Init
      <4>2. \A i \in 1..Len(stdout) : stdout[i].id # r
        BY <4>1
      <4>3. QED
        BY <4>1, <4>2, AboutNone, Zenon
    <3>4. QED
      BY <3>1, <3>2, <3>3 DEF FlowView
  <2>3. QED
    BY <2>1, <2>2 DEF FlowInv
<1>2. IInv /\ FlowInv => AnswersAreOwn
  <2> SUFFICES ASSUME IInv, FlowInv, NEW r \in Requests
               PROVE  IsPrefix(received[r] \o buffer[r], said[r])
    BY DEF AnswersAreOwn
  <2>1. PICK u \in Seq(Message) : said[r] = Came(r) \o u
    BY DEF FlowInv, FlowView
  <2>2. Came(r) \in Seq(Message)
    BY FlowTypes
  <2>3. QED
    BY <2>1, <2>2, PrefixOfConcat DEF Came
<1>3. QED
  BY <1>1, <1>2, Invariant, FlowInductive, PTL DEF Spec
=============================================================================
