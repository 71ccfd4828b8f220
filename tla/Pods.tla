--------------------------------- MODULE Pods ---------------------------------
(***************************************************************************)
(* A pod (std/pods): a process that answers requests over its stdin and    *)
(* stdout.  load-pod starts it and asks it to describe itself; after that  *)
(* any goroutine may invoke it.  A request has a pending entry with a      *)
(* bounded channel of its own; one goroutine, the router, moves what the   *)
(* pod says to the channel of the request it answers.  The pod itself is   *)
(* external: it answers what it was asked with any messages, in any order  *)
(* across requests, also after it said done, and may fall mute or die.     *)
(***************************************************************************)
EXTENDS Naturals, Sequences, SequencesExt, FiniteSetsExt

CONSTANTS
    Describe, \* the request of load-pod
    Invokes,  \* the requests of pods/invoke and of the proxies of pod vars
    Cap,      \* the capacity of a pending channel (8 in the code)
    Menu,     \* Menu[r]: what a message about r may say
    MaxSaid   \* bound: how many messages the pod says

Requests == Invokes \cup {Describe}

\* A message carries an error (an ex-message, or a value that does not decode)
\* or not, and may be the last of its request.
Message == [error : BOOLEAN, done : BOOLEAN]

ASSUME PodsAssumption ==
    /\ Describe \notin Invokes
    /\ Cap \in Nat \ {0}
    /\ Menu \in [Requests -> SUBSET Message]
    /\ MaxSaid \in Nat

VARIABLES
    stdin,    \* stdin.Write succeeds: the pod lives and was not shut down
    stdout,   \* what the pod said and the router did not read yet
    eof,      \* the router's next read fails, once it read what is in stdout
    asked,    \* the requests the pod read
    said,     \* said[r]: what the pod said about r
    pending,  \* the requests with an entry in Pod.pending
    buffer,   \* buffer[r]: the content of the channel of r
    closed,   \* the requests whose channel is closed
    router,   \* the message the router has in hand, and what it does with it
    pc,       \* pc[r]: where the caller of r is
    received, \* received[r]: what the caller of r received
    outcome   \* outcome[r]: "none", then how the call ended

process == <<stdin, stdout, eof, asked, said>>
channels == <<pending, buffer, closed>>
callers == <<pc, received, outcome>>
vars == <<process, channels, callers, router>>

Nothing == [stage |-> "reading"]
Ended == [stage |-> "ended"]
InHand(stage, r, m) == [stage |-> stage, id |-> r, msg |-> m]
Holding == [stage : {"sending", "closing"}, id : Requests, msg : Message]

\* The pod was started, its router runs, and the describe is about to be sent.
Init ==
    /\ stdin = TRUE /\ stdout = <<>> /\ eof = FALSE
    /\ asked = {} /\ said = [r \in Requests |-> <<>>]
    /\ pending = {Describe}
    /\ buffer = [r \in Requests |-> <<>>] /\ closed = {}
    /\ router = Nothing
    /\ pc = [r \in Requests |-> IF r = Describe THEN "send" ELSE "idle"]
    /\ received = [r \in Requests |-> <<>>]
    /\ outcome = [r \in Requests |-> "none"]

Goto(r, l) == pc' = [pc EXCEPT ![r] = l]
Finish(r, l, o) == Goto(r, l) /\ outcome' = [outcome EXCEPT ![r] = o]

-----------------------------------------------------------------------------
\* The process.
Spoken == FoldSet(LAMBDA r, n : n + Len(said[r]), 0, Requests)

Say(r, m) ==
    /\ stdin
    /\ r \in asked /\ ~eof
    /\ Spoken < MaxSaid
    /\ stdout' = Append(stdout, [id |-> r, msg |-> m])
    /\ said' = [said EXCEPT ![r] = Append(@, m)]
    /\ UNCHANGED <<stdin, eof, asked, channels, callers, router>>

\* The pod closes its stdout, or says what does not decode: the router hears no
\* more of it.  It may live on and read requests.
Mute ==
    /\ stdin /\ ~eof
    /\ eof' = TRUE
    /\ UNCHANGED <<stdin, stdout, asked, said, channels, callers, router>>

Die ==
    /\ stdin
    /\ stdin' = FALSE /\ eof' = TRUE
    /\ UNCHANGED <<stdout, asked, said, channels, callers, router>>

-----------------------------------------------------------------------------
\* The router reads a message, and looks its request up under pendingMu.
RouterRead ==
    /\ router = Nothing
    /\ stdout # <<>>
    /\ LET r == Head(stdout).id  m == Head(stdout).msg IN
         /\ router' = IF r \in pending THEN InHand("sending", r, m) ELSE Nothing
         /\ pending' = IF m.done THEN pending \ {r} ELSE pending
    /\ stdout' = Tail(stdout)
    /\ UNCHANGED <<stdin, eof, asked, said, buffer, closed, callers>>

\* Mutant of AfterSend: every message is taken for the last.
AfterSendEach == [router EXCEPT !.stage = "closing"]

\* isPodDoneMessage, after the message was sent.
AfterSend == IF router.msg.done THEN [router EXCEPT !.stage = "closing"] ELSE Nothing

\* Mutant of RouterSend: a message that finds no room is dropped.
RouterSendOrDrop ==
    /\ router.stage = "sending"
    /\ LET r == router.id IN
         IF r \notin closed /\ Len(buffer[r]) < Cap
         THEN buffer' = [buffer EXCEPT ![r] = Append(@, router.msg)]
         ELSE UNCHANGED buffer
    /\ router' = AfterSend
    /\ UNCHANGED <<process, pending, closed, callers>>

\* safeSendPodMessage waits for room in the channel; the panic of a send on a
\* closed channel is recovered, and the message lost.
RouterSend ==
    /\ router.stage = "sending"
    /\ LET r == router.id IN
         \/ /\ r \in closed
            /\ UNCHANGED buffer
         \/ /\ r \notin closed
            /\ Len(buffer[r]) < Cap
            /\ buffer' = [buffer EXCEPT ![r] = Append(@, router.msg)]
    /\ router' = AfterSend
    /\ UNCHANGED <<process, pending, closed, callers>>

\* The channel is closed after a last message.
RouterClose ==
    /\ router.stage = "closing"
    /\ closed' = closed \cup {router.id}
    /\ router' = Nothing
    /\ UNCHANGED <<process, pending, buffer, callers>>

ClosePending ==
    /\ closed' = closed \cup pending
    /\ pending' = {}
    /\ UNCHANGED buffer

\* A read fails: every pending request is closed and the router ends.
RouterEnd ==
    /\ router = Nothing
    /\ eof /\ stdout = <<>>
    /\ ClosePending
    /\ router' = Ended
    /\ UNCHANGED <<process, callers>>

-----------------------------------------------------------------------------
\* invokeWithTimeout.  A pod can be invoked once load-pod has returned.
InvokeBegin(r) ==
    /\ r \in Invokes
    /\ pc[r] = "idle"
    /\ pc[Describe] = "returned" /\ outcome[Describe] = "ok"
    /\ pending' = pending \cup {r}
    /\ Goto(r, "send")
    /\ UNCHANGED <<process, buffer, closed, received, outcome, router>>

\* unregisterPending is next for a request that failed; load-pod shuts the pod
\* down instead.
Cleanup(r) == IF r = Describe THEN "shutdown" ELSE "unregister"

Request(r) ==
    /\ pc[r] = "send"
    /\ \/ /\ stdin
          /\ asked' = asked \cup {r}
          /\ Goto(r, "wait")
          /\ UNCHANGED outcome
       \/ /\ ~stdin
          /\ Finish(r, Cleanup(r), "failed")
          /\ UNCHANGED asked
    /\ UNCHANGED <<stdin, stdout, eof, said, channels, received, router>>

Receives(r) ==
    /\ pc[r] = "wait"
    /\ buffer[r] # <<>>
    /\ buffer' = [buffer EXCEPT ![r] = Tail(@)]
    /\ received' = [received EXCEPT ![r] = Append(@, Head(buffer[r]))]
    /\ UNCHANGED <<process, pending, closed, router>>

\* An invoke reads on until its channel is closed or it meets an error.
InvokeReceive(r) ==
    /\ r \in Invokes
    /\ Receives(r)
    /\ \/ /\ Head(buffer[r]).error
          /\ Finish(r, "unregister", "failed")
       \/ /\ ~Head(buffer[r]).error
          /\ UNCHANGED <<pc, outcome>>

\* load-pod installs the namespaces that were described, or gives up.
InstallNamespaces == Finish(Describe, "returned", "ok") \/ Finish(Describe, "shutdown", "failed")

\* load-pod takes the first answer for the description, whatever follows, and
\* leaves the pending entry.
DescribeReceive == Receives(Describe) /\ InstallNamespaces

\* The channel is closed and empty.
ReceiveClosed(r) ==
    /\ pc[r] = "wait"
    /\ buffer[r] = <<>> /\ r \in closed
    /\ IF r = Describe THEN Finish(r, "shutdown", "failed")
                       ELSE Finish(r, "returned", "ok")
    /\ UNCHANGED <<process, channels, received, router>>

\* Mutant of Timeout: the clock starts at the first answer.
TimeoutAfterAnswer(r) ==
    /\ pc[r] = "wait"
    /\ received[r] # <<>>
    /\ Finish(r, Cleanup(r), "timeout")
    /\ UNCHANGED <<process, channels, received, router>>

\* The timer wins the select, be there a message or not.
Timeout(r) ==
    /\ pc[r] = "wait"
    /\ Finish(r, Cleanup(r), "timeout")
    /\ UNCHANGED <<process, channels, received, router>>

\* Mutant of Unregister: the channel is closed and its entry left.
UnregisterKeeps(r) ==
    /\ pc[r] = "unregister"
    /\ closed' = IF r \in pending THEN closed \cup {r} ELSE closed
    /\ Goto(r, "returned")
    /\ UNCHANGED <<process, pending, buffer, received, outcome, router>>

\* Mutant of Unregister: the entry is deleted and its channel left open.
UnregisterOpen(r) ==
    /\ pc[r] = "unregister"
    /\ pending' = pending \ {r}
    /\ Goto(r, "returned")
    /\ UNCHANGED <<process, buffer, closed, received, outcome, router>>

\* unregisterPending closes the channel only if it finds the entry.
Unregister(r) ==
    /\ pc[r] = "unregister"
    /\ closed' = IF r \in pending THEN closed \cup {r} ELSE closed
    /\ pending' = pending \ {r}
    /\ Goto(r, "returned")
    /\ UNCHANGED <<process, buffer, received, outcome, router>>

\* shutdownPod, of which load-pod is the only caller: the streams are closed,
\* what was in them is lost, and the pending requests are closed.
Shutdown ==
    /\ pc[Describe] = "shutdown"
    /\ stdin' = FALSE /\ stdout' = <<>> /\ eof' = TRUE
    /\ ClosePending
    /\ Goto(Describe, "returned")
    /\ UNCHANGED <<asked, said, received, outcome, router>>

-----------------------------------------------------------------------------
Router == RouterRead \/ RouterSend \/ RouterClose \/ RouterEnd

\* What a caller does without waiting for the pod.
CallStep(r) ==
    \/ Request(r) \/ InvokeReceive(r) \/ ReceiveClosed(r) \/ Unregister(r)
    \/ r = Describe /\ (DescribeReceive \/ Shutdown)

Next ==
    \/ Router \/ Mute \/ Die
    \/ \E r \in Requests :
         InvokeBegin(r) \/ CallStep(r) \/ Timeout(r) \/ \E m \in Menu[r] : Say(r, m)

Spec == Init /\ [][Next]_vars

\* Goroutines that can run do, and timers fire.  The pod promises nothing.
FairSpec ==
    /\ Spec
    /\ WF_vars(Router)
    /\ \A r \in Requests : WF_vars(CallStep(r)) /\ WF_vars(Timeout(r))

-----------------------------------------------------------------------------
\* Every variable has its type.
TypeOK ==
    /\ stdin \in BOOLEAN /\ eof \in BOOLEAN
    /\ asked \subseteq Requests /\ pending \subseteq Requests /\ closed \subseteq Requests
    /\ \A r \in Requests :
         /\ Len(buffer[r]) <= Cap
         /\ pc[r] \in {"idle", "send", "wait", "unregister", "shutdown", "returned"}
         /\ outcome[r] \in {"none", "ok", "failed", "timeout"}
    /\ router \in Holding \cup {Nothing, Ended}

\* A caller receives what the pod said about its request, from the first
\* message on, in order and with no gap, however many requests are answered at
\* once and however slowly it reads.
AnswersAreOwn ==
    \A r \in Requests : IsPrefix(received[r] \o buffer[r], said[r])

\* An invoke that returns, for whatever reason, leaves no pending entry, and
\* what the pod still says about it is thrown away.
ReturnedLeavesNothing ==
    \A r \in Invokes : pc[r] = "returned" => r \notin pending

\* An invoke succeeds because its last message came and no error before it;
\* without a last message only when nothing more is heard of the pod and the
\* router has ended.
SuccessMeansDone ==
    \A r \in Invokes : outcome[r] = "ok" =>
        /\ \A i \in DOMAIN received[r] : ~received[r][i].error
        /\ \/ received[r] # <<>> /\ Last(received[r]).done
           \/ router = Ended

\* An invoke that waits is not forgotten: what the pod says about it finds its
\* entry, or its channel is closed, or the router has its last message in hand
\* and will close it.
LastInHand(r) == router \in Holding /\ router.id = r /\ router.msg.done

NoneForgotten ==
    \A r \in Invokes : pc[r] \in {"send", "wait"} => r \in pending \cup closed \/ LastInHand(r)

\* Every invoke returns, whatever the pod does.
InvokeReturns == \A r \in Invokes : pc[r] # "idle" ~> pc[r] = "returned"

\* The router does not wait for ever with a message that is not the last of an
\* invoke: a caller that gave up frees it by closing the channel.
Waits(r) == router.stage = "sending" /\ router.id = r /\ ~router.msg.done
RouterMoves == \A r \in Invokes : Waits(r) ~> ~Waits(r)
=============================================================================
