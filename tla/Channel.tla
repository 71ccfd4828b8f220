------------------------------- MODULE Channel -------------------------------
(***************************************************************************)
(* core/runtime/channel.go: one Channel[T], its Go channel ch, its mutex   *)
(* closeMu and its flag isClosed, used by concurrent calls of Send (one    *)
(* per message), Receive and Close, and by the Joker procedures >! and <!. *)
(*                                                                         *)
(* The Go channel is a library of the language.  It is modelled by one     *)
(* sequence: the first Cap entries of queue sit in its buffer and their    *)
(* senders have returned; the entries behind them belong to senders parked *)
(* on `ch.ch <- value`, in arrival order.                                  *)
(***************************************************************************)
EXTENDS Naturals, Sequences

CONSTANTS
    Msgs,        \* calls of Send, named by the distinct value each one sends
    Receivers,   \* goroutines that call Receive, any number of times
    Cancellable, \* those of them whose calls pass a done channel
    Closers,     \* calls of Close
    Cap,         \* capacity given to make(chan T, Cap)
    Nobody       \* closeMu is free

ASSUME ChannelAssumption ==
    /\ Cap \in Nat
    /\ Cancellable \subseteq Receivers
    /\ Nobody \notin Closers

VARIABLES
    queue,       \* ch: buffered entries, then parked ones
    chClosed,    \* close(ch) has run
    isClosed,    \* the flag closeMu protects
    closeMu,     \* the Close call that holds the mutex, or Nobody
    sendPc,      \* progress of each Send
    recvPc,      \* "idle" or "waiting" in Receive
    answer,      \* what the last Receive returned: its ChannelReceiveStatus
    closePc,     \* progress of each Close
    doneFired,   \* the done channel of the cancellable receivers is closed
    delivered    \* history: the values received, in order

vars == <<queue, chClosed, isClosed, closeMu, sendPc, recvPc, answer,
          closePc, doneFired, delivered>>

SendStates  == {"idle", "prechecked", "checked", "parked", "accepted", "refused"}
InFlight    == {"prechecked", "checked", "parked"}
CloseStates == {"idle", "closing", "returned"}
Answers     == {"none", "value", "closed", "done"}

SmallerOf(a, b) == IF a < b THEN a ELSE b

Buffered == SmallerOf(Cap, Len(queue))

\* NewChannel over make(chan T, Cap).
Init ==
    /\ queue = <<>>
    /\ chClosed = FALSE
    /\ isClosed = FALSE
    /\ closeMu = Nobody
    /\ sendPc = [m \in Msgs |-> "idle"]
    /\ recvPc = [r \in Receivers |-> "idle"]
    /\ answer = [r \in Receivers |-> "none"]
    /\ closePc = [c \in Closers |-> "idle"]
    /\ doneFired = FALSE
    /\ delivered = <<>>

-----------------------------------------------------------------------------
\* IsClosed: a critical section of closeMu, so a Close that is between its
\* two writes is never observed.
IsClosedReturns(b) == closeMu = Nobody /\ isClosed = b

\* procSend asks IsClosed itself before it calls Send.
ProcSend(m) ==
    /\ sendPc[m] = "idle"
    /\ \E b \in BOOLEAN :
         /\ IsClosedReturns(b)
         /\ sendPc' = [sendPc EXCEPT ![m] = IF b THEN "refused" ELSE "prechecked"]
    /\ UNCHANGED <<queue, chClosed, isClosed, closeMu, recvPc, answer, closePc,
                   doneFired, delivered>>

\* Send's own check; asyncSend and procGo enter here.
SendCheck(m) ==
    /\ sendPc[m] \in {"idle", "prechecked"}
    /\ \E b \in BOOLEAN :
         /\ IsClosedReturns(b)
         /\ sendPc' = [sendPc EXCEPT ![m] = IF b THEN "refused" ELSE "checked"]
    /\ UNCHANGED <<queue, chClosed, isClosed, closeMu, recvPc, answer, closePc,
                   doneFired, delivered>>

\* ch.ch <- value on an open channel: buffered at once, or parked.
SendPut(m) ==
    /\ sendPc[m] = "checked"
    /\ ~chClosed
    /\ queue' = Append(queue, m)
    /\ sendPc' = [sendPc EXCEPT ![m] = IF Len(queue) < Cap THEN "accepted"
                                                           ELSE "parked"]
    /\ UNCHANGED <<chClosed, isClosed, closeMu, recvPc, answer, closePc,
                   doneFired, delivered>>

\* Mutant of SendPanics: recover swallows the panic and leaves ok true.
SendPanicsAsTrue(m) ==
    /\ sendPc[m] = "checked"
    /\ chClosed
    /\ sendPc' = [sendPc EXCEPT ![m] = "accepted"]
    /\ UNCHANGED <<queue, chClosed, isClosed, closeMu, recvPc, answer, closePc,
                   doneFired, delivered>>

\* ch.ch <- value on a closed channel panics; the deferred recover turns the
\* panic into ok = false.
SendPanics(m) ==
    /\ sendPc[m] = "checked"
    /\ chClosed
    /\ sendPc' = [sendPc EXCEPT ![m] = "refused"]
    /\ UNCHANGED <<queue, chClosed, isClosed, closeMu, recvPc, answer, closePc,
                   doneFired, delivered>>

-----------------------------------------------------------------------------
ReceiveCall(r) ==
    /\ recvPc[r] = "idle"
    /\ recvPc' = [recvPc EXCEPT ![r] = "waiting"]
    /\ answer' = [answer EXCEPT ![r] = "none"]
    /\ UNCHANGED <<queue, chClosed, isClosed, closeMu, sendPc, closePc,
                   doneFired, delivered>>

Return(r, a) ==
    /\ recvPc[r] = "waiting"
    /\ recvPc' = [recvPc EXCEPT ![r] = "idle"]
    /\ answer' = [answer EXCEPT ![r] = a]

\* res, ok := <-ch with ok: the head leaves, and the first parked sender's
\* value moves into the buffer (or straight to this receiver when Cap = 0).
ReceiveValue(r) ==
    /\ queue # <<>>
    /\ Return(r, "value")
    /\ queue' = Tail(queue)
    /\ delivered' = Append(delivered, Head(queue))
    /\ sendPc' = IF Len(queue) > Cap
                 THEN [sendPc EXCEPT ![queue[Cap + 1]] = "accepted"]
                 ELSE sendPc
    /\ UNCHANGED <<chClosed, isClosed, closeMu, closePc, doneFired>>

\* res, ok := <-ch with !ok.
ReceiveClosed(r) ==
    /\ queue = <<>>
    /\ chClosed
    /\ Return(r, "closed")
    /\ UNCHANGED <<queue, chClosed, isClosed, closeMu, sendPc, closePc,
                   doneFired, delivered>>

\* case <-done; the select chooses freely when a value is ready as well.
ReceiveDone(r) ==
    /\ r \in Cancellable
    /\ doneFired
    /\ Return(r, "done")
    /\ UNCHANGED <<queue, chClosed, isClosed, closeMu, sendPc, closePc,
                   doneFired, delivered>>

\* The caller of the cancellable receivers closes their done channel.
FireDone ==
    /\ ~doneFired
    /\ doneFired' = TRUE
    /\ UNCHANGED <<queue, chClosed, isClosed, closeMu, sendPc, recvPc, answer,
                   closePc, delivered>>

-----------------------------------------------------------------------------
\* Close finds the flag set: the deferred Unlock is all that is left.
CloseAgain(c) ==
    /\ closePc[c] = "idle"
    /\ IsClosedReturns(TRUE)
    /\ closePc' = [closePc EXCEPT ![c] = "returned"]
    /\ UNCHANGED <<queue, chClosed, isClosed, closeMu, sendPc, recvPc, answer,
                   doneFired, delivered>>

\* Mutant of CloseFlag: Close without its early return.
CloseFlagAlways(c) ==
    /\ closePc[c] = "idle"
    /\ closeMu = Nobody
    /\ closeMu' = c
    /\ isClosed' = TRUE
    /\ closePc' = [closePc EXCEPT ![c] = "closing"]
    /\ UNCHANGED <<queue, chClosed, sendPc, recvPc, answer, doneFired, delivered>>

\* Close takes the mutex and sets the flag.
CloseFlag(c) ==
    /\ closePc[c] = "idle"
    /\ IsClosedReturns(FALSE)
    /\ closeMu' = c
    /\ isClosed' = TRUE
    /\ closePc' = [closePc EXCEPT ![c] = "closing"]
    /\ UNCHANGED <<queue, chClosed, sendPc, recvPc, answer, doneFired, delivered>>

\* Mutant of CloseChan: drops what is buffered.
CloseChanDrops(c) ==
    /\ closePc[c] = "closing"
    /\ chClosed' = TRUE
    /\ closeMu' = Nobody
    /\ closePc' = [closePc EXCEPT ![c] = "returned"]
    /\ queue' = <<>>
    /\ sendPc' = [m \in Msgs |-> IF sendPc[m] = "parked" THEN "refused"
                                                         ELSE sendPc[m]]
    /\ UNCHANGED <<isClosed, recvPc, answer, doneFired, delivered>>

\* Mutant of CloseChan: parked senders are not woken.
CloseChanQuietly(c) ==
    /\ closePc[c] = "closing"
    /\ chClosed' = TRUE
    /\ closeMu' = Nobody
    /\ closePc' = [closePc EXCEPT ![c] = "returned"]
    /\ queue' = SubSeq(queue, 1, Buffered)
    /\ UNCHANGED <<isClosed, sendPc, recvPc, answer, doneFired, delivered>>

\* close(ch), which wakes every parked sender with a panic (recovered in
\* Send), then the deferred Unlock.
CloseChan(c) ==
    /\ closePc[c] = "closing"
    /\ chClosed' = TRUE
    /\ closeMu' = Nobody
    /\ closePc' = [closePc EXCEPT ![c] = "returned"]
    /\ queue' = SubSeq(queue, 1, Buffered)
    /\ sendPc' = [m \in Msgs |-> IF sendPc[m] = "parked" THEN "refused"
                                                         ELSE sendPc[m]]
    /\ UNCHANGED <<isClosed, recvPc, answer, doneFired, delivered>>

-----------------------------------------------------------------------------
SendStep(m)    == ProcSend(m) \/ SendCheck(m) \/ SendPut(m) \/ SendPanics(m)
ReceiveStep(r) == ReceiveValue(r) \/ ReceiveClosed(r) \/ ReceiveDone(r)
CloseStep(c)   == CloseAgain(c) \/ CloseFlag(c) \/ CloseChan(c)

Next ==
    \/ \E m \in Msgs : SendStep(m)
    \/ \E r \in Receivers : ReceiveCall(r) \/ ReceiveStep(r)
    \/ \E c \in Closers : CloseStep(c)
    \/ FireDone

Spec == Init /\ [][Next]_vars

\* The Go scheduler runs every runnable goroutine: a call that has begun and
\* can take its next step eventually does.  Nothing makes a caller call, so
\* an idle Send, Receive or Close need never begin.
Fairness ==
    /\ \A m \in Msgs : WF_vars(sendPc[m] # "idle" /\ SendStep(m))
    /\ \A r \in Receivers : WF_vars(ReceiveStep(r))
    /\ \A c \in Closers : WF_vars(CloseChan(c))

FairSpec == Spec /\ Fairness

-----------------------------------------------------------------------------
Elements(s) == {s[i] : i \in 1..Len(s)}
Distinct(s) == \A i, j \in 1..Len(s) : s[i] = s[j] => i = j

\* Every variable has its type.
TypeOK ==
    /\ queue \in Seq(Msgs)
    /\ chClosed \in BOOLEAN
    /\ isClosed \in BOOLEAN
    /\ closeMu \in Closers \cup {Nobody}
    /\ sendPc \in [Msgs -> SendStates]
    /\ recvPc \in [Receivers -> {"idle", "waiting"}]
    /\ answer \in [Receivers -> Answers]
    /\ closePc \in [Closers -> CloseStates]
    /\ doneFired \in BOOLEAN
    /\ delivered \in Seq(Msgs)

\* close(ch) runs at most once, whatever Close calls race: a second run
\* would panic out of Close.  (channel.go:33, README "Channel close is
\* idempotent and safe under concurrent callers".)
CloseRunsOnce == \A c \in Closers : closePc[c] = "closing" => ~chClosed

\* The verdict of Send is the fate of its value: true exactly when the value
\* has been received or sits in the buffer where a receiver will find it, and
\* false only when no receiver ever sees it - even when Close overtakes the
\* Send between its check and its put, or while it is parked.
VerdictMatchesFate ==
    \A m \in Msgs :
        (sendPc[m] = "accepted") <=>
            (\/ m \in Elements(delivered)
             \/ \E i \in 1..Buffered : queue[i] = m)

\* No value is received twice, or received and still queued.
NoDuplicates ==
    /\ Distinct(delivered)
    /\ Distinct(queue)
    /\ Elements(delivered) \cap Elements(queue) = {}

\* A Receive that answered "closed" told the truth: nothing is queued then,
\* or ever after, so no taker that stops at nil leaves a value behind.
ClosedMeansDrained ==
    (\E r \in Receivers : answer[r] = "closed") => queue = <<>>

\* Once close(ch) has run, no Send is accepted any more and nobody parks.
\* (README "sends after close return false".)
CloseIsFinal ==
    [][chClosed => \A m \in Msgs :
          sendPc'[m] \in {"accepted", "parked"} => sendPc[m] = "accepted"]_vars

\* A Send is parked for one reason only: the channel is open, its buffer is full and
\* the value waits behind it, where the next Receives find it.  And closeMu is held
\* by nobody but a Close that is about to close the channel and give it back.
ParkedForAReason ==
    /\ \A m \in Msgs : sendPc[m] = "parked" =>
         /\ ~chClosed /\ Buffered = Cap
         /\ \E i \in (Cap + 1)..Len(queue) : queue[i] = m
    /\ closeMu # Nobody => closePc[closeMu] = "closing" /\ ~chClosed

\* Close releases everyone: a Send in progress and a Receive that waits both
\* return once the channel is closed.
CloseReleases ==
    /\ \A m \in Msgs : (chClosed /\ sendPc[m] \in InFlight)
                          ~> sendPc[m] \in {"accepted", "refused"}
    /\ \A r \in Receivers : (chClosed /\ recvPc[r] = "waiting")
                          ~> recvPc[r] = "idle"

\* The channel implements its abstract promise: the parked Sends and the
\* flag are invisible, only close(ch) closes.
Abstract == INSTANCE ChannelSpec WITH
    items <- SubSeq(queue, 1, Buffered),
    closed <- chClosed,
    outcome <- [m \in Msgs |-> IF sendPc[m] \in {"accepted", "refused"}
                               THEN sendPc[m] ELSE "pending"]

KeepsPromise == Abstract!ChannelPromise
=============================================================================
