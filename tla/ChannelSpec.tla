----------------------------- MODULE ChannelSpec -----------------------------
(***************************************************************************)
(* What a channel promises its users, free of locks, parked senders and    *)
(* panics.  A Send has exactly one outcome.  An accepted value waits in    *)
(* items, in the order of acceptance, until one Receive takes it.  Close   *)
(* is final: from then on nothing is accepted, what was accepted can still *)
(* be taken, and a Receive answers "closed" only once nothing is left.     *)
(***************************************************************************)
EXTENDS Naturals, Sequences

CONSTANTS Msgs, Receivers

VARIABLES items, delivered, closed, outcome, answer

specVars == <<items, delivered, closed, outcome, answer>>

SpecInit ==
    /\ items = <<>>
    /\ delivered = <<>>
    /\ closed = FALSE
    /\ outcome = [m \in Msgs |-> "pending"]
    /\ answer = [r \in Receivers |-> "none"]

Accept(m) ==
    /\ ~closed
    /\ outcome[m] = "pending"
    /\ outcome' = [outcome EXCEPT ![m] = "accepted"]
    /\ items' = Append(items, m)
    /\ UNCHANGED <<delivered, closed, answer>>

Refuse(m) ==
    /\ closed
    /\ outcome[m] = "pending"
    /\ outcome' = [outcome EXCEPT ![m] = "refused"]
    /\ UNCHANGED <<items, delivered, closed, answer>>

Deliver(r) ==
    /\ items # <<>>
    /\ items' = Tail(items)
    /\ delivered' = Append(delivered, Head(items))
    /\ answer' = [answer EXCEPT ![r] = "value"]
    /\ UNCHANGED <<closed, outcome>>

\* A Receive that at the same instant makes room for a waiting Send, or
\* meets it directly when the channel holds nothing.
Exchange(r, m) ==
    LET all == Append(items, m) IN
    /\ ~closed
    /\ outcome[m] = "pending"
    /\ outcome' = [outcome EXCEPT ![m] = "accepted"]
    /\ items' = Tail(all)
    /\ delivered' = Append(delivered, Head(all))
    /\ answer' = [answer EXCEPT ![r] = "value"]
    /\ UNCHANGED closed

\* Close turns away the Sends that are waiting when it happens.
CloseOnce ==
    /\ ~closed
    /\ closed' = TRUE
    /\ \E waiting \in SUBSET {m \in Msgs : outcome[m] = "pending"} :
         outcome' = [m \in Msgs |-> IF m \in waiting THEN "refused"
                                                     ELSE outcome[m]]
    /\ UNCHANGED <<items, delivered, answer>>

AnswerClosed(r) ==
    /\ closed
    /\ items = <<>>
    /\ answer' = [answer EXCEPT ![r] = "closed"]
    /\ UNCHANGED <<items, delivered, closed, outcome>>

\* The caller's done channel fired, or the caller asks again.
AnswerOther(r) ==
    /\ answer' \in {[answer EXCEPT ![r] = a] : a \in {"none", "done"}}
    /\ UNCHANGED <<items, delivered, closed, outcome>>

SpecNext ==
    \/ \E m \in Msgs : Accept(m) \/ Refuse(m)
    \/ \E r \in Receivers : Deliver(r) \/ AnswerClosed(r) \/ AnswerOther(r)
    \/ \E r \in Receivers, m \in Msgs : Exchange(r, m)
    \/ CloseOnce

ChannelPromise == SpecInit /\ [][SpecNext]_specVars
=============================================================================
