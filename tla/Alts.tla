-------------------------------- MODULE Alts --------------------------------
(***************************************************************************)
(* procAlts, the procedure behind alts!, among other alts! calls, plain    *)
(* puts and takes (>! and <!, which wait on a single port) and closes.     *)
(*                                                                         *)
(* An alts! call first walks its ports and asks IsClosed of every put port *)
(* (returning [false ch] at once when it is closed); only then does it run *)
(* reflect.Select over all of them.  reflect.Select is Go's: it commits    *)
(* one ready case, parks the caller on all cases when none is ready, and   *)
(* panics when it picks a put on a closed channel.                         *)
(*                                                                         *)
(* Close is one step here: Channel shows that only close(ch) is visible.   *)
(*                                                                         *)
(* What is put is a value, or the error that ended a go block; a call that *)
(* takes an error throws it.                                               *)
(***************************************************************************)
EXTENDS Naturals, Sequences, FiniteSets

CONSTANTS
    Chans,    \* the channels
    Cap,      \* Cap[c], the capacity of c
    Calls,    \* the calls; call k puts the value k
    Menu,     \* operations a call may be: [ports, default, plain, error]
    Timeouts, \* the channels made by (timeout ms)
    None      \* no operation, no channel, no value

Port == [ch : Chans, put : BOOLEAN]

ASSUME AltsAssumption ==
    /\ Cap \in [Chans -> Nat]
    /\ Timeouts \subseteq Chans
    /\ Menu \subseteq [ports : Seq(Port), default : BOOLEAN, plain : BOOLEAN, error : BOOLEAN]
    /\ \A o \in Menu : /\ o.ports # <<>>
                       /\ o.plain => Len(o.ports) = 1 /\ ~o.default
                       /\ o.error => o.plain
    /\ None \notin Calls \cup Chans

VARIABLES
    buf,      \* buf[c]: the values buffered in c
    closed,   \* closed[c]: close(c) has run
    op,       \* op[k]: what call k does
    pc,       \* "idle", "checking", "selecting", "parked", "returned"
    pos,      \* the port a checking call looks at next
    result    \* what the call returned

vars == <<buf, closed, op, pc, pos, result>>

Pending == [kind |-> "pending", ch |-> None, val |-> None]
Kinds == {"pending", "put", "refused", "take", "raise", "nil", "default", "panic"}
Outcome(kind, c, v) == [kind |-> kind, ch |-> c, val |-> v]

Init ==
    /\ buf = [c \in Chans |-> <<>>]
    /\ closed = [c \in Chans |-> FALSE]
    /\ op = [k \in Calls |-> None]
    /\ pc = [k \in Calls |-> "idle"]
    /\ pos = [k \in Calls |-> 1]
    /\ result = [k \in Calls |-> Pending]

PortsOf(k) == {op[k].ports[i] : i \in DOMAIN op[k].ports}
Puts(k)  == {p.ch : p \in {q \in PortsOf(k) : q.put}}
Takes(k) == {p.ch : p \in {q \in PortsOf(k) : ~q.put}}

\* Calls parked on a put to c, or on a take from c.
Putters(c) == {k \in Calls : pc[k] = "parked" /\ c \in Puts(k)}
Takers(c)  == {k \in Calls : pc[k] = "parked" /\ c \in Takes(k)}

\* A case of k that reflect.Select would find ready.  (A call with a put and
\* a take on the same channel does not meet itself.)
SomeReady(k) ==
    \/ \E c \in Puts(k) :
         closed[c] \/ Len(buf[c]) < Cap[c] \/ Takers(c) \ {k} # {}
    \/ \E c \in Takes(k) :
         closed[c] \/ buf[c] # <<>> \/ Putters(c) \ {k} # {}

\* What a call gets that takes the value of call k from c.
Delivery(c, k) == Outcome(IF op[k].error THEN "raise" ELSE "take", c, k)

\* The calls in the domain of f return, each with its outcome.
ReturnAll(f) ==
    /\ pc' = [k \in Calls |-> IF k \in DOMAIN f THEN "returned" ELSE pc[k]]
    /\ result' = [k \in Calls |-> IF k \in DOMAIN f THEN f[k] ELSE result[k]]

-----------------------------------------------------------------------------
\* A call of alts!, >! or <! begins.
Begin(k) ==
    /\ pc[k] = "idle"
    /\ \E o \in Menu : op' = [op EXCEPT ![k] = o]
    /\ pc' = [pc EXCEPT ![k] = "checking"]
    /\ UNCHANGED <<buf, closed, pos, result>>

\* Mutant of CheckPort: only the first port is looked at.
CheckFirstPort(k) ==
    LET port == op[k].ports[1] IN
    /\ pc[k] = "checking"
    /\ \/ /\ port.put /\ closed[port.ch]
          /\ ReturnAll([j \in {k} |-> Outcome("refused", port.ch, None)])
       \/ /\ ~(port.put /\ closed[port.ch])
          /\ pc' = [pc EXCEPT ![k] = "selecting"]
          /\ UNCHANGED result
    /\ UNCHANGED <<buf, closed, op, pos>>

\* One turn of the loop over the ports.  (A plain put asks IsClosed too.)
CheckPort(k) ==
    LET port == op[k].ports[pos[k]] IN
    /\ pc[k] = "checking"
    /\ \/ /\ port.put /\ closed[port.ch]
          /\ ReturnAll([j \in {k} |-> Outcome("refused", port.ch, None)])
          /\ UNCHANGED pos
       \/ /\ ~(port.put /\ closed[port.ch])
          /\ pos' = [pos EXCEPT ![k] = @ + 1]
          /\ pc' = [pc EXCEPT ![k] = IF pos[k] = Len(op[k].ports)
                                     THEN "selecting" ELSE "checking"]
          /\ UNCHANGED result
    /\ UNCHANGED <<buf, closed, op>>

-----------------------------------------------------------------------------
\* reflect.Select picks one ready case and procAlts reports it.

\* Mutant of PutOnClosed: the recovered panic is reported as a put.
PutOnClosedTrue(k, c) == Outcome("put", c, None)

\* What becomes of a call that puts on a closed channel: Channel.Send
\* recovers from the panic, procAlts does not.
PutOnClosed(k, c) ==
    Outcome(IF op[k].plain THEN "refused" ELSE "panic", c, None)

SelectPutClosed(k, c) ==
    /\ pc[k] = "selecting"
    /\ c \in Puts(k)
    /\ closed[c]
    /\ ReturnAll([j \in {k} |-> PutOnClosed(k, c)])
    /\ UNCHANGED <<buf, closed, op, pos>>

\* A put into the buffer of an open channel on which nobody waits.
SelectPutBuffer(k, c) ==
    /\ pc[k] = "selecting"
    /\ c \in Puts(k)
    /\ ~closed[c]
    /\ Takers(c) = {}
    /\ Len(buf[c]) < Cap[c]
    /\ buf' = [buf EXCEPT ![c] = Append(@, k)]
    /\ ReturnAll([j \in {k} |-> Outcome("put", c, None)])
    /\ UNCHANGED <<closed, op, pos>>

\* A put handed to a parked taker, which wakes with it.
SelectPutHandOver(k, c) ==
    /\ pc[k] = "selecting"
    /\ c \in Puts(k)
    /\ ~closed[c]
    /\ \E t \in Takers(c) :
         ReturnAll([j \in {k, t} |-> IF j = k THEN Outcome("put", c, None)
                                             ELSE Delivery(c, k)])
    /\ UNCHANGED <<buf, closed, op, pos>>

\* Mutant of SelectTakeBuffer: the head of the buffer stays where it is.
SelectTakePeek(k, c) ==
    /\ pc[k] = "selecting"
    /\ c \in Takes(k)
    /\ buf[c] # <<>>
    /\ \E p \in Putters(c) :
         /\ buf' = [buf EXCEPT ![c] = Append(@, p)]
         /\ ReturnAll([j \in {k, p} |->
              IF j = k THEN Delivery(c, Head(buf[c]))
                       ELSE Outcome("put", c, None)])
    /\ UNCHANGED <<closed, op, pos>>

\* A take from the buffer; a parked put moves up into the freed place.
SelectTakeBuffer(k, c) ==
    /\ pc[k] = "selecting"
    /\ c \in Takes(k)
    /\ buf[c] # <<>>
    /\ \/ /\ Putters(c) = {}
          /\ buf' = [buf EXCEPT ![c] = Tail(@)]
          /\ ReturnAll([j \in {k} |-> Delivery(c, Head(buf[c]))])
       \/ \E p \in Putters(c) :
            /\ buf' = [buf EXCEPT ![c] = Append(Tail(@), p)]
            /\ ReturnAll([j \in {k, p} |->
                 IF j = k THEN Delivery(c, Head(buf[c]))
                          ELSE Outcome("put", c, None)])
    /\ UNCHANGED <<closed, op, pos>>

\* A take straight from a parked put.
SelectTakeDirect(k, c) ==
    /\ pc[k] = "selecting"
    /\ c \in Takes(k)
    /\ buf[c] = <<>>
    /\ \E p \in Putters(c) :
         ReturnAll([j \in {k, p} |-> IF j = k THEN Delivery(c, p)
                                             ELSE Outcome("put", c, None)])
    /\ UNCHANGED <<buf, closed, op, pos>>

SelectTakeClosed(k, c) ==
    /\ pc[k] = "selecting"
    /\ c \in Takes(k)
    /\ closed[c]
    /\ buf[c] = <<>>
    /\ ReturnAll([j \in {k} |-> Outcome("nil", c, None)])
    /\ UNCHANGED <<buf, closed, op, pos>>

SelectDefault(k) ==
    /\ pc[k] = "selecting"
    /\ op[k].default
    /\ ~SomeReady(k)
    /\ ReturnAll([j \in {k} |-> Outcome("default", None, None)])
    /\ UNCHANGED <<buf, closed, op, pos>>

\* No case is ready: the call parks on all of its channels.
SelectPark(k) ==
    /\ pc[k] = "selecting"
    /\ ~op[k].default
    /\ ~SomeReady(k)
    /\ pc' = [pc EXCEPT ![k] = "parked"]
    /\ UNCHANGED <<buf, closed, op, pos, result>>

-----------------------------------------------------------------------------
\* Mutant of CloseChannel: forgets the parked takers.
CloseForgetsTakers(c) ==
    /\ ~closed[c]
    /\ closed' = [closed EXCEPT ![c] = TRUE]
    /\ ReturnAll([j \in Putters(c) |-> PutOnClosed(j, c)])
    /\ UNCHANGED <<buf, op, pos>>

\* Close, or the goroutine of a timeout channel after its sleep: every parked
\* taker gets nil, then every parked put panics.
CloseChannel(c) ==
    /\ ~closed[c]
    /\ closed' = [closed EXCEPT ![c] = TRUE]
    /\ ReturnAll([j \in Putters(c) \cup Takers(c) |->
         IF j \in Takers(c) THEN Outcome("nil", c, None) ELSE PutOnClosed(j, c)])
    /\ UNCHANGED <<buf, op, pos>>

-----------------------------------------------------------------------------
CallStep(k) ==
    \/ CheckPort(k)
    \/ \E c \in Chans : \/ SelectPutClosed(k, c)
                        \/ SelectPutBuffer(k, c)
                        \/ SelectPutHandOver(k, c)
                        \/ SelectTakeBuffer(k, c)
                        \/ SelectTakeDirect(k, c)
                        \/ SelectTakeClosed(k, c)
    \/ SelectDefault(k)
    \/ SelectPark(k)

Next ==
    \/ \E k \in Calls : Begin(k) \/ CallStep(k)
    \/ \E c \in Chans : CloseChannel(c)

Spec == Init /\ [][Next]_vars

\* A running goroutine keeps running, and the goroutine of a timeout channel
\* wakes from time.Sleep.  Nobody need close any other channel.
FairSpec ==
    /\ Spec
    /\ \A k \in Calls : WF_vars(CallStep(k))
    /\ \A c \in Timeouts : WF_vars(CloseChannel(c))

-----------------------------------------------------------------------------
\* Every variable has its type.
TypeOK ==
    /\ \A c \in Chans : /\ buf[c] \in Seq(Calls)
                        /\ Len(buf[c]) <= Cap[c]
    /\ closed \in [Chans -> BOOLEAN]
    /\ op \in [Calls -> Menu \cup {None}]
    /\ pc \in [Calls -> {"idle", "checking", "selecting", "parked", "returned"}]
    /\ pos \in [Calls -> Nat \ {0}]
    /\ \A k \in Calls : /\ result[k].kind \in Kinds
                        /\ result[k].ch \in Chans \cup {None}

InBuffer(k, c) == \E i \in DOMAIN buf[c] : buf[c][i] = k
TakenFrom(k, c) ==
    {j \in Calls : result[j].kind \in {"take", "raise"} /\ result[j].ch = c /\ result[j].val = k}

\* A call commits one port, and says which: the value of a call is on channel
\* c, once - in its buffer or in the hands of one taker - exactly when the call
\* returned [true c]; a call that returned through another port, the default,
\* false or a panic has left no value anywhere.  And a take answers nil only on
\* a closed channel with nothing left in it.
OneCommit ==
    \A k \in Calls, c \in Chans :
        LET copies == Cardinality({i \in DOMAIN buf[c] : buf[c][i] = k})
                      + Cardinality(TakenFrom(k, c))
        IN /\ copies = IF result[k].kind = "put" /\ result[k].ch = c THEN 1 ELSE 0
           /\ result[k].kind = "nil" /\ result[k].ch = c => closed[c] /\ buf[c] = <<>>

\* A call with a put on a closed channel still ahead of it in the loop answers
\* [false ch] for a closed channel: whatever its other ports offer and whoever puts,
\* takes or closes meanwhile, it commits none of them, does not park or panic.
Doomed(k) ==
    /\ pc[k] = "checking"
    /\ \E i \in pos[k]..Len(op[k].ports) : op[k].ports[i].put /\ closed[op[k].ports[i].ch]

ClosedIsRefused ==
    [][\A k \in Calls : Doomed(k) =>
         \/ Doomed(k)'
         \/ pc'[k] = "returned" /\ \E c \in Puts(k) : closed[c] /\ result'[k] = Outcome("refused", c, None)
      ]_vars

\* An alts! that also takes from a timeout channel returns.
TimeoutReturns ==
    \A k \in Calls :
        (pc[k] # "idle" /\ \E c \in Timeouts : c \in Takes(k))
            ~> pc[k] = "returned"

\* "Sends after close report failure instead of panicking", the documents say
\* (docs/WEB_RUNTIME_AND_NAMESPACES.md:203).
PutsNeverPanic == \A k \in Calls : result[k].kind # "panic"
=============================================================================
