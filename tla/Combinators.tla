---------------------------- MODULE Combinators ----------------------------
(***************************************************************************)
(* The combinators of clojure.core.async (core/runtime_kernel.go): mult,   *)
(* pub, merge, split, pipe, to-chan, onto-chan, map<, map>, filter<,       *)
(* filter>. Each is a goroutine (merge: one per input) that receives from  *)
(* a source, for to-chan and onto-chan a collection, chooses the channels  *)
(* a value goes to and sends it to one after the other, waiting for each.  *)
(* The channels of a mult or a pub come and go meanwhile.                  *)
(*                                                                         *)
(* A channel is what module Channel shows it to be: a send ends when the   *)
(* channel takes the value (room in the buffer, or a taker), which may be  *)
(* never, and fails once the channel is closed.                            *)
(***************************************************************************)
EXTENDS Naturals, SequencesExt

CONSTANTS
    Kinds,    \* the combinators considered, of DOMAIN Wiring
    Sinks,    \* channels that values go to
    Out, Alt, \* the ones that pipe, merge, split, map and filter write to
    Slow,     \* channels of which nobody need take anything
    Quitters, \* channels that somebody else may close
    N,        \* how many values a source has at most
    TopicOf,  \* topic or predicate of the i-th value: "yes" or "no"
    Changes   \* bound on the calls of tap, untap, sub, unsub, ...

ASSUME CombinatorsAssumption ==
    /\ {Out, Alt} \subseteq Sinks /\ Slow \subseteq Sinks /\ Quitters \subseteq Sinks
    /\ N \in Nat /\ Changes \in Nat
    /\ TopicOf \in [1..N -> {"yes", "no"}]

VARIABLES
    kind,     \* which combinator runs
    members,  \* members[t]: asyncMult.taps, asyncPub.subs[t], or the outputs
    pc,       \* pc[g]: where goroutine g is
    received, \* received[g]: how many receives of g have returned
    hand,     \* hand[g]: the value it holds, 0 for the nil of a closed source
    todo,     \* todo[g]: the channels it has still to send to, or to close
    closed,   \* the closed channels
    quit,     \* history: those that somebody else closed
    got,      \* got[c]: history, the values c took, as <<goroutine, number>>
    asked,    \* asked[t]: history, who asked for t and has not left since
    mark,     \* mark[t][c]: history, received[1] when c last joined or left t
    changes   \* calls of tap, untap, ... so far

flow == <<pc, received, hand, todo>>
table == <<members, asked, mark, changes>>
vars == <<kind, flow, table, closed, quit, got>>

Topic == {"yes", "no"}
Goroutine == 1..2

\* What is wired when a combinator is made.  The taps of a mult count as
\* subscribers of one topic.
Empty == [t \in Topic |-> <<>>]
ToChan == [t \in Topic |-> <<Out>>]
OntoChan == [t \in Topic |-> <<Out>>]
Pipe == [t \in Topic |-> <<Out>>]
Merge == [t \in Topic |-> <<Out>>]
Split == [t \in Topic |-> IF t = "yes" THEN <<Out>> ELSE <<Alt>>]
MapFrom == [t \in Topic |-> <<Out>>]
MapTo == [t \in Topic |-> <<Out>>]
FilterFrom == [t \in Topic |-> IF t = "yes" THEN <<Out>> ELSE <<>>]
FilterTo == [t \in Topic |-> IF t = "yes" THEN <<Out>> ELSE <<>>]

\* pipe_open, to_open, onto_open are the ones called with close? false.
Wiring == [mult |-> Empty, pub |-> Empty, merge |-> Merge, split |-> Split,
           pipe |-> Pipe, to |-> ToChan, onto |-> OntoChan,
           pipe_open |-> Pipe, to_open |-> ToChan, onto_open |-> OntoChan,
           map |-> MapFrom, filter |-> FilterFrom, mapto |-> MapTo, filterto |-> FilterTo]
StaysOpen == {"pipe_open", "to_open", "onto_open"}

ASSUME KindsAssumption == Kinds \subseteq DOMAIN Wiring

Workers == IF kind = "merge" THEN Goroutine ELSE {1}

Init ==
    /\ kind \in Kinds
    /\ members = Wiring[kind]
    /\ pc = [g \in Goroutine |-> "receiving"]
    /\ received = [g \in Goroutine |-> 0]
    /\ hand = [g \in Goroutine |-> 0]
    /\ todo = [g \in Goroutine |-> <<>>]
    /\ closed = {} /\ quit = {}
    /\ got = [c \in Sinks |-> <<>>]
    /\ asked = [t \in Topic |-> Range(members[t])]
    /\ mark = [t \in Topic |-> [c \in Sinks |-> 0]]
    /\ changes = 0

Goto(g, l) == pc' = [pc EXCEPT ![g] = l]
In(c, t) == c \in Range(members[t])
TopicOfValue(i) == IF kind = "mult" THEN "yes" ELSE TopicOf[i]

-----------------------------------------------------------------------------
\* asyncRecv(src): a value ...
Receive(g) ==
    /\ pc[g] = "receiving" /\ received[g] < N
    /\ received' = [received EXCEPT ![g] = @ + 1]
    /\ hand' = [hand EXCEPT ![g] = received[g] + 1]
    /\ Goto(g, "routing")
    /\ UNCHANGED <<kind, todo, table, closed, quit, got>>

\* ... or nil, when the source was closed.
ReceiveEnd(g) ==
    /\ pc[g] = "receiving"
    /\ received' = [received EXCEPT ![g] = @ + 1]
    /\ hand' = [hand EXCEPT ![g] = 0]
    /\ Goto(g, "routing")
    /\ UNCHANGED <<kind, todo, table, closed, quit, got>>

\* The channels are copied, for mult and pub with the mutex held, and the
\* value is sent to the copy.
Copied(g, s) ==
    /\ todo' = [todo EXCEPT ![g] = s]
    /\ Goto(g, IF s = <<>> THEN "receiving" ELSE "sending")
    /\ UNCHANGED <<kind, received, hand, table, closed, quit, got>>

\* mult copies the keys of a map, in any order.
RouteTaps(g) ==
    /\ kind = "mult" /\ pc[g] = "routing" /\ hand[g] # 0
    /\ \E s \in SetToSeqs(Range(members["yes"])) : Copied(g, s)

\* pub asks its topic function; the predicates of split and filter are one too.
RouteByTopic(g) ==
    /\ kind # "mult" /\ pc[g] = "routing" /\ hand[g] # 0
    /\ Copied(g, members[TopicOfValue(hand[g])])

\* asyncSend(t, v), which ends when t takes v, or when t is closed.
Sent(g) ==
    /\ todo' = [todo EXCEPT ![g] = Tail(@)]
    /\ Goto(g, IF Len(todo[g]) = 1 THEN "receiving" ELSE "sending")
    /\ UNCHANGED <<kind, received, hand, table, closed, quit>>

SendTaken(g) ==
    /\ pc[g] = "sending" /\ Head(todo[g]) \notin closed
    /\ got' = [got EXCEPT ![Head(todo[g])] = Append(@, <<g, hand[g]>>)]
    /\ Sent(g)

\* Mutant of SendRefused: a channel that its consumer closed is waited for.
SendWaits(g) ==
    /\ pc[g] = "sending" /\ Head(todo[g]) \in closed \ quit
    /\ UNCHANGED got
    /\ Sent(g)

SendRefused(g) ==
    /\ pc[g] = "sending" /\ Head(todo[g]) \in closed
    /\ UNCHANGED got
    /\ Sent(g)

-----------------------------------------------------------------------------
\* Mutant of Ending: only the first of the outputs, or topics.
EndingFirst ==
    CASE kind \in StaysOpen \cup {"merge"} -> {}
      [] OTHER -> Range(members["yes"])

\* At the end of the source the outputs are closed, but for the one of a pipe
\* asked not to, and the one of merge, which waits for all inputs.  mult closes
\* the taps it copied, pub its subscribers of now with the mutex held.
Ending ==
    CASE kind \in StaysOpen \cup {"merge"} -> {}
      [] OTHER -> UNION {Range(members[t]) : t \in Topic}

RouteEnd(g) ==
    /\ pc[g] = "routing" /\ hand[g] = 0
    /\ \E s \in SetToSeqs(Ending) :
         /\ todo' = [todo EXCEPT ![g] = s]
         /\ Goto(g, IF s = <<>> THEN "done" ELSE "closing")
    /\ UNCHANGED <<kind, received, hand, table, closed, quit, got>>

CloseNext(g) ==
    /\ pc[g] = "closing"
    /\ closed' = closed \cup {Head(todo[g])}
    /\ todo' = [todo EXCEPT ![g] = Tail(@)]
    /\ Goto(g, IF Len(todo[g]) = 1 THEN "done" ELSE "closing")
    /\ UNCHANGED <<kind, received, hand, table, quit, got>>

\* Mutant of MergeClose: one input is enough.
MergeCloseEarly ==
    /\ kind = "merge" /\ \E g \in Workers : pc[g] = "done"
    /\ Out \notin closed
    /\ closed' = closed \cup {Out}
    /\ UNCHANGED <<kind, flow, table, quit, got>>

\* merge: wg.Wait(); out.Close()
MergeClose ==
    /\ kind = "merge" /\ \A g \in Workers : pc[g] = "done"
    /\ Out \notin closed
    /\ closed' = closed \cup {Out}
    /\ UNCHANGED <<kind, flow, table, quit, got>>

-----------------------------------------------------------------------------
\* The calls that change the table, each under the mutex of the mult or pub.
MutexFree == ~(kind = "pub" /\ \E g \in Workers : pc[g] = "closing")

Changed(new) ==
    /\ MutexFree /\ changes < Changes
    /\ changes' = changes + 1
    /\ asked' = new
    /\ mark' = [t \in Topic |-> [c \in Sinks |->
                  IF (c \in new[t]) # (c \in asked[t]) THEN received[1] ELSE mark[t][c]]]
    /\ UNCHANGED <<kind, flow, closed, quit, got>>

\* Mutant of TapChannel: the table is a list.
TapAgain(c) ==
    /\ kind = "mult"
    /\ members' = [members EXCEPT !["yes"] = Append(@, c)]
    /\ Changed([asked EXCEPT !["yes"] = @ \cup {c}])

\* tap: the table is a map, a second tap changes nothing.
TapChannel(c) ==
    /\ kind = "mult" /\ ~In(c, "yes")
    /\ members' = [members EXCEPT !["yes"] = Append(@, c)]
    /\ Changed([asked EXCEPT !["yes"] = @ \cup {c}])

\* sub: the table holds lists, a channel subscribed twice is there twice.
Sub(c, t) ==
    /\ kind = "pub"
    /\ members' = [members EXCEPT ![t] = Append(@, c)]
    /\ Changed([asked EXCEPT ![t] = @ \cup {c}])

\* s without c, the rest in order.
Without(s, c) ==
    LET upTo[n \in 0..Len(s)] ==
          IF n = 0 THEN <<>>
          ELSE IF s[n] = c THEN upTo[n - 1]
          ELSE Append(upTo[n - 1], s[n])
    IN upTo[Len(s)]

Untap(c) ==
    /\ kind = "mult" /\ In(c, "yes")
    /\ members' = [members EXCEPT !["yes"] = Without(@, c)]
    /\ Changed([asked EXCEPT !["yes"] = @ \ {c}])

\* Mutant of Unsub: one of two subscriptions is left.
UnsubFirst(c, t) ==
    /\ kind = "pub" /\ In(c, t)
    /\ members' = [members EXCEPT ![t] = RemoveFirst(@, c)]
    /\ Changed([asked EXCEPT ![t] = @ \ {c}])

\* unsub keeps the other subscribers, in order.
Unsub(c, t) ==
    /\ kind = "pub" /\ In(c, t)
    /\ members' = [members EXCEPT ![t] = Without(@, c)]
    /\ Changed([asked EXCEPT ![t] = @ \ {c}])

UntapAll ==
    /\ kind = "mult"
    /\ members' = Empty
    /\ Changed([t \in Topic |-> {}])

\* unsub-all of the topics T: one, or all.
UnsubAll(T) ==
    /\ kind = "pub"
    /\ members' = [t \in Topic |-> IF t \in T THEN <<>> ELSE members[t]]
    /\ Changed([t \in Topic |-> IF t \in T THEN {} ELSE asked[t]])

\* A consumer closes its channel.
Quit(c) ==
    /\ c \notin closed
    /\ closed' = closed \cup {c} /\ quit' = quit \cup {c}
    /\ UNCHANGED <<kind, flow, table, got>>

-----------------------------------------------------------------------------
Step(g) ==
    \/ Receive(g) \/ ReceiveEnd(g) \/ RouteTaps(g) \/ RouteByTopic(g)
    \/ SendTaken(g) \/ SendRefused(g) \/ RouteEnd(g) \/ CloseNext(g)

Change ==
    \/ \E c \in Sinks : TapChannel(c) \/ Untap(c)
    \/ \E c \in Sinks, t \in Topic : Sub(c, t) \/ Unsub(c, t)
    \/ UntapAll
    \/ \E T \in {{"yes"}, {"no"}, Topic} : UnsubAll(T)

Next ==
    \/ \E g \in Workers : Step(g)
    \/ MergeClose
    \/ Change
    \/ \E c \in Quitters : Quit(c)

Spec == Init /\ [][Next]_vars

\* A source gives a value or closes, a channel that is not slow takes what it is
\* sent; nothing makes a slow one take, or anybody tap or quit.
Waiting(g) == pc[g] = "sending" /\ Head(todo[g]) \in Slow

FairSpec ==
    /\ Spec
    /\ \A g \in Goroutine :
         /\ WF_vars(g \in Workers /\ ~Waiting(g) /\ Step(g))
         /\ WF_vars(g \in Workers /\ SendRefused(g))
    /\ WF_vars(MergeClose)

-----------------------------------------------------------------------------
\* Every variable has its type, and no channel is twice in the map of a mult.
TypeOK ==
    /\ kind \in Kinds
    /\ members \in [Topic -> Seq(Sinks)]
    /\ kind = "mult" => IsInjective(members["yes"]) /\ members["no"] = <<>>
    /\ pc \in [Goroutine -> {"receiving", "routing", "sending", "closing", "done"}]
    /\ \A g \in Goroutine : received[g] \in 0..N + 1 /\ hand[g] \in 0..N
    /\ \A g \in Goroutine : /\ todo[g] \in Seq(Sinks)
                            /\ todo[g] = <<>> <=> pc[g] \notin {"sending", "closing"}
    /\ quit \subseteq closed /\ closed \subseteq Sinks
    /\ got \in [Sinks -> Seq(Goroutine \X (1..N))]
    /\ asked \in [Topic -> SUBSET Sinks]
    /\ mark \in [Topic -> [Sinks -> 0..N + 1]]
    /\ changes \in 0..Changes

\* A channel that is tapped or subscribed, or an output, gets every value its
\* source gave since, in order and (but for double subscriptions) once, however
\* slow others are and whoever else comes, goes or closes; only the one under
\* way may be missing.  Nor is it closed before, but by its consumer.
UnderWay(g, i, c) == hand[g] = i /\ (pc[g] = "routing" \/ c \in Range(todo[g]))

EachGetsItsStream ==
    \A c \in Sinks :
      /\ \A a, b \in DOMAIN got[c] :
           a < b /\ got[c][a][1] = got[c][b][1] =>
             /\ got[c][a][2] <= got[c][b][2]
             /\ kind # "pub" => got[c][a][2] # got[c][b][2]
      /\ \A t \in Topic, g \in Workers, i \in 1..N :
           /\ c \in asked[t] /\ c \notin quit /\ TopicOfValue(i) = t
           /\ mark[t][c] < i /\ i <= received[g] /\ (hand[g] = 0 => i < received[g])
           => <<g, i>> \in Range(got[c]) \/ UnderWay(g, i, c)

\* After untap or unsub returned, the channel hears of no value its source gives
\* later; the last one before may still come.
NothingAfterLeaving ==
    \A c \in Sinks, t \in Topic : c \notin asked[t] =>
      \A a \in DOMAIN got[c] :
        TopicOfValue(got[c][a][2]) = t => got[c][a][2] <= mark[t][c]

\* A channel nobody takes from is the only thing that stops a combinator: it does
\* wait for it for ever, but not for one that is closed.
OnlySlowOnesStopIt ==
    \A g \in Goroutine :
      \/ <>(g \notin Workers \/ pc[g] = "done")
      \/ <>[](Waiting(g) /\ Head(todo[g]) \notin closed)

\* The end of the source passes nobody by: from the moment the taps, subscribers or
\* outputs are collected to be closed, each that is there and did not come or come
\* back after that is closed or in the list of those still to be closed.
NoneMissesTheEnd ==
    kind \notin StaysOpen \cup {"merge"} /\ pc[1] \in {"closing", "done"} =>
      \A t \in Topic : \A c \in asked[t] :
        mark[t][c] < received[1] => c \in closed \/ c \in Range(todo[1])

\* The end of the source closes the outputs, and all taps and subscribers there
\* were when it came.
EndIsHeard ==
    \A c \in Sinks :
      (/\ kind \notin StaysOpen
       /\ \A g \in Workers : pc[g] = "done"
       /\ \E t \in Topic : c \in asked[t] /\ mark[t][c] < received[1])
      ~> c \in closed
=============================================================================
