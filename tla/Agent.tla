------------------------------- MODULE Agent -------------------------------
(***************************************************************************)
(* Agents (core/runtime/agent.go): each has a goroutine that takes actions *)
(* from a bounded queue and runs them one at a time with the agent's mutex *)
(* held.  send, await, deref and agent-error are called by clients and by  *)
(* the actions themselves, on their own agent or on others.                *)
(***************************************************************************)
EXTENDS Naturals, Sequences, SequencesExt

CONSTANTS
    Clients, \* goroutines that use the agents
    Agents,  \* the agents
    Cap,     \* the capacity of an agent's queue (256 in the code)
    Menu,    \* the calls clients make
    Budget,  \* how many calls a client makes
    None     \* no call, no job, no error

\* A call names the agent it is for; a send carries an action, which succeeds,
\* throws an Error, panics with anything else, or makes a call of its own and
\* then succeeds.
Simple == [does : {"succeed", "throw", "panic"}]
InnerCall == [kind : {"send"}, to : Agents, act : Simple]
               \cup [kind : {"await", "deref", "error"}, to : Agents]
CallAct == [does : {"call"}, call : InnerCall]
Call == InnerCall \cup [kind : {"send"}, to : Agents, act : CallAct]

\* An await that has put its sentinel in the queue; what a caller put in a queue.
Awaiting == [kind : {"awaiting"}, to : Agents]
Sentinel == [does |-> "signal"]
Jobs == [by : Clients \cup Agents, n : Nat, does : Simple \cup CallAct \cup {Sentinel}]

ASSUME AgentAssumption ==
    /\ Clients \cap Agents = {}
    /\ Cap \in Nat \ {0}
    /\ Budget \in Nat
    /\ Menu \subseteq Call
    /\ None \notin Call \cup Awaiting \cup Jobs

Callers == Clients \cup Agents

VARIABLES
    queue,   \* queue[a]: the channel of jobs of agent a
    stage,   \* stage[a]: "idle", "taken", "locked", "calling", "called"
    job,     \* job[a]: the job the goroutine of a has in hand
    value,   \* value[a]: the jobs that made the value what it is
    err,     \* err[a]: the job whose Error agent-error returns
    call,    \* call[c]: the call in progress of caller c
    made,    \* made[c]: how many calls c began
    awaited, \* awaited[c]: the done channel of the await of c is closed
    sent,    \* sent[a]: history, every job put in the queue of a
    mark     \* mark[c]: history, the jobs put before the await of c

vars == <<queue, stage, job, value, err, call, made, awaited, sent, mark>>

Init ==
    /\ queue = [a \in Agents |-> <<>>]
    /\ stage = [a \in Agents |-> "idle"]
    /\ job = [a \in Agents |-> None]
    /\ value = [a \in Agents |-> <<>>]
    /\ err = [a \in Agents |-> None]
    /\ call = [c \in Callers |-> None]
    /\ made = [c \in Callers |-> 0]
    /\ awaited = [c \in Callers |-> FALSE]
    /\ sent = [a \in Agents |-> <<>>]
    /\ mark = [c \in Callers |-> 0]

\* The mutex of a is held: an action of a is running.
Locked(a) == stage[a] \in {"locked", "calling", "called"}

\* Jobs: what the n-th call of a caller put in a queue.  The sentinel of an
\* await closes its done channel and keeps the value.
Job(c, does) == [by |-> c, n |-> made[c], does |-> does]

-----------------------------------------------------------------------------
\* The calls.
BeginCall(c, o) ==
    /\ call' = [call EXCEPT ![c] = o]
    /\ made' = [made EXCEPT ![c] = @ + 1]

ClientCalls(c) ==
    /\ call[c] = None
    /\ made[c] < Budget
    /\ \E o \in Menu : BeginCall(c, o)
    /\ UNCHANGED <<queue, stage, job, value, err, awaited, sent, mark>>

Calling(c, kind) == call[c] # None /\ call[c].kind = kind

\* A call ends; if an action made it, the action goes on.
Return(c) ==
    /\ call' = [call EXCEPT ![c] = None]
    /\ stage' = [a \in Agents |-> IF a = c THEN "called" ELSE stage[a]]

Enqueue(a, j) ==
    /\ queue' = [queue EXCEPT ![a] = Append(@, j)]
    /\ sent' = [sent EXCEPT ![a] = Append(@, j)]

\* Send waits for room in the queue.
Send(c) ==
    LET a == call[c].to IN
    /\ Calling(c, "send")
    /\ Len(queue[a]) < Cap
    /\ Enqueue(a, Job(c, call[c].act))
    /\ Return(c)
    /\ UNCHANGED <<job, value, err, made, awaited, mark>>

\* Mutant of AwaitSend: the caller does not wait for its sentinel to run.
AwaitSkips(c) ==
    LET a == call[c].to IN
    /\ Calling(c, "await")
    /\ Len(queue[a]) < Cap
    /\ Enqueue(a, Job(c, Sentinel))
    /\ mark' = [mark EXCEPT ![c] = Len(sent[a])]
    /\ call' = [call EXCEPT ![c] = [kind |-> "awaiting", to |-> a]]
    /\ awaited' = [awaited EXCEPT ![c] = TRUE]
    /\ UNCHANGED <<stage, job, value, err, made>>

\* Await puts a sentinel in the queue, waiting for room ...
AwaitSend(c) ==
    LET a == call[c].to IN
    /\ Calling(c, "await")
    /\ Len(queue[a]) < Cap
    /\ Enqueue(a, Job(c, Sentinel))
    /\ mark' = [mark EXCEPT ![c] = Len(sent[a])]
    /\ call' = [call EXCEPT ![c] = [kind |-> "awaiting", to |-> a]]
    /\ UNCHANGED <<stage, job, value, err, made, awaited>>

\* ... and then for the sentinel to run.
AwaitReturn(c) ==
    /\ Calling(c, "awaiting")
    /\ awaited[c]
    /\ awaited' = [awaited EXCEPT ![c] = FALSE]
    /\ Return(c)
    /\ UNCHANGED <<queue, job, value, err, made, sent, mark>>

\* Deref and Error wait for the mutex.
Read(c) ==
    /\ Calling(c, "deref") \/ Calling(c, "error")
    /\ ~Locked(call[c].to)
    /\ Return(c)
    /\ UNCHANGED <<queue, job, value, err, made, awaited, sent, mark>>

-----------------------------------------------------------------------------
\* processLoop.
Take(a) ==
    /\ stage[a] = "idle"
    /\ queue[a] # <<>>
    /\ job' = [job EXCEPT ![a] = Head(queue[a])]
    /\ queue' = [queue EXCEPT ![a] = Tail(@)]
    /\ stage' = [stage EXCEPT ![a] = "taken"]
    /\ UNCHANGED <<value, err, call, made, awaited, sent, mark>>

Lock(a) ==
    /\ stage[a] = "taken"
    /\ stage' = [stage EXCEPT ![a] = "locked"]
    /\ UNCHANGED <<queue, job, value, err, call, made, awaited, sent, mark>>

\* The action makes a call of its own, with the mutex held.
ActionCalls(a) ==
    /\ stage[a] = "locked"
    /\ job[a].does.does = "call"
    /\ BeginCall(a, job[a].does.call)
    /\ stage' = [stage EXCEPT ![a] = "calling"]
    /\ UNCHANGED <<queue, job, value, err, awaited, sent, mark>>

\* The action is over and the mutex is released.
Release(a) ==
    /\ stage' = [stage EXCEPT ![a] = "idle"]
    /\ job' = [job EXCEPT ![a] = None]
    /\ UNCHANGED <<queue, call, made, sent, mark>>

Runs(a, does) == stage[a] = "locked" /\ job[a].does.does = does

Succeed(a) ==
    /\ Runs(a, "succeed") \/ stage[a] = "called"
    /\ value' = [value EXCEPT ![a] = Append(@, job[a])]
    /\ Release(a)
    /\ UNCHANGED <<err, awaited>>

\* Mutant of Throw: the value becomes what the failed action left.
ThrowKeeps(a) ==
    /\ Runs(a, "throw")
    /\ err' = [err EXCEPT ![a] = job[a]]
    /\ value' = [value EXCEPT ![a] = Append(@, job[a])]
    /\ Release(a)
    /\ UNCHANGED awaited

\* Mutant of Throw: the goroutine dies with the mutex held.
ThrowStops(a) ==
    /\ Runs(a, "throw")
    /\ err' = [err EXCEPT ![a] = job[a]]
    /\ stage' = [stage EXCEPT ![a] = "dead"]
    /\ UNCHANGED <<queue, job, value, call, made, awaited, sent, mark>>

\* An Error is recovered and kept for agent-error.
Throw(a) ==
    /\ Runs(a, "throw")
    /\ err' = [err EXCEPT ![a] = job[a]]
    /\ Release(a)
    /\ UNCHANGED <<value, awaited>>

\* Any other panic is recovered and forgotten.
Panic(a) ==
    /\ Runs(a, "panic")
    /\ Release(a)
    /\ UNCHANGED <<value, err, awaited>>

\* The sentinel of an await.
Signal(a) ==
    /\ Runs(a, "signal")
    /\ awaited' = [awaited EXCEPT ![job[a].by] = TRUE]
    /\ Release(a)
    /\ UNCHANGED <<value, err>>

-----------------------------------------------------------------------------
CallStep(c) == Send(c) \/ AwaitSend(c) \/ AwaitReturn(c) \/ Read(c)

LoopStep(a) ==
    \/ Take(a) \/ Lock(a) \/ ActionCalls(a)
    \/ Succeed(a) \/ Throw(a) \/ Panic(a) \/ Signal(a)

Next ==
    \/ \E c \in Clients : ClientCalls(c)
    \/ \E c \in Callers : CallStep(c)
    \/ \E a \in Agents : LoopStep(a)

Spec == Init /\ [][Next]_vars

\* A goroutine that can run does; a channel with room serves a sender that
\* waits for it, and a free mutex is granted.
FairSpec ==
    /\ Spec
    /\ \A c \in Callers : WF_vars(CallStep(c))
    /\ \A a \in Agents : WF_vars(LoopStep(a))

-----------------------------------------------------------------------------
\* The jobs of agent a that are over: all it was sent but the ones in its queue
\* and in its hand.
InHand(a) == IF job[a] = None THEN 0 ELSE 1
Done(a) == SubSeq(sent[a], 1, Len(sent[a]) - Len(queue[a]) - InHand(a))

\* The jobs of s that do one of kinds, in the order of s.
Picked(s, kinds) ==
    LET upTo[n \in 0..Len(s)] ==
          IF n = 0 THEN <<>>
          ELSE IF s[n].does.does \in kinds THEN Append(upTo[n - 1], s[n])
          ELSE upTo[n - 1]
    IN upTo[Len(s)]

Does(a, kinds) == Picked(Done(a), kinds)

\* Every variable has its type.
TypeOK ==
    /\ \A a \in Agents :
         /\ Len(queue[a]) <= Cap
         /\ stage[a] \in {"idle", "taken", "locked", "calling", "called"}
         /\ job[a] = None <=> stage[a] = "idle"
    /\ \A c \in Callers :
         /\ made[c] \in Nat /\ mark[c] \in Nat /\ awaited[c] \in BOOLEAN
         /\ call[c] \in Call \cup Awaiting \cup {None}
    /\ \A a \in Agents : stage[a] = "calling" <=> call[a] # None

\* The value of an agent is the outcome of exactly the actions that succeeded,
\* each once and in the order sent, and its error is that of the last action
\* that threw: failures neither stop the agent nor touch its value.
ValueIsHistory ==
    \A a \in Agents :
        LET threw == Does(a, {"throw"}) IN
        /\ value[a] = Does(a, {"succeed", "call"})
        /\ err[a] = IF threw = <<>> THEN None ELSE Last(threw)

\* When await returns, every job sent before it - by anyone - is over.
AwaitIsBarrier ==
    [][\A c \in Callers :
         (Calling(c, "awaiting") /\ call'[c] = None) =>
             Len(Done(call[c].to)) > mark[c]]_vars

\* An await is never left without its answer: its sentinel has run, or is in the
\* hand of the agent, or in the agent's queue.
IsSentinel(j, c) == j # None /\ j.by = c /\ j.does = Sentinel

AwaitIsOwed ==
    \A c \in Callers : Calling(c, "awaiting") =>
        LET a == call[c].to IN
        \/ awaited[c]
        \/ IsSentinel(job[a], c)
        \/ \E i \in DOMAIN queue[a] : IsSentinel(queue[a][i], c)

\* Every call returns.  (It holds of calls that do not make an action wait for
\* its own agent, directly or through others.)
CallsReturn == \A c \in Callers : (call[c] # None) ~> (call[c] = None)

=============================================================================
