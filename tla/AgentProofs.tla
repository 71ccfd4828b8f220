---------------------------- MODULE AgentProofs ----------------------------
(***************************************************************************)
(* Theorems about agents and their proofs: for any clients and agents that *)
(* use one another, any capacity of the queues, and any menu of calls: an  *)
(* await is a barrier, and the value of an agent is the outcome of exactly *)
(* the actions that succeeded, in the order they were sent.                *)
(***************************************************************************)
EXTENDS Agent, SequenceTheorems, FiniteSetTheorems, TLAPS

\* The parts of the inductive invariant.

Stages == {"idle", "taken", "locked", "calling", "called"}

Types ==
    /\ queue \in [Agents -> Seq(Jobs)] /\ sent \in [Agents -> Seq(Jobs)]
    /\ stage \in [Agents -> Stages]
    /\ job \in [Agents -> Jobs \cup {None}]
    /\ call \in [Callers -> Call \cup Awaiting \cup {None}]
    /\ made \in [Callers -> Nat] /\ mark \in [Callers -> Nat]
    /\ awaited \in [Callers -> BOOLEAN]
    /\ \A a \in Agents :
         /\ Len(queue[a]) <= Cap
         /\ job[a] = None <=> stage[a] = "idle"
         /\ stage[a] = "calling" <=> call[a] # None

\* How many jobs of a are over.
Position(a) == Len(sent[a]) - Len(queue[a]) - InHand(a)

\* q is the end of s.
Ends(s, q) ==
    /\ Len(q) <= Len(s)
    /\ \A k \in 1..Len(q) : q[k] = s[Len(s) - Len(q) + k]

\* What is in the hand of a and in its queue is the end of what was sent.
Mirror ==
    \A a \in Agents :
        /\ Position(a) \in Nat
        /\ job[a] # None => job[a] = sent[a][Len(sent[a]) - Len(queue[a])]
        /\ Ends(sent[a], queue[a])

\* The i-th job sent to a is the sentinel c is waiting for.
WaitsFor(c, a, i) ==
    /\ call[c] = [kind |-> "awaiting", to |-> a]
    /\ mark[c] = i - 1
    /\ ~awaited[c]

\* A sentinel that did not run yet is the one its caller waits for; a caller
\* whose sentinel has run may still be waiting, and nothing else.
Pending ==
    \A a \in Agents : \A i \in 1..Len(sent[a]) :
        i > Position(a) /\ sent[a][i].does = Sentinel => WaitsFor(sent[a][i].by, a, i)

Signalled ==
    \A c \in Callers : awaited[c] => call[c] \in Awaiting /\ Position(call[c].to) > mark[c]

IInv == Types /\ Mirror /\ Pending /\ Signalled

-----------------------------------------------------------------------------
LEMMA AppendFacts ==
    ASSUME NEW S, NEW s \in Seq(S), NEW e \in S
    PROVE  /\ Append(s, e) \in Seq(S)
           /\ Len(Append(s, e)) = Len(s) + 1 /\ Len(s) \in Nat
           /\ Append(s, e)[Len(s) + 1] = e
           /\ \A i \in 1..Len(s) : Append(s, e)[i] = s[i]
OBVIOUS

LEMMA TailFacts ==
    ASSUME NEW S, NEW s \in Seq(S), s # <<>>
    PROVE  /\ Len(s) \in Nat \ {0}
           /\ Head(s) = s[1] /\ Head(s) \in S
           /\ Tail(s) \in Seq(S) /\ Len(Tail(s)) = Len(s) - 1
           /\ \A i \in 1..Len(s) - 1 : Tail(s)[i] = s[i + 1]
OBVIOUS

LEMMA LongerEnds ==
    ASSUME NEW s, NEW q, NEW t, NEW r, NEW e,
           Len(s) \in Nat, Len(t) = Len(s) + 1, t[Len(s) + 1] = e, \A i \in 1..Len(s) : t[i] = s[i],
           Len(q) \in Nat, Len(r) = Len(q) + 1, r[Len(q) + 1] = e, \A i \in 1..Len(q) : r[i] = q[i],
           Ends(s, q)
    PROVE  Ends(t, r)
<1>1. ASSUME NEW k \in 1..Len(r) PROVE r[k] = t[Len(t) - Len(r) + k]
  <2>1. k = Len(q) + 1 \/ k \in 1..Len(q)
    OBVIOUS
  <2>2. CASE k = Len(q) + 1
    <3>1. Len(t) - Len(r) + k = Len(s) + 1
      BY <2>2
    <3>2. QED
      BY <2>2, <3>1
  <2>3. CASE k \in 1..Len(q)
    <3>1. /\ Len(s) - Len(q) + k \in 1..Len(s)
          /\ Len(t) - Len(r) + k = Len(s) - Len(q) + k
      BY <2>3 DEF Ends
    <3>2. r[k] = q[k] /\ q[k] = s[Len(s) - Len(q) + k]
      BY <2>3 DEF Ends
    <3>3. t[Len(s) - Len(q) + k] = s[Len(s) - Len(q) + k]
      BY <3>1
    <3>4. QED
      BY <3>1, <3>2, <3>3
  <2>4. QED
    BY <2>1, <2>2, <2>3
<1>2. Len(r) <= Len(t)
  BY DEF Ends
<1>3. QED
  BY <1>1, <1>2 DEF Ends

LEMMA AppendEnds ==
    ASSUME NEW S, NEW s \in Seq(S), NEW q \in Seq(S), NEW e \in S, Ends(s, q)
    PROVE  Ends(Append(s, e), Append(q, e))
<1>1. /\ Len(s) \in Nat /\ Len(Append(s, e)) = Len(s) + 1 /\ Append(s, e)[Len(s) + 1] = e
      /\ \A i \in 1..Len(s) : Append(s, e)[i] = s[i]
  BY AppendFacts
<1>2. /\ Len(q) \in Nat /\ Len(Append(q, e)) = Len(q) + 1 /\ Append(q, e)[Len(q) + 1] = e
      /\ \A i \in 1..Len(q) : Append(q, e)[i] = q[i]
  BY AppendFacts
<1>3. ASSUME NEW t, NEW r, t = Append(s, e), r = Append(q, e) PROVE Ends(t, r)
  <2>1. /\ Len(s) \in Nat /\ Len(t) = Len(s) + 1 /\ t[Len(s) + 1] = e
        /\ \A i \in 1..Len(s) : t[i] = s[i]
    BY <1>1, <1>3, Zenon
  <2>2. /\ Len(q) \in Nat /\ Len(r) = Len(q) + 1 /\ r[Len(q) + 1] = e
        /\ \A i \in 1..Len(q) : r[i] = q[i]
    BY <1>2, <1>3, Zenon
  <2> HIDE <1>3
  <2>3. QED
    BY <2>1, <2>2, LongerEnds
<1>4. QED
  BY <1>3, Zenon

LEMMA TailEnds ==
    ASSUME NEW S, NEW s \in Seq(S), NEW q \in Seq(S), q # <<>>, Ends(s, q)
    PROVE  Ends(s, Tail(q)) /\ Head(q) = s[Len(s) - Len(Tail(q))]
<1>1. /\ Len(q) \in Nat \ {0} /\ Head(q) = q[1] /\ Len(Tail(q)) = Len(q) - 1
      /\ \A i \in 1..Len(q) - 1 : Tail(q)[i] = q[i + 1]
  BY TailFacts
<1>2. Len(s) \in Nat
  OBVIOUS
<1>3. ASSUME NEW k \in 1..Len(q) - 1
      PROVE  Tail(q)[k] = s[Len(s) - (Len(q) - 1) + k]
  <2>1. q[k + 1] = s[Len(s) - Len(q) + (k + 1)]
    BY <1>1, <1>3 DEF Ends
  <2>2. Len(s) - Len(q) + (k + 1) = Len(s) - (Len(q) - 1) + k
    BY <1>1, <1>2
  <2>3. QED
    BY <1>1, <2>1, <2>2
<1>4. q[1] = s[Len(s) - (Len(q) - 1)]
  <2>1. q[1] = s[Len(s) - Len(q) + 1] /\ Len(s) - Len(q) + 1 = Len(s) - (Len(q) - 1)
    BY <1>1, <1>2 DEF Ends
  <2>2. QED
    BY <2>1
<1>5. QED
  BY <1>1, <1>2, <1>3, <1>4 DEF Ends

\* What a call may be, by its kind; what an action may be, by what it does.
LEMMA CallFacts ==
    ASSUME NEW o \in Call \cup Awaiting \cup {None}, o # None
    PROVE  /\ o.kind \in {"send", "await", "deref", "error", "awaiting"} /\ o.to \in Agents
           /\ o.kind = "awaiting" <=> o \in Awaiting
           /\ o.kind = "send" => o.act \in Simple \cup CallAct /\ o.act # Sentinel
<1>1. CASE o \in Awaiting
  BY <1>1 DEF Awaiting
<1>2. CASE o \in [kind : {"send"}, to : Agents, act : Simple]
  <2>1. o.act \in Simple
    BY <1>2
  <2>2. o.act # Sentinel
    BY <2>1 DEF Simple, Sentinel
  <2>3. QED
    BY <1>2, <2>1, <2>2 DEF Awaiting
<1>3. CASE o \in [kind : {"await", "deref", "error"}, to : Agents]
  BY <1>3 DEF Awaiting
<1>4. CASE o \in [kind : {"send"}, to : Agents, act : CallAct]
  <2>1. o.act \in CallAct
    BY <1>4
  <2>2. o.act # Sentinel
    BY <2>1 DEF CallAct, Sentinel
  <2>3. QED
    BY <1>4, <2>1, <2>2 DEF Awaiting
<1>5. QED
  BY <1>1, <1>2, <1>3, <1>4 DEF Call, InnerCall

LEMMA ActFacts ==
    ASSUME NEW d \in Simple \cup CallAct \cup {Sentinel}
    PROVE  /\ d.does \in {"succeed", "throw", "panic", "call", "signal"}
           /\ d.does = "call" => d.call \in Call
           /\ d.does = "signal" <=> d = Sentinel
BY DEF Simple, CallAct, Sentinel, Call

LEMMA CallOfCaller ==
    ASSUME Types, NEW c \in Callers, call[c] # None
    PROVE  /\ call[c] \in Call \cup Awaiting \cup {None}
           /\ call[c].kind \in {"send", "await", "deref", "error", "awaiting"}
           /\ call[c].to \in Agents
           /\ call[c].kind = "awaiting" <=> call[c] \in Awaiting
           /\ call[c].kind = "send" => /\ call[c].act \in Simple \cup CallAct
                                       /\ call[c].act # Sentinel
<1>1. call[c] \in Call \cup Awaiting \cup {None}
  BY DEF Types
<1>2. QED
  BY <1>1, CallFacts

LEMMA JobFacts ==
    ASSUME Types, NEW c \in Callers, NEW d \in Simple \cup CallAct \cup {Sentinel}
    PROVE  /\ Job(c, d) \in Jobs /\ Job(c, d).by = c /\ Job(c, d).does = d
           /\ Job(c, d) # None
<1>1. Job(c, d) \in Jobs
  BY DEF Types, Jobs, Job, Callers
<1>2. QED
  BY <1>1, AgentAssumption DEF Job

-----------------------------------------------------------------------------
LEMMA InitInductive == Init => IInv
<1> SUFFICES ASSUME Init PROVE IInv
  OBVIOUS
<1> USE AgentAssumption DEF Init
<1>1. /\ queue \in [Agents -> Seq(Jobs)] /\ sent \in [Agents -> Seq(Jobs)]
      /\ \A a \in Agents : Len(queue[a]) = 0 /\ Len(sent[a]) = 0
  <2>1. <<>> \in Seq(Jobs) /\ Len(<<>>) = 0
    OBVIOUS
  <2>2. QED
    BY <2>1
<1>3. Types
  <2>1. \A a \in Agents : stage[a] = "idle" /\ job[a] = None /\ call[a] = None /\ Len(queue[a]) <= Cap
    BY <1>1 DEF Callers
  <2>2. \A a \in Agents : /\ Len(queue[a]) <= Cap
                          /\ job[a] = None <=> stage[a] = "idle"
                          /\ stage[a] = "calling" <=> call[a] # None
    BY <2>1
  <2>3. QED
    BY <1>1, <2>2 DEF Types, Stages
<1>4. Mirror
  BY <1>1 DEF Mirror, Position, InHand, Ends
<1>5. Pending /\ Signalled
  BY <1>1 DEF Pending, Signalled
<1>6. QED
  BY <1>3, <1>4, <1>5 DEF IInv

-----------------------------------------------------------------------------
LEMMA StageFacts ==
    ASSUME Types, NEW a \in Agents
    PROVE  /\ Len(queue[a]) <= Cap
           /\ job[a] = None <=> stage[a] = "idle"
           /\ stage[a] = "calling" <=> call[a] # None
           /\ queue[a] \in Seq(Jobs) /\ sent[a] \in Seq(Jobs)
           /\ stage[a] \in Stages /\ job[a] \in Jobs \cup {None}
BY DEF Types

LEMMA SentFacts ==
    ASSUME Types, NEW a \in Agents, NEW i \in 1..Len(sent[a])
    PROVE  sent[a][i].by \in Callers
<1>1. sent[a] \in Seq(Jobs)
  BY DEF Types
<1>2. sent[a][i] \in Jobs
  BY <1>1
<1>3. QED
  BY <1>2 DEF Jobs, Callers

\* The caller of a pending sentinel is waiting; nobody else is concerned.
LEMMA PendingFacts ==
    ASSUME Types, Pending, NEW a \in Agents, NEW i \in 1..Len(sent[a]),
           i > Position(a), sent[a][i].does = Sentinel
    PROVE  /\ sent[a][i].by \in Callers
           /\ call[sent[a][i].by] = [kind |-> "awaiting", to |-> a]
           /\ call[sent[a][i].by] # None
           /\ mark[sent[a][i].by] = i - 1 /\ ~awaited[sent[a][i].by]
<1>1. [kind |-> "awaiting", to |-> a] \in Awaiting
  BY DEF Awaiting
<1>2. QED
  BY <1>1, SentFacts, AgentAssumption DEF Pending, WaitsFor

\* An agent with a job in hand that is neither idle nor calling has no call.
LEMMA ClientCallsInductive ==
    ASSUME IInv, NEW c \in Callers, NEW o \in Call, call[c] = None, BeginCall(c, o),
           UNCHANGED <<queue, job, value, err, awaited, sent, mark>>,
           \/ c \in Clients /\ UNCHANGED stage
           \/ c \in Agents /\ stage[c] = "locked" /\ stage' = [stage EXCEPT ![c] = "calling"]
    PROVE  IInv'
<1>0. Types /\ Mirror /\ Pending /\ Signalled
  BY DEF IInv
<1> USE <1>0, AgentAssumption DEF BeginCall
<1>1. o # None /\ call' = [call EXCEPT ![c] = o] /\ call'[c] = o
  BY DEF Types
<1>2. Types'
  <2>1. stage' \in [Agents -> Stages] /\ \A a \in Agents : /\ job'[a] = None <=> stage'[a] = "idle"
                                                           /\ stage'[a] = "calling" <=> call'[a] # None
    <3>1. CASE c \in Clients
      <4>1. \A a \in Agents : call'[a] = call[a]
        BY <3>1, <1>1 DEF Types
      <4>2. QED
        BY <3>1, <4>1, StageFacts DEF Types
    <3>2. CASE c \in Agents
      <4>1. stage'[c] = "calling" /\ call'[c] # None /\ job'[c] = job[c] /\ job[c] # None
        BY <3>2, <1>1, StageFacts DEF Types
      <4>2. stage' \in [Agents -> Stages]
        BY <3>2 DEF Types, Stages
      <4>3. \A a \in Agents : a # c => call'[a] = call[a] /\ stage'[a] = stage[a]
        BY <3>2, <1>1 DEF Types, Callers
      <4>4. QED
        BY <4>1, <4>2, <4>3, StageFacts DEF Types
    <3>3. QED
      BY <3>1, <3>2 DEF Callers
  <2>2. call' \in [Callers -> Call \cup Awaiting \cup {None}] /\ made' \in [Callers -> Nat]
    BY DEF Types
  <2>3. QED
    <3>1. \A a \in Agents : Len(queue'[a]) <= Cap
      BY StageFacts
    <3>2. QED
      BY <2>1, <2>2, <3>1 DEF Types, Stages
<1>p. \A a \in Agents : Position(a)' = Position(a)
  BY DEF Position, InHand
<1>3. Mirror'
  BY DEF Mirror, Position, InHand
<1>4. Pending'
  <2> SUFFICES ASSUME NEW a \in Agents, NEW i \in 1..Len(sent[a]),
                      i > Position(a), sent[a][i].does = Sentinel
               PROVE  WaitsFor(sent[a][i].by, a, i)'
    BY <1>p DEF Pending
  <2>1. sent[a][i].by # c
    BY PendingFacts
  <2>2. QED
    BY <1>1, <2>1, PendingFacts DEF WaitsFor, Types
<1>5. Signalled'
  <2> SUFFICES ASSUME NEW b \in Callers, awaited[b]
               PROVE  (call[b] \in Awaiting /\ Position(call[b].to) > mark[b])'
    BY DEF Signalled
  <2>1. call[b] \in Awaiting /\ Position(call[b].to) > mark[b] /\ call[b] # None
    BY DEF Signalled
  <2>2. call'[b] = call[b] /\ call[b].to \in Agents
    BY <1>1, <2>1 DEF Types, Awaiting
  <2>3. QED
    BY <2>1, <2>2 DEF Position, InHand
<1>6. QED
  BY <1>2, <1>3, <1>4, <1>5 DEF IInv

-----------------------------------------------------------------------------
\* The end of a call.
LEMMA ReturnFacts ==
    ASSUME Types, NEW c \in Callers, call[c] # None, Return(c), UNCHANGED job
    PROVE  /\ call' \in [Callers -> Call \cup Awaiting \cup {None}] /\ call'[c] = None
           /\ \A b \in Callers : b # c => call'[b] = call[b]
           /\ stage' \in [Agents -> Stages]
           /\ \A a \in Agents : /\ job'[a] = None <=> stage'[a] = "idle"
                                /\ stage'[a] = "calling" <=> call'[a] # None
<1> USE DEF Return
<1>1. call' \in [Callers -> Call \cup Awaiting \cup {None}] /\ call'[c] = None
  BY DEF Types
<1>2. \A b \in Callers : b # c => call'[b] = call[b]
  BY DEF Types
<1>3. stage' \in [Agents -> Stages]
  BY DEF Types, Stages
<1>4. ASSUME NEW a \in Agents
      PROVE  /\ job'[a] = None <=> stage'[a] = "idle"
             /\ stage'[a] = "calling" <=> call'[a] # None
  <2>1. a \in Callers
    BY DEF Callers
  <2>2. CASE a = c
    <3>1. stage[a] = "calling" /\ job[a] # None
      BY <2>2, StageFacts
    <3>2. stage'[a] = "called" /\ call'[a] = None
      BY <2>2, <1>1
    <3>3. QED
      BY <3>1, <3>2
  <2>3. CASE a # c
    <3>1. stage'[a] = stage[a] /\ call'[a] = call[a]
      BY <2>1, <2>3, <1>2
    <3>2. QED
      BY <3>1, StageFacts
  <2>4. QED
    BY <2>2, <2>3
<1>5. QED
  BY <1>1, <1>2, <1>3, <1>4

\* A job is put in a queue.
LEMMA EnqueueFacts ==
    ASSUME Types, Mirror, NEW t \in Agents, NEW j \in Jobs, Len(queue[t]) < Cap,
           Enqueue(t, j), UNCHANGED job
    PROVE  /\ queue' \in [Agents -> Seq(Jobs)] /\ sent' \in [Agents -> Seq(Jobs)]
           /\ \A a \in Agents : Len(queue'[a]) <= Cap /\ Position(a)' = Position(a)
           /\ Mirror'
           /\ \A a \in Agents : a # t => sent'[a] = sent[a]
           /\ Len(sent[t]) \in Nat /\ Len(sent'[t]) = Len(sent[t]) + 1
           /\ sent'[t][Len(sent[t]) + 1] = j
           /\ \A i \in 1..Len(sent[t]) : sent'[t][i] = sent[t][i]
<1>1. /\ queue[t] \in Seq(Jobs) /\ sent[t] \in Seq(Jobs)
      /\ queue'[t] = Append(queue[t], j) /\ sent'[t] = Append(sent[t], j)
  BY DEF Types, Enqueue
<1>2. /\ queue'[t] \in Seq(Jobs) /\ Len(queue'[t]) = Len(queue[t]) + 1 /\ Len(queue[t]) \in Nat
      /\ queue'[t][Len(queue[t]) + 1] = j
      /\ \A i \in 1..Len(queue[t]) : queue'[t][i] = queue[t][i]
  BY <1>1, AppendFacts
<1>3. /\ sent'[t] \in Seq(Jobs) /\ Len(sent'[t]) = Len(sent[t]) + 1 /\ Len(sent[t]) \in Nat
      /\ sent'[t][Len(sent[t]) + 1] = j
      /\ \A i \in 1..Len(sent[t]) : sent'[t][i] = sent[t][i]
  BY <1>1, AppendFacts
<1>4. \A a \in Agents : a # t => queue'[a] = queue[a] /\ sent'[a] = sent[a]
  BY DEF Types, Enqueue
<1>5. queue' \in [Agents -> Seq(Jobs)] /\ sent' \in [Agents -> Seq(Jobs)]
  BY <1>2, <1>3 DEF Types, Enqueue
<1>6. \A a \in Agents : Len(queue'[a]) <= Cap
  <2>1. Len(queue'[t]) <= Cap
    BY <1>2, AgentAssumption
  <2>2. QED
    BY <2>1, <1>4, StageFacts
<1>7. \A a \in Agents : Position(a)' = Position(a)
  <2>1. Position(t)' = Position(t)
    BY <1>2, <1>3 DEF Position, InHand
  <2>2. QED
    BY <1>4, <2>1 DEF Position, InHand
<1>8. Mirror'
  <2> SUFFICES ASSUME NEW a \in Agents
               PROVE  /\ Position(a)' \in Nat
                      /\ job[a] # None => job[a] = sent'[a][Len(sent'[a]) - Len(queue'[a])]
                      /\ Ends(sent'[a], queue'[a])
    BY DEF Mirror
  <2>1. Position(a)' \in Nat
    BY <1>7 DEF Mirror
  <2>2. CASE a # t
    BY <1>4, <2>1, <2>2 DEF Mirror
  <2>3. CASE a = t
    <3>1. Ends(sent'[t], queue'[t])
      BY <1>1, AppendEnds DEF Mirror
    <3>2. ASSUME job[t] # None PROVE job[t] = sent'[t][Len(sent'[t]) - Len(queue'[t])]
      <4> DEFINE s == Len(sent[t])
                 q == Len(queue[t])
      <4>1. s - q - 1 \in Nat /\ job[t] = sent[t][s - q]
        BY <3>2 DEF Position, InHand, Mirror
      <4>2. s \in Nat /\ q \in Nat /\ Len(sent'[t]) = s + 1 /\ Len(queue'[t]) = q + 1
            /\ \A i \in 1..s : sent'[t][i] = sent[t][i]
        BY <1>2, <1>3
      <4> HIDE DEF s, q
      <4>3. s - q \in 1..s /\ (s + 1) - (q + 1) = s - q
        BY <4>1, <4>2
      <4>4. QED
        BY <4>1, <4>2, <4>3
    <3>3. QED
      BY <2>1, <2>3, <3>1, <3>2
  <2>4. QED
    BY <2>2, <2>3
<1>9. QED
  BY <1>3, <1>4, <1>5, <1>6, <1>7, <1>8

\* What was waited for still is, when agents only get on with their jobs.
LEMMA Kept ==
    ASSUME Types, Types', Mirror, Pending, Signalled,
           \A a \in Agents : Position(a) \in Nat /\ Position(a)' \in Nat /\ Position(a)' >= Position(a),
           UNCHANGED <<call, awaited, sent, mark>>
    PROVE  Pending' /\ Signalled'
<1>1. Pending'
  <2> SUFFICES ASSUME NEW a \in Agents, NEW i \in 1..Len(sent[a]),
                      i > Position(a)', sent[a][i].does = Sentinel
               PROVE  WaitsFor(sent[a][i].by, a, i)'
    BY DEF Pending
  <2>1. i > Position(a)
    <3> HIDE DEF Position
    <3>1. Position(a) \in Nat /\ Position(a)' \in Nat /\ i \in Nat
      BY StageFacts
    <3>2. QED
      BY <3>1
  <2>2. WaitsFor(sent[a][i].by, a, i)
    BY <2>1 DEF Pending
  <2>3. QED
    BY <2>2 DEF WaitsFor
<1>2. Signalled'
  <2> SUFFICES ASSUME NEW c \in Callers, awaited[c]
               PROVE  (call[c] \in Awaiting /\ Position(call[c].to) > mark[c])'
    BY DEF Signalled
  <2>1. call[c] \in Awaiting /\ Position(call[c].to) > mark[c] /\ mark[c] \in Nat
    BY DEF Signalled, Types
  <2>2. PICK t \in Agents : t = call[c].to
    BY <2>1 DEF Awaiting
  <2>3. Position(t)' > mark[c]
    <3>1. Position(t) \in Nat /\ Position(t)' \in Nat /\ Position(t)' >= Position(t) /\ Position(t) > mark[c]
      BY <2>1, <2>2
    <3>2. QED
      BY <2>1, <3>1
  <2>4. QED
    BY <2>1, <2>2, <2>3 DEF Position, InHand
<1>3. QED
  BY <1>1, <1>2

-----------------------------------------------------------------------------
\* The steps of a call.
LEMMA CallInductive ==
    ASSUME IInv, NEW c \in Callers, CallStep(c)
    PROVE  IInv'
<1>0. Types /\ Mirror /\ Pending /\ Signalled
  BY DEF IInv
<1> USE <1>0
<1>t. \A a \in Agents : Len(queue[a]) <= Cap
  BY StageFacts
<1>1. CASE Send(c)
  <2> DEFINE t == call[c].to
  <2>1. call[c] # None /\ call[c].kind = "send"
    BY <1>1 DEF Send, Calling
  <2>2. t \in Agents /\ call[c].act \in Simple \cup CallAct /\ call[c].act # Sentinel
        /\ call[c] \notin Awaiting
    BY <2>1, CallOfCaller
  <2> DEFINE j == Job(c, call[c].act)
  <2>3. j \in Jobs /\ j.by = c /\ j.does # Sentinel
    BY <2>2, JobFacts
  <2>4. /\ Len(queue[t]) < Cap /\ Enqueue(t, j) /\ Return(c)
        /\ UNCHANGED <<job, value, err, made, awaited, mark>>
    BY <1>1 DEF Send
  <2> HIDE DEF t, j
  <2>5. PICK u \in Agents : u = t
    BY <2>2 DEF t
  <2>6. /\ queue' \in [Agents -> Seq(Jobs)] /\ sent' \in [Agents -> Seq(Jobs)]
        /\ \A a \in Agents : Len(queue'[a]) <= Cap /\ Position(a)' = Position(a)
        /\ Mirror'
        /\ \A a \in Agents : a # u => sent'[a] = sent[a]
        /\ Len(sent[u]) \in Nat /\ Len(sent'[u]) = Len(sent[u]) + 1
        /\ sent'[u][Len(sent[u]) + 1] = j
        /\ \A i \in 1..Len(sent[u]) : sent'[u][i] = sent[u][i]
    BY <2>3, <2>4, <2>5, EnqueueFacts
  <2>7. /\ call' \in [Callers -> Call \cup Awaiting \cup {None}] /\ call'[c] = None
        /\ \A b \in Callers : b # c => call'[b] = call[b]
        /\ stage' \in [Agents -> Stages]
        /\ \A a \in Agents : /\ job'[a] = None <=> stage'[a] = "idle"
                             /\ stage'[a] = "calling" <=> call'[a] # None
    BY <2>1, <2>4, ReturnFacts
  <2>8. Types'
    BY <2>4, <2>6, <2>7 DEF Types, Stages
  <2>9. Pending'
    <3> SUFFICES ASSUME NEW a \in Agents, NEW i \in 1..Len(sent'[a]),
                        i > Position(a)', sent'[a][i].does = Sentinel
                 PROVE  WaitsFor(sent[a][i].by, a, i)'
      BY DEF Pending
    <3>1. i \in 1..Len(sent[a]) /\ sent'[a][i] = sent[a][i]
      <4>1. CASE a = u
        <5>1. i # Len(sent[u]) + 1
          BY <2>3, <2>6, <4>1
        <5>2. i \in 1..Len(sent[u])
          BY <2>6, <4>1, <5>1
        <5>3. QED
          BY <2>6, <4>1, <5>2
      <4>2. CASE a # u
        BY <2>6, <4>2
      <4>3. QED
        BY <4>1, <4>2
    <3>2. i > Position(a) /\ sent[a][i].does = Sentinel
      BY <2>6, <3>1
    <3>3. sent[a][i].by \in Callers /\ call[sent[a][i].by] = [kind |-> "awaiting", to |-> a]
          /\ mark[sent[a][i].by] = i - 1 /\ ~awaited[sent[a][i].by]
      BY <3>1, <3>2, PendingFacts
    <3>4. sent[a][i].by # c
      BY <2>2, <3>3 DEF Awaiting
    <3>5. QED
      BY <2>4, <2>7, <3>1, <3>3, <3>4 DEF WaitsFor
  <2>10. Signalled'
    <3> SUFFICES ASSUME NEW b \in Callers, awaited[b]
                 PROVE  (call[b] \in Awaiting /\ Position(call[b].to) > mark[b])'
      BY <2>4 DEF Signalled
    <3>1. call[b] \in Awaiting /\ Position(call[b].to) > mark[b] /\ b # c
      BY <2>2 DEF Signalled
    <3>2. PICK x \in Agents : x = call[b].to
      BY <3>1 DEF Awaiting
    <3>3. Position(x)' > mark[b]
      BY <2>6, <3>1, <3>2
    <3>4. QED
      BY <2>4, <2>7, <3>1, <3>2, <3>3 DEF Position, InHand
  <2>11. QED
    BY <2>6, <2>8, <2>9, <2>10 DEF IInv
<1>2. CASE AwaitReturn(c)
  <2>1. call[c] # None /\ call[c].kind = "awaiting" /\ awaited[c] /\ Return(c)
        /\ awaited' = [awaited EXCEPT ![c] = FALSE]
        /\ UNCHANGED <<queue, job, value, err, made, sent, mark>>
    BY <1>2 DEF AwaitReturn, Calling
  <2>2. /\ call' \in [Callers -> Call \cup Awaiting \cup {None}] /\ call'[c] = None
        /\ \A b \in Callers : b # c => call'[b] = call[b]
        /\ stage' \in [Agents -> Stages]
        /\ \A a \in Agents : /\ job'[a] = None <=> stage'[a] = "idle"
                             /\ stage'[a] = "calling" <=> call'[a] # None
    BY <2>1, ReturnFacts
  <2>3. awaited' \in [Callers -> BOOLEAN] /\ ~awaited'[c] /\ \A b \in Callers : b # c => awaited'[b] = awaited[b]
    BY <2>1 DEF Types
  <2>4. Types'
    BY <1>t, <2>1, <2>2, <2>3 DEF Types, Stages
  <2>5. Mirror'
    BY <2>1 DEF Mirror, Position, InHand
  <2>6. Pending'
    <3> SUFFICES ASSUME NEW a \in Agents, NEW i \in 1..Len(sent[a]),
                        i > Position(a), sent[a][i].does = Sentinel
                 PROVE  WaitsFor(sent[a][i].by, a, i)'
      BY <2>1 DEF Pending, Position, InHand
    <3>1. sent[a][i].by \in Callers /\ sent[a][i].by # c
      BY <2>1, PendingFacts
    <3>2. QED
      BY <2>1, <2>2, <2>3, <3>1, PendingFacts DEF WaitsFor
  <2>7. Signalled'
    <3> SUFFICES ASSUME NEW b \in Callers, awaited'[b]
                 PROVE  (call[b] \in Awaiting /\ Position(call[b].to) > mark[b])'
      BY DEF Signalled
    <3>1. b # c /\ call'[b] = call[b] /\ awaited[b]
      BY <2>2, <2>3
    <3>2. QED
      BY <2>1, <3>1 DEF Signalled, Position, InHand
  <2>8. QED
    BY <2>4, <2>5, <2>6, <2>7 DEF IInv
<1>3. CASE Read(c)
  <2>1. call[c] # None /\ call[c].kind # "awaiting" /\ Return(c)
        /\ UNCHANGED <<queue, job, value, err, made, awaited, sent, mark>>
    BY <1>3 DEF Read, Calling
  <2>2. call[c] \notin Awaiting
    BY <2>1, CallOfCaller
  <2>3. /\ call' \in [Callers -> Call \cup Awaiting \cup {None}] /\ call'[c] = None
        /\ \A b \in Callers : b # c => call'[b] = call[b]
        /\ stage' \in [Agents -> Stages]
        /\ \A a \in Agents : /\ job'[a] = None <=> stage'[a] = "idle"
                             /\ stage'[a] = "calling" <=> call'[a] # None
    BY <2>1, ReturnFacts
  <2>4. Types'
    BY <1>t, <2>1, <2>3 DEF Types, Stages
  <2>5. Mirror'
    BY <2>1 DEF Mirror, Position, InHand
  <2>6. Pending'
    <3> SUFFICES ASSUME NEW a \in Agents, NEW i \in 1..Len(sent[a]),
                        i > Position(a), sent[a][i].does = Sentinel
                 PROVE  WaitsFor(sent[a][i].by, a, i)'
      BY <2>1 DEF Pending, Position, InHand
    <3>1. sent[a][i].by \in Callers /\ sent[a][i].by # c
      <4>1. /\ sent[a][i].by \in Callers
            /\ call[sent[a][i].by] = [kind |-> "awaiting", to |-> a]
        BY PendingFacts
      <4>2. [kind |-> "awaiting", to |-> a] \in Awaiting
        BY DEF Awaiting
      <4>3. QED
        BY <2>2, <4>1, <4>2
    <3>2. QED
      BY <2>1, <2>3, <3>1, PendingFacts DEF WaitsFor
  <2>7. Signalled'
    <3> SUFFICES ASSUME NEW b \in Callers, awaited[b]
                 PROVE  (call[b] \in Awaiting /\ Position(call[b].to) > mark[b])'
      BY <2>1 DEF Signalled
    <3>1. b # c
      BY <2>2 DEF Signalled
    <3>2. QED
      BY <2>1, <2>3, <3>1 DEF Signalled, Position, InHand
  <2>8. QED
    BY <2>4, <2>5, <2>6, <2>7 DEF IInv
<1>4. CASE AwaitSend(c)
  <2> DEFINE t == call[c].to
             j == Job(c, Sentinel)
  <2>1. call[c] # None /\ call[c].kind = "await"
    BY <1>4 DEF AwaitSend, Calling
  <2>2. t \in Agents /\ call[c] \notin Awaiting
    BY <2>1, CallOfCaller
  <2>3. j \in Jobs /\ j.by = c
    BY JobFacts
  <2>4. /\ Len(queue[t]) < Cap /\ Enqueue(t, j)
        /\ mark' = [mark EXCEPT ![c] = Len(sent[t])]
        /\ call' = [call EXCEPT ![c] = [kind |-> "awaiting", to |-> t]]
        /\ UNCHANGED <<stage, job, value, err, made, awaited>>
    BY <1>4 DEF AwaitSend
  <2> HIDE DEF t, j
  <2>5. PICK u \in Agents : u = t
    BY <2>2 DEF t
  <2>6. /\ queue' \in [Agents -> Seq(Jobs)] /\ sent' \in [Agents -> Seq(Jobs)]
        /\ \A a \in Agents : Len(queue'[a]) <= Cap /\ Position(a)' = Position(a)
        /\ Mirror'
        /\ \A a \in Agents : a # u => sent'[a] = sent[a]
        /\ Len(sent[u]) \in Nat /\ Len(sent'[u]) = Len(sent[u]) + 1
        /\ sent'[u][Len(sent[u]) + 1] = j
        /\ \A i \in 1..Len(sent[u]) : sent'[u][i] = sent[u][i]
    BY <2>3, <2>4, <2>5, EnqueueFacts
  <2>7. /\ call' \in [Callers -> Call \cup Awaiting \cup {None}]
        /\ call'[c] = [kind |-> "awaiting", to |-> u] /\ call'[c] # None
        /\ \A b \in Callers : b # c => call'[b] = call[b]
        /\ mark' \in [Callers -> Nat] /\ mark'[c] = Len(sent[u])
        /\ \A b \in Callers : b # c => mark'[b] = mark[b]
    <3>1. [kind |-> "awaiting", to |-> u] \in Awaiting
      BY DEF Awaiting
    <3>2. call' = [call EXCEPT ![c] = [kind |-> "awaiting", to |-> u]]
          /\ mark' = [mark EXCEPT ![c] = Len(sent[u])]
      BY <2>4, <2>5
    <3>3. QED
      BY <2>6, <3>1, <3>2, AgentAssumption DEF Types
  <2>8. Types'
    <3>1. \A a \in Agents : stage'[a] = "calling" <=> call'[a] # None
      <4>1. \A a \in Agents : call'[a] # None <=> call[a] # None
        BY <2>1, <2>7 DEF Callers
      <4>2. QED
        BY <2>4, <4>1, StageFacts
    <3>2. \A a \in Agents : job'[a] = None <=> stage'[a] = "idle"
      BY <2>4, StageFacts
    <3>3. QED
      BY <2>4, <2>6, <2>7, <3>1, <3>2 DEF Types, Stages
  <2>9. Pending'
    <3> SUFFICES ASSUME NEW a \in Agents, NEW i \in 1..Len(sent'[a]),
                        i > Position(a)', sent'[a][i].does = Sentinel
                 PROVE  WaitsFor(sent[a][i].by, a, i)'
      BY DEF Pending
    <3>c. ~awaited[c]
      BY <2>2 DEF Signalled
    <3>1. CASE a = u /\ i = Len(sent[u]) + 1
      <4>1. sent'[a][i].by = c
        BY <2>3, <2>6, <3>1
      <4>2. call'[c] = [kind |-> "awaiting", to |-> a] /\ mark'[c] = i - 1 /\ ~awaited'[c]
        BY <2>4, <2>6, <2>7, <3>c, <3>1
      <4>3. QED
        BY <4>1, <4>2 DEF WaitsFor
    <3>2. CASE ~(a = u /\ i = Len(sent[u]) + 1)
      <4>1. i \in 1..Len(sent[a]) /\ sent'[a][i] = sent[a][i]
        BY <2>6, <3>2
      <4>2. i > Position(a) /\ sent[a][i].does = Sentinel
        BY <2>6, <4>1
      <4>3. sent[a][i].by \in Callers /\ call[sent[a][i].by] = [kind |-> "awaiting", to |-> a]
            /\ mark[sent[a][i].by] = i - 1 /\ ~awaited[sent[a][i].by]
        BY <4>1, <4>2, PendingFacts
      <4>4. sent[a][i].by # c
        BY <2>2, <4>3 DEF Awaiting
      <4>5. QED
        BY <2>4, <2>7, <4>1, <4>3, <4>4 DEF WaitsFor
    <3>3. QED
      BY <3>1, <3>2
  <2>10. Signalled'
    <3> SUFFICES ASSUME NEW b \in Callers, awaited[b]
                 PROVE  (call[b] \in Awaiting /\ Position(call[b].to) > mark[b])'
      BY <2>4 DEF Signalled
    <3>1. call[b] \in Awaiting /\ Position(call[b].to) > mark[b] /\ b # c
      BY <2>2 DEF Signalled
    <3>2. PICK x \in Agents : x = call[b].to
      BY <3>1 DEF Awaiting
    <3>3. Position(x)' > mark[b]
      BY <2>6, <3>1, <3>2
    <3>4. QED
      BY <2>4, <2>7, <3>1, <3>2, <3>3 DEF Position, InHand
  <2>11. QED
    BY <2>6, <2>8, <2>9, <2>10 DEF IInv
<1>5. QED
  BY <1>1, <1>2, <1>3, <1>4 DEF CallStep

-----------------------------------------------------------------------------
\* The steps of the goroutine of an agent.
LEMMA TakeInductive ==
    ASSUME IInv, NEW a \in Agents, Take(a)
    PROVE  IInv' /\ \A x \in Agents : Position(x)' = Position(x)
<1>0. Types /\ Mirror /\ Pending /\ Signalled
  BY DEF IInv
<1> USE <1>0
<1>1. /\ stage[a] = "idle" /\ queue[a] # <<>>
      /\ job' = [job EXCEPT ![a] = Head(queue[a])]
      /\ queue' = [queue EXCEPT ![a] = Tail(queue[a])]
      /\ stage' = [stage EXCEPT ![a] = "taken"]
      /\ UNCHANGED <<value, err, call, made, awaited, sent, mark>>
  BY DEF Take
<1>2. /\ job[a] = None /\ queue[a] \in Seq(Jobs) /\ sent[a] \in Seq(Jobs) /\ Len(queue[a]) <= Cap
      /\ call[a] = None
  BY <1>1, StageFacts
<1>3. /\ Len(queue[a]) \in Nat \ {0} /\ Head(queue[a]) \in Jobs
      /\ Tail(queue[a]) \in Seq(Jobs) /\ Len(Tail(queue[a])) = Len(queue[a]) - 1
  BY <1>1, <1>2, TailFacts
<1>4. /\ Ends(sent[a], Tail(queue[a]))
      /\ Head(queue[a]) = sent[a][Len(sent[a]) - Len(Tail(queue[a]))]
  BY <1>1, <1>2, TailEnds DEF Mirror
<1>5. /\ queue' \in [Agents -> Seq(Jobs)] /\ queue'[a] = Tail(queue[a])
      /\ job' \in [Agents -> Jobs \cup {None}] /\ job'[a] = Head(queue[a]) /\ job'[a] # None
      /\ stage' \in [Agents -> Stages] /\ stage'[a] = "taken"
      /\ \A x \in Agents : x # a => queue'[x] = queue[x] /\ job'[x] = job[x] /\ stage'[x] = stage[x]
  BY <1>1, <1>3, AgentAssumption DEF Types, Stages
<1>6. \A x \in Agents : Position(x)' = Position(x)
  <2>1. Position(a)' = Position(a)
    <3>1. Len(queue'[a]) = Len(queue[a]) - 1 /\ InHand(a) = 0 /\ InHand(a)' = 1 /\ Len(sent[a]) \in Nat
      BY <1>2, <1>3, <1>5 DEF InHand
    <3>2. \A s, q \in Nat : s - (q - 1) - 1 = s - q - 0
      OBVIOUS
    <3>3. Position(a) = Len(sent[a]) - Len(queue[a]) - 0
          /\ Position(a)' = Len(sent[a]) - (Len(queue[a]) - 1) - 1
      BY <1>1, <3>1 DEF Position
    <3>4. QED
      BY <1>3, <3>1, <3>2, <3>3
  <2>2. QED
    BY <1>1, <1>5, <2>1 DEF Position, InHand
<1>7. Types'
  <2>1. Len(queue'[a]) <= Cap
    BY <1>2, <1>3, <1>5, AgentAssumption
  <2>2. \A x \in Agents : /\ Len(queue'[x]) <= Cap
                          /\ job'[x] = None <=> stage'[x] = "idle"
                          /\ stage'[x] = "calling" <=> call'[x] # None
    <3>1. /\ job'[a] = None <=> stage'[a] = "idle"
          /\ stage'[a] = "calling" <=> call'[a] # None
      BY <1>1, <1>2, <1>5
    <3>2. ASSUME NEW x \in Agents, x # a
          PROVE  /\ Len(queue'[x]) <= Cap
                 /\ job'[x] = None <=> stage'[x] = "idle"
                 /\ stage'[x] = "calling" <=> call'[x] # None
      <4>1. queue'[x] = queue[x] /\ job'[x] = job[x] /\ stage'[x] = stage[x] /\ call'[x] = call[x]
        BY <1>1, <1>5, <3>2
      <4>2. QED
        BY <4>1, StageFacts
    <3>3. QED
      <4> TAKE x \in Agents
      <4>1. CASE x = a
        BY <2>1, <3>1, <4>1
      <4>2. CASE x # a
        BY <3>2, <4>2
      <4>3. QED
        BY <4>1, <4>2
  <2>3. QED
    BY <1>1, <1>5, <2>2 DEF Types, Stages
<1>8. Mirror'
  BY <1>1, <1>4, <1>5, <1>6 DEF Mirror
<1>9. Pending' /\ Signalled'
  <2>1. \A x \in Agents : Position(x) \in Nat /\ Position(x)' \in Nat /\ Position(x)' >= Position(x)
    <3> HIDE DEF Position
    <3>1. \A x \in Agents : Position(x) \in Nat /\ Position(x)' = Position(x)
      BY <1>6 DEF Mirror
    <3>2. QED
      BY <3>1
  <2>2. QED
    BY <1>1, <1>7, <2>1, Kept
<1>10. QED
  BY <1>6, <1>7, <1>8, <1>9 DEF IInv

LEMMA LockInductive ==
    ASSUME IInv, NEW a \in Agents, Lock(a)
    PROVE  IInv'
<1>0. Types /\ Mirror /\ Pending /\ Signalled
  BY DEF IInv
<1> USE <1>0
<1>1. /\ stage[a] = "taken" /\ stage' = [stage EXCEPT ![a] = "locked"]
      /\ UNCHANGED <<queue, job, value, err, call, made, awaited, sent, mark>>
  BY DEF Lock
<1>2. Types'
  <2>1. stage' \in [Agents -> Stages] /\ stage'[a] = "locked"
        /\ \A x \in Agents : x # a => stage'[x] = stage[x]
    BY <1>1 DEF Types, Stages
  <2>2. ASSUME NEW x \in Agents
        PROVE  /\ Len(queue'[x]) <= Cap
               /\ job'[x] = None <=> stage'[x] = "idle"
               /\ stage'[x] = "calling" <=> call'[x] # None
    BY <1>1, <2>1, StageFacts
  <2>3. QED
    BY <1>1, <2>1, <2>2 DEF Types, Stages
<1>3. Mirror' /\ Pending' /\ Signalled'
  BY <1>1 DEF Mirror, Pending, Signalled, WaitsFor, Position, InHand
<1>4. QED
  BY <1>2, <1>3 DEF IInv

\* A job is over: what is known of the agent after it.
LEMMA ReleaseFacts ==
    ASSUME Types, Mirror, NEW a \in Agents, stage[a] \in {"locked", "called"}, Release(a),
           awaited' \in [Callers -> BOOLEAN]
    PROVE  /\ Types' /\ Mirror'
           /\ Position(a) \in Nat /\ Position(a)' = Position(a) + 1
           /\ \A x \in Agents : x # a => Position(x)' = Position(x) /\ Position(x) \in Nat
<1>1. /\ stage' = [stage EXCEPT ![a] = "idle"] /\ job' = [job EXCEPT ![a] = None]
      /\ UNCHANGED <<queue, call, made, sent, mark>>
  BY DEF Release
<1>2. /\ stage' \in [Agents -> Stages] /\ stage'[a] = "idle"
      /\ job' \in [Agents -> Jobs \cup {None}] /\ job'[a] = None
      /\ \A x \in Agents : x # a => job'[x] = job[x] /\ stage'[x] = stage[x]
  BY <1>1 DEF Types, Stages
<1>3. job[a] # None /\ call[a] = None
  BY StageFacts
<1>4. Types'
  <2>1. ASSUME NEW x \in Agents
        PROVE  /\ Len(queue'[x]) <= Cap
               /\ job'[x] = None <=> stage'[x] = "idle"
               /\ stage'[x] = "calling" <=> call'[x] # None
    BY <1>1, <1>2, <1>3, StageFacts
  <2>2. QED
    BY <1>1, <1>2, <2>1 DEF Types, Stages
<1>5. Position(a) \in Nat /\ Position(a)' = Position(a) + 1
  <2>1. Len(sent[a]) \in Nat /\ Len(queue[a]) \in Nat
    BY DEF Types
  <2>2. Position(a) = Len(sent[a]) - Len(queue[a]) - 1
        /\ Position(a)' = Len(sent[a]) - Len(queue[a]) - 0
    BY <1>1, <1>2, <1>3 DEF Position, InHand
  <2>3. \A s, q \in Nat : s - q - 0 = (s - q - 1) + 1
    OBVIOUS
  <2>4. QED
    BY <2>1, <2>2, <2>3 DEF Mirror
<1>6. \A x \in Agents : x # a => Position(x)' = Position(x) /\ Position(x) \in Nat
  BY <1>1, <1>2 DEF Position, InHand, Mirror
<1>7. Mirror'
  <2>1. \A x \in Agents : Position(x)' \in Nat
    <3> HIDE DEF Position
    <3>1. Position(a)' \in Nat
      BY <1>5
    <3>2. QED
      BY <1>6, <3>1, Zenon
  <2>2. QED
    BY <1>1, <1>2, <2>1 DEF Mirror
<1>8. QED
  BY <1>4, <1>5, <1>6, <1>7

LEMMA OverInductive ==
    ASSUME IInv, NEW a \in Agents, Succeed(a) \/ Throw(a) \/ Panic(a)
    PROVE  IInv'
<1>0. Types /\ Mirror /\ Pending /\ Signalled
  BY DEF IInv
<1> USE <1>0
<1>1. stage[a] \in {"locked", "called"} /\ Release(a) /\ UNCHANGED <<call, awaited, sent, mark>>
  BY DEF Succeed, Throw, Panic, Runs, Release
<1>2. awaited' \in [Callers -> BOOLEAN]
  BY <1>1 DEF Types
<1>3. /\ Types' /\ Mirror'
      /\ Position(a) \in Nat /\ Position(a)' = Position(a) + 1
      /\ \A x \in Agents : x # a => Position(x)' = Position(x) /\ Position(x) \in Nat
  BY <1>1, <1>2, ReleaseFacts
<1>4. ASSUME NEW x \in Agents
      PROVE  Position(x) \in Nat /\ Position(x)' \in Nat /\ Position(x)' >= Position(x)
  <2> HIDE DEF Position
  <2>1. CASE x = a
    BY <1>3, <2>1
  <2>2. CASE x # a
    BY <1>3, <2>2
  <2>3. QED
    BY <2>1, <2>2
<1>5. Pending' /\ Signalled'
  BY <1>1, <1>3, <1>4, Kept
<1>6. QED
  BY <1>3, <1>5 DEF IInv

\* The sentinel that runs is the one its caller waits for.
LEMMA SignalInductive ==
    ASSUME IInv, NEW a \in Agents, Signal(a)
    PROVE  IInv'
<1>0. Types /\ Mirror /\ Pending /\ Signalled
  BY DEF IInv
<1> USE <1>0
<1> DEFINE p == Len(sent[a]) - Len(queue[a])
           c == job[a].by
<1>1. /\ stage[a] = "locked" /\ job[a].does.does = "signal" /\ Release(a)
      /\ awaited' = [awaited EXCEPT ![c] = TRUE]
      /\ UNCHANGED <<queue, call, sent, mark, value, err>>
  BY DEF Signal, Runs, Release
<1>2. job[a] # None /\ job[a] \in Jobs /\ job[a] = sent[a][p]
  BY <1>1, StageFacts DEF Mirror
<1>3. job[a].does = Sentinel /\ c \in Callers
  BY <1>1, <1>2, ActFacts DEF Jobs, Callers
<1>4. /\ p \in 1..Len(sent[a]) /\ Position(a) = p - 1 /\ Position(a) \in Nat /\ p \in Nat
  <2>1. Len(sent[a]) \in Nat /\ Len(queue[a]) \in Nat
    BY DEF Types
  <2>2. Position(a) = p - 1 /\ Position(a) \in Nat
    BY <1>2 DEF Position, InHand, Mirror
  <2>3. \A s, q \in Nat : s - q - 1 \in Nat => s - q \in 1..s /\ s - q \in Nat
    OBVIOUS
  <2>4. QED
    BY <2>1, <2>2, <2>3
<1> HIDE DEF p
<1>5. call[c] = [kind |-> "awaiting", to |-> a] /\ mark[c] = p - 1
  <2>1. p > Position(a)
    BY <1>4
  <2>2. sent[a][p].does = Sentinel /\ sent[a][p].by = c
    BY <1>2, <1>3
  <2>3. QED
    BY <1>4, <2>1, <2>2, PendingFacts
<1>6. /\ awaited' \in [Callers -> BOOLEAN] /\ awaited'[c]
      /\ \A b \in Callers : b # c => awaited'[b] = awaited[b]
  BY <1>1, <1>3 DEF Types
<1>7. /\ Types' /\ Mirror'
      /\ Position(a) \in Nat /\ Position(a)' = Position(a) + 1
      /\ \A x \in Agents : x # a => Position(x)' = Position(x) /\ Position(x) \in Nat
  BY <1>1, <1>6, ReleaseFacts
<1>8. Pending'
  <2> SUFFICES ASSUME NEW x \in Agents, NEW i \in 1..Len(sent[x]),
                      i > Position(x)', sent[x][i].does = Sentinel
               PROVE  WaitsFor(sent[x][i].by, x, i)'
    BY <1>1 DEF Pending
  <2>1. i > Position(x) /\ (x = a => i # p)
    <3> HIDE DEF Position
    <3>1. i \in Nat
      OBVIOUS
    <3>2. CASE x = a
      BY <1>4, <1>7, <3>1, <3>2
    <3>3. CASE x # a
      BY <1>7, <3>3
    <3>4. QED
      BY <3>2, <3>3
  <2>2. /\ sent[x][i].by \in Callers
        /\ call[sent[x][i].by] = [kind |-> "awaiting", to |-> x]
        /\ mark[sent[x][i].by] = i - 1 /\ ~awaited[sent[x][i].by]
    BY <2>1, PendingFacts
  <2>3. sent[x][i].by # c
    <3>1. SUFFICES ASSUME sent[x][i].by = c PROVE FALSE
      OBVIOUS
    <3>2. x = a /\ i - 1 = p - 1
      BY <1>5, <2>2, <3>1
    <3>3. i = p
      BY <1>4, <3>2
    <3>4. QED
      BY <2>1, <3>2, <3>3
  <2>4. QED
    BY <1>1, <1>6, <2>2, <2>3 DEF WaitsFor
<1>9. Signalled'
  <2> SUFFICES ASSUME NEW b \in Callers, awaited'[b]
               PROVE  (call[b] \in Awaiting /\ Position(call[b].to) > mark[b])'
    BY DEF Signalled
  <2>1. PICK x \in Agents : call[b] = [kind |-> "awaiting", to |-> x] /\ Position(x)' > mark[b]
    <3>1. CASE b = c
      <4>1. Position(a)' > mark[c]
        BY <1>4, <1>5, <1>7
      <4>2. QED
        BY <1>5, <3>1, <4>1
    <3>2. CASE b # c
      <4>1. call[b] \in Awaiting /\ Position(call[b].to) > mark[b] /\ mark[b] \in Nat
        BY <1>6, <3>2 DEF Signalled, Types
      <4>2. PICK x \in Agents : call[b] = [kind |-> "awaiting", to |-> x]
        BY <4>1 DEF Awaiting
      <4>3. Position(x) > mark[b]
        BY <4>1, <4>2
      <4>4. Position(x)' > mark[b]
        BY <1>7, <4>1, <4>3
      <4>5. QED
        BY <4>2, <4>4
    <3>3. QED
      BY <3>1, <3>2
  <2>2. call'[b] \in Awaiting /\ call'[b].to = x /\ mark'[b] = mark[b]
    BY <1>1, <2>1 DEF Awaiting
  <2>3. QED
    BY <2>1, <2>2 DEF Position, InHand
<1>10. QED
  BY <1>7, <1>8, <1>9 DEF IInv

LEMMA LoopInductive ==
    ASSUME IInv, NEW a \in Agents, LoopStep(a)
    PROVE  IInv'
<1>1. CASE ActionCalls(a)
  <2> DEFINE o == job[a].does.call
  <2>0. Types
    BY DEF IInv
  <2>1. /\ stage[a] = "locked" /\ job[a].does.does = "call" /\ BeginCall(a, o)
        /\ stage' = [stage EXCEPT ![a] = "calling"]
        /\ UNCHANGED <<queue, job, value, err, awaited, sent, mark>>
    BY <1>1 DEF ActionCalls
  <2>2. job[a] \in Jobs /\ call[a] = None /\ a \in Callers
    BY <2>0, <2>1, StageFacts DEF Callers
  <2>3. o \in Call
    BY <2>1, <2>2, ActFacts DEF Jobs
  <2>4. QED
    BY <2>1, <2>2, <2>3, ClientCallsInductive
<1>2. QED
  BY <1>1, TakeInductive, LockInductive, OverInductive, SignalInductive DEF LoopStep

LEMMA Inductive == IInv /\ [Next]_vars => IInv'
<1> SUFFICES ASSUME IInv, [Next]_vars PROVE IInv'
  OBVIOUS
<1>1. ASSUME NEW c \in Clients, ClientCalls(c) PROVE IInv'
  <2>1. c \in Callers
    BY DEF Callers
  <2>2. PICK o \in Menu : BeginCall(c, o)
    BY <1>1 DEF ClientCalls
  <2>3. o \in Call
    BY AgentAssumption
  <2>4. QED
    BY <1>1, <2>1, <2>2, <2>3, ClientCallsInductive DEF ClientCalls
<1>2. ASSUME NEW c \in Callers, CallStep(c) PROVE IInv'
  BY <1>2, CallInductive
<1>3. ASSUME NEW a \in Agents, LoopStep(a) PROVE IInv'
  BY <1>3, LoopInductive
<1>4. CASE UNCHANGED vars
  <2> USE <1>4 DEF vars
  <2>1. Types /\ Mirror /\ Pending /\ Signalled
    BY DEF IInv
  <2>2. Types'
    BY <2>1 DEF Types, Stages
  <2>3. Mirror'
    BY <2>1 DEF Mirror, Position, InHand
  <2>4. Pending'
    BY <2>1 DEF Pending, WaitsFor, Position, InHand
  <2>5. Signalled'
    BY <2>1 DEF Signalled, Position, InHand
  <2>6. QED
    BY <2>2, <2>3, <2>4, <2>5 DEF IInv
<1>5. QED
  BY <1>1, <1>2, <1>3, <1>4 DEF Next

LEMMA Invariant == Spec => []IInv
  BY InitInductive, Inductive, PTL DEF Spec

-----------------------------------------------------------------------------
\* The first n of a sequence.
LEMMA FirstOf ==
    ASSUME NEW S, NEW s \in Seq(S), NEW n \in Nat, n <= Len(s)
    PROVE  /\ SubSeq(s, 1, n) \in Seq(S) /\ Len(SubSeq(s, 1, n)) = n
           /\ \A i \in 1..n : SubSeq(s, 1, n)[i] = s[i] /\ s[i] \in S
<1>1. \A i \in 1..n : s[i] \in S
  OBVIOUS
<1>2. SubSeq(s, 1, n) = [i \in 1..n |-> s[i]]
  OBVIOUS
<1>3. QED
  BY <1>1, <1>2

\* They do not depend on what comes after them ...
LEMMA FirstSame ==
    ASSUME NEW S, NEW s \in Seq(S), NEW t \in Seq(S), NEW n \in Nat, n <= Len(s), n <= Len(t),
           \A i \in 1..n : t[i] = s[i]
    PROVE  SubSeq(t, 1, n) = SubSeq(s, 1, n)
<1>1. SubSeq(s, 1, n) = [i \in 1..n |-> s[i]] /\ SubSeq(t, 1, n) = [i \in 1..n |-> t[i]]
  OBVIOUS
<1>2. QED
  BY <1>1

\* ... and one more of them is the next member.
LEMMA FirstNext ==
    ASSUME NEW S, NEW s \in Seq(S), NEW n \in Nat, n + 1 <= Len(s)
    PROVE  SubSeq(s, 1, n + 1) = Append(SubSeq(s, 1, n), s[n + 1]) /\ s[n + 1] \in S
<1> DEFINE p == SubSeq(s, 1, n)  q == SubSeq(s, 1, n + 1)  e == s[n + 1]
<1>1. n <= Len(s) /\ n + 1 \in 1..(n + 1) /\ n + 1 \in Nat
  OBVIOUS
<1>2. p \in Seq(S) /\ Len(p) = n /\ \A i \in 1..n : p[i] = s[i]
  BY <1>1, FirstOf
<1>3. q \in Seq(S) /\ Len(q) = n + 1 /\ \A i \in 1..(n + 1) : q[i] = s[i] /\ s[i] \in S
  BY <1>1, FirstOf
<1>4. e \in S /\ q[n + 1] = e
  BY <1>1, <1>3
<1> HIDE DEF p, q, e
<1>5. /\ Append(p, e) \in Seq(S) /\ Len(Append(p, e)) = n + 1 /\ Append(p, e)[n + 1] = e
      /\ \A i \in 1..n : Append(p, e)[i] = s[i]
  BY <1>2, <1>4, AppendFacts
<1>6. \A i \in 1..Len(q) : q[i] = Append(p, e)[i]
  BY <1>3, <1>4, <1>5
<1>7. q = Append(p, e)
  BY <1>3, <1>5, <1>6, SeqEqual
<1>8. QED
  BY <1>4, <1>7 DEF p, q, e

\* The jobs that are over are the first Position(a) that were sent.
LEMMA DoneIs ==
    ASSUME Types, Mirror, NEW a \in Agents
    PROVE  /\ Position(a) \in Nat /\ Position(a) <= Len(sent[a]) /\ sent[a] \in Seq(Jobs)
           /\ Done(a) = SubSeq(sent[a], 1, Position(a))
           /\ Done(a) \in Seq(Jobs) /\ Len(Done(a)) = Position(a)
<1> DEFINE n == Position(a)
<1>1. sent[a] \in Seq(Jobs) /\ Len(queue[a]) \in Nat /\ Len(sent[a]) \in Nat
  BY StageFacts
<1>2. n \in Nat /\ n <= Len(sent[a])
  <2>1. n \in Nat
    BY DEF Mirror
  <2>2. InHand(a) \in Nat
    BY DEF InHand
  <2>3. \A s, q, h \in Nat : s - q - h <= s
    OBVIOUS
  <2>4. QED
    BY <1>1, <2>1, <2>2, <2>3 DEF Position
<1>3. Done(a) = SubSeq(sent[a], 1, n)
  BY DEF Done, Position
<1> HIDE DEF n
<1>4. QED
  BY <1>1, <1>2, <1>3, FirstOf DEF n

-----------------------------------------------------------------------------
\* Every variable keeps its type; no queue ever holds more than its capacity,
\* and an agent has a job in hand exactly while it is not idle.
THEOREM TypeCorrect == Spec => []TypeOK
<1>1. IInv => TypeOK
  BY DEF IInv, Types, TypeOK, Stages
<1>2. QED
  BY <1>1, Invariant, PTL

\* When an await returns, every job sent to the agent before it, by anyone, is
\* over, whoever else awaits the agent and whatever its actions do.
THEOREM AwaitIsBarrierCorrect == Spec => AwaitIsBarrier
<1>1. IInv /\ [Next]_vars =>
        [\A c \in Callers :
           (Calling(c, "awaiting") /\ call'[c] = None) =>
               Len(Done(call[c].to)) > mark[c]]_vars
  <2> SUFFICES ASSUME IInv, Next, NEW c \in Callers,
                      call[c] # None, call[c].kind = "awaiting", call'[c] = None
               PROVE  Len(Done(call[c].to)) > mark[c]
    BY DEF Calling
  <2>0. Types /\ Mirror /\ Signalled
    BY DEF IInv
  <2>1. ASSUME NEW b \in Clients, ClientCalls(b) PROVE FALSE
    <3>1. b \in Callers /\ call[b] = None /\ \E o \in Menu : call' = [call EXCEPT ![b] = o]
      BY <2>1 DEF ClientCalls, BeginCall, Callers
    <3>2. QED
      BY <2>0, <3>1 DEF Types
  <2>2. ASSUME NEW a \in Agents, LoopStep(a) PROVE FALSE
    <3>1. CASE ActionCalls(a)
      <4>1. call[a] = None /\ \E o : call' = [call EXCEPT ![a] = o]
        BY <2>0, <3>1, StageFacts DEF ActionCalls, BeginCall
      <4>2. QED
        BY <2>0, <4>1 DEF Types
    <3>2. QED
      BY <2>2, <3>1 DEF LoopStep, Take, Lock, Succeed, Throw, Panic, Signal, Release
  <2>3. ASSUME NEW b \in Callers, CallStep(b) PROVE awaited[c]
    <3>1. CASE b = c
      BY <2>3, <3>1 DEF CallStep, Send, AwaitSend, AwaitReturn, Read, Calling
    <3>2. CASE b # c
      <4>1. \E o : call' = [call EXCEPT ![b] = o]
        BY <2>3 DEF CallStep, Send, AwaitSend, AwaitReturn, Read, Return
      <4>2. QED
        BY <2>0, <3>2, <4>1 DEF Types
    <3>3. QED
      BY <3>1, <3>2
  <2>4. call[c] \in Awaiting /\ Position(call[c].to) > mark[c]
    BY <2>0, <2>1, <2>2, <2>3 DEF Next, Signalled
  <2>5. PICK a \in Agents : a = call[c].to
    BY <2>4 DEF Awaiting
  <2>6. Len(Done(a)) = Position(a)
    BY <2>0, DoneIs
  <2>7. QED
    BY <2>4, <2>5, <2>6
<1>2. QED
  BY <1>1, Invariant, PTL DEF Spec, AwaitIsBarrier

-----------------------------------------------------------------------------
\* What Picked computes.  The recursion has a solution, and only one, by
\* induction; the induction rests on the finite subsets of Nat being well
\* founded under inclusion.
IsPick(f, s, kinds, n) ==
    f = [i \in 0..n |-> IF i = 0 THEN <<>>
                        ELSE IF s[i].does.does \in kinds THEN Append(f[i - 1], s[i])
                        ELSE f[i - 1]]

\* A set of natural numbers has a least member.
LEMMA LeastNat ==
  ASSUME NEW T \in SUBSET Nat, T # {}
  PROVE \E x \in T : \A y \in T : x <= y
<1> DEFINE U == {0..x : x \in T}
<1>1. U \subseteq FiniteSubsetsOf(Nat) /\ U # {}
  <2>1. \A x \in T : 0..x \subseteq Nat /\ IsFiniteSet(0..x)
    BY FS_Interval
  <2>2. QED
   BY <2>1 DEF FiniteSubsetsOf
<1>2. PICK X \in U : \A Y \in U : ~(<<Y, X>> \in StrictSubsetOrdering(Nat))
  <2> HIDE DEF U
  <2> QED
  BY <1>1, FS_StrictSubsetOrderingWellFounded, WFMin, Zenon
<1>3. PICK x \in T : X = 0..x
  OBVIOUS
<1>4. ASSUME NEW y \in T, y < x PROVE FALSE
  <2>1. 0..y \subseteq 0..x /\ x \in 0..x /\ x \notin 0..y
    BY <1>4
  <2>2. 0..y \in U /\ 0..y \subseteq Nat /\ 0..x \subseteq Nat
    OBVIOUS
  <2>3. <<0..y, X>> \in StrictSubsetOrdering(Nat)
    BY <1>3, <2>1, <2>2 DEF StrictSubsetOrdering
  <2>4. QED
    BY <1>2, <2>2, <2>3
<1>5. QED
  BY <1>4


\* Induction, for sets.
LEMMA NatInd ==
    ASSUME NEW S, 0 \in S, \A n \in Nat : n \in S => n + 1 \in S
    PROVE  Nat \subseteq S
<1> SUFFICES ASSUME NEW m \in Nat \ S PROVE FALSE
  OBVIOUS
<1>1. PICK x \in Nat \ S : \A y \in Nat \ S : x <= y
  BY LeastNat
<1>2. x # 0 /\ x - 1 \in Nat
  BY <1>1
<1>3. x - 1 \in S
  BY <1>1, <1>2
<1>4. QED
  BY <1>1, <1>2, <1>3


\* The recursion of Picked over the first n of s has a solution ...
LEMMA PickExists ==
    ASSUME NEW s, NEW kinds, NEW m \in Nat
    PROVE  \E f : IsPick(f, s, kinds, m)
<1> DEFINE S == {n \in Nat : \E f : IsPick(f, s, kinds, n)}
<1>1. 0 \in S
  <2> DEFINE f == [i \in 0..0 |-> <<>>]
  <2>1. \A i \in 0..0 : i = 0
    OBVIOUS
  <2>2. IsPick(f, s, kinds, 0)
    BY <2>1 DEF IsPick
  <2>3. QED
    BY <2>2
<1>2. ASSUME NEW n \in Nat, n \in S PROVE n + 1 \in S
  <2>1. PICK f : IsPick(f, s, kinds, n)
    BY <1>2
  <2> DEFINE g == [i \in 0..n + 1 |->
                     IF i # n + 1 THEN f[i]
                     ELSE IF s[n + 1].does.does \in kinds THEN Append(f[n], s[n + 1]) ELSE f[n]]
  <2>2. \A i \in 0..n : i # n + 1 /\ i \in 0..n + 1 /\ g[i] = f[i]
    OBVIOUS
  <2>3. n + 1 \in 0..n + 1 /\ g[n + 1] = IF s[n + 1].does.does \in kinds
                                         THEN Append(f[n], s[n + 1]) ELSE f[n]
    OBVIOUS
  <2>d. g = [i \in 0..n + 1 |-> g[i]]
    OBVIOUS
  <2> HIDE DEF g
  <2>4. ASSUME NEW i \in 0..n + 1
        PROVE  g[i] = IF i = 0 THEN <<>>
                      ELSE IF s[i].does.does \in kinds THEN Append(g[i - 1], s[i])
                      ELSE g[i - 1]
    <3>1. CASE i = n + 1
      <4>1. i # 0 /\ i - 1 = n /\ n \in 0..n
        BY <3>1
      <4>2. g[i - 1] = f[n]
        BY <2>2, <4>1
      <4>3. QED
        BY <2>3, <3>1, <4>1, <4>2
    <3>2. CASE i # n + 1
      <4>1. i \in 0..n /\ (i # 0 => i - 1 \in 0..n)
        BY <3>2
      <4>2. f[i] = IF i = 0 THEN <<>>
                   ELSE IF s[i].does.does \in kinds THEN Append(f[i - 1], s[i])
                   ELSE f[i - 1]
        BY <2>1, <4>1 DEF IsPick
      <4>3. g[i] = f[i] /\ (i # 0 => g[i - 1] = f[i - 1])
        BY <2>2, <4>1
      <4>4. QED
        BY <4>2, <4>3
    <3>3. QED
      BY <3>1, <3>2
  <2>5. IsPick(g, s, kinds, n + 1)
    BY <2>d, <2>4 DEF IsPick
  <2>6. QED
    BY <2>5
<1> HIDE DEF S
<1>3. Nat \subseteq S
  BY <1>1, <1>2, NatInd
<1>4. QED
  BY <1>3 DEF S

\* ... that depends on those alone, and picks members of s.
LEMMA PickAt ==
    ASSUME NEW f, NEW s, NEW kinds, NEW n \in Nat, IsPick(f, s, kinds, n), NEW i \in 0..n
    PROVE  f[i] = IF i = 0 THEN <<>>
                  ELSE IF s[i].does.does \in kinds THEN Append(f[i - 1], s[i])
                  ELSE f[i - 1]
BY DEF IsPick

LEMMA PickAgrees ==
    ASSUME NEW f, NEW g, NEW s, NEW t, NEW kinds, NEW n \in Nat, NEW m \in Nat, n <= m,
           IsPick(f, s, kinds, n), IsPick(g, t, kinds, m), \A i \in 1..n : s[i] = t[i]
    PROVE  f[n] = g[n]
<1> DEFINE S == {i \in Nat : i <= n => f[i] = g[i]}
<1>1. 0 \in S
  <2>1. f[0] = <<>> /\ g[0] = <<>>
    BY PickAt
  <2>2. QED
    BY <2>1
<1>2. ASSUME NEW i \in Nat, i \in S PROVE i + 1 \in S
  <2> SUFFICES ASSUME i + 1 <= n PROVE f[i + 1] = g[i + 1]
    OBVIOUS
  <2>1. /\ i + 1 \in 0..n /\ i + 1 \in 0..m /\ i + 1 \in 1..n
        /\ i + 1 # 0 /\ (i + 1) - 1 = i
    OBVIOUS
  <2>2. f[i] = g[i] /\ s[i + 1] = t[i + 1]
    BY <1>2, <2>1
  <2>3. f[i + 1] = IF s[i + 1].does.does \in kinds THEN Append(f[i], s[i + 1]) ELSE f[i]
    BY <2>1, PickAt
  <2>4. g[i + 1] = IF t[i + 1].does.does \in kinds THEN Append(g[i], t[i + 1]) ELSE g[i]
    BY <2>1, PickAt
  <2>5. QED
    BY <2>2, <2>3, <2>4
<1> HIDE DEF S
<1>3. Nat \subseteq S
  BY <1>1, <1>2, NatInd
<1>4. QED
  BY <1>3 DEF S

LEMMA PickTyped ==
    ASSUME NEW S, NEW f, NEW s, NEW kinds, NEW n \in Nat, IsPick(f, s, kinds, n),
           \A i \in 1..n : s[i] \in S
    PROVE  f[n] \in Seq(S)
<1> DEFINE T == {i \in Nat : i <= n => f[i] \in Seq(S)}
<1>1. 0 \in T
  <2>1. f[0] = <<>>
    BY PickAt
  <2>2. <<>> \in Seq(S)
    OBVIOUS
  <2>3. QED
    BY <2>1, <2>2
<1>2. ASSUME NEW i \in Nat, i \in T PROVE i + 1 \in T
  <2> SUFFICES ASSUME i + 1 <= n PROVE f[i + 1] \in Seq(S)
    OBVIOUS
  <2>1. i + 1 \in 0..n /\ i + 1 \in 1..n /\ i + 1 # 0 /\ (i + 1) - 1 = i
    OBVIOUS
  <2>2. f[i] \in Seq(S) /\ s[i + 1] \in S
    BY <1>2, <2>1
  <2>3. f[i + 1] = IF s[i + 1].does.does \in kinds THEN Append(f[i], s[i + 1]) ELSE f[i]
    BY <2>1, PickAt
  <2>4. QED
    BY <2>2, <2>3
<1> HIDE DEF T
<1>3. Nat \subseteq T
  BY <1>1, <1>2, NatInd
<1>4. QED
  BY <1>3 DEF T

LEMMA PickedIs ==
    ASSUME NEW S, NEW s \in Seq(S), NEW kinds
    PROVE  \E f : IsPick(f, s, kinds, Len(s)) /\ Picked(s, kinds) = f[Len(s)]
<1>1. Len(s) \in Nat
  OBVIOUS
<1>2. \E f : IsPick(f, s, kinds, Len(s))
  BY <1>1, PickExists
<1>3. Picked(s, kinds) = (CHOOSE f : IsPick(f, s, kinds, Len(s)))[Len(s)]
  BY DEF Picked, IsPick
<1>4. QED
  BY <1>2, <1>3

\* What Picked is: nothing of nothing, and one job more, or not, of a sequence
\* with one job more.
LEMMA PickedEmpty ==
    ASSUME NEW s, Len(s) = 0, NEW kinds
    PROVE  Picked(s, kinds) = <<>>
<1>1. PICK f : IsPick(f, s, kinds, 0)
  BY PickExists
<1>2. \A g : IsPick(g, s, kinds, 0) => g[0] = <<>>
  BY PickAt
<1>3. Picked(s, kinds) = (CHOOSE g : IsPick(g, s, kinds, 0))[0]
  BY DEF Picked, IsPick
<1>4. QED
  BY <1>1, <1>2, <1>3

LEMMA PickedTyped ==
    ASSUME NEW S, NEW s \in Seq(S), NEW kinds
    PROVE  Picked(s, kinds) \in Seq(S)
<1>1. PICK f : IsPick(f, s, kinds, Len(s)) /\ Picked(s, kinds) = f[Len(s)]
  BY PickedIs
<1>2. Len(s) \in Nat /\ \A i \in 1..Len(s) : s[i] \in S
  OBVIOUS
<1>3. QED
  BY <1>1, <1>2, PickTyped

LEMMA PickedAppend ==
    ASSUME NEW S, NEW s \in Seq(S), NEW e \in S, NEW kinds
    PROVE  Picked(Append(s, e), kinds) =
             IF e.does.does \in kinds THEN Append(Picked(s, kinds), e) ELSE Picked(s, kinds)
<1> DEFINE t == Append(s, e)  n == Len(s)
<1>1. /\ t \in Seq(S) /\ Len(t) = n + 1 /\ n \in Nat /\ t[n + 1] = e
      /\ \A i \in 1..n : s[i] = t[i]
  OBVIOUS
<1>2. PICK f : IsPick(f, s, kinds, n) /\ Picked(s, kinds) = f[n]
  BY PickedIs
<1> HIDE DEF t, n
<1>3. PICK g : IsPick(g, t, kinds, n + 1) /\ Picked(t, kinds) = g[n + 1]
  BY <1>1, PickedIs
<1>4. n <= n + 1 /\ n + 1 \in Nat
  BY <1>1
<1>5. f[n] = g[n]
  BY <1>1, <1>2, <1>3, <1>4, PickAgrees
<1>6. n + 1 \in 0..n + 1 /\ n + 1 # 0 /\ (n + 1) - 1 = n
  BY <1>1
<1>7. g[n + 1] = IF e.does.does \in kinds THEN Append(g[n], e) ELSE g[n]
  BY <1>1, <1>3, <1>4, <1>6, PickAt
<1>8. QED
  BY <1>2, <1>3, <1>5, <1>7 DEF t

-----------------------------------------------------------------------------
\* The jobs that are over, from step to step.
\* A step that ends no job of a leaves the jobs that are over as they were ...
LEMMA DoneKept ==
    ASSUME Types, Mirror, sent' \in [Agents -> Seq(Jobs)],
           NEW a \in Agents, Position(a)' = Position(a),
           Len(sent[a]) <= Len(sent'[a]),
           \A i \in 1..Len(sent[a]) : sent'[a][i] = sent[a][i]
    PROVE  Done(a)' = Done(a)
<1> DEFINE n == Position(a)
<1>1. /\ n \in Nat /\ n <= Len(sent[a]) /\ sent[a] \in Seq(Jobs)
      /\ Done(a) = SubSeq(sent[a], 1, n)
  BY DoneIs
<1>2. Done(a)' = SubSeq(sent'[a], 1, n)
  BY DEF Done, Position
<1> HIDE DEF n
<1>3. PICK s \in Seq(Jobs), t \in Seq(Jobs) : s = sent[a] /\ t = sent'[a]
  BY <1>1
<1>4. Len(s) \in Nat /\ Len(t) \in Nat /\ n <= Len(s) /\ Len(s) <= Len(t)
  BY <1>1, <1>3
<1>5. n <= Len(t) /\ \A i \in 1..n : t[i] = s[i]
  BY <1>1, <1>3, <1>4
<1>6. SubSeq(t, 1, n) = SubSeq(s, 1, n)
  BY <1>1, <1>4, <1>5, FirstSame
<1>7. QED
  BY <1>1, <1>2, <1>3, <1>6

\* ... and one that ends the job in hand adds that job to them.
LEMMA DoneGrows ==
    ASSUME Types, Mirror, NEW a \in Agents, job[a] # None, UNCHANGED sent,
           Position(a)' = Position(a) + 1
    PROVE  /\ Done(a)' = Append(Done(a), job[a]) /\ job[a] \in Jobs
           /\ Done(a) \in Seq(Jobs)
<1> DEFINE n == Position(a)
<1>1. /\ n \in Nat /\ n <= Len(sent[a]) /\ sent[a] \in Seq(Jobs)
      /\ Done(a) = SubSeq(sent[a], 1, n) /\ Done(a) \in Seq(Jobs)
  BY DoneIs
<1>2. Done(a)' = SubSeq(sent[a], 1, n + 1)
  BY DEF Done, Position
<1>3. n + 1 <= Len(sent[a]) /\ job[a] = sent[a][n + 1]
  <2>1. Len(sent[a]) \in Nat /\ Len(queue[a]) \in Nat
    BY StageFacts
  <2>2. n = Len(sent[a]) - Len(queue[a]) - 1
    BY DEF Position, InHand
  <2>3. \A s, q \in Nat : (s - q - 1) + 1 = s - q /\ s - q <= s
    OBVIOUS
  <2>4. job[a] = sent[a][Len(sent[a]) - Len(queue[a])]
    BY DEF Mirror
  <2> HIDE DEF n
  <2>5. n + 1 = Len(sent[a]) - Len(queue[a]) /\ n + 1 <= Len(sent[a])
    BY <2>1, <2>2, <2>3
  <2>6. QED
    BY <2>4, <2>5
<1> HIDE DEF n
<1>4. PICK s \in Seq(Jobs) : s = sent[a]
  BY <1>1
<1>5. SubSeq(s, 1, n + 1) = Append(SubSeq(s, 1, n), s[n + 1]) /\ s[n + 1] \in Jobs
  BY <1>1, <1>3, <1>4, FirstNext
<1>6. QED
  BY <1>1, <1>2, <1>3, <1>4, <1>5

-----------------------------------------------------------------------------
\* The value and the error of a are what the jobs s make of them.
Made(s, v, e) ==
    /\ v = Picked(s, {"succeed", "call"})
    /\ e = IF Picked(s, {"throw"}) = <<>> THEN None ELSE Last(Picked(s, {"throw"}))

\* An action that is making a call, or has made it, is one that makes a call.
Acts == \A a \in Agents : stage[a] \in {"calling", "called"} => job[a].does.does = "call"

Kinds == value \in [Agents -> Seq(Jobs)] /\ err \in [Agents -> Jobs \cup {None}]

HistoryInv == Kinds /\ Acts /\ \A a \in Agents : Made(Done(a), value[a], err[a])

LEMMA MadeByNothing ==
    ASSUME NEW s, Len(s) = 0
    PROVE  Made(s, <<>>, None)
BY PickedEmpty DEF Made

\* What one more job makes of a value and an error.
LEMMA MadeByOneMore ==
    ASSUME NEW s \in Seq(Jobs), NEW j \in Jobs, NEW v, NEW e, Made(s, v, e)
    PROVE  /\ j.does.does \in {"succeed", "call"} => Made(Append(s, j), Append(v, j), e)
           /\ j.does.does = "throw" => Made(Append(s, j), v, j)
           /\ j.does.does \in {"panic", "signal"} => Made(Append(s, j), v, e)
<1> DEFINE good == {"succeed", "call"}  bad == {"throw"}
<1>1. /\ Picked(Append(s, j), good) = IF j.does.does \in good THEN Append(Picked(s, good), j)
                                      ELSE Picked(s, good)
      /\ Picked(Append(s, j), bad) = IF j.does.does \in bad THEN Append(Picked(s, bad), j)
                                     ELSE Picked(s, bad)
  BY PickedAppend
<1>2. PICK p \in Seq(Jobs) : p = Picked(s, bad)
  BY PickedTyped
<1>3. Append(p, j) # <<>> /\ Last(Append(p, j)) = j
  <2>1. Append(p, j) \in Seq(Jobs) /\ Len(Append(p, j)) = Len(p) + 1 /\ Len(p) \in Nat
        /\ Append(p, j)[Len(p) + 1] = j
    BY AppendFacts
  <2>2. Len(<<>>) = 0
    OBVIOUS
  <2>3. QED
    BY <2>1, <2>2 DEF Last
<1>4. v = Picked(s, good) /\ e = IF p = <<>> THEN None ELSE Last(p)
  BY <1>2 DEF Made
<1>5. ASSUME j.does.does \in {"succeed", "call"} PROVE Made(Append(s, j), Append(v, j), e)
  <2>1. Picked(Append(s, j), good) = Append(v, j) /\ Picked(Append(s, j), bad) = p
    BY <1>1, <1>2, <1>4, <1>5
  <2>2. QED
    BY <1>4, <2>1 DEF Made
<1>6. ASSUME j.does.does = "throw" PROVE Made(Append(s, j), v, j)
  <2>1. Picked(Append(s, j), good) = v /\ Picked(Append(s, j), bad) = Append(p, j)
    BY <1>1, <1>2, <1>4, <1>6
  <2>2. QED
    BY <1>3, <2>1 DEF Made
<1>7. ASSUME j.does.does \in {"panic", "signal"} PROVE Made(Append(s, j), v, e)
  <2>1. Picked(Append(s, j), good) = v /\ Picked(Append(s, j), bad) = p
    BY <1>1, <1>2, <1>4, <1>7
  <2>2. QED
    BY <1>4, <2>1 DEF Made
<1>8. QED
  BY <1>5, <1>6, <1>7

\* A step that ends no job makes nothing of values and errors.
LEMMA HistoryKept ==
    ASSUME HistoryInv, \A a \in Agents : Done(a)' = Done(a), Acts', UNCHANGED <<value, err>>
    PROVE  HistoryInv'
BY DEF HistoryInv, Kinds

\* The end of a call leaves an action that makes a call in its place.
LEMMA ReturnActs ==
    ASSUME Types, Acts, NEW c \in Callers, call[c] # None, Return(c), UNCHANGED job
    PROVE  Acts'
<1>1. ASSUME NEW a \in Agents, stage'[a] \in {"calling", "called"} PROVE stage[a] \in {"calling", "called"}
  <2>1. CASE a = c
    BY <2>1, StageFacts
  <2>2. CASE a # c
    BY <1>1, <2>2 DEF Return
  <2>3. QED
    BY <2>1, <2>2
<1>2. QED
  BY <1>1 DEF Acts

\* A job is put in a queue: those that are over are the same.
LEMMA DoneAfterEnqueue ==
    ASSUME Types, Mirror, NEW t \in Agents, NEW j \in Jobs, Len(queue[t]) < Cap,
           Enqueue(t, j), UNCHANGED job
    PROVE  \A a \in Agents : Done(a)' = Done(a)
<1>1. /\ sent' \in [Agents -> Seq(Jobs)]
      /\ \A a \in Agents : Position(a)' = Position(a)
      /\ \A a \in Agents : a # t => sent'[a] = sent[a]
      /\ Len(sent[t]) \in Nat /\ Len(sent'[t]) = Len(sent[t]) + 1
      /\ \A i \in 1..Len(sent[t]) : sent'[t][i] = sent[t][i]
  BY EnqueueFacts
<1>2. ASSUME NEW a \in Agents
      PROVE  /\ Len(sent[a]) <= Len(sent'[a])
             /\ \A i \in 1..Len(sent[a]) : sent'[a][i] = sent[a][i]
  <2>1. CASE a = t
    BY <1>1, <2>1
  <2>2. CASE a # t
    BY <1>1, <2>2, StageFacts
  <2>3. QED
    BY <2>1, <2>2
<1>3. QED
  <2> TAKE a \in Agents
  <2>1. Position(a)' = Position(a)
    BY <1>1
  <2>2. QED
    BY <1>1, <1>2, <2>1, DoneKept

LEMMA CallHistory ==
    ASSUME IInv, HistoryInv, NEW c \in Callers, CallStep(c)
    PROVE  HistoryInv'
<1>0. Types /\ Mirror /\ Acts
  BY DEF IInv, HistoryInv
<1> USE <1>0
<1>1. CASE Send(c)
  <2>1. /\ call[c] # None /\ call[c].kind = "send" /\ Len(queue[call[c].to]) < Cap
        /\ Enqueue(call[c].to, Job(c, call[c].act)) /\ Return(c)
        /\ UNCHANGED <<job, value, err>>
    BY <1>1 DEF Send, Calling
  <2>2. call[c].to \in Agents /\ Job(c, call[c].act) \in Jobs
    BY <2>1, CallOfCaller, JobFacts
  <2>3. \A a \in Agents : Done(a)' = Done(a)
    BY <2>1, <2>2, DoneAfterEnqueue
  <2>4. Acts'
    BY <2>1, ReturnActs
  <2>5. QED
    BY <2>1, <2>3, <2>4, HistoryKept
<1>2. CASE AwaitSend(c)
  <2>1. /\ call[c] # None /\ Len(queue[call[c].to]) < Cap
        /\ Enqueue(call[c].to, Job(c, Sentinel))
        /\ UNCHANGED <<stage, job, value, err>>
    BY <1>2 DEF AwaitSend, Calling
  <2>2. call[c].to \in Agents /\ Job(c, Sentinel) \in Jobs
    BY <2>1, CallOfCaller, JobFacts
  <2>3. \A a \in Agents : Done(a)' = Done(a)
    BY <2>1, <2>2, DoneAfterEnqueue
  <2>4. Acts'
    BY <2>1 DEF Acts
  <2>5. QED
    BY <2>1, <2>3, <2>4, HistoryKept
<1>3. CASE AwaitReturn(c) \/ Read(c)
  <2>1. call[c] # None /\ Return(c) /\ UNCHANGED <<queue, job, value, err, sent>>
    BY <1>3 DEF AwaitReturn, Read, Calling
  <2>2. \A a \in Agents : Done(a)' = Done(a)
    BY <2>1 DEF Done, InHand
  <2>3. Acts'
    BY <2>1, ReturnActs
  <2>4. QED
    BY <2>1, <2>2, <2>3, HistoryKept
<1>4. QED
  BY <1>1, <1>2, <1>3 DEF CallStep

\* The goroutine of a takes a job, or gets on with it.
LEMMA TakeHistory ==
    ASSUME IInv, HistoryInv, NEW a \in Agents, Take(a)
    PROVE  HistoryInv'
<1>0. Types /\ Mirror /\ Acts
  BY DEF IInv, HistoryInv
<1>1. /\ job' = [job EXCEPT ![a] = Head(queue[a])]
      /\ stage' = [stage EXCEPT ![a] = "taken"]
      /\ UNCHANGED <<value, err, sent>>
  BY DEF Take
<1>2. \A x \in Agents : Position(x)' = Position(x)
  BY TakeInductive
<1>3. \A x \in Agents : Done(x)' = Done(x)
  <2> TAKE x \in Agents
  <2>1. Position(x)' = Position(x)
    BY <1>2
  <2>2. Done(x)' = SubSeq(sent[x], 1, Position(x)') /\ Done(x) = SubSeq(sent[x], 1, Position(x))
    BY <1>1 DEF Done, Position
  <2> QED
    BY <2>1, <2>2
<1>4. Acts'
  BY <1>0, <1>1 DEF Acts, Types
<1>5. QED
  BY <1>1, <1>3, <1>4, HistoryKept

LEMMA LockHistory ==
    ASSUME IInv, HistoryInv, NEW a \in Agents, Lock(a) \/ ActionCalls(a)
    PROVE  HistoryInv'
<1>0. Types /\ Acts
  BY DEF IInv, HistoryInv
<1>1. UNCHANGED <<queue, job, value, err, sent>>
  BY DEF Lock, ActionCalls
<1>2. \A x \in Agents : Done(x)' = Done(x)
  BY <1>1 DEF Done, InHand
<1>3. Acts'
  BY <1>0 DEF Acts, Types, Lock, ActionCalls
<1>4. QED
  BY <1>1, <1>2, <1>3, HistoryKept

\* The job in hand is over.
LEMMA OverHistory ==
    ASSUME IInv, HistoryInv, NEW a \in Agents,
           Succeed(a) \/ Throw(a) \/ Panic(a) \/ Signal(a)
    PROVE  HistoryInv'
<1>0. Types /\ Mirror /\ Acts
  BY DEF IInv, HistoryInv
<1>1. stage[a] \in {"locked", "called"} /\ Release(a)
  BY DEF Succeed, Throw, Panic, Signal, Runs
<1>2. awaited' \in [Callers -> BOOLEAN]
  BY <1>0 DEF Succeed, Throw, Panic, Signal, Types
<1>3. /\ Position(a)' = Position(a) + 1
      /\ \A x \in Agents : x # a => Position(x)' = Position(x)
  BY <1>0, <1>1, <1>2, ReleaseFacts
<1>4. job[a] # None /\ UNCHANGED sent
  BY <1>0, <1>1, StageFacts DEF Release
<1>5. Done(a)' = Append(Done(a), job[a]) /\ job[a] \in Jobs /\ Done(a) \in Seq(Jobs)
  BY <1>0, <1>3, <1>4, DoneGrows
<1>6. \A x \in Agents : x # a => Done(x)' = Done(x)
  <2> SUFFICES ASSUME NEW x \in Agents, x # a PROVE Done(x)' = Done(x)
    OBVIOUS
  <2>1. Done(x)' = SubSeq(sent[x], 1, Position(x)') /\ Done(x) = SubSeq(sent[x], 1, Position(x))
    BY <1>4 DEF Done, Position
  <2>2. Position(x)' = Position(x)
    BY <1>3
  <2>3. QED
    BY <2>1, <2>2
<1>t. value \in [Agents -> Seq(Jobs)] /\ err \in [Agents -> Jobs \cup {None}]
  BY DEF HistoryInv, Kinds
<1>7. \A x \in Agents : x # a => value'[x] = value[x] /\ err'[x] = err[x]
  BY <1>t DEF Succeed, Throw, Panic, Signal
<1>8. Made(Append(Done(a), job[a]), value'[a], err'[a])
  <2>0. Made(Done(a), value[a], err[a])
    BY DEF HistoryInv
  <2>1. PICK s \in Seq(Jobs), j \in Jobs : s = Done(a) /\ j = job[a]
    BY <1>5
  <2>2. /\ j.does.does \in {"succeed", "call"} => Made(Append(s, j), Append(value[a], j), err[a])
        /\ j.does.does = "throw" => Made(Append(s, j), value[a], j)
        /\ j.does.does \in {"panic", "signal"} => Made(Append(s, j), value[a], err[a])
    BY <2>0, <2>1, MadeByOneMore
  <2>3. CASE Succeed(a)
    <3>1. j.does.does \in {"succeed", "call"}
      BY <1>0, <2>1, <2>3 DEF Succeed, Runs, Acts
    <3>2. value'[a] = Append(value[a], j) /\ err'[a] = err[a]
      BY <1>t, <2>1, <2>3 DEF Succeed
    <3>3. QED
      BY <2>1, <2>2, <3>1, <3>2
  <2>4. CASE Throw(a)
    <3>1. j.does.does = "throw" /\ value'[a] = value[a] /\ err'[a] = j
      BY <1>t, <2>1, <2>4 DEF Throw, Runs
    <3>2. QED
      BY <2>1, <2>2, <3>1
  <2>5. CASE Panic(a) \/ Signal(a)
    <3>1. j.does.does \in {"panic", "signal"} /\ value'[a] = value[a] /\ err'[a] = err[a]
      BY <2>1, <2>5 DEF Panic, Signal, Runs
    <3>2. QED
      BY <2>1, <2>2, <3>1
  <2>6. QED
    BY <2>3, <2>4, <2>5
<1>9. Acts'
  BY <1>0, <1>1 DEF Acts, Types, Release
<1>10. Kinds'
  <2>1. Append(value[a], job[a]) \in Seq(Jobs)
    BY <1>5, <1>t, AppendFacts
  <2>2. QED
    BY <1>5, <1>t, <2>1 DEF Kinds, Succeed, Throw, Panic, Signal
<1>11. QED
  BY <1>5, <1>6, <1>7, <1>8, <1>9, <1>10 DEF HistoryInv

LEMMA HistoryInit == Init => HistoryInv
<1> SUFFICES ASSUME Init PROVE HistoryInv
  OBVIOUS
<1>1. \A a \in Agents : Len(Done(a)) = 0
  <2> TAKE a \in Agents
  <2>1. IInv
    BY InitInductive
  <2>2. Position(a) \in Nat /\ Position(a) <= Len(sent[a]) /\ Len(Done(a)) = Position(a)
    BY <2>1, DoneIs DEF IInv
  <2>3. Len(sent[a]) = 0
    BY DEF Init
  <2> HIDE DEF Position
  <2>4. QED
    BY <2>2, <2>3
<1>2. ASSUME NEW a \in Agents PROVE Made(Done(a), value[a], err[a])
  <2>1. value[a] = <<>> /\ err[a] = None
    BY DEF Init
  <2>2. QED
    BY <1>1, <2>1, MadeByNothing
<1>3. Acts
  BY DEF Init, Acts
<1>4. Kinds
  <2>1. <<>> \in Seq(Jobs)
    OBVIOUS
  <2>2. QED
    BY <2>1 DEF Init, Kinds
<1>5. QED
  BY <1>2, <1>3, <1>4 DEF HistoryInv

LEMMA HistoryInductive == IInv /\ HistoryInv /\ [Next]_vars => HistoryInv'
<1> SUFFICES ASSUME IInv, HistoryInv, [Next]_vars PROVE HistoryInv'
  OBVIOUS
<1>1. CASE (\E c \in Clients : ClientCalls(c)) \/ UNCHANGED vars
  <2>1. UNCHANGED <<queue, stage, job, value, err, sent>>
    BY <1>1 DEF ClientCalls, vars
  <2>2. \A a \in Agents : Done(a)' = Done(a)
    BY <2>1 DEF Done, InHand
  <2>3. Acts'
    BY <2>1 DEF HistoryInv, Acts
  <2>4. QED
    BY <2>1, <2>2, <2>3, HistoryKept
<1>2. ASSUME NEW c \in Callers, CallStep(c) PROVE HistoryInv'
  BY <1>2, CallHistory
<1>3. ASSUME NEW a \in Agents, LoopStep(a) PROVE HistoryInv'
  BY <1>3, TakeHistory, LockHistory, OverHistory DEF LoopStep
<1>4. QED
  BY <1>1, <1>2, <1>3 DEF Next

\* The value of an agent is made of exactly the actions that succeeded, each
\* once and in the order they were sent, whoever sent them; its error is that
\* of the last action that threw.  Actions that fail, panic or wait for other
\* agents neither stop the goroutine of the agent nor touch its value.
THEOREM ValueIsHistoryCorrect == Spec => []ValueIsHistory
<1>1. HistoryInv => ValueIsHistory
  BY DEF HistoryInv, Made, ValueIsHistory, Does
<1>2. QED
  BY <1>1, Invariant, HistoryInit, HistoryInductive, PTL DEF Spec

-----------------------------------------------------------------------------
\* The sentinel that c waits for at a was sent right behind what its mark counts,
\* and is not over.
AwaitsAt(c, a) == call[c] = [kind |-> "awaiting", to |-> a] /\ ~awaited[c]

OwedBy(c, a) ==
    /\ mark[c] < Len(sent[a]) /\ Position(a) <= mark[c]
    /\ sent[a][mark[c] + 1].by = c /\ sent[a][mark[c] + 1].does = Sentinel

Owed == \A c \in Callers, a \in Agents : AwaitsAt(c, a) => OwedBy(c, a)

LEMMA OwedStays ==
    ASSUME Types, NEW c \in Callers, NEW a \in Agents, OwedBy(c, a), mark'[c] = mark[c],
           Len(sent[a]) <= Len(sent'[a]), Len(sent'[a]) \in Nat,
           \A i \in 1..Len(sent[a]) : sent'[a][i] = sent[a][i],
           Position(a)' <= mark[c]
    PROVE  OwedBy(c, a)'
<1> HIDE DEF Position
<1>1. mark[c] \in Nat /\ Len(sent[a]) \in Nat
  BY StageFacts DEF Types
<1>2. mark[c] + 1 \in 1..Len(sent[a])
  BY <1>1 DEF OwedBy
<1>3. mark[c] < Len(sent'[a])
  BY <1>1, <1>2
<1>4. sent'[a][mark[c] + 1] = sent[a][mark[c] + 1]
  BY <1>2
<1>5. QED
  BY <1>3, <1>4 DEF OwedBy

\* Steps that send nothing and end no job: who awaits afterwards did so before.
LEMMA OwedKept ==
    ASSUME Types, Owed, UNCHANGED <<sent, mark>>,
           \A a \in Agents : Position(a)' = Position(a),
           \A c \in Callers, a \in Agents : AwaitsAt(c, a)' => AwaitsAt(c, a)
    PROVE  Owed'
<1> SUFFICES ASSUME NEW c \in Callers, NEW a \in Agents, AwaitsAt(c, a)'
             PROVE  OwedBy(c, a)'
  BY DEF Owed
<1>1. OwedBy(c, a)
  BY DEF Owed
<1>2. Position(a)' = Position(a)
  OBVIOUS
<1>3. QED
  BY <1>1, <1>2 DEF OwedBy

LEMMA AwaitingIsNoCall ==
    ASSUME NEW a \in Agents
    PROVE  [kind |-> "awaiting", to |-> a] \notin Call \cup {None}
<1> DEFINE w == [kind |-> "awaiting", to |-> a]
<1>1. w \in Awaiting /\ w.kind = "awaiting"
  BY DEF Awaiting
<1>2. \A o \in Call : o.kind # "awaiting"
  BY DEF Call, InnerCall
<1>3. QED
  BY <1>1, <1>2, AgentAssumption

\* The job in hand is the first that is not over.
LEMMA JobIsNext ==
    ASSUME Types, Mirror, NEW a \in Agents, job[a] # None
    PROVE  job[a] = sent[a][Position(a) + 1] /\ Position(a) \in Nat /\ Position(a) < Len(sent[a])
<1>1. Len(sent[a]) \in Nat /\ Len(queue[a]) \in Nat
  BY StageFacts
<1>2. Position(a) = Len(sent[a]) - Len(queue[a]) - 1
  BY DEF Position, InHand
<1>3. \A s, q \in Nat : (s - q - 1) + 1 = s - q /\ s - q - 1 < s
  OBVIOUS
<1>4. job[a] = sent[a][Len(sent[a]) - Len(queue[a])] /\ Position(a) \in Nat
  BY DEF Mirror
<1>5. QED
  BY <1>1, <1>2, <1>3, <1>4

LEMMA OwedByCall ==
    ASSUME IInv, Owed, NEW b \in Callers, CallStep(b)
    PROVE  Owed'
<1>0. Types /\ Mirror /\ Signalled
  BY DEF IInv
<1>1. CASE AwaitReturn(b) \/ Read(b)
  <2>1. Return(b) /\ UNCHANGED <<queue, job, sent, mark>>
        /\ \A c \in Callers : c # b => awaited'[c] = awaited[c]
    BY <1>0, <1>1 DEF AwaitReturn, Read, Types
  <2>2. \A a \in Agents : Position(a)' = Position(a)
    BY <2>1 DEF Position, InHand
  <2>3. ASSUME NEW c \in Callers, NEW a \in Agents, AwaitsAt(c, a)' PROVE AwaitsAt(c, a)
    <3>1. c # b
      BY <1>0, <2>1, <2>3, AwaitingIsNoCall DEF AwaitsAt, Return, Types
    <3>2. QED
      BY <1>0, <2>1, <2>3, <3>1 DEF AwaitsAt, Return, Types
  <2>4. QED
    BY <1>0, <2>1, <2>2, <2>3, OwedKept
<1>2. ASSUME Send(b) \/ AwaitSend(b) PROVE Owed'
  <2> DEFINE t == call[b].to
  <2>1. PICK j \in Jobs : Len(queue[t]) < Cap /\ Enqueue(t, j) /\ t \in Agents
                         /\ (AwaitSend(b) => j.by = b /\ j.does = Sentinel)
    <3>1. CASE Send(b)
      <4>1. call[b] # None /\ call[b].kind = "send"
        BY <3>1 DEF Send, Calling
      <4>2. t \in Agents /\ Job(b, call[b].act) \in Jobs
        BY <1>0, <4>1, CallOfCaller, JobFacts
      <4>3. ~AwaitSend(b)
        BY <4>1 DEF AwaitSend, Calling
      <4>4. QED
        BY <3>1, <4>2, <4>3 DEF Send
    <3>2. CASE AwaitSend(b)
      <4>1. call[b] # None
        BY <3>2 DEF AwaitSend, Calling
      <4>2. t \in Agents /\ Job(b, Sentinel) \in Jobs /\ Job(b, Sentinel).by = b
            /\ Job(b, Sentinel).does = Sentinel
        BY <1>0, <4>1, CallOfCaller, JobFacts
      <4>3. QED
        BY <3>2, <4>2 DEF AwaitSend
    <3>3. QED
      BY <1>2, <3>1, <3>2
  <2>2. UNCHANGED job /\ UNCHANGED awaited
    BY <1>2 DEF Send, AwaitSend
  <2> HIDE DEF t
  <2>3. PICK u \in Agents : u = t
    BY <2>1
  <2>4. /\ sent' \in [Agents -> Seq(Jobs)]
        /\ \A a \in Agents : Position(a)' = Position(a)
        /\ \A a \in Agents : a # u => sent'[a] = sent[a]
        /\ Len(sent[u]) \in Nat /\ Len(sent'[u]) = Len(sent[u]) + 1
        /\ sent'[u][Len(sent[u]) + 1] = j
        /\ \A i \in 1..Len(sent[u]) : sent'[u][i] = sent[u][i]
    BY <1>0, <2>1, <2>2, <2>3, EnqueueFacts
  <2> SUFFICES ASSUME NEW c \in Callers, NEW a \in Agents, AwaitsAt(c, a)'
               PROVE  OwedBy(c, a)'
    BY DEF Owed
  <2>5. CASE c # b
    <3>1. call'[c] = call[c] /\ mark'[c] = mark[c]
      BY <1>0, <1>2, <2>5 DEF Send, AwaitSend, Return, Types
    <3>2. OwedBy(c, a)
      BY <2>2, <3>1 DEF Owed, AwaitsAt
    <3>3. /\ Len(sent[a]) <= Len(sent'[a]) /\ Len(sent'[a]) \in Nat
          /\ \A i \in 1..Len(sent[a]) : sent'[a][i] = sent[a][i]
      <4>1. CASE a = u
        BY <2>4, <4>1
      <4>2. CASE a # u
        BY <1>0, <2>4, <4>2, StageFacts
      <4>3. QED
        BY <4>1, <4>2
    <3>4. Position(a)' <= mark[c]
      <4> HIDE DEF Position
      <4>1. Position(a)' = Position(a) /\ Position(a) <= mark[c]
        BY <2>4, <3>2 DEF OwedBy
      <4>2. QED
        BY <4>1
    <3>5. QED
      BY <1>0, <3>1, <3>2, <3>3, <3>4, OwedStays
  <2>6. CASE c = b
    <3>1. AwaitSend(b)
      <4>1. call'[b] # None
        BY <2>6, AwaitingIsNoCall DEF AwaitsAt
      <4>2. ~Send(b)
        BY <1>0, <4>1 DEF Send, Return, Types
      <4>3. QED
        BY <1>2, <4>2
    <3>2. call'[b] = [kind |-> "awaiting", to |-> u] /\ mark'[b] = Len(sent[u])
      BY <1>0, <2>3, <3>1 DEF AwaitSend, Types, t
    <3>3. a = u
      BY <2>6, <3>2 DEF AwaitsAt
    <3>4. Position(u)' <= Len(sent[u])
      <4> HIDE DEF Position
      <4>1. Position(u)' = Position(u) /\ Position(u) <= Len(sent[u])
        BY <1>0, <2>4, DoneIs
      <4>2. QED
        BY <4>1
    <3>5. Len(sent[u]) < Len(sent'[u]) /\ sent'[u][Len(sent[u]) + 1].by = b
          /\ sent'[u][Len(sent[u]) + 1].does = Sentinel
      BY <2>1, <2>4, <3>1
    <3>6. QED
      BY <2>6, <3>2, <3>3, <3>4, <3>5 DEF OwedBy
  <2>7. QED
    BY <2>5, <2>6
<1>3. QED
  BY <1>1, <1>2 DEF CallStep

\* A job that ends is over for who waits for it: the sentinel of c ends by telling c.
LEMMA OwedByOver ==
    ASSUME IInv, Acts, Owed, NEW b \in Agents,
           Succeed(b) \/ Throw(b) \/ Panic(b) \/ Signal(b)
    PROVE  Owed'
<1>0. Types /\ Mirror
  BY DEF IInv
<1>1. stage[b] \in {"locked", "called"} /\ Release(b) /\ UNCHANGED <<queue, call, sent, mark>>
  BY DEF Succeed, Throw, Panic, Signal, Runs, Release
<1>2. awaited' \in [Callers -> BOOLEAN]
  BY <1>0 DEF Succeed, Throw, Panic, Signal, Types
<1>3. /\ Position(b) \in Nat /\ Position(b)' = Position(b) + 1
      /\ \A x \in Agents : x # b => Position(x)' = Position(x) /\ Position(x) \in Nat
  BY <1>0, <1>1, <1>2, ReleaseFacts
<1>4. job[b] # None /\ job[b] = sent[b][Position(b) + 1]
  <2>1. job[b] # None
    BY <1>0, <1>1, StageFacts
  <2>2. QED
    BY <1>0, <2>1, JobIsNext
<1>5. \A c \in Callers : ~awaited'[c] => ~awaited[c] /\ ~IsSentinel(job[b], c)
  <2>1. CASE Signal(b)
    BY <1>0, <1>1, <2>1 DEF Signal, Types, IsSentinel
  <2>2. CASE Succeed(b) \/ Throw(b) \/ Panic(b)
    <3>1. job[b].does.does # "signal" /\ awaited' = awaited
      BY <2>2 DEF Succeed, Throw, Panic, Runs, Acts
    <3>2. job[b].does # Sentinel
      BY <3>1 DEF Sentinel
    <3>3. QED
      BY <3>1, <3>2 DEF IsSentinel
  <2>3. QED
    BY <2>1, <2>2
<1>6. SUFFICES ASSUME NEW c \in Callers, NEW a \in Agents, AwaitsAt(c, a)'
               PROVE  OwedBy(c, a)'
  BY DEF Owed
<1>7. OwedBy(c, a) /\ ~IsSentinel(job[b], c) /\ mark[c] \in Nat
  BY <1>0, <1>1, <1>5, <1>6 DEF AwaitsAt, Owed, Types
<1>8. Position(a)' <= mark[c]
  <2>1. CASE a = b
    <3>1. Position(b) # mark[c]
      BY <1>4, <1>7, <2>1 DEF OwedBy, IsSentinel
    <3> HIDE DEF Position
    <3>2. Position(b) <= mark[c]
      BY <1>7, <2>1 DEF OwedBy
    <3>3. QED
      BY <1>3, <1>7, <2>1, <3>1, <3>2
  <2>2. CASE a # b
    <3> HIDE DEF Position
    <3>1. Position(a)' = Position(a) /\ Position(a) <= mark[c]
      BY <1>3, <1>7, <2>2 DEF OwedBy
    <3>2. QED
      BY <3>1
  <2>3. QED
    BY <2>1, <2>2
<1>9. QED
  BY <1>1, <1>7, <1>8 DEF OwedBy

LEMMA OwedInductive ==
    ASSUME IInv, HistoryInv, Owed, [Next]_vars
    PROVE  Owed'
<1>0. Types /\ Acts
  BY DEF IInv, HistoryInv
<1>1. CASE (\E b \in Clients : ClientCalls(b)) \/ (\E x \in Agents : ActionCalls(x))
  <2>1. PICK b \in Callers, o \in Call : BeginCall(b, o)
                /\ UNCHANGED <<queue, job, awaited, sent, mark>>
    <3>1. ASSUME NEW b \in Clients, ClientCalls(b)
          PROVE  \E o \in Call : BeginCall(b, o) /\ UNCHANGED <<queue, job, awaited, sent, mark>>
      BY <3>1, AgentAssumption DEF ClientCalls
    <3>2. ASSUME NEW x \in Agents, ActionCalls(x)
          PROVE  /\ job[x].does.call \in Call /\ BeginCall(x, job[x].does.call)
                 /\ UNCHANGED <<queue, job, awaited, sent, mark>>
      <4>1. job[x] \in Jobs
        BY <1>0, <3>2, StageFacts DEF ActionCalls
      <4>2. QED
        BY <3>2, <4>1, ActFacts DEF ActionCalls, Jobs
    <3>3. QED
      BY <1>1, <3>1, <3>2 DEF Callers
  <2>2. \A a \in Agents : Position(a)' = Position(a)
    BY <2>1 DEF Position, InHand
  <2>3. ASSUME NEW c \in Callers, NEW a \in Agents, AwaitsAt(c, a)' PROVE AwaitsAt(c, a)
    BY <1>0, <2>1, <2>3, AwaitingIsNoCall DEF AwaitsAt, BeginCall, Types
  <2>4. QED
    BY <1>0, <2>1, <2>2, <2>3, OwedKept
<1>2. CASE (\E a \in Agents : Take(a) \/ Lock(a)) \/ UNCHANGED vars
  <2>1. UNCHANGED <<call, awaited, sent, mark>>
    BY <1>2 DEF Take, Lock, vars
  <2>2. \A x \in Agents : Position(x)' = Position(x)
    <3>1. CASE \E a \in Agents : Take(a)
      BY <3>1, TakeInductive
    <3>2. CASE ~\E a \in Agents : Take(a)
      <4>1. UNCHANGED <<queue, job, sent>>
        BY <1>2, <3>2 DEF Lock, vars
      <4>2. QED
        BY <4>1 DEF Position, InHand
    <3>3. QED
      BY <3>1, <3>2
  <2>3. QED
    BY <1>0, <2>1, <2>2, OwedKept DEF AwaitsAt
<1>3. ASSUME NEW b \in Callers, CallStep(b) PROVE Owed'
  BY <1>3, OwedByCall
<1>4. ASSUME NEW a \in Agents, LoopStep(a) PROVE Owed'
  BY <1>0, <1>1, <1>2, <1>4, OwedByOver DEF LoopStep
<1>5. QED
  BY <1>1, <1>2, <1>3, <1>4 DEF Next

\* What was sent and is not over is in the hand of the agent or in its queue.
LEMMA NotOverIsThere ==
    ASSUME Types, Mirror, NEW a \in Agents, NEW i \in 1..Len(sent[a]), i > Position(a)
    PROVE  \/ job[a] # None /\ job[a] = sent[a][i]
           \/ \E k \in DOMAIN queue[a] : queue[a][k] = sent[a][i]
<1>1. /\ Len(sent[a]) \in Nat /\ Len(queue[a]) \in Nat /\ queue[a] \in Seq(Jobs)
      /\ DOMAIN queue[a] = 1..Len(queue[a]) /\ i \in Nat
  BY StageFacts
<1> DEFINE l == Len(sent[a])  q == Len(queue[a])
<1>2. Position(a) = l - q - InHand(a) /\ InHand(a) \in {0, 1} /\ (InHand(a) = 1 => job[a] # None)
  BY DEF Position, InHand
<1>3. /\ \A k \in 1..q : queue[a][k] = sent[a][l - q + k]
      /\ job[a] # None => job[a] = sent[a][l - q]
  BY DEF Mirror, Ends
<1> HIDE DEF l, q, Position, InHand
<1>4. l \in Nat /\ q \in Nat /\ i \in 1..l /\ DOMAIN queue[a] = 1..q
  BY <1>1 DEF l, q
<1>5. CASE i > l - q
  <2>1. \E k \in 1..q : i = l - q + k
    <3>1. i - (l - q) \in 1..q /\ i = l - q + (i - (l - q))
      BY <1>4, <1>5
    <3>2. QED
      BY <3>1
  <2>2. QED
    BY <1>3, <1>4, <2>1
<1>6. CASE ~(i > l - q)
  <2>1. InHand(a) = 1 /\ i = l - q
    BY <1>2, <1>4, <1>6
  <2>2. QED
    BY <1>2, <1>3, <2>1
<1>7. QED
  BY <1>5, <1>6

\* An await is owed its return: for all clients and agents that use one another, its
\* sentinel is never lost, passed over or taken for the sentinel of another await.
THEOREM AwaitIsOwedCorrect == Spec => []AwaitIsOwed
<1>1. Init => Owed
  BY AwaitingIsNoCall DEF Init, Owed, AwaitsAt
<1>2. IInv /\ Owed => AwaitIsOwed
  <2> SUFFICES ASSUME IInv, Owed, NEW c \in Callers, Calling(c, "awaiting"), ~awaited[c]
               PROVE  \/ IsSentinel(job[call[c].to], c)
                      \/ \E i \in DOMAIN queue[call[c].to] : IsSentinel(queue[call[c].to][i], c)
    BY DEF AwaitIsOwed
  <2>0. Types /\ Mirror
    BY DEF IInv
  <2>1. call[c] \in Awaiting
    BY <2>0, CallOfCaller DEF Calling
  <2>2. PICK a \in Agents : call[c] = [kind |-> "awaiting", to |-> a]
    BY <2>1 DEF Awaiting
  <2>3. OwedBy(c, a) /\ call[c].to = a
    BY <2>2 DEF Owed, AwaitsAt
  <2>4. mark[c] \in Nat /\ Len(sent[a]) \in Nat /\ sent[a] \in Seq(Jobs) /\ queue[a] \in Seq(Jobs)
        /\ Position(a) \in Nat
    BY <2>0, StageFacts DEF Types, Mirror
  <2>5. mark[c] + 1 \in 1..Len(sent[a]) /\ mark[c] + 1 > Position(a)
    <3> HIDE DEF Position
    <3>1. QED
      BY <2>3, <2>4 DEF OwedBy
  <2>6. \/ job[a] # None /\ job[a] = sent[a][mark[c] + 1]
        \/ \E k \in DOMAIN queue[a] : queue[a][k] = sent[a][mark[c] + 1]
    BY <2>0, <2>5, NotOverIsThere
  <2>7. sent[a][mark[c] + 1] # None
    <3>1. sent[a][mark[c] + 1] \in Jobs
      BY <2>4, <2>5
    <3>2. QED
      BY <3>1, AgentAssumption
  <2>8. IsSentinel(sent[a][mark[c] + 1], c)
    BY <2>3, <2>7 DEF OwedBy, IsSentinel
  <2>9. QED
    BY <2>3, <2>6, <2>8
<1>3. QED
  BY <1>1, <1>2, Invariant, HistoryInit, HistoryInductive, OwedInductive, PTL DEF Spec
=============================================================================
