------------------------- MODULE DelayParallelProofs -------------------------
(***************************************************************************)
(* Proofs about Delay and Parallel, the goroutines that compute a value    *)
(* others wait for.  Delay, for every set of forcers and probers: one run  *)
(* of the body at a time, one value.  Parallel, for every set of           *)
(* goroutines: lookups find the goroutine's own state, and RunParallel     *)
(* answers for all of its workers.                                         *)
(***************************************************************************)
EXTENDS Delay, Parallel, FiniteSetTheorems, TLAPS

-----------------------------------------------------------------------------
\* Delay.
-----------------------------------------------------------------------------
\* Who holds the mutex is replacing done, with no value and no run of the body
\* about; who runs the body raised the flag forcing, and is alone.
MutexInv ==
    /\ \A f \in Forcers : at[f] = "renewing" => mu = f /\ ~delivered /\ ~forcing
    /\ mu # Nobody => at[mu] = "renewing"

RunInv ==
    /\ \A f \in Forcers : InBody(f) => forcing /\ ~delivered
    /\ \A f, g \in Forcers : InBody(f) /\ InBody(g) => f = g
    /\ forcing => \E f \in Forcers : InBody(f)

\* The channels made before done are closed; done is, once it was used.
DoneInv ==
    /\ closed \subseteq 0..done
    /\ \A n \in 0..done : n # done => n \in closed
    /\ done \in closed <=> (delivered \/ mu # Nobody)

\* A value is what the force that produced it returned.
ValueInv ==
    /\ delivered => value \in Forcers /\ at[value] = "returned"
    /\ \A f \in Forcers : at[f] = "returned" => delivered /\ result[f] = value

\* A prober that began after the value was produced looks at a closed channel.
ProbeInv ==
    /\ \A p \in Probers : probe[p] = "looking" /\ since[p] => sees[p] \in closed
    /\ \A p \in Probers : probe[p] = "idle" => ~since[p]
    /\ RealizedOnceProduced

DelayInv == DelayTypeOK /\ MutexInv /\ RunInv /\ DoneInv /\ ValueInv /\ ProbeInv

-----------------------------------------------------------------------------
LEMMA DelayInitInductive == DelayInit => DelayInv
<1> SUFFICES ASSUME DelayInit PROVE DelayInv
  OBVIOUS
<1>1. DelayTypeOK
  BY DEF DelayInit, DelayTypeOK
<1>2. MutexInv /\ RunInv /\ ValueInv
  BY DEF DelayInit, MutexInv, RunInv, ValueInv, InBody
<1>3. DoneInv /\ ProbeInv
  BY DEF DelayInit, DoneInv, ProbeInv, RealizedOnceProduced
<1>4. QED
  BY <1>1, <1>2, <1>3 DEF DelayInv

\* Steps of forcers.  Each part of the invariant is disturbed by few of them.
LEMMA ForceInductive ==
    ASSUME DelayInv, NEW f \in Forcers, ForceStep(f)
    PROVE  DelayInv'
<1> USE DelayAssumption DEF MoveTo, dvars, Probing
<1>0. DelayTypeOK /\ MutexInv /\ RunInv /\ DoneInv /\ ValueInv /\ ProbeInv
  BY DEF DelayInv
<1>1. CASE Enter(f)
  <2> USE <1>1 DEF Enter
  <2>1. DelayTypeOK'
    <3>1. UNCHANGED <<mu, delivered, value, done, closed, Probing>>
      OBVIOUS
    <3>2. forcing' \in BOOLEAN
      <4>1. forcing' = forcing \/ forcing' = TRUE
        OBVIOUS
      <4>2. QED
        BY <1>0, <4>1 DEF DelayTypeOK
    <3>3. waits' \in [Forcers -> Nat]
      <4>1. done \in Nat /\ waits \in [Forcers -> Nat]
        BY <1>0 DEF DelayTypeOK
      <4>2. waits' = waits \/ waits' = [waits EXCEPT ![f] = done]
        OBVIOUS
      <4>3. QED
        BY <4>1, <4>2
    <3>4. at' \in [Forcers -> {"enter", "waiting", "running", "ran", "failed",
                             "renewing", "returned", "raised"}]
      BY <1>0 DEF DelayTypeOK
    <3>5. result' \in [Forcers -> Forcers \cup {Nobody}]
      BY <1>0 DEF DelayTypeOK
    <3>6. QED
      BY <1>0, <3>1, <3>2, <3>4, <3>5, <3>3 DEF DelayTypeOK
  <2>2. MutexInv' /\ RunInv'
    BY <1>0 DEF DelayTypeOK, MutexInv, RunInv, InBody
  <2>3. DoneInv' /\ ProbeInv'
    BY <1>0 DEF DelayTypeOK, DoneInv, ProbeInv, RealizedOnceProduced
  <2>4. ValueInv'
    BY <1>0 DEF DelayTypeOK, ValueInv
  <2>5. QED
    BY <2>1, <2>2, <2>3, <2>4 DEF DelayInv
<1>2. CASE Wake(f) \/ RunReturns(f) \/ RunPanics(f)
  <2> USE <1>2 DEF Wake, RunReturns, RunPanics
  <2>1. DelayTypeOK'
    <3>1. UNCHANGED <<dvars, waits, result, Probing>>
      OBVIOUS
    <3>2. at' \in [Forcers -> {"enter", "waiting", "running", "ran", "failed",
                             "renewing", "returned", "raised"}]
      BY <1>0 DEF DelayTypeOK
    <3>3. QED
      BY <1>0, <3>1, <3>2 DEF DelayTypeOK
  <2>2. MutexInv' /\ RunInv'
    BY <1>0 DEF DelayTypeOK, MutexInv, RunInv, InBody
  <2>3. DoneInv' /\ ProbeInv'
    <3>1. UNCHANGED <<dvars, Probing>>
      OBVIOUS
    <3>2. QED
      BY <1>0, <3>1 DEF DoneInv, ProbeInv, RealizedOnceProduced
  <2>4. ValueInv'
    BY <1>0 DEF DelayTypeOK, ValueInv
  <2>5. QED
    BY <2>1, <2>2, <2>3, <2>4 DEF DelayInv
<1>3. CASE Publish(f)
  <2> USE <1>3 DEF Publish
  <2>1. DelayTypeOK'
    BY <1>0 DEF DelayTypeOK
  <2>2. MutexInv' /\ RunInv'
    BY <1>0 DEF DelayTypeOK, MutexInv, RunInv, InBody
  <2>3. DoneInv' /\ ProbeInv'
    BY <1>0 DEF DelayTypeOK, DoneInv, ProbeInv, RealizedOnceProduced
  <2>4. ValueInv'
    <3>1. \A g \in Forcers : at[g] # "returned"
      BY <1>0 DEF DelayTypeOK, RunInv, ValueInv, InBody
    <3>2. QED
      BY <1>0, <3>1 DEF DelayTypeOK, ValueInv
  <2>5. QED
    BY <2>1, <2>2, <2>3, <2>4 DEF DelayInv
<1>4. CASE FailClose(f)
  <2> USE <1>4 DEF FailClose
  <2>1. DelayTypeOK'
    BY <1>0 DEF DelayTypeOK
  <2>2. MutexInv' /\ RunInv'
    BY <1>0 DEF DelayTypeOK, MutexInv, RunInv, InBody
  <2>3. DoneInv' /\ ProbeInv'
    BY <1>0 DEF DelayTypeOK, DoneInv, ProbeInv, RealizedOnceProduced
  <2>4. ValueInv'
    BY <1>0 DEF DelayTypeOK, ValueInv
  <2>5. QED
    BY <2>1, <2>2, <2>3, <2>4 DEF DelayInv
<1>5. CASE FailRenew(f)
  <2> USE <1>5 DEF FailRenew
  <2>1. DelayTypeOK'
    BY <1>0 DEF DelayTypeOK
  <2>2. MutexInv' /\ RunInv'
    BY <1>0 DEF DelayTypeOK, MutexInv, RunInv, InBody
  <2>3. DoneInv' /\ ProbeInv'
    <3>1. mu = f /\ mu # Nobody /\ ~delivered /\ done \in closed
      BY <1>0 DEF MutexInv, DoneInv
    <3>2. done + 1 \notin closed
      BY <1>0 DEF DelayTypeOK, DoneInv
    <3>3. QED
      BY <1>0, <3>1, <3>2 DEF DelayTypeOK, DoneInv, ProbeInv, RealizedOnceProduced
  <2>4. ValueInv'
    BY <1>0 DEF DelayTypeOK, ValueInv
  <2>5. QED
    BY <2>1, <2>2, <2>3, <2>4 DEF DelayInv
<1>6. QED
  BY <1>1, <1>2, <1>3, <1>4, <1>5 DEF ForceStep

LEMMA ProbeInductive ==
    ASSUME DelayInv, NEW p \in Probers, ProbeRead(p) \/ ProbeAnswer(p)
    PROVE  DelayInv'
<1>0. DelayTypeOK /\ MutexInv /\ RunInv /\ DoneInv /\ ValueInv /\ ProbeInv
  BY DEF DelayInv
<1>1. CASE ProbeRead(p)
  <2> USE <1>1 DEF ProbeRead, dvars
  <2>1. PICK n \in 0..done : sees' = [sees EXCEPT ![p] = n]
    OBVIOUS
  <2>2. DelayTypeOK'
    BY <1>0, <2>1 DEF DelayTypeOK
  <2>3. MutexInv' /\ RunInv' /\ DoneInv' /\ ValueInv'
    BY <1>0 DEF MutexInv, RunInv, DoneInv, ValueInv, InBody
  <2>4. since'[p] => n \in closed
    BY <1>0, <2>1 DEF DelayTypeOK, DoneInv
  <2>5. ProbeInv'
    BY <1>0, <2>1, <2>4 DEF DelayTypeOK, ProbeInv, RealizedOnceProduced
  <2>6. QED
    BY <2>2, <2>3, <2>5 DEF DelayInv
<1>2. CASE ProbeAnswer(p)
  <2> USE <1>2 DEF ProbeAnswer, dvars
  <2>1. DelayTypeOK'
    BY <1>0 DEF DelayTypeOK
  <2>2. MutexInv' /\ RunInv' /\ DoneInv' /\ ValueInv'
    BY <1>0 DEF MutexInv, RunInv, DoneInv, ValueInv, InBody
  <2>3. ProbeInv'
    BY <1>0 DEF DelayTypeOK, ProbeInv, RealizedOnceProduced
  <2>4. QED
    BY <2>1, <2>2, <2>3 DEF DelayInv
<1>3. QED
  BY <1>1, <1>2

LEMMA DelayInductive == DelayInv /\ [DelayNext]_delayVars => DelayInv'
<1> SUFFICES ASSUME DelayInv, [DelayNext]_delayVars PROVE DelayInv'
  OBVIOUS
<1>1. CASE DelayNext
  BY <1>1, ForceInductive, ProbeInductive DEF DelayNext
<1>2. CASE UNCHANGED delayVars
  BY <1>2 DEF delayVars, dvars, DelayInv, DelayTypeOK, MutexInv, RunInv, DoneInv, ValueInv,
     ProbeInv, RealizedOnceProduced, InBody
<1>3. QED
  BY <1>1, <1>2

LEMMA DelayInvariant == DelaySpec => []DelayInv
  BY DelayInitInductive, DelayInductive, PTL DEF DelaySpec

-----------------------------------------------------------------------------
\* Every variable keeps its type, for all forcers and probers.
THEOREM DelayTypeCorrect == DelaySpec => []DelayTypeOK
<1>1. DelayInv => DelayTypeOK
  BY DEF DelayInv
<1>2. QED
  BY <1>1, DelayInvariant, PTL

\* The body of a delay runs in one goroutine at a time, and never again once a
\* run of it produced a value.
THEOREM OneBodyCorrect == DelaySpec => []OneBody
<1>1. DelayInv => OneBody
  BY DEF DelayInv, RunInv, OneBody
<1>2. QED
  BY <1>1, DelayInvariant, PTL

\* The force under way closes an open channel.
THEOREM DoneIsOpenCorrect == DelaySpec => []DoneIsOpen
<1>1. DelayInv => DoneIsOpen
  <2> SUFFICES ASSUME DelayInv, NEW f \in Forcers, InBody(f) PROVE done \notin closed
    BY DEF DoneIsOpen
  <2>1. ~delivered /\ forcing
    BY DEF DelayInv, RunInv
  <2>2. mu = Nobody
    BY <2>1 DEF DelayInv, MutexInv, DelayTypeOK
  <2>3. QED
    BY <2>1, <2>2 DEF DelayInv, DoneInv
<1>2. QED
  BY <1>1, DelayInvariant, PTL

\* Every force that returns returns the one value that was produced.
THEOREM OneValueCorrect == DelaySpec => []OneValue
<1>1. DelayInv => OneValue
  BY DEF DelayInv, ValueInv, OneValue
<1>2. QED
  BY <1>1, DelayInvariant, PTL

\* realized? asked after the value was produced answers yes, whatever channel
\* its unsynchronised read of done returns.
THEOREM RealizedOnceProducedCorrect == DelaySpec => []RealizedOnceProduced
<1>1. DelayInv => RealizedOnceProduced
  BY DEF DelayInv, ProbeInv
<1>2. QED
  BY <1>1, DelayInvariant, PTL

-----------------------------------------------------------------------------
\* Who waits for a channel that is open waits for done, while a force is under
\* way: the force that ends closes done before it is replaced.
WaitInv ==
    \A f \in Forcers : at[f] = "waiting" =>
        waits[f] <= done /\ (waits[f] \notin closed => forcing)

LEMMA WaitInductive ==
    ASSUME DelayInv, WaitInv, [DelayNext]_delayVars
    PROVE  WaitInv'
<1> USE DelayAssumption DEF MoveTo, dvars, Probing
<1>0. DelayTypeOK /\ MutexInv /\ RunInv /\ DoneInv
  BY DEF DelayInv
<1>1. ASSUME NEW f \in Forcers, Enter(f) PROVE WaitInv'
  <2> USE <1>1 DEF Enter
  <2>1. /\ done' = done /\ closed' = closed /\ (forcing => forcing')
        /\ at' = [at EXCEPT ![f] = at'[f]]
        /\ done \in Nat /\ at \in [Forcers -> {"enter", "waiting", "running", "ran",
             "failed", "renewing", "returned", "raised"}]
    BY <1>0 DEF DelayTypeOK
  <2>2. at'[f] = "waiting" => waits' = [waits EXCEPT ![f] = done] /\ forcing
    BY <1>0 DEF DelayTypeOK
  <2>3. at'[f] # "waiting" => waits' = waits
    BY <1>0 DEF DelayTypeOK
  <2>4. waits \in [Forcers -> Nat]
    BY <1>0 DEF DelayTypeOK
  <2>5. ASSUME NEW g \in Forcers, at'[g] = "waiting"
        PROVE  waits'[g] <= done /\ (waits'[g] \notin closed => forcing)
    <3>1. CASE g = f
      <4>1. waits'[g] = done /\ forcing
        BY <2>2, <2>4, <2>5, <3>1
      <4>2. done <= done
        BY <2>1
      <4>3. QED
        BY <2>1, <4>1, <4>2
    <3>2. CASE g # f
      <4>1. waits'[g] = waits[g]
        BY <2>2, <2>3, <2>4, <3>2
      <4>2. at[g] = "waiting"
        BY <2>1, <2>5, <3>2
      <4>3. QED
        BY <4>1, <4>2 DEF WaitInv
    <3>3. QED
      BY <3>1, <3>2
  <2>6. QED
    BY <2>1, <2>5 DEF WaitInv
<1>2. ASSUME NEW f \in Forcers, Wake(f) \/ RunReturns(f) \/ RunPanics(f) PROVE WaitInv'
  BY <1>0, <1>2 DEF DelayTypeOK, WaitInv, Wake, RunReturns, RunPanics
<1>3. ASSUME NEW f \in Forcers, Publish(f) \/ FailClose(f) PROVE WaitInv'
  <2>1. \A n \in 0..done : n \in closed'
    BY <1>0, <1>3 DEF DelayTypeOK, DoneInv, Publish, FailClose
  <2>2. QED
    BY <1>0, <1>3, <2>1 DEF DelayTypeOK, WaitInv, Publish, FailClose
<1>4. ASSUME NEW f \in Forcers, FailRenew(f) PROVE WaitInv'
  <2>1. mu = f /\ mu # Nobody /\ done \in closed
    BY <1>0, <1>4 DEF MutexInv, DoneInv, FailRenew
  <2>2. \A n \in 0..done : n \in closed
    BY <1>0, <2>1 DEF DoneInv
  <2>3. QED
    BY <1>0, <1>4, <2>2 DEF DelayTypeOK, WaitInv, FailRenew
<1>5. ASSUME NEW p \in Probers, ProbeRead(p) \/ ProbeAnswer(p) PROVE WaitInv'
  BY <1>5 DEF ProbeRead, ProbeAnswer, WaitInv
<1>6. CASE UNCHANGED delayVars
  BY <1>6 DEF delayVars, WaitInv
<1>7. QED
  BY <1>1, <1>2, <1>3, <1>4, <1>5, <1>6 DEF DelayNext, ForceStep

\* A force that waits was woken, or the channel it waits for is the one that the
\* force under way will close: whatever throws, none is left behind.
THEOREM NoneWaitsInVainCorrect == DelaySpec => []NoneWaitsInVain
<1>1. DelayInv /\ WaitInv => NoneWaitsInVain
  <2> SUFFICES ASSUME DelayInv, WaitInv PROVE NoneWaitsInVain
    OBVIOUS
  <2>1. ASSUME NEW f \in Forcers, at[f] = "waiting", waits[f] \notin closed
        PROVE  waits[f] = done /\ mu = Nobody /\ \E g \in Forcers : InBody(g)
    <3>1. waits[f] \in 0..done /\ forcing
      BY <2>1 DEF WaitInv, DelayInv, DelayTypeOK
    <3>2. waits[f] = done
      BY <2>1, <3>1 DEF DelayInv, DoneInv
    <3>3. mu = Nobody
      BY <2>1, <3>2 DEF DelayInv, DoneInv
    <3>4. QED
      BY <3>1, <3>2, <3>3 DEF DelayInv, RunInv
  <2>2. QED
    BY <2>1 DEF NoneWaitsInVain, DelayInv, MutexInv
<1>2. DelayInit => WaitInv
  BY DEF DelayInit, WaitInv
<1>3. QED
  BY <1>1, <1>2, DelayInvariant, WaitInductive, PTL DEF DelaySpec

-----------------------------------------------------------------------------
\* Parallel.
-----------------------------------------------------------------------------
\* The workers that put their report in the channel done, and the failed ones
\* that put theirs in panicCh.
Exited == {w \in Workers : pc[w] = "exited"}
Reported == {w \in Workers : w \in failed /\ pc[w] \in {"done", "exited"}}

Places == {"new", "body", "looking", "cleanup", "complete", "report", "done",
           "exited"}

BaseOK ==
    /\ registry \in SUBSET Goroutines
    /\ pc \in [Goroutines -> Places]
    /\ state \in [Goroutines -> Goroutines \cup {Main}]
    /\ failed \in SUBSET Goroutines /\ written \in SUBSET Workers
    /\ panicCh \in Nat /\ doneCh \in Nat /\ got \in Nat
    /\ answer \in {"none", "ok", "panic"}

\* Only workers report, only futures are completed, and helpers just leave.
PlaceInv ==
    \A g \in Goroutines :
        /\ pc[g] \in {"report", "done"} => g \in Workers
        /\ pc[g] = "complete" => g \in Futures
        /\ pc[g] = "cleanup" => g \notin Helpers

\* Who is between Register and Unregister has an entry, and so has a helper for
\* ever; the counter counts the entries.
RegInv ==
    /\ \A g \in Goroutines :
         g \in registry <=> \/ pc[g] \in {"body", "looking", "cleanup", "complete"}
                            \/ pc[g] = "exited" /\ g \in Helpers
    /\ IsFiniteSet(registry)
    /\ spawned = Cardinality(registry)

\* A worker whose body ended wrote its result or failed.
BodyInv ==
    /\ \A w \in Workers :
         pc[w] \in {"cleanup", "report", "done", "exited"} <=> w \in written \cup failed
    /\ \A w \in Workers : pc[w] = "done" => w \in failed

\* The reports are in the channels or collected.
JoinInv ==
    /\ got + doneCh = Cardinality(Exited)
    /\ panicCh = Cardinality(Reported)
    /\ answer # "none" => /\ got = Cardinality(Workers)
                          /\ (answer = "panic") = (failed \cap Workers # {})

\* A lookup never finds the main goroutine's state, before the body either.
OwnState == \A g \in Goroutines : state[g] = g

IInv == BaseOK /\ PlaceInv /\ RegInv /\ OwnState /\ BodyInv /\ JoinInv

-----------------------------------------------------------------------------
LEMMA FiniteReports ==
    /\ IsFiniteSet(Exited) /\ IsFiniteSet(Reported) /\ IsFiniteSet(Workers)
    /\ Cardinality(Exited) \in Nat /\ Cardinality(Reported) \in Nat
    /\ Cardinality(Workers) \in Nat
    /\ Cardinality(Exited) <= Cardinality(Workers)
    /\ Cardinality(Reported) <= Cardinality(Workers)
    /\ Cardinality(Exited) = Cardinality(Workers) => Exited = Workers
<1>1. IsFiniteSet(Workers) /\ Exited \in SUBSET Workers /\ Reported \in SUBSET Workers
  BY ParallelAssumption DEF Exited, Reported
<1>2. IsFiniteSet(Exited) /\ IsFiniteSet(Reported)
  BY <1>1, FS_Subset
<1>3. QED
  BY <1>1, <1>2, FS_Subset, FS_CardinalityType

\* When as many reports were received as there are workers, or RunParallel
\* has returned, every worker has exited.
LEMMA AllExited ==
    ASSUME BaseOK, JoinInv, got = Cardinality(Workers)
    PROVE  Exited = Workers
  BY FiniteReports DEF BaseOK, JoinInv

\* A worker that runs keeps RunParallel waiting.
LEMMA Waits ==
    ASSUME BaseOK, JoinInv, NEW w \in Workers, pc[w] # "exited"
    PROVE  answer = "none"
<1>1. Exited # Workers
  BY DEF Exited
<1>2. QED
  BY <1>1, AllExited DEF JoinInv

\* Steps that leave the channels alone and exit no worker.
LEMMA JoinKept ==
    ASSUME JoinInv, UNCHANGED <<panicCh, doneCh, got, answer>>,
           Exited' = Exited, Reported' = Reported,
           answer # "none" => failed' \cap Workers = failed \cap Workers
    PROVE  JoinInv'
  BY DEF JoinInv

LEMMA RegKept ==
    ASSUME RegInv, UNCHANGED <<registry, spawned>>,
           \A g \in Goroutines :
              \/ pc'[g] = pc[g]
              \/ /\ pc[g] \in {"body", "looking", "cleanup", "complete"}
                 /\ \/ pc'[g] \in {"body", "looking", "cleanup", "complete"}
                    \/ pc'[g] = "exited" /\ g \in Helpers
              \/ /\ pc[g] \in {"report", "done"} /\ pc'[g] \in {"report", "done", "exited"}
                 /\ g \notin Helpers
    PROVE  RegInv'
  BY DEF RegInv

\* Who evaluates code has an entry, so the counter is not zero.
LEMMA Counted ==
    ASSUME RegInv, NEW g \in Goroutines, pc[g] \in {"body", "looking"}
    PROVE  g \in registry /\ spawned # 0
<1>1. g \in registry
  BY DEF RegInv
<1>2. QED
  BY <1>1, FS_EmptySet DEF RegInv
-----------------------------------------------------------------------------
LEMMA InitInductive == Init => IInv
<1> SUFFICES ASSUME Init PROVE IInv
  OBVIOUS
<1>1. BaseOK /\ PlaceInv /\ OwnState /\ BodyInv
  BY DEF Init, BaseOK, PlaceInv, OwnState, BodyInv, Places, Goroutines
<1>2. RegInv
  BY FS_EmptySet DEF Init, RegInv
<1>3. JoinInv
  <2>1. Exited = {} /\ Reported = {}
    BY DEF Init, Exited, Reported, Goroutines
  <2>2. QED
    BY <2>1, FS_EmptySet DEF Init, JoinInv
<1>4. QED
  BY <1>1, <1>2, <1>3 DEF IInv
-----------------------------------------------------------------------------
\* Steps of a goroutine that is not reporting leave both sets as they were.
LEMMA SetsKept ==
    ASSUME NEW g \in Goroutines, BaseOK, PlaceInv,
           pc' = [pc EXCEPT ![g] = pc'[g]],
           pc[g] \notin {"done", "exited"},
           pc'[g] = "exited" => g \notin Workers,
           pc'[g] # "done", failed' = failed
    PROVE  Exited' = Exited /\ Reported' = Reported
  BY DEF BaseOK, PlaceInv, Exited, Reported, Goroutines

LEMMA RegisterKeeps ==
    ASSUME IInv, NEW g \in Goroutines, Register(g)
    PROVE  IInv'
<1> USE DEF IInv
<1>1. pc' = [pc EXCEPT ![g] = "body"] /\ g \notin registry
  BY DEF Register, Goto, RegInv
<1>2. BaseOK' /\ PlaceInv' /\ OwnState' /\ BodyInv'
  BY <1>1 DEF Register, UnchangedJoin, BaseOK, PlaceInv, OwnState, BodyInv, Places, Goroutines
<1>3. RegInv'
  <2>1. /\ IsFiniteSet(registry \cup {g})
        /\ Cardinality(registry \cup {g}) = Cardinality(registry) + 1
    BY <1>1, FS_AddElement DEF RegInv
  <2>2. registry' = registry \cup {g} /\ spawned' = spawned + 1
    BY <1>1 DEF Register
  <2>3. \A h \in Goroutines : pc'[h] = IF h = g THEN "body" ELSE pc[h]
    BY <1>1 DEF BaseOK
  <2>4. \A h \in Goroutines :
          h \in registry' <=> \/ pc'[h] \in {"body", "looking", "cleanup", "complete"}
                              \/ pc'[h] = "exited" /\ h \in Helpers
    BY <2>2, <2>3 DEF RegInv
  <2>5. QED
    BY <2>1, <2>2, <2>4 DEF RegInv
<1>4. JoinInv'
  <2>1. Exited' = Exited /\ Reported' = Reported
    BY <1>1, SetsKept DEF Register, BaseOK
  <2>2. QED
    BY <2>1, JoinKept DEF Register, UnchangedJoin
<1>5. QED
  BY <1>2, <1>3, <1>4

LEMMA LookKeeps ==
    ASSUME IInv, NEW g \in Goroutines, LookFast(g) \/ LookSlow(g)
    PROVE  IInv'
<1> USE DEF IInv
<1>1. pc[g] \in {"body", "looking"}
  BY DEF LookFast, LookSlow
<1>2. g \in registry /\ spawned # 0
  BY <1>1, Counted
<1>3. /\ pc' = [pc EXCEPT ![g] = pc'[g]] /\ pc'[g] \in {"body", "looking"}
      /\ state' \in {state, [state EXCEPT ![g] = g]}
      /\ UNCHANGED <<registry, spawned, failed, written>> /\ UnchangedJoin
  BY <1>1, <1>2 DEF LookFast, LookSlow, Goto, BaseOK
<1>4. BaseOK' /\ PlaceInv' /\ OwnState' /\ BodyInv'
  <2>1. BaseOK'
    BY <1>3 DEF UnchangedJoin, BaseOK, Places
  <2>2. PlaceInv'
    BY <1>3 DEF BaseOK, PlaceInv
  <2>3. OwnState'
    BY <1>1, <1>3 DEF BaseOK, OwnState
  <2>4. BodyInv'
    BY <1>1, <1>3 DEF BaseOK, BodyInv, Goroutines
  <2>5. QED
    BY <2>1, <2>2, <2>3, <2>4
<1>5. RegInv'
  <2>1. \A h \in Goroutines :
          \/ pc'[h] = pc[h]
          \/ h = g /\ pc[h] \in {"body", "looking"} /\ pc'[h] \in {"body", "looking"}
    BY <1>1, <1>3 DEF BaseOK
  <2>2. QED
    BY <1>3, <2>1, RegKept
<1>6. JoinInv'
  <2>1. Exited' = Exited /\ Reported' = Reported
    BY <1>1, <1>3, SetsKept
  <2>2. QED
    BY <1>3, <2>1, JoinKept DEF UnchangedJoin
<1>7. QED
  BY <1>4, <1>5, <1>6

LEMMA BodyEndKeeps ==
    ASSUME IInv, NEW g \in Goroutines, BodyReturns(g) \/ BodyPanics(g)
    PROVE  IInv'
<1> USE DEF IInv
<1>1. /\ pc[g] = "body" /\ pc' = [pc EXCEPT ![g] = pc'[g]]
      /\ pc'[g] = IF g \in Futures THEN "complete"
                  ELSE IF g \in Helpers THEN "exited" ELSE "cleanup"
      /\ UNCHANGED <<registry, spawned, state>> /\ UnchangedJoin
      /\ written \subseteq written' /\ written' \subseteq written \cup ({g} \cap Workers)
      /\ failed \subseteq failed' /\ failed' \subseteq failed \cup {g}
      /\ g \in Workers => g \in written' \cup failed'
  BY DEF BodyReturns, BodyPanics, Goto, BaseOK
<1>2. g \in Workers \/ g \in Futures \/ g \in Helpers
  BY DEF Goroutines
<1>3. \A h \in Goroutines : h # g => pc'[h] = pc[h]
  BY <1>1 DEF BaseOK
<1>4. g \in Workers => g \notin Futures /\ g \notin Helpers
  BY ParallelAssumption
<1>5. g \in Futures => g \notin Helpers
  BY ParallelAssumption
<1>6. BaseOK'
  BY <1>1 DEF UnchangedJoin, BaseOK, Places
<1>7. PlaceInv'
  BY <1>1, <1>2, <1>3, <1>5 DEF PlaceInv
<1>8. OwnState'
  BY <1>1, <1>3 DEF OwnState
<1>9. BodyInv'
  BY <1>1, <1>3, <1>4 DEF BodyInv, Goroutines
<1>10. RegInv'
  BY <1>1, <1>3, RegKept
<1>11. JoinInv'
  <2>1. Exited' = Exited
    BY <1>1, <1>3, <1>4 DEF Exited, Goroutines
  <2>2. Reported' = Reported
    BY <1>1, <1>3, <1>4 DEF Reported, Goroutines
  <2>3. answer # "none" => failed' \cap Workers = failed \cap Workers
    <3>1. g \in Workers => answer = "none"
      BY <1>1, Waits
    <3>2. QED
      BY <1>1, <3>1
  <2>4. QED
    BY <1>1, <2>1, <2>2, <2>3, JoinKept DEF UnchangedJoin
<1>12. QED
  BY <1>6, <1>7, <1>8, <1>9, <1>10, <1>11

LEMMA CompleteKeeps ==
    ASSUME IInv, NEW g \in Goroutines, Complete(g)
    PROVE  IInv'
<1> USE DEF IInv
<1>1. /\ pc[g] = "complete" /\ pc' = [pc EXCEPT ![g] = "cleanup"]
      /\ g \in Futures /\ g \notin Workers /\ g \notin Helpers
  BY ParallelAssumption DEF Complete, Goto, PlaceInv
<1>2. BaseOK' /\ PlaceInv' /\ OwnState' /\ BodyInv'
  BY <1>1 DEF Complete, BaseOK, PlaceInv, OwnState, BodyInv, Places, Goroutines
<1>3. RegInv'
  <2>1. \A h \in Goroutines :
          \/ pc'[h] = pc[h]
          \/ h = g /\ pc[h] = "complete" /\ pc'[h] = "cleanup"
    BY <1>1 DEF BaseOK
  <2>2. QED
    BY <1>1, <2>1, RegKept DEF Complete
<1>4. JoinInv'
  <2>1. Exited' = Exited /\ Reported' = Reported
    BY <1>1, SetsKept DEF Complete, BaseOK
  <2>2. QED
    BY <2>1, JoinKept DEF Complete
<1>5. QED
  BY <1>2, <1>3, <1>4

LEMMA UnregisterKeeps ==
    ASSUME IInv, NEW g \in Goroutines, Unregister(g)
    PROVE  IInv'
<1> USE DEF IInv
<1>1. /\ pc[g] = "cleanup" /\ pc' = [pc EXCEPT ![g] = pc'[g]]
      /\ pc'[g] = IF g \in Workers THEN "report" ELSE "exited"
      /\ g \notin Helpers /\ g \in registry
  BY DEF Unregister, Goto, BaseOK, PlaceInv, RegInv
<1>2. \A h \in Goroutines : h # g => pc'[h] = pc[h]
  BY <1>1 DEF BaseOK
<1>3. spawned' = spawned - 1 /\ registry' = registry \ {g}
  BY <1>1 DEF Unregister
<1>4. BaseOK'
  BY <1>1, <1>3 DEF Unregister, UnchangedJoin, BaseOK, Places
<1>5. PlaceInv' /\ OwnState'
  BY <1>1, <1>2 DEF Unregister, PlaceInv, OwnState
<1>6. BodyInv'
  BY <1>1, <1>2 DEF Unregister, BodyInv, Goroutines
<1>7. RegInv'
  <2>1. /\ IsFiniteSet(registry \ {g})
        /\ Cardinality(registry \ {g}) = Cardinality(registry) - 1
    BY <1>1, FS_RemoveElement DEF RegInv
  <2>2. \A h \in Goroutines :
          h \in registry' <=> \/ pc'[h] \in {"body", "looking", "cleanup", "complete"}
                              \/ pc'[h] = "exited" /\ h \in Helpers
    BY <1>1, <1>2, <1>3 DEF RegInv
  <2>3. QED
    BY <1>3, <2>1, <2>2 DEF RegInv
<1>8. JoinInv'
  <2>1. Exited' = Exited /\ Reported' = Reported
    BY <1>1, SetsKept DEF Unregister
  <2>2. QED
    BY <2>1, JoinKept DEF Unregister, UnchangedJoin
<1>9. QED
  BY <1>4, <1>5, <1>6, <1>7, <1>8

LEMMA ReportPanicKeeps ==
    ASSUME IInv, NEW g \in Goroutines, ReportPanic(g)
    PROVE  IInv'
<1> USE DEF IInv
<1>1. /\ pc[g] = "report" /\ pc' = [pc EXCEPT ![g] = "done"]
      /\ g \in failed /\ g \in Workers
  BY DEF ReportPanic, Goto, PlaceInv
<1>2. \A h \in Goroutines : pc'[h] = IF h = g THEN "done" ELSE pc[h]
  BY <1>1 DEF BaseOK
<1>3. BaseOK'
  BY <1>1 DEF ReportPanic, BaseOK, Places
<1>4. PlaceInv' /\ OwnState' /\ BodyInv'
  BY <1>1, <1>2 DEF ReportPanic, PlaceInv, OwnState, BodyInv, Goroutines
<1>5. RegInv'
  <2>1. g \notin Helpers
    BY <1>1, ParallelAssumption
  <2>2. QED
    BY <1>1, <1>2, <2>1, RegKept DEF ReportPanic
<1>6. JoinInv'
  <2>1. Exited' = Exited
    BY <1>1, <1>2 DEF Exited, Goroutines
  <2>2. Reported' = Reported \cup {g} /\ g \notin Reported
    BY <1>1, <1>2 DEF ReportPanic, Reported, Goroutines
  <2>3. Cardinality(Reported') = Cardinality(Reported) + 1
    BY <2>2, FiniteReports, FS_AddElement
  <2>4. QED
    BY <2>1, <2>3 DEF ReportPanic, JoinInv
<1>7. QED
  BY <1>3, <1>4, <1>5, <1>6

LEMMA ReportDoneKeeps ==
    ASSUME IInv, NEW g \in Goroutines, ReportDone(g)
    PROVE  IInv'
<1> USE DEF IInv
<1>1. /\ pc[g] \in {"report", "done"} /\ pc' = [pc EXCEPT ![g] = "exited"]
      /\ g \in Workers /\ g \notin Helpers
      /\ pc[g] = "report" => g \notin failed
      /\ pc[g] = "done" => g \in failed
  BY ParallelAssumption DEF ReportDone, Goto, PlaceInv, BodyInv
<1>2. \A h \in Goroutines : pc'[h] = IF h = g THEN "exited" ELSE pc[h]
  BY <1>1 DEF BaseOK
<1>3. BaseOK'
  BY <1>1 DEF ReportDone, BaseOK, Places
<1>4. PlaceInv' /\ OwnState' /\ BodyInv'
  BY <1>1, <1>2 DEF ReportDone, PlaceInv, OwnState, BodyInv, Goroutines
<1>5. RegInv'
  BY <1>1, <1>2, RegKept DEF ReportDone
<1>6. JoinInv'
  <2>1. Exited' = Exited \cup {g} /\ g \notin Exited
    BY <1>1, <1>2 DEF Exited, Goroutines
  <2>2. Reported' = Reported
    BY <1>1, <1>2 DEF ReportDone, Reported, Goroutines
  <2>3. Cardinality(Exited') = Cardinality(Exited) + 1
    BY <2>1, FiniteReports, FS_AddElement
  <2>4. QED
    BY <2>2, <2>3, FiniteReports DEF ReportDone, JoinInv, BaseOK
<1>7. QED
  BY <1>3, <1>4, <1>5, <1>6

-----------------------------------------------------------------------------
LEMMA CollectKeeps ==
    ASSUME IInv, Collect
    PROVE  IInv'
<1> USE DEF IInv, Collect
<1>1. BaseOK' /\ PlaceInv' /\ OwnState' /\ BodyInv' /\ RegInv'
  BY DEF BaseOK, PlaceInv, OwnState, BodyInv, RegInv
<1>2. JoinInv'
  <2>1. Exited' = Exited /\ Reported' = Reported
    BY DEF Exited, Reported
  <2>2. answer = "none"
    <3>1. got # Cardinality(Workers)
      BY FiniteReports DEF JoinInv, BaseOK
    <3>2. QED
      BY <3>1 DEF JoinInv
  <2>3. QED
    BY <2>1, <2>2 DEF JoinInv, BaseOK
<1>3. QED
  BY <1>1, <1>2

\* All workers have exited, so the panics in the channel are those of all
\* that failed.
LEMMA AnswerKeeps ==
    ASSUME IInv, Answer
    PROVE  IInv'
<1> USE DEF IInv, Answer
<1>1. BaseOK' /\ PlaceInv' /\ OwnState' /\ BodyInv' /\ RegInv'
  BY DEF BaseOK, PlaceInv, OwnState, BodyInv, RegInv
<1>2. JoinInv'
  <2>1. Exited' = Exited /\ Reported' = Reported
    BY DEF Exited, Reported
  <2>2. Reported = failed \cap Workers
    <3>1. Exited = Workers
      BY AllExited
    <3>2. QED
      BY <3>1 DEF Exited, Reported
  <2>3. panicCh > 0 <=> Reported # {}
    BY FiniteReports, FS_EmptySet DEF JoinInv, BaseOK
  <2>4. QED
    BY <2>1, <2>2, <2>3 DEF JoinInv
<1>3. QED
  BY <1>1, <1>2

LEMMA StutterKeeps ==
    ASSUME IInv, UNCHANGED vars
    PROVE  IInv'
<1>1. Exited' = Exited /\ Reported' = Reported
  BY DEF vars, Exited, Reported
<1>2. QED
  BY <1>1 DEF vars, IInv, BaseOK, PlaceInv, OwnState, BodyInv, RegInv, JoinInv

\* IInv is an invariant of every run, for every set of goroutines.
THEOREM Invariant == Spec => []IInv
<1>1. IInv /\ [Next]_vars => IInv'
  <2> SUFFICES ASSUME IInv, [Next]_vars PROVE IInv'
    OBVIOUS
  <2>1. ASSUME NEW g \in Goroutines, Advance(g) \/ LookFast(g) PROVE IInv'
    BY <2>1, RegisterKeeps, LookKeeps, BodyEndKeeps, UnregisterKeeps,
       ReportPanicKeeps, ReportDoneKeeps, CompleteKeeps DEF Advance
  <2>2. QED
    BY <2>1, CollectKeeps, AnswerKeeps, StutterKeeps DEF Next
<1>2. QED
  BY InitInductive, <1>1, PTL DEF Spec

\* The variables keep their types: the counter of the registry never goes
\* below zero, and neither channel holds more than a report per worker.
THEOREM TypeCorrect == Spec => []TypeOK
<1>1. IInv => TypeOK
  <2> SUFFICES ASSUME IInv PROVE TypeOK
    OBVIOUS
  <2>1. BaseOK /\ JoinInv /\ spawned \in Nat
    BY FS_CardinalityType DEF IInv, RegInv
  <2>2. panicCh \in 0..Cardinality(Workers)
    BY <2>1, FiniteReports DEF BaseOK, JoinInv
  <2>3. doneCh \in 0..Cardinality(Workers) /\ got \in 0..Cardinality(Workers)
    BY <2>1, FiniteReports DEF BaseOK, JoinInv
  <2>4. QED
    BY <2>1, <2>2, <2>3 DEF TypeOK, BaseOK, Places
<1>2. QED
  BY Invariant, <1>1, PTL

\* Code that a goroutine evaluates finds the goroutine's own interpreter state.
THEOREM StateIsOwnCorrect == Spec => []StateIsOwn
<1>1. IInv => StateIsOwn
  BY DEF IInv, OwnState, StateIsOwn
<1>2. QED
  BY Invariant, <1>1, PTL

\* RunParallel returns over no registered worker, with every result written or
\* its panic reported.
THEOREM JoinIsCompleteCorrect == Spec => []JoinIsComplete
<1>1. IInv => JoinIsComplete
  <2> SUFFICES ASSUME IInv, answer # "none" PROVE JoinIsComplete
    BY DEF JoinIsComplete
  <2>1. Exited = Workers
    BY AllExited DEF IInv, JoinInv
  <2>2. \A w \in Workers : pc[w] = "exited" /\ w \in Goroutines /\ w \notin Helpers
    BY <2>1, ParallelAssumption DEF Exited, Goroutines
  <2>3. registry \cap Workers = {}
    BY <2>2 DEF IInv, RegInv
  <2>4. Workers \subseteq written \cup failed
    BY <2>2 DEF IInv, BodyInv
  <2>5. QED
    BY <2>3, <2>4 DEF JoinIsComplete, IInv, JoinInv
<1>2. QED
  BY Invariant, <1>1, PTL

\* As many reports come as there are workers, and RunParallel waits for no more.
THEOREM ReportsAreOwedCorrect == Spec => []ReportsAreOwed
<1>1. IInv => ReportsAreOwed
  <2> SUFFICES ASSUME IInv PROVE ReportsAreOwed
    OBVIOUS
  <2>1. got + doneCh = Cardinality(Exited) /\ got \in Nat /\ doneCh \in Nat
    BY DEF IInv, BaseOK, JoinInv
  <2>2. ASSUME \A w \in Workers : pc[w] = "exited" PROVE got + doneCh = Cardinality(Workers)
    <3>1. Exited = Workers
      BY <2>2 DEF Exited
    <3>2. QED
      BY <2>1, <3>1
  <2>3. QED
    BY <2>1, <2>2, FiniteReports DEF ReportsAreOwed
<1>2. QED
  BY Invariant, <1>1, PTL
=============================================================================
