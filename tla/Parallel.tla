------------------------------ MODULE Parallel ------------------------------
(***************************************************************************)
(* Goroutines that evaluate code: each registers an interpreter state of   *)
(* its own (core/runtime/goroutine.go) and looks it up while it evaluates. *)
(* The main goroutine runs pmap or pcalls through RunParallel              *)
(* (core/runtime/concurrency_helpers.go); futures and the helpers of       *)
(* core.async run beside it.                                               *)
(***************************************************************************)
EXTENDS Integers, FiniteSets

CONSTANTS
    Main,    \* the goroutine that calls pmap
    Workers, \* the goroutines of that call, one per element
    Futures, \* goroutines of future-call
    Helpers  \* goroutines of to-chan, pipe, mult, put! and their like

ASSUME ParallelAssumption ==
    /\ IsFiniteSet(Workers)
    /\ Main \notin Workers \cup Futures \cup Helpers
    /\ Workers \cap Futures = {} /\ Workers \cap Helpers = {}
    /\ Futures \cap Helpers = {}

Goroutines == Workers \cup Futures \cup Helpers

VARIABLES
    registry, \* the goroutines with an entry in byGoroutine
    spawned,  \* GoroutineState.spawned
    pc,       \* pc[g]: where goroutine g is
    state,    \* state[g]: whose interpreter state g last looked up
    failed,   \* the goroutines whose body panicked
    written,  \* the workers that wrote their result
    panicCh,  \* how many panics are in the channel panicCh
    doneCh,   \* how many workers are in the channel done
    got,      \* how many of them the main goroutine received
    answer    \* "none", then what RunParallel returned: "ok" or "panic"

vars == <<registry, spawned, pc, state, failed, written, panicCh, doneCh, got,
          answer>>

Init ==
    /\ registry = {} /\ spawned = 0
    /\ pc = [g \in Goroutines |-> "new"]
    /\ state = [g \in Goroutines |-> g]
    /\ failed = {} /\ written = {}
    /\ panicCh = 0 /\ doneCh = 0 /\ got = 0
    /\ answer = "none"

Goto(g, l) == pc' = [pc EXCEPT ![g] = l]
UnchangedJoin == UNCHANGED <<panicCh, doneCh, got, answer>>

-----------------------------------------------------------------------------
\* registerGoroutineRT, the first thing every goroutine does.
Register(g) ==
    /\ pc[g] = "new"
    /\ registry' = registry \cup {g}
    /\ spawned' = IF g \in registry THEN spawned ELSE spawned + 1
    /\ Goto(g, "body")
    /\ UNCHANGED <<state, failed, written>> /\ UnchangedJoin

\* currentGRT: a look at the counter without the lock ...
LookFast(g) ==
    /\ pc[g] = "body"
    /\ IF spawned = 0
       THEN state' = [state EXCEPT ![g] = Main] /\ UNCHANGED pc
       ELSE Goto(g, "looking") /\ UNCHANGED state
    /\ UNCHANGED <<registry, spawned, failed, written>> /\ UnchangedJoin

\* ... and a lookup under the lock.
LookSlow(g) ==
    /\ pc[g] = "looking"
    /\ state' = [state EXCEPT ![g] =
                   IF spawned # 0 /\ g \in registry THEN g ELSE Main]
    /\ Goto(g, "body")
    /\ UNCHANGED <<registry, spawned, failed, written>> /\ UnchangedJoin

\* The body ends, or panics.
BodyReturns(g) ==
    /\ pc[g] = "body"
    /\ written' = written \cup ({g} \cap Workers)
    /\ Goto(g, IF g \in Futures THEN "complete"
               ELSE IF g \in Helpers THEN "exited" ELSE "cleanup")
    /\ UNCHANGED <<registry, spawned, state, failed>> /\ UnchangedJoin

BodyPanics(g) ==
    /\ pc[g] = "body"
    /\ g \notin Helpers
    /\ failed' = failed \cup {g}
    /\ Goto(g, IF g \in Futures THEN "complete" ELSE "cleanup")
    /\ UNCHANGED <<registry, spawned, state, written>> /\ UnchangedJoin

\* Mutant of Unregister: the last one out is taken for the only one.
UnregisterResets(g) ==
    /\ pc[g] = "cleanup"
    /\ registry' = registry \ {g}
    /\ spawned' = 0
    /\ Goto(g, IF g \in Workers THEN "report" ELSE "exited")
    /\ UNCHANGED <<state, failed, written>> /\ UnchangedJoin

\* unregisterGoroutineRT: the deferred after() of a worker, which runs before
\* its deferred report; the last deferred call of a future.
Unregister(g) ==
    /\ pc[g] = "cleanup"
    /\ registry' = registry \ {g}
    /\ spawned' = IF g \in registry THEN spawned - 1 ELSE spawned
    /\ Goto(g, IF g \in Workers THEN "report" ELSE "exited")
    /\ UNCHANGED <<state, failed, written>> /\ UnchangedJoin

-----------------------------------------------------------------------------
\* Mutant of ReportPanic: done first, when the main goroutine may no longer
\* look for the panic.
ReportDoneFirst(g) ==
    /\ pc[g] = "report" /\ g \in failed
    /\ doneCh' = doneCh + 1
    /\ Goto(g, "exited")
    /\ UNCHANGED <<registry, spawned, state, failed, written, panicCh, got, answer>>

\* The deferred report of a worker: the panic, if any ...
ReportPanic(g) ==
    /\ pc[g] = "report" /\ g \in failed
    /\ panicCh' = panicCh + 1
    /\ Goto(g, "done")
    /\ UNCHANGED <<registry, spawned, state, failed, written, doneCh, got, answer>>

\* Mutant of ReportDone: done is reported while the goroutine is registered.
ReportDoneEarly(g) ==
    /\ pc[g] \in {"done", "cleanup"} \/ (pc[g] = "report" /\ g \notin failed)
    /\ g \in Workers
    /\ doneCh' = doneCh + 1
    /\ Goto(g, "exited")
    /\ UNCHANGED <<registry, spawned, state, failed, written, panicCh, got, answer>>

\* Mutant of ReportDone: only a body that returned is reported.
ReportDoneIfOk(g) ==
    /\ pc[g] = "report" /\ g \notin failed
    /\ doneCh' = doneCh + 1
    /\ Goto(g, "exited")
    /\ UNCHANGED <<registry, spawned, state, failed, written, panicCh, got, answer>>

\* ... and then done.
ReportDone(g) ==
    /\ pc[g] = "done" \/ (pc[g] = "report" /\ g \notin failed)
    /\ doneCh' = doneCh + 1
    /\ Goto(g, "exited")
    /\ UNCHANGED <<registry, spawned, state, failed, written, panicCh, got, answer>>

\* A future is completed, with its value or its error, before its goroutine
\* is unregistered.
Complete(f) ==
    /\ pc[f] = "complete"
    /\ Goto(f, "cleanup")
    /\ UNCHANGED <<registry, spawned, state, failed, written, panicCh, doneCh, got, answer>>

\* RunParallel waits for as many reports as it has workers ...
Collect ==
    /\ doneCh > 0
    /\ doneCh' = doneCh - 1
    /\ got' = got + 1
    /\ UNCHANGED <<registry, spawned, pc, state, failed, written, panicCh, answer>>

\* Mutant of Answer: one report is not waited for.
AnswerEarly ==
    /\ got + 1 >= Cardinality(Workers)
    /\ answer = "none"
    /\ answer' = IF panicCh > 0 THEN "panic" ELSE "ok"
    /\ UNCHANGED <<registry, spawned, pc, state, failed, written, panicCh, doneCh,
                   got>>

\* ... and looks once whether there was a panic.
Answer ==
    /\ got = Cardinality(Workers)
    /\ answer = "none"
    /\ answer' = IF panicCh > 0 THEN "panic" ELSE "ok"
    /\ UNCHANGED <<registry, spawned, pc, state, failed, written, panicCh, doneCh,
                   got>>

-----------------------------------------------------------------------------
\* What a goroutine does next; looking its state up is not progress.
Advance(g) ==
    \/ Register(g) \/ LookSlow(g) \/ BodyReturns(g) \/ BodyPanics(g)
    \/ Unregister(g) \/ ReportPanic(g) \/ ReportDone(g) \/ Complete(g)

Next ==
    \/ \E g \in Goroutines : Advance(g) \/ LookFast(g)
    \/ Collect \/ Answer

Spec == Init /\ [][Next]_vars

\* A goroutine that can run does, and every body ends, however often it looks
\* its state up.
FairSpec ==
    /\ Spec
    /\ \A g \in Goroutines : /\ WF_vars(Advance(g))
                             /\ SF_vars(BodyReturns(g) \/ BodyPanics(g))
    /\ WF_vars(Collect) /\ WF_vars(Answer)

-----------------------------------------------------------------------------
\* Every variable has its type.
TypeOK ==
    /\ registry \in SUBSET Goroutines
    /\ spawned \in Nat
    /\ pc \in [Goroutines -> {"new", "body", "looking", "cleanup", "complete",
                              "report", "done", "exited"}]
    /\ state \in [Goroutines -> Goroutines \cup {Main}]
    /\ failed \in SUBSET Goroutines /\ written \in SUBSET Workers
    /\ panicCh \in 0..Cardinality(Workers) /\ doneCh \in 0..Cardinality(Workers)
    /\ got \in 0..Cardinality(Workers)
    /\ answer \in {"none", "ok", "panic"}

\* Whatever else starts and ends meanwhile, a goroutine that evaluates code
\* finds its own interpreter state, never the main goroutine's.
StateIsOwn == \A g \in Goroutines : pc[g] \in {"body", "looking"} => state[g] = g

\* When RunParallel returns every worker is unregistered, every result is
\* written or its panic reported, and a panic is reported if there was one.
JoinIsComplete ==
    answer # "none" =>
        /\ registry \cap Workers = {}
        /\ Workers \subseteq written \cup failed
        /\ (answer = "panic") = (failed \cap Workers # {})

\* RunParallel never waits for a report that will not come: it has them all, or one
\* is in the channel, or a worker has still to make its own, and there are no more
\* reports than workers.
ReportsAreOwed ==
    /\ answer = "none" =>
         \/ got = Cardinality(Workers) \/ doneCh > 0
         \/ \E w \in Workers : pc[w] # "exited"
    /\ got + doneCh <= Cardinality(Workers)

\* RunParallel returns once the bodies have ended.
JoinReturns == <>(answer # "none")

=============================================================================
