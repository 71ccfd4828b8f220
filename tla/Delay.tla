------------------------------- MODULE Delay -------------------------------
(***************************************************************************)
(* A delay (core/types/delay.go): force by several goroutines at once, a   *)
(* body that may throw, in which case the next force runs it again, and    *)
(* realized?, which looks at the done channel without taking the mutex.    *)
(* The parts every specification has are named for the delay here, for     *)
(* DelayParallelProofs extends Parallel beside this module.                *)
(***************************************************************************)
EXTENDS Naturals, FiniteSets

CONSTANTS
    Forcers, \* goroutines that force the delay, once each
    Probers, \* goroutines that ask realized?, once each
    Nobody   \* the mutex is free; no forcer

ASSUME DelayAssumption == Nobody \notin Forcers

VARIABLES
    mu,        \* DelayPromise.mu: the forcer that holds it from step to step
    delivered, \* DelayPromise.delivered
    value,     \* DelayPromise.value, as the forcer whose run produced it
    forcing,   \* DelayPromise.forcing
    done,      \* DelayPromise.done: the number of channels made before it
    closed,    \* the channels that are closed
    at,        \* at[f]: where forcer f is
    waits,     \* waits[f]: the channel it waits for
    result,    \* result[f]: the forcer whose run produced what f returned
    probe,     \* probe[p]: where prober p is, or its answer
    sees,      \* sees[p]: the channel it looks at
    since      \* since[p]: history, a value had been produced when p began

dvars == <<mu, delivered, value, forcing, done, closed>>
delayVars == <<dvars, at, waits, result, probe, sees, since>>

DelayInit ==
    /\ mu = Nobody
    /\ delivered = FALSE /\ value = Nobody /\ forcing = FALSE
    /\ done = 0 /\ closed = {}
    /\ at = [f \in Forcers |-> "enter"]
    /\ waits = [f \in Forcers |-> 0]
    /\ result = [f \in Forcers |-> Nobody]
    /\ probe = [p \in Probers |-> "idle"]
    /\ sees = [p \in Probers |-> 0]
    /\ since = [p \in Probers |-> FALSE]

MoveTo(f, l) == at' = [at EXCEPT ![f] = l]
Probing == <<probe, sees, since>>

-----------------------------------------------------------------------------
\* Mutant of Enter: a force does not look whether another is under way.
EnterBlind(f) ==
    /\ at[f] = "enter"
    /\ mu = Nobody
    /\ IF delivered THEN /\ MoveTo(f, "returned")
                         /\ result' = [result EXCEPT ![f] = value]
                         /\ UNCHANGED forcing
       ELSE /\ MoveTo(f, "running")
            /\ forcing' = TRUE
            /\ UNCHANGED result
    /\ UNCHANGED <<mu, delivered, value, done, closed, waits, Probing>>

\* The top of the loop of Force: take the value, or wait for the force under
\* way, or become it.
Enter(f) ==
    /\ at[f] = "enter"
    /\ mu = Nobody
    /\ \/ /\ delivered
          /\ MoveTo(f, "returned")
          /\ result' = [result EXCEPT ![f] = value]
          /\ UNCHANGED <<forcing, waits>>
       \/ /\ ~delivered /\ forcing
          /\ MoveTo(f, "waiting")
          /\ waits' = [waits EXCEPT ![f] = done]
          /\ UNCHANGED <<forcing, result>>
       \/ /\ ~delivered /\ ~forcing
          /\ MoveTo(f, "running")
          /\ forcing' = TRUE
          /\ UNCHANGED <<waits, result>>
    /\ UNCHANGED <<mu, delivered, value, done, closed, Probing>>

\* Mutant of Wake: the forcer takes what it was woken for as a value.
WakeReturns(f) ==
    /\ at[f] = "waiting"
    /\ waits[f] \in closed
    /\ MoveTo(f, "returned")
    /\ result' = [result EXCEPT ![f] = value]
    /\ UNCHANGED <<dvars, waits, Probing>>

\* <-done; continue
Wake(f) ==
    /\ at[f] = "waiting"
    /\ waits[f] \in closed
    /\ MoveTo(f, "enter")
    /\ UNCHANGED <<dvars, waits, result, Probing>>

\* The body ends: with a value, or with a panic.
RunReturns(f) ==
    /\ at[f] = "running"
    /\ MoveTo(f, "ran")
    /\ UNCHANGED <<dvars, waits, result, Probing>>

RunPanics(f) ==
    /\ at[f] = "running"
    /\ MoveTo(f, "failed")
    /\ UNCHANGED <<dvars, waits, result, Probing>>

\* Mutant of Publish: done is replaced after a success too.
PublishRenews(f) ==
    /\ at[f] = "ran"
    /\ mu = Nobody
    /\ forcing' = FALSE /\ delivered' = TRUE /\ value' = f
    /\ closed' = closed \cup {done} /\ done' = done + 1
    /\ MoveTo(f, "returned")
    /\ result' = [result EXCEPT ![f] = f]
    /\ UNCHANGED <<mu, waits, Probing>>

\* The value is published.
Publish(f) ==
    /\ at[f] = "ran"
    /\ mu = Nobody
    /\ forcing' = FALSE /\ delivered' = TRUE /\ value' = f
    /\ closed' = closed \cup {done}
    /\ MoveTo(f, "returned")
    /\ result' = [result EXCEPT ![f] = f]
    /\ UNCHANGED <<mu, done, waits, Probing>>

\* Mutant of FailClose: the waiting forcers are not woken.
FailQuiet(f) ==
    /\ at[f] = "failed"
    /\ mu = Nobody
    /\ mu' = f
    /\ forcing' = FALSE
    /\ MoveTo(f, "renewing")
    /\ UNCHANGED <<delivered, value, done, closed, waits, result, Probing>>

\* After a panic the waiting forcers are woken by closing done ...
FailClose(f) ==
    /\ at[f] = "failed"
    /\ mu = Nobody
    /\ mu' = f
    /\ forcing' = FALSE
    /\ closed' = closed \cup {done}
    /\ MoveTo(f, "renewing")
    /\ UNCHANGED <<delivered, value, done, waits, result, Probing>>

\* Mutant of FailRenew: done stays the closed channel.
FailReuse(f) ==
    /\ at[f] = "renewing"
    /\ mu' = Nobody
    /\ MoveTo(f, "raised")
    /\ UNCHANGED <<delivered, value, forcing, done, closed, waits, result, Probing>>

\* ... and done is replaced, still with the mutex held; then Force panics too.
FailRenew(f) ==
    /\ at[f] = "renewing"
    /\ done' = done + 1
    /\ mu' = Nobody
    /\ MoveTo(f, "raised")
    /\ UNCHANGED <<delivered, value, forcing, closed, waits, result, Probing>>

-----------------------------------------------------------------------------
\* IsRealized reads the field done, without the mutex: a data race, in which
\* it may also see a channel that done was before ...
ProbeRead(p) ==
    /\ probe[p] = "idle"
    /\ \E n \in 0..done : sees' = [sees EXCEPT ![p] = n]
    /\ since' = [since EXCEPT ![p] = delivered]
    /\ probe' = [probe EXCEPT ![p] = "looking"]
    /\ UNCHANGED <<dvars, at, waits, result>>

\* ... and asks whether that channel is closed.
ProbeAnswer(p) ==
    /\ probe[p] = "looking"
    /\ probe' = [probe EXCEPT ![p] = IF sees[p] \in closed THEN "yes" ELSE "no"]
    /\ UNCHANGED <<dvars, at, waits, result, sees, since>>

-----------------------------------------------------------------------------
ForceStep(f) ==
    \/ Enter(f) \/ Wake(f) \/ RunReturns(f) \/ RunPanics(f)
    \/ Publish(f) \/ FailClose(f) \/ FailRenew(f)

DelayNext ==
    \/ \E f \in Forcers : ForceStep(f)
    \/ \E p \in Probers : ProbeRead(p) \/ ProbeAnswer(p)

DelaySpec == DelayInit /\ [][DelayNext]_delayVars

\* A goroutine that can run does, and a body that is run ends.
DelayFairSpec == DelaySpec /\ \A f \in Forcers : WF_delayVars(ForceStep(f))

-----------------------------------------------------------------------------
\* Every variable has its type.
DelayTypeOK ==
    /\ mu \in Forcers \cup {Nobody}
    /\ delivered \in BOOLEAN /\ forcing \in BOOLEAN
    /\ value \in Forcers \cup {Nobody} /\ (delivered <=> value # Nobody)
    /\ done \in Nat /\ closed \in SUBSET Nat
    /\ at \in [Forcers -> {"enter", "waiting", "running", "ran", "failed",
                           "renewing", "returned", "raised"}]
    /\ waits \in [Forcers -> Nat]
    /\ result \in [Forcers -> Forcers \cup {Nobody}]
    /\ probe \in [Probers -> {"idle", "looking", "yes", "no"}]
    /\ sees \in [Probers -> Nat]
    /\ since \in [Probers -> BOOLEAN]

\* The body never runs twice at once, and not again once it has produced a
\* value.
InBody(f) == at[f] \in {"running", "ran", "failed"}

OneBody ==
    /\ \A f, g \in Forcers : InBody(f) /\ InBody(g) => f = g
    /\ delivered => \A f \in Forcers : ~InBody(f)

\* The channel that the force under way will close is open: closing it does not
\* panic.
DoneIsOpen == \A f \in Forcers : InBody(f) => done \notin closed

\* Every force that returns returns the one value produced.
OneValue ==
    \A f \in Forcers : at[f] = "returned" =>
        /\ delivered /\ result[f] = value
        /\ at[value] = "returned"

\* realized? asked after a value was produced answers yes.
RealizedOnceProduced == \A p \in Probers : since[p] => probe[p] # "no"

\* No force waits in vain: it has been woken, or waits for the channel of the one
\* force under way, which is in the body or has only to take the mutex to close
\* it; and a mutex that is held is given back with no other in the way.
NoneWaitsInVain ==
    /\ \A f \in Forcers : at[f] = "waiting" =>
         \/ waits[f] \in closed
         \/ waits[f] = done /\ mu = Nobody /\ \E g \in Forcers : InBody(g)
    /\ mu # Nobody => at[mu] = "renewing"

\* Every force ends, whichever runs throw: a force that waits is woken by the
\* one it waits for.
ForcesEnd == \A f \in Forcers : <>(at[f] \in {"returned", "raised"})

=============================================================================
