-------------------------------- MODULE Atom --------------------------------
(***************************************************************************)
(* An atom (core/runtime/atom.go) with the validator and the watches kept  *)
(* beside it in a side table (atom_ext.go), under concurrent swap!,        *)
(* reset!, compare-and-set!, set-validator!, add-watch and remove-watch.   *)
(*                                                                         *)
(* Swap functions, validators and watches are user code and run with no    *)
(* lock held.  The atom's mutex protects its value and revision, each of   *)
(* whose critical sections is one action; the side table has a lock of its *)
(* own, so an update reads the validator, the value and the watches at     *)
(* three different instants.                                               *)
(***************************************************************************)
EXTENDS Naturals, Sequences, FiniteSets

CONSTANTS
    Calls,   \* the calls, each made by a goroutine of its own
    Value,   \* the values of the atom
    Initial, \* the first of them
    Menu,    \* what a call may be
    Watch,   \* the keys of watches
    Faulty,  \* the watches whose function throws
    Raises,  \* what a swap function returns to say it threw
    NoOp     \* no operation

\* A swap applies fn, a compare-and-set puts new in place of expect, a
\* set-validator! installs the predicate that holds of the members of accepts
\* (nil is the one that holds of all).
Op == [kind : {"swap"}, fn : [Value -> Value \cup {Raises}]]
        \cup [kind : {"reset"}, new : Value]
        \cup [kind : {"cas"}, expect : Value, new : Value]
        \cup [kind : {"validator"}, accepts : SUBSET Value]
        \cup [kind : {"add", "remove"}, watch : Watch]

ASSUME AtomAssumption ==
    /\ Initial \in Value
    /\ Raises \notin Value
    /\ NoOp \notin Op
    /\ Menu \subseteq Op
    /\ Faulty \subseteq Watch

VARIABLES
    value,     \* Atom.value
    revision,  \* Atom.valueRevision
    accepted,  \* atomExtras.validator, as the values it accepts
    watches,   \* the keys of atomExtras.watches
    op,        \* op[t]: what call t does
    pc,        \* pc[t]: where call t is
    old,       \* old[t]: the value call t read, or replaced
    new,       \* new[t]: the value call t would put in its place
    rev,       \* rev[t]: the revision call t read
    toNotify,  \* toNotify[t]: watches that call t has still to notify
    \* What follows is history, for the properties.
    effect,    \* effect[t]: what call t did to the atom
    log,       \* the changes of value: who made them, from what, to what
    told,      \* told[t]: the watches that were told of the change of call t
    installs,  \* how often a validator was installed
    under,     \* under[t]: how many were when call t read the validator
    tested     \* how long the log was when the last one installed was tested

atom == <<value, revision, effect, log>>
side == <<accepted, watches, installs, tested>>
locals == <<old, new, rev, under>>
vars == <<atom, side, locals, op, pc, toNotify, told>>

Locations == {"idle", "read", "call", "validate", "commit", "install",
              "snapshot", "notify", "returned", "raised"}

Pending == [kind |-> "pending"]
Refused == [kind |-> "refused"]
Changed(o, n) == [kind |-> "changed", old |-> o, new |-> n]

Init ==
    /\ value = Initial /\ revision = 0
    /\ accepted = Value
    /\ watches \in SUBSET Watch
    /\ op = [t \in Calls |-> NoOp]
    /\ pc = [t \in Calls |-> "idle"]
    /\ old = [t \in Calls |-> Initial]
    /\ new = [t \in Calls |-> Initial]
    /\ rev = [t \in Calls |-> 0]
    /\ toNotify = [t \in Calls |-> {}]
    /\ effect = [t \in Calls |-> Pending]
    /\ log = <<>>
    /\ told = [t \in Calls |-> {}]
    /\ installs = 0 /\ tested = 0
    /\ under = [t \in Calls |-> 0]

Goto(t, l) == pc' = [pc EXCEPT ![t] = l]
At(t, l, kinds) == pc[t] = l /\ op[t].kind \in kinds

\* The call returns, or panics, having changed nothing.
Fail(t, l) ==
    /\ Goto(t, l)
    /\ effect' = [effect EXCEPT ![t] = Refused]
    /\ UNCHANGED <<value, revision, log, side, op, toNotify, told>>

-----------------------------------------------------------------------------
Begin(t) ==
    /\ pc[t] = "idle"
    /\ \E o \in Menu :
         /\ op' = [op EXCEPT ![t] = o]
         /\ IF o.kind = "reset"
            THEN Goto(t, "validate") /\ new' = [new EXCEPT ![t] = o.new]
            ELSE Goto(t, "read") /\ UNCHANGED new
    /\ UNCHANGED <<atom, side, old, rev, under, toNotify, told>>

\* Mutant of SwapRead: the revision is read once, before the loop.
SwapReadOnce(t) ==
    /\ At(t, "read", {"swap"})
    /\ old' = [old EXCEPT ![t] = value]
    /\ UNCHANGED rev
    /\ Goto(t, "call")
    /\ UNCHANGED <<atom, side, op, new, under, toNotify, told>>

\* Swap, the top of its loop: value and revision, under the lock.
SwapRead(t) ==
    /\ At(t, "read", {"swap"})
    /\ old' = [old EXCEPT ![t] = value]
    /\ rev' = [rev EXCEPT ![t] = revision]
    /\ Goto(t, "call")
    /\ UNCHANGED <<atom, side, op, new, under, toNotify, told>>

\* Swap calls the function, with no lock held.
SwapCall(t) ==
    /\ At(t, "call", {"swap"})
    /\ \/ /\ op[t].fn[old[t]] = Raises
          /\ Fail(t, "raised")
          /\ UNCHANGED locals
       \/ /\ op[t].fn[old[t]] # Raises
          /\ new' = [new EXCEPT ![t] = op[t].fn[old[t]]]
          /\ Goto(t, "validate")
          /\ UNCHANGED <<atom, side, op, old, rev, under, toNotify, told>>

\* CompareAndSet, its first look at the value.
CasRead(t) ==
    /\ At(t, "read", {"cas"})
    /\ \/ /\ value # op[t].expect
          /\ Fail(t, "returned")
          /\ UNCHANGED locals
       \/ /\ value = op[t].expect
          /\ new' = [new EXCEPT ![t] = op[t].new]
          /\ Goto(t, "validate")
          /\ UNCHANGED <<atom, side, op, old, rev, under, toNotify, told>>

\* validateAtom reads the validator under the lock of the side table and
\* calls it after.
Validate(t) ==
    /\ At(t, "validate", {"swap", "reset", "cas"})
    /\ under' = [under EXCEPT ![t] = installs]
    /\ UNCHANGED <<old, new, rev>>
    /\ \/ /\ new[t] \notin accepted
          /\ Fail(t, "raised")
       \/ /\ new[t] \in accepted
          /\ Goto(t, "commit")
          /\ UNCHANGED <<atom, side, op, toNotify, told>>

\* a.value = newValue; a.valueRevision++
Put(t) ==
    /\ value' = new[t]
    /\ revision' = revision + 1
    /\ Goto(t, "snapshot")
    /\ UNCHANGED <<side, op, new, rev, under, toNotify, told>>

Record(t, o, n) ==
    /\ effect' = [effect EXCEPT ![t] = Changed(o, n)]
    /\ log' = Append(log, [call |-> t, old |-> o, new |-> n, under |-> under[t]])

\* Swap, the bottom of its loop.
SwapCommit(t) ==
    /\ At(t, "commit", {"swap"})
    /\ \/ /\ revision = rev[t]
          /\ Put(t) /\ Record(t, old[t], new[t])
          /\ UNCHANGED old
       \/ /\ revision # rev[t]
          /\ Goto(t, "read")
          /\ UNCHANGED <<atom, side, locals, op, toNotify, told>>

ResetCommit(t) ==
    /\ At(t, "commit", {"reset"})
    /\ Put(t) /\ Record(t, value, new[t])
    /\ old' = [old EXCEPT ![t] = value]

\* Mutant of CasCommit: the value is not looked at a second time.
CasCommitBlind(t) ==
    /\ At(t, "commit", {"cas"})
    /\ Put(t) /\ Record(t, value, new[t])
    /\ old' = [old EXCEPT ![t] = value]

CasCommit(t) ==
    /\ At(t, "commit", {"cas"})
    /\ \/ /\ value = op[t].expect
          /\ Put(t) /\ Record(t, value, new[t])
          /\ old' = [old EXCEPT ![t] = value]
       \/ /\ value # op[t].expect
          /\ Fail(t, "returned")
          /\ UNCHANGED locals

-----------------------------------------------------------------------------
\* notifyWatches copies the watches under the lock of the side table and
\* calls them after.
Snapshot(t) ==
    /\ pc[t] = "snapshot"
    /\ toNotify' = [toNotify EXCEPT ![t] = watches]
    /\ Goto(t, "notify")
    /\ UNCHANGED <<atom, side, locals, op, told>>

\* Mutant of NotifyOne: a watch that throws does not stop the others.
NotifyRecovers(t, w) ==
    /\ pc[t] = "notify"
    /\ w \in toNotify[t]
    /\ toNotify' = [toNotify EXCEPT ![t] = @ \ {w}]
    /\ told' = [told EXCEPT ![t] = @ \cup {w}]
    /\ UNCHANGED <<atom, side, locals, op, pc>>

\* One watch, in the order of a Go map: any.  What a watch throws leaves the
\* update in place and the other watches without a call.
NotifyOne(t, w) ==
    /\ pc[t] = "notify"
    /\ w \in toNotify[t]
    /\ toNotify' = [toNotify EXCEPT ![t] = @ \ {w}]
    /\ told' = [told EXCEPT ![t] = @ \cup {w}]
    /\ pc' = [pc EXCEPT ![t] = IF w \in Faulty THEN "raised" ELSE @]
    /\ UNCHANGED <<atom, side, locals, op>>

NotifyDone(t) ==
    /\ pc[t] = "notify"
    /\ toNotify[t] = {}
    /\ Goto(t, "returned")
    /\ UNCHANGED <<atom, side, locals, op, toNotify, told>>

-----------------------------------------------------------------------------
\* Mutant of ValidatorTest: the value of the atom is not tested.
ValidatorTestSkipped(t) ==
    /\ At(t, "read", {"validator"})
    /\ rev' = [rev EXCEPT ![t] = Len(log)]
    /\ Goto(t, "install")
    /\ UNCHANGED <<atom, side, op, old, new, under, toNotify, told>>

\* set-validator! tests the value it reads against the new validator (rev
\* notes when) ...
ValidatorTest(t) ==
    /\ At(t, "read", {"validator"})
    /\ \/ /\ value \notin op[t].accepts
          /\ Fail(t, "raised")
          /\ UNCHANGED locals
       \/ /\ value \in op[t].accepts
          /\ rev' = [rev EXCEPT ![t] = Len(log)]
          /\ Goto(t, "install")
          /\ UNCHANGED <<atom, side, op, old, new, under, toNotify, told>>

\* ... and installs it later.
ValidatorInstall(t) ==
    /\ At(t, "install", {"validator"})
    /\ accepted' = op[t].accepts
    /\ installs' = installs + 1
    /\ tested' = rev[t]
    /\ effect' = [effect EXCEPT ![t] = Refused]
    /\ Goto(t, "returned")
    /\ UNCHANGED <<value, revision, log, watches, locals, op, toNotify, told>>

AddWatch(t) ==
    /\ At(t, "read", {"add"})
    /\ watches' = watches \cup {op[t].watch}
    /\ effect' = [effect EXCEPT ![t] = Refused]
    /\ Goto(t, "returned")
    /\ UNCHANGED <<value, revision, log, accepted, installs, tested, locals, op,
                   toNotify, told>>

RemoveWatch(t) ==
    /\ At(t, "read", {"remove"})
    /\ watches' = watches \ {op[t].watch}
    /\ effect' = [effect EXCEPT ![t] = Refused]
    /\ Goto(t, "returned")
    /\ UNCHANGED <<value, revision, log, accepted, installs, tested, locals, op,
                   toNotify, told>>

-----------------------------------------------------------------------------
Step(t) ==
    \/ SwapRead(t) \/ SwapCall(t) \/ SwapCommit(t)
    \/ ResetCommit(t)
    \/ CasRead(t) \/ CasCommit(t)
    \/ Validate(t)
    \/ Snapshot(t) \/ NotifyDone(t) \/ \E w \in Watch : NotifyOne(t, w)
    \/ ValidatorTest(t) \/ ValidatorInstall(t)
    \/ AddWatch(t) \/ RemoveWatch(t)

Next == \E t \in Calls : Begin(t) \/ Step(t)

Spec == Init /\ [][Next]_vars

\* A goroutine that can run does.
FairSpec == Spec /\ \A t \in Calls : WF_vars(Step(t))

-----------------------------------------------------------------------------
LogEntry == [call : Calls, old : Value, new : Value, under : Nat]

\* Every variable has its type.
TypeOK ==
    /\ value \in Value /\ revision \in Nat
    /\ accepted \in SUBSET Value /\ watches \in SUBSET Watch
    /\ op \in [Calls -> Menu \cup {NoOp}]
    /\ pc \in [Calls -> Locations]
    /\ \A t \in Calls : pc[t] # "idle" => op[t] \in Menu
    /\ old \in [Calls -> Value] /\ new \in [Calls -> Value]
    /\ rev \in [Calls -> Nat] /\ under \in [Calls -> Nat]
    /\ toNotify \in [Calls -> SUBSET Watch] /\ told \in [Calls -> SUBSET Watch]
    /\ log \in Seq(LogEntry)
    /\ installs \in Nat /\ tested \in Nat

\* No update is lost: the changes form a chain, each from the value the one
\* before it put there, and the last one put the value the atom has.
NoLostUpdate ==
    /\ \A i \in 1..Len(log) :
         log[i].old = IF i = 1 THEN Initial ELSE log[i - 1].new
    /\ value = IF log = <<>> THEN Initial ELSE log[Len(log)].new

\* The value of the atom may be one its validator rejects only by the race the
\* side table leaves open: the change was validated before this validator was
\* installed, and made after set-validator! tested the value it found.
OnlyRacesInvalidate ==
    value \notin accepted =>
        /\ Len(log) > tested
        /\ log[Len(log)].under < installs

\* A watch nobody adds or removes while the calls run.
Steady(w) ==
    \A t \in Calls : op[t] = NoOp \/ ~(op[t].kind \in {"add", "remove"}
                                       /\ op[t].watch = w)

\* Watches hear of what happened and nothing else: no watch is told of a call
\* that changed nothing; when an update returned, every steady watch had been
\* told of it, and when it raised after its change, a faulty watch was told.
WatchesHearUpdates ==
    \A t \in Calls :
        /\ told[t] # {} => effect[t].kind = "changed"
        /\ (pc[t] = "returned" /\ effect[t].kind = "changed") =>
               /\ \A w \in watches : Steady(w) => w \in told[t]
               /\ told[t] \cap Faulty = {}
        /\ (pc[t] = "raised" /\ effect[t].kind = "changed") =>
               told[t] \cap Faulty # {}

\* Every update happens at one instant, or not at all (AtomSpec).
Promise == INSTANCE AtomSpec
KeepsPromise == Promise!Spec

\* No call changes the atom twice, however often it tries, and the change it made is
\* the one it knows of.
UpdatesOnce ==
    /\ \A i, j \in 1..Len(log) : log[i].call = log[j].call => i = j
    /\ \A i \in 1..Len(log) : effect[log[i].call] = Changed(log[i].old, log[i].new)

\* A swap! starts again only if another call changed the atom since it read it: as
\* none does so twice, no swap! starts again more often than there are other calls.
RetriesArePaid ==
    [][\A t \in Calls : pc[t] = "commit" /\ pc'[t] = "read" =>
         \E i \in (rev[t] + 1)..Len(log) : log[i].call # t]_vars

\* Every call returns: a swap! that must retry does so because another call
\* made progress.
CallsReturn == \A t \in Calls : pc[t] # "idle" ~> pc[t] \in {"returned", "raised"}
=============================================================================
