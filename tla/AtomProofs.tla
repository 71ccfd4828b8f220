----------------------------- MODULE AtomProofs -----------------------------
(***************************************************************************)
(* Proofs about Atom, for every set of calls, values, operations and       *)
(* watches: its type, no lost update, the extent of the validator race,    *)
(* what watches hear of updates, that a retry is owed to another call, and *)
(* the refinement of AtomSpec.                                             *)
(***************************************************************************)
EXTENDS Atom, TLAPS

-----------------------------------------------------------------------------
\* What an operation of each kind carries.
LEMMA OpFields ==
    ASSUME NEW o \in Op
    PROVE  /\ o.kind = "swap" => o.fn \in [Value -> Value \cup {Raises}]
           /\ o.kind = "reset" => o.new \in Value
           /\ o.kind = "cas" => o.expect \in Value /\ o.new \in Value
           /\ o.kind = "validator" => o.accepts \in SUBSET Value
           /\ o.kind \in {"add", "remove"} => o.watch \in Watch
  BY DEF Op

LEMMA AppendAt ==
    ASSUME NEW S, NEW s \in Seq(S), NEW e \in S
    PROVE  /\ Append(s, e) \in Seq(S)
           /\ Len(Append(s, e)) = Len(s) + 1
           /\ \A i \in 1..Len(s) : Append(s, e)[i] = s[i]
           /\ Append(s, e)[Len(s) + 1] = e
           /\ Append(s, e) # <<>>
  OBVIOUS

\* A step that changes the atom keeps the types.
LEMMA PutKeepsTypes ==
    ASSUME TypeOK, NEW t \in Calls, NEW o \in Value,
           pc[t] = "commit", Put(t), Record(t, o, new[t]),
           old' \in [Calls -> Value]
    PROVE  TypeOK'
<1> DEFINE e == [call |-> t, old |-> o, new |-> new[t], under |-> under[t]]
<1>1. e \in LogEntry
  BY DEF LogEntry, TypeOK
<1>2. log' = Append(log, e)
  BY DEF Record
<1>3. log' \in Seq(LogEntry)
  BY <1>1, <1>2, AppendAt DEF TypeOK
<1>4. value' \in Value /\ revision' \in Nat /\ pc' \in [Calls -> Locations]
  BY DEF Put, Goto, TypeOK, Locations
<1>5. \A u \in Calls : pc'[u] # "idle" => op'[u] \in Menu
  <2>1. op' = op
    BY DEF Put
  <2>2. op[t] \in Menu
    BY DEF TypeOK
  <2>3. QED
    BY <2>1, <2>2 DEF Put, Goto, TypeOK
<1>6. QED
  BY <1>3, <1>4, <1>5 DEF Put, TypeOK, side

-----------------------------------------------------------------------------
\* Every variable keeps its type, for all calls, values and operations.
THEOREM TypeCorrect == Spec => []TypeOK
<1>1. Init => TypeOK
  <2> SUFFICES ASSUME Init PROVE TypeOK
    OBVIOUS
  <2>1. log \in Seq(LogEntry) /\ Initial \in Value
    BY AtomAssumption DEF Init
  <2>2. QED
    BY <2>1 DEF Init, TypeOK, Locations
<1>2. TypeOK /\ [Next]_vars => TypeOK'
  <2> SUFFICES ASSUME TypeOK, [Next]_vars
               PROVE  TypeOK'
    OBVIOUS
  <2> USE DEF TypeOK, Locations, At, Goto, atom, side, locals
  <2>1. ASSUME NEW t \in Calls, Begin(t) PROVE TypeOK'
    <3>1. PICK o \in Menu :
            /\ op' = [op EXCEPT ![t] = o]
            /\ IF o.kind = "reset"
               THEN Goto(t, "validate") /\ new' = [new EXCEPT ![t] = o.new]
               ELSE Goto(t, "read") /\ UNCHANGED new
      BY <2>1 DEF Begin
    <3>2. new' \in [Calls -> Value]
      <4>1. o \in Op
        BY AtomAssumption
      <4>2. o.kind = "reset" => o.new \in Value
        BY <4>1, OpFields
      <4>3. QED
        BY <3>1, <4>2
    <3>3. pc' \in [Calls -> Locations] /\ op' \in [Calls -> Menu \cup {NoOp}]
      BY <3>1
    <3>4. \A u \in Calls : pc'[u] # "idle" => op'[u] \in Menu
      BY <3>1
    <3>5. QED
      BY <2>1, <3>2, <3>3, <3>4 DEF Begin
  <2>2. ASSUME NEW t \in Calls, SwapRead(t) PROVE TypeOK'
    BY <2>2 DEF SwapRead
  <2>3. ASSUME NEW t \in Calls, SwapCall(t) PROVE TypeOK'
    <3>1. op[t] \in Op /\ op[t].kind = "swap"
      BY <2>3, AtomAssumption DEF SwapCall
    <3>2. op[t].fn[old[t]] \in Value \cup {Raises}
      BY <3>1, OpFields
    <3>3. QED
      BY <2>3, <3>2 DEF SwapCall, Fail
  <2>4. ASSUME NEW t \in Calls, SwapCommit(t) PROVE TypeOK'
    <3>1. CASE revision = rev[t]
      BY <2>4, <3>1, PutKeepsTypes DEF SwapCommit
    <3>2. CASE revision # rev[t]
      BY <2>4, <3>2 DEF SwapCommit
    <3>3. QED
      BY <3>1, <3>2
  <2>5. ASSUME NEW t \in Calls, ResetCommit(t) PROVE TypeOK'
    BY <2>5, PutKeepsTypes DEF ResetCommit
  <2>6. ASSUME NEW t \in Calls, CasRead(t) PROVE TypeOK'
    <3>1. op[t].new \in Value
      BY <2>6, OpFields, AtomAssumption DEF CasRead
    <3>2. QED
      BY <2>6, <3>1 DEF CasRead, Fail
  <2>7. ASSUME NEW t \in Calls, CasCommit(t) PROVE TypeOK'
    <3>1. CASE value = op[t].expect
      BY <2>7, <3>1, PutKeepsTypes DEF CasCommit
    <3>2. CASE value # op[t].expect
      BY <2>7, <3>2 DEF CasCommit, Fail
    <3>3. QED
      BY <3>1, <3>2
  <2>8. ASSUME NEW t \in Calls, Validate(t) PROVE TypeOK'
    BY <2>8 DEF Validate, Fail
  <2>9. ASSUME NEW t \in Calls, Snapshot(t) PROVE TypeOK'
    BY <2>9 DEF Snapshot
  <2>10. ASSUME NEW t \in Calls, NotifyDone(t) PROVE TypeOK'
    BY <2>10 DEF NotifyDone
  <2>11. ASSUME NEW t \in Calls, NEW w \in Watch, NotifyOne(t, w) PROVE TypeOK'
    BY <2>11 DEF NotifyOne
  <2>12. ASSUME NEW t \in Calls, ValidatorTest(t) PROVE TypeOK'
    <3>1. CASE value \notin op[t].accepts
      BY <2>12, <3>1 DEF ValidatorTest, Fail
    <3>2. CASE value \in op[t].accepts
      <4>1. rev' \in [Calls -> Nat]
        <5>1. Len(log) \in Nat
          OBVIOUS
        <5>2. rev' = [rev EXCEPT ![t] = Len(log)]
          BY <2>12, <3>2 DEF ValidatorTest
        <5>3. QED
          BY <5>1, <5>2
      <4>2. pc' \in [Calls -> Locations]
        BY <2>12, <3>2 DEF ValidatorTest
      <4>3. \A u \in Calls : pc'[u] # "idle" => op[u] \in Menu
        BY <2>12, <3>2 DEF ValidatorTest
      <4>4. QED
        BY <2>12, <3>2, <4>1, <4>2, <4>3 DEF ValidatorTest
    <3>3. QED
      BY <3>1, <3>2
  <2>13. ASSUME NEW t \in Calls, ValidatorInstall(t) PROVE TypeOK'
    <3>1. op[t].accepts \in SUBSET Value
      BY <2>13, OpFields, AtomAssumption DEF ValidatorInstall
    <3>2. QED
      BY <2>13, <3>1 DEF ValidatorInstall
  <2>14. ASSUME NEW t \in Calls, AddWatch(t) PROVE TypeOK'
    <3>1. op[t].watch \in Watch
      BY <2>14, OpFields, AtomAssumption DEF AddWatch
    <3>2. QED
      BY <2>14, <3>1 DEF AddWatch
  <2>15. ASSUME NEW t \in Calls, RemoveWatch(t) PROVE TypeOK'
    BY <2>15 DEF RemoveWatch
  <2>16. CASE UNCHANGED vars
    BY <2>16 DEF vars
  <2>17. QED
    BY <2>1, <2>2, <2>3, <2>4, <2>5, <2>6, <2>7, <2>8, <2>9, <2>10, <2>11,
       <2>12, <2>13, <2>14, <2>15, <2>16 DEF Next, Step
<1>3. QED
  BY <1>1, <1>2, PTL DEF Spec

-----------------------------------------------------------------------------
\* A swap that has read the atom holds its value as long as the revision it
\* read is still the atom's.
SwapView(t) ==
    At(t, "call", {"swap"}) \/ At(t, "validate", {"swap"}) \/ At(t, "commit", {"swap"})
        => /\ rev[t] <= revision
           /\ rev[t] = revision => old[t] = value

ChainInv == NoLostUpdate /\ \A t \in Calls : SwapView(t)

\* An entry logged with the value it replaces lengthens the chain.
LEMMA ChainGrows ==
    ASSUME TypeOK, NoLostUpdate, NEW t \in Calls,
           pc[t] = "commit", Put(t), Record(t, value, new[t])
    PROVE  NoLostUpdate'
<1> DEFINE e == [call |-> t, old |-> value, new |-> new[t], under |-> under[t]]
<1>1. e \in LogEntry /\ e.old = value /\ e.new = new[t]
  BY DEF LogEntry, TypeOK
<1>2. log' = Append(log, e) /\ value' = new[t]
  BY DEF Record, Put
<1> HIDE DEF e
<1>3. /\ Len(log') = Len(log) + 1 /\ Len(log) \in Nat
      /\ \A i \in 1..Len(log) : log'[i] = log[i]
      /\ log'[Len(log) + 1] = e
      /\ log' # <<>>
  BY <1>1, <1>2, AppendAt DEF TypeOK
<1>4. ASSUME NEW i \in 1..Len(log')
      PROVE  log'[i].old = IF i = 1 THEN Initial ELSE log'[i - 1].new
  <2>1. CASE i \in 1..Len(log)
    <3>1. log'[i] = log[i] /\ (i # 1 => log'[i - 1] = log[i - 1])
      BY <1>3, <2>1
    <3>2. QED
      BY <2>1, <3>1 DEF NoLostUpdate
  <2>2. CASE i = Len(log) + 1
    <3>1. log'[i].old = value
      BY <1>1, <1>3, <2>2
    <3>2. CASE Len(log) = 0
      <4>1. log = <<>>
        BY <3>2 DEF TypeOK
      <4>2. QED
        BY <2>2, <3>1, <3>2, <4>1 DEF NoLostUpdate
    <3>3. CASE Len(log) # 0
      <4>1. log # <<>>
        BY <3>3
      <4>2. value = log[Len(log)].new
        BY <4>1 DEF NoLostUpdate
      <4>3. i # 1 /\ i - 1 = Len(log) /\ log'[i - 1] = log[Len(log)]
        BY <1>3, <2>2, <3>3
      <4>4. QED
        BY <3>1, <4>2, <4>3
    <3>4. QED
      BY <3>2, <3>3
  <2>3. QED
    BY <1>3, <2>1, <2>2
<1>5. value' = log'[Len(log')].new
  BY <1>1, <1>2, <1>3
<1>6. QED
  BY <1>3, <1>4, <1>5 DEF NoLostUpdate

\* ... and outdates what every other swap has read.
LEMMA CommitOutdates ==
    ASSUME TypeOK, ChainInv, NEW t \in Calls, pc[t] = "commit", Put(t),
           NEW u \in Calls, u # t => old'[u] = old[u]
    PROVE  SwapView(u)'
<1>1. revision' = revision + 1 /\ op' = op /\ rev' = rev
  BY DEF Put
<1>2. CASE u = t
  BY <1>2 DEF Put, Goto, At, SwapView, TypeOK
<1>3. CASE u # t
  <2>1. pc'[u] = pc[u]
    BY <1>3 DEF Put, Goto, TypeOK
  <2>2. SwapView(u)
    BY DEF ChainInv
  <2>3. QED
    BY <1>1, <2>1, <2>2 DEF SwapView, At, TypeOK
<1>4. QED
  BY <1>2, <1>3

\* A step that leaves the atom alone, and what its swaps have read.
LEMMA QuietChain ==
    ASSUME TypeOK, ChainInv, NEW t \in Calls,
           UNCHANGED <<value, revision, log>>,
           \A u \in Calls \ {t} : /\ pc'[u] = pc[u] /\ op'[u] = op[u]
                                  /\ old'[u] = old[u] /\ rev'[u] = rev[u],
           SwapView(t)'
    PROVE  ChainInv'
<1>1. NoLostUpdate'
  BY DEF ChainInv, NoLostUpdate
<1>2. ASSUME NEW u \in Calls PROVE SwapView(u)'
  BY DEF ChainInv, SwapView, At
<1>3. QED
  BY <1>1, <1>2 DEF ChainInv

LEMMA ChainInductive == TypeOK /\ ChainInv /\ [Next]_vars => ChainInv'
<1> SUFFICES ASSUME TypeOK, ChainInv, [Next]_vars PROVE ChainInv'
  OBVIOUS
<1>1. ASSUME NEW t \in Calls, Begin(t) PROVE ChainInv'
  <2>1. pc'[t] \in {"read", "validate"} /\ (pc'[t] = "validate" => op'[t].kind = "reset")
    BY <1>1 DEF Begin, Goto, TypeOK
  <2>2. SwapView(t)'
    BY <2>1 DEF SwapView, At
  <2>3. QED
    BY <1>1, <2>2, QuietChain DEF Begin, Goto, atom, TypeOK
<1>2. ASSUME NEW t \in Calls, SwapRead(t) PROVE ChainInv'
  <2>1. SwapView(t)'
    BY <1>2 DEF SwapRead, SwapView, At, atom, TypeOK
  <2>2. QED
    BY <1>2, <2>1, QuietChain DEF SwapRead, Goto, atom, TypeOK
<1>3. ASSUME NEW t \in Calls, SwapCall(t) PROVE ChainInv'
  <2>1. UNCHANGED <<value, revision, log, op, old, rev>>
    BY <1>3 DEF SwapCall, Fail, atom, locals
  <2>2. SwapView(t) /\ At(t, "call", {"swap"})
    BY <1>3 DEF ChainInv, SwapCall
  <2>3. SwapView(t)'
    BY <2>1, <2>2 DEF SwapView, At
  <2>4. \A u \in Calls \ {t} : pc'[u] = pc[u]
    BY <1>3 DEF SwapCall, Fail, Goto, TypeOK
  <2>5. QED
    BY <2>1, <2>3, <2>4, QuietChain
<1>4. ASSUME NEW t \in Calls, SwapCommit(t) PROVE ChainInv'
  <2>1. CASE revision = rev[t]
    <3>1. /\ pc[t] = "commit" /\ Put(t) /\ Record(t, old[t], new[t])
          /\ old' = old /\ At(t, "commit", {"swap"})
      BY <1>4, <2>1 DEF SwapCommit, At
    <3>2. old[t] = value
      BY <2>1, <3>1 DEF ChainInv, SwapView
    <3>3. NoLostUpdate'
      BY <3>1, <3>2, ChainGrows DEF ChainInv
    <3>4. \A u \in Calls : SwapView(u)'
      BY <3>1, CommitOutdates
    <3>5. QED
      BY <3>3, <3>4 DEF ChainInv
  <2>2. CASE revision # rev[t]
    <3>1. UNCHANGED <<value, revision, log, op, old, rev>> /\ pc' = [pc EXCEPT ![t] = "read"]
      BY <1>4, <2>2 DEF SwapCommit, atom, locals, Goto
    <3>2. SwapView(t)'
      BY <3>1 DEF SwapView, At, TypeOK
    <3>3. QED
      BY <3>1, <3>2, QuietChain DEF TypeOK
  <2>3. QED
    BY <2>1, <2>2
<1>5. ASSUME NEW t \in Calls, ResetCommit(t) PROVE ChainInv'
  <2>1. /\ pc[t] = "commit" /\ Put(t) /\ Record(t, value, new[t])
        /\ \A u \in Calls : u # t => old'[u] = old[u]
    BY <1>5 DEF ResetCommit, At, TypeOK
  <2>2. NoLostUpdate'
    BY <2>1, ChainGrows DEF ChainInv
  <2>3. \A u \in Calls : SwapView(u)'
    BY <2>1, CommitOutdates
  <2>4. QED
    BY <2>2, <2>3 DEF ChainInv
<1>6. ASSUME NEW t \in Calls, CasCommit(t) PROVE ChainInv'
  <2>1. CASE value = op[t].expect
    <3>1. /\ pc[t] = "commit" /\ Put(t) /\ Record(t, value, new[t])
          /\ \A u \in Calls : u # t => old'[u] = old[u]
      BY <1>6, <2>1 DEF CasCommit, At, TypeOK
    <3>2. NoLostUpdate'
      BY <3>1, ChainGrows DEF ChainInv
    <3>3. \A u \in Calls : SwapView(u)'
      BY <3>1, CommitOutdates
    <3>4. QED
      BY <3>2, <3>3 DEF ChainInv
  <2>2. CASE value # op[t].expect
    <3>1. UNCHANGED <<value, revision, log, op, old, rev>> /\ pc' = [pc EXCEPT ![t] = "returned"]
      BY <1>6, <2>2 DEF CasCommit, Fail, locals, Goto
    <3>2. SwapView(t)'
      BY <3>1 DEF SwapView, At, TypeOK
    <3>3. QED
      BY <3>1, <3>2, QuietChain DEF TypeOK
  <2>3. QED
    BY <2>1, <2>2
<1>7. ASSUME NEW t \in Calls, Validate(t) PROVE ChainInv'
  <2>1. UNCHANGED <<value, revision, log, op, old, rev>>
    BY <1>7 DEF Validate, Fail, atom
  <2>2. SwapView(t) /\ pc[t] = "validate"
    BY <1>7 DEF ChainInv, Validate, At
  <2>3. pc'[t] \in {"commit", "raised"} /\ \A u \in Calls \ {t} : pc'[u] = pc[u]
    BY <1>7 DEF Validate, Fail, Goto, TypeOK
  <2>4. SwapView(t)'
    BY <2>1, <2>2, <2>3 DEF SwapView, At
  <2>5. QED
    BY <2>1, <2>3, <2>4, QuietChain
<1>8. ASSUME NEW t \in Calls, NEW l \in {"returned", "raised", "install", "notify"},
             UNCHANGED <<value, revision, log, op, old>>,
             \A u \in Calls \ {t} : rev'[u] = rev[u],
             pc' = [pc EXCEPT ![t] = l]
      PROVE  ChainInv'
  <2>1. SwapView(t)'
    BY <1>8 DEF SwapView, At, TypeOK
  <2>2. QED
    BY <1>8, <2>1, QuietChain DEF TypeOK
<1>9. ASSUME NEW t \in Calls,
             \/ CasRead(t) \/ Snapshot(t) \/ NotifyDone(t) \/ ValidatorTest(t)
             \/ ValidatorInstall(t) \/ AddWatch(t) \/ RemoveWatch(t)
             \/ \E w \in Watch : NotifyOne(t, w)
      PROVE  ChainInv'
  <2>1. CASE CasRead(t)
    <3>1. UNCHANGED <<value, revision, log, op, old, rev>>
      BY <2>1 DEF CasRead, Fail, atom, locals
    <3>2. /\ op[t].kind = "cas" /\ \A u \in Calls \ {t} : pc'[u] = pc[u]
      BY <2>1 DEF CasRead, Fail, Goto, At, TypeOK
    <3>3. SwapView(t)'
      BY <3>1, <3>2 DEF SwapView, At
    <3>4. QED
      BY <3>1, <3>2, <3>3, QuietChain
  <2>2. CASE Snapshot(t)
    BY <2>2, <1>8 DEF Snapshot, atom, locals, Goto
  <2>3. CASE NotifyDone(t)
    BY <2>3, <1>8 DEF NotifyDone, atom, locals, Goto
  <2>4. ASSUME NEW w \in Watch, NotifyOne(t, w) PROVE ChainInv'
    <3>1. UNCHANGED <<value, revision, log, op, old, rev>> /\ pc[t] = "notify"
      BY <2>4 DEF NotifyOne, atom, locals
    <3>2. pc' = [pc EXCEPT ![t] = IF w \in Faulty THEN "raised" ELSE "notify"]
      BY <2>4, <3>1 DEF NotifyOne
    <3>3. QED
      BY <3>1, <3>2, <1>8
  <2>5. CASE ValidatorTest(t)
    <3>1. CASE value \notin op[t].accepts
      BY <2>5, <3>1, <1>8 DEF ValidatorTest, Fail, locals, Goto
    <3>2. CASE value \in op[t].accepts
      BY <2>5, <3>2, <1>8 DEF ValidatorTest, atom, Goto, TypeOK
    <3>3. QED
      BY <3>1, <3>2
  <2>6. CASE ValidatorInstall(t)
    BY <2>6, <1>8 DEF ValidatorInstall, locals, Goto
  <2>7. CASE AddWatch(t)
    BY <2>7, <1>8 DEF AddWatch, locals, Goto
  <2>8. CASE RemoveWatch(t)
    BY <2>8, <1>8 DEF RemoveWatch, locals, Goto
  <2>9. QED
    BY <1>9, <2>1, <2>2, <2>3, <2>4, <2>5, <2>6, <2>7, <2>8
<1>10. CASE UNCHANGED vars
  BY <1>10 DEF ChainInv, NoLostUpdate, SwapView, At, vars, atom, locals
<1>11. QED
  BY <1>1, <1>2, <1>3, <1>4, <1>5, <1>6, <1>7, <1>9, <1>10 DEF Next, Step

LEMMA ChainInit == Init => ChainInv
<1> SUFFICES ASSUME Init PROVE ChainInv
  OBVIOUS
<1>1. NoLostUpdate
  BY DEF Init, NoLostUpdate
<1>2. \A t \in Calls : SwapView(t)
  BY DEF Init, SwapView, At
<1>3. QED
  BY <1>1, <1>2 DEF ChainInv

\* No update is lost, whatever calls race: the invariant needs what every swap
\* in progress knows of the value (SwapView).
THEOREM NoLostUpdateCorrect == Spec => []NoLostUpdate
<1>1. ChainInv => NoLostUpdate
  BY DEF ChainInv
<1>2. QED
  BY <1>1, ChainInit, TypeCorrect, ChainInductive, PTL DEF Spec

-----------------------------------------------------------------------------
\* What a call about to commit knows of the validator, and what a
\* set-validator! about to install knows of the value.
CommitView(t) ==
    pc[t] = "commit" => /\ under[t] <= installs
                        /\ under[t] = installs => new[t] \in accepted

InstallView(t) ==
    pc[t] = "install" => /\ rev[t] <= Len(log)
                         /\ rev[t] = Len(log) => value \in op[t].accepts

LastIsOld == Len(log) > 0 => log[Len(log)].under <= installs

RaceInv ==
    /\ OnlyRacesInvalidate
    /\ tested <= Len(log)
    /\ LastIsOld
    /\ \A t \in Calls : CommitView(t) /\ InstallView(t)

LEMMA LastUnder ==
    ASSUME TypeOK, Len(log) > 0
    PROVE  log[Len(log)].under \in Nat
<1>1. log[Len(log)] \in LogEntry
  BY DEF TypeOK
<1>2. QED
  BY <1>1 DEF LogEntry

\* A step that changes neither the atom nor its validator.
LEMMA QuietRace ==
    ASSUME TypeOK, RaceInv, NEW t \in Calls,
           UNCHANGED <<value, log, accepted, installs, tested>>,
           \A u \in Calls \ {t} : /\ pc'[u] = pc[u] /\ op'[u] = op[u]
                                  /\ new'[u] = new[u] /\ rev'[u] = rev[u]
                                  /\ under'[u] = under[u],
           CommitView(t)', InstallView(t)'
    PROVE  RaceInv'
<1>1. (OnlyRacesInvalidate /\ tested <= Len(log) /\ LastIsOld)'
  BY DEF RaceInv, OnlyRacesInvalidate, LastIsOld
<1>2. ASSUME NEW u \in Calls PROVE (CommitView(u) /\ InstallView(u))'
  BY DEF RaceInv, CommitView, InstallView
<1>3. QED
  BY <1>1, <1>2 DEF RaceInv

\* ... and leads its call neither to a commit nor to an install.
LEMMA AsideRace ==
    ASSUME TypeOK, RaceInv, NEW t \in Calls,
           UNCHANGED <<value, log, accepted, installs, tested>>,
           \A u \in Calls \ {t} : /\ pc'[u] = pc[u] /\ op'[u] = op[u]
                                  /\ new'[u] = new[u] /\ rev'[u] = rev[u]
                                  /\ under'[u] = under[u],
           pc'[t] \notin {"commit", "install"}
    PROVE  RaceInv'
<1>1. (CommitView(t) /\ InstallView(t))'
  BY DEF CommitView, InstallView
<1>2. QED
  BY <1>1, QuietRace

\* A commit: the value it puts was validated, by an older validator at worst.
LEMMA CommitRace ==
    ASSUME TypeOK, RaceInv, NEW t \in Calls, NEW o \in Value,
           pc[t] = "commit", Put(t), Record(t, o, new[t])
    PROVE  RaceInv'
<1> DEFINE e == [call |-> t, old |-> o, new |-> new[t], under |-> under[t]]
<1>1. e \in LogEntry /\ e.under = under[t]
  BY DEF LogEntry, TypeOK
<1>2. log' = Append(log, e)
  BY DEF Record
<1>3. /\ UNCHANGED <<accepted, installs, tested, new, rev, under, op>>
      /\ value' = new[t] /\ pc' = [pc EXCEPT ![t] = "snapshot"]
  BY DEF Put, side, Goto
<1> HIDE DEF e
<1>4. Len(log') = Len(log) + 1 /\ Len(log) \in Nat /\ log'[Len(log')] = e
  BY <1>1, <1>2, AppendAt DEF TypeOK
<1>5. CommitView(t)
  BY DEF RaceInv
<1>6. OnlyRacesInvalidate'
  <2>1. value' \notin accepted' => under[t] < installs
    BY <1>3, <1>5 DEF CommitView, TypeOK
  <2>2. Len(log') > tested'
    BY <1>3, <1>4 DEF RaceInv, TypeOK
  <2>3. QED
    BY <1>1, <1>3, <1>4, <2>1, <2>2 DEF OnlyRacesInvalidate
<1>7. (tested <= Len(log))'
  BY <1>3, <1>4 DEF RaceInv, TypeOK
<1>8. LastIsOld'
  BY <1>1, <1>3, <1>4, <1>5 DEF LastIsOld, CommitView
<1>9. ASSUME NEW u \in Calls PROVE CommitView(u)'
  BY <1>3 DEF RaceInv, CommitView, TypeOK
<1>10. ASSUME NEW u \in Calls PROVE InstallView(u)'
  BY <1>3, <1>4 DEF RaceInv, InstallView, TypeOK
<1>11. QED
  BY <1>6, <1>7, <1>8, <1>9, <1>10 DEF RaceInv

LEMMA RaceInductive == TypeOK /\ RaceInv /\ [Next]_vars => RaceInv'
<1> SUFFICES ASSUME TypeOK, RaceInv, [Next]_vars PROVE RaceInv'
  OBVIOUS
<1> USE DEF Goto, atom, side, locals
<1>1. ASSUME NEW t \in Calls, Begin(t) PROVE RaceInv'
  <2>1. pc'[t] \notin {"commit", "install"}
    BY <1>1 DEF Begin, TypeOK
  <2>2. QED
    BY <1>1, <2>1, AsideRace DEF Begin, TypeOK
<1>2. ASSUME NEW t \in Calls, SwapRead(t) PROVE RaceInv'
  BY <1>2, AsideRace DEF SwapRead, TypeOK
<1>3. ASSUME NEW t \in Calls, SwapCall(t) PROVE RaceInv'
  <2>1. CASE op[t].fn[old[t]] = Raises
    BY <1>3, <2>1, AsideRace DEF SwapCall, Fail, TypeOK
  <2>2. CASE op[t].fn[old[t]] # Raises
    BY <1>3, <2>2, AsideRace DEF SwapCall, TypeOK
  <2>3. QED
    BY <2>1, <2>2
<1>4. ASSUME NEW t \in Calls, SwapCommit(t) PROVE RaceInv'
  <2>1. CASE revision = rev[t]
    <3>1. pc[t] = "commit" /\ Put(t) /\ Record(t, old[t], new[t])
      BY <1>4, <2>1 DEF SwapCommit, At
    <3>2. QED
      BY <3>1, CommitRace DEF TypeOK
  <2>2. CASE revision # rev[t]
    BY <1>4, <2>2, AsideRace DEF SwapCommit, TypeOK
  <2>3. QED
    BY <2>1, <2>2
<1>5. ASSUME NEW t \in Calls, ResetCommit(t) PROVE RaceInv'
  <2>1. pc[t] = "commit" /\ Put(t) /\ Record(t, value, new[t])
    BY <1>5 DEF ResetCommit, At
  <2>2. QED
    BY <2>1, CommitRace DEF TypeOK
<1>6. ASSUME NEW t \in Calls, CasRead(t) PROVE RaceInv'
  <2>1. CASE value # op[t].expect
    BY <1>6, <2>1, AsideRace DEF CasRead, Fail, TypeOK
  <2>2. CASE value = op[t].expect
    BY <1>6, <2>2, AsideRace DEF CasRead, TypeOK
  <2>3. QED
    BY <2>1, <2>2
<1>7. ASSUME NEW t \in Calls, CasCommit(t) PROVE RaceInv'
  <2>1. CASE value = op[t].expect
    <3>1. pc[t] = "commit" /\ Put(t) /\ Record(t, value, new[t])
      BY <1>7, <2>1 DEF CasCommit, At
    <3>2. QED
      BY <3>1, CommitRace DEF TypeOK
  <2>2. CASE value # op[t].expect
    BY <1>7, <2>2, AsideRace DEF CasCommit, Fail, TypeOK
  <2>3. QED
    BY <2>1, <2>2
<1>8. ASSUME NEW t \in Calls, Validate(t) PROVE RaceInv'
  <2>1. CASE new[t] \notin accepted
    BY <1>8, <2>1, AsideRace DEF Validate, Fail, TypeOK
  <2>2. CASE new[t] \in accepted
    <3>1. (CommitView(t) /\ InstallView(t))'
      BY <1>8, <2>2 DEF Validate, CommitView, InstallView, TypeOK
    <3>2. QED
      BY <1>8, <2>2, <3>1, QuietRace DEF Validate, TypeOK
  <2>3. QED
    BY <2>1, <2>2
<1>9. ASSUME NEW t \in Calls, Snapshot(t) PROVE RaceInv'
  BY <1>9, AsideRace DEF Snapshot, TypeOK
<1>10. ASSUME NEW t \in Calls, NotifyDone(t) PROVE RaceInv'
  BY <1>10, AsideRace DEF NotifyDone, TypeOK
<1>11. ASSUME NEW t \in Calls, NEW w \in Watch, NotifyOne(t, w) PROVE RaceInv'
  BY <1>11, AsideRace DEF NotifyOne, TypeOK
<1>12. ASSUME NEW t \in Calls, ValidatorTest(t) PROVE RaceInv'
  <2>1. CASE value \notin op[t].accepts
    BY <1>12, <2>1, AsideRace DEF ValidatorTest, Fail, TypeOK
  <2>2. CASE value \in op[t].accepts
    <3>1. Len(log) \in Nat
      BY DEF TypeOK
    <3>2. (CommitView(t) /\ InstallView(t))'
      BY <1>12, <2>2, <3>1 DEF ValidatorTest, CommitView, InstallView, TypeOK
    <3>3. QED
      BY <1>12, <2>2, <3>2, QuietRace DEF ValidatorTest, TypeOK
  <2>3. QED
    BY <2>1, <2>2
<1>13. ASSUME NEW t \in Calls, ValidatorInstall(t) PROVE RaceInv'
  <2>1. /\ UNCHANGED <<value, log, old, new, rev, under, op>>
        /\ accepted' = op[t].accepts /\ installs' = installs + 1
        /\ tested' = rev[t] /\ pc' = [pc EXCEPT ![t] = "returned"]
        /\ pc[t] = "install"
    BY <1>13 DEF ValidatorInstall, At
  <2>2. InstallView(t) /\ LastIsOld /\ Len(log) \in Nat
    BY DEF RaceInv, TypeOK
  <2>3. LastIsOld'
    BY <2>1, <2>2, LastUnder DEF LastIsOld, TypeOK
  <2>4. OnlyRacesInvalidate'
    <3> SUFFICES ASSUME value \notin op[t].accepts
                 PROVE  Len(log) > rev[t] /\ log[Len(log)].under < installs + 1
      BY <2>1 DEF OnlyRacesInvalidate
    <3>1. rev[t] \in Nat /\ installs \in Nat
      BY DEF TypeOK
    <3>2. rev[t] <= Len(log) /\ rev[t] # Len(log)
      BY <2>1, <2>2 DEF InstallView
    <3>3. Len(log) > rev[t]
      BY <2>2, <3>1, <3>2
    <3>4. log[Len(log)].under <= installs /\ log[Len(log)].under \in Nat
      BY <2>2, <3>1, <3>3, LastUnder DEF LastIsOld
    <3>5. QED
      BY <3>1, <3>3, <3>4
  <2>5. (tested <= Len(log))'
    BY <2>1, <2>2 DEF InstallView
  <2>6. ASSUME NEW u \in Calls PROVE (CommitView(u) /\ InstallView(u))'
    BY <2>1 DEF RaceInv, CommitView, InstallView, TypeOK
  <2>7. QED
    BY <2>3, <2>4, <2>5, <2>6 DEF RaceInv
<1>14. ASSUME NEW t \in Calls, AddWatch(t) PROVE RaceInv'
  BY <1>14, AsideRace DEF AddWatch, TypeOK
<1>15. ASSUME NEW t \in Calls, RemoveWatch(t) PROVE RaceInv'
  BY <1>15, AsideRace DEF RemoveWatch, TypeOK
<1>16. CASE UNCHANGED vars
  BY <1>16 DEF vars, RaceInv, OnlyRacesInvalidate, LastIsOld, CommitView, InstallView
<1>17. QED
  BY <1>1, <1>2, <1>3, <1>4, <1>5, <1>6, <1>7, <1>8, <1>9, <1>10, <1>11, <1>12,
     <1>13, <1>14, <1>15, <1>16 DEF Next, Step

\* The race between set-validator! and an update is the only way to a value
\* that the validator rejects, whatever calls race.
THEOREM OnlyRacesInvalidateCorrect == Spec => []OnlyRacesInvalidate
<1>1. Init => RaceInv
  <2> SUFFICES ASSUME Init PROVE RaceInv
    OBVIOUS
  <2>1. Len(log) = 0 /\ tested = 0 /\ value \in accepted
    BY AtomAssumption DEF Init
  <2>2. \A t \in Calls : pc[t] = "idle"
    BY DEF Init
  <2>3. QED
    BY <2>1, <2>2 DEF RaceInv, OnlyRacesInvalidate, LastIsOld, CommitView, InstallView
<1>2. RaceInv => OnlyRacesInvalidate
  BY DEF RaceInv
<1>3. QED
  BY <1>1, <1>2, TypeCorrect, RaceInductive, PTL DEF Spec

-----------------------------------------------------------------------------
\* A call that is not done has had no effect, and a call that is about to
\* commit would commit the image of the value it read.
Undone == {"idle", "read", "call", "validate", "commit", "install"}

CallView(t) ==
    /\ op[t] = NoOp <=> pc[t] = "idle"
    /\ pc[t] \in Undone => effect[t] = Pending
    /\ (At(t, "validate", {"swap"}) \/ At(t, "commit", {"swap"})) =>
           new[t] = op[t].fn[old[t]]
    /\ (At(t, "validate", {"reset", "cas"}) \/ At(t, "commit", {"reset", "cas"})) =>
           new[t] = op[t].new

CallInv == effect \in [Calls -> [kind : {"pending", "refused"}]
                                 \cup [kind : {"changed"}, old : Value, new : Value]]
           /\ \A t \in Calls : CallView(t)

\* Only the caller's own variables matter to its view.
LEMMA OthersView ==
    ASSUME CallInv, NEW t \in Calls,
           effect' \in [Calls -> [kind : {"pending", "refused"}]
                                 \cup [kind : {"changed"}, old : Value, new : Value]],
           \A u \in Calls \ {t} : /\ pc'[u] = pc[u] /\ op'[u] = op[u]
                                  /\ new'[u] = new[u] /\ old'[u] = old[u]
                                  /\ effect'[u] = effect[u],
           CallView(t)'
    PROVE  CallInv'
<1>1. ASSUME NEW u \in Calls PROVE CallView(u)'
  <2>1. CASE u = t
    BY <2>1
  <2>2. CASE u # t
    <3>1. CallView(u)
      BY DEF CallInv
    <3>2. u \in Calls \ {t}
      BY <2>2
    <3>3. QED
      BY <3>1, <3>2 DEF CallView, At
  <2>3. QED
    BY <2>1, <2>2
<1>2. QED
  BY <1>1 DEF CallInv

\* A step to a location after which nothing is left to do to the atom.
LEMMA LeaveView ==
    ASSUME TypeOK, CallInv, NEW t \in Calls, NEW l \in {"snapshot", "notify", "returned", "raised"},
           pc[t] # "idle", pc' = [pc EXCEPT ![t] = l], op' = op,
           NEW e \in [kind : {"pending", "refused"}]
                       \cup [kind : {"changed"}, old : Value, new : Value],
           effect' = [effect EXCEPT ![t] = e],
           \A u \in Calls \ {t} : new'[u] = new[u] /\ old'[u] = old[u]
    PROVE  CallInv'
<1>1. CallView(t)
  BY DEF CallInv
<1>2. CallView(t)'
  BY <1>1 DEF CallView, At, Undone, TypeOK
<1>3. QED
  BY <1>2, OthersView DEF CallInv, TypeOK

\* Failing, and changing the atom, are such steps.
LEMMA FailView ==
    ASSUME TypeOK, CallInv, NEW t \in Calls, NEW l \in {"returned", "raised"},
           pc[t] # "idle", Fail(t, l), UNCHANGED <<old, new>>
    PROVE  CallInv'
<1>1. Refused \in [kind : {"pending", "refused"}]
  BY DEF Refused
<1>2. pc' = [pc EXCEPT ![t] = l] /\ op' = op /\ effect' = [effect EXCEPT ![t] = Refused]
  BY DEF Fail, Goto
<1>3. QED
  BY <1>1, <1>2, LeaveView

LEMMA PutView ==
    ASSUME TypeOK, CallInv, NEW t \in Calls, NEW o \in Value, pc[t] = "commit",
           Put(t), Record(t, o, new[t]), \A u \in Calls \ {t} : old'[u] = old[u]
    PROVE  CallInv'
<1>1. Changed(o, new[t]) \in [kind : {"changed"}, old : Value, new : Value]
  BY DEF Changed, TypeOK
<1>2. /\ pc' = [pc EXCEPT ![t] = "snapshot"] /\ op' = op /\ new' = new
      /\ effect' = [effect EXCEPT ![t] = Changed(o, new[t])]
  BY DEF Put, Goto, Record
<1>3. QED
  BY <1>1, <1>2, LeaveView

\* So is one that leaves the effect as it is.
LEMMA RestView ==
    ASSUME TypeOK, CallInv, NEW t \in Calls, NEW l \in {"notify", "returned", "raised"},
           pc[t] # "idle", pc' = [pc EXCEPT ![t] = l], UNCHANGED <<op, effect, old, new>>
    PROVE  CallInv'
<1>1. effect' = [effect EXCEPT ![t] = effect[t]]
  BY DEF CallInv
<1>2. effect[t] \in [kind : {"pending", "refused"}]
                     \cup [kind : {"changed"}, old : Value, new : Value]
  BY DEF CallInv
<1>3. QED
  BY <1>1, <1>2, LeaveView

LEMMA CallInductive == TypeOK /\ CallInv /\ [Next]_vars => CallInv'
<1> SUFFICES ASSUME TypeOK, CallInv, [Next]_vars PROVE CallInv'
  OBVIOUS
<1> USE DEF Goto, atom, side, locals
<1>0. \A t \in Calls : CallView(t)
  BY DEF CallInv
<1>1. ASSUME NEW t \in Calls, Begin(t) PROVE CallInv'
  <2>1. PICK o \in Menu :
          /\ op' = [op EXCEPT ![t] = o]
          /\ IF o.kind = "reset"
             THEN Goto(t, "validate") /\ new' = [new EXCEPT ![t] = o.new]
             ELSE Goto(t, "read") /\ UNCHANGED new
    BY <1>1 DEF Begin
  <2>2. o # NoOp /\ op'[t] = o /\ effect'[t] = Pending
    BY <1>0, <1>1, <2>1, AtomAssumption DEF Begin, CallView, Undone, TypeOK
  <2>3. CallView(t)'
    BY <2>1, <2>2 DEF CallView, At, Undone, TypeOK
  <2>4. QED
    BY <1>1, <2>1, <2>3, OthersView DEF Begin, CallInv, TypeOK
<1>2. ASSUME NEW t \in Calls, SwapRead(t) PROVE CallInv'
  <2>1. CallView(t)'
    BY <1>0, <1>2 DEF SwapRead, CallView, At, Undone, TypeOK
  <2>2. QED
    BY <1>2, <2>1, OthersView DEF SwapRead, CallInv, TypeOK
<1>3. ASSUME NEW t \in Calls, SwapCall(t) PROVE CallInv'
  <2>1. CASE op[t].fn[old[t]] = Raises
    BY <1>3, <2>1, FailView DEF SwapCall, At
  <2>2. CASE op[t].fn[old[t]] # Raises
    <3>1. CallView(t)'
      BY <1>0, <1>3, <2>2 DEF SwapCall, CallView, At, Undone, TypeOK
    <3>2. QED
      BY <1>3, <2>2, <3>1, OthersView DEF SwapCall, CallInv, TypeOK
  <2>3. QED
    BY <2>1, <2>2
<1>4. ASSUME NEW t \in Calls, SwapCommit(t) PROVE CallInv'
  <2>1. CASE revision = rev[t]
    <3>1. pc[t] = "commit" /\ Put(t) /\ Record(t, old[t], new[t]) /\ old' = old
      BY <1>4, <2>1 DEF SwapCommit, At
    <3>2. QED
      BY <3>1, PutView DEF TypeOK
  <2>2. CASE revision # rev[t]
    <3>1. CallView(t)'
      BY <1>0, <1>4, <2>2 DEF SwapCommit, CallView, At, Undone, TypeOK
    <3>2. QED
      BY <1>4, <2>2, <3>1, OthersView DEF SwapCommit, CallInv, TypeOK
  <2>3. QED
    BY <2>1, <2>2
<1>5. ASSUME NEW t \in Calls, ResetCommit(t) PROVE CallInv'
  <2>1. /\ pc[t] = "commit" /\ Put(t) /\ Record(t, value, new[t])
        /\ \A u \in Calls \ {t} : old'[u] = old[u]
    BY <1>5 DEF ResetCommit, At, TypeOK
  <2>2. QED
    BY <2>1, PutView DEF TypeOK
<1>6. ASSUME NEW t \in Calls, CasRead(t) PROVE CallInv'
  <2>1. CASE value # op[t].expect
    BY <1>6, <2>1, FailView DEF CasRead, At
  <2>2. CASE value = op[t].expect
    <3>1. CallView(t)'
      BY <1>0, <1>6, <2>2 DEF CasRead, CallView, At, Undone, TypeOK
    <3>2. QED
      BY <1>6, <2>2, <3>1, OthersView DEF CasRead, CallInv, TypeOK
  <2>3. QED
    BY <2>1, <2>2
<1>7. ASSUME NEW t \in Calls, CasCommit(t) PROVE CallInv'
  <2>1. CASE value = op[t].expect
    <3>1. /\ pc[t] = "commit" /\ Put(t) /\ Record(t, value, new[t])
          /\ \A u \in Calls \ {t} : old'[u] = old[u]
      BY <1>7, <2>1 DEF CasCommit, At, TypeOK
    <3>2. QED
      BY <3>1, PutView DEF TypeOK
  <2>2. CASE value # op[t].expect
    BY <1>7, <2>2, FailView DEF CasCommit, At
  <2>3. QED
    BY <2>1, <2>2
<1>8. ASSUME NEW t \in Calls, Validate(t) PROVE CallInv'
  <2>1. CASE new[t] \notin accepted
    BY <1>8, <2>1, FailView DEF Validate, At
  <2>2. CASE new[t] \in accepted
    <3>1. CallView(t)'
      BY <1>0, <1>8, <2>2 DEF Validate, CallView, At, Undone, TypeOK
    <3>2. QED
      BY <1>8, <2>2, <3>1, OthersView DEF Validate, CallInv, TypeOK
  <2>3. QED
    BY <2>1, <2>2
<1>9. ASSUME NEW t \in Calls, Snapshot(t) PROVE CallInv'
  BY <1>9, RestView DEF Snapshot
<1>10. ASSUME NEW t \in Calls, NotifyDone(t) PROVE CallInv'
  BY <1>10, RestView DEF NotifyDone
<1>11. ASSUME NEW t \in Calls, NEW w \in Watch, NotifyOne(t, w) PROVE CallInv'
  <2>1. pc' = [pc EXCEPT ![t] = IF w \in Faulty THEN "raised" ELSE "notify"]
    BY <1>11 DEF NotifyOne
  <2>2. QED
    BY <1>11, <2>1, RestView DEF NotifyOne
<1>12. ASSUME NEW t \in Calls, ValidatorTest(t) PROVE CallInv'
  <2>1. CASE value \notin op[t].accepts
    BY <1>12, <2>1, FailView DEF ValidatorTest, At
  <2>2. CASE value \in op[t].accepts
    <3>1. CallView(t)'
      BY <1>0, <1>12, <2>2 DEF ValidatorTest, CallView, At, Undone, TypeOK
    <3>2. QED
      BY <1>12, <2>2, <3>1, OthersView DEF ValidatorTest, CallInv, TypeOK
  <2>3. QED
    BY <2>1, <2>2
<1>13. ASSUME NEW t \in Calls,
              ValidatorInstall(t) \/ AddWatch(t) \/ RemoveWatch(t)
       PROVE  CallInv'
  <2>1. /\ pc[t] # "idle" /\ pc' = [pc EXCEPT ![t] = "returned"]
        /\ effect' = [effect EXCEPT ![t] = Refused] /\ UNCHANGED <<op, old, new>>
    BY <1>13 DEF ValidatorInstall, AddWatch, RemoveWatch, At
  <2>2. Refused \in [kind : {"pending", "refused"}]
    BY DEF Refused
  <2>3. QED
    BY <2>1, <2>2, LeaveView
<1>14. CASE UNCHANGED vars
  BY <1>14 DEF vars, CallInv, CallView, At
<1>15. QED
  BY <1>1, <1>2, <1>3, <1>4, <1>5, <1>6, <1>7, <1>8, <1>9, <1>10, <1>11, <1>12,
     <1>13, <1>14 DEF Next, Step

-----------------------------------------------------------------------------
\* A commit that replaces the value it read with its image is an Update of the
\* abstract specification.
LEMMA CommitIsUpdate ==
    ASSUME TypeOK, CallInv, NEW t \in Calls, pc[t] = "commit",
           op[t].kind \in {"swap", "reset", "cas"},
           op[t].kind = "swap" => old[t] = value,
           op[t].kind = "cas" => op[t].expect = value,
           Put(t), Record(t, value, new[t])
    PROVE  Promise!Update(t)
<1>1. CallView(t)
  BY DEF CallInv
<1>2. op[t] # NoOp /\ effect[t] = Pending
  BY <1>1 DEF CallView, Undone
<1>3. new[t] = Promise!Image(op[t], value)
  <2>1. CASE op[t].kind = "swap"
    BY <1>1, <2>1 DEF CallView, At, Promise!Image
  <2>2. CASE op[t].kind = "reset"
    BY <1>1, <2>2 DEF CallView, At, Promise!Image
  <2>3. CASE op[t].kind = "cas"
    BY <1>1, <2>3 DEF CallView, At, Promise!Image
  <2>4. QED
    BY <2>1, <2>2, <2>3
<1>4. new[t] # Raises
  BY AtomAssumption DEF TypeOK
<1>5. value' = new[t] /\ op' = op /\ effect' = [effect EXCEPT ![t] = Changed(value, new[t])]
  BY DEF Put, Record
<1>6. QED
  BY <1>2, <1>3, <1>4, <1>5
     DEF Promise!Update, Promise!Pending, Pending, Promise!Changed, Changed

\* A call that fails is a Refuse.
LEMMA FailIsRefuse ==
    ASSUME CallInv, NEW t \in Calls, pc[t] \in Undone, pc[t] # "idle",
           effect' = [effect EXCEPT ![t] = Refused], UNCHANGED <<value, op>>
    PROVE  Promise!Refuse(t)
<1>1. op[t] # NoOp /\ effect[t] = Pending
  BY DEF CallInv, CallView
<1>2. QED
  BY <1>1 DEF Promise!Refuse, Promise!Pending, Pending, Promise!Refused, Refused

LEMMA StepsMap ==
    TypeOK /\ ChainInv /\ CallInv /\ [Next]_vars => [Promise!Next]_(Promise!avars)
<1> SUFFICES ASSUME TypeOK, ChainInv, CallInv, [Next]_vars
             PROVE  \/ \E t \in Calls : Promise!Call(t) \/ Promise!Update(t) \/ Promise!Refuse(t)
                    \/ UNCHANGED <<value, op, effect>>
  BY DEF Promise!Next, Promise!avars
<1> USE DEF At, Undone
<1>1. ASSUME NEW t \in Calls, Begin(t) PROVE Promise!Call(t)
  <2>1. op[t] = NoOp
    BY <1>1 DEF CallInv, CallView, Begin
  <2>2. QED
    BY <1>1, <2>1 DEF Begin, Promise!Call, atom
<1>2. ASSUME NEW t \in Calls, SwapCommit(t), revision = rev[t] PROVE Promise!Update(t)
  <2>1. /\ pc[t] = "commit" /\ op[t].kind = "swap"
        /\ Put(t) /\ Record(t, old[t], new[t])
    BY <1>2 DEF SwapCommit
  <2>2. old[t] = value
    BY <1>2, <2>1 DEF ChainInv, SwapView
  <2>3. QED
    BY <2>1, <2>2, CommitIsUpdate
<1>3. ASSUME NEW t \in Calls, ResetCommit(t) PROVE Promise!Update(t)
  BY <1>3, CommitIsUpdate DEF ResetCommit
<1>4. ASSUME NEW t \in Calls, CasCommit(t), value = op[t].expect PROVE Promise!Update(t)
  BY <1>4, CommitIsUpdate DEF CasCommit
<1>5. ASSUME NEW t \in Calls, NEW l, Fail(t, l),
             pc[t] \in {"read", "call", "validate", "commit"}
      PROVE  Promise!Refuse(t)
  BY <1>5, FailIsRefuse DEF Fail
<1>6. ASSUME NEW t \in Calls,
             ValidatorInstall(t) \/ AddWatch(t) \/ RemoveWatch(t)
      PROVE  Promise!Refuse(t)
  BY <1>6, FailIsRefuse DEF ValidatorInstall, AddWatch, RemoveWatch
<1>7. ASSUME NEW t \in Calls,
             SwapRead(t) \/ Snapshot(t) \/ NotifyDone(t) \/ \E w \in Watch : NotifyOne(t, w)
      PROVE  UNCHANGED <<value, op, effect>>
  BY <1>7 DEF SwapRead, Snapshot, NotifyDone, NotifyOne, atom
<1>8. ASSUME NEW t \in Calls, SwapCall(t)
      PROVE  Promise!Refuse(t) \/ UNCHANGED <<value, op, effect>>
  BY <1>5, <1>8 DEF SwapCall, atom
<1>9. ASSUME NEW t \in Calls, SwapCommit(t), revision # rev[t]
      PROVE  UNCHANGED <<value, op, effect>>
  BY <1>9 DEF SwapCommit, atom
<1>10. ASSUME NEW t \in Calls, CasRead(t)
       PROVE  Promise!Refuse(t) \/ UNCHANGED <<value, op, effect>>
  BY <1>5, <1>10 DEF CasRead, atom
<1>11. ASSUME NEW t \in Calls, CasCommit(t), value # op[t].expect
       PROVE  Promise!Refuse(t)
  BY <1>5, <1>11 DEF CasCommit
<1>12. ASSUME NEW t \in Calls, Validate(t)
       PROVE  Promise!Refuse(t) \/ UNCHANGED <<value, op, effect>>
  BY <1>5, <1>12 DEF Validate, atom
<1>13. ASSUME NEW t \in Calls, ValidatorTest(t)
       PROVE  Promise!Refuse(t) \/ UNCHANGED <<value, op, effect>>
  BY <1>5, <1>13 DEF ValidatorTest, atom
<1>14. CASE UNCHANGED vars
  BY <1>14 DEF vars, atom
<1>15. QED
  BY <1>1, <1>2, <1>3, <1>4, <1>6, <1>7, <1>8, <1>9, <1>10, <1>11, <1>12, <1>13,
     <1>14 DEF Next, Step

\* An atom keeps its promise: every update is atomic, for all calls, values and
\* operations.
THEOREM PromiseKept == Spec => KeepsPromise
<1>1. Init => CallInv /\ Promise!Init
  <2> SUFFICES ASSUME Init PROVE CallInv /\ Promise!Init
    OBVIOUS
  <2>1. \A t \in Calls : CallView(t)
    BY DEF Init, CallView, At, Undone
  <2>2. Pending \in [kind : {"pending", "refused"}]
    BY DEF Pending
  <2>3. CallInv
    BY <2>1, <2>2 DEF Init, CallInv
  <2>4. Promise!Init
    BY AtomAssumption DEF Init, Promise!Init, Pending, Promise!Pending
  <2>5. QED
    BY <2>3, <2>4
<1>2. QED
  BY <1>1, ChainInit, TypeCorrect, ChainInductive, CallInductive, StepsMap, PTL
     DEF Spec, KeepsPromise, Promise!Spec

-----------------------------------------------------------------------------
\* The log has one entry for every revision and one for every call that changed the
\* atom.
OnceInv == UpdatesOnce /\ revision = Len(log)

\* A step leaves the atom as it is, and at most closes the account of a call that
\* had none; or it is a commit.
LEMMA StepChanges ==
    ASSUME TypeOK, CallInv, [Next]_vars
    PROVE  \/ /\ UNCHANGED <<log, revision>>
              /\ \/ UNCHANGED effect
                 \/ \E t \in Calls : /\ effect[t] = Pending
                                     /\ effect' = [effect EXCEPT ![t] = Refused]
           \/ \E t \in Calls, o \in Value : /\ pc[t] = "commit" /\ effect[t] = Pending
                                            /\ Put(t) /\ Record(t, o, new[t])
<1> DEFINE Quiet == UNCHANGED <<log, revision>> /\ UNCHANGED effect
           Closed(t) == /\ UNCHANGED <<log, revision>> /\ effect[t] = Pending
                        /\ effect' = [effect EXCEPT ![t] = Refused]
           Commit(t) == \E o \in Value : /\ pc[t] = "commit" /\ effect[t] = Pending
                                         /\ Put(t) /\ Record(t, o, new[t])
<1>0. \A t \in Calls : pc[t] \in Undone => effect[t] = Pending
  BY DEF CallInv, CallView
<1>v. value \in Value /\ old \in [Calls -> Value]
  BY DEF TypeOK
<1> USE DEF At, Undone, atom
<1>1. ASSUME NEW t \in Calls, NEW l, pc[t] \in Undone, Fail(t, l) PROVE Closed(t)
  BY <1>0, <1>1 DEF Fail
<1>2. ASSUME NEW t \in Calls,
             \/ Begin(t) \/ SwapRead(t) \/ Snapshot(t) \/ NotifyDone(t)
             \/ \E w \in Watch : NotifyOne(t, w)
      PROVE  Quiet
  BY <1>2 DEF Begin, SwapRead, Snapshot, NotifyDone, NotifyOne
<1>3. ASSUME NEW t \in Calls, SwapCall(t) \/ CasRead(t) \/ Validate(t) \/ ValidatorTest(t)
      PROVE  Quiet \/ Closed(t)
  BY <1>1, <1>3 DEF SwapCall, CasRead, Validate, ValidatorTest
<1>4. ASSUME NEW t \in Calls, SwapCommit(t) PROVE Quiet \/ Commit(t)
  BY <1>0, <1>v, <1>4 DEF SwapCommit
<1>5. ASSUME NEW t \in Calls, ResetCommit(t) PROVE Commit(t)
  BY <1>0, <1>v, <1>5 DEF ResetCommit
<1>6. ASSUME NEW t \in Calls, CasCommit(t) PROVE Closed(t) \/ Commit(t)
  BY <1>0, <1>1, <1>v, <1>6 DEF CasCommit
<1>7. ASSUME NEW t \in Calls, ValidatorInstall(t) \/ AddWatch(t) \/ RemoveWatch(t)
      PROVE  Closed(t)
  BY <1>0, <1>7 DEF ValidatorInstall, AddWatch, RemoveWatch
<1>8. CASE UNCHANGED vars
  BY <1>8 DEF vars
<1>9. ASSUME NEW t \in Calls, Begin(t) \/ Step(t) PROVE Quiet \/ Closed(t) \/ Commit(t)
  <2> HIDE DEF Quiet, Closed, Commit
  <2> QED
    BY <1>2, <1>3, <1>4, <1>5, <1>6, <1>7, <1>9 DEF Step
<1>10. CASE Next
  BY <1>9, <1>10 DEF Next
<1>11. QED
  BY <1>8, <1>10

LEMMA ChangedIsNot == \A o, n : Changed(o, n) # Pending
<1> SUFFICES ASSUME NEW o, NEW n PROVE Changed(o, n) # Pending
  OBVIOUS
<1>1. Changed(o, n).kind = "changed" /\ Pending.kind = "pending"
  BY DEF Changed, Pending
<1>2. QED
  BY <1>1

LEMMA OnceInductive == TypeOK /\ CallInv /\ OnceInv /\ [Next]_vars => OnceInv'
<1> SUFFICES ASSUME TypeOK, CallInv, OnceInv, [Next]_vars PROVE OnceInv'
  OBVIOUS
<1>0. /\ log \in Seq(LogEntry) /\ Len(log) \in Nat
      /\ \A i \in 1..Len(log) : log[i] \in LogEntry /\ log[i].call \in Calls
      /\ DOMAIN effect = Calls
  <2>1. log \in Seq(LogEntry)
    BY DEF TypeOK
  <2>2. \A i \in 1..Len(log) : log[i] \in LogEntry
    BY <2>1
  <2>3. QED
    BY <2>1, <2>2 DEF LogEntry, CallInv
<1>1. \A i \in 1..Len(log) : effect[log[i].call] # Pending
  BY ChangedIsNot DEF OnceInv, UpdatesOnce
<1>2. CASE UNCHANGED <<log, revision, effect>>
  BY <1>2 DEF OnceInv, UpdatesOnce
<1>3. ASSUME NEW t \in Calls, effect[t] = Pending, UNCHANGED <<log, revision>>,
             effect' = [effect EXCEPT ![t] = Refused]
      PROVE  OnceInv'
  <2>1. \A i \in 1..Len(log) : effect'[log[i].call] = effect[log[i].call]
    BY <1>0, <1>1, <1>3
  <2>2. QED
    BY <1>3, <2>1 DEF OnceInv, UpdatesOnce
<1>4. ASSUME NEW t \in Calls, NEW o \in Value, pc[t] = "commit", effect[t] = Pending,
             Put(t), Record(t, o, new[t])
      PROVE  OnceInv'
  <2> DEFINE e == [call |-> t, old |-> o, new |-> new[t], under |-> under[t]]
  <2>1. /\ e \in LogEntry /\ e.call = t /\ e.old = o /\ e.new = new[t]
        /\ log' = Append(log, e) /\ revision' = revision + 1
        /\ effect' = [effect EXCEPT ![t] = Changed(o, new[t])]
    BY <1>4 DEF Record, Put, LogEntry, TypeOK
  <2> HIDE DEF e
  <2>2. /\ Len(log') = Len(log) + 1 /\ log'[Len(log) + 1] = e
        /\ \A i \in 1..Len(log) : log'[i] = log[i]
    BY <1>0, <2>1, AppendAt
  <2>3. \A i \in 1..Len(log') : i \in 1..Len(log) \/ i = Len(log) + 1
    BY <1>0, <2>2
  <2>4. \A i \in 1..Len(log) : log'[i].call # t /\ effect'[log'[i].call] = effect[log[i].call]
    BY <1>0, <1>1, <1>4, <2>1, <2>2
  <2>5. log'[Len(log) + 1].call = t /\ effect'[t] = Changed(o, new[t])
    BY <1>0, <2>1, <2>2
  <2>6. \A i, j \in 1..Len(log') : log'[i].call = log'[j].call => i = j
    BY <2>2, <2>3, <2>4, <2>5 DEF OnceInv, UpdatesOnce
  <2>7. \A i \in 1..Len(log') : effect'[log'[i].call] = Changed(log'[i].old, log'[i].new)
    BY <2>1, <2>2, <2>3, <2>4, <2>5 DEF OnceInv, UpdatesOnce
  <2>8. revision' = Len(log')
    BY <2>1, <2>2 DEF OnceInv
  <2>9. QED
    BY <2>6, <2>7, <2>8 DEF OnceInv, UpdatesOnce, Changed
<1>5. QED
  BY <1>2, <1>3, <1>4, StepChanges

\* A swap! that starts again finds a change that is not its own.
LEMMA RetryFacts ==
    ASSUME TypeOK, ChainInv, CallInv, OnceInv, [Next]_vars,
           NEW t \in Calls, pc[t] = "commit", pc'[t] = "read"
    PROVE  \E i \in (rev[t] + 1)..Len(log) : log[i].call # t
<1> USE DEF At, Goto
<1>1. SwapCommit(t) /\ revision # rev[t]
  <2>1. pc \in [Calls -> Locations]
    BY DEF TypeOK
  <2>2. ASSUME NEW u \in Calls, Begin(u) \/ Step(u) PROVE u = t
    <3>1. u # t => pc'[t] = pc[t]
      BY <2>1, <2>2 DEF Begin, Step, SwapRead, SwapCall, SwapCommit, ResetCommit, CasRead, CasCommit,
         Validate, Snapshot, NotifyDone, NotifyOne, ValidatorTest, ValidatorInstall, AddWatch,
         RemoveWatch, Fail, Put
    <3>2. QED
      BY <3>1
  <2>3. Step(t)
    BY <2>2 DEF Next, vars, Begin
  <2>4. SwapCommit(t)
    BY <2>1, <2>3 DEF Step, SwapRead, SwapCall, ResetCommit, CasRead, CasCommit, Validate, Snapshot,
       NotifyDone, NotifyOne, ValidatorTest, ValidatorInstall, AddWatch, RemoveWatch, Fail, Put
  <2>5. QED
    BY <2>1, <2>4 DEF SwapCommit, Put
<1>2. rev[t] <= revision
  BY <1>1 DEF ChainInv, SwapView, SwapCommit
<1>3. /\ rev[t] \in Nat /\ revision \in Nat /\ revision = Len(log)
  BY DEF TypeOK, OnceInv
<1>4. Len(log) \in (rev[t] + 1)..Len(log) /\ Len(log) \in 1..Len(log)
  BY <1>1, <1>2, <1>3
<1>5. effect[t] = Pending
  BY DEF CallInv, CallView, Undone
<1>6. log[Len(log)].call # t
  BY <1>4, <1>5, ChangedIsNot DEF OnceInv, UpdatesOnce
<1>7. QED
  BY <1>4, <1>6

LEMMA OnceHolds == Spec => [](TypeOK /\ ChainInv /\ CallInv /\ OnceInv)
<1>1. Init => CallInv /\ OnceInv
  <2> SUFFICES ASSUME Init PROVE CallInv /\ OnceInv
    OBVIOUS
  <2>1. CallInv
    BY DEF Init, CallInv, CallView, At, Undone, Pending
  <2>2. Len(log) = 0 /\ revision = 0
    BY DEF Init
  <2>3. QED
    BY <2>1, <2>2 DEF OnceInv, UpdatesOnce
<1>2. QED
  BY <1>1, ChainInit, TypeCorrect, ChainInductive, CallInductive, OnceInductive, PTL DEF Spec

\* No call changes the atom twice, whatever retries and fails.
THEOREM UpdatesOnceCorrect == Spec => []UpdatesOnce
<1>1. OnceInv => UpdatesOnce
  BY DEF OnceInv
<1>2. QED
  BY <1>1, OnceHolds, PTL

\* Each retry of a swap! is paid for by a change another call has made meanwhile: calls
\* may delay each other, never all of them for ever.
THEOREM RetriesArePaidCorrect == Spec => RetriesArePaid
<1>1. TypeOK /\ ChainInv /\ CallInv /\ OnceInv /\ [Next]_vars =>
        [\A t \in Calls : pc[t] = "commit" /\ pc'[t] = "read" =>
           \E i \in (rev[t] + 1)..Len(log) : log[i].call # t]_vars
  BY RetryFacts
<1>2. QED
  BY <1>1, OnceHolds, PTL DEF Spec, RetriesArePaid

-----------------------------------------------------------------------------
\* What the watches have heard of call t so far.  The clause about a call that
\* is notifying is why the property holds when it returns: each steady watch
\* has been told or is still to be told.
Hear(heard) == \A w \in watches : Steady(w) => w \in heard

HearView(t) ==
    /\ told[t] # {} => effect[t].kind = "changed"
    /\ pc[t] \in Undone \cup {"snapshot"} => told[t] = {}
    /\ pc[t] \in {"snapshot", "notify"} => effect[t].kind = "changed"
    /\ pc[t] = "notify" => /\ Hear(told[t] \cup toNotify[t])
                           /\ told[t] \cap Faulty = {}
    /\ (pc[t] = "returned" /\ effect[t].kind = "changed") =>
           /\ Hear(told[t])
           /\ told[t] \cap Faulty = {}
    /\ (pc[t] = "raised" /\ effect[t].kind = "changed") =>
           told[t] \cap Faulty # {}

HearInv == \A t \in Calls : HearView(t)

\* A step that makes no watch steady, and adds none that is, matters to the
\* call that takes it and to no other.
LEMMA OthersHear ==
    ASSUME HearInv, NEW t \in Calls,
           \A w \in watches' : Steady(w)' => w \in watches /\ Steady(w),
           \A u \in Calls \ {t} : /\ pc'[u] = pc[u] /\ effect'[u] = effect[u]
                                  /\ told'[u] = told[u] /\ toNotify'[u] = toNotify[u],
           HearView(t)'
    PROVE  HearInv'
<1>1. ASSUME NEW u \in Calls PROVE HearView(u)'
  <2>1. CASE u = t
    BY <2>1
  <2>2. CASE u # t
    <3>1. /\ pc'[u] = pc[u] /\ effect'[u] = effect[u]
          /\ told'[u] = told[u] /\ toNotify'[u] = toNotify[u]
      BY <2>2
    <3>2. HearView(u)
      BY DEF HearInv
    <3>3. /\ Hear(told[u]) => Hear(told[u])'
          /\ Hear(told[u] \cup toNotify[u]) => Hear(told[u] \cup toNotify[u])'
      BY <3>1 DEF Hear
    <3>4. QED
      BY <3>1, <3>2, <3>3 DEF HearView
  <2>3. QED
    BY <2>1, <2>2
<1>2. QED
  BY <1>1 DEF HearInv

\* Steady watches stay what they are when no call starts and none comes or goes.
LEMMA SameWatches ==
    ASSUME UNCHANGED <<watches, op>>
    PROVE  \A w \in watches' : Steady(w)' => w \in watches /\ Steady(w)
  BY DEF Steady

\* A step on the way to the change.
LEMMA EarlyHear ==
    ASSUME TypeOK, HearInv, NEW t \in Calls, pc[t] \in Undone,
           NEW l \in Undone, pc' = [pc EXCEPT ![t] = l],
           UNCHANGED <<effect, told, toNotify>>,
           \A w \in watches' : Steady(w)' => w \in watches /\ Steady(w)
    PROVE  HearInv'
<1>1. told[t] = {} /\ pc'[t] = l
  BY DEF HearInv, HearView, TypeOK
<1>2. HearView(t)'
  BY <1>1 DEF HearView, Undone
<1>3. QED
  BY <1>2, OthersHear DEF TypeOK

\* A call that ends and has changed nothing tells nobody.
LEMMA RefuseHear ==
    ASSUME TypeOK, CallInv, HearInv, NEW t \in Calls, pc[t] \in Undone,
           NEW l \in {"returned", "raised"}, pc' = [pc EXCEPT ![t] = l],
           effect' = [effect EXCEPT ![t] = Refused],
           UNCHANGED <<told, toNotify>>,
           \A w \in watches' : Steady(w)' => w \in watches /\ Steady(w)
    PROVE  HearInv'
<1>1. told[t] = {} /\ pc'[t] = l /\ effect'[t].kind = "refused"
  BY DEF HearInv, HearView, TypeOK, CallInv, Refused
<1>2. HearView(t)'
  BY <1>1 DEF HearView, Undone
<1>3. QED
  BY <1>2, OthersHear DEF TypeOK, CallInv

LEMMA FailHear ==
    ASSUME TypeOK, CallInv, HearInv, NEW t \in Calls, pc[t] \in Undone,
           NEW l \in {"returned", "raised"}, Fail(t, l)
    PROVE  HearInv'
  BY RefuseHear, SameWatches DEF Fail, Goto, side

\* The change itself, before any watch is told.
LEMMA PutHear ==
    ASSUME TypeOK, CallInv, HearInv, NEW t \in Calls, pc[t] = "commit",
           NEW o \in Value, Put(t), Record(t, o, new[t])
    PROVE  HearInv'
<1>1. told[t] = {}
  BY DEF HearInv, HearView, Undone
<1>2. /\ pc' = [pc EXCEPT ![t] = "snapshot"] /\ UNCHANGED <<watches, op, told, toNotify>>
      /\ effect' = [effect EXCEPT ![t] = Changed(o, new[t])]
  BY DEF Put, Goto, Record, side
<1>3. pc'[t] = "snapshot" /\ effect'[t].kind = "changed" /\ told'[t] = {}
  BY <1>1, <1>2 DEF TypeOK, CallInv, Changed
<1>4. HearView(t)'
  BY <1>3 DEF HearView, Undone
<1>5. QED
  BY <1>2, <1>4, OthersHear, SameWatches DEF TypeOK, CallInv

LEMMA HearInductive == TypeOK /\ CallInv /\ HearInv /\ [Next]_vars => HearInv'
<1> SUFFICES ASSUME TypeOK, CallInv, HearInv, [Next]_vars PROVE HearInv'
  OBVIOUS
<1> USE DEF Goto, atom, side, locals
<1>1. ASSUME NEW t \in Calls, Begin(t) PROVE HearInv'
  <2>1. PICK o \in Menu :
          /\ op' = [op EXCEPT ![t] = o]
          /\ IF o.kind = "reset"
             THEN Goto(t, "validate") /\ new' = [new EXCEPT ![t] = o.new]
             ELSE Goto(t, "read") /\ UNCHANGED new
    BY <1>1 DEF Begin
  <2>2. op[t] = NoOp
    BY <1>1 DEF CallInv, CallView, Begin
  <2>3. \A u \in Calls : op'[u] = op[u] \/ op[u] = NoOp
    BY <2>1, <2>2 DEF TypeOK
  <2>4. \A w \in watches' : Steady(w)' => w \in watches /\ Steady(w)
    BY <1>1, <2>3 DEF Begin, Steady
  <2>5. PICK l \in {"validate", "read"} : pc' = [pc EXCEPT ![t] = l]
    BY <2>1
  <2>6. pc[t] \in Undone /\ l \in Undone /\ UNCHANGED <<effect, told, toNotify>>
    BY <1>1 DEF Begin, Undone
  <2>7. QED
    BY <2>4, <2>5, <2>6, EarlyHear
<1>2. ASSUME NEW t \in Calls, NEW l \in {"read", "call", "validate", "commit", "install"},
             pc[t] \in {"read", "call", "validate", "commit"}, Goto(t, l),
             UNCHANGED <<effect, told, toNotify, watches, op>>
      PROVE  HearInv'
  BY <1>2, EarlyHear, SameWatches DEF Undone
<1>3. ASSUME NEW t \in Calls, NEW l \in {"returned", "raised"},
             pc[t] \in {"read", "call", "validate", "commit"}, Fail(t, l)
      PROVE  HearInv'
  BY <1>3, FailHear DEF Undone
<1>4. ASSUME NEW t \in Calls, SwapRead(t) PROVE HearInv'
  BY <1>2, <1>4 DEF SwapRead, At
<1>5. ASSUME NEW t \in Calls, SwapCall(t) PROVE HearInv'
  <2>1. CASE op[t].fn[old[t]] = Raises
    BY <1>3, <1>5, <2>1 DEF SwapCall, At
  <2>2. CASE op[t].fn[old[t]] # Raises
    BY <1>2, <1>5, <2>2 DEF SwapCall, At
  <2>3. QED
    BY <2>1, <2>2
<1>6. ASSUME NEW t \in Calls, SwapCommit(t) PROVE HearInv'
  <2>1. CASE revision = rev[t]
    BY <1>6, <2>1, PutHear DEF SwapCommit, At, TypeOK
  <2>2. CASE revision # rev[t]
    BY <1>2, <1>6, <2>2 DEF SwapCommit, At
  <2>3. QED
    BY <2>1, <2>2
<1>7. ASSUME NEW t \in Calls, ResetCommit(t) PROVE HearInv'
  BY <1>7, PutHear DEF ResetCommit, At, TypeOK
<1>8. ASSUME NEW t \in Calls, CasRead(t) PROVE HearInv'
  <2>1. CASE value # op[t].expect
    BY <1>3, <1>8, <2>1 DEF CasRead, At
  <2>2. CASE value = op[t].expect
    BY <1>2, <1>8, <2>2 DEF CasRead, At
  <2>3. QED
    BY <2>1, <2>2
<1>9. ASSUME NEW t \in Calls, CasCommit(t) PROVE HearInv'
  <2>1. CASE value = op[t].expect
    BY <1>9, <2>1, PutHear DEF CasCommit, At, TypeOK
  <2>2. CASE value # op[t].expect
    BY <1>3, <1>9, <2>2 DEF CasCommit, At
  <2>3. QED
    BY <2>1, <2>2
<1>10. ASSUME NEW t \in Calls, Validate(t) PROVE HearInv'
  <2>1. CASE new[t] \notin accepted
    BY <1>3, <1>10, <2>1 DEF Validate, At
  <2>2. CASE new[t] \in accepted
    BY <1>2, <1>10, <2>2 DEF Validate, At
  <2>3. QED
    BY <2>1, <2>2
<1>11. ASSUME NEW t \in Calls, Snapshot(t) PROVE HearInv'
  <2>1. told[t] = {} /\ effect[t].kind = "changed"
    BY <1>11 DEF HearInv, HearView, Snapshot
  <2>2. pc'[t] = "notify" /\ toNotify'[t] = watches /\ told'[t] = {}
    BY <1>11, <2>1 DEF Snapshot, TypeOK
  <2>3. Hear(told[t] \cup toNotify[t])'
    BY <1>11, <2>2 DEF Snapshot, Hear
  <2>4. HearView(t)'
    BY <1>11, <2>1, <2>2, <2>3 DEF Snapshot, HearView, Undone
  <2>5. QED
    BY <1>11, <2>4, OthersHear, SameWatches DEF Snapshot, TypeOK
<1>12. ASSUME NEW t \in Calls, NotifyDone(t) PROVE HearInv'
  <2>1. /\ Hear(told[t] \cup toNotify[t]) /\ told[t] \cap Faulty = {}
        /\ toNotify[t] = {} /\ effect[t].kind = "changed"
    BY <1>12 DEF HearInv, HearView, NotifyDone
  <2>2. pc'[t] = "returned" /\ UNCHANGED <<effect, told, toNotify, watches, op>>
    BY <1>12 DEF NotifyDone, TypeOK
  <2>3. Hear(told[t])'
    BY <2>1, <2>2, SameWatches DEF Hear
  <2>4. HearView(t)'
    BY <2>1, <2>2, <2>3 DEF HearView, Undone
  <2>5. QED
    BY <1>12, <2>2, <2>4, OthersHear, SameWatches DEF NotifyDone, TypeOK
<1>13. ASSUME NEW t \in Calls, NEW w \in Watch, NotifyOne(t, w) PROVE HearInv'
  <2>1. /\ Hear(told[t] \cup toNotify[t]) /\ told[t] \cap Faulty = {}
        /\ effect[t].kind = "changed" /\ w \in toNotify[t]
    BY <1>13 DEF HearInv, HearView, NotifyOne
  <2>2. /\ pc'[t] = IF w \in Faulty THEN "raised" ELSE "notify"
        /\ told'[t] = told[t] \cup {w} /\ toNotify'[t] = toNotify[t] \ {w}
        /\ UNCHANGED <<effect, watches, op>>
    BY <1>13 DEF NotifyOne, TypeOK
  <2>3. Hear(told[t] \cup toNotify[t])'
    BY <2>1, <2>2, SameWatches DEF Hear
  <2>4. w \notin Faulty => told'[t] \cap Faulty = {}
    BY <2>1, <2>2
  <2>5. w \in Faulty => told'[t] \cap Faulty # {}
    BY <2>2
  <2>6. HearView(t)'
    BY <2>1, <2>2, <2>3, <2>4, <2>5 DEF HearView, Undone
  <2>7. QED
    BY <1>13, <2>2, <2>6, OthersHear, SameWatches DEF NotifyOne, TypeOK
<1>14. ASSUME NEW t \in Calls, ValidatorTest(t) PROVE HearInv'
  <2>1. CASE value \notin op[t].accepts
    BY <1>3, <1>14, <2>1 DEF ValidatorTest, At
  <2>2. CASE value \in op[t].accepts
    BY <1>2, <1>14, <2>2 DEF ValidatorTest, At
  <2>3. QED
    BY <2>1, <2>2
<1>15. ASSUME NEW t \in Calls, ValidatorInstall(t) PROVE HearInv'
  BY <1>15, RefuseHear, SameWatches DEF ValidatorInstall, At, Undone
<1>16. ASSUME NEW t \in Calls, AddWatch(t) \/ RemoveWatch(t) PROVE HearInv'
  <2>1. /\ pc[t] = "read" /\ op' = op
        /\ op[t].kind \in {"add", "remove"}
        /\ \A w \in watches' : w \in watches \/ w = op[t].watch
    BY <1>16 DEF AddWatch, RemoveWatch, At
  <2>2. op[t] # NoOp
    BY <2>1 DEF CallInv, CallView
  <2>3. ~Steady(op[t].watch)
    BY <2>1, <2>2 DEF Steady
  <2>4. \A w : Steady(w)' => Steady(w)
    BY <2>1 DEF Steady
  <2>5. \A w \in watches' : Steady(w)' => w \in watches /\ Steady(w)
    BY <2>1, <2>3, <2>4
  <2>6. QED
    BY <1>16, <2>5, RefuseHear DEF AddWatch, RemoveWatch, At, Undone
<1>17. CASE UNCHANGED vars
  BY <1>17 DEF vars, HearInv, HearView, Hear, Steady
<1>18. QED
  BY <1>1, <1>4, <1>5, <1>6, <1>7, <1>8, <1>9, <1>10, <1>11, <1>12, <1>13,
     <1>14, <1>15, <1>16, <1>17 DEF Next, Step

\* Watches hear of what happened and of nothing else, for any calls, watches
\* and faults: when an update returned, every watch nobody touched had been
\* told of it, whatever was added or removed between the copy of the watches
\* and the calls.
THEOREM WatchesHearUpdatesCorrect == Spec => []WatchesHearUpdates
<1>1. Init => CallInv /\ HearInv
  <2> SUFFICES ASSUME Init PROVE CallInv /\ HearInv
    OBVIOUS
  <2>1. \A t \in Calls : CallView(t) /\ HearView(t)
    BY DEF Init, CallView, At, HearView, Undone
  <2>2. Pending \in [kind : {"pending", "refused"}]
    BY DEF Pending
  <2>3. QED
    BY <2>1, <2>2 DEF Init, CallInv, HearInv
<1>2. HearInv => WatchesHearUpdates
  BY DEF HearInv, HearView, Hear, WatchesHearUpdates
<1>3. QED
  BY <1>1, <1>2, TypeCorrect, CallInductive, HearInductive, PTL DEF Spec
=============================================================================
