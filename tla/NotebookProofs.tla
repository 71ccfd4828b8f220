--------------------------- MODULE NotebookProofs ---------------------------
(***************************************************************************)
(* Theorems about the notebook server and their proofs.  Notebook: for     *)
(* every number of requests, seconds, crashes and faults, what was saved   *)
(* last is kept, but for the ways to spoil it that the model names.        *)
(* NotebookCells and NotebookDeps: for every number of cells, names and    *)
(* dependencies, ids stay unique, edits are local, cycles are found when   *)
(* there are any, and the cells downstream of a name are.                  *)
(***************************************************************************)
EXTENDS Notebook, NotebookDeps, SequenceTheorems, FiniteSetTheorems, TLAPS

-----------------------------------------------------------------------------
\* Memory, file and snapshots (Notebook).
-----------------------------------------------------------------------------
\* The parts of the inductive invariant.

Locked == {"receiving", "running", "reading", "naming", "copying", "opening", "writing", "replying"}

Changing(q) == kind[q] \in {"save", "edit", "evaluate"}

\* A handler that changes the notebook holds nbMu from there to its end, a restore
\* while it answers.
Holding(q) ==
    \/ Changing(q) /\ pc[q] \in Locked
    \/ kind[q] = "restore" /\ pc[q] = "replying"

Reading(q) == kind[q] = "read" /\ pc[q] = "replying"

\* Where the handlers of each kind pass.
Along(q) ==
    /\ kind[q] = "none" <=> pc[q] = "idle"
    /\ kind[q] = "read" => pc[q] \in {"locking", "replying", "done"}
    /\ kind[q] = "restore" => pc[q] \in {"opening", "writing", "loading", "replying", "done"}
    /\ kind[q] = "evaluate" => pc[q] # "loading"
    /\ kind[q] = "save" => pc[q] \notin {"receiving", "running", "loading"}
    /\ kind[q] = "edit" => pc[q] \notin {"running", "loading"}

LocksHeld ==
    /\ \A q \in Requests : Along(q) /\ (nbMu = q <=> Holding(q)) /\ (q \in readers <=> Reading(q))
    /\ nbMu # Nobody => readers = {}

\* Without drift, what a restore has yet to load is in the file, and what is in
\* memory too, unless somebody is about to write the file or has just changed
\* the memory.
Agree ==
    (\A q \in Requests : pc[q] # "writing") /\ ~drift =>
      /\ \A r \in Requests : pc[r] = "loading" => file = body[r]
      /\ ((\A r \in Requests : pc[r] # "loading")
          /\ (nbMu = Nobody \/ pc[nbMu] \in {"receiving", "running", "replying"})) => nb = file

\* What the holder of nbMu read is safe: in the file until it starts the
\* snapshot, in the snapshot once it is copied.
Copied ==
    \A q \in Requests : kind[q] # "restore" =>
      /\ pc[q] \in {"naming", "copying"} /\ old \in Content /\ ~spoiled => file \in Content
      /\ pc[q] = "copying" => snaps[stamp] = Empty
      /\ pc[q] \in {"opening", "writing"} /\ old \in Content => snaps[stamp] = old

\* A whole file is what was saved last; while it is not whole, a snapshot has it.
Kept ==
    /\ file \in Content => saved = file
    /\ file \notin Content /\ saved # Empty /\ ~spoiled =>
         \E s \in 0..Seconds : snaps[s] = saved

IInv == TypeOK /\ LocksHeld /\ Agree /\ Copied /\ Kept

-----------------------------------------------------------------------------
LEMMA ContentFacts ==
    /\ {} \in Content /\ {Existing} \in Content
    /\ \A n \in Content, q \in Requests : n \cup {q} \in Content
    /\ Absent \notin Content /\ Empty \notin Content /\ Torn \notin Content
  BY NotebookAssumption DEF Content

LEMMA InitInductive == Init => IInv
<1> SUFFICES ASSUME Init PROVE IInv
  OBVIOUS
<1> USE ContentFacts, NotebookAssumption
<1>1. TypeOK
  <2>1. file \in Content \cup {Empty, Torn} /\ saved \in Content \cup {Empty} /\ nb \in Content
    BY DEF Init, Loaded, Decodable
  <2>2. stamp \in 0..Seconds /\ now \in 0..Seconds /\ crashes \in 0..Crashes /\ faults \in 0..Faults
    BY DEF Init
  <2>3. spoiled \in BOOLEAN /\ drift \in BOOLEAN
    BY DEF Init
  <2>4. QED
    BY <2>1, <2>2, <2>3 DEF Init, TypeOK
<1>2. LocksHeld
  BY DEF Init, LocksHeld, Along, Holding, Reading, Changing
<1>3. Agree
  BY DEF Init, Agree, Loaded, Decodable
<1>4. Copied
  BY DEF Init, Copied
<1>5. Kept
  BY DEF Init, Kept, Decodable
<1>6. QED
  BY <1>1, <1>2, <1>3, <1>4, <1>5 DEF IInv

-----------------------------------------------------------------------------
\* Requests that arrive.
LEMMA BeginInductive ==
    ASSUME IInv, NEW q \in Requests, Begin(q)
    PROVE  IInv'
<1> USE ContentFacts, NotebookAssumption
<1>0. TypeOK /\ LocksHeld /\ Agree /\ Copied /\ Kept
  BY DEF IInv
<1>1. /\ pc[q] = "idle"
      /\ \E k \in Kinds, l \in {"locking", "opening", "done"} :
           /\ kind' = [kind EXCEPT ![q] = k] /\ pc' = [pc EXCEPT ![q] = l]
           /\ l = "opening" => k = "restore"
           /\ l = "locking" => k # "restore"
           /\ l = "done" => k # "read"
      /\ body' \in [Requests -> Content]
      /\ \A r \in Requests : r # q => body'[r] = body[r]
      /\ evalMu' \in Requests \cup {Nobody}
      /\ UNCHANGED <<nb, nbMu, readers, old, stamp, disk, history, bounds>>
  <2> USE <1>0 DEF Arrive, Goto, TypeOK, Kinds
  <2>1. CASE BeginRead(q)
    BY <2>1 DEF BeginRead
  <2>2. CASE BeginSave(q)
    BY <2>2 DEF BeginSave
  <2>3. CASE BeginEdit(q)
    BY <2>3 DEF BeginEdit
  <2>4. CASE BeginEvaluate(q)
    BY <2>4 DEF BeginEvaluate
  <2>5. CASE Conflict(q)
    BY <2>5 DEF Conflict
  <2>6. CASE \E s \in 0..Seconds : BeginRestore(q, s)
    BY <2>6 DEF BeginRestore, Decodable
  <2>7. QED
    BY <2>1, <2>2, <2>3, <2>4, <2>5, <2>6 DEF Begin
<1>2. PICK k \in Kinds, l \in {"locking", "opening", "done"} :
        /\ kind' = [kind EXCEPT ![q] = k] /\ pc' = [pc EXCEPT ![q] = l]
        /\ l = "opening" => k = "restore"
        /\ l = "locking" => k # "restore"
        /\ l = "done" => k # "read"
  BY <1>1
<1> USE DEF disk, history, bounds
<1>3. TypeOK'
  <2>1. pc' \in [Requests -> {"idle", "locking", "receiving", "running", "reading", "naming",
                             "copying", "opening", "writing", "loading", "replying", "done"}]
    BY <1>0, <1>2 DEF TypeOK
  <2>2. kind' \in [Requests -> Kinds \cup {"none"}]
    BY <1>0, <1>2 DEF TypeOK
  <2>3. QED
    BY <1>0, <1>1, <2>1, <2>2 DEF TypeOK
<1>4. nbMu # q /\ q \notin readers
  BY <1>0, <1>1 DEF LocksHeld, TypeOK, Holding, Reading, Locked
<1>5. LocksHeld'
  <2>1. /\ pc'[q] = l /\ kind'[q] = k
        /\ \A r \in Requests : r # q => pc'[r] = pc[r] /\ kind'[r] = kind[r]
    BY <1>0, <1>2 DEF TypeOK
  <2>2. Along(q)' /\ ~Holding(q)' /\ ~Reading(q)'
    BY <1>2, <2>1 DEF Along, Holding, Reading, Changing, Locked, Kinds
  <2>3. \A r \in Requests : r # q => /\ Along(r) => Along(r)'
                                     /\ Holding(r)' <=> Holding(r)
                                     /\ Reading(r)' <=> Reading(r)
    BY <2>1 DEF Along, Holding, Reading, Changing
  <2>4. QED
    BY <1>0, <1>1, <1>4, <2>2, <2>3 DEF LocksHeld
<1>6. Agree'
  BY <1>0, <1>1, <1>2, <1>4 DEF Agree, TypeOK
<1>7. Copied'
  BY <1>0, <1>1, <1>2 DEF Copied, TypeOK
<1>8. Kept'
  BY <1>0, <1>1 DEF Kept
<1>9. QED
  BY <1>3, <1>5, <1>6, <1>7, <1>8 DEF IInv

-----------------------------------------------------------------------------
\* A request that goes on, and takes or gives back no more than its own lock, keeps
\* the locks with their holders.
LEMMA LocksMove ==
    ASSUME TypeOK, LocksHeld, NEW q \in Requests, NEW l,
           kind' = kind, pc' = [pc EXCEPT ![q] = l],
           Along(q)', nbMu' = q <=> Holding(q)', q \in readers' <=> Reading(q)',
           \A r \in Requests : r # q => /\ nbMu' = r <=> nbMu = r
                                        /\ r \in readers' <=> r \in readers,
           nbMu' # Nobody => readers' = {}
    PROVE  LocksHeld'
<1>1. \A r \in Requests : r # q => pc'[r] = pc[r]
  BY DEF TypeOK
<1>2. \A r \in Requests : r # q => /\ Along(r) => Along(r)'
                                   /\ Holding(r)' <=> Holding(r)
                                   /\ Reading(r)' <=> Reading(r)
  BY <1>1 DEF Along, Holding, Reading, Changing
<1>3. QED
  BY <1>2 DEF LocksHeld

\* So it is with a step between two places where nbMu is held, ...
LEMMA LocksStay ==
    ASSUME TypeOK, LocksHeld, NEW q \in Requests, NEW l, kind' = kind,
           pc' = [pc EXCEPT ![q] = l], UNCHANGED <<nbMu, readers>>, Along(q)',
           Holding(q)' <=> Holding(q), Reading(q)' <=> Reading(q)
    PROVE  LocksHeld'
<1>1. nbMu' = q <=> Holding(q)'
  BY DEF LocksHeld
<1>2. q \in readers' <=> Reading(q)'
  BY DEF LocksHeld
<1>3. nbMu' # Nobody => readers' = {}
  BY DEF LocksHeld
<1>4. QED
  BY <1>1, <1>2, <1>3, LocksMove

\* ... and with one that ends a request.
LEMMA LocksEnd ==
    ASSUME TypeOK, LocksHeld, NEW q \in Requests, kind' = kind, pc[q] # "idle",
           pc' = [pc EXCEPT ![q] = "done"], Unlock(q)
    PROVE  LocksHeld'
<1>1. pc'[q] = "done" /\ kind'[q] # "none"
  BY DEF TypeOK, LocksHeld, Along
<1>2. Along(q)' /\ ~Holding(q)' /\ ~Reading(q)'
  BY <1>1 DEF Along, Holding, Reading, Locked
<1>3. nbMu' # q /\ q \notin readers'
  BY NotebookAssumption DEF Unlock
<1>4. \A r \in Requests : r # q => /\ nbMu' = r <=> nbMu = r
                                   /\ r \in readers' <=> r \in readers
  BY NotebookAssumption DEF Unlock
<1>5. nbMu' # Nobody => readers' = {}
  BY DEF Unlock, LocksHeld
<1>6. QED
  BY <1>2, <1>3, <1>4, <1>5, LocksMove

-----------------------------------------------------------------------------
\* Steps that leave the disk alone.
LEMMA MemoryInductive ==
    ASSUME IInv, NEW q \in Requests,
           Enter(q) \/ EnterRead(q) \/ Receive(q) \/ Reject(q) \/ Ran(q) \/ Dropped(q)
             \/ LoadRestored(q) \/ Reply(q)
    PROVE  IInv'
<1> USE ContentFacts, NotebookAssumption DEF Goto
<1>0. TypeOK /\ LocksHeld /\ Agree /\ Copied /\ Kept
  BY DEF IInv
<1>d. UNCHANGED <<kind, body, old, stamp, disk, saved, spoiled, bounds>>
  BY DEF Enter, EnterRead, Receive, Reject, Ran, Dropped, LoadRestored, Reply, history
<1>1. CASE Enter(q)
  <2> USE <1>0, <1>1, <1>d DEF Enter, disk, history, bounds
  <2>0. nbMu = Nobody /\ nbMu' = q /\ readers = {} /\ readers' = {}
    BY DEF TypeOK
  <2>1. TypeOK'
    BY DEF TypeOK, Unlock
  <2>2. LocksHeld'
    <3>1. pc'[q] \in {"reading", "receiving"} /\ kind' = kind
      BY DEF TypeOK
    <3>2. Along(q)' /\ (Holding(q)' <=> nbMu' = q) /\ (Reading(q)' <=> q \in readers')
      BY <2>0, <3>1 DEF LocksHeld, Along, Holding, Reading, Changing, Locked, TypeOK, Kinds
    <3>3. \A r \in Requests : r # q => (nbMu' = r <=> nbMu = r) /\ (r \in readers' <=> r \in readers)
      BY <2>0
    <3>4. nbMu' # Nobody => readers' = {}
      BY <2>0 DEF LocksHeld
    <3>5. QED
      BY <3>2, <3>3, <3>4, LocksMove
  <2>3. Agree'
    BY <2>0 DEF Agree, TypeOK
  <2>4. Copied' /\ Kept'
    BY DEF Copied, Kept, TypeOK
  <2>5. QED
    BY <2>1, <2>2, <2>3, <2>4 DEF IInv
<1>2. CASE EnterRead(q)
  <2> USE <1>0, <1>2, <1>d DEF EnterRead, disk, history, bounds
  <2>0. nbMu = Nobody /\ nbMu' = Nobody /\ readers' = readers \cup {q}
    BY DEF TypeOK
  <2>1. TypeOK'
    BY DEF TypeOK, Unlock
  <2>2. LocksHeld'
    <3>1. pc'[q] \in {"replying"} /\ kind' = kind
      BY DEF TypeOK
    <3>2. Along(q)' /\ (Holding(q)' <=> nbMu' = q) /\ (Reading(q)' <=> q \in readers')
      BY <2>0, <3>1 DEF LocksHeld, Along, Holding, Reading, Changing, Locked, TypeOK, Kinds
    <3>3. \A r \in Requests : r # q => (nbMu' = r <=> nbMu = r) /\ (r \in readers' <=> r \in readers)
      BY <2>0
    <3>4. nbMu' # Nobody => readers' = {}
      BY <2>0 DEF LocksHeld
    <3>5. QED
      BY <3>2, <3>3, <3>4, LocksMove
  <2>3. Agree'
    BY <2>0 DEF Agree, TypeOK
  <2>4. Copied' /\ Kept'
    BY DEF Copied, Kept, TypeOK
  <2>5. QED
    BY <2>1, <2>2, <2>3, <2>4 DEF IInv
<1>3. CASE Receive(q)
  <2> USE <1>0, <1>3, <1>d DEF Receive, disk, history, bounds
  <2>0. nbMu = q /\ nbMu' = q
    BY DEF LocksHeld, Along, Holding, Changing, Locked, Unlock, TypeOK, Kinds
  <2>1. TypeOK'
    BY DEF TypeOK, Unlock
  <2>2. LocksHeld'
    <3>1. pc'[q] \in {"running", "reading"} /\ kind' = kind
      BY DEF TypeOK
    <3>2. Along(q)' /\ (Holding(q)' <=> Holding(q)) /\ (Reading(q)' <=> Reading(q))
      BY <3>1 DEF LocksHeld, Along, Holding, Reading, Changing, Locked, TypeOK, Kinds
    <3>3. QED
      BY <3>2, LocksStay
  <2>3. Agree'
    BY <2>0 DEF Agree, TypeOK
  <2>4. Copied' /\ Kept'
    BY DEF Copied, Kept, TypeOK
  <2>5. QED
    BY <2>1, <2>2, <2>3, <2>4 DEF IInv
<1>4. CASE Reject(q)
  <2> USE <1>0, <1>4, <1>d DEF Reject, disk, history, bounds
  <2>0. nbMu = q /\ nbMu' = Nobody
    BY DEF LocksHeld, Along, Holding, Changing, Locked, Unlock, TypeOK, Kinds
  <2>1. TypeOK'
    BY DEF TypeOK, Unlock
  <2>2. LocksHeld'
    BY LocksEnd
  <2>3. Agree'
    BY <2>0 DEF Agree, TypeOK
  <2>4. Copied' /\ Kept'
    BY DEF Copied, Kept, TypeOK
  <2>5. QED
    BY <2>1, <2>2, <2>3, <2>4 DEF IInv
<1>5. CASE Ran(q)
  <2> USE <1>0, <1>5, <1>d DEF Ran, disk, history, bounds
  <2>0. nbMu = q /\ nbMu' = q
    BY DEF LocksHeld, Along, Holding, Changing, Locked, Unlock, TypeOK, Kinds
  <2>1. TypeOK'
    BY DEF TypeOK, Unlock
  <2>2. LocksHeld'
    <3>1. pc'[q] \in {"reading"} /\ kind' = kind
      BY DEF TypeOK
    <3>2. Along(q)' /\ (Holding(q)' <=> Holding(q)) /\ (Reading(q)' <=> Reading(q))
      BY <3>1 DEF LocksHeld, Along, Holding, Reading, Changing, Locked, TypeOK, Kinds
    <3>3. QED
      BY <3>2, LocksStay
  <2>3. Agree'
    BY <2>0 DEF Agree, TypeOK
  <2>4. Copied' /\ Kept'
    BY DEF Copied, Kept, TypeOK
  <2>5. QED
    BY <2>1, <2>2, <2>3, <2>4 DEF IInv
<1>6. CASE Dropped(q)
  <2> USE <1>0, <1>6, <1>d DEF Dropped, disk, history, bounds
  <2>0. nbMu = q /\ nbMu' = Nobody
    BY DEF LocksHeld, Along, Holding, Changing, Locked, Unlock, TypeOK, Kinds
  <2>1. TypeOK'
    BY DEF TypeOK, Unlock
  <2>2. LocksHeld'
    BY LocksEnd
  <2>3. Agree'
    BY <2>0 DEF Agree, TypeOK
  <2>4. Copied' /\ Kept'
    BY DEF Copied, Kept, TypeOK
  <2>5. QED
    BY <2>1, <2>2, <2>3, <2>4 DEF IInv
<1>7. CASE LoadRestored(q)
  <2> USE <1>0, <1>7, <1>d DEF LoadRestored, disk, history, bounds
  <2>0. nbMu = Nobody /\ nbMu' = q /\ readers = {} /\ readers' = {}
    BY DEF TypeOK
  <2>1. TypeOK'
    BY DEF TypeOK, Unlock
  <2>2. LocksHeld'
    <3>1. pc'[q] \in {"replying"} /\ kind' = kind
      BY DEF TypeOK
    <3>2. Along(q)' /\ (Holding(q)' <=> nbMu' = q) /\ (Reading(q)' <=> q \in readers')
      BY <2>0, <3>1 DEF LocksHeld, Along, Holding, Reading, Changing, Locked, TypeOK, Kinds
    <3>3. \A r \in Requests : r # q => (nbMu' = r <=> nbMu = r) /\ (r \in readers' <=> r \in readers)
      BY <2>0
    <3>4. nbMu' # Nobody => readers' = {}
      BY <2>0 DEF LocksHeld
    <3>5. QED
      BY <3>2, <3>3, <3>4, LocksMove
  <2>3. Agree'
    BY <2>0 DEF Agree, TypeOK
  <2>4. Copied' /\ Kept'
    BY DEF Copied, Kept, TypeOK
  <2>5. QED
    BY <2>1, <2>2, <2>3, <2>4 DEF IInv
<1>8. CASE Reply(q)
  <2> USE <1>0, <1>8, <1>d DEF Reply, disk, history, bounds
  <2>0. nbMu' = Nobody /\ (nbMu = q \/ nbMu = Nobody)
    BY DEF LocksHeld, Along, Holding, Reading, Changing, Locked, Unlock, TypeOK, Kinds
  <2>1. TypeOK'
    BY DEF TypeOK, Unlock
  <2>2. LocksHeld'
    BY LocksEnd
  <2>3. Agree'
    BY <2>0 DEF Agree, TypeOK
  <2>4. Copied' /\ Kept'
    BY DEF Copied, Kept, TypeOK
  <2>5. QED
    BY <2>1, <2>2, <2>3, <2>4 DEF IInv
<1>9. QED
  BY <1>1, <1>2, <1>3, <1>4, <1>5, <1>6, <1>7, <1>8

-----------------------------------------------------------------------------
\* Steps of writeSnapshot: only the holder of nbMu makes them.
LEMMA SnapshotInductive ==
    ASSUME IInv, NEW q \in Requests,
           ReadOld(q) \/ ReadFails(q) \/ OpenSnapshot(q) \/ CopyOld(q) \/ SnapshotFails(q)
    PROVE  IInv'
<1> USE ContentFacts, NotebookAssumption DEF Saving, Continue, Goto
<1>0. TypeOK /\ LocksHeld /\ Agree /\ Copied /\ Kept
  BY DEF IInv
<1>d. /\ pc[q] \in {"reading", "naming", "copying"}
      /\ UNCHANGED <<nb, kind, body, file, saved, now, crashes>>
  BY DEF ReadOld, ReadFails, OpenSnapshot, CopyOld, SnapshotFails, Failed, disk, history, memory
<1>h. /\ nbMu = q /\ kind[q] # "restore" /\ Changing(q) /\ readers = {}
      /\ \A r \in Requests : r # q /\ kind[r] # "restore" => pc[r] \notin Locked \ {"replying"}
  BY <1>0, <1>d DEF LocksHeld, Along, Holding, Changing, Locked, TypeOK, Kinds
<1>s. stamp \in 0..Seconds /\ now \in 0..Seconds
  BY <1>0 DEF TypeOK
<1>1. CASE ReadOld(q)
  <2> USE <1>0, <1>1, <1>d, <1>h DEF ReadOld, disk, history, memory
  <2>1. TypeOK'
    BY DEF TypeOK, bounds
  <2>2. LocksHeld'
    <3>1. pc'[q] \in {"opening", "naming"} /\ kind' = kind
      BY DEF TypeOK
    <3>2. Along(q)' /\ (Holding(q)' <=> Holding(q)) /\ (Reading(q)' <=> Reading(q))
      BY <3>1 DEF LocksHeld, Along, Holding, Reading, Changing, Locked, TypeOK, Kinds
    <3>3. QED
      BY <3>2, LocksStay
  <2>3. Agree'
    BY DEF Agree, TypeOK
  <2>4. Copied'
    BY DEF Copied, TypeOK, Locked
  <2>5. Kept'
    BY DEF Kept
  <2>6. QED
    BY <2>1, <2>2, <2>3, <2>4, <2>5 DEF IInv
<1>5. CASE ReadFails(q)
  <2> USE <1>0, <1>5, <1>d, <1>h DEF ReadFails, disk, history, memory
  <2>1. TypeOK'
    BY DEF TypeOK, bounds
  <2>2. LocksHeld'
    <3>1. pc'[q] \in {"opening"} /\ kind' = kind
      BY DEF TypeOK
    <3>2. Along(q)' /\ (Holding(q)' <=> Holding(q)) /\ (Reading(q)' <=> Reading(q))
      BY <3>1 DEF LocksHeld, Along, Holding, Reading, Changing, Locked, TypeOK, Kinds
    <3>3. QED
      BY <3>2, LocksStay
  <2>3. Agree'
    BY DEF Agree, TypeOK
  <2>4. Copied'
    BY DEF Copied, TypeOK, Locked
  <2>5. Kept'
    BY DEF Kept
  <2>6. QED
    BY <2>1, <2>2, <2>3, <2>4, <2>5 DEF IInv
<1>2. CASE OpenSnapshot(q)
  <2> USE <1>0, <1>2, <1>d, <1>h, <1>s DEF OpenSnapshot, disk, history, memory, Decodable
  <2>1. TypeOK'
    BY DEF TypeOK
  <2>2. LocksHeld'
    <3>1. pc'[q] \in {"copying"} /\ kind' = kind
      BY DEF TypeOK
    <3>2. Along(q)' /\ (Holding(q)' <=> Holding(q)) /\ (Reading(q)' <=> Reading(q))
      BY <3>1 DEF LocksHeld, Along, Holding, Reading, Changing, Locked, TypeOK, Kinds
    <3>3. QED
      BY <3>2, LocksStay
  <2>3. Agree'
    BY DEF Agree, TypeOK
  <2>4. Copied'
    BY DEF Copied, TypeOK, Locked
  <2>5. Kept'
    <3>1. CASE old \in Content
      BY <3>1 DEF Kept, Copied
    <3>2. CASE old \notin Content
      BY <3>2 DEF Kept, TypeOK
    <3>3. QED
      BY <3>1, <3>2
  <2>6. QED
    BY <2>1, <2>2, <2>3, <2>4, <2>5 DEF IInv
<1>3. CASE CopyOld(q)
  <2> USE <1>0, <1>3, <1>d, <1>h, <1>s DEF CopyOld, disk, history, memory
  <2>1. TypeOK'
    BY DEF TypeOK
  <2>2. LocksHeld'
    <3>1. pc'[q] \in {"opening"} /\ kind' = kind
      BY DEF TypeOK
    <3>2. Along(q)' /\ (Holding(q)' <=> Holding(q)) /\ (Reading(q)' <=> Reading(q))
      BY <3>1 DEF LocksHeld, Along, Holding, Reading, Changing, Locked, TypeOK, Kinds
    <3>3. QED
      BY <3>2, LocksStay
  <2>3. Agree'
    BY DEF Agree, TypeOK
  <2>4. Copied'
    BY DEF Copied, TypeOK, Locked
  <2>5. Kept'
    <3>1. snaps[stamp] = Empty
      BY DEF Copied
    <3>2. QED
      BY <3>1 DEF Kept, TypeOK
  <2>6. QED
    BY <2>1, <2>2, <2>3, <2>4, <2>5 DEF IInv
<1>4. CASE SnapshotFails(q)
  <2>0. /\ \/ pc' = [pc EXCEPT ![q] = "replying"] /\ UNCHANGED <<nbMu, readers, evalMu>>
           \/ pc' = [pc EXCEPT ![q] = "done"] /\ Unlock(q)
        /\ faults' \in 0..Faults /\ drift' = TRUE /\ UNCHANGED <<old, stamp, spoiled>>
    BY <1>0, <1>4, <1>d DEF SnapshotFails, Failed, TypeOK
  <2>a. \/ UNCHANGED snaps
        \/ /\ pc[q] = "copying"
           /\ \E part \in {Empty, Torn} : snaps' = [snaps EXCEPT ![stamp] = part]
    BY <1>4 DEF SnapshotFails
  <2>1. TypeOK'
    <3>1. pc' \in [Requests -> {"idle", "locking", "receiving", "running", "reading", "naming",
                              "copying", "opening", "writing", "loading", "replying", "done"}]
      BY <1>0, <2>0 DEF TypeOK
    <3>2. snaps' \in [0..Seconds -> Content \cup {Absent, Empty, Torn}]
      BY <1>0, <1>s, <2>a DEF TypeOK
    <3>3. /\ nbMu' \in Requests \cup {Nobody} /\ evalMu' \in Requests \cup {Nobody}
          /\ readers' \subseteq Requests
      BY <1>0, <2>0 DEF TypeOK, Unlock
    <3>4. UNCHANGED <<nb, kind, body, file, saved, now, crashes>>
      BY <1>4, <1>d DEF SnapshotFails, Failed
    <3>5. QED
      BY <1>0, <2>0, <3>1, <3>2, <3>3, <3>4 DEF TypeOK
  <2> USE <1>0, <1>4, <1>d, <1>h, <1>s DEF Failed, Unlock
  <2>2. LocksHeld'
    <3>1. CASE pc' = [pc EXCEPT ![q] = "replying"] /\ UNCHANGED <<nbMu, readers, evalMu>>
      <4>1. pc'[q] = "replying"
        BY <3>1 DEF TypeOK
      <4>2. Along(q)' /\ (Holding(q)' <=> Holding(q)) /\ (Reading(q)' <=> Reading(q))
        BY <4>1 DEF LocksHeld, Along, Holding, Reading, Changing, Locked
      <4>3. QED
        BY <3>1, <4>2, LocksStay
    <3>2. CASE pc' = [pc EXCEPT ![q] = "done"] /\ Unlock(q)
      BY <3>2, LocksEnd
    <3>3. QED
      BY <2>0, <3>1, <3>2
  <2>3. Agree'
    BY <2>0 DEF Agree
  <2>4. Copied'
    BY <2>0 DEF Copied, TypeOK, Locked
  <2>5. Kept'
    <3>1. CASE UNCHANGED snaps
      BY <2>0, <3>1 DEF Kept
    <3>2. CASE pc[q] = "copying" /\ \E part \in {Empty, Torn} : snaps' = [snaps EXCEPT ![stamp] = part]
      <4>1. snaps[stamp] = Empty
        BY <3>2 DEF Copied
      <4>2. QED
        BY <2>0, <3>2, <4>1 DEF Kept, TypeOK
    <3>3. QED
      BY <2>a, <3>1, <3>2
  <2>6. QED
    BY <2>1, <2>2, <2>3, <2>4, <2>5 DEF IInv
<1>6. QED
  BY <1>1, <1>2, <1>3, <1>4, <1>5

-----------------------------------------------------------------------------
\* Steps that write the file: of the holder of nbMu, or of restores.
LEMMA FileInductive ==
    ASSUME IInv, NEW q \in Requests, Truncate(q) \/ Write(q) \/ SaveFails(q)
    PROVE  IInv'
<1> USE ContentFacts, NotebookAssumption DEF Saving, Continue, Goto
<1>0. TypeOK /\ LocksHeld /\ Agree /\ Copied /\ Kept
  BY DEF IInv
<1>d. /\ pc[q] \in {"opening", "writing"}
      /\ UNCHANGED <<nb, kind, body, snaps, old, stamp, now, crashes>>
  BY DEF Truncate, Write, SaveFails, Failed, memory
<1>h. /\ kind[q] # "restore" <=> nbMu = q
      /\ kind[q] \in {"save", "edit", "evaluate", "restore"}
      /\ \A r \in Requests : r # q /\ kind[q] # "restore" /\ kind[r] # "restore"
            => pc[r] \notin Locked \ {"replying"}
      /\ \A r \in Requests : pc[r] = "loading" => kind[r] = "restore"
  BY <1>0, <1>d DEF LocksHeld, Along, Holding, Changing, Locked, TypeOK, Kinds
<1>s. stamp \in 0..Seconds /\ now \in 0..Seconds
  BY <1>0 DEF TypeOK
<1>c. kind[q] # "restore" /\ old \in Content => snaps[stamp] = old
  BY <1>0, <1>d DEF Copied
<1>1. CASE Truncate(q)
  <2> USE <1>0, <1>1, <1>d, <1>h DEF Truncate, Wipe, Decodable, memory
  <2>1. TypeOK'
    BY DEF TypeOK
  <2>2. LocksHeld'
    <3>1. pc'[q] = "writing" /\ kind' = kind
      BY DEF TypeOK
    <3>2. Along(q)' /\ (Holding(q)' <=> Holding(q)) /\ (Reading(q)' <=> Reading(q))
      BY <3>1 DEF LocksHeld, Along, Holding, Reading, Changing, Locked
    <3>3. QED
      BY <3>2, LocksStay
  <2>3. Agree'
    BY DEF Agree, TypeOK
  <2>4. Copied'
    BY DEF Copied, TypeOK, Locked
  <2>5. Kept'
    <3>1. CASE file \in Content
      BY <3>1, <1>c, <1>s DEF Kept
    <3>2. CASE file \notin Content
      BY <3>2 DEF Kept
    <3>3. QED
      BY <3>1, <3>2
  <2>6. QED
    BY <2>1, <2>2, <2>3, <2>4, <2>5 DEF IInv
<1>2. CASE Write(q)
  <2> USE <1>0, <1>2, <1>d, <1>h
  <2>0. /\ file' = (IF kind[q] = "restore" THEN body[q] ELSE nb) /\ file' \in Content
        /\ saved' = file' /\ spoiled' = FALSE
        /\ drift' = (Restoring \ {q} # {}) /\ faults' = faults
        /\ pc' = [pc EXCEPT ![q] = IF kind[q] = "restore" THEN "loading" ELSE "replying"]
        /\ UNCHANGED <<nbMu, readers, evalMu>>
    BY DEF Write, memory, TypeOK
  <2>1. TypeOK'
    BY <2>0 DEF TypeOK
  <2>2. LocksHeld'
    <3>1. pc'[q] = (IF kind[q] = "restore" THEN "loading" ELSE "replying") /\ kind' = kind
      BY <2>0 DEF TypeOK
    <3>2. Along(q)' /\ (Holding(q)' <=> Holding(q)) /\ (Reading(q)' <=> Reading(q))
      BY <3>1 DEF LocksHeld, Along, Holding, Reading, Changing, Locked
    <3>3. QED
      BY <2>0, <3>2, LocksStay
  <2>3. Agree'
    <3>1. ASSUME ~drift', NEW r \in Requests, pc'[r] = "loading" PROVE r = q /\ kind[q] = "restore"
      BY <2>0, <3>1 DEF Restoring, TypeOK
    <3>2. CASE kind[q] = "restore"
      BY <2>0, <3>1, <3>2 DEF Agree, TypeOK
    <3>3. CASE kind[q] # "restore"
      BY <2>0, <3>1, <3>3 DEF Agree, TypeOK
    <3>4. QED
      BY <3>2, <3>3
  <2>4. Copied'
    BY <2>0 DEF Copied, TypeOK, Locked
  <2>5. Kept'
    BY <2>0 DEF Kept
  <2>6. QED
    BY <2>1, <2>2, <2>3, <2>4, <2>5 DEF IInv
<1>3. CASE SaveFails(q)
  <2> USE <1>0, <1>3, <1>d, <1>h DEF Failed
  <2>0. /\ (file' = file /\ UNCHANGED spoiled) \/ (file' = Torn /\ Wipe(q))
        /\ saved' = saved /\ drift' = TRUE /\ faults' \in 0..Faults
        /\ \/ pc' = [pc EXCEPT ![q] = "replying"] /\ UNCHANGED <<nbMu, readers, evalMu>>
              /\ kind[q] = "evaluate"
           \/ pc' = [pc EXCEPT ![q] = "done"] /\ Unlock(q)
    <3>1. faults \in 0..Faults /\ faults < Faults /\ faults' = faults + 1
      BY DEF SaveFails, TypeOK
    <3>2. /\ (file' = file /\ UNCHANGED spoiled) \/ (file' = Torn /\ Wipe(q))
          /\ saved' = saved /\ drift' = TRUE
      BY DEF SaveFails
    <3>3. \/ /\ pc' = [pc EXCEPT ![q] = "replying"] /\ UNCHANGED <<nbMu, readers, evalMu>>
             /\ kind[q] = "evaluate"
          \/ pc' = [pc EXCEPT ![q] = "done"] /\ Unlock(q)
      BY DEF SaveFails
    <3>4. QED
      BY <3>1, <3>2, <3>3
  <2>m. pc'[q] \in {"replying", "done"} /\ \A r \in Requests : r # q => pc'[r] = pc[r]
    BY <2>0 DEF TypeOK
  <2>1. TypeOK'
    BY <2>0 DEF TypeOK, Wipe, Unlock
  <2>2. LocksHeld'
    <3>1. CASE pc' = [pc EXCEPT ![q] = "replying"] /\ UNCHANGED <<nbMu, readers, evalMu>> /\ kind[q] = "evaluate"
      <4>1. pc'[q] = "replying"
        BY <3>1 DEF TypeOK
      <4>2. Along(q)' /\ (Holding(q)' <=> Holding(q)) /\ (Reading(q)' <=> Reading(q))
        BY <3>1, <4>1 DEF LocksHeld, Along, Holding, Reading, Changing, Locked
      <4>3. QED
        BY <3>1, <4>2, LocksStay
    <3>2. CASE pc' = [pc EXCEPT ![q] = "done"] /\ Unlock(q)
      BY <3>2, LocksEnd
    <3>3. QED
      BY <2>0, <3>1, <3>2
  <2>3. Agree'
    BY <2>0 DEF Agree
  <2>4. Copied'
    <3>1. \A r \in Requests : pc'[r] \in {"naming", "copying", "opening", "writing"} /\ kind[r] # "restore"
            => r # q /\ pc'[r] = pc[r] /\ kind[q] = "restore"
      BY <2>m DEF Locked
    <3>2. ~spoiled' /\ file \in Content /\ kind[q] = "restore" => ~spoiled /\ file' = file
      BY <2>0 DEF Wipe, Decodable
    <3>3. ~spoiled' => ~spoiled
      BY <2>0 DEF Wipe
    <3>4. QED
      BY <3>1, <3>2, <3>3 DEF Copied
  <2>5. Kept'
    <3>1. CASE file' = file /\ UNCHANGED spoiled
      BY <2>0, <3>1 DEF Kept
    <3>2. CASE file' = Torn /\ Wipe(q)
      BY <2>0, <3>2, <1>c, <1>s DEF Kept, Wipe, Decodable
    <3>3. QED
      BY <2>0, <3>1, <3>2
  <2>6. QED
    BY <2>1, <2>2, <2>3, <2>4, <2>5 DEF IInv
<1>4. QED
  BY <1>1, <1>2, <1>3

-----------------------------------------------------------------------------
LEMMA CrashInductive ==
    ASSUME IInv, Crash
    PROVE  IInv'
<1>m. (nb' = Loaded /\ faults' = faults) \/ (nb' = {} /\ faults < Faults /\ faults' = faults + 1)
  BY Zenon DEF Crash
<1>f. nb' \in Content /\ faults' \in 0..Faults
  <2>1. Loaded \in Content /\ {} \in Content
    BY ContentFacts DEF Loaded, Decodable
  <2>2. faults \in 0..Faults /\ Faults \in Nat
    BY NotebookAssumption DEF IInv, TypeOK
  <2>3. nb' \in Content
    BY <1>m, <2>1
  <2>4. faults' \in 0..Faults
    BY <1>m, <2>2
  <2>5. QED
    BY <2>3, <2>4
<1>r. drift' \in BOOLEAN
  BY Zenon DEF Crash
<1> USE ContentFacts, NotebookAssumption DEF IInv, Crash, disk
<1>0. \A q \in Requests : pc'[q] \in {"idle", "done"}
  BY DEF TypeOK
<1>1. TypeOK'
  BY <1>f, <1>r DEF TypeOK
<1>2. LocksHeld'
  <2>1. \A q \in Requests : pc'[q] = "idle" <=> pc[q] = "idle"
    BY DEF TypeOK
  <2>2. QED
    BY <1>0, <2>1 DEF LocksHeld, Along, Holding, Reading, Locked
<1>3. Agree'
  BY <1>0 DEF Agree, Loaded, Decodable
<1>4. Copied'
  BY <1>0 DEF Copied
<1>5. Kept'
  BY DEF Kept
<1>6. QED
  BY <1>1, <1>2, <1>3, <1>4, <1>5

LEMMA Inductive == IInv /\ [Next]_vars => IInv'
<1> SUFFICES ASSUME IInv, [Next]_vars PROVE IInv'
  OBVIOUS
<1>1. ASSUME NEW q \in Requests, Begin(q) \/ Step(q) PROVE IInv'
  BY <1>1, BeginInductive, MemoryInductive, SnapshotInductive, FileInductive DEF Step
<1>2. CASE Crash
  BY <1>2, CrashInductive
<1>3. CASE Tick
  <2> USE <1>3 DEF Tick, memory, request, disk, history, IInv
  <2>1. now' \in 0..Seconds
    BY NotebookAssumption DEF TypeOK
  <2>2. TypeOK'
    BY <2>1 DEF TypeOK
  <2>3. LocksHeld' /\ Agree' /\ Copied' /\ Kept'
    BY DEF LocksHeld, Along, Holding, Reading, Changing, Agree, Copied, Kept
  <2>4. QED
    BY <2>2, <2>3
<1>4. CASE UNCHANGED vars
  BY <1>4 DEF vars, memory, request, disk, history, bounds, IInv, TypeOK, LocksHeld, Along,
     Holding, Reading, Changing, Agree, Copied, Kept
<1>5. QED
  BY <1>1, <1>2, <1>3, <1>4 DEF Next

LEMMA Invariant == Spec => []IInv
  BY InitInductive, Inductive, PTL DEF Spec

-----------------------------------------------------------------------------
\* Every variable keeps its type: in particular the notebook in memory is always
\* a whole one, whatever the file holds when the server starts.
THEOREM TypeCorrect == Spec => []TypeOK
<1>1. IInv => TypeOK
  BY DEF IInv
<1>2. QED
  BY <1>1, Invariant, PTL

\* What was saved last is in the file or in a snapshot, wherever a save is interrupted
\* by a crash or by an error when it writes, for every number of requests, seconds,
\* crashes and errors.  The exceptions are spoiled, and no others: a restore wiped the
\* file, a save wiped it that had not read it, or half a file took a snapshot's name.
THEOREM LastSavedIsKeptCorrect == Spec => []LastSavedIsKept
<1>1. IInv => LastSavedIsKept
  <2> SUFFICES ASSUME IInv, saved # Empty, ~spoiled
               PROVE  saved \in {file} \cup {snaps[s] : s \in 0..Seconds}
    BY DEF LastSavedIsKept, IInv, TypeOK
  <2>1. CASE file \in Content
    BY <2>1 DEF IInv, Kept
  <2>2. CASE file \notin Content
    BY <2>2 DEF IInv, Kept
  <2>3. QED
    BY <2>1, <2>2
<1>2. QED
  BY <1>1, Invariant, PTL

\* With nothing under way and no drift, a restart would load what is in memory.
THEOREM FileIsMemoryCorrect == Spec => []FileIsMemory
<1>1. IInv => FileIsMemory
  <2> SUFFICES ASSUME IInv, \A q \in Requests : pc[q] \in {"idle", "done"}, ~drift
               PROVE  nb = file
    BY DEF FileIsMemory, IInv, TypeOK
  <2>1. nbMu = Nobody
    BY DEF IInv, TypeOK, LocksHeld, Holding, Locked
  <2>2. QED
    BY <2>1 DEF IInv, Agree
<1>2. QED
  BY <1>1, Invariant, PTL

-----------------------------------------------------------------------------
\* Who holds evalMu is the evaluation under way: an inductive part of its own, for
\* nothing above depends on evalMu.
Running(q) == kind[q] = "evaluate" /\ pc[q] \notin {"idle", "done"}

EvalHeld == \A q \in Requests : evalMu = q <=> Running(q)

\* What a step does to evalMu: the step that ends a request gives it back.
LEMMA StepEnds ==
    ASSUME IInv, EvalHeld, NEW q \in Requests, Step(q)
    PROVE  /\ kind' = kind /\ pc[q] \notin {"idle", "done"}
           /\ \E l \in {"receiving", "running", "reading", "naming", "copying", "opening",
                        "writing", "loading", "replying", "done"} :
                /\ pc' = [pc EXCEPT ![q] = l]
                /\ evalMu' = IF l = "done" /\ evalMu = q THEN Nobody ELSE evalMu
<1> USE DEF Goto, IInv
<1>1. CASE Enter(q) \/ EnterRead(q) \/ Receive(q) \/ Reject(q) \/ Ran(q) \/ Dropped(q) \/ Reply(q)
  BY <1>1 DEF Enter, EnterRead, Receive, Reject, Ran, Dropped, Reply, Unlock
<1>2. CASE LoadRestored(q)
  BY <1>2 DEF LoadRestored
<1>3. CASE ReadOld(q) \/ ReadFails(q)
  BY <1>3 DEF ReadOld, ReadFails, Saving, Continue, memory
<1>4. CASE OpenSnapshot(q) \/ CopyOld(q) \/ Truncate(q)
  BY <1>4 DEF OpenSnapshot, CopyOld, Truncate, Saving, Continue, memory
<1>5. CASE SnapshotFails(q) \/ SaveFails(q)
  <2>1. /\ Failed(q) /\ kind' = kind /\ pc[q] \in {"naming", "copying", "opening", "writing"}
    BY <1>5 DEF SnapshotFails, SaveFails, Saving
  <2>2. QED
    BY <2>1 DEF Failed, Unlock
<1>6. CASE Write(q)
  <2>1. kind' = kind /\ pc[q] = "writing"
    BY <1>6 DEF Write, Saving
  <2>2. QED
    BY <1>6, <2>1 DEF Write, Continue, memory
<1>7. QED
  BY <1>1, <1>2, <1>3, <1>4, <1>5, <1>6 DEF Step

LEMMA EvalHeldKept == IInv /\ EvalHeld /\ [Next]_vars => EvalHeld'
<1> SUFFICES ASSUME IInv, EvalHeld, [Next]_vars PROVE EvalHeld'
  OBVIOUS
<1> USE NotebookAssumption
<1>t. /\ pc \in [Requests -> {"idle", "locking", "receiving", "running", "reading", "naming",
                              "copying", "opening", "writing", "loading", "replying", "done"}]
      /\ kind \in [Requests -> Kinds \cup {"none"}]
      /\ evalMu \in Requests \cup {Nobody}
  BY DEF IInv, TypeOK
<1>1. ASSUME NEW q \in Requests, Begin(q) PROVE EvalHeld'
  <2> USE DEF Arrive, Goto
  <2>1. pc[q] = "idle" /\ evalMu # q
    BY <1>1 DEF Begin, BeginRead, BeginSave, BeginEdit, BeginEvaluate, Conflict, BeginRestore, EvalHeld, Running
  <2>2. CASE BeginEvaluate(q)
    BY <1>t, <2>1, <2>2 DEF BeginEvaluate, EvalHeld, Running
  <2>3. CASE Conflict(q)
    BY <1>t, <2>1, <2>3 DEF Conflict, EvalHeld, Running
  <2>4. CASE BeginRead(q) \/ BeginSave(q) \/ BeginEdit(q)
    BY <1>t, <2>1, <2>4 DEF BeginRead, BeginSave, BeginEdit, EvalHeld, Running
  <2>5. CASE \E s \in 0..Seconds : BeginRestore(q, s)
    BY <1>t, <2>1, <2>5 DEF BeginRestore, EvalHeld, Running
  <2>6. QED
    BY <1>1, <2>2, <2>3, <2>4, <2>5 DEF Begin
<1>2. ASSUME NEW q \in Requests, Step(q) PROVE EvalHeld'
  BY <1>t, <1>2, StepEnds DEF EvalHeld, Running
<1>3. CASE Crash
  BY <1>t, <1>3 DEF Crash, EvalHeld, Running
<1>4. CASE Tick \/ UNCHANGED vars
  BY <1>4 DEF Tick, vars, memory, request, EvalHeld, Running
<1>5. QED
  BY <1>1, <1>2, <1>3, <1>4 DEF Next

\* Requests never wait for each other in a circle: who holds nbMu is past every
\* lock, and evalMu is held by the one evaluation under way and comes free with it,
\* by whichever of the handler's returns it ends.
THEOREM LocksComeFreeCorrect == Spec => []LocksComeFree
<1>1. Init => EvalHeld
  <2>1. Init => evalMu = Nobody /\ \A q \in Requests : kind[q] = "none"
    BY DEF Init
  <2>2. QED
    BY <2>1, NotebookAssumption DEF EvalHeld, Running
<1>2. IInv /\ EvalHeld => LocksComeFree
  <2> SUFFICES ASSUME IInv, EvalHeld PROVE LocksComeFree
    OBVIOUS
  <2>1. nbMu # Nobody => pc[nbMu] \in Locked
    BY DEF IInv, TypeOK, LocksHeld, Holding, Locked
  <2>2. readers \subseteq Requests
    BY DEF IInv, TypeOK
  <2>3. QED
    BY <2>1, <2>2 DEF IInv, LocksHeld, LocksComeFree, Reading, EvalHeld, Running, Locked
<1>3. QED
  BY <1>1, <1>2, EvalHeldKept, Invariant, PTL DEF Spec

-----------------------------------------------------------------------------
\* The edits of the list of cells (NotebookCells).
-----------------------------------------------------------------------------
\* A set of natural numbers has a least member, for the finite subsets of Nat are
\* well founded under inclusion; with it, induction for sets.
LEMMA LeastNat ==
    ASSUME NEW T \in SUBSET Nat, T # {}
    PROVE  \E x \in T : \A y \in T : x <= y
<1> DEFINE U == {0..x : x \in T}
<1>1. U \subseteq FiniteSubsetsOf(Nat) /\ U # {}
  <2>1. \A x \in T : 0..x \subseteq Nat /\ IsFiniteSet(0..x)
    BY FS_Interval
  <2>2. QED
    BY <2>1 DEF FiniteSubsetsOf
<1>2. PICK X \in U : \A Y \in U : ~(<<Y, X>> \in StrictSubsetOrdering(Nat))
  <2> HIDE DEF U
  <2> QED
    BY <1>1, FS_StrictSubsetOrderingWellFounded, WFMin, Zenon
<1>3. PICK x \in T : X = 0..x
  OBVIOUS
<1>4. ASSUME NEW y \in T, y < x PROVE FALSE
  <2>1. 0..y \subseteq 0..x /\ x \in 0..x /\ x \notin 0..y
    BY <1>4
  <2>2. 0..y \in U /\ 0..y \subseteq Nat /\ 0..x \subseteq Nat
    OBVIOUS
  <2>3. <<0..y, X>> \in StrictSubsetOrdering(Nat)
    BY <1>3, <2>1, <2>2 DEF StrictSubsetOrdering
  <2>4. QED
    BY <1>2, <2>2, <2>3
<1>5. QED
  BY <1>4

LEMMA NatInd ==
    ASSUME NEW S, 0 \in S, \A n \in Nat : n \in S => n + 1 \in S
    PROVE  Nat \subseteq S
<1> SUFFICES ASSUME NEW m \in Nat \ S PROVE FALSE
  OBVIOUS
<1>1. PICK x \in Nat \ S : \A y \in Nat \ S : x <= y
  BY LeastNat
<1>2. x # 0 /\ x - 1 \in Nat
  BY <1>1
<1>3. x - 1 \in S
  BY <1>1, <1>2
<1>4. QED
  BY <1>1, <1>2, <1>3

\* The largest member of a bounded set of natural numbers.
LEMMA MaxFacts ==
    ASSUME NEW T \in SUBSET Nat, T # {}, NEW m \in Nat, \A x \in T : x <= m
    PROVE  Max(T) \in T /\ \A x \in T : x <= Max(T)
<1> DEFINE B == {k \in Nat : \A x \in T : x <= k}
<1>1. PICK k \in B : \A y \in B : k <= y
  <2>1. m \in B
    OBVIOUS
  <2>2. B \in SUBSET Nat /\ B # {}
    BY <2>1
  <2> HIDE DEF B
  <2>3. QED
    BY <2>2, LeastNat
<1>2. k \in T
  <2> SUFFICES ASSUME k \notin T PROVE FALSE
    OBVIOUS
  <2>1. \A x \in T : x <= k - 1 /\ x \in Nat
    BY <1>1
  <2>2. k - 1 \in B
    <3>1. PICK x \in T : TRUE
      OBVIOUS
    <3>2. x <= k - 1 /\ x \in Nat /\ k \in Nat
      BY <1>1, <2>1
    <3>3. k - 1 \in Nat
      BY <3>2
    <3>4. QED
      BY <2>1, <3>3
  <2>3. QED
    BY <1>1, <2>2
<1>3. \E x \in T : \A y \in T : x >= y
  BY <1>1, <1>2
<1>4. Max(T) \in T /\ \A y \in T : Max(T) >= y
  <2> DEFINE P(x) == x \in T /\ \A y \in T : x >= y
  <2>1. \E x : P(x)
    BY <1>3
  <2>2. Max(T) = CHOOSE x \in T : \A y \in T : x >= y
    BY DEF Max
  <2>3. QED
    BY <1>3, <2>2
<1>5. QED
  BY <1>4

-----------------------------------------------------------------------------
\* Others goes through a list cell by cell, so it goes through two lists laid end
\* to end one after the other.
IsOthers(f, s, id, n) ==
    f = [i \in 0..n |-> IF i = 0 THEN <<>>
                        ELSE IF s[i].id = id THEN f[i - 1]
                        ELSE Append(f[i - 1], s[i])]

LEMMA OthersExists ==
    ASSUME NEW s, NEW id, NEW m \in Nat
    PROVE  \E f : IsOthers(f, s, id, m)
<1> DEFINE S == {n \in Nat : \E f : IsOthers(f, s, id, n)}
<1>1. 0 \in S
  <2> DEFINE f == [i \in 0..0 |-> <<>>]
  <2>1. \A i \in 0..0 : i = 0
    OBVIOUS
  <2>2. IsOthers(f, s, id, 0)
    BY <2>1 DEF IsOthers
  <2>3. QED
    BY <2>2
<1>2. ASSUME NEW n \in Nat, n \in S PROVE n + 1 \in S
  <2>1. PICK f : IsOthers(f, s, id, n)
    BY <1>2
  <2> DEFINE g == [i \in 0..n + 1 |->
                     IF i # n + 1 THEN f[i]
                     ELSE IF s[n + 1].id = id THEN f[n] ELSE Append(f[n], s[n + 1])]
  <2>2. \A i \in 0..n : i # n + 1 /\ i \in 0..n + 1 /\ g[i] = f[i]
    OBVIOUS
  <2>3. n + 1 \in 0..n + 1 /\ g[n + 1] = IF s[n + 1].id = id THEN f[n]
                                         ELSE Append(f[n], s[n + 1])
    OBVIOUS
  <2>4. g = [i \in 0..n + 1 |-> g[i]]
    OBVIOUS
  <2> HIDE DEF g
  <2>5. ASSUME NEW i \in 0..n + 1
        PROVE  g[i] = IF i = 0 THEN <<>>
                      ELSE IF s[i].id = id THEN g[i - 1]
                      ELSE Append(g[i - 1], s[i])
    <3>1. CASE i = n + 1
      <4>1. i # 0 /\ i - 1 = n /\ n \in 0..n
        BY <3>1
      <4>2. g[i - 1] = f[n]
        BY <2>2, <4>1
      <4>3. QED
        BY <2>3, <3>1, <4>1, <4>2
    <3>2. CASE i # n + 1
      <4>1. i \in 0..n /\ (i # 0 => i - 1 \in 0..n)
        BY <3>2
      <4>2. f[i] = IF i = 0 THEN <<>>
                   ELSE IF s[i].id = id THEN f[i - 1]
                   ELSE Append(f[i - 1], s[i])
        BY <2>1, <4>1 DEF IsOthers
      <4>3. g[i] = f[i] /\ (i # 0 => g[i - 1] = f[i - 1])
        BY <2>2, <4>1
      <4>4. QED
        BY <4>2, <4>3
    <3>3. QED
      BY <3>1, <3>2
  <2>6. IsOthers(g, s, id, n + 1)
    BY <2>4, <2>5 DEF IsOthers
  <2>7. QED
    BY <2>6
<1> HIDE DEF S
<1>3. Nat \subseteq S
  BY <1>1, <1>2, NatInd
<1>4. QED
  BY <1>3 DEF S

\* The way f through s.
Through(f, s, id) ==
    /\ f[0] = <<>>
    /\ \A i \in 1..Len(s) : f[i] = IF s[i].id = id THEN f[i - 1] ELSE Append(f[i - 1], s[i])

LEMMA OthersIs ==
    ASSUME NEW s \in Seq(Cell), NEW id
    PROVE  \E f : Others(s, id) = f[Len(s)] /\ Through(f, s, id)
<1>1. Len(s) \in Nat
  OBVIOUS
<1> DEFINE f == CHOOSE f : IsOthers(f, s, id, Len(s))
<1>2. \E g : IsOthers(g, s, id, Len(s))
  BY <1>1, OthersExists
<1>3. IsOthers(f, s, id, Len(s))
  BY <1>2
<1>4. Others(s, id) = f[Len(s)]
  BY DEF Others, IsOthers
<1> HIDE DEF f
<1>5. 0 \in 0..Len(s) /\ \A i \in 1..Len(s) : i \in 0..Len(s) /\ i # 0
  BY <1>1
<1>6. Through(f, s, id)
  BY <1>3, <1>5 DEF IsOthers, Through
<1>7. QED
  BY <1>4, <1>6

LEMMA OthersTypes ==
    ASSUME NEW s \in Seq(Cell), NEW id, NEW f, Through(f, s, id)
    PROVE  \A i \in 0..Len(s) : f[i] \in Seq(Cell)
<1> DEFINE T == {i \in Nat : i <= Len(s) => f[i] \in Seq(Cell)}
<1>1. 0 \in T
  <2>1. <<>> \in Seq(Cell)
    OBVIOUS
  <2>2. QED
    BY <2>1 DEF Through
<1>2. ASSUME NEW i \in Nat, i \in T PROVE i + 1 \in T
  <2> SUFFICES ASSUME i + 1 <= Len(s) PROVE f[i + 1] \in Seq(Cell)
    OBVIOUS
  <2>1. i + 1 \in 1..Len(s) /\ (i + 1) - 1 = i /\ s[i + 1] \in Cell
    OBVIOUS
  <2>2. f[i] \in Seq(Cell)
    BY <1>2
  <2>3. f[i + 1] = IF s[i + 1].id = id THEN f[i] ELSE Append(f[i], s[i + 1])
    BY <2>1 DEF Through
  <2>4. Append(f[i], s[i + 1]) \in Seq(Cell)
    BY <2>1, <2>2
  <2>5. QED
    BY <2>2, <2>3, <2>4
<1> HIDE DEF T
<1>3. Nat \subseteq T
  BY <1>1, <1>2, NatInd
<1>4. QED
  BY <1>3 DEF T

LEMMA OthersKind ==
    ASSUME NEW s \in Seq(Cell), NEW id
    PROVE  Others(s, id) \in Seq(Cell)
<1>1. PICK f : Others(s, id) = f[Len(s)] /\ Through(f, s, id)
  BY OthersIs
<1>2. Len(s) \in 0..Len(s)
  OBVIOUS
<1>3. QED
  BY <1>1, <1>2, OthersTypes

LEMMA AppendConcat ==
    ASSUME NEW s \in Seq(Cell), NEW t \in Seq(Cell), NEW c \in Cell
    PROVE  Append(s \o t, c) = s \o Append(t, c)
  OBVIOUS

LEMMA OthersConcat ==
    ASSUME NEW s \in Seq(Cell), NEW t \in Seq(Cell), NEW id
    PROVE  Others(s \o t, id) = Others(s, id) \o Others(t, id)
<1> DEFINE u == s \o t  m == Len(s)  k == Len(t)
<1>1. /\ u \in Seq(Cell) /\ Len(u) = m + k /\ m \in Nat /\ k \in Nat
      /\ \A i \in 1..m : u[i] = s[i]
      /\ \A i \in 1..k : u[m + i] = t[i]
  <2>1. u \in Seq(Cell) /\ Len(u) = m + k
    BY ConcatProperties
  <2>2. \A i \in 1..m + k : u[i] = IF i <= m THEN s[i] ELSE t[i - m]
    BY ConcatProperties
  <2>3. m \in Nat /\ k \in Nat
    OBVIOUS
  <2> HIDE DEF u, m, k
  <2>4. \A i \in 1..k : m + i \in 1..m + k /\ ~(m + i <= m) /\ (m + i) - m = i
    BY <2>3
  <2>5. \A i \in 1..m : i \in 1..m + k /\ i <= m
    BY <2>3
  <2>6. QED
    BY <2>1, <2>2, <2>3, <2>4, <2>5
<1>2. PICK f : Others(s, id) = f[m] /\ Through(f, s, id)
  BY OthersIs
<1>3. PICK g : Others(t, id) = g[k] /\ Through(g, t, id)
  BY OthersIs
<1>4. PICK h : Others(u, id) = h[Len(u)] /\ Through(h, u, id)
  <2> HIDE DEF u
  <2>1. u \in Seq(Cell)
    BY <1>1
  <2>2. QED
    BY <2>1, OthersIs
<1>5. (\A i \in 0..m : f[i] \in Seq(Cell)) /\ \A i \in 0..k : g[i] \in Seq(Cell)
  BY <1>2, <1>3, OthersTypes
<1> HIDE DEF u, m, k
<1>s. f[0] = <<>> /\ \A i \in 1..m : f[i] = IF s[i].id = id THEN f[i - 1] ELSE Append(f[i - 1], s[i])
  BY <1>2 DEF Through, m
<1>t. g[0] = <<>> /\ \A i \in 1..k : g[i] = IF t[i].id = id THEN g[i - 1] ELSE Append(g[i - 1], t[i])
  BY <1>3 DEF Through, k
<1>u. h[0] = <<>> /\ \A i \in 1..m + k : h[i] = IF u[i].id = id THEN h[i - 1] ELSE Append(h[i - 1], u[i])
  BY <1>1, <1>4 DEF Through
<1>6. h[m] = f[m]
  <2> DEFINE T == {i \in Nat : i <= m => h[i] = f[i]}
  <2>1. 0 \in T
    BY <1>s, <1>u
  <2>2. ASSUME NEW i \in Nat, i \in T PROVE i + 1 \in T
    <3> SUFFICES ASSUME i + 1 <= m PROVE h[i + 1] = f[i + 1]
      OBVIOUS
    <3>1. i + 1 \in 1..m /\ i + 1 \in 1..m + k /\ (i + 1) - 1 = i
      BY <1>1
    <3>2. h[i] = f[i] /\ u[i + 1] = s[i + 1]
      BY <1>1, <2>2, <3>1
    <3>3. h[i + 1] = IF u[i + 1].id = id THEN h[i] ELSE Append(h[i], u[i + 1])
      BY <1>u, <3>1
    <3>4. f[i + 1] = IF s[i + 1].id = id THEN f[i] ELSE Append(f[i], s[i + 1])
      BY <1>s, <3>1
    <3>5. QED
      BY <3>2, <3>3, <3>4
  <2> HIDE DEF T
  <2>3. Nat \subseteq T
    BY <2>1, <2>2, NatInd
  <2>4. QED
    BY <1>1, <2>3 DEF T
<1>7. h[m + k] = f[m] \o g[k]
  <2> DEFINE After(i) == h[m + i] = f[m] \o g[i]
             T == {i \in Nat : i <= k => After(i)}
  <2>0. f[m] \in Seq(Cell)
    BY <1>1, <1>5
  <2>1. After(0)
    <3>1. f[m] \o <<>> = f[m] /\ m + 0 = m
      BY <1>1, <2>0, ConcatEmptySeq
    <3>2. QED
      BY <1>t, <1>6, <3>1
  <2>2. ASSUME NEW i \in Nat, i + 1 <= k, After(i) PROVE After(i + 1)
    <3>1. /\ i + 1 \in 1..k /\ m + (i + 1) \in 1..m + k /\ (m + (i + 1)) - 1 = m + i
          /\ (i + 1) - 1 = i /\ i \in 0..k
      BY <1>1, <2>2
    <3> DEFINE c == t[i + 1]  v == m + (i + 1)
    <3>2. u[v] = c
      BY <1>1, <3>1
    <3>3. h[v] = IF c.id = id THEN h[m + i] ELSE Append(h[m + i], c)
      <4>1. v \in 1..m + k /\ v - 1 = m + i
        BY <3>1
      <4> HIDE DEF v, c
      <4>2. QED
        BY <1>u, <3>2, <4>1
    <3>4. g[i + 1] = IF c.id = id THEN g[i] ELSE Append(g[i], c)
      BY <1>t, <3>1
    <3>5. g[i] \in Seq(Cell) /\ c \in Cell
      <4>1. c \in Cell
        BY <3>1 DEF k
      <4>2. QED
        BY <1>5, <3>1, <4>1
    <3> HIDE DEF v, c
    <3>6. Append(f[m] \o g[i], c) = f[m] \o Append(g[i], c)
      BY <2>0, <3>5, AppendConcat
    <3>7. h[v] = f[m] \o g[i + 1]
      BY <2>2, <3>3, <3>4, <3>6
    <3>8. QED
      BY <3>7 DEF v
  <2> HIDE DEF After
  <2>3. 0 \in T /\ \A i \in Nat : i \in T => i + 1 \in T
    <3>1. \A i \in Nat : i + 1 <= k => i <= k
      BY <1>1
    <3>2. QED
      BY <2>1, <2>2, <3>1
  <2> HIDE DEF T
  <2>4. Nat \subseteq T
    BY <2>3, NatInd
  <2>5. After(k)
    BY <1>1, <2>4 DEF T
  <2>6. QED
    BY <2>5 DEF After
<1>8. QED
  BY <1>1, <1>2, <1>3, <1>4, <1>7 DEF u

LEMMA OthersOne ==
    ASSUME NEW c \in Cell
    PROVE  Others(<<c>>, c.id) = <<>>
<1>1. <<c>> \in Seq(Cell) /\ Len(<<c>>) = 1 /\ <<c>>[1] = c
  OBVIOUS
<1> DEFINE s == <<c>>
<1> HIDE DEF s
<1>2. s \in Seq(Cell) /\ Len(s) = 1 /\ s[1] = c /\ 1 \in 1..1
  BY <1>1 DEF s
<1>3. PICK f : Others(s, c.id) = f[Len(s)] /\ Through(f, s, c.id)
  BY <1>2, OthersIs
<1>4. f[1] = f[1 - 1] /\ 1 - 1 = 0
  BY <1>2, <1>3 DEF Through
<1>5. QED
  BY <1>2, <1>3, <1>4 DEF s, Through

-----------------------------------------------------------------------------
LEMMA CellsConcat ==
    ASSUME NEW s \in Seq(Cell), NEW t \in Seq(Cell)
    PROVE  /\ s \o t \in Seq(Cell) /\ Len(s \o t) = Len(s) + Len(t)
           /\ \A i \in 1..Len(s) + Len(t) :
                 (s \o t)[i] = IF i <= Len(s) THEN s[i] ELSE t[i - Len(s)]
  BY ConcatProperties

\* Position by position, what an insertion and a deletion do to a list.
LEMMA InsertFacts ==
    ASSUME NEW s \in Seq(Cell), NEW p \in 1..Len(s), NEW c \in Cell
    PROVE  /\ InsertAt(s, p + 1, c) \in Seq(Cell)
           /\ Len(InsertAt(s, p + 1, c)) = Len(s) + 1
           /\ \A j \in 1..Len(s) + 1 : InsertAt(s, p + 1, c)[j] =
                 IF j <= p THEN s[j] ELSE IF j = p + 1 THEN c ELSE s[j - 1]
           /\ Others(InsertAt(s, p + 1, c), c.id) = Others(s, c.id)
<1> DEFINE n == Len(s)  a == SubSeq(s, 1, p)  b == SubSeq(s, p + 1, n)  o == <<c>>  id == c.id
<1>1. /\ n \in Nat /\ p \in Nat /\ p >= 1 /\ p <= n
      /\ (p + 1) - 1 = p /\ \A i \in 1..n : s[i] \in Cell
  OBVIOUS
<1>2. /\ a \in Seq(Cell) /\ Len(a) = p /\ \A i \in 1..p : a[i] = s[i]
  <2>1. \A i \in 1..p : i \in 1..n
    BY <1>1
  <2>2. \A i \in 1..p : s[i] \in Cell
    BY <1>1, <2>1
  <2> HIDE DEF n
  <2>3. /\ SubSeq(s, 1, p) \in Seq(Cell) /\ Len(SubSeq(s, 1, p)) = IF 1 <= p THEN p - 1 + 1 ELSE 0
        /\ \A i \in 1..p - 1 + 1 : SubSeq(s, 1, p)[i] = s[1 + i - 1]
    BY <1>1, <2>2, SubSeqProperties
  <2>4. p - 1 + 1 = p /\ \A i \in 1..p : 1 + i - 1 = i
    BY <1>1
  <2>5. QED
    BY <1>1, <2>3, <2>4
<1>3. /\ b \in Seq(Cell) /\ Len(b) = n - p /\ \A i \in 1..n - p : b[i] = s[p + i]
  <2>1. \A i \in p + 1..n : i \in 1..n
    BY <1>1
  <2>2. \A i \in p + 1..n : s[i] \in Cell
    BY <1>1, <2>1
  <2> HIDE DEF n
  <2>3. /\ SubSeq(s, p + 1, n) \in Seq(Cell)
        /\ Len(SubSeq(s, p + 1, n)) = IF p + 1 <= n THEN n - (p + 1) + 1 ELSE 0
        /\ \A i \in 1..n - (p + 1) + 1 : SubSeq(s, p + 1, n)[i] = s[(p + 1) + i - 1]
    BY <1>1, <2>2, SubSeqProperties
  <2>4. n - (p + 1) + 1 = n - p /\ (~(p + 1 <= n) => n - p = 0)
        /\ \A i \in 1..n - p : (p + 1) + i - 1 = p + i
    BY <1>1
  <2>5. QED
    BY <2>3, <2>4
<1>4. o \in Seq(Cell) /\ Len(o) = 1 /\ o[1] = c /\ Others(o, id) = <<>>
  BY OthersOne
<1>5. s = a \o b
  <2>1. 1 \in 1..n + 1 /\ p \in 1 - 1..n /\ n \in p..n
    BY <1>1
  <2> HIDE DEF n
  <2>2. SubSeq(s, 1, p) \o SubSeq(s, p + 1, n) = SubSeq(s, 1, n)
    BY <2>1, ConcatAdjacentSubSeq DEF n
  <2>3. SubSeq(s, 1, n) = s
    BY SubSeqFull DEF n
  <2>4. QED
    BY <2>2, <2>3
<1>6. InsertAt(s, p + 1, c) = (a \o o) \o b
  BY <1>1 DEF InsertAt
<1> HIDE DEF n, a, b, o, id
<1>7. /\ a \o o \in Seq(Cell) /\ Len(a \o o) = p + 1
      /\ \A i \in 1..p + 1 : (a \o o)[i] = IF i <= p THEN a[i] ELSE o[i - p]
  <2>1. a \in Seq(Cell) /\ Len(a) = p /\ o \in Seq(Cell) /\ Len(o) = 1 /\ p \in Nat /\ 1 \in Nat
    BY <1>1, <1>2, <1>4
  <2>2. /\ a \o o \in Seq(Cell) /\ Len(a \o o) = Len(a) + Len(o)
        /\ \A i \in 1..Len(a) + Len(o) :
              (a \o o)[i] = IF i <= Len(a) THEN a[i] ELSE o[i - Len(a)]
    BY <2>1, CellsConcat
  <2>3. QED
    BY <2>1, <2>2
<1> DEFINE d == a \o o
<1>8. /\ d \o b \in Seq(Cell) /\ Len(d \o b) = (p + 1) + (n - p)
      /\ \A i \in 1..(p + 1) + (n - p) : (d \o b)[i] = IF i <= p + 1 THEN d[i] ELSE b[i - (p + 1)]
  <2> HIDE DEF d
  <2>1. d \in Seq(Cell) /\ Len(d) = p + 1
    BY <1>7 DEF d
  <2>2. /\ d \o b \in Seq(Cell) /\ Len(d \o b) = Len(d) + Len(b)
        /\ \A i \in 1..Len(d) + Len(b) :
              (d \o b)[i] = IF i <= Len(d) THEN d[i] ELSE b[i - Len(d)]
    BY <1>3, <2>1, CellsConcat
  <2>3. QED
    BY <1>3, <2>1, <2>2
<1>9. (p + 1) + (n - p) = n + 1
  BY <1>1
<1>10. ASSUME NEW j \in 1..n + 1
       PROVE  (d \o b)[j] = IF j <= p THEN s[j] ELSE IF j = p + 1 THEN c ELSE s[j - 1]
  <2>1. (d \o b)[j] = IF j <= p + 1 THEN d[j] ELSE b[j - (p + 1)]
    BY <1>8, <1>9
  <2>2. CASE j <= p
    <3>1. j \in 1..p /\ j \in 1..p + 1 /\ j <= p + 1
      BY <1>1, <2>2
    <3>2. QED
      BY <1>2, <1>7, <2>1, <2>2, <3>1
  <2>3. CASE j = p + 1
    <3>1. j \in 1..p + 1 /\ j <= p + 1 /\ ~(j <= p) /\ j - p = 1
      BY <1>1, <2>3
    <3>2. QED
      BY <1>4, <1>7, <2>1, <2>3, <3>1
  <2>4. CASE j > p + 1
    <3>1. /\ ~(j <= p) /\ j # p + 1 /\ ~(j <= p + 1)
          /\ j - (p + 1) \in 1..n - p /\ p + (j - (p + 1)) = j - 1
      BY <1>1, <2>4
    <3>2. b[j - (p + 1)] = s[j - 1]
      BY <1>3, <3>1
    <3>3. QED
      BY <2>1, <3>1, <3>2
  <2>5. j <= p \/ j = p + 1 \/ j > p + 1
    BY <1>1
  <2>6. QED
    BY <2>2, <2>3, <2>4, <2>5
<1>11. Others(d \o b, id) = Others(s, id)
  <2>1. Others(d, id) = Others(a, id) \o Others(o, id)
    <3>1. a \in Seq(Cell) /\ o \in Seq(Cell)
      BY <1>2, <1>4
    <3> HIDE DEF d
    <3>2. Others(a \o o, id) = Others(a, id) \o Others(o, id)
      BY <3>1, OthersConcat
    <3>3. QED
      BY <3>2 DEF d
  <2>2. d \in Seq(Cell)
    BY <1>7
  <2>3. Others(a, id) \o <<>> = Others(a, id)
    BY <1>2, OthersKind, ConcatEmptySeq
  <2> HIDE DEF d
  <2>4. Others(d \o b, id) = Others(d, id) \o Others(b, id)
    BY <1>3, <2>2, OthersConcat
  <2>5. Others(a \o b, id) = Others(a, id) \o Others(b, id)
    BY <1>2, <1>3, OthersConcat
  <2>6. QED
    BY <1>4, <1>5, <2>1, <2>3, <2>4, <2>5
<1>12. QED
  BY <1>6, <1>8, <1>9, <1>10, <1>11 DEF n, id

LEMMA RemoveFacts ==
    ASSUME NEW s \in Seq(Cell), NEW p \in 1..Len(s)
    PROVE  /\ RemoveAt(s, p) \in Seq(Cell) /\ Len(RemoveAt(s, p)) = Len(s) - 1
           /\ \A j \in 1..Len(s) - 1 : RemoveAt(s, p)[j] = IF j < p THEN s[j] ELSE s[j + 1]
           /\ Others(RemoveAt(s, p), s[p].id) = Others(s, s[p].id)
<1> DEFINE n == Len(s)  a == SubSeq(s, 1, p - 1)  b == SubSeq(s, p + 1, n)
           c == s[p]  o == <<c>>  id == s[p].id
<1>1. /\ n \in Nat /\ p \in Nat /\ p >= 1 /\ p <= n /\ \A i \in 1..n : s[i] \in Cell
  OBVIOUS
<1>2. /\ a \in Seq(Cell) /\ Len(a) = p - 1 /\ \A i \in 1..p - 1 : a[i] = s[i]
  <2>1. \A i \in 1..p - 1 : i \in 1..n
    BY <1>1
  <2>2. \A i \in 1..p - 1 : s[i] \in Cell
    BY <1>1, <2>1
  <2> HIDE DEF n
  <2> DEFINE q == p - 1
  <2>3. q \in Int /\ q - 1 + 1 = q /\ (~(1 <= q) => q = 0) /\ \A i \in 1..q : 1 + i - 1 = i
    BY <1>1
  <2> HIDE DEF q
  <2>4. /\ SubSeq(s, 1, q) \in Seq(Cell) /\ Len(SubSeq(s, 1, q)) = IF 1 <= q THEN q - 1 + 1 ELSE 0
        /\ \A i \in 1..q - 1 + 1 : SubSeq(s, 1, q)[i] = s[1 + i - 1]
    BY <2>2, <2>3, SubSeqProperties DEF q
  <2>5. QED
    BY <2>3, <2>4 DEF q
<1>3. /\ b \in Seq(Cell) /\ Len(b) = n - p /\ \A i \in 1..n - p : b[i] = s[p + i]
  <2>1. \A i \in p + 1..n : i \in 1..n
    BY <1>1
  <2>2. \A i \in p + 1..n : s[i] \in Cell
    BY <1>1, <2>1
  <2> HIDE DEF n
  <2>3. /\ SubSeq(s, p + 1, n) \in Seq(Cell)
        /\ Len(SubSeq(s, p + 1, n)) = IF p + 1 <= n THEN n - (p + 1) + 1 ELSE 0
        /\ \A i \in 1..n - (p + 1) + 1 : SubSeq(s, p + 1, n)[i] = s[(p + 1) + i - 1]
    BY <1>1, <2>2, SubSeqProperties
  <2>4. n - (p + 1) + 1 = n - p /\ (~(p + 1 <= n) => n - p = 0)
        /\ \A i \in 1..n - p : (p + 1) + i - 1 = p + i
    BY <1>1
  <2>5. QED
    BY <2>3, <2>4
<1>4. c \in Cell /\ o \in Seq(Cell) /\ Others(o, id) = <<>>
  BY <1>1, OthersOne
<1>5. s = (a \o o) \o b
  <2>1. SubSeq(s, 1, p) = SubSeq(s, 1, p - 1) \o <<s[p]>>
    <3>1. 1 \in 1..Len(s) /\ p \in 1..Len(s)
      BY <1>1
    <3>2. QED
      BY <3>1, SubSeqRecursiveSecond
  <2>2. 1 \in 1..n + 1 /\ p \in 1 - 1..n /\ n \in p..n
    BY <1>1
  <2> HIDE DEF n
  <2>3. SubSeq(s, 1, p) \o SubSeq(s, p + 1, n) = SubSeq(s, 1, n)
    BY <2>2, ConcatAdjacentSubSeq DEF n
  <2>4. SubSeq(s, 1, n) = s
    BY SubSeqFull DEF n
  <2>5. QED
    BY <2>1, <2>3, <2>4
<1>6. RemoveAt(s, p) = a \o b
  BY DEF RemoveAt
<1> HIDE DEF n, a, b, o, c, id
<1>7. /\ a \o b \in Seq(Cell) /\ Len(a \o b) = (p - 1) + (n - p)
      /\ \A i \in 1..(p - 1) + (n - p) : (a \o b)[i] = IF i <= p - 1 THEN a[i] ELSE b[i - (p - 1)]
  <2>1. /\ a \o b \in Seq(Cell) /\ Len(a \o b) = Len(a) + Len(b)
        /\ \A i \in 1..Len(a) + Len(b) :
              (a \o b)[i] = IF i <= Len(a) THEN a[i] ELSE b[i - Len(a)]
    BY <1>2, <1>3, CellsConcat
  <2>2. QED
    BY <1>2, <1>3, <2>1
<1>8. (p - 1) + (n - p) = n - 1
  BY <1>1
<1>9. ASSUME NEW j \in 1..n - 1
      PROVE  (a \o b)[j] = IF j < p THEN s[j] ELSE s[j + 1]
  <2>1. (a \o b)[j] = IF j <= p - 1 THEN a[j] ELSE b[j - (p - 1)]
    BY <1>7, <1>8
  <2>2. CASE j < p
    <3>1. j \in 1..p - 1 /\ j <= p - 1
      BY <1>1, <2>2
    <3>2. QED
      BY <1>2, <2>1, <2>2, <3>1
  <2>3. CASE ~(j < p)
    <3>1. ~(j <= p - 1) /\ j - (p - 1) \in 1..n - p /\ p + (j - (p - 1)) = j + 1
      BY <1>1, <2>3
    <3>2. b[j - (p - 1)] = s[j + 1]
      BY <1>3, <3>1
    <3>3. QED
      BY <2>1, <2>3, <3>1, <3>2
  <2>4. QED
    BY <2>2, <2>3
<1>10. Others(a \o b, id) = Others(s, id)
  <2>1. Others(a \o b, id) = Others(a, id) \o Others(b, id)
    BY <1>2, <1>3, OthersConcat
  <2>2. Others(a \o o, id) = Others(a, id) \o <<>>
    <3>1. Others(a \o o, id) = Others(a, id) \o Others(o, id)
      <4>1. o \in Seq(Cell)
        BY <1>4
      <4> HIDE DEF o
      <4>2. QED
        BY <1>2, <4>1, OthersConcat
    <3>2. QED
      BY <1>4, <3>1
  <2> DEFINE d == a \o o
  <2>3. d \in Seq(Cell)
    BY <1>2, <1>4, ConcatProperties
  <2>4. Others(a, id) \o <<>> = Others(a, id)
    BY <1>2, OthersKind, ConcatEmptySeq
  <2> HIDE DEF d
  <2>5. Others(d \o b, id) = Others(d, id) \o Others(b, id)
    BY <1>3, <2>3, OthersConcat
  <2>6. QED
    BY <1>5, <2>1, <2>2, <2>4, <2>5 DEF d
<1>11. QED
  BY <1>6, <1>7, <1>8, <1>9, <1>10 DEF n, id

-----------------------------------------------------------------------------
\* Ids, and the places they have in the list.
LEMMA PositionFacts ==
    ASSUME CellsTypeOK, NEW id \in Ids(cells)
    PROVE  Position(id) \in 1..Len(cells) /\ cells[Position(id)].id = id
<1>1. DOMAIN cells = 1..Len(cells) /\ Len(cells) \in Nat
  BY DEF CellsTypeOK
<1>2. PICK i \in 1..Len(cells) : cells[i].id = id
  BY <1>1 DEF Ids
<1>3. \A j \in 1..(i - 1) : cells[j].id # id
  <2> SUFFICES ASSUME NEW j \in 1..(i - 1), cells[j].id = id PROVE FALSE
    OBVIOUS
  <2>1. j \in 1..Len(cells) /\ j # i
    BY <1>1
  <2>2. QED
    BY <1>1, <1>2, <2>1 DEF CellsTypeOK
<1>4. \E k \in DOMAIN cells : cells[k].id = id /\ \A j \in 1..(k - 1) : cells[j].id # id
  BY <1>1, <1>2, <1>3
<1>5. QED
  BY <1>1, <1>4 DEF Position

\* The next id is not taken.
LEMMA NextFacts ==
    ASSUME CellsTypeOK
    PROVE  /\ nextCellID(cells) \in Nat \ {0}
           /\ \A i \in 1..Len(cells) : cells[i].id # nextCellID(cells)
<1> DEFINE T == Ids(cells) \cup {0}
<1>1. DOMAIN cells = 1..Len(cells) /\ \A i \in 1..Len(cells) : cells[i] \in Cell
  BY DEF CellsTypeOK
<1>2. \A i \in 1..Len(cells) : cells[i].id \in 1..MaxCells
  BY <1>1 DEF Cell
<1>3. T \in SUBSET Nat /\ T # {} /\ \A x \in T : x <= MaxCells
  BY <1>1, <1>2, NotebookCellsAssumption DEF Ids
<1>4. MaxCells \in Nat
  BY NotebookCellsAssumption
<1>5. \A i \in 1..Len(cells) : cells[i].id \in T
  BY <1>1 DEF Ids
<1>6. nextCellID(cells) = Max(T) + 1
  BY DEF nextCellID
<1> HIDE DEF T
<1>7. Max(T) \in T /\ \A x \in T : x <= Max(T)
  BY <1>3, <1>4, MaxFacts
<1>8. Max(T) \in Nat
  BY <1>3, <1>7
<1>9. QED
  <2>1. ASSUME NEW i \in 1..Len(cells) PROVE cells[i].id # Max(T) + 1
    <3>1. cells[i].id <= Max(T) /\ cells[i].id \in Nat
      BY <1>3, <1>5, <1>7
    <3>2. QED
      BY <1>8, <3>1
  <2>2. QED
    BY <1>6, <1>8, <2>1

\* What one edit does, and that it leaves the list as it should be.
Local ==
    \/ \E id \in 1..MaxCells : Others(cells, id) = Others(cells', id)
    \/ Len(cells) = Len(cells') /\ Range(cells) = Range(cells')

LEMMA NewCellFacts ==
    ASSUME NEW n \in 1..MaxCells
    PROVE  NewCell(n) \in Cell /\ NewCell(n).id = n
  BY NotebookCellsAssumption DEF NewCell, Cell

LEMMA CellsFacts ==
    ASSUME CellsTypeOK
    PROVE  /\ cells \in Seq(Cell) /\ Len(cells) \in Nat /\ Len(cells) <= MaxCells
           /\ DOMAIN cells = 1..Len(cells)
           /\ \A i \in 1..Len(cells) : cells[i] \in Cell /\ cells[i].id \in 1..MaxCells
           /\ \A i, j \in 1..Len(cells) : cells[i].id = cells[j].id => i = j
<1>1. cells \in Seq(Cell) /\ Len(cells) <= MaxCells
      /\ \A i, j \in DOMAIN cells : cells[i].id = cells[j].id => i = j
  BY DEF CellsTypeOK
<1>2. /\ Len(cells) \in Nat /\ DOMAIN cells = 1..Len(cells)
      /\ \A i \in 1..Len(cells) : cells[i] \in Cell
  BY <1>1
<1>3. \A c \in Cell : c.id \in 1..MaxCells
  BY DEF Cell
<1>4. QED
  BY <1>1, <1>2, <1>3

\* A list as it should be is one whose cells are, with no id twice.
LEMMA CellsOKIf ==
    ASSUME cells' \in Seq(Cell), Len(cells') <= MaxCells,
           \A i, j \in 1..Len(cells') : cells'[i].id = cells'[j].id => i = j
    PROVE  CellsTypeOK'
<1>1. DOMAIN cells' = 1..Len(cells')
  OBVIOUS
<1>2. QED
  BY <1>1 DEF CellsTypeOK

LEMMA AddCellKeeps ==
    ASSUME CellsTypeOK, AddCell
    PROVE  CellsTypeOK' /\ Local
<1> DEFINE n == Len(cells)  id == nextCellID(cells)  c == NewCell(id)
<1>1. /\ cells \in Seq(Cell) /\ n \in Nat
      /\ \A i, j \in 1..n : cells[i].id = cells[j].id => i = j
  BY CellsFacts
<1>2. id \in 1..MaxCells /\ \A i \in 1..n : cells[i].id # id
  <2>1. id \in Nat \ {0} /\ \A i \in 1..n : cells[i].id # id
    BY NextFacts
  <2>2. id <= MaxCells
    BY DEF AddCell
  <2>3. QED
    BY <2>1, <2>2, NotebookCellsAssumption
<1>3. c \in Cell /\ c.id = id
  <2> HIDE DEF id
  <2>1. QED
    BY <1>2, NewCellFacts
<1>4. n < MaxCells /\ cells' = Append(cells, c)
  BY DEF AddCell
<1> HIDE DEF c, id
<1>5. /\ cells' \in Seq(Cell) /\ Len(cells') = n + 1
      /\ \A i \in 1..n : cells'[i] = cells[i]
      /\ cells'[n + 1] = c
  BY <1>1, <1>3, <1>4, AppendProperties
<1> HIDE DEF n
<1>6. \A i \in 1..n + 1 : i \in 1..n \/ i = n + 1
  BY <1>1
<1>7. ASSUME NEW i \in 1..n + 1, NEW j \in 1..n + 1, cells'[i].id = cells'[j].id
      PROVE  i = j
  BY <1>1, <1>2, <1>3, <1>5, <1>6, <1>7
<1>8. n + 1 <= MaxCells
  BY <1>1, <1>4, NotebookCellsAssumption
<1>9. CellsTypeOK'
  BY <1>5, <1>7, <1>8, CellsOKIf
<1>10. Others(cells', id) = Others(cells, id)
  <2>1. cells' = cells \o <<c>>
    <3>1. Append(cells, c) = cells \o <<c>>
      BY <1>1, <1>3
    <3>2. QED
      BY <1>4, <3>1
  <2> DEFINE o == <<c>>
  <2>2. o \in Seq(Cell) /\ Others(o, id) = <<>>
    BY <1>3, OthersOne
  <2>3. Others(cells, id) \in Seq(Cell)
    BY <1>1, OthersKind
  <2> HIDE DEF o
  <2>4. Others(cells \o o, id) = Others(cells, id) \o Others(o, id)
    BY <1>1, <2>2, OthersConcat
  <2>5. Others(cells, id) \o <<>> = Others(cells, id)
    BY <2>3, ConcatEmptySeq
  <2>6. QED
    BY <2>1, <2>2, <2>4, <2>5 DEF o
<1>11. Local
  BY <1>2, <1>10 DEF Local
<1>12. QED
  BY <1>9, <1>11

LEMMA InsertKeeps ==
    ASSUME CellsTypeOK, NEW at \in 1..MaxCells, insertCellAfter(at)
    PROVE  CellsTypeOK' /\ Local
<1> DEFINE n == Len(cells)  id == nextCellID(cells)  c == NewCell(id)  p == Position(at)
<1>1. /\ cells \in Seq(Cell) /\ n \in Nat
      /\ \A i, j \in 1..n : cells[i].id = cells[j].id => i = j
  BY CellsFacts
<1>2. id \in 1..MaxCells /\ \A i \in 1..n : cells[i].id # id
  <2>1. id \in Nat \ {0} /\ \A i \in 1..n : cells[i].id # id
    BY NextFacts
  <2>2. id <= MaxCells
    BY DEF insertCellAfter
  <2>3. QED
    BY <2>1, <2>2, NotebookCellsAssumption
<1>3. c \in Cell /\ c.id = id
  <2> HIDE DEF id
  <2>1. QED
    BY <1>2, NewCellFacts
<1>4. p \in 1..n
  <2>1. at \in Ids(cells)
    BY DEF insertCellAfter
  <2>2. QED
    BY <2>1, PositionFacts
<1>5. n < MaxCells /\ cells' = InsertAt(cells, p + 1, c)
  BY DEF insertCellAfter
<1> HIDE DEF c, id, p
<1>6. /\ cells' \in Seq(Cell) /\ Len(cells') = n + 1
      /\ \A j \in 1..n + 1 : cells'[j] = IF j <= p THEN cells[j]
                                         ELSE IF j = p + 1 THEN c ELSE cells[j - 1]
      /\ Others(cells', id) = Others(cells, id)
  <2> DEFINE t == InsertAt(cells, p + 1, c)
  <2>1. cells \in Seq(Cell) /\ p \in 1..Len(cells) /\ c \in Cell
    BY <1>1, <1>3, <1>4
  <2>2. /\ t \in Seq(Cell) /\ Len(t) = Len(cells) + 1
        /\ \A j \in 1..Len(cells) + 1 :
              t[j] = IF j <= p THEN cells[j] ELSE IF j = p + 1 THEN c ELSE cells[j - 1]
        /\ Others(t, c.id) = Others(cells, c.id)
    BY <2>1, InsertFacts
  <2> HIDE DEF t
  <2>3. cells' = t
    BY <1>5 DEF t
  <2>4. QED
    BY <1>3, <2>2, <2>3
<1> HIDE DEF n
<1>7. ASSUME NEW i \in 1..n + 1, NEW j \in 1..n + 1, cells'[i].id = cells'[j].id
      PROVE  i = j
  <2> DEFINE From(k) == IF k <= p THEN k ELSE k - 1
  <2>1. \A k \in 1..n + 1 : k # p + 1 => From(k) \in 1..n /\ cells'[k] = cells[From(k)]
    BY <1>1, <1>4, <1>6
  <2>2. cells'[p + 1] = c
    <3>1. p + 1 \in 1..n + 1 /\ ~(p + 1 <= p)
      BY <1>1, <1>4
    <3>2. QED
      BY <1>6, <3>1
  <2>3. \A k \in 1..n + 1 : k # p + 1 => cells'[k].id # id
    BY <1>2, <2>1
  <2>4. i = p + 1 <=> j = p + 1
    BY <1>3, <1>7, <2>2, <2>3
  <2>5. CASE i # p + 1
    <3>1. From(i) = From(j)
      <4> HIDE DEF From
      <4>1. QED
        BY <1>1, <1>7, <2>1, <2>4, <2>5
    <3>2. QED
      BY <1>1, <1>4, <2>4, <2>5, <3>1
  <2>6. QED
    BY <2>4, <2>5
<1>8. n + 1 <= MaxCells
  BY <1>1, <1>5, NotebookCellsAssumption
<1>9. CellsTypeOK'
  BY <1>6, <1>7, <1>8, CellsOKIf
<1>10. Local
  BY <1>2, <1>6 DEF Local
<1>11. QED
  BY <1>9, <1>10

LEMMA DeleteKeeps ==
    ASSUME CellsTypeOK, NEW id \in 1..MaxCells, deleteCell(id)
    PROVE  CellsTypeOK' /\ Local
<1> DEFINE n == Len(cells)  p == Position(id)
<1>1. /\ cells \in Seq(Cell) /\ n \in Nat /\ n <= MaxCells
      /\ \A i, j \in 1..n : cells[i].id = cells[j].id => i = j
  BY CellsFacts
<1>2. p \in 1..n /\ cells[p].id = id /\ cells' = RemoveAt(cells, p)
  <2>1. id \in Ids(cells) /\ cells' = RemoveAt(cells, p)
    BY DEF deleteCell
  <2>2. QED
    BY <2>1, PositionFacts
<1> HIDE DEF p
<1>3. /\ cells' \in Seq(Cell) /\ Len(cells') = n - 1
      /\ \A j \in 1..n - 1 : cells'[j] = IF j < p THEN cells[j] ELSE cells[j + 1]
      /\ Others(cells', id) = Others(cells, id)
  BY <1>1, <1>2, RemoveFacts
<1> HIDE DEF n
<1>4. ASSUME NEW i \in 1..n - 1, NEW j \in 1..n - 1, cells'[i].id = cells'[j].id
      PROVE  i = j
  <2> DEFINE From(k) == IF k < p THEN k ELSE k + 1
  <2>1. \A k \in 1..n - 1 : From(k) \in 1..n /\ cells'[k] = cells[From(k)]
    BY <1>1, <1>2, <1>3
  <2>2. From(i) = From(j)
    <3> HIDE DEF From
    <3>1. QED
      BY <1>1, <1>4, <2>1
  <2>3. QED
    BY <1>1, <1>2, <2>2
<1>5. n - 1 <= MaxCells
  BY <1>1, NotebookCellsAssumption
<1>6. CellsTypeOK'
  BY <1>3, <1>4, <1>5, CellsOKIf
<1>7. Local
  BY <1>3 DEF Local
<1>8. QED
  BY <1>6, <1>7

\* A list of as many known ids as there are cells, none twice, names every cell.
LEMMA ReorderKeeps ==
    ASSUME CellsTypeOK, NEW ids \in [1..Len(cells) -> 1..MaxCells], applyReorder(ids)
    PROVE  CellsTypeOK' /\ Local
<1> DEFINE n == Len(cells)  to == [i \in 1..n |-> Position(ids[i])]
<1>1. /\ cells \in Seq(Cell) /\ n \in Nat /\ n <= MaxCells /\ DOMAIN cells = 1..n
      /\ \A i \in 1..n : cells[i] \in Cell
      /\ \A i, j \in 1..n : cells[i].id = cells[j].id => i = j
  BY CellsFacts
<1>2. DOMAIN ids = 1..n /\ \A i \in 1..n : ids[i] \in Ids(cells)
  <2>1. Range(ids) \subseteq Ids(cells)
    BY DEF applyReorder
  <2>2. QED
    BY <2>1 DEF Range
<1>3. \A i, j \in 1..n : ids[i] = ids[j] => i = j
  BY <1>2 DEF applyReorder, IsInjective
<1>4. \A i \in 1..n : Position(ids[i]) \in 1..n /\ cells[Position(ids[i])].id = ids[i]
  BY <1>2, PositionFacts
<1>5. to \in [1..n -> 1..n] /\ \A i \in 1..n : cells[to[i]].id = ids[i]
  BY <1>4
<1>6. cells' = [i \in 1..n |-> cells[to[i]]]
  BY <1>2 DEF applyReorder
<1> HIDE DEF to, n
<1>7. \A i, j \in 1..n : to[i] = to[j] => i = j
  BY <1>3, <1>5
<1>8. to \in Surjection(1..n, 1..n)
  <2>1. to \in Injection(1..n, 1..n)
    BY <1>5, <1>7 DEF Injection, IsInjective
  <2>2. IsFiniteSet(1..n)
    BY <1>1, FS_Interval
  <2>3. QED
    BY <2>1, <2>2, FS_Injection
<1>9. /\ cells' \in Seq(Cell) /\ Len(cells') = n /\ DOMAIN cells' = 1..n
      /\ \A i \in 1..n : cells'[i] = cells[to[i]]
  <2>1. cells' \in [1..n -> Cell]
    BY <1>1, <1>5, <1>6
  <2>2. cells' \in Seq(Cell) /\ Len(cells') = n
    BY <1>1, <2>1
  <2>3. QED
    BY <1>6, <2>2
<1>10. CellsTypeOK'
  <2>1. \A i, j \in 1..n : cells'[i].id = cells'[j].id => i = j
    BY <1>3, <1>5, <1>9
  <2>2. QED
    BY <1>1, <1>9, <2>1, CellsOKIf
<1>11. Range(cells') = Range(cells)
  <2>1. ASSUME NEW c \in Range(cells) PROVE c \in Range(cells')
    <3>1. PICK k \in 1..n : c = cells[k]
      BY <1>1, <2>1 DEF Range
    <3>2. PICK i \in 1..n : to[i] = k
      BY <1>8, <3>1 DEF Surjection
    <3>3. cells'[i] = c
      BY <1>9, <3>1, <3>2
    <3>4. QED
      BY <1>9, <3>2, <3>3 DEF Range
  <2>2. ASSUME NEW c \in Range(cells') PROVE c \in Range(cells)
    <3>1. PICK i \in 1..n : c = cells'[i]
      BY <1>9, <2>2 DEF Range
    <3>2. c = cells[to[i]] /\ to[i] \in 1..n
      BY <1>5, <1>9, <3>1
    <3>3. QED
      BY <1>1, <3>2 DEF Range
  <2>3. QED
    BY <2>1, <2>2
<1>12. Local
  BY <1>9, <1>11 DEF Local, n
<1>13. QED
  BY <1>10, <1>12

\* The new cell is where the old one was, with its id.
LEMMA UpdateKeeps ==
    ASSUME CellsTypeOK, NEW id \in 1..MaxCells, NEW name \in Names \cup {Unnamed},
           NEW deps \in DepLists, applySourceUpdate(id, name, deps)
    PROVE  CellsTypeOK' /\ Local
<1> DEFINE n == Len(cells)  p == Position(id)
           c == [id |-> id, name |-> name, deps |-> deps]
<1>1. /\ cells \in Seq(Cell) /\ n \in Nat /\ n <= MaxCells /\ DOMAIN cells = 1..n
      /\ \A i \in 1..n : cells[i] \in Cell
      /\ \A i, j \in 1..n : cells[i].id = cells[j].id => i = j
  BY CellsFacts
<1>2. p \in 1..n /\ cells[p].id = id
  <2>1. id \in Ids(cells)
    BY DEF applySourceUpdate
  <2>2. QED
    BY <2>1, PositionFacts
<1>3. cells' = [cells EXCEPT ![p].name = name, ![p].deps = deps]
  BY DEF applySourceUpdate
<1> HIDE DEF n, p
<1>4. c \in Cell /\ c.id = id
  BY DEF Cell
<1>5. cells' = [cells EXCEPT ![p] = c]
  <2>1. cells[p] \in Cell
    BY <1>1, <1>2
  <2>2. [[cells[p] EXCEPT !.name = name] EXCEPT !.deps = deps] = c
    <3>1. PICK x \in Names \cup {Unnamed}, y \in DepLists :
             cells[p] = [id |-> id, name |-> x, deps |-> y]
      <4>1. \A k \in Cell : /\ k.name \in Names \cup {Unnamed} /\ k.deps \in DepLists
                            /\ k = [id |-> k.id, name |-> k.name, deps |-> k.deps]
        BY DEF Cell
      <4>2. QED
        BY <1>2, <2>1, <4>1
    <3>2. [[id |-> id, name |-> x, deps |-> y] EXCEPT !.name = name]
            = [id |-> id, name |-> name, deps |-> y]
      OBVIOUS
    <3>3. [[id |-> id, name |-> name, deps |-> y] EXCEPT !.deps = deps] = c
      OBVIOUS
    <3>4. QED
      BY <3>1, <3>2, <3>3
  <2>3. p \in DOMAIN cells
    BY <1>1, <1>2
  <2>4. QED
    BY <1>3, <2>2, <2>3
<1> HIDE DEF c
<1>6. /\ cells' \in Seq(Cell) /\ Len(cells') = n
      /\ \A i \in 1..n : cells'[i] = IF i = p THEN c ELSE cells[i]
  <2>1. cells' \in Seq(Cell) /\ Len(cells') = n
    BY <1>1, <1>2, <1>4, <1>5 DEF n
  <2>2. QED
    BY <1>1, <1>2, <1>5, <2>1
<1>7. CellsTypeOK'
  <2>1. \A i \in 1..n : cells'[i].id = cells[i].id
    BY <1>2, <1>4, <1>6
  <2>2. \A i, j \in 1..n : cells'[i].id = cells'[j].id => i = j
    BY <1>1, <2>1
  <2>3. QED
    BY <1>1, <1>6, <2>2, CellsOKIf
<1>8. Others(cells', id) = Others(cells, id)
  <2>1. PICK f : Others(cells, id) = f[n] /\ Through(f, cells, id)
    BY <1>1, OthersIs DEF n
  <2>2. PICK g : Others(cells', id) = g[n] /\ Through(g, cells', id)
    <3>1. PICK g : Others(cells', id) = g[Len(cells')] /\ Through(g, cells', id)
      BY <1>6, OthersIs
    <3>2. QED
      BY <1>6, <3>1
  <2> DEFINE T == {i \in Nat : i <= n => f[i] = g[i]}
  <2>3. 0 \in T
    BY <2>1, <2>2 DEF Through
  <2>4. ASSUME NEW i \in Nat, i \in T PROVE i + 1 \in T
    <3> SUFFICES ASSUME i + 1 <= n PROVE f[i + 1] = g[i + 1]
      OBVIOUS
    <3>1. i + 1 \in 1..n /\ (i + 1) - 1 = i /\ f[i] = g[i]
      BY <1>1, <2>4
    <3>2. f[i + 1] = IF cells[i + 1].id = id THEN f[i] ELSE Append(f[i], cells[i + 1])
      BY <2>1, <3>1 DEF Through, n
    <3>3. g[i + 1] = IF cells'[i + 1].id = id THEN g[i] ELSE Append(g[i], cells'[i + 1])
      BY <1>6, <2>2, <3>1 DEF Through
    <3>4. \/ cells[i + 1].id = id /\ cells'[i + 1].id = id
          \/ cells[i + 1] = cells'[i + 1]
      BY <1>2, <1>4, <1>6, <3>1
    <3>5. QED
      BY <3>1, <3>2, <3>3, <3>4
  <2> HIDE DEF T
  <2>5. Nat \subseteq T
    BY <2>3, <2>4, NatInd
  <2>6. QED
    BY <1>1, <2>1, <2>2, <2>5 DEF T
<1>9. Local
  BY <1>8 DEF Local
<1>10. QED
  BY <1>7, <1>9

LEMMA CellsInductive ==
    ASSUME CellsTypeOK, CellsNext
    PROVE  CellsTypeOK' /\ Local
<1>1. CASE AddCell
  BY <1>1, AddCellKeeps
<1>2. CASE \E id \in 1..MaxCells : insertCellAfter(id) \/ deleteCell(id)
  BY <1>2, InsertKeeps, DeleteKeeps
<1>3. CASE \E ids \in [1..Len(cells) -> 1..MaxCells] : applyReorder(ids)
  BY <1>3, ReorderKeeps
<1>4. CASE \E id \in 1..MaxCells, name \in Names \cup {Unnamed}, deps \in DepLists :
             applySourceUpdate(id, name, deps)
  BY <1>4, UpdateKeeps
<1>5. QED
  BY <1>1, <1>2, <1>3, <1>4 DEF CellsNext

-----------------------------------------------------------------------------
\* The list holds cells, no more than it may, and no id twice, whatever is added,
\* inserted, deleted, reordered or changed before: an id that comes back after a
\* deletion is nobody else's.
THEOREM CellsTypeCorrect == CellsSpec => []CellsTypeOK
<1>1. CellsInit => CellsTypeOK
  <2> SUFFICES ASSUME CellsInit PROVE CellsTypeOK
    OBVIOUS
  <2>1. 1 \in 1..MaxCells /\ 1 <= MaxCells
    BY NotebookCellsAssumption
  <2> DEFINE c == NewCell(1)
  <2>2. c \in Cell
    BY <2>1, NewCellFacts
  <2>3. cells = <<c>>
    BY DEF CellsInit
  <2> HIDE DEF c
  <2>4. cells \in Seq(Cell) /\ Len(cells) = 1 /\ DOMAIN cells = 1..1
    BY <2>2, <2>3
  <2>5. \A i, j \in 1..1 : i = j
    OBVIOUS
  <2>6. QED
    BY <2>1, <2>4, <2>5 DEF CellsTypeOK
<1>2. CellsTypeOK /\ [CellsNext]_cells => CellsTypeOK'
  <2>1. CASE UNCHANGED cells
    BY <2>1 DEF CellsTypeOK
  <2>2. QED
    BY <2>1, CellsInductive
<1>3. QED
  BY <1>1, <1>2, PTL DEF CellsSpec

\* An edit adds, removes or changes one cell and leaves the others as they are and
\* in their order, or it orders all anew and changes none.
THEOREM EditsAreLocalCorrect == CellsSpec => EditsAreLocal
<1>1. CellsTypeOK /\ [CellsNext]_cells => [Local]_cells
  BY CellsInductive
<1>2. CellsSpec => [][Local]_cells
  BY <1>1, CellsTypeCorrect, PTL DEF CellsSpec
<1>3. QED
  BY <1>2 DEF EditsAreLocal, Local

-----------------------------------------------------------------------------
\* Cycles and what is downstream of a name (NotebookDeps).
-----------------------------------------------------------------------------
\* A loop of m rounds, each a step F of what it works on: as a recursive function
\* of the number of rounds it exists, and stays in the set F does.
IsLoop(f, m, x0, F) == f[0] = x0 /\ \A i \in 1..m : f[i] = F[<<i, f[i - 1]>>]

LEMMA LoopExists ==
    ASSUME NEW S, NEW x0 \in S, NEW m \in Nat, NEW F \in [(1..m) \X S -> S]
    PROVE  \E f \in [0..m -> S] : IsLoop(f, m, x0, F)
<1> DEFINE T == {n \in Nat : n <= m => \E f \in [0..n -> S] : IsLoop(f, n, x0, F)}
<1>1. 0 \in T
  <2> DEFINE f == [i \in 0..0 |-> x0]
  <2>1. f \in [0..0 -> S] /\ IsLoop(f, 0, x0, F)
    BY DEF IsLoop
  <2>2. QED
    BY <2>1
<1>2. ASSUME NEW n \in Nat, n \in T PROVE n + 1 \in T
  <2> SUFFICES ASSUME n + 1 <= m PROVE \E f \in [0..n + 1 -> S] : IsLoop(f, n + 1, x0, F)
    OBVIOUS
  <2>1. PICK f \in [0..n -> S] : IsLoop(f, n, x0, F)
    BY <1>2
  <2> DEFINE x == F[<<n + 1, f[n]>>]
             g == [i \in 0..n + 1 |-> IF i <= n THEN f[i] ELSE x]
  <2>2. x \in S
    <3>1. n + 1 \in 1..m /\ f[n] \in S
      BY <2>1
    <3>2. QED
      BY <3>1
  <2>3. /\ \A i \in 0..n : i \in 0..n + 1 /\ i <= n
        /\ n + 1 \in 0..n + 1 /\ ~(n + 1 <= n)
        /\ \A i \in 0..n + 1 : i <= n => i \in 0..n
    OBVIOUS
  <2> HIDE DEF x
  <2>4. /\ g \in [0..n + 1 -> S]
        /\ \A i \in 0..n : g[i] = f[i]
        /\ g[n + 1] = x
    BY <2>1, <2>2, <2>3
  <2> HIDE DEF g
  <2>5. g[0] = x0
    BY <2>1, <2>4 DEF IsLoop
  <2>6. ASSUME NEW i \in 1..n + 1 PROVE g[i] = F[<<i, g[i - 1]>>]
    <3>1. CASE i = n + 1
      <4>1. i - 1 = n /\ n \in 0..n
        BY <3>1
      <4>2. QED
        BY <2>4, <3>1, <4>1 DEF x
    <3>2. CASE i # n + 1
      <4>1. i \in 1..n /\ i \in 0..n /\ i - 1 \in 0..n
        BY <3>2
      <4>2. QED
        BY <2>1, <2>4, <4>1 DEF IsLoop
    <3>3. QED
      BY <3>1, <3>2
  <2>7. QED
    BY <2>4, <2>5, <2>6 DEF IsLoop
<1> HIDE DEF T
<1>3. Nat \subseteq T
  BY <1>1, <1>2, NatInd
<1>4. QED
  BY <1>3 DEF T

IsLoopIn(S, f, m, x0, F) ==
    f[0] = x0 /\ \A i \in 1..m : f[i - 1] \in S => f[i] = F[<<i, f[i - 1]>>]

LEMMA LoopTypes ==
    ASSUME NEW S, NEW x0 \in S, NEW m \in Nat, NEW F \in [(1..m) \X S -> S], NEW f,
           IsLoopIn(S, f, m, x0, F)
    PROVE  \A i \in 0..m : f[i] \in S
<1> DEFINE T == {n \in Nat : n <= m => f[n] \in S}
<1>1. 0 \in T
  BY DEF IsLoopIn
<1>2. ASSUME NEW n \in Nat, n \in T PROVE n + 1 \in T
  <2> SUFFICES ASSUME n + 1 <= m PROVE f[n + 1] \in S
    OBVIOUS
  <2>1. n + 1 \in 1..m /\ (n + 1) - 1 = n /\ f[n] \in S
    BY <1>2
  <2>2. f[n + 1] = F[<<n + 1, f[n]>>]
    BY <2>1 DEF IsLoopIn
  <2>3. QED
    BY <2>1, <2>2
<1> HIDE DEF T
<1>3. Nat \subseteq T
  BY <1>1, <1>2, NatInd
<1>4. QED
  BY <1>3 DEF T

-----------------------------------------------------------------------------
\* What is downstream of a name.
Acc == [seen : SUBSET (Names \cup {Unnamed}), out : SUBSET (1..MaxCells)]

LEMMA CellKind ==
    ASSUME CellsTypeOK, NEW i \in 1..Len(cells)
    PROVE  /\ cells[i].id \in 1..MaxCells /\ cells[i].name \in Names \cup {Unnamed}
           /\ cells[i].deps \in Seq(Names)
<1>1. cells[i] \in Cell
  BY CellsFacts
<1>2. DepLists \subseteq Seq(Names)
  BY NotebookCellsAssumption
<1>3. QED
  BY <1>1, <1>2 DEF Cell

LEMMA MarkTypes ==
    ASSUME CellsTypeOK, NEW acc \in Acc, NEW i \in 1..Len(cells)
    PROVE  Mark(acc, cells[i]) \in Acc
<1> DEFINE c == cells[i]
<1>1. c.id \in 1..MaxCells /\ c.name \in Names \cup {Unnamed}
  BY CellKind
<1> HIDE DEF c
<1>2. [seen |-> acc.seen \cup {c.name}, out |-> acc.out \cup {c.id}] \in Acc
  BY <1>1 DEF Acc
<1>3. Mark(acc, c) \in Acc
  BY <1>2 DEF Mark
<1>4. QED
  BY <1>3 DEF c

\* The rounds of a sweep.
IsSweep(f, acc) ==
    /\ f \in [0..Len(cells) -> Acc] /\ f[0] = acc
    /\ \A i \in 1..Len(cells) : f[i] = Mark(f[i - 1], cells[i])

LEMMA SweepIs ==
    ASSUME CellsTypeOK, NEW acc \in Acc
    PROVE  \E f : Sweep(acc) = f[Len(cells)] /\ IsSweep(f, acc)
<1> DEFINE m == Len(cells)
           F == [p \in (1..m) \X Acc |-> Mark(p[2], cells[p[1]])]
           Eq(f) == f = [i \in 0..m |-> IF i = 0 THEN acc ELSE Mark(f[i - 1], cells[i])]
           r == CHOOSE f : Eq(f)
<1>1. m \in Nat
  BY CellsFacts
<1>2. F \in [(1..m) \X Acc -> Acc]
  BY MarkTypes
<1>3. \A i \in 1..m, x \in Acc : F[<<i, x>>] = Mark(x, cells[i])
  OBVIOUS
<1> HIDE DEF F
<1>4. \E f : Eq(f)
  <2>1. PICK f \in [0..m -> Acc] : IsLoop(f, m, acc, F)
    <3> HIDE DEF m
    <3>1. QED
      BY <1>1, <1>2, LoopExists
  <2>2. f = [i \in 0..m |-> f[i]]
    OBVIOUS
  <2>3. ASSUME NEW i \in 0..m PROVE f[i] = IF i = 0 THEN acc ELSE Mark(f[i - 1], cells[i])
    <3>1. CASE i = 0
      BY <2>1, <3>1 DEF IsLoop
    <3>2. CASE i # 0
      <4>1. i \in 1..m /\ i - 1 \in 0..m
        BY <1>1, <3>2
      <4>2. QED
        BY <1>3, <2>1, <3>2, <4>1 DEF IsLoop
    <3>3. QED
      BY <3>1, <3>2
  <2>4. Eq(f)
    BY <2>2, <2>3
  <2>5. QED
    BY <2>4
<1>5. Eq(r)
  BY <1>4
<1>6. Sweep(acc) = r[m]
  BY DEF Sweep
<1> HIDE DEF r
<1>7. r[0] = acc /\ \A i \in 1..m : r[i] = Mark(r[i - 1], cells[i])
  <2>1. 0 \in 0..m /\ \A i \in 1..m : i \in 0..m /\ i # 0
    BY <1>1
  <2>2. QED
    BY <1>5, <2>1
<1>8. \A i \in 0..m : r[i] \in Acc
  <2>1. \A i \in 1..m : r[i - 1] \in Acc => r[i] = F[<<i, r[i - 1]>>]
    BY <1>3, <1>7
  <2> HIDE DEF m
  <2>2. IsLoopIn(Acc, r, m, acc, F)
    BY <1>7, <2>1 DEF IsLoopIn
  <2>3. QED
    BY <1>1, <1>2, <2>2, LoopTypes
<1>9. r \in [0..m -> Acc]
  <2>1. r = [i \in 0..m |-> r[i]]
    BY <1>5
  <2>2. QED
    BY <1>8, <2>1
<1>10. QED
  BY <1>6, <1>7, <1>9 DEF IsSweep

\* A sweep forgets no name, and when it changes anything it is by a new name.
LEMMA SweepGrows ==
    ASSUME CellsTypeOK, NEW acc \in Acc, NEW f, IsSweep(f, acc)
    PROVE  \A i \in 0..Len(cells) : /\ acc.seen \subseteq f[i].seen
                                    /\ f[i].seen = acc.seen => f[i] = acc
<1> DEFINE After(i) == acc.seen \subseteq f[i].seen /\ (f[i].seen = acc.seen => f[i] = acc)
           T == {i \in Nat : i <= Len(cells) => After(i)}
<1>1. 0 \in T
  BY DEF IsSweep
<1>2. ASSUME NEW i \in Nat, i \in T PROVE i + 1 \in T
  <2> SUFFICES ASSUME i + 1 <= Len(cells) PROVE After(i + 1)
    OBVIOUS
  <2>0. Len(cells) \in Nat
    BY CellsFacts
  <2>1. i + 1 \in 1..Len(cells) /\ (i + 1) - 1 = i /\ After(i)
    BY <1>2, <2>0
  <2>2. f[i + 1] = Mark(f[i], cells[i + 1])
    BY <2>1 DEF IsSweep
  <2>3. \/ f[i + 1] = f[i]
        \/ /\ cells[i + 1].name \notin f[i].seen
           /\ f[i + 1].seen = f[i].seen \cup {cells[i + 1].name}
    BY <2>2 DEF Mark
  <2>4. QED
    BY <2>1, <2>3
<1> HIDE DEF T
<1>3. Nat \subseteq T
  BY <1>1, <1>2, NatInd
<1>4. QED
  BY <1>3 DEF T

\* A sweep that changes nothing marks no cell.
LEMMA SweepStill ==
    ASSUME CellsTypeOK, NEW acc \in Acc, Sweep(acc) = acc, NEW j \in 1..Len(cells)
    PROVE  Mark(acc, cells[j]) = acc
<1>0. Len(cells) \in Nat
  BY CellsFacts
<1>1. PICK f : Sweep(acc) = f[Len(cells)] /\ IsSweep(f, acc)
  BY SweepIs
<1> DEFINE Still(i) == f[i] = acc
           T == {k \in Nat : k <= Len(cells) => f[Len(cells) - k].seen = acc.seen}
<1>2. 0 \in T
  BY <1>0, <1>1
<1>3. ASSUME NEW k \in Nat, k \in T PROVE k + 1 \in T
  <2> SUFFICES ASSUME k + 1 <= Len(cells) PROVE f[Len(cells) - (k + 1)].seen = acc.seen
    OBVIOUS
  <2> DEFINE i == Len(cells) - k
  <2>1. i \in 1..Len(cells) /\ i - 1 = Len(cells) - (k + 1) /\ i - 1 \in 0..Len(cells)
    BY <1>0
  <2>2. f[i].seen = acc.seen
    BY <1>0, <1>3
  <2> HIDE DEF i
  <2>3. f[i] = Mark(f[i - 1], cells[i])
    BY <1>1, <2>1 DEF IsSweep
  <2>4. f[i - 1].seen \subseteq f[i].seen
    BY <2>3 DEF Mark
  <2>5. acc.seen \subseteq f[i - 1].seen
    BY <1>1, <2>1, SweepGrows
  <2>6. f[i - 1].seen = acc.seen
    BY <2>2, <2>4, <2>5
  <2>7. QED
    BY <2>1, <2>6
<1> HIDE DEF T
<1>4. Nat \subseteq T
  BY <1>2, <1>3, NatInd
<1>5. \A i \in 0..Len(cells) : f[i].seen = acc.seen
  <2> TAKE i \in 0..Len(cells)
  <2>1. Len(cells) - i \in Nat /\ Len(cells) - i <= Len(cells) /\ Len(cells) - (Len(cells) - i) = i
    BY <1>0
  <2>2. Len(cells) - i \in T
    BY <1>4, <2>1
  <2>3. QED
    BY <2>1, <2>2 DEF T
<1>6. \A i \in 0..Len(cells) : f[i] = acc
  BY <1>1, <1>5, SweepGrows
<1>7. j \in 0..Len(cells) /\ j - 1 \in 0..Len(cells)
  BY <1>0
<1>8. f[j] = Mark(f[j - 1], cells[j])
  BY <1>1 DEF IsSweep
<1>9. QED
  BY <1>6, <1>7, <1>8
-----------------------------------------------------------------------------
\* The cells an account of the marks has chosen, and what is right about it: it
\* knows the name and those of the cells it has, one of each, all of them on it.
Chosen(acc) == {i \in DOMAIN cells : cells[i].id \in acc.out}

Right(n, acc) ==
    /\ n \in acc.seen /\ acc.out \subseteq Ids(cells)
    /\ \A x \in acc.seen : x # n => \E i \in Chosen(acc) : cells[i].name = x
    /\ \A i \in Chosen(acc) : cells[i].name \in acc.seen /\ cells[i].name # n
    /\ \A i, j \in Chosen(acc) : cells[i].name = cells[j].name => i = j
    /\ \A i \in Chosen(acc) : Range(cells[i].deps) \cap acc.seen # {}
    /\ \A S : IsDependent(n, S) => acc.seen \subseteq S \cup {n}

LEMMA MarkRight ==
    ASSUME CellsTypeOK, NEW n, NEW acc \in Acc, Right(n, acc), NEW k \in 1..Len(cells)
    PROVE  Right(n, Mark(acc, cells[k]))
<1> DEFINE c == cells[k]
           new == [seen |-> acc.seen \cup {c.name}, out |-> acc.out \cup {c.id}]
<1>0. /\ DOMAIN cells = 1..Len(cells)
      /\ \A i, j \in 1..Len(cells) : cells[i].id = cells[j].id => i = j
  BY CellsFacts
<1>1. CASE ~(c.name \notin acc.seen /\ Range(c.deps) \cap acc.seen # {})
  BY <1>1 DEF Mark
<1>2. CASE c.name \notin acc.seen /\ Range(c.deps) \cap acc.seen # {}
  <2>1. Mark(acc, cells[k]) = new
    BY <1>2 DEF Mark
  <2>2. Chosen(new) = Chosen(acc) \cup {k}
    BY <1>0 DEF Chosen
  <2>3. new.seen = acc.seen \cup {c.name} /\ new.out = acc.out \cup {c.id}
    OBVIOUS
  <2> HIDE DEF new
  <2>4. n \in new.seen /\ new.out \subseteq Ids(cells)
    BY <1>0, <2>3 DEF Right, Ids
  <2>5. \A x \in new.seen : x # n => \E i \in Chosen(new) : cells[i].name = x
    BY <2>2, <2>3 DEF Right
  <2>6. \A i \in Chosen(new) : cells[i].name \in new.seen /\ cells[i].name # n
    BY <1>2, <2>2, <2>3 DEF Right
  <2>7. \A i, j \in Chosen(new) : cells[i].name = cells[j].name => i = j
    BY <1>2, <2>2 DEF Right
  <2>8. \A i \in Chosen(new) : Range(cells[i].deps) \cap new.seen # {}
    <3>1. \A i \in Chosen(new) : Range(cells[i].deps) \cap acc.seen # {}
      BY <1>2, <2>2 DEF Right
    <3>2. QED
      BY <2>3, <3>1
  <2>9. ASSUME NEW S, IsDependent(n, S) PROVE new.seen \subseteq S \cup {n}
    <3>1. acc.seen \subseteq S \cup {n}
      BY <2>9 DEF Right
    <3>2. Range(cells[k].deps) \cap (S \cup {n}) # {}
      BY <1>2, <3>1
    <3>3. cells[k].name \in S \cup {n}
      BY <1>0, <2>9, <3>2 DEF IsDependent
    <3>4. QED
      BY <2>3, <3>1, <3>3
  <2>10. QED
    BY <2>1, <2>4, <2>5, <2>6, <2>7, <2>8, <2>9 DEF Right
<1>3. QED
  BY <1>1, <1>2

LEMMA SweepRight ==
    ASSUME CellsTypeOK, NEW n, NEW acc \in Acc, Right(n, acc)
    PROVE  Sweep(acc) \in Acc /\ Right(n, Sweep(acc))
<1>0. Len(cells) \in Nat
  BY CellsFacts
<1>1. PICK f : Sweep(acc) = f[Len(cells)] /\ IsSweep(f, acc)
  BY SweepIs
<1> DEFINE T == {i \in Nat : i <= Len(cells) => Right(n, f[i])}
<1>2. 0 \in T
  BY <1>1 DEF IsSweep
<1>3. ASSUME NEW i \in Nat, i \in T PROVE i + 1 \in T
  <2> SUFFICES ASSUME i + 1 <= Len(cells) PROVE Right(n, f[i + 1])
    OBVIOUS
  <2>1. i + 1 \in 1..Len(cells) /\ (i + 1) - 1 = i /\ i \in 0..Len(cells) /\ Right(n, f[i])
    BY <1>0, <1>3
  <2>2. f[i + 1] = Mark(f[i], cells[i + 1]) /\ f[i] \in Acc
    BY <1>1, <2>1 DEF IsSweep
  <2>3. QED
    BY <2>1, <2>2, MarkRight
<1> HIDE DEF T
<1>4. Nat \subseteq T
  BY <1>2, <1>3, NatInd
<1>5. Len(cells) \in T /\ Len(cells) \in 0..Len(cells)
  BY <1>0, <1>4
<1>6. Right(n, Sweep(acc))
  BY <1>0, <1>1, <1>5 DEF T
<1>7. QED
  BY <1>1, <1>5, <1>6 DEF IsSweep
-----------------------------------------------------------------------------
\* What can be marked: the name and those of the cells, no more than one more.
NamesFrom(n) == {cells[i].name : i \in 1..Len(cells)} \cup {n}

LEMMA NamesBound ==
    ASSUME CellsTypeOK, NEW n
    PROVE  IsFiniteSet(NamesFrom(n)) /\ Cardinality(NamesFrom(n)) <= Len(cells) + 1
<1> DEFINE S == {cells[i].name : i \in 1..Len(cells)}
           f == [i \in 1..Len(cells) |-> cells[i].name]
<1>0. Len(cells) \in Nat
  BY CellsFacts
<1>1. f \in Surjection(1..Len(cells), S)
  BY DEF Surjection
<1>2. IsFiniteSet(1..Len(cells)) /\ Cardinality(1..Len(cells)) = Len(cells)
  <2> DEFINE m == Len(cells)
  <2> HIDE DEF m
  <2>1. m \in Nat
    BY <1>0 DEF m
  <2>2. IsFiniteSet(1..m) /\ Cardinality(1..m) = IF 1 > m THEN 0 ELSE m - 1 + 1
    BY <2>1, FS_Interval
  <2>3. QED
    BY <2>1, <2>2 DEF m
<1> HIDE DEF S, f
<1>3. IsFiniteSet(S) /\ Cardinality(S) <= Len(cells)
  BY <1>1, <1>2, FS_Surjection
<1>4. Cardinality(S) \in Nat
  BY <1>3, FS_CardinalityType
<1>5. /\ IsFiniteSet(S \cup {n})
      /\ Cardinality(S \cup {n}) = IF n \in S THEN Cardinality(S) ELSE Cardinality(S) + 1
  BY <1>3, FS_AddElement
<1>6. NamesFrom(n) = S \cup {n}
  BY DEF NamesFrom, S
<1>7. QED
  BY <1>0, <1>3, <1>4, <1>5, <1>6

LEMMA RightBound ==
    ASSUME CellsTypeOK, NEW n, NEW acc, Right(n, acc)
    PROVE  IsFiniteSet(acc.seen) /\ Cardinality(acc.seen) \in Nat
           /\ Cardinality(acc.seen) <= Len(cells) + 1
<1>1. acc.seen \subseteq NamesFrom(n)
  <2>1. Chosen(acc) \subseteq 1..Len(cells)
    BY CellsFacts DEF Chosen
  <2>2. QED
    BY <2>1 DEF Right, NamesFrom
<1>2. IsFiniteSet(NamesFrom(n)) /\ Cardinality(NamesFrom(n)) <= Len(cells) + 1
  BY NamesBound
<1>3. Cardinality(NamesFrom(n)) \in Nat /\ Len(cells) \in Nat
  BY <1>2, FS_CardinalityType, CellsFacts
<1>4. IsFiniteSet(acc.seen) /\ Cardinality(acc.seen) <= Cardinality(NamesFrom(n))
  BY <1>1, <1>2, FS_Subset
<1>5. Cardinality(acc.seen) \in Nat
  BY <1>4, FS_CardinalityType
<1>6. QED
  BY <1>2, <1>3, <1>4, <1>5

\* A sweep that changes something marks at least one name more.
LEMMA SweepCounts ==
    ASSUME CellsTypeOK, NEW n, NEW acc \in Acc, Right(n, acc), Sweep(acc) # acc
    PROVE  Cardinality(Sweep(acc).seen) >= Cardinality(acc.seen) + 1
<1>1. Right(n, Sweep(acc))
  BY SweepRight
<1>2. acc.seen \subseteq Sweep(acc).seen /\ Sweep(acc).seen # acc.seen
  <2>1. PICK f : Sweep(acc) = f[Len(cells)] /\ IsSweep(f, acc)
    BY SweepIs
  <2>2. Len(cells) \in 0..Len(cells)
    BY CellsFacts
  <2>3. QED
    BY <2>1, <2>2, SweepGrows
<1>3. PICK x \in Sweep(acc).seen : x \notin acc.seen
  BY <1>2
<1> DEFINE Sw == Sweep(acc).seen
<1>4. IsFiniteSet(acc.seen) /\ Cardinality(acc.seen) \in Nat
  BY RightBound
<1>5. IsFiniteSet(Sw) /\ Cardinality(Sw) \in Nat
  BY <1>1, RightBound
<1>6. /\ IsFiniteSet(acc.seen \cup {x})
      /\ Cardinality(acc.seen \cup {x}) =
           IF x \in acc.seen THEN Cardinality(acc.seen) ELSE Cardinality(acc.seen) + 1
  BY <1>4, FS_AddElement
<1>7. acc.seen \cup {x} \in SUBSET Sw
  BY <1>2, <1>3
<1>8. Cardinality(acc.seen \cup {x}) <= Cardinality(Sw)
  BY <1>5, <1>7, FS_Subset
<1>9. QED
  BY <1>3, <1>4, <1>5, <1>6, <1>8

\* The sweeps, one after the other.
IsSweeps(f, acc) ==
    /\ f \in [0..Len(cells) -> Acc] /\ f[0] = acc
    /\ \A k \in 1..Len(cells) : f[k] = Sweep(f[k - 1])

LEMMA SweepTypes ==
    ASSUME CellsTypeOK, NEW acc \in Acc
    PROVE  Sweep(acc) \in Acc
<1>1. PICK f : Sweep(acc) = f[Len(cells)] /\ IsSweep(f, acc)
  BY SweepIs
<1>2. Len(cells) \in 0..Len(cells)
  BY CellsFacts
<1>3. QED
  BY <1>1, <1>2 DEF IsSweep

LEMMA SweepsIs ==
    ASSUME CellsTypeOK, NEW acc \in Acc
    PROVE  \E f : /\ Sweeps(acc) = f[Min({k \in 0..Len(cells) : Sweep(f[k]) = f[k]})]
                  /\ IsSweeps(f, acc)
<1> DEFINE m == Len(cells)
           F == [p \in (1..m) \X Acc |-> Sweep(p[2])]
           Eq(f) == f = [k \in 0..m |-> IF k = 0 THEN acc ELSE Sweep(f[k - 1])]
           r == CHOOSE f : Eq(f)
<1>1. m \in Nat
  BY CellsFacts
<1>2. F \in [(1..m) \X Acc -> Acc]
  BY SweepTypes
<1>3. \A i \in 1..m, x \in Acc : F[<<i, x>>] = Sweep(x)
  OBVIOUS
<1> HIDE DEF F
<1>4. \E f : Eq(f)
  <2>1. PICK f \in [0..m -> Acc] : IsLoop(f, m, acc, F)
    <3> HIDE DEF m
    <3>1. QED
      BY <1>1, <1>2, LoopExists
  <2>2. f = [i \in 0..m |-> f[i]]
    OBVIOUS
  <2>3. ASSUME NEW i \in 0..m PROVE f[i] = IF i = 0 THEN acc ELSE Sweep(f[i - 1])
    <3>1. CASE i = 0
      BY <2>1, <3>1 DEF IsLoop
    <3>2. CASE i # 0
      <4>1. i \in 1..m /\ i - 1 \in 0..m
        BY <1>1, <3>2
      <4>2. QED
        BY <1>3, <2>1, <3>2, <4>1 DEF IsLoop
    <3>3. QED
      BY <3>1, <3>2
  <2>4. Eq(f)
    BY <2>2, <2>3
  <2>5. QED
    BY <2>4
<1>5. Eq(r)
  BY <1>4
<1>6. Sweeps(acc) = r[Min({k \in 0..m : Sweep(r[k]) = r[k]})]
  BY DEF Sweeps
<1> HIDE DEF r
<1>7. r[0] = acc /\ \A i \in 1..m : r[i] = Sweep(r[i - 1])
  <2>1. 0 \in 0..m /\ \A i \in 1..m : i \in 0..m /\ i # 0
    BY <1>1
  <2>2. QED
    BY <1>5, <2>1
<1>8. \A i \in 0..m : r[i] \in Acc
  <2>1. \A i \in 1..m : r[i - 1] \in Acc => r[i] = F[<<i, r[i - 1]>>]
    BY <1>3, <1>7
  <2> HIDE DEF m
  <2>2. IsLoopIn(Acc, r, m, acc, F)
    BY <1>7, <2>1 DEF IsLoopIn
  <2>3. QED
    BY <1>1, <1>2, <2>2, LoopTypes
<1>9. r \in [0..m -> Acc]
  <2>1. r = [i \in 0..m |-> r[i]]
    BY <1>5
  <2>2. QED
    BY <1>8, <2>1
<1>10. QED
  BY <1>6, <1>7, <1>9 DEF IsSweeps
\* Some sweep of the first as many as there are cells changes nothing.
LEMMA SweepsStop ==
    ASSUME CellsTypeOK, NEW n, NEW acc, Right(n, acc), NEW f, IsSweeps(f, acc)
    PROVE  /\ \A k \in 0..Len(cells) : f[k] \in Acc /\ Right(n, f[k])
           /\ \E k \in 0..Len(cells) : Sweep(f[k]) = f[k]
<1> DEFINE After(k) == /\ Right(n, f[k])
                       /\ \/ \E j \in 0..k : j <= Len(cells) /\ Sweep(f[j]) = f[j]
                          \/ Cardinality(f[k].seen) >= k + 1
           T == {k \in Nat : k <= Len(cells) => After(k)}
<1>0. Len(cells) \in Nat
  BY CellsFacts
<1>1. 0 \in T
  <2>1. Right(n, f[0])
    BY DEF IsSweeps
  <2>2. n \in f[0].seen
    BY <2>1 DEF Right
  <2>3. IsFiniteSet(f[0].seen) /\ Cardinality(f[0].seen) \in Nat
    BY <2>1, RightBound
  <2>4. Cardinality(f[0].seen) # 0
    BY <2>2, <2>3, FS_EmptySet
  <2>5. Cardinality(f[0].seen) >= 0 + 1
    BY <2>3, <2>4
  <2>6. QED
    BY <2>1, <2>5
<1>2. ASSUME NEW k \in Nat, k \in T PROVE k + 1 \in T
  <2> SUFFICES ASSUME k + 1 <= Len(cells) PROVE After(k + 1)
    OBVIOUS
  <2>1. k + 1 \in 1..Len(cells) /\ (k + 1) - 1 = k /\ k \in 0..Len(cells) /\ After(k)
    BY <1>0, <1>2
  <2>2. f[k + 1] = Sweep(f[k]) /\ f[k] \in Acc
    BY <2>1 DEF IsSweeps
  <2>3. Right(n, f[k]) /\ Right(n, Sweep(f[k]))
    BY <2>1, <2>2, SweepRight
  <2>4. CASE Sweep(f[k]) = f[k]
    <3>1. k \in 0..k + 1 /\ k <= Len(cells)
      BY <1>0, <2>1
    <3>2. QED
      BY <2>2, <2>3, <2>4, <3>1
  <2>5. CASE \E j \in 0..k : j <= Len(cells) /\ Sweep(f[j]) = f[j]
    <3>1. \A j \in 0..k : j \in 0..k + 1
      OBVIOUS
    <3>2. QED
      BY <2>2, <2>3, <2>5, <3>1
  <2>6. CASE Sweep(f[k]) # f[k] /\ Cardinality(f[k].seen) >= k + 1
    <3>1. Cardinality(Sweep(f[k]).seen) >= Cardinality(f[k].seen) + 1
      BY <2>2, <2>3, <2>6, SweepCounts
    <3>2. Cardinality(Sweep(f[k]).seen) \in Nat /\ Cardinality(f[k].seen) \in Nat
      BY <2>3, RightBound
    <3>3. Cardinality(Sweep(f[k]).seen) >= (k + 1) + 1
      BY <2>6, <3>1, <3>2
    <3>4. QED
      BY <2>2, <2>3, <3>3
  <2>7. QED
    BY <2>1, <2>4, <2>5, <2>6
<1> HIDE DEF T
<1>3. Nat \subseteq T
  BY <1>1, <1>2, NatInd
<1>4. \A k \in 0..Len(cells) : f[k] \in Acc /\ Right(n, f[k])
  BY <1>3 DEF T, IsSweeps
<1>5. \E k \in 0..Len(cells) : Sweep(f[k]) = f[k]
  <2> DEFINE m == Len(cells)
  <2>1. After(m) /\ m \in 0..m
    BY <1>0, <1>3 DEF T
  <2>2. CASE \E j \in 0..m : Sweep(f[j]) = f[j]
    BY <2>2
  <2>3. CASE Cardinality(f[m].seen) >= m + 1 /\ Sweep(f[m]) # f[m]
    <3>1. f[m] \in Acc /\ Right(n, f[m])
      BY <1>4, <2>1
    <3>2. Right(n, Sweep(f[m]))
      BY <3>1, SweepRight
    <3>3. Cardinality(Sweep(f[m]).seen) >= Cardinality(f[m].seen) + 1
      BY <2>3, <3>1, SweepCounts
    <3>4. /\ Cardinality(Sweep(f[m]).seen) \in Nat /\ Cardinality(f[m].seen) \in Nat
          /\ Cardinality(Sweep(f[m]).seen) <= m + 1
      BY <3>1, <3>2, RightBound
    <3>5. QED
      BY <1>0, <2>3, <3>3, <3>4
  <2>4. QED
    BY <2>1, <2>2, <2>3
<1>6. QED
  BY <1>4, <1>5

\* The least member of a set of natural numbers.
LEMMA MinFacts ==
    ASSUME NEW T \in SUBSET Nat, T # {}
    PROVE  Min(T) \in T /\ \A x \in T : Min(T) <= x
<1>1. \E x \in T : \A y \in T : x <= y
  BY LeastNat
<1>2. Min(T) = CHOOSE x \in T : \A y \in T : x <= y
  BY DEF Min
<1>3. QED
  BY <1>1, <1>2

\* The sweeps end, with what is right and with nothing left to mark.
LEMMA SweepsFacts ==
    ASSUME CellsTypeOK, NEW n, NEW acc \in Acc, Right(n, acc)
    PROVE  /\ Sweeps(acc) \in Acc /\ Right(n, Sweeps(acc))
           /\ Sweep(Sweeps(acc)) = Sweeps(acc)
<1>1. PICK f : /\ Sweeps(acc) = f[Min({k \in 0..Len(cells) : Sweep(f[k]) = f[k]})]
               /\ IsSweeps(f, acc)
  BY SweepsIs
<1> DEFINE S == {k \in 0..Len(cells) : Sweep(f[k]) = f[k]}
<1>2. /\ \A k \in 0..Len(cells) : f[k] \in Acc /\ Right(n, f[k])
      /\ \E k \in 0..Len(cells) : Sweep(f[k]) = f[k]
  BY <1>1, SweepsStop
<1>3. S \in SUBSET Nat /\ S # {}
  BY <1>2
<1>4. Min(S) \in S
  <2> HIDE DEF S
  <2>1. QED
    BY <1>3, MinFacts
<1>5. Sweeps(acc) = f[Min(S)]
  BY <1>1
<1>6. QED
  BY <1>2, <1>4, <1>5

\* At the start a name is all that is marked.
LEMMA StartRight ==
    ASSUME CellsTypeOK, NEW n \in Names
    PROVE  [seen |-> {n}, out |-> {}] \in Acc /\ Right(n, [seen |-> {n}, out |-> {}])
<1> DEFINE acc == [seen |-> {n}, out |-> {}]
<1>1. acc \in Acc
  BY DEF Acc
<1>2. acc.seen = {n} /\ acc.out = {}
  OBVIOUS
<1> HIDE DEF acc
<1>3. Chosen(acc) = {}
  BY <1>2 DEF Chosen
<1>4. Right(n, acc)
  BY <1>2, <1>3 DEF Right
<1>5. QED
  BY <1>1, <1>4 DEF acc

\* Where nothing is left to mark, all dependents are marked.
LEMMA StillIsAll ==
    ASSUME CellsTypeOK, NEW n \in Names, NEW acc \in Acc, Right(n, acc), Sweep(acc) = acc
    PROVE  acc.seen = Dependents(n) \cup {n} /\ n \notin Dependents(n)
<1> DEFINE All == Names \cup {Unnamed}
<1>0. DOMAIN cells = 1..Len(cells)
  BY CellsFacts
<1>1. n \in acc.seen /\ acc.seen \in SUBSET All
  BY DEF Right, Acc
<1>2. IsDependent(n, acc.seen)
  <2> SUFFICES ASSUME NEW i \in 1..Len(cells), Range(cells[i].deps) \cap (acc.seen \cup {n}) # {},
                      cells[i].name \notin acc.seen
               PROVE  FALSE
    BY <1>0 DEF IsDependent
  <2>1. Mark(acc, cells[i]) = acc
    BY SweepStill
  <2>2. Range(cells[i].deps) \cap acc.seen # {}
    BY <1>1
  <2>3. Mark(acc, cells[i]).seen = acc.seen \cup {cells[i].name}
    BY <2>2 DEF Mark
  <2>4. QED
    BY <2>1, <2>3
<1>3. Dependents(n) \subseteq acc.seen
  BY <1>1, <1>2 DEF Dependents
<1>4. ASSUME NEW x \in acc.seen, x # n PROVE x \in Dependents(n)
  <2>1. \A S : IsDependent(n, S) => acc.seen \subseteq S \cup {n}
    BY DEF Right
  <2>2. \A S \in SUBSET All : IsDependent(n, S) => x \in S
    BY <1>4, <2>1
  <2>3. x \in All \ {n}
    BY <1>1, <1>4
  <2>4. QED
    BY <2>2, <2>3 DEF Dependents
<1>5. n \notin Dependents(n)
  BY DEF Dependents
<1>6. QED
  BY <1>1, <1>3, <1>4, <1>5

\* What Downstream gives.
LEMMA DownstreamFacts ==
    ASSUME CellsTypeOK, NEW n \in Names
    PROVE  LET chosen == {i \in DOMAIN cells : cells[i].id \in Downstream(n)}
           IN /\ Downstream(n) \subseteq Ids(cells)
              /\ {cells[i].name : i \in chosen} = Dependents(n)
              /\ \A i, j \in chosen : cells[i].name = cells[j].name => i = j
              /\ \A i \in chosen : Range(cells[i].deps) \cap (Dependents(n) \cup {n}) # {}
<1> DEFINE acc == [seen |-> {n}, out |-> {}]
           end == Sweeps(acc)
<1>1. acc \in Acc /\ Right(n, acc)
  BY StartRight
<1>2. Downstream(n) = end.out
  BY DEF Downstream
<1> HIDE DEF acc
<1>3. end \in Acc /\ Right(n, end) /\ Sweep(end) = end
  BY <1>1, SweepsFacts
<1> HIDE DEF end
<1>4. end.seen = Dependents(n) \cup {n} /\ n \notin Dependents(n)
  BY <1>3, StillIsAll
<1>5. {i \in DOMAIN cells : cells[i].id \in Downstream(n)} = Chosen(end)
  BY <1>2 DEF Chosen
<1>6. Downstream(n) \subseteq Ids(cells)
  BY <1>2, <1>3 DEF Right
<1>7. {cells[i].name : i \in Chosen(end)} = Dependents(n)
  BY <1>3, <1>4 DEF Right
<1>8. \A i, j \in Chosen(end) : cells[i].name = cells[j].name => i = j
  BY <1>3 DEF Right
<1>9. \A i \in Chosen(end) : Range(cells[i].deps) \cap (Dependents(n) \cup {n}) # {}
  BY <1>3, <1>4 DEF Right
<1>10. QED
  BY <1>5, <1>6, <1>7, <1>8, <1>9
-----------------------------------------------------------------------------
\* Cycles.  A set of names is settled when no dependency leads out of it and each
\* part of it has a name no other of the part depends on: it holds no cycle.
IsGraph(deps) == IsFiniteSet(DOMAIN deps) /\ \A n \in DOMAIN deps : deps[n] \in Seq(Names)

Settled(deps, V) ==
    /\ \A v \in V, d \in DOMAIN deps : Arc(deps, v, d) => d \in V
    /\ \A S \in SUBSET V : S # {} => \E x \in S : \A y \in S : ~Arc(deps, y, x)

IsCycle(deps, c) ==
    /\ Len(c) > 1 /\ c[1] = c[Len(c)]
    /\ \A i \in 1..(Len(c) - 1) : Arc(deps, c[i], c[i + 1])

LEMMA SettleOneMore ==
    ASSUME NEW deps, NEW V, V \subseteq DOMAIN deps, Settled(deps, V), NEW n \in DOMAIN deps,
           \A d \in DOMAIN deps : Arc(deps, n, d) => d \in V
    PROVE  Settled(deps, V \cup {n})
<1>1. CASE n \in V
  <2>1. V \cup {n} = V
    BY <1>1
  <2>2. QED
    BY <2>1
<1>2. CASE n \notin V
  <2>1. ASSUME NEW v \in V \cup {n}, NEW d \in DOMAIN deps, Arc(deps, v, d)
        PROVE  d \in V \cup {n}
    BY <2>1 DEF Settled
  <2>2. ASSUME NEW S \in SUBSET (V \cup {n}), S # {}
        PROVE  \E x \in S : \A y \in S : ~Arc(deps, y, x)
    <3>1. CASE n \in S
      <4>1. ASSUME NEW y \in S, Arc(deps, y, n) PROVE FALSE
        <5>1. CASE y = n
          BY <1>2, <4>1, <5>1
        <5>2. CASE y # n
          <6>1. y \in V
            BY <5>2
          <6>2. QED
            BY <1>2, <4>1, <6>1 DEF Settled
        <5>3. QED
          BY <5>1, <5>2
      <4>2. QED
        BY <3>1, <4>1
    <3>2. CASE n \notin S
      <4>1. S \in SUBSET V
        BY <3>2
      <4>2. QED
        BY <2>2, <4>1 DEF Settled
    <3>3. QED
      BY <3>1, <3>2
  <2>3. QED
    BY <2>1, <2>2 DEF Settled
<1>3. QED
  BY <1>1, <1>2

\* A name that reaches itself: everything it reaches is depended on by something
\* it reaches.
LEMMA SettledIsAcyclic ==
    ASSUME NEW deps, Settled(deps, DOMAIN deps)
    PROVE  ~Cyclic(deps)
<1> SUFFICES ASSUME NEW n \in DOMAIN deps, n \in Reach(deps, n) PROVE FALSE
  BY DEF Cyclic
<1> DEFINE R == Reach(deps, n)
<1>1. R \in SUBSET DOMAIN deps /\ n \in R
  BY DEF Reach
<1>2. PICK x \in R : \A y \in R : ~Arc(deps, y, x)
  <2> HIDE DEF R
  <2>1. QED
    BY <1>1 DEF Settled
<1>3. \A S \in SUBSET DOMAIN deps : IsClosed(deps, n, S) => R \subseteq S
  BY DEF Reach
<1>4. IsClosed(deps, n, R)
  <2> SUFFICES ASSUME NEW l \in R \cup {n}, NEW m \in DOMAIN deps, Arc(deps, l, m)
               PROVE  m \in R
    BY DEF IsClosed
  <2>1. l \in R
    BY <1>1
  <2> SUFFICES ASSUME NEW S \in SUBSET DOMAIN deps, IsClosed(deps, n, S) PROVE m \in S
    BY DEF Reach
  <2>2. l \in S
    BY <1>3, <2>1
  <2>3. QED
    BY <2>2 DEF IsClosed
<1> HIDE DEF R
<1>5. IsClosed(deps, n, R \ {x})
  <2> SUFFICES ASSUME NEW l \in (R \ {x}) \cup {n}, NEW m \in DOMAIN deps, Arc(deps, l, m)
               PROVE  m \in R \ {x}
    BY DEF IsClosed
  <2>1. l \in R
    BY <1>1
  <2>2. m \in R
    BY <1>4, <2>1 DEF IsClosed
  <2>3. m # x
    BY <1>2, <2>1
  <2>4. QED
    BY <2>2, <2>3
<1>6. R \ {x} \in SUBSET DOMAIN deps
  BY <1>1
<1>7. QED
  BY <1>2, <1>3, <1>5, <1>6

\* Along a cycle the first name reaches all that follow.
LEMMA CycleIsCyclic ==
    ASSUME NEW deps, NEW c \in Seq(DOMAIN deps), IsCycle(deps, c)
    PROVE  Cyclic(deps)
<1>0. Len(c) \in Nat /\ Len(c) > 1 /\ 1 \in 1..Len(c) /\ Len(c) \in 1..Len(c)
  BY DEF IsCycle
<1>1. \A i \in 1..Len(c) : c[i] \in DOMAIN deps
  OBVIOUS
<1> SUFFICES ASSUME NEW S \in SUBSET DOMAIN deps, IsClosed(deps, c[1], S) PROVE c[1] \in S
  <2>1. c[1] \in DOMAIN deps
    BY <1>0, <1>1
  <2>2. QED
    BY <2>1 DEF Cyclic, Reach
<1> DEFINE T == {k \in Nat : k + 2 <= Len(c) => c[k + 2] \in S}
<1>2. 0 \in T
  <2>1. 1 \in 1..(Len(c) - 1) /\ 0 + 2 = 1 + 1 /\ 0 + 2 \in 1..Len(c)
    BY <1>0
  <2>2. Arc(deps, c[1], c[0 + 2]) /\ c[0 + 2] \in DOMAIN deps
    BY <1>1, <2>1 DEF IsCycle
  <2>3. c[0 + 2] \in S
    BY <2>2 DEF IsClosed
  <2>4. QED
    BY <2>3
<1>3. ASSUME NEW k \in Nat, k \in T PROVE k + 1 \in T
  <2> SUFFICES ASSUME (k + 1) + 2 <= Len(c) PROVE c[(k + 1) + 2] \in S
    OBVIOUS
  <2>1. k + 2 \in 1..(Len(c) - 1) /\ (k + 1) + 2 = (k + 2) + 1 /\ (k + 1) + 2 \in 1..Len(c)
        /\ c[k + 2] \in S
    BY <1>0, <1>3
  <2>2. Arc(deps, c[k + 2], c[(k + 1) + 2]) /\ c[(k + 1) + 2] \in DOMAIN deps
    BY <1>1, <2>1 DEF IsCycle
  <2>3. QED
    BY <2>1, <2>2 DEF IsClosed
<1> HIDE DEF T
<1>4. Nat \subseteq T
  BY <1>2, <1>3, NatInd
<1>5. Len(c) - 2 \in T /\ (Len(c) - 2) + 2 = Len(c)
  <2>1. Len(c) - 2 \in Nat /\ (Len(c) - 2) + 2 = Len(c)
    BY <1>0
  <2>2. QED
    BY <1>4, <2>1
<1>6. c[Len(c)] \in S
  BY <1>0, <1>5 DEF T
<1>7. QED
  BY <1>6 DEF IsCycle
-----------------------------------------------------------------------------
\* The search is a function of calls: for each, what is known after it.
LEMMA CallParts ==
    ASSUME NEW deps
    PROVE  /\ \A c \in Call(deps) : c[1] \in DOMAIN deps /\ c[2] \in Seq(DOMAIN deps)
                                    /\ c[3] \in Search(deps)
           /\ \A n \in DOMAIN deps, s \in Seq(DOMAIN deps), st \in Search(deps) :
                <<n, s, st>> \in Call(deps)
<1> DEFINE A == DOMAIN deps  B == Seq(DOMAIN deps)  C == Search(deps)
<1>1. Call(deps) = A \X B \X C
  BY DEF Call
<1> HIDE DEF A, B, C
<1>2. /\ \A c \in Call(deps) : c[1] \in A /\ c[2] \in B /\ c[3] \in C
      /\ \A n \in A, s \in B, st \in C : <<n, s, st>> \in Call(deps)
  BY <1>1
<1>3. QED
  BY <1>2 DEF A, B, C

\* The cycles that a name under visit closes.
Closed(n, stack) ==
    {Append(SubSeq(stack, i, Len(stack)), n) :
       i \in {i \in DOMAIN stack : stack[i] = n /\ \A j \in 1..(i - 1) : stack[j] # n}}

\* What is left of the way from place i on, and the name.
LEMMA ClosedIs ==
    ASSUME NEW N, NEW n \in N, NEW stack \in Seq(N), NEW i \in 1..Len(stack)
    PROVE  LET c == Append(SubSeq(stack, i, Len(stack)), n)
               l == Len(stack) - i + 1
           IN /\ c \in Seq(N) /\ Len(c) = l + 1 /\ c[l + 1] = n
              /\ \A j \in 1..l : c[j] = stack[i + j - 1]
<1> DEFINE m == Len(stack)  s == SubSeq(stack, i, m)  l == m - i + 1
<1>1. m \in Nat /\ i \in Int /\ i <= m /\ l \in Nat
  OBVIOUS
<1>2. \A j \in i..m : stack[j] \in N
  OBVIOUS
<1> HIDE DEF m
<1>3. /\ s \in Seq(N) /\ Len(s) = IF i <= m THEN m - i + 1 ELSE 0
      /\ \A j \in 1..m - i + 1 : s[j] = stack[i + j - 1]
  BY <1>1, <1>2, SubSeqProperties
<1>4. Len(s) = l
  BY <1>1, <1>3
<1> HIDE DEF s
<1>5. /\ Append(s, n) \in Seq(N) /\ Len(Append(s, n)) = Len(s) + 1
      /\ \A j \in 1..Len(s) : Append(s, n)[j] = s[j]
      /\ Append(s, n)[Len(s) + 1] = n
  BY <1>3, AppendProperties
<1>6. QED
  BY <1>3, <1>4, <1>5 DEF s, m

LEMMA CloseFacts ==
    ASSUME NEW deps, NEW n \in DOMAIN deps, NEW stack \in Seq(DOMAIN deps),
           NEW st \in Search(deps)
    PROVE  /\ Close(n, stack, st) \in Search(deps)
           /\ Close(n, stack, st).visiting = st.visiting
           /\ Close(n, stack, st).visited = st.visited
           /\ Close(n, stack, st).cycles = st.cycles \cup Closed(n, stack)
<1>1. Close(n, stack, st) = [st EXCEPT !.cycles = st.cycles \cup Closed(n, stack)]
  BY DEF Close, Closed
<1>2. Closed(n, stack) \subseteq Seq(DOMAIN deps)
  <2> DEFINE N == DOMAIN deps
  <2>1. \A i \in DOMAIN stack : i \in 1..Len(stack)
    OBVIOUS
  <2>2. ASSUME NEW i \in 1..Len(stack)
        PROVE  Append(SubSeq(stack, i, Len(stack)), n) \in Seq(N)
    <3> HIDE DEF N
    <3>1. n \in N /\ stack \in Seq(N)
      BY DEF N
    <3>2. QED
      BY <3>1, ClosedIs
  <2>3. QED
    BY <2>1, <2>2 DEF Closed
<1> HIDE DEF Closed
<1>3. QED
  BY <1>1, <1>2 DEF Search

\* The rounds over the names that n depends on.
Round(deps, inner, n, stack, i, st) ==
    IF deps[n][i] \in DOMAIN deps THEN inner[<<deps[n][i], Append(stack, n), st>>] ELSE st

IsRounds(f, deps, inner, n, stack, st) ==
    /\ \A i \in 0..Len(deps[n]) : f[i] \in Search(deps)
    /\ f[0] = [st EXCEPT !.visiting = st.visiting \cup {n}]
    /\ \A i \in 1..Len(deps[n]) : f[i] = Round(deps, inner, n, stack, i, f[i - 1])

Left(n, st) == [st EXCEPT !.visiting = st.visiting \ {n}, !.visited = st.visited \cup {n}]

LEMMA DescendIs ==
    ASSUME NEW deps, IsGraph(deps), NEW inner \in [Call(deps) -> Search(deps)],
           NEW n \in DOMAIN deps, NEW stack \in Seq(DOMAIN deps), NEW st \in Search(deps)
    PROVE  \E f : /\ Descend(deps, inner, n, stack, st) = Left(n, f[Len(deps[n])])
                  /\ IsRounds(f, deps, inner, n, stack, st)
<1> DEFINE m == Len(deps[n])  S == Search(deps)
           x0 == [st EXCEPT !.visiting = st.visiting \cup {n}]
           F == [p \in (1..m) \X S |-> Round(deps, inner, n, stack, p[1], p[2])]
           Eq(f) == f = [i \in 0..m |->
                           IF i = 0 THEN [st EXCEPT !.visiting = @ \cup {n}]
                           ELSE IF deps[n][i] \in DOMAIN deps
                             THEN inner[<<deps[n][i], Append(stack, n), f[i - 1]>>]
                           ELSE f[i - 1]]
           r == CHOOSE f : Eq(f)
<1>1. m \in Nat
  <2>1. deps[n] \in Seq(Names)
    BY DEF IsGraph
  <2>2. QED
    BY <2>1
<1>2. ASSUME NEW i \in 1..m, NEW x \in S PROVE Round(deps, inner, n, stack, i, x) \in S
  <2>1. Append(stack, n) \in Seq(DOMAIN deps)
    OBVIOUS
  <2>2. CASE deps[n][i] \in DOMAIN deps
    <3>1. <<deps[n][i], Append(stack, n), x>> \in Call(deps)
      BY <2>1, <2>2, CallParts
    <3>2. QED
      BY <2>2, <3>1 DEF Round
  <2>3. CASE deps[n][i] \notin DOMAIN deps
    BY <2>3 DEF Round
  <2>4. QED
    BY <2>2, <2>3
<1>3. x0 \in S
  BY DEF Search
<1>4. F \in [(1..m) \X S -> S] /\ \A i \in 1..m, x \in S : F[<<i, x>>] = Round(deps, inner, n, stack, i, x)
  BY <1>2
<1>5. \A f : Eq(f) <=> f = [i \in 0..m |-> IF i = 0 THEN x0 ELSE Round(deps, inner, n, stack, i, f[i - 1])]
  BY DEF Round
<1> HIDE DEF F, S, x0
<1>6. \E f : Eq(f)
  <2>1. PICK f \in [0..m -> S] : IsLoop(f, m, x0, F)
    <3> HIDE DEF m
    <3>1. QED
      BY <1>1, <1>3, <1>4, LoopExists
  <2>2. f = [i \in 0..m |-> f[i]]
    OBVIOUS
  <2>3. ASSUME NEW i \in 0..m
        PROVE  f[i] = IF i = 0 THEN x0 ELSE Round(deps, inner, n, stack, i, f[i - 1])
    <3>1. CASE i = 0
      BY <2>1, <3>1 DEF IsLoop
    <3>2. CASE i # 0
      <4>1. i \in 1..m /\ i - 1 \in 0..m
        BY <1>1, <3>2
      <4>2. QED
        BY <1>4, <2>1, <3>2, <4>1 DEF IsLoop
    <3>3. QED
      BY <3>1, <3>2
  <2>4. Eq(f)
    <3> HIDE DEF Eq, m
    <3>1. f = [i \in 0..m |-> IF i = 0 THEN x0 ELSE Round(deps, inner, n, stack, i, f[i - 1])]
      BY <2>2, <2>3
    <3>2. QED
      BY <1>5, <3>1
  <2>5. QED
    BY <2>4
<1>7. Eq(r)
  <2> HIDE DEF Eq
  <2>1. QED
    BY <1>6
<1>8. Descend(deps, inner, n, stack, st) = Left(n, r[m])
  BY DEF Descend, Left
<1> HIDE DEF r
<1>9. r = [i \in 0..m |-> IF i = 0 THEN x0 ELSE Round(deps, inner, n, stack, i, r[i - 1])]
  <2> HIDE DEF Eq, m
  <2>1. QED
    BY <1>5, <1>7
<1> HIDE DEF Eq, m
<1>10. r[0] = x0 /\ \A i \in 1..m : r[i] = Round(deps, inner, n, stack, i, r[i - 1])
  <2>1. 0 \in 0..m /\ \A i \in 1..m : i \in 0..m /\ i # 0
    BY <1>1
  <2>2. QED
    BY <1>9, <2>1
<1>11. \A i \in 0..m : r[i] \in S
  <2>1. \A i \in 1..m : r[i - 1] \in S => r[i] = F[<<i, r[i - 1]>>]
    BY <1>4, <1>10
  <2>2. IsLoopIn(S, r, m, x0, F)
    BY <1>10, <2>1 DEF IsLoopIn
  <2>3. F \in [(1..m) \X S -> S]
    BY <1>4
  <2>4. QED
    BY <1>1, <1>3, <2>2, <2>3, LoopTypes
<1>12. IsRounds(r, deps, inner, n, stack, st)
  BY <1>10, <1>11 DEF IsRounds, m, S, x0
<1>13. QED
  BY <1>8, <1>12 DEF m
LEMMA VisitTypes ==
    ASSUME NEW deps, IsGraph(deps), NEW inner \in [Call(deps) -> Search(deps)],
           NEW n \in DOMAIN deps, NEW stack \in Seq(DOMAIN deps), NEW st \in Search(deps)
    PROVE  Visit(deps, inner, n, stack, st) \in Search(deps)
<1>1. Close(n, stack, st) \in Search(deps)
  BY CloseFacts
<1>2. Descend(deps, inner, n, stack, st) \in Search(deps)
  <2>1. PICK f : /\ Descend(deps, inner, n, stack, st) = Left(n, f[Len(deps[n])])
                 /\ IsRounds(f, deps, inner, n, stack, st)
    BY DescendIs
  <2>2. Len(deps[n]) \in 0..Len(deps[n])
    <3>1. deps[n] \in Seq(Names)
      BY DEF IsGraph
    <3>2. QED
      BY <3>1
  <2>3. f[Len(deps[n])] \in Search(deps)
    BY <2>1, <2>2 DEF IsRounds
  <2>4. \A x \in Search(deps) : Left(n, x) \in Search(deps)
    BY DEF Left, Search
  <2>5. QED
    BY <2>1, <2>3, <2>4
<1>3. QED
  BY <1>1, <1>2 DEF Visit

\* The search with calls k deep.
Deeper(deps, inner) == [c \in Call(deps) |-> Visit(deps, inner, c[1], c[2], c[3])]

IsWalk(f, deps) ==
    /\ \A k \in 0..Cardinality(DOMAIN deps) + 1 : f[k] \in [Call(deps) -> Search(deps)]
    /\ \A k \in 1..Cardinality(DOMAIN deps) + 1 : f[k] = Deeper(deps, f[k - 1])

LEMMA DeeperTypes ==
    ASSUME NEW deps, IsGraph(deps), NEW inner \in [Call(deps) -> Search(deps)]
    PROVE  Deeper(deps, inner) \in [Call(deps) -> Search(deps)]
<1>1. ASSUME NEW c \in Call(deps) PROVE Visit(deps, inner, c[1], c[2], c[3]) \in Search(deps)
  <2>1. c[1] \in DOMAIN deps /\ c[2] \in Seq(DOMAIN deps) /\ c[3] \in Search(deps)
    BY CallParts
  <2>2. QED
    BY <2>1, VisitTypes
<1>2. QED
  BY <1>1 DEF Deeper

LEMMA WalkIs ==
    ASSUME NEW deps, IsGraph(deps)
    PROVE  \E f : Walk(deps) = f[Cardinality(DOMAIN deps) + 1] /\ IsWalk(f, deps)
<1> DEFINE m == Cardinality(DOMAIN deps) + 1
           S == [Call(deps) -> Search(deps)]
           x0 == [c \in Call(deps) |-> c[3]]
           F == [p \in (1..m) \X S |-> Deeper(deps, p[2])]
           Eq(f) == f = [k \in 0..m |->
                           IF k = 0 THEN [c \in Call(deps) |-> c[3]]
                           ELSE [c \in Call(deps) |-> Visit(deps, f[k - 1], c[1], c[2], c[3])]]
           r == CHOOSE f : Eq(f)
<1>1. m \in Nat
  BY FS_CardinalityType DEF IsGraph
<1>3. x0 \in S
  BY CallParts
<1>4. F \in [(1..m) \X S -> S] /\ \A i \in 1..m, x \in S : F[<<i, x>>] = Deeper(deps, x)
  BY DeeperTypes
<1>5. \A f : Eq(f) <=> f = [k \in 0..m |-> IF k = 0 THEN x0 ELSE Deeper(deps, f[k - 1])]
  BY DEF Deeper
<1> HIDE DEF F, S, x0
<1>6. \E f : Eq(f)
  <2>1. PICK f \in [0..m -> S] : IsLoop(f, m, x0, F)
    <3> HIDE DEF m
    <3>1. QED
      BY <1>1, <1>3, <1>4, LoopExists
  <2>2. f = [i \in 0..m |-> f[i]]
    OBVIOUS
  <2>3. ASSUME NEW i \in 0..m PROVE f[i] = IF i = 0 THEN x0 ELSE Deeper(deps, f[i - 1])
    <3>1. CASE i = 0
      BY <2>1, <3>1 DEF IsLoop
    <3>2. CASE i # 0
      <4>1. i \in 1..m /\ i - 1 \in 0..m
        BY <1>1, <3>2
      <4>2. QED
        BY <1>4, <2>1, <3>2, <4>1 DEF IsLoop
    <3>3. QED
      BY <3>1, <3>2
  <2>4. Eq(f)
    <3> HIDE DEF Eq, m
    <3>1. f = [i \in 0..m |-> IF i = 0 THEN x0 ELSE Deeper(deps, f[i - 1])]
      BY <2>2, <2>3
    <3>2. QED
      BY <1>5, <3>1
  <2>5. QED
    BY <2>4
<1>7. Eq(r)
  <2> HIDE DEF Eq
  <2>1. QED
    BY <1>6
<1>8. Walk(deps) = r[m]
  BY DEF Walk
<1> HIDE DEF r
<1>9. r = [k \in 0..m |-> IF k = 0 THEN x0 ELSE Deeper(deps, r[k - 1])]
  <2> HIDE DEF Eq, m
  <2>1. QED
    BY <1>5, <1>7
<1> HIDE DEF Eq, m
<1>10. r[0] = x0 /\ \A i \in 1..m : r[i] = Deeper(deps, r[i - 1])
  <2>1. 0 \in 0..m /\ \A i \in 1..m : i \in 0..m /\ i # 0
    BY <1>1
  <2>2. QED
    BY <1>9, <2>1
<1>11. \A i \in 0..m : r[i] \in S
  <2>1. \A i \in 1..m : r[i - 1] \in S => r[i] = F[<<i, r[i - 1]>>]
    BY <1>4, <1>10
  <2>2. IsLoopIn(S, r, m, x0, F)
    BY <1>10, <2>1 DEF IsLoopIn
  <2>3. F \in [(1..m) \X S -> S]
    BY <1>4
  <2>4. QED
    BY <1>1, <1>3, <2>2, <2>3, LoopTypes
<1>12. IsWalk(r, deps)
  BY <1>10, <1>11 DEF IsWalk, m, S
<1>13. QED
  BY <1>8, <1>12 DEF m

-----------------------------------------------------------------------------
\* What a search knows is sound when each cycle is one, and complete when, no
\* cycle found, the visited names are settled.
Sound(deps, st) == \A c \in st.cycles : IsCycle(deps, c)
Complete(deps, st) == st.cycles = {} => Settled(deps, st.visited)

\* A call is made on a way along dependencies, and the names on it are under visit.
Ready(deps, n, stack, st) ==
    /\ st.visiting = Range(stack)
    /\ \A i \in 1..(Len(stack) - 1) : Arc(deps, stack[i], stack[i + 1])
    /\ stack # <<>> => Arc(deps, stack[Len(stack)], n)
    /\ Sound(deps, st) /\ Complete(deps, st)

\* After it as many are under visit, nothing is forgotten, and the name is visited
\* unless a cycle is found.
Done(deps, n, st, r) ==
    /\ r.visiting = st.visiting
    /\ st.visited \subseteq r.visited /\ st.cycles \subseteq r.cycles
    /\ Sound(deps, r) /\ Complete(deps, r)
    /\ r.cycles = {} => n \in r.visited

\* A name under visit is on the way: its cycle is found, and is one.
LEMMA CloseDone ==
    ASSUME NEW deps, NEW n \in DOMAIN deps, NEW stack \in Seq(DOMAIN deps),
           NEW st \in Search(deps), Ready(deps, n, stack, st), n \in st.visiting
    PROVE  Done(deps, n, st, Close(n, stack, st))
<1> DEFINE r == Close(n, stack, st)  m == Len(stack)
<1>0. m \in Nat /\ DOMAIN stack = 1..m
  OBVIOUS
<1>1. /\ r.visiting = st.visiting /\ r.visited = st.visited
      /\ r.cycles = st.cycles \cup Closed(n, stack)
  BY CloseFacts
<1> HIDE DEF r
<1>2. PICK i \in 1..m : stack[i] = n /\ \A j \in 1..(i - 1) : stack[j] # n
  <2> DEFINE T == {i \in 1..m : stack[i] = n}
  <2>1. T \in SUBSET Nat /\ T # {}
    BY <1>0 DEF Ready, Range
  <2>2. PICK i \in T : \A y \in T : i <= y
    <3> HIDE DEF T
    <3>1. QED
      BY <2>1, LeastNat
  <2>3. \A j \in 1..(i - 1) : stack[j] # n
    <3> SUFFICES ASSUME NEW j \in 1..(i - 1), stack[j] = n PROVE FALSE
      OBVIOUS
    <3>1. j \in T /\ j < i
      BY <1>0, <2>2
    <3>2. QED
      BY <2>2, <3>1
  <2>4. QED
    BY <2>2, <2>3
<1>3. Closed(n, stack) # {}
  BY <1>0, <1>2 DEF Closed
<1>4. ASSUME NEW c \in Closed(n, stack) PROVE IsCycle(deps, c)
  <2>1. PICK k \in 1..m : stack[k] = n /\ c = Append(SubSeq(stack, k, Len(stack)), n)
    BY <1>0 DEF Closed
  <2> DEFINE l == m - k + 1
  <2>2. Len(c) = l + 1 /\ c[l + 1] = n /\ \A j \in 1..l : c[j] = stack[k + j - 1]
    <3> DEFINE N == DOMAIN deps
    <3>1. n \in N /\ stack \in Seq(N) /\ k \in 1..Len(stack)
      BY <2>1
    <3> HIDE DEF N, m
    <3>2. LET d == Append(SubSeq(stack, k, Len(stack)), n)
              h == Len(stack) - k + 1
          IN /\ d \in Seq(N) /\ Len(d) = h + 1 /\ d[h + 1] = n
             /\ \A j \in 1..h : d[j] = stack[k + j - 1]
      BY <3>1, ClosedIs
    <3>3. QED
      BY <2>1, <3>2 DEF m
  <2>3. l \in Nat /\ l >= 1 /\ 1 \in 1..l
    BY <1>0
  <2>4. c[1] = n
    <3>1. c[1] = stack[k + 1 - 1] /\ k + 1 - 1 = k
      BY <2>2, <2>3
    <3>2. QED
      BY <2>1, <3>1
  <2>5. ASSUME NEW j \in 1..l PROVE Arc(deps, c[j], c[j + 1])
    <3>1. CASE j = l
      <4>1. k + j - 1 = m /\ j + 1 = l + 1
        BY <1>0, <3>1
      <4>2. c[j] = stack[m] /\ c[j + 1] = n
        BY <2>2, <4>1
      <4>3. stack # <<>>
        BY <1>0, <1>2
      <4>4. QED
        BY <4>2, <4>3 DEF Ready
    <3>2. CASE j # l
      <4>1. j + 1 \in 1..l /\ k + j - 1 \in 1..(m - 1) /\ k + (j + 1) - 1 = (k + j - 1) + 1
        BY <1>0, <2>3, <3>2
      <4>2. c[j] = stack[k + j - 1] /\ c[j + 1] = stack[k + (j + 1) - 1]
        BY <2>2, <4>1
      <4>3. c[j + 1] = stack[(k + j - 1) + 1]
        BY <4>1, <4>2
      <4>4. QED
        BY <4>1, <4>2, <4>3 DEF Ready
    <3>3. QED
      BY <3>1, <3>2
  <2>6. Len(c) > 1 /\ c[1] = c[Len(c)] /\ Len(c) - 1 = l
    BY <2>2, <2>3, <2>4
  <2>7. \A j \in 1..(Len(c) - 1) : Arc(deps, c[j], c[j + 1])
    BY <2>5, <2>6
  <2>8. QED
    BY <2>6, <2>7 DEF IsCycle
<1>5. Sound(deps, r)
  BY <1>1, <1>4 DEF Ready, Sound
<1>6. Complete(deps, r)
  BY <1>1, <1>3 DEF Complete
<1>7. QED
  BY <1>1, <1>3, <1>5, <1>6 DEF Done, r
\* The calls in a call that has at most k names to enter are right.
Deep(deps, inner, k) ==
    \A n \in DOMAIN deps, s \in Seq(DOMAIN deps), st \in Search(deps) :
      Ready(deps, n, s, st) /\ Cardinality((DOMAIN deps) \ st.visiting) < k
        => Done(deps, n, st, inner[<<n, s, st>>])

\* The calls that visiting n makes are on the way with n at its end.
LEMMA InnerReady ==
    ASSUME NEW deps, IsGraph(deps), NEW n \in DOMAIN deps, NEW stack \in Seq(DOMAIN deps),
           NEW st \in Search(deps), Ready(deps, n, stack, st),
           NEW i \in 1..Len(deps[n]), deps[n][i] \in DOMAIN deps,
           NEW x \in Search(deps), x.visiting = st.visiting \cup {n},
           Sound(deps, x), Complete(deps, x)
    PROVE  /\ Append(stack, n) \in Seq(DOMAIN deps)
           /\ Ready(deps, deps[n][i], Append(stack, n), x)
<1> DEFINE N == DOMAIN deps  s == Append(stack, n)  m == Len(stack)
<1>1. n \in N /\ stack \in Seq(N) /\ m \in Nat /\ DOMAIN stack = 1..m
  OBVIOUS
<1> HIDE DEF N
<1>2. /\ s \in Seq(N) /\ s # <<>> /\ Len(s) = m + 1
      /\ \A j \in 1..m : s[j] = stack[j]
      /\ s[m + 1] = n
  BY <1>1, AppendProperties
<1> HIDE DEF s
<1>3. DOMAIN s = 1..m + 1
  BY <1>1, <1>2
<1>4. Range(s) = x.visiting
  <2>1. Range(stack) = st.visiting
    BY DEF Ready
  <2>2. \A j \in 1..m + 1 : j = m + 1 \/ j \in 1..m
    BY <1>1
  <2>3. \A j \in 1..m : j \in 1..m + 1
    BY <1>1
  <2>4. m + 1 \in 1..m + 1
    BY <1>1
  <2> HIDE DEF m
  <2>5. Range(s) = Range(stack) \cup {n}
    BY <1>1, <1>2, <1>3, <2>2, <2>3, <2>4 DEF Range
  <2>6. QED
    BY <2>1, <2>5
<1>5. ASSUME NEW j \in 1..(Len(s) - 1) PROVE Arc(deps, s[j], s[j + 1])
  <2>1. j \in 1..m
    BY <1>1, <1>2
  <2>2. CASE j = m
    <3>1. stack # <<>> /\ s[j] = stack[Len(stack)] /\ s[j + 1] = n
      BY <1>1, <1>2, <2>1, <2>2
    <3>2. QED
      BY <3>1 DEF Ready
  <2>3. CASE j # m
    <3>1. j \in 1..(Len(stack) - 1) /\ j + 1 \in 1..m
      <4>1. m \in Nat
        BY <1>1
      <4> HIDE DEF m
      <4>2. j \in 1..(m - 1) /\ j + 1 \in 1..m
        BY <2>1, <2>3, <4>1
      <4>3. QED
        BY <4>2 DEF m
    <3>2. s[j] = stack[j] /\ s[j + 1] = stack[j + 1]
      BY <1>2, <2>1, <3>1
    <3>3. QED
      BY <3>1, <3>2 DEF Ready
  <2>4. QED
    BY <2>2, <2>3
<1>6. Arc(deps, s[Len(s)], deps[n][i])
  <2>1. deps[n][i] \in Range(deps[n])
    <3>1. deps[n] \in Seq(Names)
      BY DEF IsGraph
    <3>2. i \in DOMAIN deps[n]
      BY <3>1
    <3>3. QED
      BY <3>2 DEF Range
  <2>2. QED
    BY <1>2, <2>1 DEF Arc
<1>7. QED
  BY <1>2, <1>4, <1>5, <1>6 DEF Ready, s, N

LEMMA DescendDone ==
    ASSUME NEW deps, IsGraph(deps), NEW inner \in [Call(deps) -> Search(deps)],
           NEW k \in Nat, Deep(deps, inner, k),
           NEW n \in DOMAIN deps, NEW stack \in Seq(DOMAIN deps), NEW st \in Search(deps),
           Ready(deps, n, stack, st), n \notin st.visiting,
           Cardinality((DOMAIN deps) \ st.visiting) < k + 1
    PROVE  Done(deps, n, st, Descend(deps, inner, n, stack, st))
<1> DEFINE m == Len(deps[n])
<1>0. deps[n] \in Seq(Names) /\ m \in Nat
  <2>1. deps[n] \in Seq(Names)
    BY DEF IsGraph
  <2>2. QED
    BY <2>1
<1>1. PICK f : /\ Descend(deps, inner, n, stack, st) = Left(n, f[Len(deps[n])])
               /\ IsRounds(f, deps, inner, n, stack, st)
  BY DescendIs
<1>2. Cardinality((DOMAIN deps) \ (st.visiting \cup {n})) < k
  <2> DEFINE A == (DOMAIN deps) \ st.visiting
  <2>1. IsFiniteSet(DOMAIN deps) /\ A \in SUBSET DOMAIN deps /\ n \in A
    BY DEF IsGraph
  <2>2. A \ {n} = (DOMAIN deps) \ (st.visiting \cup {n})
    OBVIOUS
  <2>3. Cardinality(A) < k + 1
    OBVIOUS
  <2> HIDE DEF A
  <2>4. IsFiniteSet(A)
    BY <2>1, FS_Subset
  <2>5. Cardinality(A) \in Nat
    BY <2>4, FS_CardinalityType
  <2>6. Cardinality(A \ {n}) = IF n \in A THEN Cardinality(A) - 1 ELSE Cardinality(A)
    BY <2>4, FS_RemoveElement
  <2>7. Cardinality(A \ {n}) < k
    BY <2>1, <2>3, <2>5, <2>6
  <2>8. QED
    BY <2>2, <2>7
<1> DEFINE After(i) ==
             /\ f[i].visiting = st.visiting \cup {n}
             /\ st.visited \subseteq f[i].visited /\ st.cycles \subseteq f[i].cycles
             /\ Sound(deps, f[i]) /\ Complete(deps, f[i])
             /\ f[i].cycles = {} =>
                  \A j \in 1..i : deps[n][j] \in DOMAIN deps => deps[n][j] \in f[i].visited
           T == {i \in Nat : i <= m => After(i)}
<1>3. 0 \in T
  <2>1. f[0] = [st EXCEPT !.visiting = st.visiting \cup {n}]
    BY <1>1 DEF IsRounds
  <2>2. /\ f[0].visiting = st.visiting \cup {n}
        /\ f[0].visited = st.visited /\ f[0].cycles = st.cycles
    BY <2>1 DEF Search
  <2>3. Sound(deps, f[0]) /\ Complete(deps, f[0])
    BY <2>2 DEF Ready, Sound, Complete
  <2>4. QED
    BY <2>2, <2>3
<1>4. ASSUME NEW i \in Nat, i \in T PROVE i + 1 \in T
  <2> SUFFICES ASSUME i + 1 <= m PROVE After(i + 1)
    OBVIOUS
  <2>1. i + 1 \in 1..m /\ (i + 1) - 1 = i /\ i \in 0..m /\ After(i)
    <3>1. m \in Nat
      BY <1>0
    <3> HIDE DEF After, m
    <3>2. i + 1 \in 1..m /\ (i + 1) - 1 = i /\ i \in 0..m /\ i <= m
      BY <3>1
    <3>3. QED
      BY <1>4, <3>2
  <2>2. /\ f[i] \in Search(deps)
        /\ f[i + 1] = Round(deps, inner, n, stack, i + 1, f[i])
    BY <1>1, <2>1 DEF IsRounds
  <2>3. \A j \in 1..i + 1 : j \in 1..i \/ j = i + 1
    OBVIOUS
  <2>4. CASE deps[n][i + 1] \notin DOMAIN deps
    <3>1. f[i + 1] = f[i]
      BY <2>2, <2>4 DEF Round
    <3>2. QED
      BY <2>1, <2>3, <2>4, <3>1
  <2>5. CASE deps[n][i + 1] \in DOMAIN deps
    <3> DEFINE d == deps[n][i + 1]
    <3>1. f[i + 1] = inner[<<d, Append(stack, n), f[i]>>]
      BY <2>2, <2>5 DEF Round
    <3>2. /\ Append(stack, n) \in Seq(DOMAIN deps)
          /\ Ready(deps, d, Append(stack, n), f[i])
      BY <2>1, <2>2, <2>5, InnerReady
    <3>3. Cardinality((DOMAIN deps) \ f[i].visiting) < k
      BY <1>2, <2>1
    <3>4. Done(deps, d, f[i], f[i + 1])
      <4> HIDE DEF d
      <4>1. d \in DOMAIN deps
        BY <2>5 DEF d
      <4>2. QED
        BY <2>2, <3>1, <3>2, <3>3, <4>1 DEF Deep
    <3>5. /\ f[i + 1].visiting = f[i].visiting
          /\ f[i].visited \subseteq f[i + 1].visited /\ f[i].cycles \subseteq f[i + 1].cycles
          /\ Sound(deps, f[i + 1]) /\ Complete(deps, f[i + 1])
          /\ f[i + 1].cycles = {} => d \in f[i + 1].visited
      BY <3>4 DEF Done
    <3>6. ASSUME f[i + 1].cycles = {}, NEW j \in 1..i + 1, deps[n][j] \in DOMAIN deps
          PROVE  deps[n][j] \in f[i + 1].visited
      <4>1. CASE j = i + 1
        BY <3>5, <3>6, <4>1
      <4>2. CASE j \in 1..i
        <5>1. f[i].cycles = {}
          BY <3>5, <3>6
        <5>2. deps[n][j] \in f[i].visited
          BY <2>1, <3>6, <4>2, <5>1
        <5>3. QED
          BY <3>5, <5>2
      <4>3. QED
        BY <2>3, <4>1, <4>2
    <3>7. QED
      BY <2>1, <3>5, <3>6
  <2>6. QED
    BY <2>4, <2>5
<1> HIDE DEF T
<1>5. Nat \subseteq T
  BY <1>3, <1>4, NatInd
<1>6. After(m) /\ f[m] \in Search(deps)
  <2>1. m \in T /\ m <= m /\ m \in 0..m
    BY <1>0, <1>5
  <2>2. QED
    BY <1>1, <2>1 DEF T, IsRounds
<1> DEFINE r == Left(n, f[m])
<1>7. /\ r.visiting = f[m].visiting \ {n} /\ r.visited = f[m].visited \cup {n}
      /\ r.cycles = f[m].cycles
  BY <1>6 DEF Left, Search
<1>8. Complete(deps, r)
  <2> SUFFICES ASSUME f[m].cycles = {} PROVE Settled(deps, f[m].visited \cup {n})
    BY <1>7 DEF Complete
  <2>1. Settled(deps, f[m].visited)
    BY <1>6 DEF Complete
  <2>2. ASSUME NEW d \in DOMAIN deps, Arc(deps, n, d) PROVE d \in f[m].visited
    <3>1. PICK j \in 1..m : d = deps[n][j]
      BY <1>0, <2>2 DEF Arc, Range
    <3>2. QED
      BY <1>6, <3>1
  <2>3. f[m].visited \subseteq DOMAIN deps
    BY <1>6 DEF Search
  <2> DEFINE V == f[m].visited
  <2> HIDE DEF V
  <2>4. V \subseteq DOMAIN deps /\ Settled(deps, V) /\ \A d \in DOMAIN deps : Arc(deps, n, d) => d \in V
    BY <2>1, <2>2, <2>3 DEF V
  <2>5. Settled(deps, V \cup {n})
    BY <2>4, SettleOneMore
  <2>6. QED
    BY <2>5 DEF V
<1>9. Sound(deps, r)
  BY <1>6, <1>7 DEF Sound
<1>10. r.visiting = st.visiting /\ st.visited \subseteq r.visited /\ st.cycles \subseteq r.cycles
  BY <1>6, <1>7
<1>11. Descend(deps, inner, n, stack, st) = r
  BY <1>1
<1> HIDE DEF r
<1>12. QED
  BY <1>7, <1>8, <1>9, <1>10, <1>11 DEF Done
\* A search with calls as deep as there are names to enter is right.
LEMMA WalkDone ==
    ASSUME NEW deps, IsGraph(deps)
    PROVE  /\ Walk(deps) \in [Call(deps) -> Search(deps)]
           /\ \A n \in DOMAIN deps, s \in Seq(DOMAIN deps), st \in Search(deps) :
                Ready(deps, n, s, st) => Done(deps, n, st, Walk(deps)[<<n, s, st>>])
<1> DEFINE m == Cardinality(DOMAIN deps) + 1
<1>0. m \in Nat /\ Cardinality(DOMAIN deps) \in Nat
  BY FS_CardinalityType DEF IsGraph
<1>1. PICK f : Walk(deps) = f[m] /\ IsWalk(f, deps)
  BY WalkIs
<1> DEFINE T == {k \in Nat : k <= m => Deep(deps, f[k], k)}
<1>2. 0 \in T
  <2> SUFFICES ASSUME NEW n \in DOMAIN deps, NEW s \in Seq(DOMAIN deps), NEW st \in Search(deps),
                      Cardinality((DOMAIN deps) \ st.visiting) < 0
               PROVE  FALSE
    BY DEF Deep
  <2>1. IsFiniteSet((DOMAIN deps) \ st.visiting)
    <3>1. IsFiniteSet(DOMAIN deps) /\ (DOMAIN deps) \ st.visiting \in SUBSET DOMAIN deps
      BY DEF IsGraph
    <3>2. QED
      BY <3>1, FS_Subset
  <2>2. Cardinality((DOMAIN deps) \ st.visiting) \in Nat
    BY <2>1, FS_CardinalityType
  <2>3. QED
    BY <2>2
<1>3. ASSUME NEW k \in Nat, k \in T PROVE k + 1 \in T
  <2> SUFFICES ASSUME k + 1 <= m PROVE Deep(deps, f[k + 1], k + 1)
    OBVIOUS
  <2>1. k \in 0..m /\ k + 1 \in 1..m /\ (k + 1) - 1 = k /\ Deep(deps, f[k], k)
    BY <1>0, <1>3
  <2>2. f[k] \in [Call(deps) -> Search(deps)] /\ f[k + 1] = Deeper(deps, f[k])
    BY <1>1, <2>1 DEF IsWalk
  <2> SUFFICES ASSUME NEW n \in DOMAIN deps, NEW s \in Seq(DOMAIN deps), NEW st \in Search(deps),
                      Ready(deps, n, s, st), Cardinality((DOMAIN deps) \ st.visiting) < k + 1
               PROVE  Done(deps, n, st, f[k + 1][<<n, s, st>>])
    BY DEF Deep
  <2>3. f[k + 1][<<n, s, st>>] = Visit(deps, f[k], n, s, st)
    <3>1. <<n, s, st>> \in Call(deps)
      BY CallParts
    <3>2. QED
      BY <2>2, <3>1 DEF Deeper
  <2>4. CASE n \in st.visiting
    <3>1. Done(deps, n, st, Close(n, s, st))
      BY <2>4, CloseDone
    <3>2. QED
      BY <2>3, <2>4, <3>1 DEF Visit
  <2>5. CASE n \notin st.visiting /\ n \in st.visited
    <3>1. Done(deps, n, st, st)
      BY <2>5 DEF Done, Ready
    <3>2. QED
      BY <2>3, <2>5, <3>1 DEF Visit
  <2>6. CASE n \notin st.visiting /\ n \notin st.visited
    <3> DEFINE inner == f[k]
    <3> HIDE DEF inner
    <3>1. inner \in [Call(deps) -> Search(deps)] /\ Deep(deps, inner, k)
      BY <2>1, <2>2 DEF inner
    <3>2. Done(deps, n, st, Descend(deps, inner, n, s, st))
      BY <2>6, <3>1, DescendDone
    <3>3. Visit(deps, inner, n, s, st) = Descend(deps, inner, n, s, st)
      BY <2>6 DEF Visit
    <3>4. QED
      BY <2>3, <3>2, <3>3 DEF inner
  <2>7. QED
    BY <2>4, <2>5, <2>6
<1> HIDE DEF T
<1>4. Nat \subseteq T
  BY <1>2, <1>3, NatInd
<1>5. Deep(deps, f[m], m)
  BY <1>0, <1>4 DEF T
<1>6. Walk(deps) \in [Call(deps) -> Search(deps)]
  <2>1. m \in 0..m
    BY <1>0
  <2>2. QED
    BY <1>1, <2>1 DEF IsWalk
<1>7. ASSUME NEW st \in Search(deps) PROVE Cardinality((DOMAIN deps) \ st.visiting) < m
  <2>1. IsFiniteSet(DOMAIN deps) /\ (DOMAIN deps) \ st.visiting \in SUBSET DOMAIN deps
    BY DEF IsGraph
  <2>2. /\ IsFiniteSet((DOMAIN deps) \ st.visiting)
        /\ Cardinality((DOMAIN deps) \ st.visiting) <= Cardinality(DOMAIN deps)
    BY <2>1, FS_Subset
  <2>3. Cardinality((DOMAIN deps) \ st.visiting) \in Nat
    BY <2>2, FS_CardinalityType
  <2>4. QED
    BY <1>0, <2>2, <2>3
<1>8. QED
  BY <1>1, <1>5, <1>6, <1>7 DEF Deep

-----------------------------------------------------------------------------
\* The loop over the names, in some order that has them all.
LEMMA DepsIsGraph ==
    ASSUME CellsTypeOK
    PROVE  IsGraph(DepsOf) /\ DOMAIN DepsOf \subseteq Names
<1> DEFINE named == {cells[i].name : i \in DOMAIN cells} \ {Unnamed}
           I(n) == {i \in DOMAIN cells : cells[i].name = n}
<1>0. Len(cells) \in Nat /\ DOMAIN cells = 1..Len(cells)
  BY CellsFacts
<1>1. DepsOf = [n \in named |-> cells[Max(I(n))].deps]
  BY DEF DepsOf
<1>2. ASSUME NEW n \in named PROVE cells[Max(I(n))].deps \in Seq(Names)
  <2> DEFINE J == I(n)
  <2>1. J \in SUBSET Nat /\ J # {} /\ \A x \in J : x <= Len(cells)
    BY <1>0
  <2>2. J \subseteq 1..Len(cells)
    BY <1>0
  <2> HIDE DEF J
  <2>3. Max(J) \in J
    BY <1>0, <2>1, MaxFacts
  <2>4. cells[Max(J)].deps \in Seq(Names)
    BY <2>2, <2>3, CellKind
  <2>5. QED
    BY <2>4 DEF J
<1>3. named \subseteq Names
  BY <1>0, CellKind
<1>4. IsFiniteSet(named)
  <2>1. named \in SUBSET NamesFrom(Unnamed)
    BY <1>0 DEF NamesFrom
  <2>2. IsFiniteSet(NamesFrom(Unnamed))
    BY NamesBound
  <2> HIDE DEF named
  <2>3. QED
    BY <2>1, <2>2, FS_Subset
<1> HIDE DEF named, I
<1>5. DOMAIN DepsOf = named /\ \A n \in named : DepsOf[n] = cells[Max(I(n))].deps
  BY <1>1
<1>6. QED
  BY <1>2, <1>3, <1>4, <1>5 DEF IsGraph

\* An order of the names has all of them.
LEMMA OrderHasAll ==
    ASSUME NEW N, IsFiniteSet(N), NEW order \in SetToSeqs(N)
    PROVE  /\ order \in Seq(N) /\ Len(order) = Cardinality(N) /\ Len(order) \in Nat
           /\ \A n \in N : \E i \in 1..Len(order) : order[i] = n
<1> DEFINE m == Cardinality(N)  D == 1..m
<1>1. m \in Nat
  BY FS_CardinalityType
<1>2. order \in [D -> N] /\ \A i, j \in D : i # j => order[i] # order[j]
  BY DEF SetToSeqs
<1>3. IsFiniteSet(D) /\ Cardinality(D) = m
  BY <1>1, FS_Interval
<1>4. order \in Injection(D, N)
  BY <1>2 DEF Injection, IsInjective
<1>5. order \in Surjection(D, N)
  <2> HIDE DEF D
  <2>1. (Cardinality(D) = Cardinality(N)) <=> order \in Surjection(D, N)
    BY <1>4, FS_Injection
  <2>2. QED
    BY <1>3, <2>1
<1>6. \A n \in N : \E i \in D : order[i] = n
  BY <1>5 DEF Surjection
<1>7. order \in Seq(N) /\ Len(order) = m
  BY <1>1, <1>2
<1>8. QED
  BY <1>1, <1>6, <1>7
Nothing == [visiting |-> {}, visited |-> {}, cycles |-> {}]

IsTour(f, deps, order) ==
    /\ \A i \in 0..Len(order) : f[i] \in Search(deps)
    /\ f[0] = Nothing
    /\ \A i \in 1..Len(order) : f[i] = walk(deps, f[i - 1], order[i])

LEMMA TourIs ==
    ASSUME IsGraph(DepsOf), NEW order \in Seq(DOMAIN DepsOf)
    PROVE  \E f : DependencyCycles(order) = f[Len(order)].cycles /\ IsTour(f, DepsOf, order)
<1> DEFINE deps == DepsOf
           m == Len(order)  S == Search(deps)
           F == [p \in (1..m) \X S |-> walk(deps, p[2], order[p[1]])]
           Eq(f) == f = [i \in 0..m |->
                           IF i = 0 THEN [visiting |-> {}, visited |-> {}, cycles |-> {}]
                           ELSE walk(deps, f[i - 1], order[i])]
           r == CHOOSE f : Eq(f)
<1>1. m \in Nat /\ \A i \in 1..m : order[i] \in DOMAIN deps
  OBVIOUS
<1>2. ASSUME NEW i \in 1..m, NEW x \in S PROVE walk(deps, x, order[i]) \in S
  <2> HIDE DEF deps
  <2>1. IsGraph(deps) /\ order[i] \in DOMAIN deps /\ <<>> \in Seq(DOMAIN deps)
    BY <1>1 DEF deps
  <2>2. <<order[i], <<>>, x>> \in Call(deps)
    BY <2>1, CallParts
  <2>3. Walk(deps) \in [Call(deps) -> Search(deps)]
    BY <2>1, WalkDone
  <2>4. QED
    BY <2>2, <2>3 DEF walk
<1>3. Nothing \in S
  BY DEF Search, Nothing
<1>4. F \in [(1..m) \X S -> S] /\ \A i \in 1..m, x \in S : F[<<i, x>>] = walk(deps, x, order[i])
  <2> HIDE DEF deps
  <2>1. QED
    BY <1>2
<1>5. \A f : Eq(f) <=> f = [i \in 0..m |-> IF i = 0 THEN Nothing ELSE walk(deps, f[i - 1], order[i])]
  BY DEF Nothing
<1>8. DependencyCycles(order) = r[m].cycles
  BY DEF DependencyCycles
<1> HIDE DEF F, S, deps
<1>6. \E f : Eq(f)
  <2>1. PICK f \in [0..m -> S] : IsLoop(f, m, Nothing, F)
    <3> HIDE DEF m
    <3>1. QED
      BY <1>1, <1>3, <1>4, LoopExists
  <2>2. f = [i \in 0..m |-> f[i]]
    OBVIOUS
  <2>3. ASSUME NEW i \in 0..m PROVE f[i] = IF i = 0 THEN Nothing ELSE walk(deps, f[i - 1], order[i])
    <3>1. CASE i = 0
      BY <2>1, <3>1 DEF IsLoop
    <3>2. CASE i # 0
      <4>1. i \in 1..m /\ i - 1 \in 0..m
        BY <1>1, <3>2
      <4>2. QED
        BY <1>4, <2>1, <3>2, <4>1 DEF IsLoop
    <3>3. QED
      BY <3>1, <3>2
  <2>4. Eq(f)
    <3> HIDE DEF Eq, m
    <3>1. f = [i \in 0..m |-> IF i = 0 THEN Nothing ELSE walk(deps, f[i - 1], order[i])]
      BY <2>2, <2>3
    <3>2. QED
      BY <1>5, <3>1
  <2>5. QED
    BY <2>4
<1>7. Eq(r)
  <2> HIDE DEF Eq
  <2>1. QED
    BY <1>6
<1> HIDE DEF r
<1>9. r = [i \in 0..m |-> IF i = 0 THEN Nothing ELSE walk(deps, r[i - 1], order[i])]
  <2> HIDE DEF Eq, m
  <2>1. QED
    BY <1>5, <1>7
<1> HIDE DEF Eq, m
<1>10. r[0] = Nothing /\ \A i \in 1..m : r[i] = walk(deps, r[i - 1], order[i])
  <2>1. 0 \in 0..m /\ \A i \in 1..m : i \in 0..m /\ i # 0
    BY <1>1
  <2>2. QED
    BY <1>9, <2>1
<1>11. \A i \in 0..m : r[i] \in S
  <2>1. \A i \in 1..m : r[i - 1] \in S => r[i] = F[<<i, r[i - 1]>>]
    BY <1>4, <1>10
  <2>2. IsLoopIn(S, r, m, Nothing, F)
    BY <1>10, <2>1 DEF IsLoopIn
  <2>3. F \in [(1..m) \X S -> S]
    BY <1>4
  <2>4. QED
    BY <1>1, <1>3, <2>2, <2>3, LoopTypes
<1>12. IsTour(r, DepsOf, order)
  BY <1>10, <1>11 DEF IsTour, m, S, deps
<1>13. QED
  BY <1>8, <1>12 DEF m

\* After a tour of all names no cycle is left, and what was found is one.
LEMMA TourFinds ==
    ASSUME NEW deps, IsGraph(deps), NEW order \in SetToSeqs(DOMAIN deps),
           NEW f, IsTour(f, deps, order)
    PROVE  /\ f[Len(order)].cycles # {} <=> Cyclic(deps)
           /\ \A c \in f[Len(order)].cycles : IsCycle(deps, c)
<1> DEFINE m == Len(order)
           After(i) == /\ f[i].visiting = {}
                       /\ Sound(deps, f[i]) /\ Complete(deps, f[i])
                       /\ f[i].cycles = {} => \A j \in 1..i : order[j] \in f[i].visited
           T == {i \in Nat : i <= m => After(i)}
<1>0. /\ order \in Seq(DOMAIN deps) /\ m \in Nat
      /\ \A n \in DOMAIN deps : \E i \in 1..m : order[i] = n
  <2> DEFINE N == DOMAIN deps
  <2>1. IsFiniteSet(N) /\ order \in SetToSeqs(N)
    BY DEF IsGraph
  <2> HIDE DEF N
  <2>2. /\ order \in Seq(N) /\ Len(order) \in Nat
        /\ \A n \in N : \E i \in 1..Len(order) : order[i] = n
    BY <2>1, OrderHasAll
  <2>3. QED
    BY <2>2 DEF N
<1>1. 0 \in T
  <2>1. f[0].visiting = {} /\ f[0].visited = {} /\ f[0].cycles = {}
    BY DEF IsTour, Nothing
  <2>2. Sound(deps, f[0]) /\ Complete(deps, f[0])
    BY <2>1 DEF Sound, Complete, Settled
  <2>3. QED
    BY <2>1, <2>2
<1>2. ASSUME NEW i \in Nat, i \in T PROVE i + 1 \in T
  <2> SUFFICES ASSUME i + 1 <= m PROVE After(i + 1)
    OBVIOUS
  <2>1. i + 1 \in 1..m /\ (i + 1) - 1 = i /\ i \in 0..m /\ After(i)
    <3>1. m \in Nat
      BY <1>0
    <3> HIDE DEF After, m
    <3>2. i + 1 \in 1..m /\ (i + 1) - 1 = i /\ i \in 0..m /\ i <= m
      BY <3>1
    <3>3. QED
      BY <1>2, <3>2
  <2> DEFINE n == order[i + 1]
  <2>2. n \in DOMAIN deps /\ <<>> \in Seq(DOMAIN deps)
    BY <1>0, <2>1
  <2>3. f[i] \in Search(deps) /\ f[i + 1] = Walk(deps)[<<n, <<>>, f[i]>>]
    BY <2>1 DEF IsTour, walk
  <2> HIDE DEF n
  <2>4. Ready(deps, n, <<>>, f[i])
    <3>1. Range(<<>>) = {} /\ Len(<<>>) = 0 /\ 1..(0 - 1) = {}
      BY DEF Range
    <3>2. QED
      BY <2>1, <3>1 DEF Ready
  <2>5. Done(deps, n, f[i], f[i + 1])
    BY <2>2, <2>3, <2>4, WalkDone
  <2>6. ASSUME f[i + 1].cycles = {}, NEW j \in 1..i + 1 PROVE order[j] \in f[i + 1].visited
    <3>1. CASE j = i + 1
      BY <2>5, <2>6, <3>1 DEF Done, n
    <3>2. CASE j # i + 1
      <4>1. j \in 1..i
        BY <3>2
      <4>2. f[i].cycles = {}
        BY <2>5, <2>6 DEF Done
      <4>3. QED
        BY <2>1, <2>5, <4>1, <4>2 DEF Done
    <3>3. QED
      BY <3>1, <3>2
  <2>7. QED
    BY <2>1, <2>5, <2>6 DEF Done
<1> HIDE DEF T
<1>3. Nat \subseteq T
  BY <1>1, <1>2, NatInd
<1>4. After(m) /\ f[m] \in Search(deps)
  <2>1. m \in T /\ m <= m /\ m \in 0..m
    BY <1>0, <1>3
  <2>2. QED
    BY <2>1 DEF T, IsTour
<1>5. ASSUME f[m].cycles = {} PROVE ~Cyclic(deps)
  <2>1. f[m].visited = DOMAIN deps
    <3>1. f[m].visited \subseteq DOMAIN deps
      BY <1>4 DEF Search
    <3>2. ASSUME NEW n \in DOMAIN deps PROVE n \in f[m].visited
      <4>1. PICK j \in 1..m : order[j] = n
        BY <1>0
      <4>2. order[j] \in f[m].visited
        BY <1>4, <1>5
      <4>3. QED
        BY <4>1, <4>2
    <3>3. QED
      BY <3>1, <3>2
  <2>2. Settled(deps, DOMAIN deps)
    BY <1>4, <1>5, <2>1 DEF Complete
  <2>3. QED
    BY <2>2, SettledIsAcyclic
<1>6. ASSUME NEW c \in f[m].cycles PROVE Cyclic(deps) /\ IsCycle(deps, c)
  <2>1. c \in Seq(DOMAIN deps)
    BY <1>4 DEF Search
  <2>2. IsCycle(deps, c)
    BY <1>4 DEF Sound
  <2>3. QED
    BY <2>1, <2>2, CycleIsCyclic
<1>7. QED
  BY <1>5, <1>6

LEMMA CyclesFacts ==
    ASSUME CellsTypeOK, NEW order \in SetToSeqs(DOMAIN DepsOf)
    PROVE  /\ DependencyCycles(order) # {} <=> Cyclic(DepsOf)
           /\ \A c \in DependencyCycles(order) : IsCycle(DepsOf, c)
<1> DEFINE deps == DepsOf
<1>1. IsGraph(deps)
  BY DepsIsGraph
<1>2. order \in Seq(DOMAIN deps)
  <2> DEFINE N == DOMAIN deps
  <2>1. IsFiniteSet(N) /\ order \in SetToSeqs(N)
    BY <1>1 DEF IsGraph
  <2> HIDE DEF N
  <2>2. order \in Seq(N)
    BY <2>1, OrderHasAll
  <2>3. QED
    BY <2>2 DEF N
<1>3. PICK f : DependencyCycles(order) = f[Len(order)].cycles /\ IsTour(f, deps, order)
  BY <1>1, <1>2, TourIs
<1>4. order \in SetToSeqs(DOMAIN deps)
  OBVIOUS
<1> HIDE DEF deps
<1>5. /\ f[Len(order)].cycles # {} <=> Cyclic(deps)
      /\ \A c \in f[Len(order)].cycles : IsCycle(deps, c)
  BY <1>1, <1>3, <1>4, TourFinds
<1>6. QED
  BY <1>3, <1>5 DEF deps

\* The search for cycles (DependencyCycles) is right for any notebook and whatever
\* order the map gives the names in: it reports a cycle exactly when there is one,
\* and each that it reports is one.
THEOREM CyclesAreFoundCorrect == CellsSpec => []CyclesAreFound
<1>1. CellsTypeOK => CyclesAreFound
  <2> SUFFICES ASSUME CellsTypeOK, NEW order \in SetToSeqs(DOMAIN DepsOf)
               PROVE  /\ DependencyCycles(order) # {} <=> Cyclic(DepsOf)
                      /\ \A c \in DependencyCycles(order) :
                           /\ Len(c) > 1 /\ c[1] = c[Len(c)]
                           /\ \A i \in 1..(Len(c) - 1) : Arc(DepsOf, c[i], c[i + 1])
    BY DEF CyclesAreFound
  <2>1. QED
    BY CyclesFacts DEF IsCycle
<1>2. QED
  BY <1>1, CellsTypeCorrect, PTL
-----------------------------------------------------------------------------
\* What is evaluated.
IsEvaluation(f, wanted) ==
    /\ \A i \in 0..Len(cells) : f[i] \in Seq(1..MaxCells)
    /\ f[0] = <<>>
    /\ \A i \in 1..Len(cells) : f[i] = IF cells[i].id \in wanted THEN Append(f[i - 1], cells[i].id)
                                       ELSE f[i - 1]

LEMMA EvaluationIs ==
    ASSUME CellsTypeOK, NEW name, NEW order
    PROVE  \E f : /\ EvaluateDownstream(name, order) =
                       IF DependencyCycles(order) # {} THEN <<>> ELSE f[Len(cells)]
                  /\ IsEvaluation(f, Downstream(name))
<1> DEFINE m == Len(cells)  S == Seq(1..MaxCells)  W == Downstream(name)
           Next1(i, x) == IF cells[i].id \in W THEN Append(x, cells[i].id) ELSE x
           F == [p \in (1..m) \X S |-> Next1(p[1], p[2])]
           Eq(f) == f = [i \in 0..m |->
                           IF i = 0 THEN <<>>
                           ELSE IF cells[i].id \in Downstream(name) THEN Append(f[i - 1], cells[i].id)
                           ELSE f[i - 1]]
           r == CHOOSE f : Eq(f)
<1>1. m \in Nat
  BY CellsFacts
<1>2. ASSUME NEW i \in 1..m, NEW x \in S PROVE Next1(i, x) \in S
  <2>1. cells[i].id \in 1..MaxCells
    BY CellKind
  <2> DEFINE e == cells[i].id
  <2> HIDE DEF e
  <2>2. Append(x, e) \in Seq(1..MaxCells)
    BY <2>1 DEF e
  <2>3. QED
    BY <2>2 DEF e
<1>3. <<>> \in S
  OBVIOUS
<1>4. F \in [(1..m) \X S -> S] /\ \A i \in 1..m, x \in S : F[<<i, x>>] = Next1(i, x)
  <2> HIDE DEF Next1, S, m
  <2>1. QED
    BY <1>2
<1>5. \A f : Eq(f) <=> f = [i \in 0..m |-> IF i = 0 THEN <<>> ELSE Next1(i, f[i - 1])]
  OBVIOUS
<1>8. EvaluateDownstream(name, order) = IF DependencyCycles(order) # {} THEN <<>> ELSE r[m]
  BY DEF EvaluateDownstream
<1> HIDE DEF F, S, Next1
<1>6. \E f : Eq(f)
  <2>1. PICK f \in [0..m -> S] : IsLoop(f, m, <<>>, F)
    <3> HIDE DEF m
    <3>1. QED
      BY <1>1, <1>3, <1>4, LoopExists
  <2>2. f = [i \in 0..m |-> f[i]]
    OBVIOUS
  <2>3. ASSUME NEW i \in 0..m PROVE f[i] = IF i = 0 THEN <<>> ELSE Next1(i, f[i - 1])
    <3>1. CASE i = 0
      BY <2>1, <3>1 DEF IsLoop
    <3>2. CASE i # 0
      <4>1. i \in 1..m /\ i - 1 \in 0..m
        BY <1>1, <3>2
      <4>2. QED
        BY <1>4, <2>1, <3>2, <4>1 DEF IsLoop
    <3>3. QED
      BY <3>1, <3>2
  <2>4. Eq(f)
    <3> HIDE DEF Eq, m
    <3>1. f = [i \in 0..m |-> IF i = 0 THEN <<>> ELSE Next1(i, f[i - 1])]
      BY <2>2, <2>3
    <3>2. QED
      BY <1>5, <3>1
  <2>5. QED
    BY <2>4
<1>7. Eq(r)
  <2> HIDE DEF Eq
  <2>1. QED
    BY <1>6
<1> HIDE DEF r
<1>9. r = [i \in 0..m |-> IF i = 0 THEN <<>> ELSE Next1(i, r[i - 1])]
  <2> HIDE DEF Eq, m
  <2>1. QED
    BY <1>5, <1>7
<1> HIDE DEF Eq, m
<1>10. r[0] = <<>> /\ \A i \in 1..m : r[i] = Next1(i, r[i - 1])
  <2>1. 0 \in 0..m /\ \A i \in 1..m : i \in 0..m /\ i # 0
    BY <1>1
  <2>2. QED
    BY <1>9, <2>1
<1>11. \A i \in 0..m : r[i] \in S
  <2>1. \A i \in 1..m : r[i - 1] \in S => r[i] = F[<<i, r[i - 1]>>]
    BY <1>4, <1>10
  <2>2. IsLoopIn(S, r, m, <<>>, F)
    BY <1>10, <2>1 DEF IsLoopIn
  <2>3. F \in [(1..m) \X S -> S]
    BY <1>4
  <2>4. QED
    BY <1>1, <1>3, <2>2, <2>3, LoopTypes
<1>12. IsEvaluation(r, W)
  BY <1>10, <1>11 DEF IsEvaluation, m, S, Next1
<1>13. QED
  BY <1>8, <1>12 DEF m

LEMMA EvaluatedFacts ==
    ASSUME CellsTypeOK, NEW wanted, wanted \subseteq Ids(cells), NEW f, IsEvaluation(f, wanted)
    PROVE  Range(f[Len(cells)]) = wanted
<1> DEFINE m == Len(cells)
           After(i) == Range(f[i]) = wanted \cap {cells[j].id : j \in 1..i}
           T == {i \in Nat : i <= m => After(i)}
<1>0. m \in Nat /\ DOMAIN cells = 1..m
  BY CellsFacts
<1>1. 0 \in T
  <2>1. f[0] = <<>> /\ Range(<<>>) = {} /\ 1..0 = {}
    BY DEF IsEvaluation, Range
  <2>2. QED
    BY <2>1
<1>2. ASSUME NEW i \in Nat, i \in T PROVE i + 1 \in T
  <2> DEFINE e == cells[i + 1].id
  <2> SUFFICES ASSUME i + 1 <= m
               PROVE  Range(f[i + 1]) = wanted \cap {cells[j].id : j \in 1..i + 1}
    OBVIOUS
  <2>1. i + 1 \in 1..m /\ (i + 1) - 1 = i /\ i \in 0..m
    BY <1>0
  <2>2. Range(f[i]) = wanted \cap {cells[j].id : j \in 1..i}
    <3>1. i <= m
      BY <1>0
    <3> HIDE DEF After, m
    <3>2. After(i)
      BY <1>2, <3>1
    <3>3. QED
      BY <3>2 DEF After
  <2>3. f[i] \in Seq(1..MaxCells) /\ f[i + 1] = IF e \in wanted THEN Append(f[i], e) ELSE f[i]
    BY <2>1 DEF IsEvaluation
  <2>4. {cells[j].id : j \in 1..i + 1} = {cells[j].id : j \in 1..i} \cup {e}
    <3>1. 1..i + 1 = (1..i) \cup {i + 1}
      OBVIOUS
    <3>2. QED
      BY <3>1
  <2>5. e \in 1..MaxCells
    BY <2>1, CellKind
  <2> HIDE DEF e
  <2>6. Range(Append(f[i], e)) = Range(f[i]) \cup {e}
    <3> DEFINE s == f[i]  l == Len(s)
    <3>1. s \in Seq(1..MaxCells)
      BY <2>3
    <3> HIDE DEF s
    <3>2. /\ l \in Nat /\ DOMAIN s = 1..l /\ DOMAIN Append(s, e) = 1..l + 1
          /\ \A j \in 1..l : Append(s, e)[j] = s[j]
          /\ Append(s, e)[l + 1] = e
      BY <2>5, <3>1, AppendProperties
    <3>3. 1..l + 1 = (1..l) \cup {l + 1}
      BY <3>2
    <3> HIDE DEF l
    <3>4. QED
      BY <3>2, <3>3 DEF Range, s
  <2>7. QED
    BY <2>2, <2>3, <2>4, <2>6
<1> HIDE DEF T
<1>3. Nat \subseteq T
  BY <1>1, <1>2, NatInd
<1>4. Range(f[m]) = wanted \cap {cells[j].id : j \in 1..m}
  BY <1>0, <1>3 DEF T
<1>5. QED
  BY <1>0, <1>4 DEF Ids

\* Downstream takes one cell of every name that depends on n, and these are evaluated,
\* or nothing in a notebook with a cycle.
LEMMA EvaluatesDownstream ==
    ASSUME CellsTypeOK, NEW n \in Names, NEW order \in SetToSeqs(DOMAIN DepsOf)
    PROVE  Range(EvaluateDownstream(n, order)) = IF Cyclic(DepsOf) THEN {} ELSE Downstream(n)
<1>1. DependencyCycles(order) # {} <=> Cyclic(DepsOf)
  BY CyclesFacts
<1>2. PICK f : /\ EvaluateDownstream(n, order) =
                    IF DependencyCycles(order) # {} THEN <<>> ELSE f[Len(cells)]
               /\ IsEvaluation(f, Downstream(n))
  BY EvaluationIs
<1> DEFINE W == Downstream(n)
<1>3. W \subseteq Ids(cells) /\ IsEvaluation(f, W)
  BY <1>2, DownstreamFacts
<1> HIDE DEF W
<1>4. Range(f[Len(cells)]) = W
  BY <1>3, EvaluatedFacts
<1>5. Range(<<>>) = {}
  BY DEF Range
<1>6. QED
  BY <1>1, <1>2, <1>4, <1>5 DEF W

\* What is evaluated downstream of a name (Downstream, EvaluateDownstream) depends on
\* it, and every cell that does and has a name of its own is evaluated, however long
\* the chain of names between and in whatever order the cells stand; in a notebook
\* with a cycle it is nothing.
THEOREM DownstreamIsReachCorrect == CellsSpec => []DownstreamIsReach
<1>1. CellsTypeOK => DownstreamIsReach
  <2> SUFFICES ASSUME CellsTypeOK, NEW n \in Names, NEW order \in SetToSeqs(DOMAIN DepsOf)
               PROVE  LET alone(i) == \A j \in DOMAIN cells \ {i} : cells[j].name # cells[i].name
                      IN IF Cyclic(DepsOf) THEN Evaluated(n, order) = {}
                         ELSE /\ Evaluated(n, order) \subseteq DependOn(n)
                              /\ {i \in DependOn(n) : alone(i) /\ cells[i].name # n}
                                    \subseteq Evaluated(n, order)
    BY DEF DownstreamIsReach
  <2> DEFINE chosen == {i \in DOMAIN cells : cells[i].id \in Downstream(n)}
  <2>1. /\ {cells[i].name : i \in chosen} = Dependents(n)
        /\ \A i \in chosen : Range(cells[i].deps) \cap (Dependents(n) \cup {n}) # {}
    BY DownstreamFacts
  <2>2. Evaluated(n, order) = IF Cyclic(DepsOf) THEN {} ELSE chosen
    BY EvaluatesDownstream DEF Evaluated
  <2>3. chosen \subseteq DependOn(n)
    BY <2>1 DEF DependOn
  <2>4. ASSUME NEW i \in DependOn(n), cells[i].name # n,
               \A j \in DOMAIN cells \ {i} : cells[j].name # cells[i].name
        PROVE  i \in chosen
    <3>1. i \in DOMAIN cells /\ cells[i].name \in Names \cup {Unnamed}
      BY CellKind DEF DependOn
    <3>2. cells[i].name \in Dependents(n)
      <4>1. ASSUME NEW S \in SUBSET (Names \cup {Unnamed}), IsDependent(n, S)
            PROVE  cells[i].name \in S
        <5>1. Dependents(n) \subseteq S
          BY <4>1 DEF Dependents
        <5>2. Range(cells[i].deps) \cap (S \cup {n}) # {}
          BY <5>1 DEF DependOn
        <5>3. QED
          BY <2>4, <3>1, <4>1, <5>2 DEF IsDependent
      <4>2. QED
        BY <2>4, <3>1, <4>1 DEF Dependents
    <3>3. PICK j \in chosen : cells[j].name = cells[i].name
      <4> HIDE DEF chosen
      <4> QED
        BY <2>1, <3>2
    <3>4. j \in DOMAIN cells /\ j = i
      BY <2>4, <3>3
    <3>5. QED
      BY <3>3, <3>4
  <2> HIDE DEF chosen
  <2>5. QED
    BY <2>2, <2>3, <2>4
<1>2. QED
  BY <1>1, CellsTypeCorrect, PTL
=============================================================================
