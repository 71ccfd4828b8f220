------------------------------ MODULE Notebook ------------------------------
(***************************************************************************)
(* The notebook server (internal/notebook/notebook.go, Handler): requests  *)
(* that read the notebook in memory, or change and save it, the file it is *)
(* saved to, and the recovery snapshots beside the file.  A crash loses    *)
(* the memory and every request under way; the server then loads the file. *)
(*                                                                         *)
(* A notebook is the set of the changes it holds.  os.WriteFile empties    *)
(* the file first and then writes it: both can fail, the second with part  *)
(* of the data written, which Decode refuses.  os.ReadFile can fail too.   *)
(*                                                                         *)
(* Most handlers read the body of the request and write the answer with    *)
(* nbMu held, and the server has no timeouts: a client that stops sending  *)
(* or receiving keeps the lock.                                            *)
(***************************************************************************)
EXTENDS Naturals

CONSTANTS
    Requests,  \* the requests, each made once
    Handlers,  \* Handlers[q]: the kinds of handlers that request q may call
    Nobody,    \* no request
    Existing,  \* what the notebook holds before the first request
    Endless,   \* requests whose cells, when evaluated, never end
    Stalled,   \* requests whose clients may stop sending or receiving
    Absent,    \* no such file
    Empty,     \* a file that has been emptied, or a notebook without a file
    Torn,      \* a file of which only a part was written
    Seconds,   \* bound on the clock that snapshots are named by
    Crashes,   \* bound on the crashes
    Faults     \* bound on the reads and writes that fail

Content == SUBSET (Requests \cup {Existing})

Kinds == {"read", "save", "edit", "evaluate", "restore"}

ASSUME NotebookAssumption ==
    /\ Handlers \in [Requests -> SUBSET Kinds]
    /\ Nobody \notin Requests /\ Existing \notin Requests
    /\ Endless \subseteq Requests /\ Stalled \subseteq Requests
    /\ Absent \notin Content /\ Empty \notin Content /\ Torn \notin Content
    /\ Absent # Empty /\ Absent # Torn /\ Empty # Torn
    /\ Seconds \in Nat /\ Crashes \in Nat /\ Faults \in Nat

VARIABLES
    nb,       \* the notebook in memory
    nbMu,     \* who holds nbMu for writing
    readers,  \* who holds it for reading
    evalMu,   \* who holds evalMu
    pc,       \* pc[q]: where request q is
    kind,     \* kind[q]: which handler it runs
    body,     \* body[q]: the notebook a save brings, or a restore has read
    old,      \* writeSnapshot: the data it read
    stamp,    \* writeSnapshot: the second it names the snapshot by
    file,     \* the notebook's file
    snaps,    \* snaps[s]: the snapshot named by second s
    now,      \* the clock
    saved,    \* history: what the last Save wrote
    spoiled,  \* history: a notebook was wiped of which no snapshot was made
    drift,    \* history: memory was changed, or the file written, without the other
    crashes, faults

memory == <<nb, nbMu, readers, evalMu>>
request == <<pc, kind, body>>
disk == <<file, snaps>>
history == <<saved, spoiled, drift>>
bounds == <<now, crashes, faults>>
vars == <<memory, request, old, stamp, disk, history, bounds>>

Decodable(data) == data \in Content

\* Load, and Handler's own notebook for a file that is not there or not whole.
Loaded == IF Decodable(file) THEN file ELSE {}

Init ==
    /\ file \in {{Existing}, Empty}
    /\ nb = Loaded
    /\ nbMu = Nobody /\ readers = {} /\ evalMu = Nobody
    /\ pc = [q \in Requests |-> "idle"]
    /\ kind = [q \in Requests |-> "none"]
    /\ body = [q \in Requests |-> {}]
    /\ old = Empty /\ stamp = 0
    /\ snaps = [s \in 0..Seconds |-> Absent]
    /\ now = 0
    /\ saved = file /\ spoiled = FALSE /\ drift = ~Decodable(file)
    /\ crashes = 0 /\ faults = 0

Goto(q, l) == pc' = [pc EXCEPT ![q] = l]

\* Mutant of Unlock: nbMu is forgotten.
UnlockRun(q) ==
    /\ nbMu' = nbMu
    /\ readers' = readers \ {q}
    /\ evalMu' = IF evalMu = q THEN Nobody ELSE evalMu

\* The deferred unlocks.
Unlock(q) ==
    /\ nbMu' = IF nbMu = q THEN Nobody ELSE nbMu
    /\ readers' = readers \ {q}
    /\ evalMu' = IF evalMu = q THEN Nobody ELSE evalMu

Arrive(q, k) ==
    /\ pc[q] = "idle" /\ k \in Handlers[q]
    /\ kind' = [kind EXCEPT ![q] = k]
    /\ UNCHANGED <<nb, nbMu, readers, old, stamp, disk, history, bounds>>

-----------------------------------------------------------------------------
\* The page, its exports and its status are written from memory.
BeginRead(q) ==
    /\ Arrive(q, "read")
    /\ Goto(q, "locking")
    /\ UNCHANGED <<evalMu, body>>

\* /api/save brings a whole notebook, read before the lock is taken and changed from the one the client was shown.
BeginSave(q) ==
    /\ Arrive(q, "save") /\ nbMu = Nobody
    /\ body' = [body EXCEPT ![q] = nb \cup {q}]
    /\ Goto(q, "locking")
    /\ UNCHANGED evalMu

\* /api/save-sources, clear-outputs, cell and reorder change the one in memory.
BeginEdit(q) ==
    /\ Arrive(q, "edit")
    /\ Goto(q, "locking")
    /\ UNCHANGED <<evalMu, body>>

\* /api/evaluate-cell, evaluate-downstream, evaluate-all: one at a time, a
\* second one is told "notebook run already in progress".
BeginEvaluate(q) ==
    /\ Arrive(q, "evaluate") /\ evalMu = Nobody
    /\ evalMu' = q
    /\ Goto(q, "locking")
    /\ UNCHANGED body

Conflict(q) ==
    /\ Arrive(q, "evaluate") /\ evalMu # Nobody
    /\ Goto(q, "done")
    /\ UNCHANGED <<evalMu, body>>

\* /api/restore-snapshot reads one of the listed snapshots and saves it, with no
\* lock held and no snapshot made; one it cannot read ends the request.
BeginRestore(q, s) ==
    /\ Arrive(q, "restore") /\ snaps[s] # Absent
    /\ \/ /\ Decodable(snaps[s])
          /\ body' = [body EXCEPT ![q] = snaps[s]]
          /\ Goto(q, "opening")
       \/ UNCHANGED body /\ Goto(q, "done")
    /\ UNCHANGED evalMu

-----------------------------------------------------------------------------
\* nbMu.Lock(): a save brings what it changes the memory to, others read the body
\* of the request with the lock held.
Enter(q) ==
    /\ pc[q] = "locking" /\ kind[q] # "read" /\ nbMu = Nobody /\ readers = {}
    /\ nbMu' = q
    /\ IF kind[q] = "save"
         THEN nb' = body[q] /\ Goto(q, "reading")
         ELSE UNCHANGED nb /\ Goto(q, "receiving")
    /\ UNCHANGED <<readers, evalMu, kind, body, old, stamp, disk, history, bounds>>

\* nbMu.RLock()
EnterRead(q) ==
    /\ pc[q] = "locking" /\ kind[q] = "read" /\ nbMu = Nobody
    /\ readers' = readers \cup {q}
    /\ Goto(q, "replying")
    /\ UNCHANGED <<nb, nbMu, evalMu, kind, body, old, stamp, disk, history, bounds>>

\* The body is there (clear-outputs and cell have none to wait for), and names what
\* to change or to run.
Receive(q) ==
    /\ pc[q] = "receiving"
    /\ IF kind[q] = "edit"
         THEN nb' = nb \cup {q} /\ Goto(q, "reading")
         ELSE UNCHANGED nb /\ Goto(q, "running")
    /\ UNCHANGED <<nbMu, readers, evalMu, kind, body, old, stamp, disk, history, bounds>>

\* A request that names no cell, or brings what cannot be read or does not parse,
\* changes nothing.
Reject(q) ==
    /\ pc[q] = "receiving"
    /\ Goto(q, "done")
    /\ Unlock(q)
    /\ UNCHANGED <<nb, kind, body, old, stamp, disk, history, bounds>>

\* The cells have run, their source and outputs are in memory.
Ran(q) ==
    /\ pc[q] = "running"
    /\ nb' = nb \cup {q}
    /\ Goto(q, "reading")
    /\ UNCHANGED <<nbMu, readers, evalMu, kind, body, old, stamp, disk, history, bounds>>

\* The client has gone, or the sources it sent have a cycle: nothing is saved.
Dropped(q) ==
    /\ pc[q] = "running"
    /\ nb' = nb \cup {q}
    /\ drift' = TRUE
    /\ Goto(q, "done")
    /\ Unlock(q)
    /\ UNCHANGED <<kind, body, old, stamp, disk, saved, spoiled, bounds>>

-----------------------------------------------------------------------------
\* saveCurrent, and RestoreSnapshot from "opening" on.
Saving(q, l) == pc[q] = l /\ UNCHANGED <<kind, body, now, crashes>>

\* An error ends the request, but for an evaluation, which does not look at it;
\* what is in memory stays.
Failed(q) ==
    /\ faults < Faults /\ faults' = faults + 1
    /\ IF kind[q] = "evaluate"
         THEN Goto(q, "replying") /\ UNCHANGED <<nbMu, readers, evalMu>>
         ELSE Goto(q, "done") /\ Unlock(q)
    /\ UNCHANGED <<nb, old, stamp, saved>>

Continue(q, l) ==
    /\ Goto(q, l)
    /\ UNCHANGED <<memory, faults>>

\* writeSnapshot: the file is read; when it is not there or empty, no more is done.
ReadOld(q) ==
    /\ Saving(q, "reading")
    /\ old' = file
    /\ stamp' = IF file = Empty THEN stamp ELSE now
    /\ Continue(q, IF file = Empty THEN "opening" ELSE "naming")
    /\ UNCHANGED <<disk, history>>

\* An error of that read is taken for a file that is not there.
ReadFails(q) ==
    /\ Saving(q, "reading") /\ file # Empty
    /\ faults < Faults /\ faults' = faults + 1
    /\ old' = Empty
    /\ Goto(q, "opening")
    /\ UNCHANGED <<memory, stamp, disk, history>>

\* A snapshot of the same second is overwritten.
OpenSnapshot(q) ==
    /\ Saving(q, "naming")
    /\ snaps' = [snaps EXCEPT ![stamp] = Empty]
    /\ spoiled' = (spoiled \/ (Decodable(snaps[stamp]) /\ ~Decodable(old)))
    /\ Continue(q, "copying")
    /\ UNCHANGED <<old, stamp, file, saved, drift>>

CopyOld(q) ==
    /\ Saving(q, "copying")
    /\ snaps' = [snaps EXCEPT ![stamp] = old]
    /\ Continue(q, "opening")
    /\ UNCHANGED <<old, stamp, file, history>>

\* Mutant of SnapshotFails: its error is not looked at.
SnapshotIgnored(q) ==
    /\ Saving(q, "copying")
    /\ faults < Faults /\ faults' = faults + 1
    /\ Goto(q, "opening")
    /\ UNCHANGED <<memory, old, stamp, disk, history>>

\* A snapshot that cannot be written ends the request, the file is untouched.
SnapshotFails(q) ==
    /\ \/ Saving(q, "naming") /\ UNCHANGED snaps
       \/ /\ Saving(q, "copying")
          /\ \E part \in {Empty, Torn} : snaps' = [snaps EXCEPT ![stamp] = part]
    /\ drift' = TRUE
    /\ Failed(q)
    /\ UNCHANGED <<file, spoiled>>

\* What Save overwrites has a snapshot, unless a restore overwrites it, or a save
\* that read something else: a restore overtook it, or it could not read the file.
Wipe(q) ==
    spoiled' = (spoiled \/ (Decodable(file) /\ (kind[q] = "restore" \/ file # old)))

\* Save: os.WriteFile opens the file and empties it ...
Truncate(q) ==
    /\ Saving(q, "opening")
    /\ file' = Empty
    /\ Wipe(q)
    /\ Continue(q, "writing")
    /\ UNCHANGED <<old, stamp, snaps, saved, drift>>

\* ... and writes it.  A restore has yet to change the memory.
Restoring == {q \in Requests : kind[q] = "restore" /\ pc[q] \in {"opening", "writing", "loading"}}

Write(q) ==
    /\ Saving(q, "writing")
    /\ file' = IF kind[q] = "restore" THEN body[q] ELSE nb
    /\ saved' = file' /\ spoiled' = FALSE
    /\ drift' = (Restoring \ {q} # {})
    /\ Continue(q, IF kind[q] = "restore" THEN "loading" ELSE "replying")
    /\ UNCHANGED <<old, stamp, snaps>>

SaveFails(q) ==
    /\ \/ Saving(q, "opening") /\ UNCHANGED <<file, spoiled>>
       \/ /\ Saving(q, "writing")
          /\ file' \in {file, Torn}
          /\ IF file' = Torn THEN Wipe(q) ELSE UNCHANGED spoiled
    /\ drift' = TRUE
    /\ Failed(q)
    /\ UNCHANGED snaps

\* Mutant of LoadRestored: the memory keeps what it had.
LoadForgotten(q) ==
    /\ pc[q] = "loading" /\ nbMu = Nobody /\ readers = {}
    /\ nbMu' = q
    /\ Goto(q, "replying")
    /\ UNCHANGED <<nb, readers, evalMu, kind, body, old, stamp, disk, history, bounds>>

\* restore-snapshot: nbMu.Lock(); nb = loaded
LoadRestored(q) ==
    /\ pc[q] = "loading" /\ nbMu = Nobody /\ readers = {}
    /\ nbMu' = q
    /\ nb' = body[q]
    /\ Goto(q, "replying")
    /\ UNCHANGED <<readers, evalMu, kind, body, old, stamp, disk, history, bounds>>

\* The answer, with the whole notebook, is written with the lock held.  (An error is
\* short and waits in the buffer of the connection until the handler has returned.)
Reply(q) ==
    /\ pc[q] = "replying"
    /\ Goto(q, "done")
    /\ Unlock(q)
    /\ UNCHANGED <<nb, kind, body, old, stamp, disk, history, bounds>>

-----------------------------------------------------------------------------
\* The process ends; the next one loads the file, or cannot read it and starts with
\* a notebook of its own.
Crash ==
    /\ crashes < Crashes /\ crashes' = crashes + 1
    /\ \/ nb' = Loaded /\ UNCHANGED faults
       \/ nb' = {} /\ faults < Faults /\ faults' = faults + 1
    /\ nbMu' = Nobody /\ readers' = {} /\ evalMu' = Nobody
    /\ pc' = [q \in Requests |-> IF pc[q] = "idle" THEN "idle" ELSE "done"]
    /\ drift' = (nb' # file)
    /\ UNCHANGED <<kind, body, old, stamp, disk, saved, spoiled, now>>

Tick ==
    /\ now < Seconds /\ now' = now + 1
    /\ UNCHANGED <<memory, request, old, stamp, disk, history, crashes, faults>>

Begin(q) ==
    \/ BeginRead(q) \/ BeginSave(q) \/ BeginEdit(q) \/ BeginEvaluate(q) \/ Conflict(q)
    \/ \E s \in 0..Seconds : BeginRestore(q, s)

Step(q) ==
    \/ Enter(q) \/ EnterRead(q) \/ Receive(q) \/ Reject(q) \/ Ran(q) \/ Dropped(q)
    \/ ReadOld(q) \/ ReadFails(q) \/ OpenSnapshot(q) \/ CopyOld(q) \/ SnapshotFails(q)
    \/ Truncate(q) \/ Write(q) \/ SaveFails(q) \/ LoadRestored(q) \/ Reply(q)

Next ==
    \/ \E q \in Requests : Begin(q) \/ Step(q)
    \/ Crash
    \/ Tick

Spec == Init /\ [][Next]_vars

\* A handler runs on, but for one whose cells never end, and one that waits for the
\* client to send the body or to take the answer.
Stuck(q) ==
    \/ q \in Endless /\ pc[q] = "running"
    \/ q \in Stalled /\ pc[q] \in {"receiving", "replying"}

FairSpec == Spec /\ \A q \in Requests : WF_vars(~Stuck(q) /\ Step(q))

-----------------------------------------------------------------------------
\* Every variable has its type, and who holds a mutex is past taking it.
TypeOK ==
    /\ nb \in Content
    /\ pc \in [Requests -> {"idle", "locking", "receiving", "running", "reading", "naming",
                            "copying", "opening", "writing", "loading", "replying", "done"}]
    /\ kind \in [Requests -> Kinds \cup {"none"}]
    /\ body \in [Requests -> Content]
    /\ old \in Content \cup {Empty, Torn} /\ stamp \in 0..Seconds
    /\ file \in Content \cup {Empty, Torn}
    /\ snaps \in [0..Seconds -> Content \cup {Absent, Empty, Torn}]
    /\ now \in 0..Seconds
    /\ saved \in Content \cup {Empty}
    /\ spoiled \in BOOLEAN /\ drift \in BOOLEAN
    /\ crashes \in 0..Crashes /\ faults \in 0..Faults
    /\ readers \subseteq Requests
    /\ nbMu \in Requests \cup {Nobody} /\ evalMu \in Requests \cup {Nobody}

\* Wherever a save is interrupted, by a crash or by an error when it writes, what
\* was saved before is in the file or in a snapshot, also when one second names two
\* of them.  Not so when a restore wiped it, when a save could not read it first
\* (writeSnapshot is silent about that) and was then interrupted, or when a save
\* made in the same second as one that left half a file overwrote its snapshot
\* with that half.
LastSavedIsKept ==
    saved \in {file} \cup {snaps[s] : s \in 0..Seconds} \/ saved = Empty \/ spoiled

\* When nothing is under way, the file holds what the memory holds: a restart
\* changes nothing.  Not so after a run that was dropped, a save that failed, or
\* a save and a restore that overlapped; the next save mends it.
FileIsMemory ==
    (\A q \in Requests : pc[q] \in {"idle", "done"}) /\ ~drift => nb = file

\* Requests never wait for each other in a circle: who holds nbMu, for writing or
\* with others for reading, waits for no lock and is under way, and evalMu is held
\* by the one evaluation that is.
LocksComeFree ==
    /\ nbMu # Nobody => pc[nbMu] \notin {"idle", "locking", "loading", "done"} /\ readers = {}
    /\ \A q \in readers : kind[q] = "read" /\ pc[q] = "replying"
    /\ \A q \in Requests :
         evalMu = q <=> kind[q] = "evaluate" /\ pc[q] \notin {"idle", "done"}

\* Every request is answered, whatever fails on the way, unless one is stuck for
\* good: on cells that never end, or on a client that neither sends nor receives.
RequestsAnswered ==
    \A q \in Requests :
      (pc[q] # "idle" ~> pc[q] = "done") \/ <>[](\E r \in Requests : Stuck(r))

\* docs/NOTEBOOKS.md: what is overwritten has a snapshot.
OverwrittenIsKept ==
    saved \in {file} \cup {snaps[s] : s \in 0..Seconds} \/ saved = Empty
=============================================================================
