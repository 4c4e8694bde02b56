------------------------------ MODULE GitStore ------------------------------
(***************************************************************************)
(* GitStorage: the git backend of one log.  The state of the log is a tree *)
(* object that a staging ref names.  `apply` writes the objects of the new *)
(* tree and moves the ref by compare-and-swap; nothing is synced, so after *)
(* a power loss the ref may name objects that are gone, or be torn.        *)
(* `checkpoint` syncs what the newest checkpoint ref does not reach, then  *)
(* the staging ref, and then creates and syncs the next checkpoint ref;    *)
(* `new` recovers from what a crash or a power loss left.                  *)
(*                                                                         *)
(* Several processes may have the store open.  A call is a sequence of     *)
(* steps, one for each access to the repository that another process or a  *)
(* crash can come before.  A process may die between any two, a step may   *)
(* fail with an error, and a power loss stops all processes and keeps of   *)
(* everything not synced an arbitrary part.                                *)
(*                                                                         *)
(* A tree is the sequence of the batches in it.  Its objects are the tree  *)
(* object (which stands for the meta blob and the inner trees as well) and *)
(* one per batch; unchanged batches are shared with earlier trees.         *)
(***************************************************************************)
EXTENDS Naturals, FiniteSets, SequencesExt

CONSTANTS
  Procs,        \* processes; each appends batches of its own
  NoRef, Torn,  \* a ref that is absent, or unreadable after a power loss
  MaxBatches,   \* bound: batches in a tree
  MaxGen,       \* bound: checkpoint generations
  MaxLosses     \* bound: power losses

Trees == UNION {[1..n -> Procs] : n \in 1..MaxBatches}
Gens == 1..MaxGen

ASSUME GitStoreAssumption ==
  /\ {NoRef, Torn} \cap Trees = {} /\ NoRef # Torn
  /\ MaxBatches \in Nat /\ MaxGen \in Nat /\ MaxLosses \in Nat

VARIABLES
  staging, ckpts, objects,  \* the repository as the running processes see it
  stagingDisk, ckptDisk,    \* the values a power loss may leave a ref with
  objectsDisk,              \* the objects a power loss cannot take
  proc,                     \* per process, the handle and the call in progress
  losses,                   \* power losses so far
  applied,                  \* observer: trees that were applied
  acked, confirmed,         \* observers: trees checkpoint() reported durable,
                            \* after writing a checkpoint or finding one
  overlap                   \* observer: two calls of new or checkpoint overlapped

repo == <<staging, ckpts, objects>>
disk == <<stagingDisk, ckptDisk, objectsDisk>>
observers == <<applied, acked, confirmed>>
vars == <<repo, disk, proc, losses, observers, overlap>>

Batches(t) == {<<"batch", i, t[i]>> : i \in DOMAIN t}
Objects(t) == IF t \in Trees THEN {<<"tree", t>>} \cup Batches(t) ELSE {}

\* read_snap succeeds: the ref resolves and its tree and meta read.
Readable(t) == t \in Trees /\ <<"tree", t>> \in objects

\* changed_objects: what one tree has and another has not.
ChangedObjects(new, old) == Objects(new) \ Objects(old)

\* list_ckpts: the checkpoint refs that resolve, by generation.
Listed == Restrict(ckpts, {g \in Gens : ckpts[g] \in Trees})

\* The checkpoints are searched from the wrong end.
OldestGens(listed) ==
  LET valid == {g \in DOMAIN listed : Readable(listed[g])}
  IN  {g \in valid : \A h \in valid : g <= h}

\* The newest valid checkpoint, if there is one; its tree; the next generation.
NewestGens(listed) ==
  LET valid == {g \in DOMAIN listed : Readable(listed[g])}
  IN  {g \in valid : \A h \in valid : h <= g}
Newest(listed) ==
  IF NewestGens(listed) = {} THEN NoRef ELSE listed[CHOOSE g \in NewestGens(listed) : TRUE]
NextGen(listed) == Max({0} \cup DOMAIN listed) + 1

\* The handle of a process with no call in progress.
Handle(tip) ==
  [pc |-> "idle", tip |-> tip, opening |-> FALSE, listed |-> <<>>, expected |-> NoRef]
Closed == [Handle(NoRef) EXCEPT !.pc = "closed"]

Init ==
  /\ staging = NoRef /\ ckpts = [g \in Gens |-> NoRef] /\ objects = {}
  /\ stagingDisk = {NoRef} /\ ckptDisk = [g \in Gens |-> {NoRef}] /\ objectsDisk = {}
  /\ proc = [p \in Procs |-> Closed]
  /\ losses = 0 /\ applied = {} /\ acked = {} /\ confirmed = {} /\ overlap = FALSE

-----------------------------------------------------------------------------
(* Primitive steps *)

\* A ref update without a sync: the disk may keep any value since the last
\* sync, and the file may be found torn.
WriteStaging(t) ==
  /\ staging' = t
  /\ stagingDisk' = stagingDisk \cup {t, Torn}

\* Syncing a ref fixes the value it has now, whoever wrote it.  (Another
\* update between the file's sync and the directory's leaves nothing that an
\* update after both would not.)
SyncStaging == stagingDisk' = {staging}

At(p, pc) == proc[p].pc = pc
Continue(p, pc) == proc' = [proc EXCEPT ![p].pc = pc]
Return(p, handle) == proc' = [proc EXCEPT ![p] = handle]

\* What a call that returns an error leaves: no handle when it was `new`.
Error(p) == Return(p, IF proc[p].opening THEN Closed ELSE Handle(proc[p].tip))

-----------------------------------------------------------------------------
(* new: open and recover *)

OpenList(p) ==
  /\ At(p, "closed")
  /\ Return(p, [Closed EXCEPT !.pc = "readStaging", !.opening = TRUE, !.listed = Listed])
  /\ UNCHANGED <<repo, disk, losses, observers>>

\* Only the tree itself is looked at.
IntactTree(t, newest) == Readable(t)

\* Staging is kept if everything it adds over the checkpoint can be read.
Intact(t, newest) == Readable(t) /\ ChangedObjects(t, newest) \subseteq objects

OpenRead(p) ==
  LET c == Newest(proc[p].listed)
      recover(pc, tip, expected) ==
        Return(p, [Handle(tip) EXCEPT !.pc = pc, !.opening = TRUE, !.expected = expected])
  IN  /\ At(p, "readStaging")
      /\ \/ /\ c = NoRef
            /\ Return(p, IF staging = NoRef \/ Readable(staging) THEN Handle(staging) ELSE Closed)
         \/ /\ c # NoRef /\ staging = c
            /\ Return(p, Handle(c))
         \/ /\ c # NoRef /\ staging # c /\ Intact(staging, c)
            /\ recover("checkpoint", staging, NoRef)
         \/ /\ c # NoRef /\ Readable(staging) /\ ~Intact(staging, c)
            /\ recover("reset", c, staging)
         \/ /\ c # NoRef /\ staging = NoRef
            /\ recover("reset", c, NoRef)
         \/ /\ c # NoRef /\ staging # NoRef /\ ~Readable(staging)
            /\ recover("reread", c, Torn)
      /\ UNCHANGED <<repo, disk, losses, observers>>

\* A torn ref has to be torn still.
Reread(p) ==
  /\ At(p, "reread")
  /\ IF Readable(staging) THEN Error(p) ELSE Continue(p, "reset")
  /\ UNCHANGED <<repo, disk, losses, observers>>

\* Staging goes back to the checkpoint if it is as it was read; a torn value
\* cannot be compared with, so whatever it is by now is overwritten.
Reset(p) ==
  /\ At(p, "reset")
  /\ IF proc[p].expected \in {staging, Torn}
     THEN WriteStaging(proc[p].tip) /\ Continue(p, "syncReset")
     ELSE Error(p) /\ UNCHANGED <<staging, stagingDisk>>
  /\ UNCHANGED <<ckpts, objects, ckptDisk, objectsDisk, losses, observers>>

SyncReset(p) ==
  /\ At(p, "syncReset")
  /\ SyncStaging
  /\ Return(p, Handle(proc[p].tip))
  /\ UNCHANGED <<repo, ckptDisk, objectsDisk, losses, observers>>

-----------------------------------------------------------------------------
(* apply *)

Applied(p) == IF proc[p].tip = NoRef THEN <<p>> ELSE Append(proc[p].tip, p)

\* The ref is moved whatever it is by now.
ApplyBlind(p) ==
  /\ At(p, "idle")
  /\ Applied(p) \in Trees
  /\ objects' = objects \cup ChangedObjects(Applied(p), proc[p].tip)
  /\ WriteStaging(Applied(p))
  /\ Return(p, Handle(Applied(p)))
  /\ applied' = applied \cup {Applied(p)}
  /\ UNCHANGED <<ckpts, ckptDisk, objectsDisk, losses, acked, confirmed>>

\* The objects are written first, and are what an attempt that fails, or a
\* crash before the ref moves, leaves; nothing reads them then, so writing
\* them and moving the ref are one step.
Apply(p) ==
  /\ At(p, "idle")
  /\ Applied(p) \in Trees
  /\ IF staging = proc[p].tip
     THEN /\ objects' = objects \cup ChangedObjects(Applied(p), proc[p].tip)
          /\ WriteStaging(Applied(p))
          /\ Return(p, Handle(Applied(p)))
          /\ applied' = applied \cup {Applied(p)}
     ELSE UNCHANGED <<objects, staging, stagingDisk, proc, applied>>
  /\ UNCHANGED <<ckpts, ckptDisk, objectsDisk, losses, acked, confirmed>>

-----------------------------------------------------------------------------
(* checkpoint, called by a client or by `new` *)

\* A store with nothing applied is checkpointed like any other.
CheckpointBeginEmpty(p) ==
  /\ At(p, "idle") \/ At(p, "checkpoint")
  /\ IF staging = proc[p].tip THEN Continue(p, "list") ELSE Error(p)
  /\ UNCHANGED <<repo, disk, losses, observers>>

CheckpointBegin(p) ==
  /\ \/ At(p, "idle") /\ proc[p].tip # NoRef
     \/ At(p, "checkpoint")
  /\ IF staging = proc[p].tip /\ Readable(staging) THEN Continue(p, "list") ELSE Error(p)
  /\ UNCHANGED <<repo, disk, losses, observers>>

\* A tip the newest checkpoint already names needs nothing.
CheckpointList(p) ==
  /\ At(p, "list")
  /\ IF Newest(Listed) = proc[p].tip
     THEN Return(p, Handle(proc[p].tip)) /\ confirmed' = confirmed \cup ({proc[p].tip} \ acked)
     ELSE /\ proc' = [proc EXCEPT ![p].pc = "sync", ![p].listed = Listed]
          /\ UNCHANGED confirmed
  /\ UNCHANGED <<repo, disk, losses, applied, acked>>

\* The staging ref is not synced.
CheckpointSyncObjects(p) ==
  LET changed == ChangedObjects(proc[p].tip, Newest(proc[p].listed))
  IN  /\ At(p, "sync")
      /\ IF changed \subseteq objects
         THEN objectsDisk' = objectsDisk \cup changed /\ Continue(p, "create")
         ELSE Error(p) /\ UNCHANGED objectsDisk
      /\ UNCHANGED <<repo, stagingDisk, ckptDisk, losses, observers>>

\* The batches are synced and not the tree that names them.
CheckpointSyncBatches(p) ==
  LET changed == Batches(proc[p].tip)
  IN  /\ At(p, "sync")
      /\ IF changed \subseteq objects
         THEN objectsDisk' = objectsDisk \cup changed /\ SyncStaging /\ Continue(p, "create")
         ELSE Error(p) /\ UNCHANGED <<objectsDisk, stagingDisk>>
      /\ UNCHANGED <<repo, ckptDisk, losses, observers>>

\* The objects, then the ref: the ref alone has no effect to tell the two from
\* a loss that happens to spare the objects.
CheckpointSync(p) ==
  LET changed == ChangedObjects(proc[p].tip, Newest(proc[p].listed))
  IN  /\ At(p, "sync")
      /\ IF changed \subseteq objects
         THEN objectsDisk' = objectsDisk \cup changed /\ SyncStaging /\ Continue(p, "create")
         ELSE Error(p) /\ UNCHANGED <<objectsDisk, stagingDisk>>
      /\ UNCHANGED <<repo, ckptDisk, losses, observers>>

\* A torn ref is in the way of the new one.
CheckpointCreateBlocked(p) ==
  LET g == NextGen(proc[p].listed)
  IN  /\ At(p, "create") /\ g \in Gens
      /\ IF ckpts[g] # NoRef
         THEN Error(p) /\ UNCHANGED <<ckpts, ckptDisk>>
         ELSE /\ ckpts' = [ckpts EXCEPT ![g] = proc[p].tip]
              /\ ckptDisk' = [ckptDisk EXCEPT ![g] = @ \cup {proc[p].tip, Torn}]
              /\ Continue(p, "finish")
      /\ UNCHANGED <<staging, objects, stagingDisk, objectsDisk, losses, observers>>

\* The ref is created only if absent, which a torn one counts as.
CheckpointCreate(p) ==
  LET g == NextGen(proc[p].listed)
  IN  /\ At(p, "create") /\ g \in Gens
      /\ IF ckpts[g] \in Trees
         THEN Error(p) /\ UNCHANGED <<ckpts, ckptDisk>>
         ELSE /\ ckpts' = [ckpts EXCEPT ![g] = proc[p].tip]
              /\ ckptDisk' = [ckptDisk EXCEPT ![g] = @ \cup {proc[p].tip, Torn}]
              /\ Continue(p, "finish")
      /\ UNCHANGED <<staging, objects, stagingDisk, objectsDisk, losses, observers>>

\* The created ref is synced; then all earlier ones but the newest are deleted,
\* as far as that succeeds.
CheckpointFinish(p) ==
  LET created == NextGen(proc[p].listed)
      older == DOMAIN proc[p].listed \ NewestGens(proc[p].listed)
  IN  /\ At(p, "finish")
      /\ \E dropped \in SUBSET {g \in older : ckpts[g] = proc[p].listed[g]} :
           /\ ckpts' = [g \in Gens |-> IF g \in dropped THEN NoRef ELSE ckpts[g]]
           /\ ckptDisk' = [g \in Gens |-> (IF g = created THEN {ckpts[g]} ELSE ckptDisk[g])
                                         \cup (IF g \in dropped THEN {NoRef} ELSE {})]
      /\ Return(p, Handle(proc[p].tip))
      /\ acked' = acked \cup {proc[p].tip}
      /\ UNCHANGED <<staging, objects, stagingDisk, objectsDisk, losses, applied, confirmed>>

-----------------------------------------------------------------------------
(* Failures *)

\* A sync fails, a ref stays locked beyond the retries, or any other error.
Fail(p) ==
  /\ proc[p].pc \notin {"closed", "idle"}
  /\ Error(p)
  /\ UNCHANGED <<repo, disk, losses, observers>>

\* The process dies, or its handle is dropped.
Crash(p) ==
  /\ ~At(p, "closed")
  /\ Return(p, Closed)
  /\ UNCHANGED <<repo, disk, losses, observers>>

PowerLoss ==
  /\ losses < MaxLosses
  /\ losses' = losses + 1
  /\ staging' \in stagingDisk
  /\ ckpts' \in {c \in [Gens -> UNION {ckptDisk[g] : g \in Gens}] : \A g \in Gens : c[g] \in ckptDisk[g]}
  /\ \E kept \in SUBSET (objects \ objectsDisk) : objects' = objectsDisk \cup kept
  /\ stagingDisk' = {staging'}
  /\ ckptDisk' = [g \in Gens |-> {ckpts'[g]}]
  /\ objectsDisk' = objects'
  /\ proc' = [p \in Procs |-> Closed]
  /\ UNCHANGED observers

Step(p) ==
  \/ OpenList(p) \/ OpenRead(p) \/ Reread(p) \/ Reset(p) \/ SyncReset(p)
  \/ Apply(p)
  \/ CheckpointBegin(p) \/ CheckpointList(p) \/ CheckpointSync(p)
  \/ CheckpointCreate(p) \/ CheckpointFinish(p)
  \/ Fail(p) \/ Crash(p)

\* In the middle of `new` or `checkpoint`.
Busy(p) == proc[p].pc \notin {"closed", "idle"}
Overlapping == \E p, q \in Procs : p # q /\ Busy(p) /\ Busy(q)

Next ==
  /\ (\E p \in Procs : Step(p)) \/ PowerLoss
  /\ overlap' = (overlap \/ Overlapping')

Spec == Init /\ [][Next]_vars

\* A call runs to its end, whatever it returns.  A client without a handle opens
\* the store, one with a tip it was not told is durable checkpoints it, and one
\* whose tip is not the store's any more gives its handle up.
Unreported(p) == proc[p].tip \notin {NoRef} \cup acked \cup confirmed
Proceed(p) ==
  /\ At(p, "idle") => Unreported(p)
  /\ \/ OpenList(p) \/ OpenRead(p) \/ Reread(p) \/ Reset(p) \/ SyncReset(p)
     \/ CheckpointBegin(p) \/ CheckpointList(p) \/ CheckpointSync(p)
     \/ CheckpointCreate(p) \/ CheckpointFinish(p)
     \/ At(p, "idle") /\ proc[p].tip # staging /\ Crash(p)
  /\ overlap' = (overlap \/ Overlapping')

FairSpec == Spec /\ \A p \in Procs : WF_vars(Proceed(p))

-----------------------------------------------------------------------------

\* What `new`, run now and undisturbed, opens the store at.
Recovered ==
  LET c == Newest(Listed)
  IN  IF c = NoRef \/ Intact(staging, c) THEN staging ELSE c

TypeOK ==
  /\ staging \in Trees \cup {NoRef, Torn} /\ staging \in stagingDisk
  /\ stagingDisk \subseteq Trees \cup {NoRef, Torn}
  /\ ckpts \in [Gens -> Trees \cup {NoRef, Torn}]
  /\ \A g \in Gens : ckpts[g] \in ckptDisk[g] /\ ckptDisk[g] \subseteq Trees \cup {NoRef, Torn}
  /\ objectsDisk \subseteq objects /\ objects \subseteq UNION {Objects(t) : t \in Trees}
  /\ \A p \in Procs : proc[p].tip \in Trees \cup {NoRef}
  /\ losses \in 0..MaxLosses /\ acked \cup confirmed \subseteq applied /\ applied \subseteq Trees

\* No checkpoint is durable ahead of what it names: whatever value a power loss
\* may leave a checkpoint ref with, the objects of that tree survive it.
CheckpointObjectsDurable ==
  \A g \in Gens : \A t \in ckptDisk[g] \cup {ckpts[g]} : Objects(t) \subseteq objectsDisk

\* A store with a valid checkpoint opens, at a state that is complete: recovery
\* need not look at more than staging adds over the checkpoint.
RecoveryComplete ==
  Newest(Listed) # NoRef => Recovered \in Trees /\ Objects(Recovered) \subseteq objects

\* A checkpoint once written is never reverted: `new` opens at it or at a state
\* built on it, unless calls of `new` or `checkpoint` overlapped.
CheckpointKept ==
  ~overlap => \A t \in acked : Recovered \in Trees /\ IsPrefix(t, Recovered)

\* The same of every checkpoint() that returned, whether it wrote a checkpoint
\* or found one.
ReportedDurableKept ==
  \A t \in acked \cup confirmed : Recovered \in Trees /\ IsPrefix(t, Recovered)

\* No update is lost: without a power loss a complete staging tree is replaced
\* only by one that extends it, whoever writes it, unless calls of `new` or
\* `checkpoint` overlapped.
AppliedKept ==
  [][losses' = losses /\ ~overlap' /\ staging \in Trees /\ Objects(staging) \subseteq objects
       => staging' \in Trees /\ IsPrefix(staging, staging')]_vars

\* Nothing a power loss, a crash or an error leaves behind wedges the store: when
\* they stop, and nothing more is applied, the calls of clients that repeat them
\* come to succeed, and to report a state durable.  Left out are a store that
\* lost something before its first checkpoint was durable, and the bound on
\* generations.
Unrecoverable == acked = {} /\ staging # NoRef /\ ~Intact(staging, NoRef)
SettlesDurable ==
  <>[][\E p \in Procs : Proceed(p)]_vars
    => <>[](\/ \A p \in Procs : At(p, "idle") /\ ~Unreported(p)
            \/ Unrecoverable
            \/ NextGen(Listed) \notin Gens)

\* To a process that is alone, the store is a log that changes only by what it
\* applies and by power losses, which take nothing of its last checkpoint.  A
\* store torn before its first checkpoint counts as empty; it cannot be opened.
Promise == INSTANCE DurableLog WITH
  Batch   <- Procs,
  log     <- IF Readable(Recovered) THEN Recovered ELSE <<>>,
  durable <- IF acked = {} THEN <<>>
             ELSE CHOOSE t \in acked : \A s \in acked : Len(s) <= Len(t),
  past    <- {<<>>} \cup applied

DurableLogSpec == Promise!Spec
=============================================================================
