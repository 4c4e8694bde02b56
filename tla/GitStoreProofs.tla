--------------------------- MODULE GitStoreProofs ---------------------------
(***************************************************************************)
(* Theorems about GitStore, for any number of processes, any length of the *)
(* log, any number of generations and power losses, and whatever calls     *)
(* overlap; then those that need calls of `new` and `checkpoint` not to    *)
(* overlap: no checkpoint is reverted and no update lost; and one process  *)
(* sees a DurableLog.                                                      *)
(*                                                                         *)
(* The first invariant adds to TypeOK and CheckpointObjectsDurable what a  *)
(* call in progress relies on: the checkpoints it listed name durable      *)
(* trees, and past its syncs so does its own tip.  That makes syncing only *)
(* what the newest listed checkpoint does not reach enough.                *)
(*                                                                         *)
(* The second is that the disk only holds states in order.  The trees that *)
(* checkpoint refs hold or may be left with grow with the generation, and  *)
(* every value the staging ref may be left with is torn or extends all of  *)
(* them.  A call in progress is between the two: what it is about to       *)
(* checkpoint extends every checkpoint and is extended by staging.         *)
(***************************************************************************)
EXTENDS GitStore, WellFoundedInduction, TLAPS

-----------------------------------------------------------------------------
(* The inductive invariant *)

Values(known) == known \cup {NoRef, Torn}
Listings == UNION {[G -> Trees] : G \in SUBSET Gens}
Places ==
  {"closed", "readStaging", "reread", "reset", "syncReset", "idle",
   "checkpoint", "list", "sync", "create", "finish"}
Calls ==
  [pc : Places, tip : Trees \cup {NoRef}, opening : BOOLEAN, listed : Listings,
   expected : Trees \cup {NoRef, Torn}]

\* A call in progress, when the trees `known` were applied and the objects
\* `safe` are durable.
CallOK(c, known, safe) ==
  /\ c \in Calls
  /\ c.tip \in known \cup {NoRef}
  /\ \A g \in DOMAIN c.listed : c.listed[g] \in known /\ Objects(c.listed[g]) \subseteq safe
  /\ c.pc \in {"list", "sync", "create", "finish"} => c.tip # NoRef
  /\ c.pc \in {"create", "finish"} => Objects(c.tip) \subseteq safe

StagingOK ==
  /\ staging \in stagingDisk
  /\ stagingDisk \subseteq Values(applied)

CkptsOK ==
  /\ ckpts \in [Gens -> Values(applied)]
  /\ ckptDisk \in [Gens -> SUBSET Values(applied)]
  /\ \A g \in Gens : ckpts[g] \in ckptDisk[g]

ObjectsOK ==
  /\ objectsDisk \subseteq objects
  /\ objects \subseteq UNION {Objects(t) : t \in Trees}

CallsOK ==
  /\ proc \in [Procs -> Calls]
  /\ \A p \in Procs : CallOK(proc[p], applied, objectsDisk)

ReportsOK ==
  /\ applied \subseteq Trees
  /\ acked \cup confirmed \subseteq applied
  /\ losses \in 0..MaxLosses

Inv ==
  StagingOK /\ CkptsOK /\ ObjectsOK /\ CallsOK /\ ReportsOK /\ CheckpointObjectsDurable

-----------------------------------------------------------------------------
(* Lemmas *)

\* A call in progress stays right while trees are applied and objects synced.
LEMMA CallGrows ==
  ASSUME NEW c, NEW known, NEW safe, NEW known2, NEW safe2,
         CallOK(c, known, safe), known \subseteq known2, safe \subseteq safe2
  PROVE  CallOK(c, known2, safe2)
  BY DEF CallOK

\* An empty listing.
LEMMA NothingListed == <<>> \in Listings /\ DOMAIN <<>> = {}
  <1>1. <<>> = [g \in {} |-> g]
    OBVIOUS
  <1>2. [g \in {} |-> g] \in [{} -> Trees]
    OBVIOUS
  <1>3. DOMAIN <<>> = {}
    OBVIOUS
  <1> QED
    BY <1>1, <1>2, <1>3 DEF Listings

LEMMA HandleType ==
  ASSUME NEW t \in Trees \cup {NoRef}
  PROVE  /\ Handle(t) \in Calls
         /\ Handle(t).tip = t /\ Handle(t).pc = "idle" /\ Handle(t).listed = <<>>
  BY NothingListed DEF Handle, Calls, Places

LEMMA ClosedType ==
  /\ Closed \in Calls
  /\ Closed.tip = NoRef /\ Closed.pc = "closed" /\ Closed.listed = <<>>
  <1>1. \A h \in Calls : LET c == [h EXCEPT !.pc = "closed"]
                         IN  c \in Calls /\ c.pc = "closed" /\ c.tip = h.tip /\ c.listed = h.listed
    BY DEF Calls, Places
  <1>2. Handle(NoRef) \in Calls /\ Handle(NoRef).tip = NoRef /\ Handle(NoRef).listed = <<>>
    BY HandleType
  <1> QED
    BY <1>1, <1>2 DEF Closed

\* No process in a call, and one with a handle at a known tree, are right.
LEMMA HandleOK ==
  ASSUME NEW known \in SUBSET Trees, NEW safe, NEW t \in known \cup {NoRef}
  PROVE  /\ CallOK(Handle(t), known, safe)
         /\ CallOK(Closed, known, safe)
  <1>1. CallOK(Handle(t), known, safe)
    BY HandleType, NothingListed DEF CallOK
  <1>2. CallOK(Closed, known, safe)
    BY ClosedType, NothingListed DEF CallOK
  <1> QED
    BY <1>1, <1>2

\* The newest checkpoint is one of those listed.
LEMMA NewestListed ==
  ASSUME NEW listed \in Listings
  PROVE  Newest(listed) = NoRef \/ \E g \in DOMAIN listed : Newest(listed) = listed[g]
  BY DEF Newest, NewestGens

\* What list_ckpts returns are trees that were applied and are durable.
LEMMA ListedOK ==
  ASSUME Inv
  PROVE  /\ Listed \in Listings
         /\ \A g \in DOMAIN Listed : Listed[g] \in applied /\ Objects(Listed[g]) \subseteq objectsDisk
  <1> DEFINE G == {g \in Gens : ckpts[g] \in Trees}
  <1>1. Listed = [g \in G |-> ckpts[g]] /\ DOMAIN Listed = G
    BY DEF Listed, Restrict
  <1>2. Listed \in [G -> Trees]
    BY <1>1
  <1>3. Listed \in Listings
    BY <1>2 DEF Listings
  <1>4. \A g \in G : ckpts[g] \in applied
    BY GitStoreAssumption DEF Inv, CkptsOK, Values
  <1>5. \A g \in G : Objects(ckpts[g]) \subseteq objectsDisk
    BY DEF Inv, CheckpointObjectsDurable
  <1> QED
    BY <1>1, <1>3, <1>4, <1>5

\* One process moves on and the others stay as they are.
LEMMA OneCall ==
  ASSUME Inv, NEW p \in Procs, NEW c, proc' = [proc EXCEPT ![p] = c],
         CallOK(c, applied', objectsDisk'),
         applied \subseteq applied', objectsDisk \subseteq objectsDisk'
  PROVE  CallsOK'
  <1>1. c \in Calls
    BY DEF CallOK
  <1>2. proc' \in [Procs -> Calls]
    BY <1>1 DEF Inv, CallsOK
  <1>3. \A q \in Procs : CallOK(proc'[q], applied', objectsDisk')
    <2> TAKE q \in Procs
    <2>1. CASE q = p
      BY <2>1 DEF Inv, CallsOK
    <2>2. CASE q # p
      <3>1. proc'[q] = proc[q] /\ CallOK(proc[q], applied, objectsDisk)
        BY <2>2 DEF Inv, CallsOK
      <3> QED
        BY <3>1, CallGrows
    <2> QED
      BY <2>1, <2>2
  <1> QED
    BY <1>2, <1>3 DEF CallsOK

\* An error leaves a handle, or none.
LEMMA ErrorOK ==
  ASSUME Inv, NEW p \in Procs, Error(p), UNCHANGED <<applied, objectsDisk>>
  PROVE  CallsOK'
  <1>1. applied \in SUBSET Trees /\ proc[p].tip \in applied \cup {NoRef}
    BY DEF Inv, ReportsOK, CallsOK, CallOK
  <1>2. CallOK(IF proc[p].opening THEN Closed ELSE Handle(proc[p].tip), applied', objectsDisk')
    BY <1>1, HandleOK
  <1> QED
    BY <1>2, OneCall DEF Error, Return

\* A call that goes on to another place.
LEMMA ContinueOK ==
  ASSUME Inv, NEW p \in Procs, NEW pc \in Places, Continue(p, pc),
         applied' = applied, objectsDisk \subseteq objectsDisk',
         pc \in {"list", "sync", "create", "finish"} => proc[p].tip # NoRef,
         pc \in {"create", "finish"} => Objects(proc[p].tip) \subseteq objectsDisk'
  PROVE  CallsOK'
  <1> DEFINE c == [proc[p] EXCEPT !.pc = pc]
  <1>1. proc[p] \in Calls /\ CallOK(proc[p], applied, objectsDisk')
    BY CallGrows DEF Inv, CallsOK
  <1>2. /\ c \in Calls /\ c.pc = pc
        /\ c.tip = proc[p].tip /\ c.listed = proc[p].listed
    BY <1>1 DEF Calls
  <1>3. proc' = [proc EXCEPT ![p] = c]
    BY DEF Continue
  <1> HIDE DEF c
  <1>4. CallOK(c, applied', objectsDisk')
    BY <1>1, <1>2 DEF CallOK
  <1> QED
    BY <1>3, <1>4, OneCall

\* A call of `new` that found something to recover.
LEMMA RecoverOK ==
  ASSUME NEW known \in SUBSET Trees, NEW safe, NEW t \in known \cup {NoRef},
         NEW pc \in {"checkpoint", "reset", "reread"}, NEW e \in Trees \cup {NoRef, Torn}
  PROVE  CallOK([Handle(t) EXCEPT !.pc = pc, !.opening = TRUE, !.expected = e], known, safe)
  <1> DEFINE c == [Handle(t) EXCEPT !.pc = pc, !.opening = TRUE, !.expected = e]
  <1>1. \A h \in Calls : LET d == [h EXCEPT !.pc = pc, !.opening = TRUE, !.expected = e]
                         IN  d \in Calls /\ d.pc = pc /\ d.tip = h.tip /\ d.listed = h.listed
    BY DEF Calls, Places
  <1>2. c \in Calls /\ c.pc = pc /\ c.tip = t /\ c.listed = <<>>
    BY ZenonT(60), <1>1, HandleType
  <1> HIDE DEF c
  <1>3. CallOK(c, known, safe)
    BY <1>2, NothingListed DEF CallOK
  <1> QED
    BY <1>3 DEF c

\* A step that touches neither the repository nor the disk.
LEMMA Quiet ==
  ASSUME Inv, UNCHANGED <<repo, disk, losses, observers>>, CallsOK'
  PROVE  Inv'
  BY DEF Inv, repo, disk, observers, StagingOK, CkptsOK, ObjectsOK, ReportsOK, Values,
         CheckpointObjectsDurable

\* The staging ref is written.
LEMMA WriteStagingOK ==
  ASSUME Inv, NEW t \in Trees \cup {NoRef}, WriteStaging(t),
         t \in applied' \cup {NoRef}, applied \subseteq applied'
  PROVE  StagingOK'
  BY DEF Inv, StagingOK, WriteStaging, Values

-----------------------------------------------------------------------------
(* The invariant holds initially and is kept by every step. *)

LEMMA InitInv ==
  ASSUME Init
  PROVE  Inv
  <1>1. CallsOK
    <2>1. CallOK(Closed, {}, {}) /\ Closed \in Calls
      BY HandleOK, ClosedType
    <2> QED
      BY <2>1 DEF Init, CallsOK
  <1>2. StagingOK /\ CkptsOK /\ ObjectsOK /\ ReportsOK
    BY GitStoreAssumption DEF Init, StagingOK, CkptsOK, ObjectsOK, ReportsOK, Values
  <1>3. CheckpointObjectsDurable
    BY GitStoreAssumption DEF Init, CheckpointObjectsDurable, Objects
  <1> QED
    BY <1>1, <1>2, <1>3 DEF Inv

\* The steps of `new` that write nothing, and the failures.
LEMMA QuietSteps ==
  ASSUME Inv, NEW p \in Procs,
         OpenList(p) \/ OpenRead(p) \/ Reread(p) \/ CheckpointBegin(p) \/ Fail(p) \/ Crash(p)
  PROVE  Inv'
  <1>1. applied \in SUBSET Trees /\ proc[p].tip \in applied \cup {NoRef}
    BY DEF Inv, ReportsOK, CallsOK, CallOK
  <1>2. CASE OpenList(p)
    <2> DEFINE c == [Closed EXCEPT !.pc = "readStaging", !.opening = TRUE, !.listed = Listed]
    <2>1. c \in Calls /\ c.pc = "readStaging" /\ c.tip = NoRef /\ c.listed = Listed
      BY ClosedType, ListedOK DEF Calls, Places
    <2>2. proc' = [proc EXCEPT ![p] = c] /\ UNCHANGED <<applied, objectsDisk>>
      BY <1>2 DEF OpenList, Return, disk, observers
    <2> HIDE DEF c
    <2>3. CallOK(c, applied', objectsDisk')
      BY <2>1, <2>2, ListedOK DEF CallOK
    <2> QED
      BY <1>2, <2>2, <2>3, OneCall, Quiet DEF OpenList
  <1>3. CASE OpenRead(p)
    <2> DEFINE c == Newest(proc[p].listed)
    <2>1. c \in applied \cup {NoRef}
      BY NewestListed DEF Inv, CallsOK, CallOK, Calls
    <2>2. staging \in Trees \cup {NoRef, Torn}
      BY DEF Inv, StagingOK, ReportsOK, Values
    <2>3. Readable(staging) => staging \in applied
      BY GitStoreAssumption DEF Inv, StagingOK, Readable, Values
    <2>4. UNCHANGED <<repo, disk, losses, observers, applied, objectsDisk>>
      BY <1>3 DEF OpenRead, disk, observers
    <2> HIDE DEF c
    <2>5. \E d : Return(p, d) /\ CallOK(d, applied', objectsDisk')
      <3>1. CASE Return(p, IF staging = NoRef \/ Readable(staging) THEN Handle(staging) ELSE Closed)
        BY <3>1, <1>1, <2>3, <2>4, HandleOK
      <3>2. CASE Return(p, Handle(c))
        BY <3>2, <1>1, <2>1, <2>4, HandleOK
      <3>3. CASE /\ Intact(staging, c)
                 /\ Return(p, [Handle(staging) EXCEPT !.pc = "checkpoint", !.opening = TRUE,
                                                     !.expected = NoRef])
        BY <3>3, <1>1, <2>3, <2>4, RecoverOK DEF Intact
      <3>4. CASE Return(p, [Handle(c) EXCEPT !.pc = "reset", !.opening = TRUE, !.expected = staging])
        BY <3>4, <1>1, <2>1, <2>2, <2>4, RecoverOK
      <3>5. CASE Return(p, [Handle(c) EXCEPT !.pc = "reset", !.opening = TRUE, !.expected = NoRef])
        BY <3>5, <1>1, <2>1, <2>4, RecoverOK
      <3>6. CASE Return(p, [Handle(c) EXCEPT !.pc = "reread", !.opening = TRUE, !.expected = Torn])
        BY <3>6, <1>1, <2>1, <2>4, RecoverOK
      <3> QED
        BY <1>3, <3>1, <3>2, <3>3, <3>4, <3>5, <3>6 DEF OpenRead, c
    <2> QED
      BY <2>4, <2>5, OneCall, Quiet DEF Return
  <1>4. CASE Reread(p)
    BY <1>4, ErrorOK, ContinueOK, Quiet DEF Reread, disk, observers, Places
  <1>5. CASE CheckpointBegin(p)
    <2>1. Readable(staging) => staging # NoRef
      BY GitStoreAssumption DEF Readable
    <2> QED
      BY <1>5, <2>1, ErrorOK, ContinueOK, Quiet DEF CheckpointBegin, disk, observers, Places
  <1>6. CASE Fail(p)
    BY <1>6, ErrorOK, Quiet DEF Fail, disk, observers
  <1>7. CASE Crash(p)
    BY <1>7, <1>1, HandleOK, OneCall, Quiet DEF Crash, Return, disk, observers
  <1> QED
    BY <1>2, <1>3, <1>4, <1>5, <1>6, <1>7

LEMMA ResetInv ==
  ASSUME Inv, NEW p \in Procs, Reset(p) \/ SyncReset(p)
  PROVE  Inv'
  <1>1. applied \in SUBSET Trees /\ proc[p].tip \in applied \cup {NoRef}
    BY DEF Inv, ReportsOK, CallsOK, CallOK
  <1>2. UNCHANGED <<ckpts, objects, ckptDisk, objectsDisk, losses, observers>>
    BY DEF Reset, SyncReset, repo
  <1>3. /\ UNCHANGED <<applied, objectsDisk>>
        /\ CkptsOK' /\ ObjectsOK' /\ ReportsOK' /\ CheckpointObjectsDurable'
    BY <1>2 DEF Inv, observers, CkptsOK, ObjectsOK, ReportsOK, CheckpointObjectsDurable, Values
  <1>4. StagingOK'
    <2>1. CASE Reset(p) /\ WriteStaging(proc[p].tip)
      BY <2>1, <1>1, <1>3, WriteStagingOK
    <2>2. CASE Reset(p) /\ UNCHANGED <<staging, stagingDisk>>
      BY <2>2, <1>3 DEF Inv, StagingOK, Values
    <2>3. CASE SyncReset(p)
      BY <2>3, <1>3 DEF SyncReset, SyncStaging, repo, Inv, StagingOK, Values
    <2> QED
      BY <2>1, <2>2, <2>3 DEF Reset
  <1>5. CallsOK'
    <2>1. CASE Reset(p)
      BY <2>1, <1>3, ErrorOK, ContinueOK DEF Reset, Places
    <2>2. CASE SyncReset(p)
      BY <2>2, <1>1, <1>3, HandleOK, OneCall DEF SyncReset, Return
    <2> QED
      BY <2>1, <2>2
  <1> QED
    BY <1>3, <1>4, <1>5 DEF Inv

LEMMA ApplyInv ==
  ASSUME Inv, NEW p \in Procs, Apply(p)
  PROVE  Inv'
  <1>1. applied \in SUBSET Trees /\ Applied(p) \in Trees
    BY DEF Inv, ReportsOK, Apply
  <1>2. CASE staging = proc[p].tip
    <2>1. /\ applied' = applied \cup {Applied(p)}
          /\ proc' = [proc EXCEPT ![p] = Handle(Applied(p))]
          /\ objects' = objects \cup ChangedObjects(Applied(p), proc[p].tip)
          /\ WriteStaging(Applied(p))
          /\ UNCHANGED <<ckpts, ckptDisk, objectsDisk, losses, acked, confirmed>>
      BY <1>2 DEF Apply, Return
    <2>2. CallOK(Handle(Applied(p)), applied', objectsDisk')
      BY <1>1, <2>1, HandleOK
    <2>3. CallsOK'
      BY <2>1, <2>2, OneCall
    <2>4. StagingOK'
      BY <1>1, <2>1, WriteStagingOK
    <2>5. CkptsOK' /\ ReportsOK' /\ CheckpointObjectsDurable'
      BY <1>1, <2>1 DEF Inv, CkptsOK, ReportsOK, CheckpointObjectsDurable, Values
    <2>6. ObjectsOK'
      BY <1>1, <2>1 DEF Inv, ObjectsOK, ChangedObjects
    <2> QED
      BY <2>3, <2>4, <2>5, <2>6 DEF Inv
  <1>3. CASE staging # proc[p].tip
    <2>1. UNCHANGED <<repo, disk, losses, observers, proc>>
      BY <1>3 DEF Apply, repo, disk, observers
    <2>2. CallsOK'
      BY <2>1 DEF Inv, CallsOK, observers, disk
    <2> QED
      BY <2>1, <2>2, Quiet
  <1> QED
    BY <1>2, <1>3

LEMMA CheckpointListInv ==
  ASSUME Inv, NEW p \in Procs, CheckpointList(p)
  PROVE  Inv'
  <1>1. /\ applied \in SUBSET Trees /\ proc[p].tip \in applied
        /\ proc[p] \in Calls /\ proc[p].pc = "list"
    BY DEF Inv, ReportsOK, CallsOK, CallOK, CheckpointList, At
  <1>2. UNCHANGED <<repo, disk, losses, applied, acked, objectsDisk>>
    BY DEF CheckpointList, disk
  <1>3. confirmed' \subseteq confirmed \cup {proc[p].tip}
    BY DEF CheckpointList
  <1>4. StagingOK' /\ CkptsOK' /\ ObjectsOK' /\ ReportsOK' /\ CheckpointObjectsDurable'
    BY <1>1, <1>2, <1>3 DEF Inv, repo, disk, StagingOK, CkptsOK, ObjectsOK, ReportsOK, Values,
       CheckpointObjectsDurable
  <1>5. CASE Return(p, Handle(proc[p].tip))
    <2>1. CallsOK'
      BY <1>1, <1>2, <1>5, HandleOK, OneCall DEF Return
    <2> QED
      BY <1>4, <2>1 DEF Inv
  <1>6. CASE proc' = [proc EXCEPT ![p].pc = "sync", ![p].listed = Listed]
    <2> DEFINE c == [proc[p] EXCEPT !.pc = "sync", !.listed = Listed]
    <2>1. c \in Calls /\ c.pc = "sync" /\ c.tip = proc[p].tip /\ c.listed = Listed
      BY <1>1, ListedOK DEF Calls, Places
    <2>2. proc' = [proc EXCEPT ![p] = c]
      BY <1>6 DEF Inv, CallsOK
    <2> HIDE DEF c
    <2>3. proc[p].tip # NoRef
      BY DEF Inv, CallsOK, CallOK, CheckpointList, At
    <2>4. CallOK(c, applied', objectsDisk')
      BY <1>1, <1>2, <2>1, <2>3, ListedOK DEF CallOK
    <2>5. CallsOK'
      BY <1>2, <2>2, <2>4, OneCall
    <2> QED
      BY <1>4, <2>5 DEF Inv
  <1> QED
    BY <1>5, <1>6 DEF CheckpointList

\* What the newest listed checkpoint does not reach is synced, and what it
\* reaches is durable: so all of the tip is.
LEMMA CheckpointSyncInv ==
  ASSUME Inv, NEW p \in Procs, CheckpointSync(p)
  PROVE  Inv'
  <1> DEFINE newest == Newest(proc[p].listed)
             changed == ChangedObjects(proc[p].tip, newest)
  <1>1. Objects(newest) \subseteq objectsDisk
    <2>1. CASE newest = NoRef
      BY <2>1, GitStoreAssumption DEF Objects
    <2>2. CASE \E g \in DOMAIN proc[p].listed : newest = proc[p].listed[g]
      BY <2>2 DEF Inv, CallsOK, CallOK
    <2> QED
      BY <2>1, <2>2, NewestListed DEF Inv, CallsOK, Calls
  <1>2. /\ UNCHANGED <<repo, ckptDisk, losses, observers, applied>>
        /\ At(p, "sync") /\ proc[p].tip # NoRef
    BY DEF CheckpointSync, observers, Inv, CallsOK, CallOK, At
  <1>3. CASE changed \subseteq objects
    <2>1. objectsDisk' = objectsDisk \cup changed /\ SyncStaging /\ Continue(p, "create")
      BY <1>3 DEF CheckpointSync
    <2>2. Objects(proc[p].tip) \subseteq objectsDisk'
      BY <1>1, <2>1 DEF ChangedObjects
    <2>3. CallsOK'
      BY <1>2, <2>1, <2>2, ContinueOK DEF Places
    <2>4. StagingOK' /\ CkptsOK' /\ ReportsOK'
      BY <1>2, <2>1 DEF Inv, repo, observers, SyncStaging, StagingOK, CkptsOK, ReportsOK, Values
    <2>5. ObjectsOK' /\ CheckpointObjectsDurable'
      BY <1>2, <1>3, <2>1 DEF Inv, repo, ObjectsOK, CheckpointObjectsDurable
    <2> QED
      BY <2>3, <2>4, <2>5 DEF Inv
  <1>4. CASE ~(changed \subseteq objects)
    <2>1. Error(p) /\ UNCHANGED <<objectsDisk, stagingDisk>>
      BY <1>4 DEF CheckpointSync
    <2> QED
      BY <1>2, <2>1, ErrorOK, Quiet DEF disk
  <1> QED
    BY <1>3, <1>4

LEMMA CheckpointCreateInv ==
  ASSUME Inv, NEW p \in Procs, CheckpointCreate(p)
  PROVE  Inv'
  <1> DEFINE g == NextGen(proc[p].listed)
  <1>1. /\ g \in Gens /\ At(p, "create")
        /\ UNCHANGED <<staging, objects, stagingDisk, objectsDisk, losses, observers, applied>>
    BY DEF CheckpointCreate, observers
  <1>2. /\ proc[p].tip \in applied /\ proc[p].tip # NoRef
        /\ Objects(proc[p].tip) \subseteq objectsDisk
    BY <1>1 DEF Inv, CallsOK, CallOK, At
  <1>3. CASE ckpts[g] \in Trees
    <2>1. Error(p) /\ UNCHANGED <<ckpts, ckptDisk>>
      BY <1>3 DEF CheckpointCreate
    <2> QED
      BY <1>1, <2>1, ErrorOK, Quiet DEF repo, disk
  <1>4. CASE ckpts[g] \notin Trees
    <2>1. /\ ckpts' = [ckpts EXCEPT ![g] = proc[p].tip]
          /\ ckptDisk' = [ckptDisk EXCEPT ![g] = @ \cup {proc[p].tip, Torn}]
          /\ Continue(p, "finish")
      BY <1>4 DEF CheckpointCreate
    <2> HIDE DEF g
    <2>2. CallsOK'
      BY <1>1, <1>2, <2>1, ContinueOK DEF Places
    <2>3. StagingOK' /\ ObjectsOK' /\ ReportsOK'
      BY <1>1 DEF Inv, observers, StagingOK, ObjectsOK, ReportsOK, Values
    <2>4. CkptsOK'
      BY <1>1, <1>2, <2>1 DEF Inv, CkptsOK, Values
    <2>5. CheckpointObjectsDurable'
      <3>1. Objects(Torn) = {}
        BY GitStoreAssumption DEF Objects
      <3> SUFFICES ASSUME NEW h \in Gens, NEW t \in ckptDisk'[h] \cup {ckpts'[h]}
                   PROVE  Objects(t) \subseteq objectsDisk
        BY <1>1 DEF CheckpointObjectsDurable
      <3>2. CASE t \in ckptDisk[h] \cup {ckpts[h]}
        BY <3>2 DEF Inv, CheckpointObjectsDurable
      <3>3. CASE t \in {proc[p].tip, Torn}
        BY <1>2, <3>1, <3>3
      <3> QED
        BY <2>1, <3>2, <3>3 DEF Inv, CkptsOK
    <2> QED
      BY <2>2, <2>3, <2>4, <2>5 DEF Inv
  <1> QED
    BY <1>3, <1>4

LEMMA CheckpointFinishInv ==
  ASSUME Inv, NEW p \in Procs, CheckpointFinish(p)
  PROVE  Inv'
  <1> DEFINE created == NextGen(proc[p].listed)
             older == DOMAIN proc[p].listed \ NewestGens(proc[p].listed)
  <1>1. /\ proc' = [proc EXCEPT ![p] = Handle(proc[p].tip)]
        /\ acked' = acked \cup {proc[p].tip} /\ At(p, "finish")
        /\ UNCHANGED <<staging, objects, stagingDisk, objectsDisk, losses, applied, confirmed>>
    BY DEF CheckpointFinish, Return
  <1>2. applied \in SUBSET Trees /\ proc[p].tip \in applied
    BY <1>1 DEF Inv, ReportsOK, CallsOK, CallOK, At
  <1>3. CallsOK'
    BY <1>1, <1>2, HandleOK, OneCall
  <1>4. StagingOK' /\ ObjectsOK' /\ ReportsOK'
    BY <1>1, <1>2 DEF Inv, StagingOK, ObjectsOK, ReportsOK, Values
  <1>5. PICK dropped \in SUBSET {g \in older : ckpts[g] = proc[p].listed[g]} :
          /\ ckpts' = [g \in Gens |-> IF g \in dropped THEN NoRef ELSE ckpts[g]]
          /\ ckptDisk' = [g \in Gens |-> (IF g = created THEN {ckpts[g]} ELSE ckptDisk[g])
                                        \cup (IF g \in dropped THEN {NoRef} ELSE {})]
    BY DEF CheckpointFinish
  <1> HIDE DEF created, older
  <1>6. CkptsOK'
    BY <1>1, <1>5 DEF Inv, CkptsOK, Values
  <1>7. CheckpointObjectsDurable'
    <2>1. Objects(NoRef) = {}
      BY GitStoreAssumption DEF Objects
    <2> SUFFICES ASSUME NEW h \in Gens, NEW t \in ckptDisk'[h] \cup {ckpts'[h]}
                 PROVE  Objects(t) \subseteq objectsDisk
      BY <1>1 DEF CheckpointObjectsDurable
    <2>2. CASE t \in ckptDisk[h] \cup {ckpts[h]}
      BY <2>2 DEF Inv, CheckpointObjectsDurable
    <2>3. CASE t = NoRef
      BY <2>1, <2>3
    <2> QED
      BY <1>5, <2>2, <2>3
  <1> QED
    BY <1>3, <1>4, <1>6, <1>7 DEF Inv

\* A power loss leaves every ref with a value it may have been left with, and
\* only adds to what is durable.
LEMMA PowerLossInv ==
  ASSUME Inv, PowerLoss
  PROVE  Inv'
  <1>1. /\ staging' \in stagingDisk /\ stagingDisk' = {staging'}
        /\ ckptDisk' = [g \in Gens |-> {ckpts'[g]}]
        /\ objectsDisk' = objects'
        /\ losses' = losses + 1 /\ losses < MaxLosses
        /\ UNCHANGED <<applied, acked, confirmed>>
    BY DEF PowerLoss, observers
  <1>2. objectsDisk \subseteq objects' /\ objects' \subseteq objects
    BY DEF PowerLoss, Inv, ObjectsOK
  <1>3. /\ ckpts' \in [Gens -> UNION {ckptDisk[g] : g \in Gens}]
        /\ \A g \in Gens : ckpts'[g] \in ckptDisk[g]
    BY DEF PowerLoss
  <1>4. CallsOK'
    <2>1. CallOK(Closed, applied', objectsDisk') /\ Closed \in Calls
      BY <1>1, HandleOK, ClosedType DEF Inv, ReportsOK
    <2> QED
      BY <2>1 DEF PowerLoss, CallsOK
  <1>5. StagingOK' /\ ObjectsOK'
    BY <1>1, <1>2 DEF Inv, StagingOK, ObjectsOK, Values
  <1>6. ReportsOK'
    BY <1>1, GitStoreAssumption DEF Inv, ReportsOK
  <1>7. CkptsOK'
    BY <1>1, <1>3 DEF Inv, CkptsOK, Values
  <1>8. CheckpointObjectsDurable'
    BY <1>1, <1>2, <1>3 DEF Inv, CheckpointObjectsDurable
  <1> QED
    BY <1>4, <1>5, <1>6, <1>7, <1>8 DEF Inv

LEMMA StepInv ==
  ASSUME Inv, [Next]_vars
  PROVE  Inv'
  <1>1. CASE \E p \in Procs : Step(p)
    BY <1>1, QuietSteps, ResetInv, ApplyInv, CheckpointListInv, CheckpointSyncInv,
       CheckpointCreateInv, CheckpointFinishInv DEF Step
  <1>2. CASE PowerLoss
    BY <1>2, PowerLossInv
  <1>3. CASE UNCHANGED vars
    <2>1. CallsOK'
      BY <1>3 DEF Inv, CallsOK, vars, observers, disk
    <2> QED
      BY <1>3, <2>1, Quiet DEF vars
  <1> QED
    BY <1>1, <1>2, <1>3 DEF Next

LEMMA Invariance == Spec => []Inv
  <1>1. Init => Inv
    BY InitInv
  <1>2. Inv /\ [Next]_vars => Inv'
    BY StepInv
  <1> QED
    BY <1>1, <1>2, PTL DEF Spec

-----------------------------------------------------------------------------

\* Types; and no handle, ref or report ever names a tree that was not applied.
THEOREM TypeCorrect == Spec => []TypeOK
  <1>1. Inv => TypeOK
    <2> SUFFICES ASSUME Inv
                 PROVE  TypeOK
      OBVIOUS
    <2>1. Values(applied) \subseteq Trees \cup {NoRef, Torn}
      BY DEF Inv, ReportsOK, Values
    <2>2. /\ staging \in Trees \cup {NoRef, Torn} /\ staging \in stagingDisk
          /\ stagingDisk \subseteq Trees \cup {NoRef, Torn}
      BY <2>1 DEF Inv, StagingOK
    <2>3. /\ ckpts \in [Gens -> Trees \cup {NoRef, Torn}]
          /\ \A g \in Gens : ckpts[g] \in ckptDisk[g] /\ ckptDisk[g] \subseteq Trees \cup {NoRef, Torn}
      BY <2>1 DEF Inv, CkptsOK
    <2>4. \A p \in Procs : proc[p].tip \in Trees \cup {NoRef}
      BY DEF Inv, CallsOK, CallOK, ReportsOK
    <2> QED
      BY <2>2, <2>3, <2>4 DEF Inv, ObjectsOK, ReportsOK, TypeOK
  <1> QED
    BY <1>1, Invariance, PTL

\* A checkpoint ref, whatever a power loss makes of it, never names a tree with
\* an object that a power loss may take, however calls overlap and fail.
THEOREM CheckpointsNameDurableTrees == Spec => []CheckpointObjectsDurable
  <1>1. Inv => CheckpointObjectsDurable
    BY DEF Inv
  <1> QED
    BY <1>1, Invariance, PTL

\* A store with a valid checkpoint can be opened, at a complete state: what it
\* shares with the checkpoint is durable, and the rest is looked at.
THEOREM RecoveryFindsAll == Spec => []RecoveryComplete
  <1>1. Inv => RecoveryComplete
    <2> DEFINE c == Newest(Listed)
    <2> SUFFICES ASSUME Inv, c # NoRef
                 PROVE  Recovered \in Trees /\ Objects(Recovered) \subseteq objects
      BY DEF RecoveryComplete
    <2>1. c \in Trees /\ Objects(c) \subseteq objects
      BY ListedOK, NewestListed DEF Inv, ReportsOK, ObjectsOK
    <2> HIDE DEF c
    <2>2. CASE Intact(staging, c)
      BY <2>1, <2>2 DEF Recovered, Intact, Readable, ChangedObjects, c
    <2>3. CASE ~Intact(staging, c)
      BY <2>1, <2>3 DEF Recovered, c
    <2> QED
      BY <2>2, <2>3
  <1> QED
    BY <1>1, Invariance, PTL

-----------------------------------------------------------------------------
(* The order of what the disk holds *)

\* The trees a checkpoint ref holds or may be left with.
CkptTrees(g) == ckptDisk[g] \cap Trees

\* What the staging ref may be left with when it was written after t was.
After(v, t) == v = Torn \/ (v \in Trees /\ IsPrefix(t, v))

ExtendsCkpts(t) == \A g \in Gens : \A x \in CkptTrees(g) : IsPrefix(x, t)

CkptsGrow ==
  \A g, h \in Gens : \A x \in CkptTrees(g), y \in CkptTrees(h) :
    (g < h => IsPrefix(x, y)) /\ (g = h => x = y)

\* A power loss takes no generation that a later one does not replace.
NewestHeld ==
  \A g \in Gens : CkptTrees(g) # {} => \E h \in Gens : g <= h /\ ckpts[h] \in Trees

StagingAfterCkpts ==
  \A v \in stagingDisk : \A g \in Gens : \A x \in CkptTrees(g) : After(v, x)

AckedHeld ==
  \A t \in acked : \E g \in Gens : \E x \in Trees : ckptDisk[g] = {x} /\ IsPrefix(t, x)

\* Where a call of checkpoint is, when no other call is in progress.
CheckpointingOK(c) ==
  /\ c.pc \in {"readStaging", "sync", "create"} => c.listed = Listed
  /\ c.pc \in {"list", "sync", "create", "finish"} => c.tip \in Trees /\ ExtendsCkpts(c.tip)
  /\ c.pc \in {"list", "sync"} => staging \in Trees /\ IsPrefix(c.tip, staging)
  /\ c.pc \in {"create", "finish"} => \A v \in stagingDisk : After(v, c.tip)
  /\ c.pc = "finish" =>
       /\ NextGen(c.listed) \in Gens /\ ckpts[NextGen(c.listed)] = c.tip
       /\ \A g \in DOMAIN c.listed : g < NextGen(c.listed)
       /\ \A g \in Gens : CkptTrees(g) # {} => g <= NextGen(c.listed)

\* Where a call of `new` that recovers is: what it saw staging hold is still not
\* complete, or staging has moved on, or it is torn still.
RecoveringOK(c) ==
  /\ c.pc \in {"reset", "reread"} => c.tip \in Trees /\ c.tip = Newest(Listed)
  /\ c.pc = "reset" /\ c.expected \in Trees =>
       /\ staging \in Trees
       /\ IF staging = c.expected THEN ~(Objects(c.expected) \subseteq objects)
                                  ELSE Len(staging) > Len(c.expected)
  /\ c.pc = "reread" => c.expected = Torn
  /\ c.pc = "reread" \/ (c.pc = "reset" /\ c.expected = Torn) =>
       staging # NoRef /\ ~Readable(staging)

\* A handle's tree can be read, whatever overlapped.
TipsReadable == \A p \in Procs : proc[p].tip # NoRef => Readable(proc[p].tip)

DiskInOrder == CkptsGrow /\ NewestHeld /\ StagingAfterCkpts /\ AckedHeld

CallInOrder(p) == CheckpointingOK(proc[p]) /\ RecoveringOK(proc[p])

InOrder == ~Overlapping /\ DiskInOrder /\ \A p \in Procs : CallInOrder(p)

Kept == TipsReadable /\ (~overlap => InOrder)

-----------------------------------------------------------------------------
(* Prefixes *)

LEMMA TreeIsSequence ==
  ASSUME NEW t \in Trees
  PROVE  t \in Seq(Procs) /\ Len(t) \in 1..MaxBatches
  <1>1. PICK n \in 1..MaxBatches : t \in [1..n -> Procs]
    BY DEF Trees
  <1>2. t \in Seq(Procs) /\ Len(t) = n
    BY <1>1, GitStoreAssumption
  <1> QED
    BY <1>2

LEMMA PrefixByElements ==
  ASSUME NEW s \in Trees, NEW t \in Trees
  PROVE  IsPrefix(s, t) <=> Len(s) <= Len(t) /\ \A i \in 1..Len(s) : s[i] = t[i]
  <1>1. s \in Seq(Procs) /\ t \in Seq(Procs) /\ Len(s) \in Nat /\ Len(t) \in Nat
    BY TreeIsSequence
  <1>2. ASSUME Len(s) <= Len(t)
        PROVE  SubSeq(s, 1, Len(s)) = SubSeq(t, 1, Len(s)) <=> \A i \in 1..Len(s) : s[i] = t[i]
    <2>1. SubSeq(s, 1, Len(s)) = s
      BY <1>1
    <2>2. /\ SubSeq(t, 1, Len(s)) \in Seq(Procs)
          /\ Len(SubSeq(t, 1, Len(s))) = Len(s)
          /\ \A i \in 1..Len(s) : SubSeq(t, 1, Len(s))[i] = t[i]
      BY <1>1, <1>2
    <2> QED
      BY <1>1, <2>1, <2>2
  <1> QED
    BY <1>2 DEF IsPrefix

\* Being a prefix is a partial order on trees.
LEMMA PrefixOrder ==
  /\ \A t \in Trees : IsPrefix(t, t)
  /\ \A s, t, u \in Trees : IsPrefix(s, t) /\ IsPrefix(t, u) => IsPrefix(s, u)
  /\ \A s, t \in Trees : IsPrefix(s, t) /\ IsPrefix(t, s) => s = t
  /\ \A s, t \in Trees : IsPrefix(s, t) => Len(s) <= Len(t)
  /\ \A s, t \in Trees : IsPrefix(s, t) /\ Len(t) <= Len(s) => s = t
  <1>0. \A t \in Trees : t \in Seq(Procs) /\ Len(t) \in Nat
    BY TreeIsSequence
  <1>1. \A t \in Trees : IsPrefix(t, t)
    BY <1>0, PrefixByElements
  <1>2. ASSUME NEW s \in Trees, NEW t \in Trees, NEW u \in Trees, IsPrefix(s, t), IsPrefix(t, u)
        PROVE  IsPrefix(s, u)
    <2>1. /\ Len(s) <= Len(t) /\ \A i \in 1..Len(s) : s[i] = t[i]
          /\ Len(t) <= Len(u) /\ \A i \in 1..Len(t) : t[i] = u[i]
      BY <1>2, PrefixByElements
    <2>2. Len(s) <= Len(u) /\ \A i \in 1..Len(s) : s[i] = u[i]
      BY <1>0, <2>1
    <2> QED
      BY <2>2, PrefixByElements
  <1>3. ASSUME NEW s \in Trees, NEW t \in Trees, IsPrefix(s, t), Len(t) <= Len(s)
        PROVE  s = t
    <2>1. Len(s) <= Len(t) /\ \A i \in 1..Len(s) : s[i] = t[i]
      BY <1>3, PrefixByElements
    <2> QED
      BY <1>0, <1>3, <2>1
  <1>4. \A s, t \in Trees : IsPrefix(s, t) => Len(s) <= Len(t)
    BY PrefixByElements
  <1> QED
    BY <1>1, <1>2, <1>3, <1>4

\* What one process applies extends what it had.
LEMMA AppliedExtends ==
  ASSUME Inv, NEW p \in Procs, Applied(p) \in Trees
  PROVE  /\ proc[p].tip \in Trees \cup {NoRef}
         /\ proc[p].tip # NoRef => /\ IsPrefix(proc[p].tip, Applied(p))
                                   /\ Len(proc[p].tip) < Len(Applied(p))
  <1> DEFINE t == proc[p].tip
  <1>1. t \in Trees \cup {NoRef}
    BY DEF Inv, CallsOK, CallOK, Calls
  <1>2. ASSUME t # NoRef
        PROVE  IsPrefix(t, Applied(p)) /\ Len(t) < Len(Applied(p))
    <2>1. t \in Trees /\ t \in Seq(Procs) /\ Applied(p) = Append(t, p)
      BY <1>1, <1>2, TreeIsSequence DEF Applied
    <2> HIDE DEF t
    <2>2. Len(t) \in Nat /\ Len(Applied(p)) = Len(t) + 1 /\ \A i \in 1..Len(t) : Applied(p)[i] = t[i]
      BY <2>1
    <2>3. Len(t) <= Len(Applied(p)) /\ Len(t) < Len(Applied(p))
      BY <2>2
    <2>4. IsPrefix(t, Applied(p)) <=> Len(t) <= Len(Applied(p)) /\ \A i \in 1..Len(t) : t[i] = Applied(p)[i]
      BY <2>1, PrefixByElements
    <2> QED
      BY <2>2, <2>3, <2>4
  <1> QED
    BY <1>1, <1>2

-----------------------------------------------------------------------------
(* The newest checkpoint *)

\* A non-empty set of naturals up to a bound has a greatest element.
LEMMA GreatestExists ==
  ASSUME NEW N \in Nat, NEW G \in SUBSET (1..N), G # {}
  PROVE  \E g \in G : \A h \in G : h <= g
  <1> DEFINE T == {N - g : g \in G}
  <1>1. \A g \in G : g \in Nat /\ g <= N /\ N - g \in Nat
    OBVIOUS
  <1>2. T \in SUBSET Nat /\ T # {}
    BY <1>1
  <1> HIDE DEF T
  <1>3. PICK x \in T : \A y \in T : ~(<<y, x>> \in OpToRel(<, Nat))
    BY <1>2, NatLessThanWellFounded, WFMin
  <1>4. \A y \in T : ~(y < x)
    BY <1>2, <1>3 DEF OpToRel
  <1>5. PICK g \in G : x = N - g
    BY DEF T
  <1>6. ASSUME NEW h \in G
        PROVE  h <= g
    <2>1. N - h \in T
      BY DEF T
    <2> QED
      BY <1>1, <1>4, <1>5, <2>1
  <1> QED
    BY <1>6

LEMMA GreatestGen ==
  ASSUME NEW G \in SUBSET Gens, G # {}
  PROVE  \E g \in G : \A h \in G : h <= g
  BY GreatestExists, GitStoreAssumption DEF Gens

\* A generation newer than all those listed, unless the generations are used up.
LEMMA NextGenNewer ==
  ASSUME NEW listed \in Listings
  PROVE  NextGen(listed) \in Nat /\ \A g \in DOMAIN listed : g < NextGen(listed)
  <1> DEFINE G == {0} \cup DOMAIN listed
  <1>1. DOMAIN listed \subseteq Gens
    BY DEF Listings
  <1>2. \E m \in G : \A h \in G : m >= h
    <2>1. CASE DOMAIN listed = {}
      BY <2>1
    <2>2. CASE DOMAIN listed # {}
      BY <1>1, <2>2, GreatestGen, GitStoreAssumption DEF Gens
    <2> QED
      BY <2>1, <2>2
  <1>3. Max(G) \in G /\ \A h \in G : Max(G) >= h
    BY <1>2 DEF Max
  <1>4. G \subseteq Nat
    BY <1>1, GitStoreAssumption DEF Gens
  <1>5. NextGen(listed) = Max(G) + 1
    BY DEF NextGen
  <1> HIDE DEF G
  <1>6. \A g \in G : g \in Nat /\ g <= Max(G)
    BY <1>3, <1>4
  <1>8. Max(G) \in Nat
    BY <1>3, <1>4
  <1>7. DOMAIN listed \subseteq G
    BY DEF G
  <1> QED
    BY <1>5, <1>6, <1>7, <1>8

\* The newest checkpoint is the one of the greatest generation: all can be read.
LEMMA NewestIsLast ==
  ASSUME Inv
  PROVE  /\ (\A g \in Gens : ckpts[g] \notin Trees) => Newest(Listed) = NoRef
         /\ \A g \in Gens : ckpts[g] \in Trees /\ (\A h \in Gens : ckpts[h] \in Trees => h <= g)
                              => Newest(Listed) = ckpts[g] /\ NewestGens(Listed) = {g}
  <1> DEFINE G == {g \in Gens : ckpts[g] \in Trees}
  <1>1. Listed = [g \in G |-> ckpts[g]] /\ DOMAIN Listed = G
    BY DEF Listed, Restrict
  <1>2. \A g \in DOMAIN Listed : Readable(Listed[g])
    BY <1>1, ListedOK DEF Inv, ObjectsOK, Readable, Objects
  <1>3. NewestGens(Listed) = {g \in G : \A h \in G : h <= g}
    BY <1>1, <1>2 DEF NewestGens
  <1>4. ASSUME \A g \in Gens : ckpts[g] \notin Trees
        PROVE  Newest(Listed) = NoRef
    BY <1>3, <1>4 DEF Newest
  <1>5. ASSUME NEW g \in Gens, ckpts[g] \in Trees, \A h \in Gens : ckpts[h] \in Trees => h <= g
        PROVE  Newest(Listed) = ckpts[g] /\ NewestGens(Listed) = {g}
    <2>1. g \in G /\ \A h \in G : h <= g
      BY <1>5
    <2>2. \A h \in G : g <= h => h = g
      BY <2>1, GitStoreAssumption DEF Gens
    <2>3. NewestGens(Listed) = {g}
      BY <1>3, <2>1, <2>2
    <2>4. (CHOOSE h \in NewestGens(Listed) : TRUE) = g
      BY <2>3
    <2> QED
      BY <1>1, <2>1, <2>3, <2>4 DEF Newest
  <1> QED
    BY <1>4, <1>5

\* Either nothing is listed, or one generation is the greatest listed.
LEMMA NewestCases ==
  ASSUME Inv
  PROVE  \/ (\A g \in Gens : ckpts[g] \notin Trees) /\ Newest(Listed) = NoRef
         \/ \E g \in Gens : /\ ckpts[g] \in Trees /\ \A h \in Gens : ckpts[h] \in Trees => h <= g
                            /\ Newest(Listed) = ckpts[g] /\ NewestGens(Listed) = {g}
  <1> DEFINE G == {g \in Gens : ckpts[g] \in Trees}
  <1>1. CASE G = {}
    BY <1>1, NewestIsLast
  <1>2. CASE G # {}
    <2>1. PICK g \in G : \A h \in G : h <= g
      BY <1>2, GreatestGen
    <2> QED
      BY <2>1, NewestIsLast
  <1> QED
    BY <1>1, <1>2

\* While the checkpoint refs stay, so do what is listed and the newest of it.
LEMMA SameListing ==
  ASSUME Inv, Inv', ckpts' = ckpts
  PROVE  Listed' = Listed /\ Newest(Listed)' = Newest(Listed)
  <1>1. Listed' = Listed
    BY DEF Listed
  <1>2. \A g \in DOMAIN Listed : Readable(Listed[g])
    BY ListedOK DEF Inv, ObjectsOK, Readable, Objects, Listings
  <1>3. \A g \in DOMAIN Listed : g \in Gens /\ Listed[g] = ckpts[g] /\ Listed[g] \in Trees
    BY DEF Listed, Restrict
  <1>4. \A g \in DOMAIN Listed : <<"tree", Listed[g]>> \in objects'
    BY <1>3 DEF Inv, CkptsOK, CheckpointObjectsDurable, ObjectsOK, Objects
  <1>5. \A g \in DOMAIN Listed : Readable(Listed[g])'
    BY <1>1, <1>3, <1>4 DEF Readable
  <1>6. NewestGens(Listed)' = NewestGens(Listed)
    BY <1>1, <1>2, <1>5 DEF NewestGens
  <1> QED
    BY <1>1, <1>6 DEF Newest

\* The newest checkpoint extends whatever any checkpoint ref may be left with.
LEMMA NewestExtendsCkpts ==
  ASSUME Inv, CkptsGrow, NewestHeld
  PROVE  /\ Newest(Listed) # NoRef => Newest(Listed) \in Trees /\ ExtendsCkpts(Newest(Listed))
         /\ Newest(Listed) = NoRef => \A g \in Gens : CkptTrees(g) = {}
  <1>1. CASE \A g \in Gens : ckpts[g] \notin Trees
    BY <1>1, NewestCases DEF NewestHeld
  <1>2. ASSUME NEW n \in Gens, ckpts[n] \in Trees, \A h \in Gens : ckpts[h] \in Trees => h <= n,
               Newest(Listed) = ckpts[n]
        PROVE  Newest(Listed) \in Trees /\ ExtendsCkpts(Newest(Listed))
    <2>1. ckpts[n] \in CkptTrees(n)
      BY <1>2 DEF CkptTrees, Inv, CkptsOK
    <2> SUFFICES ASSUME NEW g \in Gens, NEW x \in CkptTrees(g)
                 PROVE  IsPrefix(x, ckpts[n])
      BY <1>2 DEF ExtendsCkpts
    <2>2. g < n \/ g = n
      <3>1. PICK h \in Gens : g <= h /\ ckpts[h] \in Trees
        BY DEF NewestHeld
      <3> QED
        BY <1>2, <3>1, GitStoreAssumption DEF Gens
    <2> QED
      BY <2>1, <2>2, PrefixOrder, <1>2 DEF CkptsGrow
  <1> QED
    BY <1>1, <1>2, NewestCases, GitStoreAssumption

-----------------------------------------------------------------------------
(* What the steps have in common *)

\* One process moves, in a call or without touching the repository: the others
\* are out of any call, or as right as they were.
LEMMA OthersInOrder ==
  ASSUME Inv, Inv', InOrder, NEW p \in Procs, NEW c, proc' = [proc EXCEPT ![p] = c],
         Busy(p) \/ UNCHANGED <<repo, disk>>, CallInOrder(p)'
  PROVE  \A q \in Procs : CallInOrder(q)'
  <1> SUFFICES ASSUME NEW q \in Procs, q # p
               PROVE  CallInOrder(q)'
    OBVIOUS
  <1>1. proc'[q] = proc[q] /\ CallInOrder(q)
    BY DEF Inv, CallsOK, InOrder
  <1>2. CASE Busy(p)
    <2>1. proc[q].pc \in {"closed", "idle"}
      BY <1>2 DEF InOrder, Overlapping, Busy
    <2> QED
      BY <1>1, <2>1 DEF CallInOrder, CheckpointingOK, RecoveringOK
  <1>3. CASE UNCHANGED <<repo, disk>>
    <2>1. UNCHANGED <<staging, ckpts, objects, stagingDisk, ckptDisk>>
      BY <1>3 DEF repo, disk
    <2>2. Listed' = Listed /\ Newest(Listed)' = Newest(Listed)
      BY <2>1, SameListing
    <2>3. CheckpointingOK(proc[q])'
      BY <1>1, <2>1, <2>2 DEF CallInOrder, CheckpointingOK, ExtendsCkpts, CkptTrees
    <2>4. RecoveringOK(proc[q])'
      BY <1>1, <2>1, <2>2 DEF CallInOrder, RecoveringOK, Readable
    <2> QED
      BY <2>3, <2>4 DEF CallInOrder
  <1> QED
    BY <1>2, <1>3

\* A process that moves without touching the repository.
LEMMA QuietInOrder ==
  ASSUME Inv, Inv', InOrder, ~Overlapping', NEW p \in Procs, NEW c, Return(p, c),
         UNCHANGED <<repo, disk, acked>>, CallInOrder(p)'
  PROVE  InOrder'
  <1>1. UNCHANGED <<staging, ckpts, objects, stagingDisk, ckptDisk, acked>>
    BY DEF repo, disk
  <1>2. DiskInOrder'
    BY <1>1 DEF InOrder, DiskInOrder, CkptsGrow, NewestHeld, StagingAfterCkpts, AckedHeld, CkptTrees
  <1>3. \A q \in Procs : CallInOrder(q)'
    BY OthersInOrder DEF Return
  <1> QED
    BY <1>2, <1>3 DEF InOrder

\* A call that is over, or has nothing to rely on yet, is in order.
LEMMA RestingInOrder ==
  ASSUME Inv, NEW p \in Procs, NEW c, proc' = [proc EXCEPT ![p] = c],
         c.pc \in {"closed", "idle", "checkpoint", "syncReset"}
  PROVE  CallInOrder(p)'
  <1>1. proc'[p] = c
    BY DEF Inv, CallsOK
  <1> QED
    BY <1>1 DEF CallInOrder, CheckpointingOK, RecoveringOK

LEMMA ErrorInOrder ==
  ASSUME Inv, Inv', InOrder, ~Overlapping', NEW p \in Procs, Error(p),
         UNCHANGED <<repo, disk, acked>>
  PROVE  InOrder'
  <1> DEFINE c == IF proc[p].opening THEN Closed ELSE Handle(proc[p].tip)
  <1>1. c.pc \in {"closed", "idle"}
    BY DEF Closed, Handle
  <1>2. Return(p, c)
    BY DEF Error
  <1> HIDE DEF c
  <1>3. CallInOrder(p)'
    BY <1>1, <1>2, RestingInOrder DEF Return
  <1> QED
    BY <1>2, <1>3, QuietInOrder

\* Going on in a call keeps its tip and its listing.
LEMMA ContinueShape ==
  ASSUME Inv, NEW p \in Procs, NEW pc, Continue(p, pc)
  PROVE  \E c : /\ proc' = [proc EXCEPT ![p] = c] /\ proc'[p] = c
                /\ c.pc = pc /\ c.tip = proc[p].tip /\ c.listed = proc[p].listed
                /\ c.expected = proc[p].expected
  <1> DEFINE c == [proc[p] EXCEPT !.pc = pc]
  <1>1. proc[p] \in Calls /\ proc \in [Procs -> Calls]
    BY DEF Inv, CallsOK
  <1>2. /\ c.pc = pc /\ c.tip = proc[p].tip /\ c.listed = proc[p].listed
        /\ c.expected = proc[p].expected
    BY <1>1 DEF Calls
  <1>3. proc' = [proc EXCEPT ![p] = c] /\ proc'[p] = c
    BY <1>1 DEF Continue
  <1> QED
    BY <1>2, <1>3

-----------------------------------------------------------------------------
(* Every step keeps the order. *)

LEMMA InitKept ==
  ASSUME Init
  PROVE  Kept
  <1>1. \A p \in Procs : proc[p] = Closed /\ Closed.pc = "closed" /\ Closed.tip = NoRef
    BY ClosedType DEF Init
  <1>2. \A g \in Gens : CkptTrees(g) = {}
    BY GitStoreAssumption DEF Init, CkptTrees
  <1>3. DiskInOrder
    BY <1>2 DEF Init, DiskInOrder, CkptsGrow, NewestHeld, StagingAfterCkpts, AckedHeld
  <1>4. ~Overlapping
    BY <1>1 DEF Overlapping, Busy
  <1>5. \A p \in Procs : CallInOrder(p)
    BY <1>1 DEF CallInOrder, CheckpointingOK, RecoveringOK
  <1>6. TipsReadable
    BY <1>1 DEF TipsReadable
  <1> QED
    BY <1>3, <1>4, <1>5, <1>6 DEF Kept, InOrder

LEMMA OpenListInOrder ==
  ASSUME Inv, Inv', InOrder, ~Overlapping', NEW p \in Procs, OpenList(p)
  PROVE  InOrder'
  <1> DEFINE c == [Closed EXCEPT !.pc = "readStaging", !.opening = TRUE, !.listed = Listed]
  <1>1. c.pc = "readStaging" /\ c.listed = Listed
    BY DEF Closed, Handle
  <1>2. Return(p, c) /\ UNCHANGED <<repo, disk, acked>>
    BY DEF OpenList, observers
  <1> HIDE DEF c
  <1>3. proc'[p] = c /\ Listed' = Listed
    BY <1>2 DEF Return, Inv, CallsOK, Listed, repo
  <1>4. CallInOrder(p)'
    BY <1>1, <1>3 DEF CallInOrder, CheckpointingOK, RecoveringOK
  <1> QED
    BY <1>2, <1>4, QuietInOrder

\* What `new` finds is what is there: nothing but applies can come between.
LEMMA OpenReadInOrder ==
  ASSUME Inv, Inv', InOrder, ~Overlapping', NEW p \in Procs, OpenRead(p)
  PROVE  InOrder'
  <1> DEFINE c == Newest(proc[p].listed)
             d(pc, tip, e) == [Handle(tip) EXCEPT !.pc = pc, !.opening = TRUE, !.expected = e]
  <1>1. c = Newest(Listed)
    BY DEF OpenRead, At, InOrder, CallInOrder, CheckpointingOK
  <1>2. c # NoRef => c \in Trees
    BY <1>1, NewestExtendsCkpts DEF InOrder, DiskInOrder
  <1>3. UNCHANGED <<repo, disk, acked>> /\ UNCHANGED <<staging, objects, ckpts>>
    BY DEF OpenRead, observers, repo
  <1>4. Newest(Listed)' = Newest(Listed)
    BY <1>3, SameListing
  <1>5. \A pc, tip, e : d(pc, tip, e).pc = pc /\ d(pc, tip, e).tip = tip /\ d(pc, tip, e).expected = e
    BY DEF Handle
  <1>6. CASE \E h : Return(p, h) /\ h.pc \in {"closed", "idle", "checkpoint"}
    BY <1>3, <1>6, RestingInOrder, QuietInOrder DEF Return
  <1>7. ASSUME NEW e \in {staging, NoRef}, c # NoRef, Return(p, d("reset", c, e)),
               \/ e = staging /\ Readable(staging) /\ ~Intact(staging, c)
               \/ e = NoRef
        PROVE  InOrder'
    <2> DEFINE h == d("reset", c, e)
    <2>1. h.pc = "reset" /\ h.tip = c /\ h.expected = e
      BY <1>5
    <2>2. proc'[p] = h
      BY <1>7 DEF Return, Inv, CallsOK
    <2> HIDE DEF h, c
    <2>3. h.expected \in Trees => staging \in Trees /\ staging = e /\ ~(Objects(e) \subseteq objects)
      BY <1>7, <2>1, GitStoreAssumption DEF Readable, Intact, ChangedObjects
    <2>4. h.expected # Torn
      BY <1>7, <2>1, GitStoreAssumption DEF Readable
    <2>5. CallInOrder(p)'
      BY <1>1, <1>2, <1>3, <1>4, <1>7, <2>1, <2>2, <2>3, <2>4 DEF CallInOrder, CheckpointingOK, RecoveringOK
    <2> QED
      BY <1>3, <1>7, <2>5, QuietInOrder DEF h
  <1>8. ASSUME c # NoRef, Return(p, d("reread", c, Torn)), staging # NoRef, ~Readable(staging)
        PROVE  InOrder'
    <2> DEFINE h == d("reread", c, Torn)
    <2>1. h.pc = "reread" /\ h.tip = c /\ h.expected = Torn
      BY <1>5
    <2>2. proc'[p] = h
      BY <1>8 DEF Return, Inv, CallsOK
    <2> HIDE DEF h, c
    <2>3. CallInOrder(p)'
      BY <1>1, <1>2, <1>3, <1>4, <1>8, <2>1, <2>2 DEF CallInOrder, CheckpointingOK, RecoveringOK, Readable
    <2> QED
      BY <1>3, <1>8, <2>3, QuietInOrder DEF h
  <1>9. \A t : Handle(t).pc = "idle" /\ Closed.pc = "closed"
    BY DEF Handle, Closed
  <1> HIDE DEF c
  <1>10. \/ \E t : Return(p, Handle(t))
         \/ Return(p, Closed)
         \/ Return(p, d("checkpoint", staging, NoRef))
         \/ c # NoRef /\ Readable(staging) /\ ~Intact(staging, c) /\ Return(p, d("reset", c, staging))
         \/ c # NoRef /\ Return(p, d("reset", c, NoRef))
         \/ c # NoRef /\ staging # NoRef /\ ~Readable(staging) /\ Return(p, d("reread", c, Torn))
    BY DEF OpenRead, c
  <1> HIDE DEF d
  <1> QED
    BY <1>5, <1>6, <1>7, <1>8, <1>9, <1>10

LEMMA RereadInOrder ==
  ASSUME Inv, Inv', InOrder, ~Overlapping', NEW p \in Procs, Reread(p)
  PROVE  InOrder'
  <1>1. UNCHANGED <<repo, disk, acked>> /\ UNCHANGED <<staging, objects, ckpts>>
    BY DEF Reread, observers, repo
  <1>2. At(p, "reread") /\ CallInOrder(p)
    BY DEF Reread, InOrder
  <1>3. CASE Readable(staging)
    BY <1>2, <1>3 DEF CallInOrder, RecoveringOK, At
  <1>4. CASE ~Readable(staging)
    <2>1. Continue(p, "reset")
      BY <1>4 DEF Reread
    <2>2. PICK c : /\ proc' = [proc EXCEPT ![p] = c] /\ proc'[p] = c
                   /\ c.pc = "reset" /\ c.tip = proc[p].tip /\ c.expected = proc[p].expected
      BY <2>1, ContinueShape
    <2>3. Newest(Listed)' = Newest(Listed)
      BY <1>1, SameListing
    <2>4. CheckpointingOK(proc[p])'
      BY <2>2 DEF CheckpointingOK
    <2>5. RecoveringOK(proc[p])'
      BY <1>1, <1>2, <1>4, <2>2, <2>3, GitStoreAssumption DEF RecoveringOK, CallInOrder, At, Readable
    <2> QED
      BY <1>1, <2>2, <2>4, <2>5, QuietInOrder DEF CallInOrder, Return
  <1> QED
    BY <1>3, <1>4

LEMMA FailuresInOrder ==
  ASSUME Inv, Inv', InOrder, ~Overlapping', NEW p \in Procs, Fail(p) \/ Crash(p)
  PROVE  InOrder'
  <1>1. UNCHANGED <<repo, disk, acked>>
    BY DEF Fail, Crash, observers
  <1>2. CASE Fail(p)
    BY <1>1, <1>2, ErrorInOrder DEF Fail
  <1>3. CASE Crash(p)
    <2>1. Return(p, Closed) /\ Closed.pc = "closed"
      BY <1>3 DEF Crash, Closed
    <2>2. CallInOrder(p)'
      BY <2>1, RestingInOrder DEF Return
    <2> QED
      BY <1>1, <2>1, <2>2, QuietInOrder
  <1> QED
    BY <1>2, <1>3

\* What is checkpointed is what staging holds, which extends all checkpoints.
LEMMA CheckpointBeginInOrder ==
  ASSUME Inv, Inv', InOrder, ~Overlapping', NEW p \in Procs, CheckpointBegin(p)
  PROVE  InOrder'
  <1>1. UNCHANGED <<repo, disk, acked>> /\ UNCHANGED <<staging, ckpts, ckptDisk>>
    BY DEF CheckpointBegin, observers, repo, disk
  <1>2. CASE Error(p)
    BY <1>1, <1>2, ErrorInOrder
  <1>3. CASE staging = proc[p].tip /\ Readable(staging) /\ Continue(p, "list")
    <2>1. PICK c : /\ proc' = [proc EXCEPT ![p] = c] /\ proc'[p] = c
                   /\ c.pc = "list" /\ c.tip = proc[p].tip
      BY <1>3, ContinueShape
    <2>2. staging \in Trees /\ staging \in stagingDisk /\ c.tip = staging
      BY <1>3, <2>1 DEF Readable, Inv, StagingOK
    <2>3. ExtendsCkpts(staging)
      BY <2>2, GitStoreAssumption DEF InOrder, DiskInOrder, StagingAfterCkpts, After, ExtendsCkpts
    <2>4. ExtendsCkpts(c.tip)'
      BY <1>1, <2>2, <2>3 DEF ExtendsCkpts, CkptTrees
    <2>5. CheckpointingOK(proc[p])'
      BY <1>1, <2>1, <2>2, <2>4, PrefixOrder DEF CheckpointingOK
    <2>6. RecoveringOK(proc[p])'
      BY <2>1 DEF RecoveringOK
    <2> QED
      BY <1>1, <2>1, <2>5, <2>6, QuietInOrder DEF CallInOrder, Return
  <1> QED
    BY <1>2, <1>3 DEF CheckpointBegin

LEMMA CheckpointListInOrder ==
  ASSUME Inv, Inv', InOrder, ~Overlapping', NEW p \in Procs, CheckpointList(p)
  PROVE  InOrder'
  <1>1. UNCHANGED <<repo, disk, acked>> /\ UNCHANGED <<staging, ckpts, ckptDisk>>
    BY DEF CheckpointList, repo, disk
  <1>2. CASE Return(p, Handle(proc[p].tip))
    <2>1. Handle(proc[p].tip).pc = "idle"
      BY DEF Handle
    <2>2. CallInOrder(p)'
      BY <1>2, <2>1, RestingInOrder DEF Return
    <2> QED
      BY <1>1, <1>2, <2>2, QuietInOrder
  <1>3. CASE proc' = [proc EXCEPT ![p].pc = "sync", ![p].listed = Listed]
    <2> DEFINE c == [proc[p] EXCEPT !.pc = "sync", !.listed = Listed]
    <2>1. proc[p] \in Calls /\ proc \in [Procs -> Calls]
      BY DEF Inv, CallsOK
    <2>2. c.pc = "sync" /\ c.tip = proc[p].tip /\ c.listed = Listed
      BY <2>1 DEF Calls
    <2>3. proc' = [proc EXCEPT ![p] = c] /\ proc'[p] = c
      BY <1>3, <2>1
    <2> HIDE DEF c
    <2>4. At(p, "list") /\ CallInOrder(p) /\ Listed' = Listed
      BY <1>1 DEF CheckpointList, InOrder, Listed
    <2>5. CheckpointingOK(proc[p])'
      BY <1>1, <2>2, <2>3, <2>4 DEF CallInOrder, CheckpointingOK, At, ExtendsCkpts, CkptTrees
    <2>6. RecoveringOK(proc[p])'
      BY <2>2, <2>3 DEF RecoveringOK
    <2> QED
      BY <1>1, <2>3, <2>5, <2>6, QuietInOrder DEF CallInOrder, Return
  <1> QED
    BY <1>2, <1>3 DEF CheckpointList

\* Staging goes back to the newest checkpoint, which extends the others.
LEMMA ResetInOrder ==
  ASSUME Inv, Inv', InOrder, ~Overlapping', NEW p \in Procs, Reset(p)
  PROVE  InOrder'
  <1>1. UNCHANGED <<ckpts, objects, ckptDisk, objectsDisk, acked>>
    BY DEF Reset, observers
  <1>2. Busy(p) /\ CallInOrder(p) /\ At(p, "reset")
    BY DEF Reset, At, Busy, InOrder
  <1>3. CASE Error(p) /\ UNCHANGED <<staging, stagingDisk>>
    BY <1>1, <1>3, ErrorInOrder DEF repo, disk
  <1>4. CASE WriteStaging(proc[p].tip) /\ Continue(p, "syncReset")
    <2>1. PICK c : proc' = [proc EXCEPT ![p] = c] /\ c.pc = "syncReset"
      BY <1>4, ContinueShape
    <2>2. \A q \in Procs : CallInOrder(q)'
      BY <1>2, <2>1, RestingInOrder, OthersInOrder
    <2>3. proc[p].tip \in Trees /\ ExtendsCkpts(proc[p].tip)
      <3>1. proc[p].tip \in Trees /\ proc[p].tip = Newest(Listed)
        BY <1>2 DEF CallInOrder, RecoveringOK, At
      <3> QED
        BY <3>1, NewestExtendsCkpts, GitStoreAssumption DEF InOrder, DiskInOrder
    <2>4. stagingDisk' = stagingDisk \cup {proc[p].tip, Torn}
      BY <1>4 DEF WriteStaging
    <2>5. StagingAfterCkpts'
      BY <1>1, <2>3, <2>4 DEF InOrder, DiskInOrder, StagingAfterCkpts, ExtendsCkpts, After, CkptTrees
    <2>6. DiskInOrder'
      BY <1>1, <2>5 DEF InOrder, DiskInOrder, CkptsGrow, NewestHeld, AckedHeld, CkptTrees
    <2> QED
      BY <2>2, <2>6 DEF InOrder
  <1> QED
    BY <1>3, <1>4 DEF Reset

LEMMA SyncResetInOrder ==
  ASSUME Inv, Inv', InOrder, ~Overlapping', NEW p \in Procs, SyncReset(p)
  PROVE  InOrder'
  <1>1. UNCHANGED <<staging, ckpts, ckptDisk, acked>> /\ stagingDisk' = {staging}
    BY DEF SyncReset, observers, repo, SyncStaging
  <1>2. Busy(p) /\ proc' = [proc EXCEPT ![p] = Handle(proc[p].tip)] /\ Handle(proc[p].tip).pc = "idle"
    BY DEF SyncReset, At, Busy, Return, Handle
  <1>3. \A q \in Procs : CallInOrder(q)'
    BY <1>2, RestingInOrder, OthersInOrder
  <1>4. stagingDisk' \subseteq stagingDisk
    BY <1>1 DEF Inv, StagingOK
  <1>5. DiskInOrder'
    BY <1>1, <1>4 DEF InOrder, DiskInOrder, CkptsGrow, NewestHeld, StagingAfterCkpts, AckedHeld, CkptTrees, After
  <1> QED
    BY <1>3, <1>5 DEF InOrder

\* What is applied extends what staging held, so everything staging extended.
LEMMA ApplyInOrder ==
  ASSUME Inv, Inv', TipsReadable, InOrder, ~Overlapping', NEW p \in Procs, Apply(p)
  PROVE  InOrder'
  <1>1. /\ UNCHANGED <<ckpts, ckptDisk, acked>> /\ At(p, "idle") /\ Applied(p) \in Trees
        /\ Listed' = Listed /\ Newest(Listed)' = Newest(Listed)
    BY SameListing DEF Apply
  <1>2. CASE staging # proc[p].tip
    <2>1. UNCHANGED <<repo, disk, proc, acked, staging, objects, stagingDisk>>
      BY <1>2 DEF Apply, repo, disk
    <2>2. Return(p, proc[p])
      BY <2>1 DEF Inv, CallsOK, Return
    <2>3. CallInOrder(p)'
      BY <1>1, <2>1 DEF At, CallInOrder, CheckpointingOK, RecoveringOK
    <2> QED
      BY <2>1, <2>2, <2>3, QuietInOrder
  <1>3. CASE staging = proc[p].tip
    <2> DEFINE t == Applied(p)
    <2>1. /\ staging' = t /\ stagingDisk' = stagingDisk \cup {t, Torn}
          /\ proc' = [proc EXCEPT ![p] = Handle(t)] /\ objects \subseteq objects'
      BY <1>3 DEF Apply, WriteStaging, Return
    <2>2. /\ staging \in Trees \cup {NoRef} /\ staging \in stagingDisk
          /\ staging # NoRef => IsPrefix(staging, t) /\ Len(staging) < Len(t) /\ Readable(staging)
      BY <1>1, <1>3, AppliedExtends DEF Inv, StagingOK, TipsReadable
    <2> HIDE DEF t
    <2>3. t \in Trees
      BY <1>1 DEF t
    <2>4. \A x \in Trees : After(staging, x) => After(t, x)
      BY <2>2, <2>3, PrefixOrder, GitStoreAssumption DEF After
    <2>5. StagingAfterCkpts'
      <3>1. \A v \in stagingDisk \cup {t, Torn} : \A g \in Gens : \A x \in CkptTrees(g) : After(v, x)
        BY <2>2, <2>4 DEF InOrder, DiskInOrder, StagingAfterCkpts, CkptTrees, After
      <3> QED
        BY <1>1, <2>1, <3>1 DEF StagingAfterCkpts, CkptTrees, After
    <2>6. DiskInOrder'
      BY <1>1, <2>5 DEF InOrder, DiskInOrder, CkptsGrow, NewestHeld, AckedHeld, CkptTrees
    <2>7. ASSUME NEW q \in Procs
          PROVE  CallInOrder(q)'
      <3>1. CASE q = p
        <4>1. Handle(t).pc = "idle"
          BY DEF Handle
        <4> QED
          BY <2>1, <3>1, <4>1, RestingInOrder
      <3>2. CASE q # p
        <4>1. proc'[q] = proc[q] /\ CheckpointingOK(proc[q]) /\ RecoveringOK(proc[q])
          BY <2>1, <3>2 DEF Inv, CallsOK, InOrder, CallInOrder
        <4>2. proc[q].pc \in {"list", "sync", "create", "finish"} => proc[q].tip \in Trees
          BY <4>1 DEF CheckpointingOK
        <4>3. proc[q].pc \in {"list", "sync"} => IsPrefix(proc[q].tip, t)
          BY <2>2, <2>3, <4>1, <4>2, PrefixOrder, GitStoreAssumption DEF CheckpointingOK
        <4>4. proc[q].pc \in {"create", "finish"} => \A v \in stagingDisk' : After(v, proc[q].tip)
          BY <2>1, <2>2, <2>4, <4>1, <4>2 DEF CheckpointingOK, After
        <4>5. CheckpointingOK(proc[q])'
          BY <1>1, <2>1, <2>3, <4>1, <4>3, <4>4 DEF CheckpointingOK, ExtendsCkpts, CkptTrees, After
        <4>6. RecoveringOK(proc[q])'
          <5>1. ~(proc[q].pc = "reread" \/ (proc[q].pc = "reset" /\ proc[q].expected = Torn))
            BY <2>2, <4>1 DEF RecoveringOK
          <5>2. ASSUME proc[q].pc = "reset", proc[q].expected \in Trees
                PROVE  Len(t) > Len(proc[q].expected)
            <6>1. staging \in Trees /\ Len(staging) >= Len(proc[q].expected)
              BY <4>1, <5>2, TreeIsSequence DEF RecoveringOK
            <6> QED
              BY <2>2, <2>3, <5>2, <6>1, TreeIsSequence, GitStoreAssumption
          <5>3. proc[q].pc = "reset" /\ proc[q].expected \in Trees => t # proc[q].expected
            BY <5>2, TreeIsSequence
          <5> QED
            BY <1>1, <2>1, <2>3, <4>1, <5>1, <5>2, <5>3 DEF RecoveringOK
        <4> QED
          BY <4>1, <4>5, <4>6 DEF CallInOrder
      <3> QED
        BY <3>1, <3>2
    <2> QED
      BY <2>6, <2>7 DEF InOrder
  <1> QED
    BY <1>2, <1>3

\* Staging holds now, and after the sync for good, what extends the tip.
LEMMA CheckpointSyncInOrder ==
  ASSUME Inv, Inv', InOrder, ~Overlapping', NEW p \in Procs, CheckpointSync(p)
  PROVE  InOrder'
  <1>1. UNCHANGED <<repo, staging, ckpts, ckptDisk, acked>> /\ Listed' = Listed
    BY DEF CheckpointSync, observers, repo, Listed
  <1>2. Busy(p) /\ CheckpointingOK(proc[p]) /\ At(p, "sync")
    BY DEF CheckpointSync, At, Busy, InOrder, CallInOrder
  <1>3. CASE Error(p) /\ UNCHANGED <<objectsDisk, stagingDisk>>
    BY <1>1, <1>3, ErrorInOrder DEF disk
  <1>4. CASE SyncStaging /\ Continue(p, "create")
    <2>1. PICK c : /\ proc' = [proc EXCEPT ![p] = c] /\ proc'[p] = c
                   /\ c.pc = "create" /\ c.tip = proc[p].tip /\ c.listed = proc[p].listed
      BY <1>4, ContinueShape
    <2>2. stagingDisk' = {staging} /\ stagingDisk' \subseteq stagingDisk
      BY <1>4 DEF SyncStaging, Inv, StagingOK
    <2>3. CheckpointingOK(proc[p])'
      BY <1>1, <1>2, <2>1, <2>2 DEF CheckpointingOK, At, ExtendsCkpts, CkptTrees, After
    <2>4. RecoveringOK(proc[p])'
      BY <2>1 DEF RecoveringOK
    <2>5. \A q \in Procs : CallInOrder(q)'
      BY <1>2, <2>1, <2>3, <2>4, OthersInOrder DEF CallInOrder
    <2>6. DiskInOrder'
      BY <1>1, <2>2 DEF InOrder, DiskInOrder, CkptsGrow, NewestHeld, StagingAfterCkpts, AckedHeld, CkptTrees, After
    <2> QED
      BY <2>5, <2>6 DEF InOrder
  <1> QED
    BY <1>3, <1>4 DEF CheckpointSync

\* The generation is newer than any that a ref may be left with a tree at.
LEMMA CheckpointCreateInOrder ==
  ASSUME Inv, Inv', InOrder, ~Overlapping', NEW p \in Procs, CheckpointCreate(p)
  PROVE  InOrder'
  <1> DEFINE g == NextGen(proc[p].listed)
             t == proc[p].tip
  <1>1. /\ g \in Gens /\ At(p, "create") /\ Busy(p) /\ CheckpointingOK(proc[p])
        /\ UNCHANGED <<staging, objects, stagingDisk, objectsDisk, acked>>
    BY DEF CheckpointCreate, observers, InOrder, CallInOrder, Busy, At
  <1>2. CASE Error(p) /\ UNCHANGED <<ckpts, ckptDisk>>
    BY <1>1, <1>2, ErrorInOrder DEF repo, disk
  <1>3. CASE /\ ckpts' = [ckpts EXCEPT ![g] = t]
             /\ ckptDisk' = [ckptDisk EXCEPT ![g] = @ \cup {t, Torn}]
             /\ Continue(p, "finish")
    <2>1. PICK c : /\ proc' = [proc EXCEPT ![p] = c] /\ proc'[p] = c
                   /\ c.pc = "finish" /\ c.tip = t /\ c.listed = proc[p].listed
      BY <1>3, ContinueShape
    <2>2. t \in Trees /\ ExtendsCkpts(t) /\ \A v \in stagingDisk : After(v, t)
      BY <1>1 DEF CheckpointingOK, At
    <2>3. \A h \in DOMAIN Listed : h < g
      BY <1>1, ListedOK, NextGenNewer DEF CheckpointingOK, At
    <2>4. \A h \in Gens : ckpts[h] \in Trees => h \in DOMAIN Listed
      BY DEF Listed, Restrict
    <2>5. \A h \in Gens : CkptTrees(h) # {} => h < g
      BY <1>1, <2>3, <2>4, GitStoreAssumption DEF InOrder, DiskInOrder, NewestHeld, Gens
    <2> HIDE DEF t
    <2>6. \A h \in Gens : /\ ckpts'[h] = IF h = g THEN t ELSE ckpts[h]
                          /\ CkptTrees(h)' = IF h = g THEN {t} ELSE CkptTrees(h)
      <3>1. CkptTrees(g) = {}
        BY <1>1, <2>5, GitStoreAssumption DEF Gens
      <3> HIDE DEF g
      <3> QED
        BY <1>1, <1>3, <2>2, <3>1, GitStoreAssumption DEF CkptTrees, Inv, CkptsOK
    <2> HIDE DEF g
    <2>7. CkptsGrow'
      <3> SUFFICES ASSUME NEW h \in Gens, NEW k \in Gens,
                          NEW x \in CkptTrees(h)', NEW y \in CkptTrees(k)'
                   PROVE  (h < k => IsPrefix(x, y)) /\ (h = k => x = y)
        BY DEF CkptsGrow
      <3>1. CASE h # g /\ k # g
        BY <2>6, <3>1 DEF InOrder, DiskInOrder, CkptsGrow
      <3>2. CASE k = g
        BY <2>2, <2>6, <3>2, <1>1, GitStoreAssumption DEF ExtendsCkpts, Gens
      <3>3. CASE h = g /\ k # g
        BY <1>1, <2>5, <2>6, <3>3, GitStoreAssumption DEF Gens
      <3> QED
        BY <3>1, <3>2, <3>3
    <2>8. NewestHeld'
      <3> SUFFICES ASSUME NEW h \in Gens, CkptTrees(h)' # {}
                   PROVE  \E k \in Gens : h <= k /\ ckpts'[k] \in Trees
        BY DEF NewestHeld
      <3>1. h <= g
        BY <1>1, <2>5, <2>6, GitStoreAssumption DEF Gens
      <3> QED
        BY <1>1, <2>2, <2>6, <3>1
    <2>9. StagingAfterCkpts'
      BY <1>1, <2>2, <2>6 DEF InOrder, DiskInOrder, StagingAfterCkpts, After
    <2>10. AckedHeld'
      <3> SUFFICES ASSUME NEW a \in acked
                   PROVE  \E h \in Gens : \E x \in Trees : ckptDisk'[h] = {x} /\ IsPrefix(a, x)
        BY <1>1 DEF AckedHeld
      <3>1. PICK h \in Gens, x \in Trees : ckptDisk[h] = {x} /\ IsPrefix(a, x)
        BY DEF InOrder, DiskInOrder, AckedHeld
      <3>2. h # g
        BY <1>1, <2>5, <3>1, GitStoreAssumption DEF CkptTrees, Gens
      <3> QED
        BY <1>1, <1>3, <3>1, <3>2 DEF Inv, CkptsOK
    <2>11. CheckpointingOK(proc[p])'
      <3>1. /\ NextGen(c.listed) = g /\ ckpts'[g] = t /\ \A h \in Gens : CkptTrees(h)' # {} => h <= g
            /\ \A h \in DOMAIN c.listed : h < g
        BY <1>1, <2>1, <2>3, <2>5, <2>6, GitStoreAssumption DEF Gens, g, CheckpointingOK, At
      <3>2. ExtendsCkpts(c.tip)'
        BY <2>1, <2>2, <2>6, PrefixOrder DEF ExtendsCkpts
      <3> QED
        BY <1>1, <2>1, <2>2, <3>1, <3>2 DEF CheckpointingOK, After
    <2>12. RecoveringOK(proc[p])'
      BY <2>1 DEF RecoveringOK
    <2>13. \A q \in Procs : CallInOrder(q)'
      BY <1>1, <2>1, <2>11, <2>12, OthersInOrder DEF CallInOrder
    <2> QED
      BY <2>7, <2>8, <2>9, <2>10, <2>13 DEF InOrder, DiskInOrder
  <1> QED
    BY <1>2, <1>3 DEF CheckpointCreate

\* The created ref is fixed before the earlier ones that it replaces go.
LEMMA CheckpointFinishInOrder ==
  ASSUME Inv, Inv', InOrder, ~Overlapping', NEW p \in Procs, CheckpointFinish(p)
  PROVE  InOrder'
  <1> DEFINE g == NextGen(proc[p].listed)
             t == proc[p].tip
  <1>1. /\ At(p, "finish") /\ Busy(p) /\ CheckpointingOK(proc[p])
        /\ UNCHANGED <<staging, objects, stagingDisk, objectsDisk>>
        /\ acked' = acked \cup {t} /\ proc' = [proc EXCEPT ![p] = Handle(t)]
        /\ Handle(t).pc = "idle"
    BY DEF CheckpointFinish, InOrder, CallInOrder, Busy, At, Return, Handle
  <1>2. /\ t \in Trees /\ ExtendsCkpts(t) /\ g \in Gens /\ ckpts[g] = t
        /\ \A h \in DOMAIN proc[p].listed : h < g
        /\ \A h \in Gens : CkptTrees(h) # {} => h <= g
    BY <1>1 DEF CheckpointingOK, At
  <1>3. PICK dropped \in SUBSET {h \in DOMAIN proc[p].listed : h < g} :
          /\ ckpts' = [h \in Gens |-> IF h \in dropped THEN NoRef ELSE ckpts[h]]
          /\ ckptDisk' = [h \in Gens |-> (IF h = g THEN {ckpts[h]} ELSE ckptDisk[h])
                                        \cup (IF h \in dropped THEN {NoRef} ELSE {})]
    <2>1. PICK dropped \in SUBSET {h \in DOMAIN proc[p].listed \ NewestGens(proc[p].listed) :
                                     ckpts[h] = proc[p].listed[h]} :
            /\ ckpts' = [h \in Gens |-> IF h \in dropped THEN NoRef ELSE ckpts[h]]
            /\ ckptDisk' = [h \in Gens |-> (IF h = g THEN {ckpts[h]} ELSE ckptDisk[h])
                                          \cup (IF h \in dropped THEN {NoRef} ELSE {})]
      BY DEF CheckpointFinish
    <2>2. dropped \in SUBSET {h \in DOMAIN proc[p].listed : h < g}
      BY <1>2
    <2> QED
      BY <2>1, <2>2
  <1>4. g \notin dropped
    BY <1>2, <1>3, GitStoreAssumption DEF Gens
  <1> HIDE DEF g, t
  <1>5. ckpts'[g] = t /\ ckptDisk'[g] = {t}
    BY <1>2, <1>3, <1>4
  <1>6. \A h \in Gens : CkptTrees(h)' \subseteq CkptTrees(h)
    BY <1>3, GitStoreAssumption DEF CkptTrees, Inv, CkptsOK
  <1>7. CkptsGrow'
    BY <1>6 DEF InOrder, DiskInOrder, CkptsGrow
  <1>8. NewestHeld'
    BY <1>2, <1>5, <1>6 DEF NewestHeld
  <1>9. StagingAfterCkpts'
    BY <1>1, <1>6 DEF InOrder, DiskInOrder, StagingAfterCkpts, After
  <1>10. AckedHeld'
    <2> SUFFICES ASSUME NEW a \in acked \cup {t}
                 PROVE  ckptDisk'[g] = {t} /\ IsPrefix(a, t)
      BY <1>1, <1>2 DEF AckedHeld
    <2>1. CASE a = t
      BY <1>2, <1>5, <2>1, PrefixOrder
    <2>2. CASE a \in acked
      <3>1. PICK h \in Gens, x \in Trees : ckptDisk[h] = {x} /\ IsPrefix(a, x)
        BY <2>2 DEF InOrder, DiskInOrder, AckedHeld
      <3>2. IsPrefix(x, t) /\ a \in Trees
        BY <1>2, <2>2, <3>1 DEF ExtendsCkpts, CkptTrees, Inv, ReportsOK
      <3> QED
        BY <1>2, <1>5, <3>1, <3>2, PrefixOrder
    <2> QED
      BY <2>1, <2>2
  <1>11. \A q \in Procs : CallInOrder(q)'
    BY <1>1, RestingInOrder, OthersInOrder
  <1> QED
    BY <1>7, <1>8, <1>9, <1>10, <1>11 DEF InOrder, DiskInOrder

\* A ref that was synced is left alone, and the others are left in order too.
LEMMA PowerLossInOrder ==
  ASSUME Inv, Inv', InOrder, ~Overlapping', PowerLoss
  PROVE  InOrder'
  <1>1. /\ staging' \in stagingDisk /\ stagingDisk' = {staging'}
        /\ \A g \in Gens : ckpts'[g] \in ckptDisk[g] /\ ckptDisk'[g] = {ckpts'[g]}
        /\ proc' = [q \in Procs |-> Closed] /\ acked' = acked
    BY DEF PowerLoss, observers
  <1>2. \A g \in Gens : CkptTrees(g)' \subseteq CkptTrees(g) /\ CkptTrees(g)' \subseteq {ckpts'[g]}
    BY <1>1 DEF CkptTrees
  <1>3. CkptsGrow'
    BY <1>2 DEF InOrder, DiskInOrder, CkptsGrow
  <1>4. NewestHeld'
    <2> SUFFICES ASSUME NEW g \in Gens, CkptTrees(g)' # {}
                 PROVE  \E h \in Gens : g <= h /\ ckpts'[h] \in Trees
      BY DEF NewestHeld
    <2>1. ckpts'[g] \in Trees /\ g <= g
      BY <1>1, GitStoreAssumption DEF CkptTrees, Gens
    <2> QED
      BY <2>1
  <1>5. StagingAfterCkpts'
    BY <1>1, <1>2 DEF InOrder, DiskInOrder, StagingAfterCkpts, After
  <1>6. AckedHeld'
    BY <1>1 DEF InOrder, DiskInOrder, AckedHeld
  <1>7. \A q \in Procs : CallInOrder(q)'
    BY <1>1, ClosedType DEF CallInOrder, CheckpointingOK, RecoveringOK
  <1> QED
    BY <1>3, <1>4, <1>5, <1>6, <1>7 DEF InOrder, DiskInOrder

\* A tree that can be read can be read until a power loss.
LEMMA TipsStayReadable ==
  ASSUME Inv, TipsReadable, NEW p \in Procs, Step(p)
  PROVE  TipsReadable'
  <1>1. proc \in [Procs -> Calls] /\ proc[p] \in Calls
    BY DEF Inv, CallsOK
  <1>2. objects \subseteq objects'
    BY DEF Step, OpenList, OpenRead, Reread, Reset, SyncReset, Apply, CheckpointBegin,
       CheckpointList, CheckpointSync, CheckpointCreate, CheckpointFinish, Fail, Crash, repo
  <1>3. SUFFICES ASSUME NEW c, proc' = [proc EXCEPT ![p] = c],
                        c.tip # NoRef /\ c.tip # proc[p].tip => Readable(c.tip)'
                 PROVE  TipsReadable'
    <2>1. \A t \in {NoRef, proc[p].tip} : Closed.tip = NoRef /\ Handle(t).tip = t
      BY DEF Closed, Handle
    <2>2. CASE Error(p)
      BY <1>3, <2>1, <2>2 DEF Error, Return
    <2>3. ASSUME NEW pc, Continue(p, pc)
          PROVE  TipsReadable'
      BY <1>3, <2>3, ContinueShape
    <2>4. CASE Return(p, Handle(proc[p].tip)) \/ Return(p, Closed)
      BY <1>3, <2>1, <2>4 DEF Return
    <2>5. CASE OpenList(p)
      <3>1. [Closed EXCEPT !.pc = "readStaging", !.opening = TRUE, !.listed = Listed].tip = NoRef
        BY DEF Closed, Handle
      <3> QED
        BY <1>3, <2>5, <3>1 DEF OpenList, Return
    <2>6. CASE OpenRead(p)
      <3> DEFINE n == Newest(proc[p].listed)
                 d(pc, tip, e) == [Handle(tip) EXCEPT !.pc = pc, !.opening = TRUE, !.expected = e]
      <3>1. n # NoRef => Readable(n)
        BY DEF Newest, NewestGens
      <3>2. \A pc, tip, e : d(pc, tip, e).tip = tip /\ Handle(tip).tip = tip /\ Closed.tip = NoRef
        BY DEF Handle, Closed
      <3>3. objects' = objects
        BY <2>6 DEF OpenRead, repo
      <3> HIDE DEF n
      <3>4. \E c : Return(p, c) /\ c.tip \in {NoRef, n, staging} /\ (c.tip = staging => Readable(staging) \/ staging = NoRef \/ staging = n)
        <4>1. CASE Return(p, IF staging = NoRef \/ Readable(staging) THEN Handle(staging) ELSE Closed)
          BY <3>2, <4>1, GitStoreAssumption DEF Readable
        <4>2. CASE Return(p, Handle(n))
          BY <3>2, <4>2
        <4>3. ASSUME Intact(staging, n), NEW h, h = d("checkpoint", staging, NoRef), Return(p, h)
              PROVE  Return(p, h) /\ h.tip = staging /\ Readable(staging)
          BY <3>2, <4>3 DEF Intact
        <4>4. ASSUME NEW pc, NEW e, NEW h, h = d(pc, n, e), Return(p, h)
              PROVE  Return(p, h) /\ h.tip = n
          BY <3>2, <4>4
        <4>5. \/ Return(p, IF staging = NoRef \/ Readable(staging) THEN Handle(staging) ELSE Closed)
              \/ Return(p, Handle(n))
              \/ Intact(staging, n) /\ Return(p, d("checkpoint", staging, NoRef))
              \/ \E pc, e : Return(p, d(pc, n, e))
          BY <2>6 DEF OpenRead, n
        <4> HIDE DEF d
        <4> QED
          BY <4>1, <4>2, <4>3, <4>4, <4>5
      <3> QED
        BY <1>3, <3>1, <3>3, <3>4 DEF Return, Readable
    <2>7. CASE Apply(p)
      <3>1. CASE staging # proc[p].tip
        BY <2>7, <3>1 DEF Apply, TipsReadable, Readable
      <3>2. CASE staging = proc[p].tip
        <4>1. /\ Return(p, Handle(Applied(p))) /\ Handle(Applied(p)).tip = Applied(p)
              /\ Applied(p) \in Trees
              /\ objects' = objects \cup ChangedObjects(Applied(p), proc[p].tip)
          BY <2>7, <3>2 DEF Apply, Handle
        <4>2. <<"tree", Applied(p)>> \in Objects(Applied(p))
          BY <4>1 DEF Objects
        <4>3. proc[p].tip # Applied(p)
          BY <4>1, AppliedExtends, GitStoreAssumption, TreeIsSequence DEF Inv
        <4>4. <<"tree", Applied(p)>> \notin Objects(proc[p].tip)
          BY <4>3 DEF Objects, Batches
        <4> QED
          BY <1>3, <4>1, <4>2, <4>4 DEF Return, ChangedObjects, Readable
      <3> QED
        BY <3>1, <3>2
    <2>8. CASE CheckpointList(p)
      <3>1. CASE Return(p, Handle(proc[p].tip))
        BY <2>4, <3>1
      <3>2. CASE proc' = [proc EXCEPT ![p].pc = "sync", ![p].listed = Listed]
        <4>1. proc' = [proc EXCEPT ![p] = [proc[p] EXCEPT !.pc = "sync", !.listed = Listed]]
          BY <1>1, <3>2
        <4>2. [proc[p] EXCEPT !.pc = "sync", !.listed = Listed].tip = proc[p].tip
          BY <1>1 DEF Calls
        <4> QED
          BY <1>3, <4>1, <4>2
      <3> QED
        BY <2>8, <3>1, <3>2 DEF CheckpointList
    <2>9. CASE Reread(p) \/ Reset(p) \/ SyncReset(p)
      BY <2>2, <2>3, <2>4, <2>9 DEF Reread, Reset, SyncReset
    <2>10. CASE CheckpointBegin(p) \/ CheckpointSync(p) \/ CheckpointCreate(p) \/ CheckpointFinish(p)
      BY <2>2, <2>3, <2>4, <2>10 DEF CheckpointBegin, CheckpointSync, CheckpointCreate, CheckpointFinish
    <2>11. CASE Fail(p) \/ Crash(p)
      BY <2>2, <2>4, <2>11 DEF Fail, Crash
    <2> QED
      BY <2>5, <2>6, <2>7, <2>8, <2>9, <2>10, <2>11 DEF Step
  <1>4. ASSUME NEW q \in Procs, proc'[q].tip # NoRef
        PROVE  Readable(proc[q].tip)'
    <2>1. CASE proc'[q].tip = proc[q].tip
      BY <1>2, <1>4, <2>1 DEF TipsReadable, Readable
    <2>2. CASE q = p
      BY <1>1, <1>2, <1>3, <1>4, <2>2 DEF TipsReadable, Readable
    <2> QED
      BY <1>1, <1>3, <2>1, <2>2
  <1> QED
    BY <1>4 DEF TipsReadable

LEMMA StepKept ==
  ASSUME Inv, Kept, [Next]_vars
  PROVE  Kept'
  <1>1. Inv'
    BY StepInv
  <1>2. ASSUME UNCHANGED vars
        PROVE  Kept'
    <2>1. UNCHANGED <<staging, ckpts, objects, stagingDisk, ckptDisk, objectsDisk, proc, acked, overlap>>
      BY <1>2 DEF vars, repo, disk, observers
    <2>2. Listed' = Listed /\ Newest(Listed)' = Newest(Listed)
      BY <1>1, <2>1, SameListing
    <2>3. ~Overlapping => ~Overlapping'
      BY <2>1 DEF Overlapping, Busy
    <2>4. DiskInOrder => DiskInOrder'
      BY <2>1 DEF DiskInOrder, CkptsGrow, NewestHeld, StagingAfterCkpts, AckedHeld, CkptTrees, After
    <2>5. \A p \in Procs : CallInOrder(p) => CallInOrder(p)'
      BY <2>1, <2>2 DEF CallInOrder, CheckpointingOK, RecoveringOK, ExtendsCkpts, CkptTrees, After, Readable
    <2>6. TipsReadable => TipsReadable'
      BY <2>1 DEF TipsReadable, Readable
    <2> QED
      BY <2>1, <2>3, <2>4, <2>5, <2>6 DEF Kept, InOrder
  <1>3. CASE Next
    <2>1. ~overlap' => ~overlap /\ ~Overlapping'
      BY <1>3 DEF Next
    <2>2. ASSUME NEW p \in Procs, Step(p)
          PROVE  Kept'
      <3>1. TipsReadable'
        BY <2>2, TipsStayReadable DEF Kept
      <3>2. ~overlap' => InOrder'
        BY <1>1, <2>1, <2>2, OpenListInOrder, OpenReadInOrder, RereadInOrder, ResetInOrder,
           SyncResetInOrder, ApplyInOrder, CheckpointBeginInOrder, CheckpointListInOrder,
           CheckpointSyncInOrder, CheckpointCreateInOrder, CheckpointFinishInOrder,
           FailuresInOrder DEF Kept, Step
      <3> QED
        BY <3>1, <3>2 DEF Kept
    <2>3. CASE PowerLoss
      <3>1. TipsReadable'
        BY <2>3, ClosedType DEF PowerLoss, TipsReadable
      <3>2. ~overlap' => InOrder'
        BY <1>1, <2>1, <2>3, PowerLossInOrder DEF Kept
      <3> QED
        BY <3>1, <3>2 DEF Kept
    <2> QED
      BY <1>3, <2>2, <2>3 DEF Next
  <1> QED
    BY <1>2, <1>3

LEMMA KeptInvariance == Spec => [](Inv /\ Kept)
  <1>1. Init => Inv /\ Kept
    BY InitInv, InitKept
  <1>2. Inv /\ Kept /\ [Next]_vars => (Inv /\ Kept)'
    BY StepInv, StepKept
  <1> QED
    BY <1>1, <1>2, PTL DEF Spec

-----------------------------------------------------------------------------

\* A tree reported durable is in a checkpoint that no power loss takes.
LEMMA AckedBelowNewest ==
  ASSUME Inv, DiskInOrder, NEW t \in acked
  PROVE  /\ Newest(Listed) \in Trees /\ IsPrefix(t, Newest(Listed))
         /\ staging \in Trees => IsPrefix(t, staging)
  <1>1. PICK g \in Gens, x \in Trees : ckptDisk[g] = {x} /\ IsPrefix(t, x)
    BY DEF DiskInOrder, AckedHeld
  <1>2. x \in CkptTrees(g) /\ t \in Trees
    BY <1>1 DEF CkptTrees, Inv, ReportsOK
  <1>3. Newest(Listed) \in Trees /\ IsPrefix(x, Newest(Listed))
    BY <1>2, NewestExtendsCkpts DEF DiskInOrder, ExtendsCkpts
  <1>4. staging \in Trees => IsPrefix(x, staging)
    BY <1>2, GitStoreAssumption DEF DiskInOrder, StagingAfterCkpts, After, Inv, StagingOK
  <1> QED
    BY <1>1, <1>2, <1>3, <1>4, PrefixOrder

\* No checkpoint that checkpoint() reported written is reverted: `new` opens at
\* it or at what was built on it, for any number of processes, crashes and power
\* losses, as long as no two calls of `new` or `checkpoint` overlapped.
THEOREM CheckpointsAreKept == Spec => []CheckpointKept
  <1>1. Inv /\ Kept => CheckpointKept
    <2> SUFFICES ASSUME Inv, DiskInOrder, NEW t \in acked
                 PROVE  Recovered \in Trees /\ IsPrefix(t, Recovered)
      BY DEF Kept, InOrder, CheckpointKept
    <2>1. /\ Newest(Listed) \in Trees /\ IsPrefix(t, Newest(Listed))
          /\ staging \in Trees => IsPrefix(t, staging)
      BY AckedBelowNewest
    <2>2. Newest(Listed) # NoRef
      BY <2>1, GitStoreAssumption
    <2> QED
      BY <2>1, <2>2 DEF Recovered, Intact, Readable
  <1> QED
    BY <1>1, KeptInvariance, PTL

\* No update is lost: while power stays, a complete staging tree is replaced only
\* by one that extends it.  An apply extends the tip that staging still is, and
\* recovery overwrites only what it saw to be incomplete, or torn, and still is.
THEOREM UpdatesAreKept == Spec => AppliedKept
  <1>1. ASSUME Inv, Kept, [Next]_vars, losses' = losses, ~overlap',
               staging \in Trees, Objects(staging) \subseteq objects
        PROVE  staging' \in Trees /\ IsPrefix(staging, staging')
    <2>1. CASE staging' = staging
      BY <1>1, <2>1, PrefixOrder
    <2>2. CASE staging' # staging
      <3>1. ~UNCHANGED vars
        BY <2>2 DEF vars, repo
      <3>2. Next /\ ~overlap
        BY <1>1, <3>1 DEF Next
      <3>3. ~PowerLoss
        BY <1>1, GitStoreAssumption DEF PowerLoss, Inv, ReportsOK
      <3>4. PICK p \in Procs : Step(p)
        BY <3>2, <3>3 DEF Next
      <3>5. CASE Apply(p)
        <4>1. staging = proc[p].tip /\ staging' = Applied(p) /\ Applied(p) \in Trees
          BY <2>2, <3>5 DEF Apply, WriteStaging
        <4> QED
          BY <1>1, <4>1, AppliedExtends, GitStoreAssumption
      <3>6. CASE Reset(p)
        <4>1. At(p, "reset") /\ proc[p].expected \in {staging, Torn}
          BY <2>2, <3>6 DEF Reset
        <4>2. RecoveringOK(proc[p])
          BY <1>1, <3>2 DEF Kept, InOrder, CallInOrder
        <4>3. <<"tree", staging>> \in Objects(staging)
          BY <1>1 DEF Objects
        <4>4. FALSE
          BY <1>1, <4>1, <4>2, <4>3 DEF RecoveringOK, At, Readable
        <4> QED
          BY <4>4
      <3>7. Step(p) => Apply(p) \/ Reset(p) \/ staging' = staging
        BY DEF Step, OpenList, OpenRead, Reread, SyncReset, CheckpointBegin,
           CheckpointList, CheckpointSync, CheckpointCreate, CheckpointFinish, Fail, Crash, repo
      <3> QED
        BY <2>2, <3>4, <3>5, <3>6, <3>7
    <2> QED
      BY <2>1, <2>2
  <1>2. Inv /\ Kept /\ [Next]_vars =>
          [losses' = losses /\ ~overlap' /\ staging \in Trees /\ Objects(staging) \subseteq objects
             => staging' \in Trees /\ IsPrefix(staging, staging')]_vars
    BY <1>1
  <1> QED
    BY <1>2, KeptInvariance, PTL DEF Spec, AppliedKept

-----------------------------------------------------------------------------
(* One process: the store is a DurableLog *)

\* What it checkpoints is what staging holds, and once there is a checkpoint it
\* has a tip, with no object missing while staging is there.
AloneOK(c) ==
  /\ c.pc = "readStaging" => c.opening
  /\ c.pc \in {"list", "sync", "create", "finish"} => staging = c.tip
  /\ c.pc \notin {"closed", "readStaging"} /\ Newest(Listed) # NoRef =>
       c.tip # NoRef /\ (staging = c.tip => Objects(c.tip) \subseteq objects)

Alone == ~overlap /\ \A p \in Procs : AloneOK(proc[p])

\* The log, what is durable of it and its past, as Promise maps them.
Log == IF Readable(Recovered) THEN Recovered ELSE <<>>
Durable ==
  IF acked = {} THEN <<>> ELSE CHOOSE t \in acked : \A s \in acked : Len(s) <= Len(t)
Past == {<<>>} \cup applied

\* The log is what a store with a checkpoint recovers, or else what staging holds.
LEMMA LogCases ==
  Inv => IF Newest(Listed) = NoRef \/ Intact(staging, Newest(Listed))
         THEN Log = IF Readable(staging) THEN staging ELSE <<>>
         ELSE Log = Newest(Listed)
  <1> SUFFICES ASSUME Inv
               PROVE  IF Newest(Listed) = NoRef \/ Intact(staging, Newest(Listed))
                      THEN Log = IF Readable(staging) THEN staging ELSE <<>>
                      ELSE Log = Newest(Listed)
    OBVIOUS
  <1>1. Newest(Listed) # NoRef => Readable(Newest(Listed))
    BY DEF Newest, NewestGens
  <1> QED
    BY <1>1 DEF Log, Recovered

\* A handle at what staging holds is at the log.
LogAtTip ==
  \A p \in Procs : proc[p].pc \notin {"closed", "readStaging"} /\ staging = proc[p].tip
                     => Log = IF proc[p].tip = NoRef THEN <<>> ELSE proc[p].tip

\* For one process, the abstract log is then the tip of its handle.
LEMMA LogIsTip == Inv /\ Kept /\ Alone => LogAtTip
  <1> SUFFICES ASSUME Inv, Kept, Alone, NEW p \in Procs,
                      proc[p].pc \notin {"closed", "readStaging"}, staging = proc[p].tip
               PROVE  Log = IF proc[p].tip = NoRef THEN <<>> ELSE proc[p].tip
    BY DEF LogAtTip
  <1>1. CASE Newest(Listed) = NoRef
    BY <1>1, LogCases, GitStoreAssumption DEF Kept, TipsReadable, Readable
  <1>2. CASE Newest(Listed) # NoRef
    <2>1. staging # NoRef /\ Objects(staging) \subseteq objects
      BY <1>2 DEF Alone, AloneOK
    <2>2. Readable(staging)
      BY <2>1 DEF Kept, TipsReadable
    <2>3. Intact(staging, Newest(Listed))
      BY <2>1, <2>2 DEF Intact, ChangedObjects
    <2> QED
      BY <2>1, <2>2, <2>3, LogCases
  <1> QED
    BY <1>1, <1>2

\* Of trees there is a longest, and all of `acked` are prefixes of it.
LEMMA DurableIs ==
  ASSUME NEW T \in SUBSET Trees, T # {}
  PROVE  LET d == CHOOSE t \in T : \A s \in T : Len(s) <= Len(t)
         IN  d \in T /\ \A s \in T : Len(s) <= Len(d)
  <1> DEFINE G == {Len(t) : t \in T}
  <1>1. G \in SUBSET (1..MaxBatches) /\ G # {}
    BY TreeIsSequence
  <1> HIDE DEF G
  <1>2. PICK g \in G : \A h \in G : h <= g
    BY <1>1, GreatestExists, GitStoreAssumption
  <1>3. \E t \in T : \A s \in T : Len(s) <= Len(t)
    BY <1>2 DEF G
  <1> QED
    BY <1>3

\* The log is a state it had, and has everything in it that is durable.
LEMMA LogKept ==
  Inv /\ InOrder => Log \in Past /\ IsPrefix(Durable, Log)
  <1> SUFFICES ASSUME Inv, InOrder
               PROVE  Log \in Past /\ IsPrefix(Durable, Log)
    OBVIOUS
  <1>1. Readable(staging) => staging \in applied
    BY GitStoreAssumption DEF Inv, StagingOK, Readable, Values
  <1>2. Newest(Listed) # NoRef => Newest(Listed) \in applied
    BY ListedOK, NewestListed
  <1>3. Log \in Past
    BY <1>1, <1>2, LogCases DEF Past
  <1>4. CASE acked = {}
    <2>1. Log \in Seq(Procs)
      <3>1. CASE Log = <<>>
        BY <3>1
      <3>2. CASE Log \in Trees
        BY <3>2, TreeIsSequence
      <3> QED
        BY <1>3, <3>1, <3>2 DEF Past, Inv, ReportsOK
    <2>2. Durable = <<>>
      BY <1>4 DEF Durable
    <2>3. Len(<<>>) <= Len(Log) /\ SubSeq(Log, 1, 0) = <<>> /\ Len(<<>>) = 0
      BY <2>1
    <2> QED
      BY <1>3, <2>2, <2>3 DEF IsPrefix
  <1>5. CASE acked # {}
    <2>1. Durable \in acked
      BY <1>5, DurableIs DEF Durable, Inv, ReportsOK
    <2>2. /\ Newest(Listed) \in Trees /\ IsPrefix(Durable, Newest(Listed))
          /\ staging \in Trees => IsPrefix(Durable, staging)
      BY <2>1, AckedBelowNewest DEF InOrder
    <2> QED
      BY <1>3, <2>2, LogCases, GitStoreAssumption DEF Readable, Intact
  <1> QED
    BY <1>3, <1>4, <1>5

\* Nothing the log depends on has changed.
LEMMA SameLog ==
  ASSUME Inv, Inv', UNCHANGED <<staging, ckpts, objects>>
  PROVE  Log' = Log
  BY SameListing DEF Log, Recovered, Intact, Readable

LEMMA InitAlone ==
  ASSUME Init
  PROVE  Alone
  BY ClosedType DEF Init, Alone, AloneOK

\* The one process moves to c.
LEMMA MoveAlone ==
  ASSUME Inv, Alone, ~overlap', NEW p \in Procs, \A q \in Procs : q = p,
         NEW c, proc' = [proc EXCEPT ![p] = c],
         c.pc = "readStaging" => c.opening,
         c.pc \in {"list", "sync", "create", "finish"} => staging' = c.tip,
         c.pc \notin {"closed", "readStaging"} /\ Newest(Listed)' # NoRef =>
           c.tip # NoRef /\ (staging' = c.tip => Objects(c.tip) \subseteq objects')
  PROVE  Alone'
  <1>1. proc'[p] = c
    BY DEF Inv, CallsOK
  <1> QED
    BY <1>1 DEF Alone, AloneOK

\* It stays in a call with the tip it had, or leaves one, and what it had was there.
LEMMA StayAlone ==
  ASSUME Inv, Alone, ~overlap', NEW p \in Procs, \A q \in Procs : q = p,
         NEW c, proc' = [proc EXCEPT ![p] = c], c.tip = proc[p].tip,
         proc[p].pc \notin {"closed", "readStaging"},
         c.pc = "readStaging" => c.opening,
         c.pc \in {"list", "sync", "create", "finish"} => staging' = c.tip,
         UNCHANGED <<staging, objects>>, Newest(Listed)' # NoRef => Newest(Listed) # NoRef
  PROVE  Alone'
  <1>1. AloneOK(proc[p])
    BY DEF Alone
  <1> QED
    BY <1>1, MoveAlone DEF AloneOK

LEMMA ErrorAlone ==
  ASSUME Inv, Inv', Alone, ~overlap', NEW p \in Procs, \A q \in Procs : q = p,
         Error(p), proc[p].pc # "closed", UNCHANGED repo
  PROVE  Alone'
  <1>1. UNCHANGED <<staging, objects, ckpts>> /\ Newest(Listed)' = Newest(Listed)
    BY SameListing DEF repo
  <1>2. CASE Return(p, Closed)
    <2>1. Closed.pc = "closed"
      BY DEF Closed
    <2> QED
      BY <1>2, <2>1, MoveAlone DEF Return
  <1>3. CASE ~proc[p].opening /\ Return(p, Handle(proc[p].tip))
    <2>1. Handle(proc[p].tip).pc = "idle" /\ Handle(proc[p].tip).tip = proc[p].tip
      BY DEF Handle
    <2>2. proc[p].pc # "readStaging"
      BY <1>3 DEF Alone, AloneOK
    <2> QED
      BY <1>1, <1>3, <2>1, <2>2, StayAlone DEF Return
  <1> QED
    BY <1>2, <1>3 DEF Error

\* The steps of `new`: a handle is at the newest checkpoint, or at a staging tree
\* that has all it adds to it.
LEMMA OpenAlone ==
  ASSUME Inv, Inv', Kept, Alone, ~overlap', NEW p \in Procs, \A q \in Procs : q = p,
         OpenList(p) \/ OpenRead(p) \/ Reread(p) \/ Reset(p) \/ SyncReset(p)
  PROVE  Alone'
  <1>1. CallInOrder(p) /\ DiskInOrder
    BY DEF Alone, Kept, InOrder
  <1>2. UNCHANGED <<ckpts, objects>> /\ Newest(Listed)' = Newest(Listed)
    BY SameListing DEF OpenList, OpenRead, Reread, Reset, SyncReset, repo
  <1>3. Newest(Listed) # NoRef => Newest(Listed) \in Trees /\ Objects(Newest(Listed)) \subseteq objects
    BY ListedOK, NewestListed DEF Inv, ReportsOK, ObjectsOK
  <1>4. CASE OpenList(p)
    <2> DEFINE c == [Closed EXCEPT !.pc = "readStaging", !.opening = TRUE, !.listed = Listed]
    <2>1. c.pc = "readStaging" /\ c.opening
      BY DEF Closed, Handle
    <2>2. proc' = [proc EXCEPT ![p] = c]
      BY <1>4 DEF OpenList, Return
    <2> HIDE DEF c
    <2> QED
      BY <2>1, <2>2, MoveAlone
  <1>5. CASE OpenRead(p)
    <2> DEFINE n == Newest(Listed)
               d(pc, tip, e) == [Handle(tip) EXCEPT !.pc = pc, !.opening = TRUE, !.expected = e]
    <2>1. n = Newest(proc[p].listed)
      BY <1>1, <1>5 DEF OpenRead, At, CallInOrder, CheckpointingOK
    <2>2. staging' = staging
      BY <1>5 DEF OpenRead, repo
    <2>3. \A pc, tip, e : d(pc, tip, e).tip = tip /\ d(pc, tip, e).pc = pc
      BY DEF Handle
    <2>4. Closed.pc = "closed" /\ \A t : Handle(t).pc = "idle" /\ Handle(t).tip = t
      BY DEF Handle, Closed
    <2>5. \/ n = NoRef /\ Return(p, Handle(staging))
          \/ n = NoRef /\ Return(p, Closed)
          \/ n # NoRef /\ Return(p, Handle(n))
          \/ Intact(staging, n) /\ Return(p, d("checkpoint", staging, NoRef))
          \/ n # NoRef /\ \E pc \in {"reset", "reread"} : \E e : Return(p, d(pc, n, e))
      BY <1>5, <2>1 DEF OpenRead
    <2> HIDE DEF n, d
    <2>6. CASE n = NoRef /\ (Return(p, Handle(staging)) \/ Return(p, Closed))
      BY <1>2, <2>4, <2>6, MoveAlone DEF Return, n
    <2>7. CASE n # NoRef /\ Return(p, Handle(n))
      BY <1>2, <1>3, <2>4, <2>7, MoveAlone DEF Return, n
    <2>8. CASE Intact(staging, n) /\ Return(p, d("checkpoint", staging, NoRef))
      <3>1. n # NoRef => staging # NoRef /\ Objects(staging) \subseteq objects
        BY <1>3, <2>8, GitStoreAssumption DEF Intact, ChangedObjects, Readable, n
      <3> DEFINE h == d("checkpoint", staging, NoRef)
      <3>2. proc' = [proc EXCEPT ![p] = h] /\ h.pc = "checkpoint" /\ h.tip = staging
        BY <2>3, <2>8 DEF Return
      <3> HIDE DEF h
      <3> QED
        BY <1>2, <2>2, <3>1, <3>2, MoveAlone DEF n
    <2>9. ASSUME n # NoRef, NEW pc \in {"reset", "reread"}, NEW e, Return(p, d(pc, n, e))
          PROVE  Alone'
      <3> DEFINE h == d(pc, n, e)
      <3>1. proc' = [proc EXCEPT ![p] = h] /\ h.pc = pc /\ h.tip = n
        BY <2>3, <2>9 DEF Return
      <3> HIDE DEF h
      <3> QED
        BY <1>2, <1>3, <2>9, <3>1, MoveAlone DEF n
    <2> QED
      BY <2>5, <2>6, <2>7, <2>8, <2>9
  <1>6. CASE Reread(p)
    <2>1. proc[p].pc \notin {"closed", "readStaging"} /\ UNCHANGED repo /\ UNCHANGED <<staging, objects>>
      BY <1>6 DEF Reread, At, repo
    <2>2. CASE Error(p)
      BY <2>1, <2>2, ErrorAlone
    <2>3. CASE Continue(p, "reset")
      <3>1. PICK c : proc' = [proc EXCEPT ![p] = c] /\ c.pc = "reset" /\ c.tip = proc[p].tip
        BY <2>3, ContinueShape
      <3> QED
        BY <1>2, <2>1, <3>1, StayAlone
    <2> QED
      BY <1>6, <2>2, <2>3 DEF Reread
  <1>7. CASE Reset(p)
    <2>1. proc[p].pc = "reset"
      BY <1>7 DEF Reset, At
    <2>2. CASE Error(p) /\ UNCHANGED staging
      BY <1>2, <2>1, <2>2, ErrorAlone DEF repo
    <2>3. CASE Continue(p, "syncReset")
      <3>1. PICK c : proc' = [proc EXCEPT ![p] = c] /\ c.pc = "syncReset" /\ c.tip = proc[p].tip
        BY <2>3, ContinueShape
      <3>2. proc[p].tip = Newest(Listed)
        BY <1>1, <2>1 DEF CallInOrder, RecoveringOK
      <3> QED
        BY <1>2, <1>3, <3>1, <3>2, MoveAlone
    <2> QED
      BY <1>7, <2>2, <2>3 DEF Reset
  <1>8. CASE SyncReset(p)
    <2>1. /\ proc[p].pc = "syncReset" /\ UNCHANGED <<staging, objects>>
          /\ proc' = [proc EXCEPT ![p] = Handle(proc[p].tip)]
          /\ Handle(proc[p].tip).pc = "idle" /\ Handle(proc[p].tip).tip = proc[p].tip
      BY <1>8 DEF SyncReset, At, repo, Return, Handle
    <2> QED
      BY <1>2, <2>1, StayAlone
  <1> QED
    BY <1>4, <1>5, <1>6, <1>7, <1>8

LEMMA ApplyAlone ==
  ASSUME Inv, Inv', Kept, Alone, ~overlap', NEW p \in Procs, \A q \in Procs : q = p, Apply(p)
  PROVE  Alone'
  <1>1. /\ Newest(Listed)' = Newest(Listed) /\ Applied(p) \in Trees /\ proc[p].pc = "idle"
        /\ AloneOK(proc[p])
    BY SameListing DEF Apply, At, Alone
  <1>2. CASE staging # proc[p].tip
    <2>1. UNCHANGED <<staging, objects, proc>>
      BY <1>2 DEF Apply
    <2>2. proc' = [proc EXCEPT ![p] = proc[p]]
      BY <2>1 DEF Inv, CallsOK
    <2> QED
      BY <1>1, <2>1, <2>2, StayAlone
  <1>3. CASE staging = proc[p].tip
    <2>1. /\ objects' = objects \cup ChangedObjects(Applied(p), proc[p].tip)
          /\ proc' = [proc EXCEPT ![p] = Handle(Applied(p))]
          /\ Handle(Applied(p)).pc = "idle" /\ Handle(Applied(p)).tip = Applied(p)
      BY <1>3 DEF Apply, Return, Handle
    <2>2. Newest(Listed) # NoRef => Objects(Applied(p)) \subseteq objects'
      BY <1>1, <1>3, <2>1 DEF AloneOK, ChangedObjects
    <2> QED
      BY <1>1, <2>1, <2>2, MoveAlone, GitStoreAssumption
  <1> QED
    BY <1>2, <1>3

LEMMA CheckpointAlone ==
  ASSUME Inv, Inv', Kept, Alone, ~overlap', NEW p \in Procs, \A q \in Procs : q = p,
         \/ CheckpointBegin(p) \/ CheckpointList(p) \/ CheckpointSync(p)
         \/ CheckpointCreate(p) \/ CheckpointFinish(p)
  PROVE  Alone'
  <1>1. /\ proc[p] \in Calls /\ AloneOK(proc[p]) /\ CallInOrder(p)
        /\ CallOK(proc[p], applied, objectsDisk)
    BY DEF Inv, CallsOK, Alone, Kept, InOrder
  <1>2. proc[p].pc \notin {"closed", "readStaging"} /\ UNCHANGED <<staging, objects>>
    BY DEF CheckpointBegin, CheckpointList, CheckpointSync, CheckpointCreate,
       CheckpointFinish, At, repo
  <1>3. Handle(proc[p].tip).pc = "idle" /\ Handle(proc[p].tip).tip = proc[p].tip
    BY DEF Handle
  <1>4. ckpts' = ckpts => Newest(Listed)' = Newest(Listed)
    BY SameListing
  <1>5. CASE Error(p) /\ ckpts' = ckpts
    BY <1>2, <1>5, ErrorAlone DEF repo
  <1>6. CASE CheckpointBegin(p) /\ staging = proc[p].tip /\ Continue(p, "list")
    <2>1. PICK c : proc' = [proc EXCEPT ![p] = c] /\ c.pc = "list" /\ c.tip = proc[p].tip
      BY <1>6, ContinueShape
    <2> QED
      BY <1>2, <1>4, <1>6, <2>1, StayAlone DEF CheckpointBegin, repo
  <1>7. CASE CheckpointList(p)
    <2>1. At(p, "list") /\ ckpts' = ckpts
      BY <1>7 DEF CheckpointList, repo
    <2>2. CASE Return(p, Handle(proc[p].tip))
      BY <1>2, <1>3, <1>4, <2>1, <2>2, StayAlone DEF Return
    <2>3. CASE proc' = [proc EXCEPT ![p].pc = "sync", ![p].listed = Listed]
      <3> DEFINE c == [proc[p] EXCEPT !.pc = "sync", !.listed = Listed]
      <3>1. c.pc = "sync" /\ c.tip = proc[p].tip /\ proc' = [proc EXCEPT ![p] = c]
        BY <1>1, <2>3 DEF Calls, Inv, CallsOK
      <3> HIDE DEF c
      <3>2. staging = proc[p].tip
        BY <1>1, <2>1 DEF AloneOK, At
      <3> QED
        BY <1>2, <1>4, <2>1, <3>1, <3>2, StayAlone
    <2> QED
      BY <1>7, <2>2, <2>3 DEF CheckpointList
  <1>8. CASE CheckpointSync(p) /\ Continue(p, "create")
    <2>1. PICK c : proc' = [proc EXCEPT ![p] = c] /\ c.pc = "create" /\ c.tip = proc[p].tip
      BY <1>8, ContinueShape
    <2>2. staging = proc[p].tip /\ ckpts' = ckpts
      BY <1>1, <1>8 DEF CheckpointSync, At, AloneOK, repo
    <2> QED
      BY <1>2, <1>4, <2>1, <2>2, StayAlone
  <1>9. CASE CheckpointCreate(p) /\ Continue(p, "finish")
    <2>1. PICK c : proc' = [proc EXCEPT ![p] = c] /\ c.pc = "finish" /\ c.tip = proc[p].tip
      BY <1>9, ContinueShape
    <2>2. staging = proc[p].tip
      BY <1>1, <1>9 DEF CheckpointCreate, At, AloneOK
    <2>3. proc[p].tip # NoRef /\ Objects(proc[p].tip) \subseteq objects'
      BY <1>1, <1>2, <1>9 DEF CheckpointCreate, At, CallOK, Inv, ObjectsOK
    <2> QED
      BY <1>2, <2>1, <2>2, <2>3, MoveAlone
  <1>10. CASE CheckpointFinish(p)
    <2>1. proc[p].pc = "finish" /\ proc' = [proc EXCEPT ![p] = Handle(proc[p].tip)]
      BY <1>10 DEF CheckpointFinish, At, Return
    <2>2. Newest(Listed) # NoRef
      <3>1. NextGen(proc[p].listed) \in Gens /\ ckpts[NextGen(proc[p].listed)] \in Trees
        BY <1>1, <2>1 DEF CallInOrder, CheckpointingOK
      <3> QED
        BY <3>1, NewestCases, GitStoreAssumption
    <2> QED
      BY <1>2, <1>3, <2>1, <2>2, StayAlone
  <1> QED
    BY <1>5, <1>6, <1>7, <1>8, <1>9, <1>10
       DEF CheckpointBegin, CheckpointSync, CheckpointCreate, repo

LEMMA StepAlone ==
  ASSUME Inv, Inv', Kept, Alone, [Next]_vars, \A p, q \in Procs : p = q
  PROVE  Alone'
  <1>1. CASE Next
    <2>1. ~overlap'
      BY <1>1 DEF Next, Overlapping, Alone
    <2>2. ASSUME NEW p \in Procs, Step(p)
          PROVE  Alone'
      <3>0. \A q \in Procs : q = p
        OBVIOUS
      <3>1. CASE Fail(p)
        BY <2>1, <3>0, <3>1, ErrorAlone DEF Fail
      <3>2. CASE Crash(p)
        <4>1. Closed.pc = "closed"
          BY DEF Closed
        <4> QED
          BY <2>1, <3>0, <3>2, <4>1, MoveAlone DEF Crash, Return
      <3> QED
        BY <2>1, <2>2, <3>0, <3>1, <3>2, OpenAlone, ApplyAlone, CheckpointAlone DEF Step
    <2>3. CASE PowerLoss
      BY <2>1, <2>3, ClosedType DEF PowerLoss, Alone, AloneOK
    <2> QED
      BY <1>1, <2>2, <2>3 DEF Next
  <1>2. CASE UNCHANGED vars
    <2>1. UNCHANGED <<staging, ckpts, objects, proc, overlap>>
      BY <1>2 DEF vars, repo
    <2>2. Newest(Listed)' = Newest(Listed)
      BY <2>1, SameListing
    <2> QED
      BY <2>1, <2>2 DEF Alone, AloneOK
  <1> QED
    BY <1>1, <1>2

\* Promise's steps, over the log as it is mapped.
LEMMA PromiseSteps ==
  /\ Promise!Init <=> Log = <<>> /\ Durable = <<>> /\ Past = {<<>>}
  /\ (Log' \in {Append(Log, b) : b \in Procs} /\ Past' = Past \cup {Log'} /\ Durable' = Durable)
       => Promise!Next
  /\ (Durable' = Log /\ Log' = Log /\ Past' = Past) => Promise!Next
  /\ (Log' \in Past /\ IsPrefix(Durable, Log') /\ Durable' = Durable /\ Past' = Past) => Promise!Next
  BY DEF Promise!Init, Promise!Next, Promise!Apply, Promise!Checkpoint, Promise!PowerLoss,
         Promise!IsPrefix, IsPrefix, Log, Durable, Past

LEMMA InitPromise ==
  ASSUME Init
  PROVE  Promise!Init
  <1>1. Newest(Listed) = NoRef
    BY InitInv, NewestCases, GitStoreAssumption DEF Init
  <1>2. Log = <<>>
    BY <1>1, InitInv, LogCases, GitStoreAssumption DEF Init, Readable
  <1> QED
    BY <1>2, PromiseSteps DEF Init, Durable, Past

\* An apply appends one batch to the log.
LEMMA ApplyPromise ==
  ASSUME Inv, Inv', Kept, Kept', Alone, Alone', NEW p \in Procs, Apply(p)
  PROVE  Promise!Next \/ UNCHANGED <<Log, Durable, Past>>
  <1>1. CASE staging # proc[p].tip
    <2>1. UNCHANGED <<staging, ckpts, objects, acked, applied>>
      BY <1>1 DEF Apply
    <2> QED
      BY <2>1, SameLog DEF Durable, Past
  <1>2. CASE staging = proc[p].tip
    <2>1. Log = IF proc[p].tip = NoRef THEN <<>> ELSE proc[p].tip
      BY <1>2, LogIsTip DEF Apply, At, LogAtTip
    <2>2. /\ proc'[p].pc = "idle" /\ proc'[p].tip = Applied(p) /\ staging' = Applied(p)
          /\ Applied(p) \in Trees /\ applied' = applied \cup {Applied(p)} /\ acked' = acked
      BY <1>2 DEF Apply, Return, Handle, WriteStaging, Inv, CallsOK
    <2>3. (Inv /\ Kept /\ Alone => LogAtTip)'
      BY LogIsTip, PTL
    <2>4. Log' = Applied(p)
      BY <2>2, <2>3, GitStoreAssumption DEF LogAtTip
    <2>5. Applied(p) = Append(Log, p)
      <3>1. CASE proc[p].tip = NoRef
        BY <2>1, <3>1 DEF Applied
      <3>2. CASE proc[p].tip # NoRef
        BY <2>1, <3>2 DEF Applied
      <3> QED
        BY <3>1, <3>2
    <2>6. Durable' = Durable /\ Past' = Past \cup {Log'}
      BY <2>2, <2>4 DEF Durable, Past
    <2> QED
      BY <2>4, <2>5, <2>6, PromiseSteps
  <1> QED
    BY <1>1, <1>2

\* Recovery resets staging to what it would have recovered anyway.
LEMMA ResetPromise ==
  ASSUME Inv, Inv', Kept, Kept', Alone, Alone', NEW p \in Procs, Reset(p)
  PROVE  UNCHANGED <<Log, Durable, Past>>
  <1>1. /\ At(p, "reset") /\ UNCHANGED <<ckpts, objects, acked, applied>>
        /\ Newest(Listed)' = Newest(Listed)
    BY SameListing DEF Reset, observers
  <1>2. CASE UNCHANGED staging
    BY <1>1, <1>2, SameLog DEF Durable, Past
  <1>3. CASE proc[p].expected \in {staging, Torn} /\ staging' = proc[p].tip
    <2>1. proc[p].tip = Newest(Listed) /\ Newest(Listed) \in Trees
      BY <1>1 DEF At, Alone, Kept, InOrder, CallInOrder, RecoveringOK
    <2>2. Newest(Listed) # NoRef /\ Objects(Newest(Listed)) \subseteq objects
      BY <2>1, GitStoreAssumption, ListedOK, NewestListed DEF Inv, ObjectsOK
    <2>3. ~Intact(staging, Newest(Listed))
      <3>1. Readable(staging) => staging \in Trees /\ staging # Torn
        BY GitStoreAssumption DEF Readable
      <3>2. Readable(staging) => ~(Objects(staging) \subseteq objects)
        BY <1>1, <1>3, <3>1 DEF At, Alone, Kept, InOrder, CallInOrder, RecoveringOK
      <3> QED
        BY <2>2, <3>2 DEF Intact, ChangedObjects
    <2>4. Log = Newest(Listed)
      BY <2>2, <2>3, LogCases
    <2>5. (Inv => IF Newest(Listed) = NoRef \/ Intact(staging, Newest(Listed))
                  THEN Log = IF Readable(staging) THEN staging ELSE <<>>
                  ELSE Log = Newest(Listed))'
      BY LogCases, PTL
    <2>6. Readable(Newest(Listed))
      BY <2>2 DEF Newest, NewestGens
    <2>7. Readable(staging)' /\ staging' = Newest(Listed)
      BY <1>1, <1>3, <2>1, <2>6 DEF Readable
    <2>8. Log' = Newest(Listed)
      BY <1>1, <2>5, <2>7
    <2> QED
      BY <1>1, <2>4, <2>8 DEF Durable, Past
  <1> QED
    BY <1>2, <1>3 DEF Reset, WriteStaging

\* Creating the next checkpoint ref changes nothing; when it is synced, all of the
\* log is durable.
LEMMA CheckpointPromise ==
  ASSUME Inv, Inv', Kept, Kept', Alone, Alone', NEW p \in Procs,
         CheckpointCreate(p) \/ CheckpointFinish(p)
  PROVE  Promise!Next \/ UNCHANGED <<Log, Durable, Past>>
  <1> DEFINE t == proc[p].tip
  <1>1. /\ proc[p].pc \in {"create", "finish"} /\ UNCHANGED <<staging, objects, applied>>
        /\ CallInOrder(p) /\ DiskInOrder
    BY DEF CheckpointCreate, CheckpointFinish, observers, At, Alone, Kept, InOrder
  <1>2. t \in Trees /\ ExtendsCkpts(t) /\ staging = t /\ t # NoRef
    BY <1>1, GitStoreAssumption DEF CallInOrder, CheckpointingOK, Alone, AloneOK
  <1>3. Log = t
    BY <1>1, <1>2, LogIsTip DEF LogAtTip
  <1>4. CASE CheckpointCreate(p) /\ ckpts' = ckpts
    <2>1. UNCHANGED <<staging, ckpts, objects, acked, applied>>
      BY <1>1, <1>4 DEF CheckpointCreate, observers
    <2> QED
      BY <2>1, SameLog DEF Durable, Past
  <1>5. ASSUME proc'[p].tip = t, proc'[p].pc \in {"idle", "finish"}
        PROVE  Log' = t
    <2>1. (Inv /\ Kept /\ Alone => LogAtTip)'
      BY LogIsTip, PTL
    <2>2. staging' = proc'[p].tip /\ proc'[p].tip # NoRef
      BY <1>1, <1>2, <1>5
    <2>3. proc'[p].pc \notin {"closed", "readStaging"}
      BY <1>5
    <2>4. Log' = proc'[p].tip
      BY <2>1, <2>2, <2>3 DEF LogAtTip
    <2> QED
      BY <1>5, <2>4
  <1> HIDE DEF t
  <1>6. CASE CheckpointCreate(p) /\ Continue(p, "finish")
    <2>1. proc'[p].tip = t /\ proc'[p].pc = "finish"
      BY <1>6, ContinueShape DEF t
    <2>2. acked' = acked
      BY <1>6 DEF CheckpointCreate, observers
    <2> QED
      BY <1>1, <1>3, <1>5, <2>1, <2>2 DEF Durable, Past
  <1>7. CASE CheckpointFinish(p)
    <2>1. proc'[p].tip = t /\ proc'[p].pc = "idle" /\ acked' = acked \cup {t}
      BY <1>7 DEF CheckpointFinish, Return, Handle, Inv, CallsOK, t
    <2>2. \A a \in acked' : a \in Trees /\ IsPrefix(a, t)
      <3> SUFFICES ASSUME NEW a \in acked
                   PROVE  a \in Trees /\ IsPrefix(a, t)
        BY <1>2, <2>1, PrefixOrder
      <3>1. PICK g \in Gens, x \in Trees : ckptDisk[g] = {x} /\ IsPrefix(a, x)
        BY <1>1 DEF DiskInOrder, AckedHeld
      <3>2. IsPrefix(x, t) /\ a \in Trees
        BY <1>2, <3>1 DEF ExtendsCkpts, CkptTrees, Inv, ReportsOK
      <3> QED
        BY <1>2, <3>1, <3>2, PrefixOrder
    <2>3. Durable' = t
      <3> DEFINE d == CHOOSE u \in acked' : \A s \in acked' : Len(s) <= Len(u)
      <3>1. d \in acked' /\ \A s \in acked' : Len(s) <= Len(d)
        BY <2>1, <2>2, DurableIs
      <3>2. Durable' = d
        BY <2>1 DEF Durable
      <3> HIDE DEF d
      <3> QED
        BY <1>2, <2>1, <2>2, <3>1, <3>2, PrefixOrder
    <2> QED
      BY <1>1, <1>3, <1>5, <2>1, <2>3, PromiseSteps DEF Past
  <1> QED
    BY <1>4, <1>6, <1>7 DEF CheckpointCreate

\* A power loss takes the log back to a state that has all that is durable.
LEMMA PowerLossPromise ==
  ASSUME Inv, Inv', Kept', Alone', PowerLoss
  PROVE  Promise!Next
  <1>1. (Inv /\ InOrder => Log \in Past /\ IsPrefix(Durable, Log))'
    BY LogKept, PTL
  <1>2. acked' = acked /\ applied' = applied
    BY DEF PowerLoss, observers
  <1>3. Durable' = Durable /\ Past' = Past
    BY <1>2 DEF Durable, Past
  <1>4. Log' \in Past /\ IsPrefix(Durable, Log')
    BY <1>1, <1>3 DEF Kept, Alone
  <1> QED
    BY <1>3, <1>4, PromiseSteps

LEMMA StepPromise ==
  ASSUME Inv, Inv', Kept, Kept', Alone, Alone', [Next]_vars
  PROVE  [Promise!Next]_<<Log, Durable, Past>>
  <1>1. ASSUME UNCHANGED <<staging, ckpts, objects, acked, applied>>
        PROVE  UNCHANGED <<Log, Durable, Past>>
    BY <1>1, SameLog DEF Durable, Past
  <1>2. ASSUME NEW p \in Procs, Step(p)
        PROVE  Promise!Next \/ UNCHANGED <<Log, Durable, Past>>
    <2>1. CASE Apply(p)
      BY <2>1, ApplyPromise
    <2>2. CASE Reset(p)
      BY <2>2, ResetPromise
    <2>3. CASE CheckpointCreate(p) \/ CheckpointFinish(p)
      BY <2>3, CheckpointPromise
    <2>4. \/ Apply(p) \/ Reset(p) \/ CheckpointCreate(p) \/ CheckpointFinish(p)
          \/ UNCHANGED <<staging, ckpts, objects, acked, applied>>
      BY <1>2 DEF Step, OpenList, OpenRead, Reread, SyncReset, CheckpointBegin,
         CheckpointList, CheckpointSync, Fail, Crash, repo, observers
    <2> QED
      BY <1>1, <2>1, <2>2, <2>3, <2>4
  <1>3. CASE PowerLoss
    BY <1>3, PowerLossPromise
  <1>4. CASE UNCHANGED vars
    BY <1>1, <1>4 DEF vars, repo, observers
  <1> QED
    BY <1>2, <1>3, <1>4 DEF Next

\* To the one process that uses it, the store is a log that changes by what it
\* applies and, at a power loss, to a state it had that has everything durable in
\* it: its crashes, its errors and every step of recovery and of checkpoint() up
\* to the last are invisible.
THEOREM ImplementsDurableLog ==
  ASSUME \A p, q \in Procs : p = q
  PROVE  Spec => DurableLogSpec
  <1>1. Init => Inv /\ Kept /\ Alone /\ Promise!Init
    BY InitInv, InitKept, InitAlone, InitPromise
  <1>2. Inv /\ Kept /\ Alone /\ [Next]_vars => (Inv /\ Kept /\ Alone)'
    BY StepInv, StepKept, StepAlone
  <1>3. Inv /\ Kept /\ Alone /\ (Inv /\ Kept /\ Alone)' /\ [Next]_vars
          => [Promise!Next]_<<Log, Durable, Past>>
    BY StepPromise
  <1>4. DurableLogSpec <=> Promise!Init /\ [][Promise!Next]_<<Log, Durable, Past>>
    BY DEF DurableLogSpec, Promise!Spec, Log, Durable, Past
  <1> QED
    BY <1>1, <1>2, <1>3, <1>4, PTL DEF Spec

=============================================================================
