------------------------ MODULE StoredTimelineProofs ------------------------
(***************************************************************************)
(* Theorems about the activation timeline, for any set of algorithms, any  *)
(* capacity and any number of removals and resumptions.  TypeOK,           *)
(* EpochsValid and EvolutionAccepted are inductive together: EpochsValid   *)
(* says that an interval ends by the log's size unless it is open and      *)
(* last, which is what makes closing and appending intervals keep the      *)
(* order, and makes the timeline committed at the current size the current *)
(* one.                                                                    *)
(*                                                                         *)
(* The stores under a log mirror its timeline in every reachable state,    *)
(* for any finite set of algorithms, any capacity and any seal; and a log  *)
(* reads the same from memory, from fjall and from git, for any capacity   *)
(* that keys of eight bytes can number and any number of values of a byte. *)
(* What git adds is the way of a key to a path: no two keys have the same  *)
(* path, and none has a path that is the start of another's, where the     *)
(* tree editor would drop one.  Last come batches of two operations any    *)
(* caller may send: what memory, fjall and git make of them on the stores  *)
(* a log can have.  The lemmas about intervals are in TopologyProofs,      *)
(* which also has the constant Arity; no statement here mentions it.       *)
(***************************************************************************)
EXTENDS StoredTimeline, TopologyProofs, FiniteSetTheorems

-----------------------------------------------------------------------------
(* The inductive invariant *)

\* What the checkpoint says of one algorithm is a start of its timeline.
Held(a) ==
  IF checkpoint.epochs[a] # <<>>
  THEN epochs[a] # <<>> /\ EvolvesFrom(checkpoint.epochs[a], checkpoint.size, epochs[a])
  ELSE epochs[a] # <<>> => epochs[a][1][1] >= checkpoint.size

CheckpointHeld ==
  /\ checkpoint.size <= count
  /\ \A a \in Algs : checkpoint.epochs[a] # <<>> => ValidEpochs(checkpoint.epochs[a], checkpoint.size)
  /\ \A a \in Algs : Held(a)

Inv == TypeOK /\ EpochsValid /\ CheckpointHeld

\* The timeline a reader is shown for the current size is the log's own.
LEMMA CommittedIsCurrent ==
  ASSUME TypeOK, EpochsValid
  PROVE  CommittedEpochsAt(count) = epochs
  <1>1. count \in Nat /\ count < Open
    BY TimelineAssumption, OpenAssumption DEF TypeOK
  <1>2. ASSUME NEW a \in Algs PROVE EpochsAt(epochs[a], count) = epochs[a]
    BY <1>1, CommittedNow DEF TypeOK, EpochsValid, Registered
  <1>3. epochs = [a \in Algs |-> epochs[a]]
    BY DEF TypeOK
  <1> QED
    BY <1>2, <1>3 DEF CommittedEpochsAt

\* The invariant is what the run checks as EvolutionAccepted.
LEMMA InvAccepted == Inv => EvolutionAccepted
  <1> SUFFICES ASSUME Inv PROVE EvolutionAccepted
    OBVIOUS
  <1>1. CommittedEpochsAt(count) = epochs
    BY CommittedIsCurrent DEF Inv
  <1>2. DOMAIN checkpoint.epochs = Algs /\ DOMAIN epochs = Algs
    BY DEF Inv, TypeOK
  <1> QED
    BY <1>1, <1>2 DEF EvolutionAccepted, VerifyEpochEvolution, Inv, CheckpointHeld, Held,
                      EpochsValid, Registered

LEMMA InitInv == Init => Inv
  <1> SUFFICES ASSUME Init PROVE Inv
    OBVIOUS
  <1> USE DEF Init
  <1>1. TypeOK
    <2>1. <<<<0, Open>>>> \in Seq(Interval) /\ <<>> \in Seq(Interval)
      BY OpenAssumption DEF Interval
    <2>2. epochs \in [Algs -> Seq(Interval)]
      BY <2>1
    <2>3. checkpoint = [size |-> 0, epochs |-> epochs] /\ 0 \in 0..MaxCount
      BY TimelineAssumption
    <2>4. checkpoint \in [size : 0..MaxCount, epochs : [Algs -> Seq(Interval)]]
      BY <2>2, <2>3
    <2>5. count \in 0..MaxCount
      BY <2>3
    <2> QED
      BY <2>2, <2>4, <2>5 DEF TypeOK
  <1>2. ASSUME NEW a \in Algs, epochs[a] # <<>> PROVE ValidEpochs(epochs[a], 0)
    <2>1. epochs[a] = <<<<0, Open>>>>
      BY <1>2
    <2> QED
      BY <2>1, OpenAssumption DEF ValidEpochs
  <1>3. ASSUME NEW a \in Algs, epochs[a] # <<>> PROVE EvolvesFrom(epochs[a], 0, epochs[a])
    <2>1. epochs[a] = <<<<0, Open>>>>
      BY <1>3
    <2> QED
      BY <2>1, OpenAssumption DEF EvolvesFrom
  <1> QED
    BY <1>1, <1>2, <1>3 DEF Inv, EpochsValid, Registered, CheckpointHeld, Held

\* A step that changes only a's intervals preserves the invariant if the new
\* intervals are valid and continue what a checkpoint may have recorded.
LEMMA OneAlgorithmStep ==
  ASSUME Inv, NEW a \in Algs, NEW eps \in Seq(Interval), eps # <<>>,
         ValidEpochs(eps, count),
         epochs[a] = <<>> => eps[1][1] = count,
         epochs[a] # <<>> => eps[1][1] = epochs[a][1][1],
         \A old \in Seq(Interval), m \in 0..count :
           old # <<>> /\ epochs[a] # <<>> /\ EvolvesFrom(old, m, epochs[a])
             => EvolvesFrom(old, m, eps),
         epochs' = [epochs EXCEPT ![a] = eps],
         UNCHANGED <<count, checkpoint>>
  PROVE  Inv'
  <1> USE DEF Inv
  <1>1. TypeOK'
    BY DEF TypeOK
  <1>2. /\ epochs'[a] = eps
        /\ \A b \in Algs : b # a => epochs'[b] = epochs[b]
    BY DEF TypeOK
  <1>3. EpochsValid'
    BY <1>2 DEF EpochsValid, Registered
  <1>4. checkpoint.size \in 0..count /\ checkpoint.epochs \in [Algs -> Seq(Interval)]
    BY DEF TypeOK, CheckpointHeld
  <1>5. Held(a)'
    <2>1. CASE checkpoint.epochs[a] # <<>>
      BY <1>2, <1>4, <2>1 DEF CheckpointHeld, Held
    <2>2. CASE checkpoint.epochs[a] = <<>>
      BY <1>2, <1>4, <2>2 DEF CheckpointHeld, Held
    <2> QED
      BY <2>1, <2>2
  <1>6. \A b \in Algs : b # a => Held(b)'
    BY <1>2 DEF CheckpointHeld, Held
  <1> QED
    BY <1>1, <1>3, <1>5, <1>6 DEF CheckpointHeld

LEMMA StepInv == Inv /\ [Next]_vars => Inv'
  <1> SUFFICES ASSUME Inv, [Next]_vars PROVE Inv'
    OBVIOUS
  <1>0. /\ count \in Nat /\ count < Open
        /\ \A a \in Algs : epochs[a] \in Seq(Interval)
    BY TimelineAssumption, OpenAssumption DEF Inv, TypeOK
  <1>1. CASE AppendPosition
    <2>1. /\ count' = count + 1 /\ count' \in 0..MaxCount
          /\ epochs' = epochs /\ checkpoint' = checkpoint
      BY <1>1, TimelineAssumption DEF AppendPosition, Inv, TypeOK
    <2>2. TypeOK'
      BY <2>1 DEF Inv, TypeOK
    <2>3. EpochsValid'
      BY <1>0, <2>1, GrowKeeps DEF Inv, EpochsValid, Registered
    <2>4. CheckpointHeld'
      <3>1. checkpoint.size \in Nat
        BY DEF Inv, TypeOK
      <3> QED
        BY <1>0, <2>1, <3>1 DEF Inv, CheckpointHeld, Held
    <2> QED
      BY <2>2, <2>3, <2>4 DEF Inv
  <1>2. CASE TakeCheckpoint
    <2>1. /\ count' = count /\ epochs' = epochs
          /\ checkpoint' = [size |-> count, epochs |-> epochs]
      BY <1>2, CommittedIsCurrent DEF TakeCheckpoint, Inv
    <2>2. TypeOK'
      BY <2>1 DEF Inv, TypeOK
    <2>3. EpochsValid'
      BY <2>1 DEF Inv, EpochsValid, Registered
    <2>4. ASSUME NEW a \in Algs, epochs[a] # <<>>
          PROVE  EvolvesFrom(epochs[a], count, epochs[a])
      <3>1. Len(epochs[a]) \in Nat
        BY <1>0
      <3> QED
        BY <3>1 DEF EvolvesFrom
    <2>5. CheckpointHeld'
      BY <1>0, <2>1, <2>4 DEF Inv, CheckpointHeld, Held, EpochsValid, Registered
    <2> QED
      BY <2>2, <2>3, <2>5 DEF Inv
  <1>3. ASSUME NEW a \in Algs, AddAlgorithm(a) PROVE Inv'
    <2> DEFINE eps == <<<<count, Open>>>>
    <2>1. eps \in Seq(Interval) /\ eps # <<>> /\ eps[1][1] = count
      BY <1>0, OpenAssumption DEF Interval
    <2>2. ValidEpochs(eps, count)
      BY <1>0, OpenAssumption DEF ValidEpochs
    <2>3. epochs[a] = <<>> /\ epochs' = [epochs EXCEPT ![a] = eps] /\ UNCHANGED <<count, checkpoint>>
      BY <1>3 DEF AddAlgorithm, Registered
    <2> HIDE DEF eps
    <2> QED
      BY <2>1, <2>2, <2>3, OneAlgorithmStep
  <1>4. ASSUME NEW a \in Algs, RemoveAlgorithm(a) PROVE Inv'
    <2> DEFINE eps == Closed(epochs[a], count)
    <2>1. /\ IsActive(epochs[a]) /\ epochs[a] # <<>>
          /\ epochs' = [epochs EXCEPT ![a] = eps] /\ UNCHANGED <<count, checkpoint>>
      BY <1>4 DEF RemoveAlgorithm, IsActive, Closed
    <2>2. ValidEpochs(epochs[a], count)
      BY <2>1 DEF Inv, EpochsValid, Registered
    <2>3. ValidEpochs(eps, count)
      BY <1>0, <2>1, <2>2, CloseValid
    <2>4. /\ eps \in Seq(Interval)
          /\ Len(eps) = Len(epochs[a])
          /\ Len(epochs[a]) \in Nat \ {0}
          /\ \A e \in 1..Len(epochs[a]) - 1 : eps[e] = epochs[a][e]
          /\ eps[Len(epochs[a])][1] = epochs[a][Len(epochs[a])][1]
      BY <1>0, <2>1, CloseLast
    <2>5. \A old \in Seq(Interval), m \in 0..count :
            old # <<>> /\ EvolvesFrom(old, m, epochs[a]) => EvolvesFrom(old, m, eps)
      BY <1>0, <2>1, CloseEvolves
    <2> HIDE DEF eps
    <2>6. eps # <<>> /\ eps[1][1] = epochs[a][1][1]
      BY <2>4
    <2> QED
      BY <2>1, <2>3, <2>4, <2>5, <2>6, OneAlgorithmStep
  <1>5. ASSUME NEW a \in Algs, ResumeAlgorithm(a) PROVE Inv'
    <2> DEFINE eps == Resumed(epochs[a], count)
    <2>1. /\ ~IsActive(epochs[a]) /\ epochs[a] # <<>>
          /\ epochs' = [epochs EXCEPT ![a] = eps] /\ UNCHANGED <<count, checkpoint>>
      BY <1>5 DEF ResumeAlgorithm, Registered, Resumed
    <2>2. ValidEpochs(epochs[a], count)
      BY <2>1 DEF Inv, EpochsValid, Registered
    <2>3. ValidEpochs(eps, count)
      BY <1>0, <2>1, <2>2, ResumeValid
    <2>4. /\ eps \in Seq(Interval)
          /\ Len(eps) = Len(epochs[a]) + 1
          /\ Len(epochs[a]) \in Nat
          /\ \A e \in 1..Len(epochs[a]) : eps[e] = epochs[a][e]
      BY <1>0, StartAnother
    <2>5. \A old \in Seq(Interval), m \in 0..count :
            old # <<>> /\ EvolvesFrom(old, m, epochs[a]) => EvolvesFrom(old, m, eps)
      BY <1>0, <2>1, ResumeEvolves
    <2> HIDE DEF eps
    <2>6. eps # <<>> /\ eps[1][1] = epochs[a][1][1]
      <3>1. Len(epochs[a]) # 0
        BY <1>0, <2>1
      <3> QED
        BY <2>4, <3>1
    <2> QED
      BY <2>1, <2>3, <2>4, <2>5, <2>6, OneAlgorithmStep
  <1>6. CASE UNCHANGED vars
    BY <1>6 DEF vars, Inv, TypeOK, EpochsValid, Registered, CheckpointHeld, Held
  <1> QED
    BY <1>1, <1>2, <1>3, <1>4, <1>5, <1>6 DEF Next

\* The invariant holds of every reachable state.
LEMMA Invariance == Spec => []Inv
  BY InitInv, StepInv, PTL DEF Spec

-----------------------------------------------------------------------------
(* The theorems *)

\* The state keeps its shape: the count stays within the capacity, and every
\* timeline stored or checkpointed is a sequence of intervals.
THEOREM TypeCorrect == Spec => []TypeOK
  <1>1. Inv => TypeOK
    BY DEF Inv
  <1> QED
    BY <1>1, Invariance, PTL

\* No sequence of appends, registrations, removals and resumptions makes a
\* timeline that validate_epochs refuses when the log is reloaded.
THEOREM TimelinesReload == Spec => []EpochsValid
  <1>1. Inv => EpochsValid
    BY DEF Inv
  <1> QED
    BY <1>1, Invariance, PTL

\* Whatever committed timeline a client recorded, however long ago, the log's
\* present one passes verify_epoch_evolution against it.
THEOREM HonestEvolutionAccepted == Spec => []EvolutionAccepted
  BY InvAccepted, Invariance, PTL

\* A step either leaves an algorithm's intervals alone, or closes the last one
\* at the log's size, or starts another one there.
LEMMA StepOfOneAlgorithm ==
  ASSUME Inv, [Next]_vars, NEW a \in Algs
  PROVE  \/ epochs'[a] = epochs[a]
         \/ IsActive(epochs[a]) /\ epochs'[a] = Closed(epochs[a], count)
         \/ epochs'[a] = Resumed(epochs[a], count)
  <1>1. epochs \in [Algs -> Seq(Interval)]
    BY DEF Inv, TypeOK
  <1>2. CASE UNCHANGED epochs
    BY <1>2
  <1>3. ASSUME NEW b \in Algs, AddAlgorithm(b) \/ RemoveAlgorithm(b) \/ ResumeAlgorithm(b)
        PROVE  \/ epochs'[a] = epochs[a]
               \/ IsActive(epochs[a]) /\ epochs'[a] = Closed(epochs[a], count)
               \/ epochs'[a] = Resumed(epochs[a], count)
    <2>1. CASE a # b
      BY <1>1, <1>3, <2>1 DEF AddAlgorithm, RemoveAlgorithm, ResumeAlgorithm
    <2>2. CASE a = b /\ AddAlgorithm(b)
      <3>1. epochs[a] = <<>> /\ epochs'[a] = <<<<count, Open>>>>
        BY <1>1, <2>2 DEF AddAlgorithm, Registered
      <3> QED
        BY <3>1 DEF Resumed
    <2>3. CASE a = b /\ RemoveAlgorithm(b)
      BY <1>1, <2>3 DEF RemoveAlgorithm, Closed
    <2>4. CASE a = b /\ ResumeAlgorithm(b)
      BY <1>1, <2>4 DEF ResumeAlgorithm, Resumed
    <2> QED
      BY <1>3, <2>1, <2>2, <2>3, <2>4
  <1>4. UNCHANGED epochs \/ \E b \in Algs : AddAlgorithm(b) \/ RemoveAlgorithm(b) \/ ResumeAlgorithm(b)
    BY DEF Next, AppendPosition, TakeCheckpoint, vars
  <1> QED
    BY <1>2, <1>3, <1>4

\* Which algorithms were active at a position that exists is never rewritten,
\* by any operation.
THEOREM PastActivityKept == Spec => PastActivityFixed
  <1> DEFINE Kept == \A a \in Algs : \A i \in 0..count - 1 :
                       IsActiveAt(epochs'[a], i) <=> IsActiveAt(epochs[a], i)
  <1>1. ASSUME Inv, [Next]_vars PROVE Kept
    <2>1. /\ count \in Nat /\ count < Open
          /\ \A a \in Algs : epochs[a] \in Seq(Interval)
      BY <1>1, TimelineAssumption, OpenAssumption DEF Inv, TypeOK
    <2> SUFFICES ASSUME NEW a \in Algs, NEW i \in 0..count - 1
                 PROVE  IsActiveAt(epochs'[a], i) <=> IsActiveAt(epochs[a], i)
      OBVIOUS
    <2>2. CASE epochs'[a] = epochs[a]
      BY <2>2
    <2>3. CASE IsActive(epochs[a]) /\ epochs'[a] = Closed(epochs[a], count)
      BY <2>1, <2>3, CloseActivity
    <2>4. CASE epochs'[a] = Resumed(epochs[a], count)
      BY <2>1, <2>4, ResumeActivity
    <2> QED
      BY <1>1, <2>2, <2>3, <2>4, StepOfOneAlgorithm
  <1>2. Inv /\ [Next]_vars => [Kept]_vars
    BY <1>1
  <1> QED
    BY <1>2, Invariance, PTL DEF Spec, PastActivityFixed

\* The timeline committed for a size the log has grown past never changes.
THEOREM PastTimelineKept == Spec => PastTimelineFixed
  <1> DEFINE Kept == \A n \in 0..count - 1 : CommittedEpochsAt(n)' = CommittedEpochsAt(n)
  <1>1. ASSUME Inv, [Next]_vars PROVE Kept
    <2>1. /\ count \in Nat /\ count < Open
          /\ \A a \in Algs : epochs[a] \in Seq(Interval)
      BY <1>1, TimelineAssumption, OpenAssumption DEF Inv, TypeOK
    <2>2. ASSUME NEW a \in Algs, NEW n \in 0..count - 1
          PROVE  EpochsAt(epochs'[a], n) = EpochsAt(epochs[a], n)
      <3>1. CASE epochs'[a] = epochs[a]
        BY <3>1
      <3>2. CASE IsActive(epochs[a]) /\ epochs'[a] = Closed(epochs[a], count)
        BY <2>1, <3>2, CloseCommitted
      <3>3. CASE epochs'[a] = Resumed(epochs[a], count)
        BY <2>1, <3>3, ResumeCommitted
      <3> QED
        BY <1>1, <3>1, <3>2, <3>3, StepOfOneAlgorithm
    <2> QED
      BY <2>2 DEF CommittedEpochsAt
  <1>2. Inv /\ [Next]_vars => [Kept]_vars
    BY <1>1
  <1> QED
    BY <1>2, Invariance, PTL DEF Spec, PastTimelineFixed

-----------------------------------------------------------------------------
(* What folds of a batch of one operation come to.  The fold of a sequence *)
(* is by a recursive function on sets of indices, so each operator that is *)
(* folded needs a lemma of its own.                                        *)

\* The sets a fold over one element goes through.
LEMMA OneElement ==
  /\ Max({1}) = 1
  /\ SUBSET {1} = {{}, {1}}
  /\ {1} \ {1} = {}
  /\ \A x : DOMAIN <<x>> = {1} /\ <<x>>[1] = x
  <1>1. Max({1}) = 1
    BY DEF Max
  <1>2. SUBSET {1} = {{}, {1}}
    OBVIOUS
  <1>3. \A x : DOMAIN <<x>> = {1} /\ <<x>>[1] = x
    OBVIOUS
  <1> QED
    BY <1>1, <1>2, <1>3

\* The checks of a batch, for each backend.
LEMMA MemoryProjectOnce ==
  ASSUME NEW base, NEW op
  PROVE  FoldLeft(MemoryProject, base, <<op>>) = MemoryProject(base, op)
  <1> DEFINE value(f, s) == IF s = {} THEN base ELSE MemoryProject(f[s \ {Max(s)}], <<op>>[Max(s)])
             step(f) == [s \in SUBSET {1} |-> value(f, s)]
             fold == [s \in SUBSET {1} |-> IF s = {} THEN base ELSE MemoryProject(base, op)]
  <1>1. FoldLeft(MemoryProject, base, <<op>>) = (CHOOSE f : f = step(f))[{1}]
    BY OneElement DEF FoldLeft, MapThenFoldSet
  <1>2. ASSUME NEW f PROVE value(f, {}) = base /\ value(f, {1}) = MemoryProject(f[{}], op)
    BY OneElement
  <1> HIDE DEF value
  <1>3. fold = step(fold)
    <2>1. fold[{}] = base /\ fold[{1}] = MemoryProject(base, op)
      BY OneElement
    <2>2. ASSUME NEW s \in SUBSET {1} PROVE fold[s] = value(fold, s)
      <3> HIDE DEF fold
      <3> QED
        BY <1>2, <2>1, OneElement
    <2> QED
      BY <2>2
  <1>4. ASSUME NEW f, f = step(f) PROVE f[{1}] = MemoryProject(base, op)
    <2>1. f[{}] = value(f, {}) /\ f[{1}] = value(f, {1})
      BY <1>4, OneElement
    <2> QED
      BY <2>1, <1>2
  <1> HIDE DEF step, fold
  <1>5. (CHOOSE f : f = step(f)) = step(CHOOSE f : f = step(f))
    BY <1>3
  <1> QED
    BY <1>1, <1>4, <1>5

LEMMA FjallProjectOnce ==
  ASSUME NEW base, NEW op
  PROVE  FoldLeft(FjallProject, base, <<op>>) = FjallProject(base, op)
  <1> DEFINE value(f, s) == IF s = {} THEN base ELSE FjallProject(f[s \ {Max(s)}], <<op>>[Max(s)])
             step(f) == [s \in SUBSET {1} |-> value(f, s)]
             fold == [s \in SUBSET {1} |-> IF s = {} THEN base ELSE FjallProject(base, op)]
  <1>1. FoldLeft(FjallProject, base, <<op>>) = (CHOOSE f : f = step(f))[{1}]
    BY OneElement DEF FoldLeft, MapThenFoldSet
  <1>2. ASSUME NEW f PROVE value(f, {}) = base /\ value(f, {1}) = FjallProject(f[{}], op)
    BY OneElement
  <1> HIDE DEF value
  <1>3. fold = step(fold)
    <2>1. fold[{}] = base /\ fold[{1}] = FjallProject(base, op)
      BY OneElement
    <2>2. ASSUME NEW s \in SUBSET {1} PROVE fold[s] = value(fold, s)
      <3> HIDE DEF fold
      <3> QED
        BY <1>2, <2>1, OneElement
    <2> QED
      BY <2>2
  <1>4. ASSUME NEW f, f = step(f) PROVE f[{1}] = FjallProject(base, op)
    <2>1. f[{}] = value(f, {}) /\ f[{1}] = value(f, {1})
      BY <1>4, OneElement
    <2> QED
      BY <2>1, <1>2
  <1> HIDE DEF step, fold
  <1>5. (CHOOSE f : f = step(f)) = step(CHOOSE f : f = step(f))
    BY <1>3
  <1> QED
    BY <1>1, <1>4, <1>5

LEMMA GitProjectOnce ==
  ASSUME NEW base, NEW op
  PROVE  FoldLeft(GitProject, base, <<op>>) = GitProject(base, op)
  <1> DEFINE value(f, s) == IF s = {} THEN base ELSE GitProject(f[s \ {Max(s)}], <<op>>[Max(s)])
             step(f) == [s \in SUBSET {1} |-> value(f, s)]
             fold == [s \in SUBSET {1} |-> IF s = {} THEN base ELSE GitProject(base, op)]
  <1>1. FoldLeft(GitProject, base, <<op>>) = (CHOOSE f : f = step(f))[{1}]
    BY OneElement DEF FoldLeft, MapThenFoldSet
  <1>2. ASSUME NEW f PROVE value(f, {}) = base /\ value(f, {1}) = GitProject(f[{}], op)
    BY OneElement
  <1> HIDE DEF value
  <1>3. fold = step(fold)
    <2>1. fold[{}] = base /\ fold[{1}] = GitProject(base, op)
      BY OneElement
    <2>2. ASSUME NEW s \in SUBSET {1} PROVE fold[s] = value(fold, s)
      <3> HIDE DEF fold
      <3> QED
        BY <1>2, <2>1, OneElement
    <2> QED
      BY <2>2
  <1>4. ASSUME NEW f, f = step(f) PROVE f[{1}] = GitProject(base, op)
    <2>1. f[{}] = value(f, {}) /\ f[{1}] = value(f, {1})
      BY <1>4, OneElement
    <2> QED
      BY <2>1, <1>2
  <1> HIDE DEF step, fold
  <1>5. (CHOOSE f : f = step(f)) = step(CHOOSE f : f = step(f))
    BY <1>3
  <1> QED
    BY <1>1, <1>4, <1>5

\* The writes of a batch, for each backend.
LEMMA MemoryWriteOnce ==
  ASSUME NEW base, NEW op
  PROVE  FoldLeft(MemoryWrite, base, <<op>>) = MemoryWrite(base, op)
  <1> DEFINE value(f, s) == IF s = {} THEN base ELSE MemoryWrite(f[s \ {Max(s)}], <<op>>[Max(s)])
             step(f) == [s \in SUBSET {1} |-> value(f, s)]
             fold == [s \in SUBSET {1} |-> IF s = {} THEN base ELSE MemoryWrite(base, op)]
  <1>1. FoldLeft(MemoryWrite, base, <<op>>) = (CHOOSE f : f = step(f))[{1}]
    BY OneElement DEF FoldLeft, MapThenFoldSet
  <1>2. ASSUME NEW f PROVE value(f, {}) = base /\ value(f, {1}) = MemoryWrite(f[{}], op)
    BY OneElement
  <1> HIDE DEF value
  <1>3. fold = step(fold)
    <2>1. fold[{}] = base /\ fold[{1}] = MemoryWrite(base, op)
      BY OneElement
    <2>2. ASSUME NEW s \in SUBSET {1} PROVE fold[s] = value(fold, s)
      <3> HIDE DEF fold
      <3> QED
        BY <1>2, <2>1, OneElement
    <2> QED
      BY <2>2
  <1>4. ASSUME NEW f, f = step(f) PROVE f[{1}] = MemoryWrite(base, op)
    <2>1. f[{}] = value(f, {}) /\ f[{1}] = value(f, {1})
      BY <1>4, OneElement
    <2> QED
      BY <2>1, <1>2
  <1> HIDE DEF step, fold
  <1>5. (CHOOSE f : f = step(f)) = step(CHOOSE f : f = step(f))
    BY <1>3
  <1> QED
    BY <1>1, <1>4, <1>5

LEMMA FjallWriteOnce ==
  ASSUME NEW base, NEW op
  PROVE  FoldLeft(FjallWrite, base, <<op>>) = FjallWrite(base, op)
  <1> DEFINE value(f, s) == IF s = {} THEN base ELSE FjallWrite(f[s \ {Max(s)}], <<op>>[Max(s)])
             step(f) == [s \in SUBSET {1} |-> value(f, s)]
             fold == [s \in SUBSET {1} |-> IF s = {} THEN base ELSE FjallWrite(base, op)]
  <1>1. FoldLeft(FjallWrite, base, <<op>>) = (CHOOSE f : f = step(f))[{1}]
    BY OneElement DEF FoldLeft, MapThenFoldSet
  <1>2. ASSUME NEW f PROVE value(f, {}) = base /\ value(f, {1}) = FjallWrite(f[{}], op)
    BY OneElement
  <1> HIDE DEF value
  <1>3. fold = step(fold)
    <2>1. fold[{}] = base /\ fold[{1}] = FjallWrite(base, op)
      BY OneElement
    <2>2. ASSUME NEW s \in SUBSET {1} PROVE fold[s] = value(fold, s)
      <3> HIDE DEF fold
      <3> QED
        BY <1>2, <2>1, OneElement
    <2> QED
      BY <2>2
  <1>4. ASSUME NEW f, f = step(f) PROVE f[{1}] = FjallWrite(base, op)
    <2>1. f[{}] = value(f, {}) /\ f[{1}] = value(f, {1})
      BY <1>4, OneElement
    <2> QED
      BY <2>1, <1>2
  <1> HIDE DEF step, fold
  <1>5. (CHOOSE f : f = step(f)) = step(CHOOSE f : f = step(f))
    BY <1>3
  <1> QED
    BY <1>1, <1>4, <1>5

LEMMA GitWriteOnce ==
  ASSUME NEW base, NEW op
  PROVE  FoldLeft(GitWrite, base, <<op>>) = GitWrite(base, op)
  <1> DEFINE value(f, s) == IF s = {} THEN base ELSE GitWrite(f[s \ {Max(s)}], <<op>>[Max(s)])
             step(f) == [s \in SUBSET {1} |-> value(f, s)]
             fold == [s \in SUBSET {1} |-> IF s = {} THEN base ELSE GitWrite(base, op)]
  <1>1. FoldLeft(GitWrite, base, <<op>>) = (CHOOSE f : f = step(f))[{1}]
    BY OneElement DEF FoldLeft, MapThenFoldSet
  <1>2. ASSUME NEW f PROVE value(f, {}) = base /\ value(f, {1}) = GitWrite(f[{}], op)
    BY OneElement
  <1> HIDE DEF value
  <1>3. fold = step(fold)
    <2>1. fold[{}] = base /\ fold[{1}] = GitWrite(base, op)
      BY OneElement
    <2>2. ASSUME NEW s \in SUBSET {1} PROVE fold[s] = value(fold, s)
      <3> HIDE DEF fold
      <3> QED
        BY <1>2, <2>1, OneElement
    <2> QED
      BY <2>2
  <1>4. ASSUME NEW f, f = step(f) PROVE f[{1}] = GitWrite(base, op)
    <2>1. f[{}] = value(f, {}) /\ f[{1}] = value(f, {1})
      BY <1>4, OneElement
    <2> QED
      BY <2>1, <1>2
  <1> HIDE DEF step, fold
  <1>5. (CHOOSE f : f = step(f)) = step(CHOOSE f : f = step(f))
    BY <1>3
  <1> QED
    BY <1>1, <1>4, <1>5

-----------------------------------------------------------------------------
(* A batch of one operation *)

\* A batch of one operation that is not refused is the write of that operation.
LEMMA ApplyOne ==
  ASSUME NEW store, NEW op
  PROVE  LET n == store.count
             known == DOMAIN store.metas
             written == ProjectEpochs(GitWrite(store, op))
         IN  /\ ~Refused(op, n, known) => MemoryApply(store, <<op>>) = MemoryWrite(store, op)
             /\ ~RefusedUnlessSeed(op, n, known) => FjallApply(store, <<op>>) = FjallWrite(store, op)
             /\ ~Refused(op, n, known) /\ (\A a \in DOMAIN written.metas : written.metas[a] # <<>>)
                  => GitApply(store, <<op>>) = written
  <1>1. /\ Start(store).ok
        /\ Start(store).count = store.count
        /\ Start(store).known = DOMAIN store.metas
    BY DEF Start
  <1>2. ~Refused(op, store.count, DOMAIN store.metas)
          => MemoryProject(Start(store), op).ok /\ GitProject(Start(store), op).ok
    BY <1>1 DEF MemoryProject, GitProject
  <1>3. ~RefusedUnlessSeed(op, store.count, DOMAIN store.metas) => FjallProject(Start(store), op).ok
    BY DEF FjallProject, Start
  <1> QED
    BY <1>2, <1>3, MemoryProjectOnce, FjallProjectOnce, GitProjectOnce,
       MemoryWriteOnce, FjallWriteOnce, GitWriteOnce
    DEF MemoryApply, MemoryAccepts, FjallApply, FjallAccepts, GitApply, GitAccepts

\* An operation that is not refused takes every backend to the same count and
\* intervals, if these are as the count shows them.
LEMMA CommitOne ==
  ASSUME NEW store, NEW op, NEW n, NEW D, NEW t,
         ~Refused(op, store.count, DOMAIN store.metas),
         CountAfter(store.count, op) = n,
         Overlay(store.metas, NamedEpochs(op)) = [a \in D |-> t[a]],
         \A a \in D : t[a] # <<>> /\ EpochsAt(t[a], n) = t[a]
  PROVE  LET there(new) == new.count = n /\ new.metas = [a \in D |-> t[a]]
         IN  there(MemoryApply(store, <<op>>)) /\ there(FjallApply(store, <<op>>))
               /\ there(GitApply(store, <<op>>))
  <1> DEFINE new == [a \in D |-> t[a]]
             written == GitWrite(store, op)
             projected == ProjectEpochs(written)
  <1>1. /\ MemoryWrite(store, op).count = n /\ MemoryWrite(store, op).metas = new
        /\ FjallWrite(store, op).count = n /\ FjallWrite(store, op).metas = new
    BY DEF MemoryWrite, FjallWrite, Write
  <1>2. written.count = n /\ written.metas = new
    BY DEF GitWrite
  <1>3. projected.count = n /\ projected.metas = new
    <2>1. projected.count = written.count
          /\ projected.metas = [a \in DOMAIN written.metas |-> EpochsAt(written.metas[a], written.count)]
      BY DEF ProjectEpochs, GitWrite
    <2>2. \A a \in D : EpochsAt(new[a], n) = new[a]
      OBVIOUS
    <2> HIDE DEF written, projected
    <2> QED
      BY <1>2, <2>1, <2>2
  <1>4. ~RefusedUnlessSeed(op, store.count, DOMAIN store.metas)
    BY DEF Refused
  <1>5. \A a \in DOMAIN projected.metas : projected.metas[a] # <<>>
    BY <1>3
  <1>6. /\ MemoryApply(store, <<op>>) = MemoryWrite(store, op)
        /\ FjallApply(store, <<op>>) = FjallWrite(store, op)
        /\ GitApply(store, <<op>>) = projected
    BY <1>4, <1>5, ApplyOne
  <1> HIDE DEF projected
  <1> QED
    BY <1>1, <1>3, <1>6

\* What an operation about one algorithm names.
LEMMA NamesOne ==
  \A op, a, eps : op.metas = <<<<a, eps>>>> =>
    Named(op) = {a} /\ DOMAIN NamedEpochs(op) = {a} /\ NamedEpochs(op)[a] = eps
  <1> SUFFICES ASSUME NEW op, NEW a, NEW eps, op.metas = <<<<a, eps>>>>
               PROVE  Named(op) = {a} /\ DOMAIN NamedEpochs(op) = {a} /\ NamedEpochs(op)[a] = eps
    OBVIOUS
  <1>1. DOMAIN op.metas = {1} /\ op.metas[1] = <<a, eps>>
    OBVIOUS
  <1>2. ToSet(op.metas) = {<<a, eps>>}
    BY <1>1 DEF ToSet
  <1>3. Named(op) = {a}
    BY <1>2 DEF Named
  <1>4. ASSUME NEW b \in {a}
        PROVE  op.metas[Max({i \in DOMAIN op.metas : op.metas[i][1] = b})][2] = eps
    <2>1. {i \in DOMAIN op.metas : op.metas[i][1] = b} = {1}
      BY <1>1
    <2>2. Max({i \in DOMAIN op.metas : op.metas[i][1] = b}) = 1
      BY <2>1, OneElement
    <2> QED
      BY <1>1, <2>2
  <1> QED
    BY <1>3, <1>4 DEF NamedEpochs

\* An append names nothing.
LEMMA NamesNone ==
  ASSUME NEW op, op.metas = <<>>
  PROVE  Named(op) = {} /\ DOMAIN NamedEpochs(op) = {}
  <1>1. ToSet(op.metas) = {}
    BY DEF ToSet
  <1> QED
    BY <1>1 DEF Named, NamedEpochs

-----------------------------------------------------------------------------
(* The steps *)

\* What git projects the intervals to is what they are.
LEMMA RecordedIsCommitted ==
  ASSUME Inv
  PROVE  \A a \in {b \in Algs : Registered(b)} :
           epochs[a] # <<>> /\ EpochsAt(epochs[a], count) = epochs[a]
  <1>1. count \in Nat /\ count < Open
    BY TimelineAssumption, OpenAssumption DEF Inv, TypeOK
  <1> QED
    BY <1>1, CommittedNow DEF Inv, TypeOK, EpochsValid, Registered

\* A step mirrors if its operation is not refused and does to the count and the
\* recorded intervals what the step does to the log's.
LEMMA StepMirrors ==
  ASSUME Inv', StoresMirrorTimeline, NEW op, Commit(op),
         ~Refused(op, count, DOMAIN Recorded),
         CountAfter(count, op) = count',
         Overlay(Recorded, NamedEpochs(op)) = Recorded'
  PROVE  StoresMirrorTimeline'
  <1> DEFINE D == {b \in Algs : epochs'[b] # <<>>}
  <1>1. Recorded' = [a \in D |-> epochs'[a]]
    BY DEF Recorded, Registered
  <1>2. \A a \in D : epochs'[a] # <<>> /\ EpochsAt(epochs'[a], count') = epochs'[a]
    <2>1. (\A a \in {b \in Algs : Registered(b)} :
             epochs[a] # <<>> /\ EpochsAt(epochs[a], count) = epochs[a])'
      BY RecordedIsCommitted, PTL
    <2> QED
      BY <2>1 DEF Registered
  <1> HIDE DEF D
  <1>3. ASSUME NEW store, Mirrors(store)
        PROVE  LET there(new) == new.count = count' /\ new.metas = Recorded'
               IN  there(MemoryApply(store, <<op>>)) /\ there(FjallApply(store, <<op>>))
                     /\ there(GitApply(store, <<op>>))
    <2>1. store.count = count /\ store.metas = Recorded
      BY <1>3 DEF Mirrors
    <2> QED
      BY <1>1, <1>2, <2>1, CommitOne
  <1>4. (Mirrors(memory) /\ Mirrors(fjall) /\ Mirrors(git))'
    BY <1>3 DEF StoresMirrorTimeline, Commit, Mirrors
  <1> QED
    BY <1>4 DEF StoresMirrorTimeline

\* What a step that adds, removes or resumes an algorithm does to the stores.
LEMMA StepMirrorsAlgorithm ==
  ASSUME Inv, Inv', StoresMirrorTimeline, NEW op, NEW a \in Algs, NEW eps, eps # <<>>,
         op.metas = <<<<a, eps>>>>, ~IsAppend(op), ~IsSeed(op), Commit(op),
         op.kind = "AddAlgorithm" => ~Registered(a),
         op.kind \in {"RemoveAlgorithm", "ResumeAlgorithm"} => Registered(a),
         epochs' = [epochs EXCEPT ![a] = eps], count' = count
  PROVE  StoresMirrorTimeline'
  <1>1. Named(op) = {a} /\ DOMAIN NamedEpochs(op) = {a} /\ NamedEpochs(op)[a] = eps
    BY NamesOne
  <1>2. DOMAIN Recorded = {b \in Algs : Registered(b)}
    BY DEF Recorded
  <1>3. ~Refused(op, count, DOMAIN Recorded)
    BY <1>1, <1>2 DEF Refused, RefusedUnlessSeed
  <1>4. CountAfter(count, op) = count'
    BY DEF CountAfter
  <1>5. /\ epochs'[a] = eps
        /\ \A b \in Algs : b # a => epochs'[b] = epochs[b]
    BY DEF Inv, TypeOK
  <1>6. {b \in Algs : epochs'[b] # <<>>} = {b \in Algs : Registered(b)} \cup {a}
    BY <1>5 DEF Registered
  <1>7. Recorded' = [b \in {c \in Algs : Registered(c)} \cup {a} |-> epochs'[b]]
    BY <1>6 DEF Recorded, Registered
  <1>8. Overlay(Recorded, NamedEpochs(op))
          = [b \in {c \in Algs : Registered(c)} \cup {a} |->
               IF b \in {a} THEN NamedEpochs(op)[b] ELSE Recorded[b]]
    BY <1>1, <1>2 DEF Overlay
  <1>9. ASSUME NEW b \in {c \in Algs : Registered(c)} \cup {a}
        PROVE  (IF b \in {a} THEN NamedEpochs(op)[b] ELSE Recorded[b]) = epochs'[b]
    BY <1>1, <1>5 DEF Recorded
  <1>10. Overlay(Recorded, NamedEpochs(op)) = Recorded'
    BY <1>7, <1>8, <1>9
  <1> QED
    BY <1>3, <1>4, <1>10, StepMirrors

\* What an append does to them.
LEMMA StepMirrorsAppend ==
  ASSUME Inv, Inv', StoresMirrorTimeline, NEW op,
         op.metas = <<>>, op.at = count, IsAppend(op), ~IsSeed(op), Commit(op),
         epochs' = epochs, count' = count + 1
  PROVE  StoresMirrorTimeline'
  <1>1. Named(op) = {} /\ DOMAIN NamedEpochs(op) = {}
    BY NamesNone
  <1>2. ~Refused(op, count, DOMAIN Recorded)
    BY <1>1 DEF Refused, RefusedUnlessSeed, IsAppend
  <1>3. CountAfter(count, op) = count'
    BY DEF CountAfter
  <1>4. Overlay(Recorded, NamedEpochs(op)) = Recorded
    BY <1>1 DEF Overlay, Recorded
  <1>5. Recorded' = Recorded
    BY DEF Recorded, Registered
  <1> QED
    BY <1>2, <1>3, <1>4, <1>5, StepMirrors

\* Each step of a stored log is a step of the timeline that its stores take part in.
LEMMA Step ==
  Inv /\ StoresMirrorTimeline /\ [StoredNext]_storedVars => Inv' /\ StoresMirrorTimeline'
  <1> SUFFICES ASSUME Inv, StoresMirrorTimeline, [StoredNext]_storedVars
               PROVE  Inv' /\ StoresMirrorTimeline'
    OBVIOUS
  <1>1. Inv'
    <2>1. [Next]_vars
      BY DEF StoredNext, StoredLeaf, StoredSubtree, StoredAdd, StoredRemove, StoredResume, storedVars, Next
    <2> QED
      BY <2>1, StepInv
  <1>2. CASE StoredLeaf
    <2> DEFINE op == LeafOp(count, count, PositionNodes)
    <2>1. op.metas = <<>> /\ op.at = count /\ IsAppend(op) /\ ~IsSeed(op)
      BY DEF LeafOp, WriteOp, IsAppend, IsSeed
    <2>2. Commit(op) /\ epochs' = epochs /\ count' = count + 1
      BY <1>2 DEF StoredLeaf, AppendPosition
    <2> HIDE DEF op
    <2> QED
      BY <1>1, <2>1, <2>2, StepMirrorsAppend
  <1>3. CASE StoredSubtree
    <2> DEFINE op == SubtreeOp(count, PositionNodes)
    <2>1. op.metas = <<>> /\ op.at = count /\ IsAppend(op) /\ ~IsSeed(op)
      BY DEF SubtreeOp, WriteOp, IsAppend, IsSeed
    <2>2. Commit(op) /\ epochs' = epochs /\ count' = count + 1
      BY <1>3 DEF StoredSubtree, AppendPosition
    <2> HIDE DEF op
    <2> QED
      BY <1>1, <2>1, <2>2, StepMirrorsAppend
  <1>4. ASSUME NEW a \in Algs, StoredAdd(a) PROVE StoresMirrorTimeline'
    <2> DEFINE eps == <<<<count, Open>>>>
               op == AddOp(a, eps)
    <2>1. /\ op.metas = <<<<a, eps>>>> /\ op.kind = "AddAlgorithm"
          /\ ~IsAppend(op) /\ ~IsSeed(op)
      BY DEF AddOp, WriteOp, IsAppend, IsSeed
    <2>2. /\ ~Registered(a) /\ count' = count
          /\ epochs' = [epochs EXCEPT ![a] = eps] /\ epochs'[a] = eps
      BY <1>4 DEF StoredAdd, AddAlgorithm, Inv, TypeOK
    <2>3. Commit(op)
      BY <1>4, <2>2 DEF StoredAdd
    <2>4. eps # <<>>
      OBVIOUS
    <2> HIDE DEF op, eps
    <2> QED
      BY <1>1, <2>1, <2>2, <2>3, <2>4, StepMirrorsAlgorithm
  <1>5. ASSUME NEW a \in Algs, StoredRemove(a) PROVE StoresMirrorTimeline'
    <2> DEFINE eps == [epochs[a] EXCEPT ![Len(epochs[a])] = [@ EXCEPT ![2] = count]]
               op == RemoveOp(a, eps)
    <2>1. /\ op.metas = <<<<a, eps>>>> /\ op.kind = "RemoveAlgorithm"
          /\ ~IsAppend(op) /\ ~IsSeed(op)
      BY DEF RemoveOp, WriteOp, IsAppend, IsSeed
    <2>2. /\ Registered(a) /\ count' = count
          /\ epochs' = [epochs EXCEPT ![a] = eps] /\ epochs'[a] = eps
      BY <1>5 DEF StoredRemove, RemoveAlgorithm, Registered, IsActive, Inv, TypeOK
    <2>3. Commit(op)
      BY <1>5, <2>2 DEF StoredRemove
    <2>4. eps # <<>>
      BY <1>1, <2>2 DEF Inv, TypeOK, EpochsValid, Registered
    <2> HIDE DEF op, eps
    <2> QED
      BY <1>1, <2>1, <2>2, <2>3, <2>4, StepMirrorsAlgorithm
  <1>6. ASSUME NEW a \in Algs, StoredResume(a) PROVE StoresMirrorTimeline'
    <2> DEFINE eps == Append(epochs[a], <<count, Open>>)
               op == ResumeOp(a, eps, [k \in {<<a, 1, 0>>} |-> "mixed"])
    <2>1. /\ op.metas = <<<<a, eps>>>> /\ op.kind = "ResumeAlgorithm"
          /\ ~IsAppend(op) /\ ~IsSeed(op)
      BY DEF ResumeOp, WriteOp, IsAppend, IsSeed
    <2>2. /\ Registered(a) /\ count' = count
          /\ epochs' = [epochs EXCEPT ![a] = eps] /\ epochs'[a] = eps
      BY <1>6 DEF StoredResume, ResumeAlgorithm, Inv, TypeOK
    <2>3. Commit(op)
      BY <1>6, <2>2 DEF StoredResume
    <2>4. eps # <<>>
      <3>1. epochs[a] \in Seq(Interval) /\ <<count, Open>> \in Interval
        BY TimelineAssumption, OpenAssumption DEF Inv, TypeOK, Interval
      <3> QED
        BY <3>1
    <2> HIDE DEF op, eps
    <2> QED
      BY <1>1, <2>1, <2>2, <2>3, <2>4, StepMirrorsAlgorithm
  <1>7. CASE UNCHANGED <<count, epochs, memory, fjall, git>>
    BY <1>1, <1>7 DEF StoresMirrorTimeline, Mirrors, Recorded, Registered
  <1>8. CASE TakeCheckpoint /\ UNCHANGED stores
    BY <1>7, <1>8 DEF TakeCheckpoint, stores
  <1>9. CASE UNCHANGED storedVars
    BY <1>7, <1>9 DEF storedVars, vars, stores
  <1> QED
    BY <1>1, <1>2, <1>3, <1>4, <1>5, <1>6, <1>8, <1>9 DEF StoredNext

-----------------------------------------------------------------------------
(* The beginning *)

\* A log mirrors from the start if the empty stores do not refuse its first
\* operation and that operation names what the log records.
LEMMA FirstMirrors ==
  ASSUME Inv, NEW op,
         memory = MemoryApply(EmptyStore, <<op>>),
         fjall = FjallApply(EmptyStore, <<op>>),
         git = GitApply(EmptyStore, <<op>>),
         ~Refused(op, 0, {}),
         CountAfter(0, op) = count,
         DOMAIN NamedEpochs(op) = {b \in Algs : Registered(b)},
         \A a \in Algs : Registered(a) => NamedEpochs(op)[a] = epochs[a]
  PROVE  StoresMirrorTimeline
  <1> DEFINE D == {b \in Algs : Registered(b)}
  <1>1. EmptyStore.count = 0 /\ EmptyStore.metas = <<>> /\ DOMAIN <<>> = {}
    BY DEF EmptyStore
  <1>2. Overlay(EmptyStore.metas, NamedEpochs(op)) = [a \in D |-> epochs[a]]
    BY <1>1 DEF Overlay
  <1>3. \A a \in D : epochs[a] # <<>> /\ EpochsAt(epochs[a], count) = epochs[a]
    BY RecordedIsCommitted
  <1>4. Recorded = [a \in D |-> epochs[a]]
    BY DEF Recorded
  <1>5. ~Refused(op, EmptyStore.count, DOMAIN EmptyStore.metas)
    BY <1>1
  <1>6. CountAfter(EmptyStore.count, op) = count
    BY <1>1
  <1> HIDE DEF D
  <1>7. LET there(new) == new.count = count /\ new.metas = [a \in D |-> epochs[a]]
        IN  there(memory) /\ there(fjall) /\ there(git)
    BY <1>2, <1>3, <1>5, <1>6, CommitOne
  <1> QED
    BY <1>4, <1>7 DEF StoresMirrorTimeline, Mirrors

\* The registration of the genesis algorithm is not refused by an empty store.
LEMMA NewMirrors == NewLog => Inv /\ StoresMirrorTimeline
  <1> SUFFICES ASSUME NewLog PROVE Inv /\ StoresMirrorTimeline
    OBVIOUS
  <1> DEFINE eps == <<<<0, Open>>>>
             op == AddOp(Genesis, eps)
  <1>1. Inv
    BY InitInv DEF NewLog
  <1>2. Init /\ memory = MemoryApply(EmptyStore, <<op>>) /\ fjall = FjallApply(EmptyStore, <<op>>)
        /\ git = GitApply(EmptyStore, <<op>>)
    BY DEF NewLog
  <1>3. op.metas = <<<<Genesis, eps>>>> /\ op.kind = "AddAlgorithm" /\ ~IsAppend(op) /\ ~IsSeed(op)
    BY DEF AddOp, WriteOp, IsAppend, IsSeed
  <1>4. Genesis \in Algs /\ count = 0 /\ eps # <<>>
        /\ \A a \in Algs : epochs[a] = IF a = Genesis THEN eps ELSE <<>>
    BY <1>2, TimelineAssumption DEF Init
  <1> HIDE DEF op, eps
  <1>5. Named(op) = {Genesis} /\ DOMAIN NamedEpochs(op) = {Genesis} /\ NamedEpochs(op)[Genesis] = eps
    BY <1>3, NamesOne
  <1>6. ~Refused(op, 0, {})
    BY <1>3, <1>5 DEF Refused, RefusedUnlessSeed
  <1>7. CountAfter(0, op) = count
    BY <1>3, <1>4 DEF CountAfter
  <1>8. {b \in Algs : Registered(b)} = {Genesis}
    BY <1>4 DEF Registered
  <1>9. \A a \in Algs : Registered(a) => NamedEpochs(op)[a] = epochs[a]
    BY <1>4, <1>5, <1>8
  <1> QED
    BY <1>1, <1>2, <1>5, <1>6, <1>7, <1>8, <1>9, FirstMirrors

\* The timelines of a seal are valid and continue themselves.
LEMMA SealedValid ==
  ASSUME NEW n \in Nat \ {0}, n < Open, NEW eps \in SealedTimelines(n)
  PROVE  /\ eps \in Seq(Interval) /\ eps # <<>>
         /\ ValidEpochs(eps, n)
         /\ EvolvesFrom(eps, n, eps)
  <1>1. CASE eps = <<<<0, Open>>>>
    <2>1. eps \in Seq(Interval) /\ Len(eps) = 1 /\ eps[1] = <<0, Open>> /\ DOMAIN eps = {1}
      BY <1>1, OpenAssumption DEF Interval
    <2> QED
      BY <2>1, OpenAssumption DEF ValidEpochs, EvolvesFrom
  <1>2. CASE eps = <<<<0, n - 1>>, <<n, Open>>>>
    <2>1. /\ eps \in Seq(Interval) /\ Len(eps) = 2 /\ DOMAIN eps = {1, 2}
          /\ eps[1] = <<0, n - 1>> /\ eps[2] = <<n, Open>>
      BY <1>2, OpenAssumption DEF Interval
    <2> QED
      BY <2>1, OpenAssumption DEF ValidEpochs, EvolvesFrom
  <1> QED
    BY <1>1, <1>2 DEF SealedTimelines

\* Sequences that SetToSeqs makes of a finite set are of its elements, each once.
LEMMA OrderOfSet ==
  ASSUME NEW S, IsFiniteSet(S), NEW order \in SetToSeqs(S)
  PROVE  /\ Cardinality(S) \in Nat
         /\ order \in [1..Cardinality(S) -> S]
         /\ \A i, j \in 1..Cardinality(S) : order[i] = order[j] => i = j
         /\ \A x \in S : \E i \in 1..Cardinality(S) : order[i] = x
  <1> DEFINE m == Cardinality(S)
             D == 1..m
  <1>1. m \in Nat
    BY FS_CardinalityType
  <1>2. order \in [D -> S] /\ \A i, j \in D : order[i] = order[j] => i = j
    BY DEF SetToSeqs
  <1>3. order \in Injection(D, S)
    BY <1>2 DEF Injection, IsInjective
  <1>4. Cardinality(D) = Cardinality(S)
    BY <1>1, FS_Interval
  <1>5. order \in Surjection(D, S)
    BY <1>3, <1>4, FS_Injection
  <1>6. \A x \in S : \E i \in D : order[i] = x
    BY <1>5 DEF Surjection
  <1> QED
    BY <1>1, <1>2, <1>6

\* What a seed names: each algorithm once, with its timeline.
LEMMA SeedNames ==
  ASSUME NEW S, IsFiniteSet(S), NEW order \in SetToSeqs(S), NEW timeline, NEW op,
         op.metas = [i \in DOMAIN order |-> <<order[i], timeline[order[i]]>>]
  PROVE  /\ Named(op) = S
         /\ Len(op.metas) = Cardinality(S)
         /\ DOMAIN NamedEpochs(op) = S
         /\ \A a \in S : NamedEpochs(op)[a] = timeline[a]
  <1> DEFINE m == Cardinality(S)
  <1>1. /\ m \in Nat /\ DOMAIN order = 1..m
        /\ \A i \in 1..m : order[i] \in S
        /\ \A i, j \in 1..m : order[i] = order[j] => i = j
        /\ \A x \in S : \E i \in 1..m : order[i] = x
    BY OrderOfSet
  <1> HIDE DEF m
  <1>2. /\ DOMAIN op.metas = 1..m
        /\ \A i \in 1..m : op.metas[i][1] = order[i] /\ op.metas[i][2] = timeline[order[i]]
    BY <1>1
  <1>3. Len(op.metas) = m
    BY <1>1, <1>2
  <1>4. Named(op) = S
    <2>1. Named(op) = {op.metas[i][1] : i \in 1..m}
      BY <1>2 DEF Named, ToSet
    <2> QED
      BY <1>1, <1>2, <2>1
  <1>5. ASSUME NEW a \in S
        PROVE  op.metas[Max({i \in DOMAIN op.metas : op.metas[i][1] = a})][2] = timeline[a]
    <2>1. PICK i \in 1..m : order[i] = a
      BY <1>1
    <2>2. {j \in DOMAIN op.metas : op.metas[j][1] = a} = {i}
      BY <1>1, <1>2, <2>1
    <2>3. Max({i}) = i
      BY DEF Max
    <2> QED
      BY <1>2, <2>1, <2>2, <2>3
  <1> QED
    BY <1>3, <1>4, <1>5 DEF NamedEpochs, m

\* Nor is the seed of a resumed log.
LEMMA ResumedMirrors == ResumedLog => Inv /\ StoresMirrorTimeline
  <1> SUFFICES ASSUME ResumedLog PROVE Inv /\ StoresMirrorTimeline
    OBVIOUS
  <1>1. PICK n \in 1..MaxCount, kept \in SUBSET Algs :
          \E timeline \in [kept -> SealedTimelines(n)] : \E order \in SetToSeqs(kept) :
            ResumedFrom(n, kept, timeline, order)
    BY DEF ResumedLog
  <1>2. PICK timeline \in [kept -> SealedTimelines(n)], order \in SetToSeqs(kept) :
          ResumedFrom(n, kept, timeline, order)
    BY <1>1
  <1> DEFINE op == SeedOp(n, [i \in DOMAIN order |-> <<order[i], timeline[order[i]]>>],
                          [k \in {<<a, 1, 0>> : a \in kept} |-> "peak"])
  <1>3. n \in Nat \ {0} /\ n < Open /\ n \in 0..MaxCount
    BY TimelineAssumption, OpenAssumption
  <1>4. \A a \in kept : /\ timeline[a] \in Seq(Interval) /\ timeline[a] # <<>>
                        /\ ValidEpochs(timeline[a], n) /\ EvolvesFrom(timeline[a], n, timeline[a])
    BY <1>3, SealedValid
  <1>5. /\ count = n /\ checkpoint.size = n /\ checkpoint.epochs = epochs
        /\ checkpoint = [size |-> n, epochs |-> epochs]
        /\ epochs = [a \in Algs |-> IF a \in kept THEN timeline[a] ELSE <<>>]
        /\ \A a \in Algs : epochs[a] = IF a \in kept THEN timeline[a] ELSE <<>>
    BY <1>2 DEF ResumedFrom
  <1>6. Inv
    <2>1. \A a \in Algs : (IF a \in kept THEN timeline[a] ELSE <<>>) \in Seq(Interval)
      BY <1>4
    <2>2. epochs \in [Algs -> Seq(Interval)]
      BY <1>5, <2>1
    <2>3. TypeOK
      BY <1>3, <1>5, <2>2 DEF TypeOK
    <2>4. EpochsValid
      BY <1>4, <1>5 DEF EpochsValid, Registered
    <2>5. CheckpointHeld
      BY <1>3, <1>4, <1>5 DEF CheckpointHeld, Held
    <2> QED
      BY <2>3, <2>4, <2>5 DEF Inv
  <1>7. IsFiniteSet(kept)
    BY StoredAssumption, FS_Subset
  <1>8. /\ op.metas = [i \in DOMAIN order |-> <<order[i], timeline[order[i]]>>]
        /\ op.kind = "SeedFrontier" /\ op.at = n
        /\ ~IsAppend(op) /\ IsSeed(op)
    BY DEF SeedOp, WriteOp, IsAppend, IsSeed
  <1>9. /\ memory = MemoryApply(EmptyStore, <<op>>)
        /\ fjall = FjallApply(EmptyStore, <<op>>)
        /\ git = GitApply(EmptyStore, <<op>>)
    BY <1>2 DEF ResumedFrom
  <1> HIDE DEF op
  <1>10. /\ Named(op) = kept /\ Len(op.metas) = Cardinality(kept)
         /\ DOMAIN NamedEpochs(op) = kept
         /\ \A a \in kept : NamedEpochs(op)[a] = timeline[a]
    BY <1>7, <1>8, SeedNames
  <1>11. ~Refused(op, 0, {})
    <2>1. Cardinality(kept) \in Nat
      BY <1>7, FS_CardinalityType
    <2> QED
      BY <1>8, <1>10, <2>1 DEF Refused, RefusedUnlessSeed
  <1>12. CountAfter(0, op) = count
    BY <1>5, <1>8 DEF CountAfter
  <1>13. {b \in Algs : Registered(b)} = kept
    BY <1>4, <1>5 DEF Registered
  <1>14. \A a \in Algs : Registered(a) => NamedEpochs(op)[a] = epochs[a]
    BY <1>5, <1>10, <1>13
  <1> QED
    BY <1>6, <1>9, <1>10, <1>11, <1>12, <1>13, <1>14, FirstMirrors

\* Whatever a log does after it was opened on an empty store or resumed from a
\* seal, memory, fjall and git all take it, and give back the handle's count and
\* intervals: the writes of the log are never refused (Storage::apply).
THEOREM StoresMirror == StoredSpec => []StoresMirrorTimeline
  <1>1. NewLog \/ ResumedLog => Inv /\ StoresMirrorTimeline
    BY NewMirrors, ResumedMirrors
  <1> QED
    BY <1>1, Step, PTL DEF StoredSpec

-----------------------------------------------------------------------------
(* Key paths *)

\* The places are the first nine powers of the number of values of a byte.
LEMMA Places ==
  /\ Place[0] = 1
  /\ \A i \in 0..7 : Place[i + 1] = ByteValues * Place[i]
  /\ \A i \in 0..8 : Place[i] \in Nat \ {0}
  <1> DEFINE b == ByteValues
             place(f) == [i \in 0..8 |-> IF i = 0 THEN 1 ELSE b * f[i - 1]]
             powers == <<1, b, b * b, b * (b * b), b * (b * (b * b)), b * (b * (b * (b * b))),
                         b * (b * (b * (b * (b * b)))), b * (b * (b * (b * (b * (b * b))))),
                         b * (b * (b * (b * (b * (b * (b * b))))))>>
             f == [i \in 0..8 |-> powers[i + 1]]
  <1>1. f = place(f)
    <2>1. \A i \in 0..8 : f[i] = IF i = 0 THEN 1 ELSE b * f[i - 1]
      <3>1. \A i \in 0..8 : i \in {0, 1, 2, 3, 4, 5, 6, 7, 8}
        OBVIOUS
      <3>2. b \in Nat /\ b * 1 = b
        BY ByteAssumption
      <3> HIDE DEF b
      <3> QED
        BY <3>1, <3>2
    <2> HIDE DEF f
    <2> QED
      BY <2>1 DEF f
  <1> HIDE DEF f
  <1>2. Place = place(Place)
    BY <1>1 DEF Place
  <1>3. \A i \in 0..8 : Place[i] = IF i = 0 THEN 1 ELSE b * Place[i - 1]
    BY <1>2
  <1>4. Place[0] = 1 /\ \A i \in 0..7 : Place[i + 1] = b * Place[i]
    BY <1>3
  <1>5. \A n \in Nat \ {0} : b * n \in Nat \ {0}
    BY ByteAssumption
  <1>6. /\ Place[1] = b * Place[0] /\ Place[2] = b * Place[1] /\ Place[3] = b * Place[2]
        /\ Place[4] = b * Place[3] /\ Place[5] = b * Place[4] /\ Place[6] = b * Place[5]
        /\ Place[7] = b * Place[6] /\ Place[8] = b * Place[7]
    BY <1>3
  <1>7. /\ Place[0] \in Nat \ {0} /\ Place[1] \in Nat \ {0} /\ Place[2] \in Nat \ {0}
        /\ Place[3] \in Nat \ {0} /\ Place[4] \in Nat \ {0} /\ Place[5] \in Nat \ {0}
        /\ Place[6] \in Nat \ {0} /\ Place[7] \in Nat \ {0} /\ Place[8] \in Nat \ {0}
    <2> HIDE DEF b
    <2> QED
      BY <1>4, <1>5, <1>6
  <1>8. \A i \in 0..8 : i \in {0, 1, 2, 3, 4, 5, 6, 7, 8}
    OBVIOUS
  <1> QED
    BY <1>4, <1>7, <1>8

\* The keys there are paths for.
Keys == 0..Place[8] - 1

LEMMA KeysAreNaturals == \A k \in Keys : k \in Nat /\ k < Place[8]
  BY Places DEF Keys

LEMMA SignificantBytes ==
  ASSUME NEW k \in Keys
  PROVE  Significant(k) \in 1..8 /\ k < Place[Significant(k)]
  <1> DEFINE fit == {n \in 1..8 : k < Place[n]}
  <1>1. k \in Nat /\ fit \in SUBSET Nat /\ 8 \in fit
    BY KeysAreNaturals
  <1>2. PICK n \in fit : \A m \in fit : n <= m
    <2> HIDE DEF fit
    <2> QED
      BY <1>1, LeastExists
  <1>3. n \in 1..8 /\ k < Place[n] /\ (n > 1 => k >= Place[n - 1])
    <2>1. n > 1 => n - 1 \in 1..8 /\ n - 1 \notin fit
      BY <1>2
    <2>2. n > 1 => Place[n - 1] \in Nat
      BY <2>1, Places
    <2> QED
      BY <1>1, <1>2, <2>1, <2>2
  <1> QED
    BY <1>3 DEF Significant

\* Keys with as many bytes, and the same ones, are the same.
Byte(k, i) == (k \div Place[i]) % ByteValues

LEMMA DivisionByPlace ==
  ASSUME NEW k \in Nat, NEW i \in 0..7
  PROVE  /\ k \div Place[i] \in Nat /\ k \div Place[i + 1] \in Nat
         /\ k \div Place[i] = ByteValues * (k \div Place[i + 1]) + Byte(k, i)
  <1> DEFINE p == Place[i]
             b == ByteValues
  <1>1. p \in Nat \ {0} /\ b \in Nat \ {0} /\ Place[i + 1] = b * p /\ Place[i + 1] \in Nat \ {0}
    BY Places, ByteAssumption
  <1> HIDE DEF p, b
  <1>2. k \div p \in Nat
    BY <1>1
  <1>3. (k \div p) \div b = k \div (p * b)
    BY <1>1
  <1>4. b * p = p * b
    BY <1>1
  <1>5. k \div (p * b) = k \div Place[i + 1]
    BY <1>1, <1>4
  <1>6. \A q \in Nat : q \div b \in Nat /\ q = b * (q \div b) + (q % b)
    BY <1>1
  <1> QED
    BY <1>2, <1>3, <1>5, <1>6 DEF Byte, p, b

LEMMA BytesDetermine ==
  ASSUME NEW k \in Nat, NEW l \in Nat, NEW n \in 1..8, k < Place[n], l < Place[n],
         \A i \in 0..n - 1 : Byte(k, i) = Byte(l, i)
  PROVE  k = l
  <1> DEFINE differ == {i \in 0..n : k \div Place[i] # l \div Place[i]}
             back == {j \in Nat : n - j \in differ}
  <1>1. k \div Place[n] = 0 /\ l \div Place[n] = 0
    <2>1. \A p \in Nat \ {0} : k < p /\ l < p => k \div p = 0 /\ l \div p = 0
      OBVIOUS
    <2>2. Place[n] \in Nat \ {0}
      BY Places
    <2> QED
      BY <2>1, <2>2
  <1>2. differ = {}
    <2> SUFFICES ASSUME differ # {} PROVE FALSE
      OBVIOUS
    <2>1. PICK i \in differ : TRUE
      OBVIOUS
    <2>2. n - i \in back /\ back \in SUBSET Nat
      BY <2>1
    <2>3. PICK j \in back : \A m \in back : j <= m
      <3> HIDE DEF back
      <3> QED
        BY <2>2, LeastExists
    <2>4. n - j \in differ /\ j # 0 /\ n - (j - 1) \notin differ
      <3>1. n - j \in differ /\ j \in Nat
        BY <2>3
      <3>2. j # 0
        BY <1>1, <3>1
      <3>3. j - 1 \notin back
        BY <2>3, <3>2
      <3> QED
        BY <3>1, <3>2, <3>3
    <2> DEFINE h == n - j
    <2>5. h \in 0..n - 1 /\ h \in 0..7 /\ h + 1 \in 0..n /\ k \div Place[h] # l \div Place[h]
          /\ k \div Place[h + 1] = l \div Place[h + 1]
      BY <2>3, <2>4
    <2> HIDE DEF h, differ, back
    <2>6. Byte(k, h) = Byte(l, h)
      BY <2>5
    <2>7. k \div Place[h] = ByteValues * (k \div Place[h + 1]) + Byte(k, h)
      BY <2>5, DivisionByPlace
    <2>8. l \div Place[h] = ByteValues * (l \div Place[h + 1]) + Byte(l, h)
      BY <2>5, DivisionByPlace
    <2> QED
      BY <2>5, <2>6, <2>7, <2>8
  <1>3. k \div Place[0] = k /\ l \div Place[0] = l
    BY Places
  <1> QED
    BY <1>2, <1>3

\* The path of a key, entry by entry.
LEMMA PathOfKey ==
  ASSUME NEW k \in Keys
  PROVE  LET n == Significant(k)
             path == KeyPath(k)
         IN  /\ n \in 1..8 /\ path \in Seq(Nat) /\ Len(path) = n + 1 /\ path[1] = n
             /\ \A i \in 0..n - 1 : path[n + 1 - i] = Byte(k, i)
  <1> DEFINE n == Significant(k)
             bytes == [i \in 1..n |-> (k \div Place[n - i]) % ByteValues]
  <1>1. n \in 1..8 /\ k \in Nat
    BY SignificantBytes, KeysAreNaturals
  <1> HIDE DEF n
  <1>2. \A i \in 1..n : (k \div Place[n - i]) % ByteValues \in Nat
    <2> TAKE i \in 1..n
    <2>1. Place[n - i] \in Nat \ {0}
      BY <1>1, Places
    <2>2. \A p, b \in Nat \ {0} : (k \div p) % b \in Nat
      BY <1>1
    <2> QED
      BY <2>1, <2>2, ByteAssumption
  <1>3. bytes \in Seq(Nat) /\ Len(bytes) = n
    BY <1>1, <1>2
  <1>4. <<n>> \in Seq(Nat) /\ Len(<<n>>) = 1
    BY <1>1
  <1>5. KeyPath(k) = <<n>> \o bytes
    BY DEF KeyPath, n
  <1>6. \A i \in 1..n : bytes[i] = Byte(k, n - i)
    BY DEF Byte
  <1> HIDE DEF bytes
  <1>7. KeyPath(k) \in Seq(Nat) /\ Len(KeyPath(k)) = n + 1 /\ KeyPath(k)[1] = n
        /\ \A i \in 1..n : KeyPath(k)[i + 1] = bytes[i]
    BY <1>1, <1>3, <1>4, <1>5
  <1>8. ASSUME NEW i \in 0..n - 1 PROVE KeyPath(k)[n + 1 - i] = Byte(k, i)
    <2>1. n - i \in 1..n /\ n - (n - i) = i /\ (n - i) + 1 = n + 1 - i
      BY <1>1
    <2>2. KeyPath(k)[(n - i) + 1] = Byte(k, n - (n - i))
      BY <1>6, <1>7, <2>1
    <2> QED
      BY <2>1, <2>2
  <1> QED
    BY <1>1, <1>7, <1>8 DEF n

\* What being a prefix means entry by entry.
LEMMA PrefixEntries ==
  ASSUME NEW S, NEW s \in Seq(S), NEW t \in Seq(S), IsPrefix(s, t)
  PROVE  Len(s) <= Len(t) /\ \A i \in 1..Len(s) : s[i] = t[i]
  <1>1. Len(s) <= Len(t) /\ SubSeq(s, 1, Len(s)) = SubSeq(t, 1, Len(s))
    BY DEF IsPrefix
  <1>2. \A i \in 1..Len(s) : SubSeq(s, 1, Len(s))[i] = s[i] /\ SubSeq(t, 1, Len(s))[i] = t[i]
    BY <1>1
  <1> QED
    BY <1>1, <1>2

\* Two keys one of whose paths starts with the other's are the same.
LEMMA KeyPathsApart ==
  ASSUME NEW k \in Keys, NEW l \in Keys, IsPrefix(KeyPath(k), KeyPath(l))
  PROVE  k = l
  <1> DEFINE n == Significant(k)
  <1>1. n \in 1..8 /\ KeyPath(k) \in Seq(Nat) /\ Len(KeyPath(k)) = n + 1 /\ KeyPath(k)[1] = n
        /\ \A i \in 0..n - 1 : KeyPath(k)[n + 1 - i] = Byte(k, i)
    BY PathOfKey
  <1>2. KeyPath(l) \in Seq(Nat) /\ KeyPath(l)[1] = Significant(l)
        /\ \A i \in 0..Significant(l) - 1 : KeyPath(l)[Significant(l) + 1 - i] = Byte(l, i)
    BY PathOfKey
  <1>3. \A i \in 1..n + 1 : KeyPath(k)[i] = KeyPath(l)[i]
    BY <1>1, <1>2, PrefixEntries
  <1>4. Significant(l) = n
    BY <1>1, <1>2, <1>3
  <1>5. k \in Nat /\ l \in Nat /\ k < Place[n] /\ l < Place[n]
    BY <1>4, SignificantBytes, KeysAreNaturals
  <1>6. ASSUME NEW i \in 0..n - 1 PROVE Byte(k, i) = Byte(l, i)
    <2>1. n + 1 - i \in 1..n + 1
      BY <1>1
    <2>2. KeyPath(k)[n + 1 - i] = Byte(k, i) /\ KeyPath(l)[n + 1 - i] = Byte(l, i)
      BY <1>1, <1>2, <1>4
    <2> QED
      BY <1>3, <2>1, <2>2
  <1> HIDE DEF n
  <1> QED
    BY <1>1, <1>5, <1>6, BytesDetermine

\* Nodes are asked for, and written, by algorithm, height and position.
Nodes == Algs \X Nat \X Keys

LEMMA NodePathsApart ==
  ASSUME NEW m \in Nodes, NEW n \in Nodes, IsPrefix(NodePath(m), NodePath(n))
  PROVE  m = n
  <1> DEFINE S == Algs \cup Nat
  <1>1. ASSUME NEW x \in Nodes
        PROVE  /\ NodePath(x) \in Seq(S) /\ Len(NodePath(x)) = Len(KeyPath(x[3])) + 2
               /\ NodePath(x)[1] = x[1] /\ NodePath(x)[2] = x[2]
               /\ \A i \in 1..Len(KeyPath(x[3])) : NodePath(x)[i + 2] = KeyPath(x[3])[i]
    <2>1. KeyPath(x[3]) \in Seq(Nat)
      BY PathOfKey DEF Nodes
    <2>2. KeyPath(x[3]) \in Seq(S) /\ <<x[1], x[2]>> \in Seq(S)
      BY <2>1 DEF Nodes
    <2>3. NodePath(x) = <<x[1], x[2]>> \o KeyPath(x[3])
      BY DEF NodePath
    <2> HIDE DEF S
    <2> QED
      BY <2>2, <2>3
  <1>2. KeyPath(m[3]) \in Seq(Nat) /\ KeyPath(n[3]) \in Seq(Nat)
    BY PathOfKey DEF Nodes
  <1> HIDE DEF S
  <1>3. Len(NodePath(m)) <= Len(NodePath(n))
        /\ \A i \in 1..Len(NodePath(m)) : NodePath(m)[i] = NodePath(n)[i]
    BY <1>1, PrefixEntries
  <1>4. m[1] = n[1] /\ m[2] = n[2]
    BY <1>1, <1>2, <1>3
  <1>5. Len(KeyPath(m[3])) <= Len(KeyPath(n[3]))
        /\ \A i \in 1..Len(KeyPath(m[3])) : KeyPath(m[3])[i] = KeyPath(n[3])[i]
    <2>1. Len(KeyPath(m[3])) <= Len(KeyPath(n[3]))
      BY <1>1, <1>2, <1>3
    <2>2. ASSUME NEW i \in 1..Len(KeyPath(m[3]))
          PROVE  KeyPath(m[3])[i] = KeyPath(n[3])[i]
      <3>1. i + 2 \in 1..Len(NodePath(m)) /\ i \in 1..Len(KeyPath(n[3]))
        BY <1>1, <1>2, <2>1
      <3> QED
        BY <1>1, <1>3, <3>1
    <2> QED
      BY <2>1, <2>2
  <1>6. m[3] = n[3]
    <2>1. m[3] \in Keys /\ n[3] \in Keys
      BY DEF Nodes
    <2>2. SubSeq(KeyPath(m[3]), 1, Len(KeyPath(m[3]))) = SubSeq(KeyPath(n[3]), 1, Len(KeyPath(m[3])))
      BY <1>2, <1>5
    <2>3. IsPrefix(KeyPath(m[3]), KeyPath(n[3]))
      BY <1>5, <2>2 DEF IsPrefix
    <2> QED
      BY <2>1, <2>3, KeyPathsApart
  <1> QED
    BY <1>4, <1>6 DEF Nodes

\* Nor are two paths the same.
LEMMA KeyPathsDiffer ==
  ASSUME NEW k \in Keys, NEW l \in Keys, KeyPath(k) = KeyPath(l)
  PROVE  k = l
  <1>1. KeyPath(k) \in Seq(Nat) /\ Len(KeyPath(k)) \in Nat
    BY PathOfKey
  <1>2. IsPrefix(KeyPath(k), KeyPath(l))
    BY <1>1 DEF IsPrefix
  <1> QED
    BY <1>2, KeyPathsApart

LEMMA NodePathsDiffer ==
  ASSUME NEW m \in Nodes, NEW n \in Nodes, NodePath(m) = NodePath(n)
  PROVE  m = n
  <1>1. KeyPath(m[3]) \in Seq(Nat)
    BY PathOfKey DEF Nodes
  <1>2. KeyPath(m[3]) \in Seq(Algs \cup Nat) /\ <<m[1], m[2]>> \in Seq(Algs \cup Nat)
    BY <1>1 DEF Nodes
  <1>3. NodePath(m) \in Seq(Algs \cup Nat) /\ Len(NodePath(m)) \in Nat
    BY <1>2 DEF NodePath
  <1>4. IsPrefix(NodePath(m), NodePath(n))
    BY <1>3 DEF IsPrefix
  <1> QED
    BY <1>4, NodePathsApart

-----------------------------------------------------------------------------
(* Trees *)

\* What the tree editor is given, if no path is the start of another, is put in
\* place and nothing is dropped.
LEMMA UpsertIsOverlay ==
  ASSUME NEW tree, NEW entries,
         \A p \in DOMAIN tree, q \in DOMAIN entries : IsPrefix(p, q) \/ IsPrefix(q, p) => p = q
  PROVE  /\ DOMAIN Upsert(tree, entries) = DOMAIN tree \cup DOMAIN entries
         /\ \A q \in DOMAIN entries : Upsert(tree, entries)[q] = entries[q]
         /\ \A p \in DOMAIN tree \ DOMAIN entries : Upsert(tree, entries)[p] = tree[p]
  <1> DEFINE clash(p, q) == IsPrefix(p, q) \/ IsPrefix(q, p)
             kept == {p \in DOMAIN tree : \A q \in DOMAIN entries : ~clash(p, q)}
  <1>1. Upsert(tree, entries) = Overlay([p \in kept |-> tree[p]], entries)
    BY DEF Upsert
  <1>2. /\ DOMAIN tree \ DOMAIN entries \subseteq kept
        /\ kept \subseteq DOMAIN tree
    OBVIOUS
  <1> HIDE DEF kept
  <1> QED
    BY <1>1, <1>2 DEF Overlay

\* What is in a tree at the paths of keys, or of nodes.
LeafTree(tree, leaves) ==
  /\ DOMAIN tree = {KeyPath(i) : i \in DOMAIN leaves}
  /\ \A i \in DOMAIN leaves : tree[KeyPath(i)] = leaves[i]
NodeTree(tree, nodes) ==
  /\ DOMAIN tree = {NodePath(n) : n \in DOMAIN nodes}
  /\ \A n \in DOMAIN nodes : tree[NodePath(n)] = nodes[n]

\* Git writes a payload, and the digests of an operation, where memory has them.
LEMMA LeafWritten ==
  ASSUME NEW tree, NEW leaves, LeafTree(tree, leaves), DOMAIN leaves \subseteq Keys,
         NEW k \in Keys, NEW v
  PROVE  LeafTree(Upsert(tree, Entry(KeyPath(k), v)), Overlay(leaves, Entry(k, v)))
  <1> DEFINE entries == Entry(KeyPath(k), v)
             new == Upsert(tree, entries)
             over == Overlay(leaves, Entry(k, v))
  <1>1. DOMAIN entries = {KeyPath(k)} /\ entries[KeyPath(k)] = v
    BY DEF Entry
  <1>2. \A i \in DOMAIN leaves :
          IsPrefix(KeyPath(i), KeyPath(k)) \/ IsPrefix(KeyPath(k), KeyPath(i)) => i = k
    BY KeyPathsApart
  <1>3. \A p \in DOMAIN tree, q \in DOMAIN entries : IsPrefix(p, q) \/ IsPrefix(q, p) => p = q
    BY <1>1, <1>2 DEF LeafTree
  <1> HIDE DEF entries
  <1>4. /\ DOMAIN new = DOMAIN tree \cup DOMAIN entries
        /\ \A q \in DOMAIN entries : new[q] = entries[q]
        /\ \A p \in DOMAIN tree \ DOMAIN entries : new[p] = tree[p]
    BY <1>3, UpsertIsOverlay
  <1>5. /\ DOMAIN over = DOMAIN leaves \cup {k} /\ over[k] = v
        /\ \A i \in DOMAIN leaves \ {k} : over[i] = leaves[i]
    BY DEF Overlay, Entry
  <1> HIDE DEF new, over
  <1>6. DOMAIN new = {KeyPath(i) : i \in DOMAIN over}
    BY <1>1, <1>4, <1>5 DEF LeafTree
  <1>7. ASSUME NEW i \in DOMAIN over PROVE new[KeyPath(i)] = over[i]
    <2>1. CASE i = k
      BY <1>1, <1>4, <1>5, <2>1
    <2>2. CASE i # k
      <3>1. i \in DOMAIN leaves /\ KeyPath(i) # KeyPath(k)
        BY <1>5, <2>2, KeyPathsDiffer
      <3>2. KeyPath(i) \in DOMAIN tree \ DOMAIN entries
        BY <1>1, <3>1 DEF LeafTree
      <3> QED
        BY <1>4, <1>5, <2>2, <3>1, <3>2 DEF LeafTree
    <2> QED
      BY <2>1, <2>2
  <1> QED
    BY <1>6, <1>7 DEF LeafTree, new, over, entries

LEMMA NodesWritten ==
  ASSUME NEW tree, NEW nodes, NodeTree(tree, nodes), DOMAIN nodes \subseteq Nodes,
         NEW more, DOMAIN more \subseteq Nodes
  PROVE  LET written == {NodePath(n) : n \in DOMAIN more}
             entries == [p \in written |->
                           more[CHOOSE n \in DOMAIN more : NodePath(n) = p]]
         IN  NodeTree(Upsert(tree, entries), Overlay(nodes, more))
  <1> DEFINE written == {NodePath(n) : n \in DOMAIN more}
             entries == [p \in written |-> more[CHOOSE n \in DOMAIN more : NodePath(n) = p]]
             new == Upsert(tree, entries)
             over == Overlay(nodes, more)
  <1>1. DOMAIN entries = written
    OBVIOUS
  <1>2. ASSUME NEW n \in DOMAIN more PROVE entries[NodePath(n)] = more[n]
    <2>1. (CHOOSE m \in DOMAIN more : NodePath(m) = NodePath(n)) = n
      <3>1. \A m \in DOMAIN more : NodePath(m) = NodePath(n) => m = n
        BY NodePathsDiffer
      <3> QED
        BY <3>1
    <2> QED
      BY <2>1
  <1> HIDE DEF entries
  <1>3. \A m \in DOMAIN nodes, n \in DOMAIN more :
          IsPrefix(NodePath(m), NodePath(n)) \/ IsPrefix(NodePath(n), NodePath(m)) => m = n
    BY NodePathsApart
  <1>4. \A p \in DOMAIN tree, q \in DOMAIN entries : IsPrefix(p, q) \/ IsPrefix(q, p) => p = q
    BY <1>1, <1>3 DEF NodeTree
  <1>5. /\ DOMAIN new = DOMAIN tree \cup DOMAIN entries
        /\ \A q \in DOMAIN entries : new[q] = entries[q]
        /\ \A p \in DOMAIN tree \ DOMAIN entries : new[p] = tree[p]
    BY <1>4, UpsertIsOverlay
  <1>6. /\ DOMAIN over = DOMAIN nodes \cup DOMAIN more
        /\ \A n \in DOMAIN over : over[n] = IF n \in DOMAIN more THEN more[n] ELSE nodes[n]
    BY DEF Overlay
  <1> HIDE DEF new, over
  <1>7. DOMAIN new = {NodePath(n) : n \in DOMAIN over}
    BY <1>1, <1>5, <1>6 DEF NodeTree
  <1>8. ASSUME NEW n \in DOMAIN over PROVE new[NodePath(n)] = over[n]
    <2>1. CASE n \in DOMAIN more
      BY <1>1, <1>2, <1>5, <1>6, <2>1
    <2>2. CASE n \notin DOMAIN more
      <3>1. n \in DOMAIN nodes /\ n \in Nodes
        BY <1>6, <2>2
      <3>2. NodePath(n) \notin written
        BY <2>2, <3>1, NodePathsDiffer
      <3>3. NodePath(n) \in DOMAIN tree \ DOMAIN entries
        BY <1>1, <3>1, <3>2 DEF NodeTree
      <3> QED
        BY <1>5, <1>6, <2>2, <3>1, <3>3 DEF NodeTree
    <2> QED
      BY <2>1, <2>2
  <1> QED
    BY <1>7, <1>8 DEF NodeTree, new, over, entries, written

-----------------------------------------------------------------------------
(* What the backends read *)

\* Git has the entries of another store, at their paths.
SameEntries(store, g) ==
  /\ DOMAIN store.leaves \subseteq Keys
  /\ DOMAIN store.nodes \subseteq Nodes
  /\ LeafTree(g.leaves, store.leaves)
  /\ NodeTree(g.nodes, store.nodes)
  /\ DOMAIN store.leaves = {} => store.leaves = <<>> /\ g.leaves = <<>>

\* A store has no payloads, or one for every position.
LeavesInPlace(store) ==
  store.leaves = <<>> \/ (store.count \in Nat \ {0} /\ DOMAIN store.leaves = 0..store.count - 1)

\* How memory and fjall count the payloads.
LEMMA LengthsAlike ==
  ASSUME NEW store, LeavesInPlace(store)
  PROVE  LET len == IF store.leaves = <<>> THEN 0 ELSE store.count
         IN  /\ Cardinality(DOMAIN store.leaves) = len
             /\ Max({0} \cup {i + 1 : i \in DOMAIN store.leaves}) = len
  <1>1. CASE store.leaves = <<>>
    <2>1. DOMAIN store.leaves = {}
      BY <1>1
    <2>2. {0} \cup {i + 1 : i \in DOMAIN store.leaves} = {0}
      BY <2>1
    <2>3. Max({0}) = 0
      BY DEF Max
    <2> QED
      BY <1>1, <2>1, <2>2, <2>3, FS_EmptySet
  <1>2. CASE store.leaves # <<>>
    <2> DEFINE n == store.count
               ends == {0} \cup {i + 1 : i \in DOMAIN store.leaves}
    <2>1. n \in Nat \ {0} /\ DOMAIN store.leaves = 0..n - 1
      BY <1>2 DEF LeavesInPlace
    <2> HIDE DEF n
    <2>2. Cardinality(0..n - 1) = n
      <3>1. 0 \in Int /\ n - 1 \in Int /\ 0 <= n - 1
        BY <2>1
      <3>2. Cardinality(0..n - 1) = IF 0 > n - 1 THEN 0 ELSE n - 1 - 0 + 1
        BY <3>1, FS_Interval
      <3> QED
        BY <2>1, <3>2
    <2>3. ends = 0..n
      <3>1. \A i \in 0..n : i = 0 \/ i - 1 \in 0..n - 1
        BY <2>1
      <3>2. \A i \in 0..n : i = (i - 1) + 1
        BY <2>1
      <3>3. 0..n \subseteq ends
        BY <2>1, <3>1, <3>2
      <3>4. ends \subseteq 0..n
        BY <2>1
      <3> QED
        BY <3>3, <3>4
    <2>4. Max(0..n) = n
      <3>1. n \in 0..n /\ \A y \in 0..n : n >= y
        BY <2>1
      <3>2. \A x \in 0..n : (\A y \in 0..n : x >= y) => x = n
        BY <2>1
      <3> QED
        BY <3>1, <3>2 DEF Max
    <2> QED
      BY <1>2, <2>1, <2>2, <2>3, <2>4 DEF n
  <1> QED
    BY <1>1, <1>2

LEMMA FjallReadsAlike ==
  ASSUME NEW store, LeavesInPlace(store), NEW positions, NEW asked
  PROVE  MemoryReads(store, positions, asked) = FjallReads(store, positions, asked)
  BY LengthsAlike DEF MemoryReads, FjallReads

LEMMA GitReadsAlike ==
  ASSUME NEW store, NEW g, LeavesInPlace(store), SameEntries(store, g),
         g.count = store.count, g.metas = store.metas,
         NEW positions \in SUBSET Keys, NEW asked \in SUBSET Nodes
  PROVE  MemoryReads(store, positions, asked) = GitReads(g, positions, asked)
  <1> DEFINE len == IF g.leaves = <<>> THEN 0 ELSE g.count
  <1>1. len = IF store.leaves = <<>> THEN 0 ELSE store.count
    <2>1. store.leaves = <<>> => DOMAIN store.leaves = {}
      OBVIOUS
    <2>2. g.leaves = <<>> => DOMAIN g.leaves = {}
      OBVIOUS
    <2>3. DOMAIN store.leaves # {} => DOMAIN g.leaves # {}
      BY DEF SameEntries, LeafTree
    <2> QED
      BY <2>1, <2>2, <2>3 DEF SameEntries
  <1>2. Cardinality(DOMAIN store.leaves) = len
    BY <1>1, LengthsAlike
  <1>3. ASSUME NEW i \in positions
        PROVE  Get(store.leaves, i) = IF i < len THEN Get(g.leaves, KeyPath(i)) ELSE NotFound
    <2>1. i \in Keys /\ i \in Nat
      BY KeysAreNaturals
    <2>2. i \in DOMAIN store.leaves <=> i < len
      <3>1. CASE store.leaves = <<>>
        <4>1. DOMAIN store.leaves = {} /\ len = 0
          BY <1>1, <3>1
        <4> QED
          BY <2>1, <4>1
      <3>2. CASE store.leaves # <<>>
        BY <1>1, <2>1, <3>2 DEF LeavesInPlace
      <3> QED
        BY <3>1, <3>2
    <2>3. i \in DOMAIN store.leaves =>
            KeyPath(i) \in DOMAIN g.leaves /\ g.leaves[KeyPath(i)] = store.leaves[i]
      BY DEF SameEntries, LeafTree
    <2> HIDE DEF len
    <2> QED
      BY <2>2, <2>3 DEF Get
  <1>4. ASSUME NEW n \in asked
        PROVE  Get(store.nodes, n) = Get(g.nodes, NodePath(n))
    <2>1. \A m \in DOMAIN store.nodes : NodePath(m) = NodePath(n) => m = n
      BY NodePathsDiffer DEF SameEntries
    <2>2. n \in DOMAIN store.nodes <=> NodePath(n) \in DOMAIN g.nodes
      BY <2>1 DEF SameEntries, NodeTree
    <2> QED
      BY <2>2 DEF Get, SameEntries, NodeTree
  <1> HIDE DEF len
  <1>5. [i \in positions |-> Get(store.leaves, i)]
          = [i \in positions |-> IF i < len THEN Get(g.leaves, KeyPath(i)) ELSE NotFound]
    BY <1>3
  <1>6. [n \in asked |-> Get(store.nodes, n)] = [n \in asked |-> Get(g.nodes, NodePath(n))]
    BY <1>4
  <1>7. GitReads(g, positions, asked)
          = [count |-> g.count, metas |-> g.metas, len |-> len,
             leaf |-> [i \in positions |-> IF i < len THEN Get(g.leaves, KeyPath(i)) ELSE NotFound],
             node |-> [n \in asked |-> Get(g.nodes, NodePath(n))]]
    BY DEF GitReads, len
  <1> QED
    BY <1>2, <1>5, <1>6, <1>7 DEF MemoryReads

-----------------------------------------------------------------------------
(* Writing *)

\* An operation puts the same entries in git as in fjall.
LEMMA WritesAlike ==
  ASSUME NEW store, NEW g, SameEntries(store, g), NEW op,
         op.kind = "AppendLeaf" => op.at \in Keys, DOMAIN op.nodes \subseteq Nodes
  PROVE  SameEntries(FjallWrite(store, op), GitWrite(g, op))
  <1> DEFINE s == FjallWrite(store, op)
             t == GitWrite(g, op)
  <1>1. /\ s.leaves = IF op.kind = "AppendLeaf" THEN Overlay(store.leaves, Entry(op.at, op.data))
                                                ELSE store.leaves
        /\ s.nodes = Overlay(store.nodes, op.nodes)
    BY DEF FjallWrite, Write
  <1>2. /\ t.leaves = IF op.kind = "AppendLeaf"
                        THEN Upsert(g.leaves, Entry(KeyPath(op.at), op.data)) ELSE g.leaves
        /\ t.nodes = LET written == {NodePath(n) : n \in DOMAIN op.nodes}
                     IN  Upsert(g.nodes, [p \in written |->
                           op.nodes[CHOOSE n \in DOMAIN op.nodes : NodePath(n) = p]])
    BY DEF GitWrite
  <1> HIDE DEF s, t
  <1>3. NodeTree(t.nodes, s.nodes)
    BY <1>1, <1>2, NodesWritten DEF SameEntries
  <1>4. LeafTree(t.leaves, s.leaves)
    BY <1>1, <1>2, LeafWritten DEF SameEntries
  <1>5. DOMAIN s.nodes \subseteq Nodes
    BY <1>1 DEF SameEntries, Overlay
  <1>6. op.kind = "AppendLeaf" => DOMAIN s.leaves = DOMAIN store.leaves \cup {op.at}
    BY <1>1 DEF Overlay, Entry
  <1>7. DOMAIN s.leaves \subseteq Keys
    BY <1>1, <1>6 DEF SameEntries
  <1>8. DOMAIN s.leaves = {} => s.leaves = <<>> /\ t.leaves = <<>>
    BY <1>1, <1>2, <1>6 DEF SameEntries
  <1> QED
    BY <1>3, <1>4, <1>5, <1>7, <1>8 DEF SameEntries, s, t

\* Projecting intervals leaves the entries alone.
LEMMA ProjectionKeepsEntries ==
  ASSUME NEW store, NEW g, NEW op, SameEntries(store, GitWrite(g, op))
  PROVE  SameEntries(store, ProjectEpochs(GitWrite(g, op)))
  <1> DEFINE t == GitWrite(g, op)
             u == ProjectEpochs(t)
  <1>1. u.leaves = t.leaves /\ u.nodes = t.nodes
    BY DEF ProjectEpochs, GitWrite
  <1> HIDE DEF t, u
  <1>2. SameEntries(store, t) => SameEntries(store, u)
    BY <1>1 DEF SameEntries
  <1> QED
    BY <1>2 DEF t, u

\* A payload at the count, if all before it have one, keeps payloads in place,
\* and so does an operation without one that leaves the count or has no payloads.
LEMMA StaysInPlace ==
  ASSUME NEW store, LeavesInPlace(store), store.count \in Nat, NEW op,
         op.kind = "AppendLeaf" => op.at = store.count /\ (store.count = 0 \/ store.leaves # <<>>),
         store.leaves # <<>> => op.kind = "AppendLeaf" \/ CountAfter(store.count, op) = store.count
  PROVE  /\ LeavesInPlace(FjallWrite(store, op))
         /\ MemoryWrite(store, op) = FjallWrite(store, op)
  <1> DEFINE s == FjallWrite(store, op)
  <1>1. /\ s.count = CountAfter(store.count, op)
        /\ s.leaves = IF op.kind = "AppendLeaf" THEN Overlay(store.leaves, Entry(op.at, op.data))
                                                ELSE store.leaves
    BY DEF FjallWrite, Write
  <1>2. CASE op.kind # "AppendLeaf"
    <2>1. s.leaves = store.leaves
      BY <1>1, <1>2
    <2>2. LeavesInPlace(s)
      BY <1>1, <1>2, <2>1 DEF LeavesInPlace
    <2>3. MemoryWrite(store, op) = FjallWrite(store, op)
      BY <1>2 DEF MemoryWrite, FjallWrite, Write
    <2> QED
      BY <2>2, <2>3
  <1>3. CASE op.kind = "AppendLeaf"
    <2> DEFINE n == store.count
    <2>1. n \in Nat /\ DOMAIN store.leaves = 0..n - 1 /\ op.at = n
      <3>1. CASE store.leaves = <<>>
        <4>1. DOMAIN store.leaves = {}
          BY <3>1
        <4> QED
          BY <1>3, <3>1, <4>1
      <3>2. CASE store.leaves # <<>>
        BY <1>3, <3>2 DEF LeavesInPlace
      <3> QED
        BY <3>1, <3>2
    <2>2. s.count = n + 1
      BY <1>1, <1>3 DEF CountAfter, IsAppend
    <2>3. DOMAIN s.leaves = DOMAIN store.leaves \cup {n}
      BY <1>1, <1>3, <2>1 DEF Overlay, Entry
    <2>4. Cardinality(DOMAIN store.leaves) = n
      <3>1. CASE store.leaves = <<>>
        <4>1. DOMAIN store.leaves = {}
          BY <3>1
        <4> QED
          BY <1>3, <3>1, <4>1, FS_EmptySet
      <3>2. CASE store.leaves # <<>>
        BY <3>2, LengthsAlike
      <3> QED
        BY <3>1, <3>2
    <2>5. LeavesInPlace(s)
      <3> HIDE DEF n, s
      <3>1. DOMAIN s.leaves = 0..(n + 1) - 1 /\ n + 1 \in Nat \ {0}
        BY <2>1, <2>3
      <3> QED
        BY <2>2, <3>1 DEF LeavesInPlace
    <2>6. MemoryWrite(store, op) = FjallWrite(store, op)
      BY <2>1, <2>4 DEF MemoryWrite, FjallWrite
    <2> QED
      BY <2>5, <2>6
  <1> QED
    BY <1>2, <1>3

\* A batch of one that changes a store is the write of its operation.
LEMMA AppliedIfChanged ==
  ASSUME NEW store, NEW op
  PROVE  /\ MemoryApply(store, <<op>>) \in {store, MemoryWrite(store, op)}
         /\ FjallApply(store, <<op>>) \in {store, FjallWrite(store, op)}
         /\ GitApply(store, <<op>>) \in {store, ProjectEpochs(GitWrite(store, op))}
  BY MemoryWriteOnce, FjallWriteOnce, GitWriteOnce DEF MemoryApply, FjallApply, GitApply

-----------------------------------------------------------------------------
(* The log *)

\* The three stores of a log have the same entries.
StoresAlike ==
  /\ memory = fjall
  /\ LeavesInPlace(memory)
  /\ SameEntries(memory, git)
Alike == Inv /\ StoresMirrorTimeline /\ StoresAlike

\* What is asked of the stores is what there are paths for.
LEMMA AskedHavePaths == Positions \in SUBSET Keys /\ Asked \in SUBSET Nodes
  <1>1. Positions \in SUBSET Keys
    BY Places, KeyAssumption, TimelineAssumption DEF Positions, Keys
  <1>2. 0 \in Keys
    BY Places DEF Keys
  <1> QED
    BY <1>1, <1>2 DEF Asked, Nodes

\* A log that mirrors and has the same entries everywhere reads the same.
LEMMA AlikeReadsAlike == Alike => BackendsReadAlike
  <1> SUFFICES ASSUME Alike PROVE BackendsReadAlike
    OBVIOUS
  <1>1. memory = fjall /\ LeavesInPlace(memory) /\ SameEntries(memory, git)
        /\ git.count = memory.count /\ git.metas = memory.metas
    BY DEF Alike, StoresAlike, StoresMirrorTimeline, Mirrors
  <1> QED
    BY <1>1, AskedHavePaths, FjallReadsAlike, GitReadsAlike DEF BackendsReadAlike

\* An operation that a log commits, and the stores take, leaves them alike.
LEMMA CommitAlike ==
  ASSUME Alike, Inv', StoresMirrorTimeline', NEW op, Commit(op),
         count' # count \/ Recorded' # Recorded,
         op.kind = "AppendLeaf" => op.at = count /\ (count = 0 \/ HasLeaves),
         HasLeaves => op.kind = "AppendLeaf" \/ CountAfter(count, op) = count,
         DOMAIN op.nodes \subseteq Nodes
  PROVE  StoresAlike'
  <1>1. /\ memory.count = count /\ fjall.count = count /\ git.count = count
        /\ memory.metas = Recorded /\ fjall.metas = Recorded /\ git.metas = Recorded
    BY DEF Alike, StoresMirrorTimeline, Mirrors
  <1>2. /\ memory'.count = count' /\ fjall'.count = count' /\ git'.count = count'
        /\ memory'.metas = Recorded' /\ fjall'.metas = Recorded' /\ git'.metas = Recorded'
    BY DEF StoresMirrorTimeline, Mirrors
  <1>3. memory' # memory /\ fjall' # fjall /\ git' # git
    BY <1>1, <1>2
  <1>4. /\ memory' = MemoryWrite(memory, op)
        /\ fjall' = FjallWrite(fjall, op)
        /\ git' = ProjectEpochs(GitWrite(git, op))
    BY <1>3, AppliedIfChanged DEF Commit
  <1>5. count \in Nat /\ count \in Keys
    <2>1. count \in 0..MaxCount /\ MaxCount \in Nat
      BY TimelineAssumption DEF Alike, Inv, TypeOK
    <2>2. Place[8] \in Nat /\ MaxCount + 1 < Place[8]
      BY Places, KeyAssumption
    <2> QED
      BY <2>1, <2>2 DEF Keys
  <1>6. memory' = FjallWrite(memory, op) /\ LeavesInPlace(memory')
    BY <1>1, <1>4, <1>5, StaysInPlace DEF Alike, StoresAlike, HasLeaves
  <1>7. SameEntries(memory', git')
    BY <1>4, <1>5, <1>6, WritesAlike, ProjectionKeepsEntries DEF Alike, StoresAlike
  <1> QED
    BY <1>4, <1>6, <1>7 DEF Alike, StoresAlike

\* Each step of a log leaves its stores alike.
LEMMA StepAlike == Alike /\ [StoredNext]_storedVars => Alike'
  <1> SUFFICES ASSUME Alike, [StoredNext]_storedVars PROVE Alike'
    OBVIOUS
  <1>1. Inv' /\ StoresMirrorTimeline'
    BY Step DEF Alike
  <1>2. count \in Nat /\ count \in Keys /\ 0 \in Keys
    <2>1. count \in 0..MaxCount /\ MaxCount \in Nat
      BY TimelineAssumption DEF Alike, Inv, TypeOK
    <2> QED
      BY <2>1, Places, KeyAssumption DEF Keys
  <1>3. DOMAIN PositionNodes \subseteq Nodes
    <2>1. DOMAIN PositionNodes = {<<a, 0, count>> : a \in {b \in Algs : IsActive(epochs[b])}}
      BY DEF PositionNodes
    <2> QED
      BY <1>2, <2>1 DEF Nodes
  <1>4. DOMAIN <<>> \subseteq Nodes
    OBVIOUS
  <1>5. CASE StoredLeaf
    <2> DEFINE op == LeafOp(count, count, PositionNodes)
    <2>1. op.kind = "AppendLeaf" /\ op.at = count /\ op.nodes = PositionNodes
      BY DEF LeafOp, WriteOp
    <2>2. Commit(op) /\ count' = count + 1 /\ (count = 0 \/ HasLeaves)
      BY <1>5 DEF StoredLeaf, AppendPosition
    <2>3. count' # count
      BY <1>2, <2>2
    <2> HIDE DEF op
    <2> QED
      BY <1>1, <1>3, <2>1, <2>2, <2>3, CommitAlike DEF Alike
  <1>6. CASE StoredSubtree
    <2> DEFINE op == SubtreeOp(count, PositionNodes)
    <2>1. op.kind # "AppendLeaf" /\ op.nodes = PositionNodes
      BY DEF SubtreeOp, WriteOp
    <2>2. Commit(op) /\ count' = count + 1 /\ ~HasLeaves
      BY <1>6 DEF StoredSubtree, AppendPosition
    <2>3. count' # count
      BY <1>2, <2>2
    <2> HIDE DEF op
    <2> QED
      BY <1>1, <1>3, <2>1, <2>2, <2>3, CommitAlike DEF Alike
  <1>7. ASSUME NEW a \in Algs, StoredAdd(a) PROVE Alike'
    <2> DEFINE op == AddOp(a, epochs'[a])
    <2>1. op.kind = "AddAlgorithm" /\ op.nodes = <<>>
      BY DEF AddOp, WriteOp
    <2>2. Commit(op)
      BY <1>7 DEF StoredAdd
    <2>3. Recorded' # Recorded
      <3>1. epochs[a] = <<>> /\ epochs'[a] = <<<<count, Open>>>>
        BY <1>7 DEF StoredAdd, AddAlgorithm, Registered, Alike, Inv, TypeOK
      <3>2. a \in DOMAIN Recorded' /\ a \notin DOMAIN Recorded
        BY <3>1 DEF Recorded, Registered
      <3> QED
        BY <3>2
    <2>4. CountAfter(count, op) = count
      BY <2>1 DEF CountAfter, IsAppend, IsSeed
    <2> HIDE DEF op
    <2> QED
      BY <1>1, <1>4, <2>1, <2>2, <2>3, <2>4, CommitAlike DEF Alike
  <1>8. ASSUME NEW a \in Algs, StoredRemove(a) PROVE Alike'
    <2> DEFINE op == RemoveOp(a, epochs'[a])
    <2>1. op.kind = "RemoveAlgorithm" /\ op.nodes = <<>>
      BY DEF RemoveOp, WriteOp
    <2>2. Commit(op)
      BY <1>8 DEF StoredRemove
    <2>3. Recorded' # Recorded
      <3>1. epochs \in [Algs -> Seq(Interval)] /\ IsActive(epochs[a]) /\ RemoveAlgorithm(a)
        BY <1>8 DEF StoredRemove, RemoveAlgorithm, Alike, Inv, TypeOK
      <3>2. /\ epochs[a] \in Seq(Interval) /\ epochs[a] # <<>>
            /\ epochs[a][Len(epochs[a])][2] = Open
        BY <3>1 DEF IsActive, LastEpoch
      <3>3. epochs'[a] = [epochs[a] EXCEPT ![Len(epochs[a])][2] = count]
        BY <3>1 DEF RemoveAlgorithm
      <3>4. Len(epochs[a]) \in DOMAIN epochs[a] /\ epochs[a][Len(epochs[a])] \in Interval
        BY <3>2
      <3>5. epochs'[a][Len(epochs[a])][2] = count
        BY <3>3, <3>4 DEF Interval
      <3>6. count # Open
        BY TimelineAssumption, OpenAssumption DEF Alike, Inv, TypeOK
      <3>7. epochs'[a] # epochs[a]
        BY <3>2, <3>5, <3>6
      <3>8. epochs'[a] # <<>>
        BY <1>1, <3>2, <3>3 DEF Inv, TypeOK
      <3>9. a \in {b \in Algs : Registered(b)} /\ Recorded[a] = epochs[a] /\ Recorded'[a] = epochs'[a]
        BY <3>2, <3>8 DEF Recorded, Registered
      <3> QED
        BY <3>7, <3>9
    <2>4. CountAfter(count, op) = count
      BY <2>1 DEF CountAfter, IsAppend, IsSeed
    <2> HIDE DEF op
    <2> QED
      BY <1>1, <1>4, <2>1, <2>2, <2>3, <2>4, CommitAlike DEF Alike
  <1>9. ASSUME NEW a \in Algs, StoredResume(a) PROVE Alike'
    <2> DEFINE op == ResumeOp(a, epochs'[a], [k \in {<<a, 1, 0>>} |-> "mixed"])
    <2>1. op.kind = "ResumeAlgorithm" /\ op.nodes = [k \in {<<a, 1, 0>>} |-> "mixed"]
      BY DEF ResumeOp, WriteOp
    <2>2. DOMAIN op.nodes \subseteq Nodes
      BY <1>2, <2>1 DEF Nodes
    <2>3. Commit(op)
      BY <1>9 DEF StoredResume
    <2>4. Recorded' # Recorded
      <3>1. epochs \in [Algs -> Seq(Interval)] /\ epochs[a] # <<>> /\ ResumeAlgorithm(a)
        BY <1>9 DEF StoredResume, ResumeAlgorithm, Registered, Alike, Inv, TypeOK
      <3>2. epochs'[a] = Append(epochs[a], <<count, Open>>) /\ epochs[a] \in Seq(Interval)
        BY <3>1 DEF ResumeAlgorithm
      <3>3. <<count, Open>> \in Interval
        BY <1>2, OpenAssumption DEF Interval
      <3>4. epochs'[a] # epochs[a] /\ epochs'[a] # <<>>
        BY <3>2, <3>3
      <3>5. Recorded[a] = epochs[a] /\ Recorded'[a] = epochs'[a]
        BY <3>1, <3>4 DEF Recorded, Registered
      <3> QED
        BY <3>4, <3>5
    <2>5. CountAfter(count, op) = count
      BY <2>1 DEF CountAfter, IsAppend, IsSeed
    <2> HIDE DEF op
    <2> QED
      BY <1>1, <2>1, <2>2, <2>3, <2>4, <2>5, CommitAlike DEF Alike
  <1>10. CASE UNCHANGED stores
    BY <1>1, <1>10 DEF Alike, StoresAlike, stores
  <1> QED
    BY <1>1, <1>5, <1>6, <1>7, <1>8, <1>9, <1>10 DEF StoredNext, Alike, storedVars

\* The empty stores have the same entries.
LEMMA EmptyAlike == LeavesInPlace(EmptyStore) /\ SameEntries(EmptyStore, EmptyStore)
  <1>1. EmptyStore.leaves = <<>> /\ EmptyStore.nodes = <<>> /\ DOMAIN <<>> = {}
    BY DEF EmptyStore
  <1> QED
    BY <1>1 DEF LeavesInPlace, SameEntries, LeafTree, NodeTree

\* The first operation leaves them so.
LEMMA FirstAlike ==
  ASSUME Inv, StoresMirrorTimeline, NEW op,
         memory = MemoryApply(EmptyStore, <<op>>),
         fjall = FjallApply(EmptyStore, <<op>>),
         git = GitApply(EmptyStore, <<op>>),
         count # 0 \/ Recorded # <<>>,
         op.kind # "AppendLeaf", DOMAIN op.nodes \subseteq Nodes
  PROVE  Alike
  <1>1. EmptyStore.count = 0 /\ EmptyStore.metas = <<>> /\ EmptyStore.leaves = <<>>
    BY DEF EmptyStore
  <1>2. memory # EmptyStore /\ fjall # EmptyStore /\ git # EmptyStore
    BY <1>1 DEF StoresMirrorTimeline, Mirrors
  <1>3. /\ memory = MemoryWrite(EmptyStore, op)
        /\ fjall = FjallWrite(EmptyStore, op)
        /\ git = ProjectEpochs(GitWrite(EmptyStore, op))
    BY <1>2, AppliedIfChanged
  <1>4. memory = FjallWrite(EmptyStore, op) /\ LeavesInPlace(memory)
    BY <1>1, <1>3, EmptyAlike, StaysInPlace
  <1>5. SameEntries(memory, git)
    BY <1>3, <1>4, EmptyAlike, WritesAlike, ProjectionKeepsEntries
  <1> QED
    BY <1>3, <1>4, <1>5 DEF Alike, StoresAlike

LEMMA InitAlike == NewLog \/ ResumedLog => Alike
  <1>1. ASSUME NewLog PROVE Alike
    <2> DEFINE op == AddOp(Genesis, <<<<0, Open>>>>)
    <2>1. op.kind = "AddAlgorithm" /\ op.nodes = <<>>
      BY DEF AddOp, WriteOp
    <2>2. memory = MemoryApply(EmptyStore, <<op>>) /\ fjall = FjallApply(EmptyStore, <<op>>)
          /\ git = GitApply(EmptyStore, <<op>>) /\ Init
      BY <1>1 DEF NewLog
    <2>3. Recorded # <<>>
      <3>1. Genesis \in DOMAIN Recorded
        BY <2>2, TimelineAssumption DEF Init, Recorded, Registered
      <3>2. DOMAIN <<>> = {}
        OBVIOUS
      <3> QED
        BY <3>1, <3>2
    <2>4. DOMAIN op.nodes \subseteq Nodes
      BY <2>1
    <2> HIDE DEF op
    <2> QED
      BY <1>1, <2>1, <2>2, <2>3, <2>4, NewMirrors, FirstAlike
  <1>2. ASSUME ResumedLog PROVE Alike
    <2>1. PICK n \in 1..MaxCount, kept \in SUBSET Algs :
            \E timeline \in [kept -> SealedTimelines(n)] : \E order \in SetToSeqs(kept) :
              ResumedFrom(n, kept, timeline, order)
      BY <1>2 DEF ResumedLog
    <2>2. PICK timeline \in [kept -> SealedTimelines(n)], order \in SetToSeqs(kept) :
            ResumedFrom(n, kept, timeline, order)
      BY <2>1
    <2> DEFINE peaks == [k \in {<<a, 1, 0>> : a \in kept} |-> "peak"]
               op == SeedOp(n, [i \in DOMAIN order |-> <<order[i], timeline[order[i]]>>], peaks)
    <2>3. op.kind = "SeedFrontier" /\ op.nodes = peaks
      BY DEF SeedOp, WriteOp
    <2>4. memory = MemoryApply(EmptyStore, <<op>>) /\ fjall = FjallApply(EmptyStore, <<op>>)
          /\ git = GitApply(EmptyStore, <<op>>) /\ count = n
      BY <2>2 DEF ResumedFrom
    <2>5. DOMAIN peaks \subseteq Nodes
      <3>1. 0 \in Keys
        BY Places DEF Keys
      <3> QED
        BY <3>1 DEF Nodes
    <2>6. count # 0
      BY <2>4
    <2> HIDE DEF op, peaks
    <2> QED
      BY <1>2, <2>3, <2>4, <2>5, <2>6, ResumedMirrors, FirstAlike
  <1> QED
    BY <1>1, <1>2

\* Whatever a log does after it was opened on an empty store or resumed from a
\* seal, append_count, load_algorithm_metas, len, get_leaf and get_node answer
\* the same whether memory, fjall or git is under it.
THEOREM LogsReadAlike == StoredSpec => []BackendsReadAlike
  BY InitAlike, StepAlike, AlikeReadsAlike, PTL DEF StoredSpec

-----------------------------------------------------------------------------
(* What folds of a batch of two operations come to *)

\* The sets a fold over two elements goes through.
LEMMA TwoElements ==
  /\ SUBSET {1, 2} = {{}, {1}, {2}, {1, 2}}
  /\ Max({1}) = 1 /\ Max({2}) = 2 /\ Max({1, 2}) = 2
  /\ {1} \ {1} = {} /\ {2} \ {2} = {} /\ {1, 2} \ {2} = {1}
  /\ {1} # {} /\ {2} # {} /\ {1, 2} # {} /\ {2} # {1} /\ {1, 2} # {1} /\ {1, 2} # {2}
  /\ \A x, y : DOMAIN <<x, y>> = {1, 2} /\ <<x, y>>[1] = x /\ <<x, y>>[2] = y
  <1>1. Max({1}) = 1 /\ Max({2}) = 2 /\ Max({1, 2}) = 2
    <2>1. Max({2}) = 2
      BY DEF Max
    <2>2. Max({1, 2}) = 2
      <3>1. \A x \in {1, 2} : (\A y \in {1, 2} : x >= y) <=> x = 2
        OBVIOUS
      <3> QED
        BY <3>1 DEF Max
    <2> QED
      BY <2>1, <2>2, OneElement
  <1>2. SUBSET {1, 2} = {{}, {1}, {2}, {1, 2}}
    <2>1. ASSUME NEW s \in SUBSET {1, 2} PROVE s \in {{}, {1}, {2}, {1, 2}}
      <3>1. CASE 1 \in s /\ 2 \in s
        BY <3>1
      <3>2. CASE 1 \in s /\ 2 \notin s
        BY <3>2
      <3>3. CASE 1 \notin s /\ 2 \in s
        BY <3>3
      <3>4. CASE 1 \notin s /\ 2 \notin s
        BY <3>4
      <3> QED
        BY <3>1, <3>2, <3>3, <3>4
    <2> QED
      BY <2>1
  <1>3. {1} \ {1} = {} /\ {2} \ {2} = {} /\ {1, 2} \ {2} = {1}
    OBVIOUS
  <1>4. {1} # {} /\ {2} # {} /\ {1, 2} # {} /\ {2} # {1} /\ {1, 2} # {1} /\ {1, 2} # {2}
    OBVIOUS
  <1>5. \A x, y : DOMAIN <<x, y>> = {1, 2} /\ <<x, y>>[1] = x /\ <<x, y>>[2] = y
    OBVIOUS
  <1> QED
    BY <1>1, <1>2, <1>3, <1>4, <1>5

\* The checks of a batch, and its writes.
MemoryProjects(base, ops) == FoldLeft(MemoryProject, base, ops)
FjallProjects(base, ops) == FoldLeft(FjallProject, base, ops)
GitProjects(base, ops) == FoldLeft(GitProject, base, ops)
MemoryWrites(base, ops) == FoldLeft(MemoryWrite, base, ops)
FjallWrites(base, ops) == FoldLeft(FjallWrite, base, ops)
GitWrites(base, ops) == FoldLeft(GitWrite, base, ops)

LEMMA MemoryProjectTwice ==
  ASSUME NEW base, NEW x, NEW y
  PROVE  MemoryProjects(base, <<x, y>>) = MemoryProject(MemoryProject(base, x), y)
  <1> DEFINE ops == <<x, y>>
             value(f, s) == IF s = {} THEN base ELSE MemoryProject(f[s \ {Max(s)}], ops[Max(s)])
             step(f) == [s \in SUBSET {1, 2} |-> value(f, s)]
             fold == [s \in SUBSET {1, 2} |->
                        IF s = {} THEN base
                        ELSE IF s = {1} THEN MemoryProject(base, x)
                        ELSE IF s = {2} THEN MemoryProject(base, y)
                        ELSE MemoryProject(MemoryProject(base, x), y)]
  <1>1. MemoryProjects(base, ops) = (CHOOSE f : f = step(f))[{1, 2}]
    BY TwoElements DEF MemoryProjects, FoldLeft, MapThenFoldSet
  <1>2. ASSUME NEW f
        PROVE  /\ value(f, {}) = base /\ value(f, {1}) = MemoryProject(f[{}], x)
               /\ value(f, {2}) = MemoryProject(f[{}], y)
               /\ value(f, {1, 2}) = MemoryProject(f[{1}], y)
    <2>1. ops[1] = x /\ ops[2] = y
      OBVIOUS
    <2>2. value(f, {}) = base
      OBVIOUS
    <2>3. value(f, {1}) = MemoryProject(f[{}], x)
      BY <2>1, TwoElements
    <2>4. value(f, {2}) = MemoryProject(f[{}], y)
      BY <2>1, TwoElements
    <2>5. value(f, {1, 2}) = MemoryProject(f[{1}], y)
      BY <2>1, TwoElements
    <2> QED
      BY <2>2, <2>3, <2>4, <2>5
  <1> HIDE DEF value
  <1>3. fold = step(fold)
    <2>1. /\ fold[{}] = base /\ fold[{1}] = MemoryProject(base, x)
          /\ fold[{2}] = MemoryProject(base, y)
          /\ fold[{1, 2}] = MemoryProject(MemoryProject(base, x), y)
      BY TwoElements
    <2>2. ASSUME NEW s \in SUBSET {1, 2} PROVE fold[s] = value(fold, s)
      <3> HIDE DEF fold
      <3> QED
        BY <1>2, <2>1, TwoElements
    <2> QED
      BY <2>2
  <1>4. ASSUME NEW f, f = step(f) PROVE f[{1, 2}] = MemoryProject(MemoryProject(base, x), y)
    <2>1. /\ f[{}] = value(f, {}) /\ f[{1}] = value(f, {1})
          /\ f[{1, 2}] = value(f, {1, 2})
      BY <1>4, TwoElements
    <2> QED
      BY <2>1, <1>2
  <1> HIDE DEF step, fold
  <1>5. (CHOOSE f : f = step(f)) = step(CHOOSE f : f = step(f))
    BY <1>3
  <1> QED
    BY <1>1, <1>4, <1>5

LEMMA FjallProjectTwice ==
  ASSUME NEW base, NEW x, NEW y
  PROVE  FjallProjects(base, <<x, y>>) = FjallProject(FjallProject(base, x), y)
  <1> DEFINE ops == <<x, y>>
             value(f, s) == IF s = {} THEN base ELSE FjallProject(f[s \ {Max(s)}], ops[Max(s)])
             step(f) == [s \in SUBSET {1, 2} |-> value(f, s)]
             fold == [s \in SUBSET {1, 2} |->
                        IF s = {} THEN base
                        ELSE IF s = {1} THEN FjallProject(base, x)
                        ELSE IF s = {2} THEN FjallProject(base, y)
                        ELSE FjallProject(FjallProject(base, x), y)]
  <1>1. FjallProjects(base, ops) = (CHOOSE f : f = step(f))[{1, 2}]
    BY TwoElements DEF FjallProjects, FoldLeft, MapThenFoldSet
  <1>2. ASSUME NEW f
        PROVE  /\ value(f, {}) = base /\ value(f, {1}) = FjallProject(f[{}], x)
               /\ value(f, {2}) = FjallProject(f[{}], y)
               /\ value(f, {1, 2}) = FjallProject(f[{1}], y)
    <2>1. ops[1] = x /\ ops[2] = y
      OBVIOUS
    <2>2. value(f, {}) = base
      OBVIOUS
    <2>3. value(f, {1}) = FjallProject(f[{}], x)
      BY <2>1, TwoElements
    <2>4. value(f, {2}) = FjallProject(f[{}], y)
      BY <2>1, TwoElements
    <2>5. value(f, {1, 2}) = FjallProject(f[{1}], y)
      BY <2>1, TwoElements
    <2> QED
      BY <2>2, <2>3, <2>4, <2>5
  <1> HIDE DEF value
  <1>3. fold = step(fold)
    <2>1. /\ fold[{}] = base /\ fold[{1}] = FjallProject(base, x)
          /\ fold[{2}] = FjallProject(base, y)
          /\ fold[{1, 2}] = FjallProject(FjallProject(base, x), y)
      BY TwoElements
    <2>2. ASSUME NEW s \in SUBSET {1, 2} PROVE fold[s] = value(fold, s)
      <3> HIDE DEF fold
      <3> QED
        BY <1>2, <2>1, TwoElements
    <2> QED
      BY <2>2
  <1>4. ASSUME NEW f, f = step(f) PROVE f[{1, 2}] = FjallProject(FjallProject(base, x), y)
    <2>1. /\ f[{}] = value(f, {}) /\ f[{1}] = value(f, {1})
          /\ f[{1, 2}] = value(f, {1, 2})
      BY <1>4, TwoElements
    <2> QED
      BY <2>1, <1>2
  <1> HIDE DEF step, fold
  <1>5. (CHOOSE f : f = step(f)) = step(CHOOSE f : f = step(f))
    BY <1>3
  <1> QED
    BY <1>1, <1>4, <1>5

LEMMA GitProjectTwice ==
  ASSUME NEW base, NEW x, NEW y
  PROVE  GitProjects(base, <<x, y>>) = GitProject(GitProject(base, x), y)
  <1> DEFINE ops == <<x, y>>
             value(f, s) == IF s = {} THEN base ELSE GitProject(f[s \ {Max(s)}], ops[Max(s)])
             step(f) == [s \in SUBSET {1, 2} |-> value(f, s)]
             fold == [s \in SUBSET {1, 2} |->
                        IF s = {} THEN base
                        ELSE IF s = {1} THEN GitProject(base, x)
                        ELSE IF s = {2} THEN GitProject(base, y)
                        ELSE GitProject(GitProject(base, x), y)]
  <1>1. GitProjects(base, ops) = (CHOOSE f : f = step(f))[{1, 2}]
    BY TwoElements DEF GitProjects, FoldLeft, MapThenFoldSet
  <1>2. ASSUME NEW f
        PROVE  /\ value(f, {}) = base /\ value(f, {1}) = GitProject(f[{}], x)
               /\ value(f, {2}) = GitProject(f[{}], y)
               /\ value(f, {1, 2}) = GitProject(f[{1}], y)
    <2>1. ops[1] = x /\ ops[2] = y
      OBVIOUS
    <2>2. value(f, {}) = base
      OBVIOUS
    <2>3. value(f, {1}) = GitProject(f[{}], x)
      BY <2>1, TwoElements
    <2>4. value(f, {2}) = GitProject(f[{}], y)
      BY <2>1, TwoElements
    <2>5. value(f, {1, 2}) = GitProject(f[{1}], y)
      BY <2>1, TwoElements
    <2> QED
      BY <2>2, <2>3, <2>4, <2>5
  <1> HIDE DEF value
  <1>3. fold = step(fold)
    <2>1. /\ fold[{}] = base /\ fold[{1}] = GitProject(base, x)
          /\ fold[{2}] = GitProject(base, y)
          /\ fold[{1, 2}] = GitProject(GitProject(base, x), y)
      BY TwoElements
    <2>2. ASSUME NEW s \in SUBSET {1, 2} PROVE fold[s] = value(fold, s)
      <3> HIDE DEF fold
      <3> QED
        BY <1>2, <2>1, TwoElements
    <2> QED
      BY <2>2
  <1>4. ASSUME NEW f, f = step(f) PROVE f[{1, 2}] = GitProject(GitProject(base, x), y)
    <2>1. /\ f[{}] = value(f, {}) /\ f[{1}] = value(f, {1})
          /\ f[{1, 2}] = value(f, {1, 2})
      BY <1>4, TwoElements
    <2> QED
      BY <2>1, <1>2
  <1> HIDE DEF step, fold
  <1>5. (CHOOSE f : f = step(f)) = step(CHOOSE f : f = step(f))
    BY <1>3
  <1> QED
    BY <1>1, <1>4, <1>5

LEMMA MemoryWriteTwice ==
  ASSUME NEW base, NEW x, NEW y
  PROVE  MemoryWrites(base, <<x, y>>) = MemoryWrite(MemoryWrite(base, x), y)
  <1> DEFINE ops == <<x, y>>
             value(f, s) == IF s = {} THEN base ELSE MemoryWrite(f[s \ {Max(s)}], ops[Max(s)])
             step(f) == [s \in SUBSET {1, 2} |-> value(f, s)]
             fold == [s \in SUBSET {1, 2} |->
                        IF s = {} THEN base
                        ELSE IF s = {1} THEN MemoryWrite(base, x)
                        ELSE IF s = {2} THEN MemoryWrite(base, y)
                        ELSE MemoryWrite(MemoryWrite(base, x), y)]
  <1>1. MemoryWrites(base, ops) = (CHOOSE f : f = step(f))[{1, 2}]
    BY TwoElements DEF MemoryWrites, FoldLeft, MapThenFoldSet
  <1>2. ASSUME NEW f
        PROVE  /\ value(f, {}) = base /\ value(f, {1}) = MemoryWrite(f[{}], x)
               /\ value(f, {2}) = MemoryWrite(f[{}], y)
               /\ value(f, {1, 2}) = MemoryWrite(f[{1}], y)
    <2>1. ops[1] = x /\ ops[2] = y
      OBVIOUS
    <2>2. value(f, {}) = base
      OBVIOUS
    <2>3. value(f, {1}) = MemoryWrite(f[{}], x)
      BY <2>1, TwoElements
    <2>4. value(f, {2}) = MemoryWrite(f[{}], y)
      BY <2>1, TwoElements
    <2>5. value(f, {1, 2}) = MemoryWrite(f[{1}], y)
      BY <2>1, TwoElements
    <2> QED
      BY <2>2, <2>3, <2>4, <2>5
  <1> HIDE DEF value
  <1>3. fold = step(fold)
    <2>1. /\ fold[{}] = base /\ fold[{1}] = MemoryWrite(base, x)
          /\ fold[{2}] = MemoryWrite(base, y)
          /\ fold[{1, 2}] = MemoryWrite(MemoryWrite(base, x), y)
      BY TwoElements
    <2>2. ASSUME NEW s \in SUBSET {1, 2} PROVE fold[s] = value(fold, s)
      <3> HIDE DEF fold
      <3> QED
        BY <1>2, <2>1, TwoElements
    <2> QED
      BY <2>2
  <1>4. ASSUME NEW f, f = step(f) PROVE f[{1, 2}] = MemoryWrite(MemoryWrite(base, x), y)
    <2>1. /\ f[{}] = value(f, {}) /\ f[{1}] = value(f, {1})
          /\ f[{1, 2}] = value(f, {1, 2})
      BY <1>4, TwoElements
    <2> QED
      BY <2>1, <1>2
  <1> HIDE DEF step, fold
  <1>5. (CHOOSE f : f = step(f)) = step(CHOOSE f : f = step(f))
    BY <1>3
  <1> QED
    BY <1>1, <1>4, <1>5

LEMMA FjallWriteTwice ==
  ASSUME NEW base, NEW x, NEW y
  PROVE  FjallWrites(base, <<x, y>>) = FjallWrite(FjallWrite(base, x), y)
  <1> DEFINE ops == <<x, y>>
             value(f, s) == IF s = {} THEN base ELSE FjallWrite(f[s \ {Max(s)}], ops[Max(s)])
             step(f) == [s \in SUBSET {1, 2} |-> value(f, s)]
             fold == [s \in SUBSET {1, 2} |->
                        IF s = {} THEN base
                        ELSE IF s = {1} THEN FjallWrite(base, x)
                        ELSE IF s = {2} THEN FjallWrite(base, y)
                        ELSE FjallWrite(FjallWrite(base, x), y)]
  <1>1. FjallWrites(base, ops) = (CHOOSE f : f = step(f))[{1, 2}]
    BY TwoElements DEF FjallWrites, FoldLeft, MapThenFoldSet
  <1>2. ASSUME NEW f
        PROVE  /\ value(f, {}) = base /\ value(f, {1}) = FjallWrite(f[{}], x)
               /\ value(f, {2}) = FjallWrite(f[{}], y)
               /\ value(f, {1, 2}) = FjallWrite(f[{1}], y)
    <2>1. ops[1] = x /\ ops[2] = y
      OBVIOUS
    <2>2. value(f, {}) = base
      OBVIOUS
    <2>3. value(f, {1}) = FjallWrite(f[{}], x)
      BY <2>1, TwoElements
    <2>4. value(f, {2}) = FjallWrite(f[{}], y)
      BY <2>1, TwoElements
    <2>5. value(f, {1, 2}) = FjallWrite(f[{1}], y)
      BY <2>1, TwoElements
    <2> QED
      BY <2>2, <2>3, <2>4, <2>5
  <1> HIDE DEF value
  <1>3. fold = step(fold)
    <2>1. /\ fold[{}] = base /\ fold[{1}] = FjallWrite(base, x)
          /\ fold[{2}] = FjallWrite(base, y)
          /\ fold[{1, 2}] = FjallWrite(FjallWrite(base, x), y)
      BY TwoElements
    <2>2. ASSUME NEW s \in SUBSET {1, 2} PROVE fold[s] = value(fold, s)
      <3> HIDE DEF fold
      <3> QED
        BY <1>2, <2>1, TwoElements
    <2> QED
      BY <2>2
  <1>4. ASSUME NEW f, f = step(f) PROVE f[{1, 2}] = FjallWrite(FjallWrite(base, x), y)
    <2>1. /\ f[{}] = value(f, {}) /\ f[{1}] = value(f, {1})
          /\ f[{1, 2}] = value(f, {1, 2})
      BY <1>4, TwoElements
    <2> QED
      BY <2>1, <1>2
  <1> HIDE DEF step, fold
  <1>5. (CHOOSE f : f = step(f)) = step(CHOOSE f : f = step(f))
    BY <1>3
  <1> QED
    BY <1>1, <1>4, <1>5

LEMMA GitWriteTwice ==
  ASSUME NEW base, NEW x, NEW y
  PROVE  GitWrites(base, <<x, y>>) = GitWrite(GitWrite(base, x), y)
  <1> DEFINE ops == <<x, y>>
             value(f, s) == IF s = {} THEN base ELSE GitWrite(f[s \ {Max(s)}], ops[Max(s)])
             step(f) == [s \in SUBSET {1, 2} |-> value(f, s)]
             fold == [s \in SUBSET {1, 2} |->
                        IF s = {} THEN base
                        ELSE IF s = {1} THEN GitWrite(base, x)
                        ELSE IF s = {2} THEN GitWrite(base, y)
                        ELSE GitWrite(GitWrite(base, x), y)]
  <1>1. GitWrites(base, ops) = (CHOOSE f : f = step(f))[{1, 2}]
    BY TwoElements DEF GitWrites, FoldLeft, MapThenFoldSet
  <1>2. ASSUME NEW f
        PROVE  /\ value(f, {}) = base /\ value(f, {1}) = GitWrite(f[{}], x)
               /\ value(f, {2}) = GitWrite(f[{}], y)
               /\ value(f, {1, 2}) = GitWrite(f[{1}], y)
    <2>1. ops[1] = x /\ ops[2] = y
      OBVIOUS
    <2>2. value(f, {}) = base
      OBVIOUS
    <2>3. value(f, {1}) = GitWrite(f[{}], x)
      BY <2>1, TwoElements
    <2>4. value(f, {2}) = GitWrite(f[{}], y)
      BY <2>1, TwoElements
    <2>5. value(f, {1, 2}) = GitWrite(f[{1}], y)
      BY <2>1, TwoElements
    <2> QED
      BY <2>2, <2>3, <2>4, <2>5
  <1> HIDE DEF value
  <1>3. fold = step(fold)
    <2>1. /\ fold[{}] = base /\ fold[{1}] = GitWrite(base, x)
          /\ fold[{2}] = GitWrite(base, y)
          /\ fold[{1, 2}] = GitWrite(GitWrite(base, x), y)
      BY TwoElements
    <2>2. ASSUME NEW s \in SUBSET {1, 2} PROVE fold[s] = value(fold, s)
      <3> HIDE DEF fold
      <3> QED
        BY <1>2, <2>1, TwoElements
    <2> QED
      BY <2>2
  <1>4. ASSUME NEW f, f = step(f) PROVE f[{1, 2}] = GitWrite(GitWrite(base, x), y)
    <2>1. /\ f[{}] = value(f, {}) /\ f[{1}] = value(f, {1})
          /\ f[{1, 2}] = value(f, {1, 2})
      BY <1>4, TwoElements
    <2> QED
      BY <2>1, <1>2
  <1> HIDE DEF step, fold
  <1>5. (CHOOSE f : f = step(f)) = step(CHOOSE f : f = step(f))
    BY <1>3
  <1> QED
    BY <1>1, <1>4, <1>5

-----------------------------------------------------------------------------
(* What is accepted *)

\* Memory and git ask whether an operation is refused by the store the earlier
\* ones leave; fjall, whether it would be but for a seed.
Takes(store, op) == ~Refused(op, store.count, DOMAIN store.metas)
TakesLoosely(store, op) == ~RefusedUnlessSeed(op, store.count, DOMAIN store.metas)

\* The running projection of memory and git is the store that fjall writes.
LEMMA ProjectsTheWrite ==
  ASSUME NEW p, NEW s, NEW op, p.count = s.count, p.known = DOMAIN s.metas
  PROVE  /\ MemoryProject(p, op).ok <=> p.ok /\ Takes(s, op)
         /\ MemoryProject(p, op).count = FjallWrite(s, op).count
         /\ MemoryProject(p, op).known = DOMAIN FjallWrite(s, op).metas
         /\ GitProject(p, op) = MemoryProject(p, op)
  <1>1. DOMAIN NamedEpochs(op) = Named(op)
    BY DEF NamedEpochs
  <1>2. DOMAIN FjallWrite(s, op).metas = DOMAIN s.metas \cup Named(op)
    BY <1>1 DEF FjallWrite, Write, Overlay
  <1>3. FjallWrite(s, op).count = CountAfter(s.count, op)
    BY DEF FjallWrite, Write
  <1> QED
    BY <1>2, <1>3 DEF MemoryProject, GitProject, Takes

LEMMA MemoryAcceptance ==
  ASSUME NEW s, NEW x, NEW y
  PROVE  /\ MemoryAccepts(s, <<x>>) <=> Takes(s, x)
         /\ MemoryAccepts(s, <<x, y>>) <=> Takes(s, x) /\ Takes(FjallWrite(s, x), y)
         /\ GitProjects(Start(s), <<x>>).ok <=> Takes(s, x)
         /\ GitProjects(Start(s), <<x, y>>).ok <=> Takes(s, x) /\ Takes(FjallWrite(s, x), y)
  <1>1. Start(s).ok /\ Start(s).count = s.count /\ Start(s).known = DOMAIN s.metas
    BY DEF Start
  <1> DEFINE p == MemoryProject(Start(s), x)
  <1>2. /\ p.ok <=> Takes(s, x)
        /\ p.count = FjallWrite(s, x).count /\ p.known = DOMAIN FjallWrite(s, x).metas
        /\ GitProject(Start(s), x) = p
    BY <1>1, ProjectsTheWrite
  <1> HIDE DEF p
  <1>3. /\ MemoryProject(p, y).ok <=> p.ok /\ Takes(FjallWrite(s, x), y)
        /\ GitProject(p, y) = MemoryProject(p, y)
    BY <1>2, ProjectsTheWrite
  <1>4. /\ MemoryProjects(Start(s), <<x>>) = p
        /\ MemoryProjects(Start(s), <<x, y>>) = MemoryProject(p, y)
        /\ GitProjects(Start(s), <<x>>) = p
        /\ GitProjects(Start(s), <<x, y>>) = MemoryProject(p, y)
    <2>1. MemoryProjects(Start(s), <<x>>) = MemoryProject(Start(s), x)
      BY MemoryProjectOnce DEF MemoryProjects
    <2>2. MemoryProjects(Start(s), <<x, y>>) = MemoryProject(MemoryProject(Start(s), x), y)
      BY MemoryProjectTwice
    <2>3. GitProjects(Start(s), <<x>>) = GitProject(Start(s), x)
      BY GitProjectOnce DEF GitProjects
    <2>4. GitProjects(Start(s), <<x, y>>) = GitProject(GitProject(Start(s), x), y)
      BY GitProjectTwice
    <2> QED
      BY <1>2, <1>3, <2>1, <2>2, <2>3, <2>4 DEF p
  <1>5. /\ MemoryAccepts(s, <<x>>) <=> p.ok
        /\ MemoryAccepts(s, <<x, y>>) <=> MemoryProject(p, y).ok
    BY <1>4 DEF MemoryAccepts, MemoryProjects
  <1>6. MemoryProject(p, y).ok <=> Takes(s, x) /\ Takes(FjallWrite(s, x), y)
    BY <1>2, <1>3
  <1> QED
    BY <1>2, <1>4, <1>5, <1>6

\* What git's tree is after a batch, before it projects the intervals.
LEMMA GitAcceptance ==
  ASSUME NEW g, NEW ops
  PROVE  LET written == ProjectEpochs(GitWrites(g, ops))
         IN  /\ GitAccepts(g, ops) <=> /\ GitProjects(Start(g), ops).ok
                                       /\ \A a \in DOMAIN written.metas : written.metas[a] # <<>>
             /\ GitAccepts(g, ops) => GitApply(g, ops) = written
             /\ ~GitAccepts(g, ops) => GitApply(g, ops) = g
  BY DEF GitAccepts, GitApply, GitWrites, GitProjects

LEMMA FjallAcceptance ==
  ASSUME NEW s, NEW x, NEW y
  PROVE  LET n == IF IsAppend(x) THEN s.count + 1 ELSE s.count
         IN  /\ FjallAccepts(s, <<x>>) <=> TakesLoosely(s, x)
             /\ FjallAccepts(s, <<x, y>>) <=> /\ TakesLoosely(s, x)
                                              /\ ~RefusedUnlessSeed(y, n, DOMAIN s.metas)
  <1> DEFINE n == IF IsAppend(x) THEN s.count + 1 ELSE s.count
             p == FjallProject(Start(s), x)
  <1>1. ASSUME NEW ok, NEW c, NEW k, NEW op
        PROVE  FjallProject([ok |-> ok, count |-> c, known |-> k], op)
                 = [ok    |-> ok /\ ~RefusedUnlessSeed(op, c, k),
                    count |-> IF IsAppend(op) THEN c + 1 ELSE c, known |-> k]
    <2> DEFINE old == [ok |-> ok, count |-> c, known |-> k]
    <2>1. old.ok = ok /\ old.count = c /\ old.known = k
      OBVIOUS
    <2>2. FjallProject(old, op)
            = [old EXCEPT !.ok = ok /\ ~RefusedUnlessSeed(op, c, k),
                          !.count = IF IsAppend(op) THEN c + 1 ELSE c]
      BY <2>1 DEF FjallProject
    <2> QED
      BY <2>2
  <1>2. Start(s) = [ok |-> TRUE, count |-> s.count, known |-> DOMAIN s.metas]
    BY DEF Start
  <1>3. p = [ok |-> TRUE /\ TakesLoosely(s, x), count |-> n, known |-> DOMAIN s.metas]
    BY <1>1, <1>2 DEF TakesLoosely
  <1>4. FjallProject(p, y).ok = (p.ok /\ ~RefusedUnlessSeed(y, n, DOMAIN s.metas))
    <2> DEFINE ok == TRUE /\ TakesLoosely(s, x)
    <2>1. p = [ok |-> ok, count |-> n, known |-> DOMAIN s.metas] /\ p.ok = ok
      BY <1>3
    <2> HIDE DEF ok, p, n
    <2>2. FjallProject(p, y)
            = [ok    |-> ok /\ ~RefusedUnlessSeed(y, n, DOMAIN s.metas),
               count |-> IF IsAppend(y) THEN n + 1 ELSE n, known |-> DOMAIN s.metas]
      BY <1>1, <2>1
    <2> QED
      BY <2>1, <2>2
  <1>5. p.ok = (TRUE /\ TakesLoosely(s, x))
    BY <1>3
  <1> HIDE DEF p, n
  <1>6. FjallProjects(Start(s), <<x>>) = p
        /\ FjallProjects(Start(s), <<x, y>>) = FjallProject(p, y)
    <2>1. FjallProjects(Start(s), <<x>>) = FjallProject(Start(s), x)
      BY FjallProjectOnce DEF FjallProjects
    <2>2. FjallProjects(Start(s), <<x, y>>) = FjallProject(FjallProject(Start(s), x), y)
      BY FjallProjectTwice
    <2> QED
      BY <2>1, <2>2 DEF p
  <1>7. /\ FjallAccepts(s, <<x>>) <=> p.ok
        /\ FjallAccepts(s, <<x, y>>) <=> FjallProject(p, y).ok
    BY <1>6 DEF FjallAccepts, FjallProjects
  <1> QED
    BY <1>4, <1>5, <1>7 DEF n

-----------------------------------------------------------------------------
(* The operations of a batch *)

\* There are more than four keys.
LEMMA FirstKeys == \A i \in 0..3 : i \in Keys
  <1>1. ByteValues \in Nat /\ ByteValues >= 2
    BY ByteAssumption
  <1>2. \A b, p \in Nat : b >= 2 /\ p >= 1 => b * p >= p + 1
    OBVIOUS
  <1>3. \A i \in 0..7 : Place[i + 1] >= Place[i] + 1 /\ Place[i] \in Nat
    BY <1>1, <1>2, Places
  <1>4. Place[1] >= 2 /\ Place[2] >= 3 /\ Place[3] >= 4 /\ Place[4] >= 4
    BY <1>3, Places
  <1>5. Place[5] >= 4 /\ Place[6] >= 4 /\ Place[7] >= 4 /\ Place[8] >= 4
    BY <1>3, <1>4, Places
  <1> QED
    BY <1>5, Places DEF Keys

LEMMA OperationShape ==
  ASSUME NEW n \in Nat, n \in Keys, n + 1 \in Keys, NEW op \in Operations(n)
  PROVE  /\ op.kind = "AppendLeaf" => op.at \in Keys
         /\ DOMAIN op.nodes \subseteq Nodes
         /\ DOMAIN NamedEpochs(op) = Named(op)
         /\ \A a \in Named(op) : NamedEpochs(op)[a] # <<>>
         /\ IsAppend(op) => Named(op) = {}
         /\ IsSeed(op) => op.at \in {1, 2}
         /\ \/ IsAppend(op) \/ IsSeed(op)
            \/ op.kind \in {"AddAlgorithm", "RemoveAlgorithm", "ResumeAlgorithm"}
  <1> DEFINE node(a, left) == [k \in {<<a, 0, left>>} |-> "other"]
  <1>0. Genesis \in Algs /\ 0 \in Keys /\ DOMAIN NamedEpochs(op) = Named(op)
    BY TimelineAssumption, FirstKeys DEF NamedEpochs
  <1>1. \A a \in Algs, left \in Keys : DOMAIN node(a, left) \subseteq Nodes
    BY DEF Nodes
  <1> DEFINE leaves == {LeafOp(i, MaxCount + 1, node(Genesis, i)) : i \in {n, n + 1}}
             subtrees == {SubtreeOp(i, node(Genesis, i)) : i \in {n, n + 1}}
             adds == {AddOp(a, <<<<i, Open>>>>) : a \in Algs, i \in {n, n + 1}}
             removes == {RemoveOp(a, <<<<0, n>>>>) : a \in Algs}
             resumes == {ResumeOp(a, <<<<0, 0>>, <<n, Open>>>>, node(a, 0)) : a \in Algs}
             seeds == {SeedOp(size, metas, node(Genesis, 0)) : size \in {1, 2},
                       metas \in {[i \in 1..m |-> <<Genesis, <<<<0, Open>>>>>>] : m \in 0..2}}
  <1>parts. Operations(n) = leaves \cup subtrees \cup adds \cup removes \cup resumes \cup seeds
    BY DEF Operations
  <1> HIDE DEF node
  <1>2. CASE \E i \in {n, n + 1} : op = LeafOp(i, MaxCount + 1, node(Genesis, i))
                                     \/ op = SubtreeOp(i, node(Genesis, i))
    <2>1. op.metas = <<>> /\ op.kind \in {"AppendLeaf", "AppendSubtree"} /\ op.at \in {n, n + 1}
          /\ DOMAIN op.nodes \subseteq Nodes
      BY <1>0, <1>1, <1>2 DEF LeafOp, SubtreeOp, WriteOp
    <2> QED
      BY <1>0, <2>1, NamesNone DEF IsAppend, IsSeed
  <1>3. CASE \E a \in Algs : \E eps : eps # <<>> /\ (\/ op = AddOp(a, eps) \/ op = RemoveOp(a, eps)
                                                      \/ op = ResumeOp(a, eps, node(a, 0)))
    <2>0. PICK a \in Algs : \E eps : eps # <<>> /\ (\/ op = AddOp(a, eps) \/ op = RemoveOp(a, eps)
                                                   \/ op = ResumeOp(a, eps, node(a, 0)))
      BY <1>3
    <2>1. PICK eps : eps # <<>> /\ (\/ op = AddOp(a, eps) \/ op = RemoveOp(a, eps)
                                   \/ op = ResumeOp(a, eps, node(a, 0)))
      BY <2>0
    <2>2. /\ op.metas = <<<<a, eps>>>>
          /\ op.kind \in {"AddAlgorithm", "RemoveAlgorithm", "ResumeAlgorithm"}
      BY <2>1 DEF AddOp, RemoveOp, ResumeOp, WriteOp
    <2>3. op.nodes = <<>> \/ op.nodes = node(a, 0)
      BY <2>1 DEF AddOp, RemoveOp, ResumeOp, WriteOp
    <2>4. DOMAIN op.nodes \subseteq Nodes
      BY <1>0, <1>1, <2>3
    <2>5. Named(op) = {a} /\ NamedEpochs(op)[a] = eps
      BY <2>2, NamesOne
    <2> QED
      BY <1>0, <2>1, <2>2, <2>4, <2>5 DEF IsAppend, IsSeed
  <1>4. CASE \E size \in {1, 2}, m \in 0..2 :
               op = SeedOp(size, [i \in 1..m |-> <<Genesis, <<<<0, Open>>>>>>], node(Genesis, 0))
    <2>1. PICK size \in {1, 2}, m \in 0..2 :
             op = SeedOp(size, [i \in 1..m |-> <<Genesis, <<<<0, Open>>>>>>], node(Genesis, 0))
      BY <1>4
    <2>2. /\ op.kind = "SeedFrontier" /\ op.at = size /\ op.nodes = node(Genesis, 0)
          /\ op.metas = [i \in 1..m |-> <<Genesis, <<<<0, Open>>>>>>]
      BY <2>1 DEF SeedOp, WriteOp
    <2>3. DOMAIN op.metas = 1..m /\ \A i \in 1..m : op.metas[i][1] = Genesis /\ op.metas[i][2] # <<>>
      BY <2>2
    <2>4. \A a \in Named(op) : a = Genesis /\ m # 0
      BY <2>2, <2>3 DEF Named, ToSet
    <2>5. ASSUME NEW a \in Named(op) PROVE NamedEpochs(op)[a] # <<>>
      <3>1. a = Genesis /\ m \in {1, 2} /\ m \in 1..m
        BY <2>4, <2>5
      <3>2. {i \in DOMAIN op.metas : op.metas[i][1] = a} = 1..m
        BY <2>3, <3>1
      <3>3. \A x \in 1..m : (\A y \in 1..m : x >= y) <=> x = m
        BY <3>1
      <3>4. Max(1..m) = m
        BY <3>1, <3>3 DEF Max
      <3> QED
        BY <2>3, <3>1, <3>2, <3>4 DEF NamedEpochs
    <2>6. DOMAIN op.nodes \subseteq Nodes
      BY <1>0, <1>1, <2>2
    <2> QED
      BY <1>0, <2>2, <2>5, <2>6 DEF IsAppend, IsSeed
  <1>5. \/ \E i \in {n, n + 1} : op = LeafOp(i, MaxCount + 1, node(Genesis, i))
                                   \/ op = SubtreeOp(i, node(Genesis, i))
        \/ \E a \in Algs : \E eps : eps # <<>> /\ (\/ op = AddOp(a, eps) \/ op = RemoveOp(a, eps)
                                                    \/ op = ResumeOp(a, eps, node(a, 0)))
        \/ \E size \in {1, 2}, m \in 0..2 :
             op = SeedOp(size, [i \in 1..m |-> <<Genesis, <<<<0, Open>>>>>>], node(Genesis, 0))
    <2>1. \A e : <<e>> # <<>>
      OBVIOUS
    <2>2. \A e, f : <<e, f>> # <<>>
      OBVIOUS
    <2>3. CASE op \in leaves \cup subtrees
      BY <2>3
    <2>4. CASE op \in adds
      BY <2>1, <2>4
    <2>5. CASE op \in removes
      BY <2>1, <2>5
    <2>6. CASE op \in resumes
      BY <2>2, <2>6
    <2>7. CASE op \in seeds
      BY <2>7
    <2> HIDE DEF leaves, subtrees, adds, removes, resumes, seeds
    <2> QED
      BY <1>parts, <2>3, <2>4, <2>5, <2>6, <2>7
  <1> QED
    BY <1>2, <1>3, <1>4, <1>5

-----------------------------------------------------------------------------
(* A batch on a store and on git's tree of it *)

\* Git has what a store has, and no payload lies beyond the count.
Track(s, g) ==
  /\ s.count \in Nat /\ g.count = s.count
  /\ g.metas = s.metas /\ \A a \in DOMAIN s.metas : s.metas[a] # <<>>
  /\ SameEntries(s, g)
  /\ \A i \in DOMAIN s.leaves : i \in 0..s.count - 1

\* What a batch may not take away.
Keeps(old, new) ==
  /\ old.count <= new.count
  /\ DOMAIN old.metas \subseteq DOMAIN new.metas
  /\ \A i \in DOMAIN old.leaves : i \in DOMAIN new.leaves /\ new.leaves[i] = old.leaves[i]

\* There are payloads, but a position before the count has none.
Gapped(s) == DOMAIN s.leaves # {} /\ \E i \in 0..s.count - 1 : i \notin DOMAIN s.leaves

LEMMA KeepsOn ==
  ASSUME NEW r, NEW s, NEW t, r.count \in Nat, s.count \in Nat, t.count \in Nat,
         Keeps(r, s), Keeps(s, t)
  PROVE  Keeps(r, t)
  BY DEF Keeps

\* The count after an operation that is taken.
LEMMA CountsOn ==
  ASSUME NEW n \in Nat, n \in Keys, n + 1 \in Keys, NEW op \in Operations(n), NEW s,
         s.count \in Nat, Takes(s, op)
  PROVE  /\ CountAfter(s.count, op) \in Nat /\ s.count <= CountAfter(s.count, op)
         /\ IsSeed(op) => s.count = 0
         /\ IsAppend(op) => op.at = s.count /\ CountAfter(s.count, op) = s.count + 1
         /\ ~IsAppend(op) /\ ~IsSeed(op) => CountAfter(s.count, op) = s.count
  BY OperationShape DEF Takes, Refused, RefusedUnlessSeed, CountAfter

LEMMA TrackStep ==
  ASSUME NEW n \in Nat, n \in Keys, n + 1 \in Keys, NEW op \in Operations(n), NEW s, NEW g,
         Track(s, g), Takes(s, op)
  PROVE  /\ Track(FjallWrite(s, op), GitWrite(g, op))
         /\ Keeps(s, FjallWrite(s, op))
  <1> DEFINE t == FjallWrite(s, op)
             h == GitWrite(g, op)
  <1>1. /\ t.count = CountAfter(s.count, op) /\ h.count = CountAfter(g.count, op)
        /\ t.metas = Overlay(s.metas, NamedEpochs(op)) /\ h.metas = Overlay(g.metas, NamedEpochs(op))
        /\ t.leaves = IF op.kind = "AppendLeaf" THEN Overlay(s.leaves, Entry(op.at, op.data))
                                                ELSE s.leaves
    BY DEF FjallWrite, Write, GitWrite
  <1>2. SameEntries(t, h)
    BY OperationShape, WritesAlike DEF Track
  <1> HIDE DEF t, h
  <1>3. /\ CountAfter(s.count, op) \in Nat /\ s.count <= CountAfter(s.count, op)
        /\ IsSeed(op) => s.count = 0
        /\ IsAppend(op) => op.at = s.count /\ CountAfter(s.count, op) = s.count + 1
    BY CountsOn DEF Track
  <1>4. t.count \in Nat /\ h.count = t.count /\ h.metas = t.metas
    BY <1>1, <1>3 DEF Track
  <1>5. \A a \in DOMAIN t.metas : t.metas[a] # <<>>
    BY <1>1, OperationShape DEF Track, Overlay
  <1>6. op.kind = "AppendLeaf" =>
          /\ DOMAIN t.leaves = DOMAIN s.leaves \cup {s.count} /\ s.count \notin DOMAIN s.leaves
          /\ \A i \in DOMAIN s.leaves : t.leaves[i] = s.leaves[i]
    <2> HAVE op.kind = "AppendLeaf"
    <2>1. op.at = s.count /\ s.count \notin DOMAIN s.leaves
      BY <1>3 DEF IsAppend, Track
    <2> QED
      BY <1>1, <2>1 DEF Overlay, Entry
  <1>7. \A i \in DOMAIN t.leaves : i \in 0..t.count - 1
    <2>1. CASE op.kind = "AppendLeaf"
      BY <1>1, <1>3, <1>6, <2>1 DEF IsAppend, Track
    <2>2. CASE op.kind # "AppendLeaf"
      BY <1>1, <1>3, <2>2 DEF Track
    <2> QED
      BY <2>1, <2>2
  <1>8. Keeps(s, t)
    <2>1. s.count <= t.count /\ DOMAIN s.metas \subseteq DOMAIN t.metas
      BY <1>1, <1>3 DEF Overlay
    <2>2. \A i \in DOMAIN s.leaves : i \in DOMAIN t.leaves /\ t.leaves[i] = s.leaves[i]
      BY <1>1, <1>6
    <2> QED
      BY <2>1, <2>2 DEF Keeps
  <1> QED
    BY <1>2, <1>4, <1>5, <1>7, <1>8 DEF Track, t, h

\* Memory appends where fjall does, or the store is gapped and stays so.
LEMMA InPlaceOrGapped ==
  ASSUME NEW n \in Nat, n \in Keys, n + 1 \in Keys, NEW op \in Operations(n), NEW s, NEW g,
         Track(s, g), Takes(s, op)
  PROVE  /\ LeavesInPlace(s) => \/ LeavesInPlace(FjallWrite(s, op))
                                     /\ MemoryWrite(s, op) = FjallWrite(s, op)
                                \/ Gapped(FjallWrite(s, op))
         /\ Gapped(s) => Gapped(FjallWrite(s, op))
  <1> DEFINE t == FjallWrite(s, op)
  <1>1. /\ t.count = CountAfter(s.count, op)
        /\ t.leaves = IF op.kind = "AppendLeaf" THEN Overlay(s.leaves, Entry(op.at, op.data))
                                                ELSE s.leaves
    BY DEF FjallWrite, Write
  <1>2. /\ s.count \in Nat /\ CountAfter(s.count, op) \in Nat /\ s.count <= CountAfter(s.count, op)
        /\ IsSeed(op) => s.count = 0
        /\ IsAppend(op) => op.at = s.count /\ CountAfter(s.count, op) = s.count + 1
        /\ ~IsAppend(op) /\ ~IsSeed(op) => CountAfter(s.count, op) = s.count
        /\ \A i \in DOMAIN s.leaves : i \in 0..s.count - 1
    BY CountsOn DEF Track
  <1>3. op.kind = "AppendLeaf" => IsAppend(op) /\ DOMAIN t.leaves = DOMAIN s.leaves \cup {s.count}
    BY <1>1, <1>2 DEF IsAppend, Overlay, Entry
  <1>4. ASSUME Gapped(s) PROVE Gapped(t)
    <2>1. PICK i \in 0..s.count - 1 : i \notin DOMAIN s.leaves
      BY <1>4 DEF Gapped
    <2>2. i \notin DOMAIN t.leaves /\ i \in 0..t.count - 1 /\ DOMAIN t.leaves # {}
      <3> HIDE DEF t
      <3> QED
        BY <1>1, <1>2, <1>3, <1>4, <2>1 DEF Gapped
    <2> QED
      BY <2>2 DEF Gapped
  <1>5. ASSUME LeavesInPlace(s)
        PROVE  (LeavesInPlace(t) /\ MemoryWrite(s, op) = t) \/ Gapped(t)
    <2>1. CASE op.kind = "AppendLeaf" /\ s.count # 0 /\ s.leaves = <<>>
      <3>1. DOMAIN s.leaves = {}
        BY <2>1
      <3>2. 0 \in 0..t.count - 1 /\ 0 \notin DOMAIN t.leaves /\ DOMAIN t.leaves # {}
        <4>1. t.count = s.count + 1 /\ DOMAIN t.leaves = {s.count}
          BY <1>1, <1>2, <1>3, <2>1, <3>1
        <4> HIDE DEF t
        <4> QED
          BY <1>2, <2>1, <4>1
      <3> QED
        BY <3>2 DEF Gapped
    <2>2. CASE op.kind # "AppendLeaf" /\ s.leaves # <<>> /\ CountAfter(s.count, op) # s.count
      <3>1. s.count \in Nat \ {0} /\ DOMAIN s.leaves = 0..s.count - 1
        BY <1>5, <2>2 DEF LeavesInPlace
      <3>2. t.count = s.count + 1 /\ t.leaves = s.leaves
        <4> HIDE DEF t
        <4> QED
          BY <1>1, <1>2, <2>2, <3>1
      <3>3. s.count \in 0..t.count - 1 /\ s.count \notin DOMAIN t.leaves /\ DOMAIN t.leaves # {}
        <4> HIDE DEF t
        <4>1. s.count \in 0..(s.count + 1) - 1 /\ s.count \notin 0..s.count - 1 /\ 0 \in 0..s.count - 1
          BY <3>1
        <4> QED
          BY <3>1, <3>2, <4>1
      <3> QED
        BY <3>3 DEF Gapped
    <2>3. CASE /\ ~(op.kind = "AppendLeaf" /\ s.count # 0 /\ s.leaves = <<>>)
               /\ ~(op.kind # "AppendLeaf" /\ s.leaves # <<>> /\ CountAfter(s.count, op) # s.count)
      BY <1>2, <1>3, <1>5, <2>3, StaysInPlace
    <2> QED
      BY <2>1, <2>2, <2>3
  <1> QED
    BY <1>4, <1>5

\* What a batch comes to, operation by operation.
LEMMA BatchOfOne ==
  ASSUME NEW s, NEW x
  PROVE  /\ MemoryWrites(s, <<x>>) = MemoryWrite(s, x)
         /\ FjallWrites(s, <<x>>) = FjallWrite(s, x)
         /\ GitWrites(s, <<x>>) = GitWrite(s, x)
  <1>1. MemoryWrites(s, <<x>>) = MemoryWrite(s, x)
    BY MemoryWriteOnce DEF MemoryWrites
  <1>2. FjallWrites(s, <<x>>) = FjallWrite(s, x)
    BY FjallWriteOnce DEF FjallWrites
  <1>3. GitWrites(s, <<x>>) = GitWrite(s, x)
    BY GitWriteOnce DEF GitWrites
  <1> QED
    BY <1>1, <1>2, <1>3

LEMMA BatchCases ==
  ASSUME NEW n, NEW ops \in Batches(n)
  PROVE  \/ \E x \in Operations(n) : ops = <<x>>
         \/ \E x, y \in Operations(n) : ops = <<x, y>>
  BY DEF Batches

\* After a batch that memory accepts git still has what fjall would write, which
\* is what memory has unless payloads and positions without one are mixed.
LEMMA AfterBatch ==
  ASSUME NEW n \in Nat, n \in Keys, n + 1 \in Keys, NEW ops \in Batches(n), NEW s, NEW g,
         Track(s, g), LeavesInPlace(s), MemoryAccepts(s, ops)
  PROVE  LET t == FjallWrites(s, ops)
         IN  /\ Track(t, GitWrites(g, ops))
             /\ Keeps(s, t)
             /\ (LeavesInPlace(t) /\ MemoryWrites(s, ops) = t) \/ Gapped(t)
             /\ t.metas = [a \in DOMAIN t.metas |-> t.metas[a]]
  <1>0. ASSUME NEW r, NEW op
        PROVE  FjallWrite(r, op).metas
                 = [a \in DOMAIN FjallWrite(r, op).metas |-> FjallWrite(r, op).metas[a]]
    BY DEF FjallWrite, Write, Overlay
  <1>1. ASSUME NEW x \in Operations(n), ops = <<x>>
        PROVE  LET t == FjallWrites(s, ops)
               IN  /\ Track(t, GitWrites(g, ops))
                   /\ Keeps(s, t)
                   /\ (LeavesInPlace(t) /\ MemoryWrites(s, ops) = t) \/ Gapped(t)
                   /\ t.metas = [a \in DOMAIN t.metas |-> t.metas[a]]
    <2>1. Takes(s, x)
      BY <1>1, MemoryAcceptance
    <2>2. /\ Track(FjallWrite(s, x), GitWrite(g, x)) /\ Keeps(s, FjallWrite(s, x))
          /\ \/ LeavesInPlace(FjallWrite(s, x)) /\ MemoryWrite(s, x) = FjallWrite(s, x)
             \/ Gapped(FjallWrite(s, x))
      BY <2>1, TrackStep, InPlaceOrGapped
    <2>3. /\ FjallWrites(s, ops) = FjallWrite(s, x) /\ GitWrites(g, ops) = GitWrite(g, x)
          /\ MemoryWrites(s, ops) = MemoryWrite(s, x)
      BY <1>1, BatchOfOne
    <2> QED
      BY <1>0, <2>2, <2>3
  <1>2. ASSUME NEW x \in Operations(n), NEW y \in Operations(n), ops = <<x, y>>
        PROVE  LET t == FjallWrites(s, ops)
               IN  /\ Track(t, GitWrites(g, ops))
                   /\ Keeps(s, t)
                   /\ (LeavesInPlace(t) /\ MemoryWrites(s, ops) = t) \/ Gapped(t)
                   /\ t.metas = [a \in DOMAIN t.metas |-> t.metas[a]]
    <2> DEFINE r == FjallWrite(s, x)
               q == GitWrite(g, x)
               t == FjallWrite(r, y)
               h == GitWrite(q, y)
    <2>1. Takes(s, x) /\ Takes(r, y)
      BY <1>2, MemoryAcceptance
    <2>2. /\ Track(r, q) /\ Keeps(s, r)
          /\ (LeavesInPlace(r) /\ MemoryWrite(s, x) = r) \/ Gapped(r)
      BY <2>1, TrackStep, InPlaceOrGapped
    <2>3. t.metas = [a \in DOMAIN t.metas |-> t.metas[a]]
      BY <1>0
    <2> HIDE DEF r, q
    <2>4. /\ Track(t, h) /\ Keeps(r, t)
          /\ LeavesInPlace(r) => (LeavesInPlace(t) /\ MemoryWrite(r, y) = t) \/ Gapped(t)
          /\ Gapped(r) => Gapped(t)
      BY <2>1, <2>2, TrackStep, InPlaceOrGapped
    <2> HIDE DEF t, h
    <2>5. Keeps(s, t)
      BY <2>2, <2>4, KeepsOn DEF Track
    <2>6. /\ FjallWrites(s, ops) = t /\ GitWrites(g, ops) = h
          /\ MemoryWrites(s, ops) = MemoryWrite(MemoryWrite(s, x), y)
      <3>1. FjallWrites(s, ops) = FjallWrite(FjallWrite(s, x), y)
        BY <1>2, FjallWriteTwice
      <3>2. GitWrites(g, ops) = GitWrite(GitWrite(g, x), y)
        BY <1>2, GitWriteTwice
      <3>3. MemoryWrites(s, ops) = MemoryWrite(MemoryWrite(s, x), y)
        BY <1>2, MemoryWriteTwice
      <3> QED
        BY <3>1, <3>2, <3>3 DEF r, q, t, h
    <2>7. (LeavesInPlace(t) /\ MemoryWrites(s, ops) = t) \/ Gapped(t)
      BY <2>2, <2>4, <2>6
    <2> QED
      BY <2>3, <2>4, <2>5, <2>6, <2>7
  <1> QED
    BY <1>1, <1>2, BatchCases

\* Git's checks are those of memory.
LEMMA ChecksAlike ==
  ASSUME NEW n, NEW ops \in Batches(n), NEW s, NEW g, Track(s, g)
  PROVE  GitProjects(Start(g), ops).ok <=> MemoryAccepts(s, ops)
  <1>1. Start(g) = Start(s)
    BY DEF Start, Track
  <1>2. ASSUME NEW x, ops = <<x>>
        PROVE  GitProjects(Start(s), ops).ok <=> MemoryAccepts(s, ops)
    BY <1>2, MemoryAcceptance
  <1>3. ASSUME NEW x, NEW y, ops = <<x, y>>
        PROVE  GitProjects(Start(s), ops).ok <=> MemoryAccepts(s, ops)
    BY <1>3, MemoryAcceptance
  <1> QED
    BY <1>1, <1>2, <1>3, BatchCases

\* Where the intervals of a batch are those of its end, nothing is gapped, and git
\* finds nothing to project.
LEMMA OrdinaryBatch ==
  ASSUME NEW s, NEW ops, Ordinary(s, ops)
  PROVE  LET t == FjallWrites(s, ops)
         IN  /\ ~Gapped(t)
             /\ \A a \in DOMAIN t.metas : EpochsAt(t.metas[a], t.count) = t.metas[a]
  <1> DEFINE t == FjallWrites(s, ops)
  <1>1. /\ \A a \in DOMAIN t.metas : EpochsAt(t.metas[a], t.count) = t.metas[a]
        /\ t.leaves # <<>> => DOMAIN t.leaves = 0..t.count - 1
    BY DEF Ordinary, FjallWrites
  <1> HIDE DEF t
  <1>2. ~Gapped(t)
    <2>1. t.leaves = <<>> => DOMAIN t.leaves = {}
      OBVIOUS
    <2> QED
      BY <1>1, <2>1 DEF Gapped
  <1> QED
    BY <1>1, <1>2 DEF t

\* What the projection does to git's tree at the end of a batch.
LEMMA ProjectionOnBatch ==
  ASSUME NEW n, NEW ops \in Batches(n), NEW g
  PROVE  LET h == GitWrites(g, ops)
             u == ProjectEpochs(h)
         IN  /\ u.count = h.count /\ u.leaves = h.leaves /\ u.nodes = h.nodes
             /\ u.metas = [a \in DOMAIN h.metas |-> EpochsAt(h.metas[a], h.count)]
             /\ DOMAIN u.metas = DOMAIN h.metas
  <1> DEFINE h == GitWrites(g, ops)
             u == ProjectEpochs(h)
  <1>1. \E q, op : h = GitWrite(q, op)
    <2>1. ASSUME NEW x, ops = <<x>> PROVE h = GitWrite(g, x)
      BY <2>1, BatchOfOne
    <2>2. ASSUME NEW x, NEW y, ops = <<x, y>> PROVE h = GitWrite(GitWrite(g, x), y)
      BY <2>2, GitWriteTwice
    <2> HIDE DEF h
    <2> QED
      BY <2>1, <2>2, BatchCases
  <1>2. PICK q, op : h = GitWrite(q, op)
    BY <1>1
  <1> HIDE DEF h
  <1>3. /\ u.count = h.count /\ u.leaves = h.leaves /\ u.nodes = h.nodes
        /\ u.metas = [a \in DOMAIN h.metas |-> EpochsAt(h.metas[a], h.count)]
    BY <1>2 DEF ProjectEpochs, GitWrite
  <1> QED
    BY <1>3 DEF h

-----------------------------------------------------------------------------
(* Memory and git *)

LEMMA MemoryAndGitOnBatch ==
  ASSUME NEW n \in Nat, n \in Keys, n + 1 \in Keys, NEW ops \in Batches(n), NEW s, NEW g,
         Track(s, g), LeavesInPlace(s)
  PROVE  Agree(s, g, ops)
  <1> SUFFICES ASSUME Ordinary(s, ops)
               PROVE  /\ MemoryAccepts(s, ops) <=> GitAccepts(g, ops)
                      /\ MemoryReads(MemoryApply(s, ops), Positions, Asked)
                           = GitReads(GitApply(g, ops), Positions, Asked)
    BY DEF Agree
  <1> DEFINE t == FjallWrites(s, ops)
             h == GitWrites(g, ops)
             u == ProjectEpochs(h)
  <1>1. GitProjects(Start(g), ops).ok <=> MemoryAccepts(s, ops)
    BY ChecksAlike
  <1>2. /\ GitAccepts(g, ops) <=> /\ GitProjects(Start(g), ops).ok
                                  /\ \A a \in DOMAIN u.metas : u.metas[a] # <<>>
        /\ GitAccepts(g, ops) => GitApply(g, ops) = u
        /\ ~GitAccepts(g, ops) => GitApply(g, ops) = g
    BY GitAcceptance
  <1>3. CASE MemoryAccepts(s, ops)
    <2>1. /\ Track(t, h)
          /\ (LeavesInPlace(t) /\ MemoryWrites(s, ops) = t) \/ Gapped(t)
          /\ t.metas = [a \in DOMAIN t.metas |-> t.metas[a]]
      BY <1>3, AfterBatch
    <2>2. ~Gapped(t) /\ \A a \in DOMAIN t.metas : EpochsAt(t.metas[a], t.count) = t.metas[a]
      BY OrdinaryBatch
    <2>3. MemoryApply(s, ops) = MemoryWrites(s, ops)
      BY <1>3 DEF MemoryApply, MemoryWrites
    <2>4. u.count = h.count
            /\ u.metas = [a \in DOMAIN h.metas |-> EpochsAt(h.metas[a], h.count)]
            /\ u.leaves = h.leaves /\ u.nodes = h.nodes
      BY ProjectionOnBatch
    <2> HIDE DEF t, h, u
    <2>5. u.count = t.count /\ u.metas = t.metas
      BY <2>1, <2>2, <2>4 DEF Track
    <2>6. SameEntries(t, u)
      BY <2>1, <2>4 DEF Track, SameEntries
    <2>7. \A a \in DOMAIN u.metas : u.metas[a] # <<>>
      BY <2>1, <2>5 DEF Track
    <2>8. GitAccepts(g, ops) /\ GitApply(g, ops) = u
      BY <1>1, <1>2, <1>3, <2>7
    <2>9. MemoryReads(t, Positions, Asked) = GitReads(u, Positions, Asked)
      BY <2>1, <2>2, <2>5, <2>6, AskedHavePaths, GitReadsAlike
    <2> QED
      BY <1>3, <2>1, <2>2, <2>3, <2>8, <2>9
  <1>4. CASE ~MemoryAccepts(s, ops)
    <2>1. ~GitAccepts(g, ops) /\ GitApply(g, ops) = g
      BY <1>1, <1>2, <1>4
    <2>2. MemoryApply(s, ops) = s
      BY <1>4 DEF MemoryApply
    <2>3. MemoryReads(s, Positions, Asked) = GitReads(g, Positions, Asked)
      BY AskedHavePaths, GitReadsAlike DEF Track
    <2> QED
      BY <1>4, <2>1, <2>2, <2>3
  <1> QED
    BY <1>3, <1>4

\* What a log has written is what a batch finds.
LEMMA LogTracks == Alike => /\ Track(memory, git) /\ LeavesInPlace(memory) /\ memory = fjall
                            /\ count \in Nat /\ count \in Keys /\ count + 1 \in Keys
  <1> SUFFICES ASSUME Alike
               PROVE  /\ Track(memory, git) /\ LeavesInPlace(memory) /\ memory = fjall
                      /\ count \in Nat /\ count \in Keys /\ count + 1 \in Keys
    OBVIOUS
  <1>1. count \in 0..MaxCount /\ MaxCount \in Nat
    BY TimelineAssumption DEF Alike, Inv, TypeOK
  <1>2. count \in Nat /\ count \in Keys /\ count + 1 \in Keys
    BY <1>1, KeyAssumption, Places DEF Keys
  <1>3. /\ memory.count = count /\ git.count = count
        /\ memory.metas = Recorded /\ git.metas = Recorded
        /\ memory = fjall /\ LeavesInPlace(memory) /\ SameEntries(memory, git)
    BY DEF Alike, StoresAlike, StoresMirrorTimeline, Mirrors
  <1>4. \A a \in DOMAIN Recorded : Recorded[a] # <<>>
    BY DEF Recorded, Registered
  <1>5. \A i \in DOMAIN memory.leaves : i \in 0..memory.count - 1
    <2>1. memory.leaves = <<>> => DOMAIN memory.leaves = {}
      OBVIOUS
    <2> QED
      BY <1>3, <2>1 DEF LeavesInPlace
  <1> QED
    BY <1>2, <1>3, <1>4, <1>5 DEF Track

LEMMA AlikeAgree == Alike => MemoryAndGitAgree
  <1> SUFFICES ASSUME Alike PROVE MemoryAndGitAgree
    OBVIOUS
  <1>1. FreshStoresAgree
    <2>1. EmptyStore.count = 0 /\ EmptyStore.metas = <<>> /\ EmptyStore.leaves = <<>> /\ DOMAIN <<>> = {}
      BY DEF EmptyStore
    <2>2. Track(EmptyStore, EmptyStore) /\ LeavesInPlace(EmptyStore)
      BY <2>1, EmptyAlike DEF Track
    <2>3. \A n \in 0..2 : n \in Nat /\ n \in Keys /\ n + 1 \in Keys
      BY FirstKeys
    <2> QED
      BY <2>2, <2>3, MemoryAndGitOnBatch DEF FreshStoresAgree
  <1>2. \A ops \in Batches(count) : Agree(memory, git, ops)
    BY LogTracks, MemoryAndGitOnBatch
  <1> QED
    BY <1>1, <1>2 DEF MemoryAndGitAgree

\* On an empty store and on that of any log, memory and git take the same batches
\* of up to two operations, and read the same afterwards, whatever the number of
\* algorithms, the capacity and the number of values of a byte.
THEOREM MemoryAndGitTakeTheSame == StoredSpec => []MemoryAndGitAgree
  BY InitAlike, StepAlike, AlikeAgree, PTL DEF StoredSpec

-----------------------------------------------------------------------------
(* Memory and fjall *)

\* A batch that is plain is accepted by fjall if it is by memory.
LEMMA FjallTakesThePlain ==
  ASSUME NEW n \in Nat, n \in Keys, n + 1 \in Keys, NEW ops \in Batches(n), NEW s, Plain(ops)
  PROVE  FjallAccepts(s, ops) <=> MemoryAccepts(s, ops)
  <1>1. ASSUME NEW op, ~IsSeed(op) PROVE Takes(s, op) <=> TakesLoosely(s, op)
    BY <1>1 DEF Takes, TakesLoosely, Refused
  <1>2. ASSUME NEW x \in Operations(n), ops = <<x>>
        PROVE  FjallAccepts(s, ops) <=> MemoryAccepts(s, ops)
    <2>1. ~IsSeed(x)
      <3>1. DOMAIN ops = {1} /\ ops[1] = x
        BY <1>2
      <3> QED
        BY <3>1 DEF Plain
    <2>2. MemoryAccepts(s, ops) <=> Takes(s, x)
      BY <1>2, MemoryAcceptance
    <2>3. FjallAccepts(s, ops) <=> TakesLoosely(s, x)
      BY <1>2, FjallAcceptance
    <2> QED
      BY <1>1, <2>1, <2>2, <2>3
  <1>3. ASSUME NEW x \in Operations(n), NEW y \in Operations(n), ops = <<x, y>>
        PROVE  FjallAccepts(s, ops) <=> MemoryAccepts(s, ops)
    <2> DEFINE c == IF IsAppend(x) THEN s.count + 1 ELSE s.count
               r == FjallWrite(s, x)
               known == DOMAIN s.metas
    <2>1. /\ ~IsSeed(x) /\ ~IsSeed(y)
          /\ x.kind = "AddAlgorithm" \/ y.kind = "AddAlgorithm" => Named(x) \cap Named(y) = {}
      <3>1. DOMAIN ops = {1, 2} /\ ops[1] = x /\ ops[2] = y
        BY <1>3
      <3>2. 1 \in DOMAIN ops /\ 2 \in DOMAIN ops /\ 1 # 2
        BY <3>1
      <3> QED
        BY <3>1, <3>2 DEF Plain
    <2>2. MemoryAccepts(s, ops) <=> Takes(s, x) /\ Takes(r, y)
      BY <1>3, MemoryAcceptance
    <2>3. FjallAccepts(s, ops) <=> TakesLoosely(s, x) /\ ~RefusedUnlessSeed(y, c, known)
      BY <1>3, FjallAcceptance
    <2>4. r.count = c /\ DOMAIN r.metas = known \cup Named(x)
      BY <2>1 DEF FjallWrite, Write, CountAfter, Overlay, NamedEpochs
    <2>5. Takes(r, y) <=> ~RefusedUnlessSeed(y, c, known \cup Named(x))
      BY <2>1, <2>4 DEF Takes, Refused
    <2>6. x.kind \in {"RemoveAlgorithm", "ResumeAlgorithm"} /\ TakesLoosely(s, x) => Named(x) \subseteq known
      BY DEF TakesLoosely, RefusedUnlessSeed
    <2>7. x.kind \in {"RemoveAlgorithm", "ResumeAlgorithm", "AddAlgorithm"} \/ Named(x) = {}
      BY <2>1, OperationShape
    <2>8. TakesLoosely(s, x) =>
            (RefusedUnlessSeed(y, c, known \cup Named(x)) <=> RefusedUnlessSeed(y, c, known))
      BY <2>1, <2>6, <2>7 DEF RefusedUnlessSeed
    <2> QED
      BY <1>1, <2>1, <2>2, <2>3, <2>5, <2>8
  <1> QED
    BY <1>2, <1>3, BatchCases

\* Memory and fjall have the same of a log, and do the same with such a batch.
LEMMA AlikeAgreeOnPlain == Alike => FjallAgreesOnPlainBatches
  <1> SUFFICES ASSUME Alike, NEW ops \in Batches(count), Plain(ops), Ordinary(fjall, ops)
               PROVE  /\ MemoryAccepts(memory, ops) <=> FjallAccepts(fjall, ops)
                      /\ MemoryReads(MemoryApply(memory, ops), Positions, Asked)
                           = FjallReads(FjallApply(fjall, ops), Positions, Asked)
    BY DEF FjallAgreesOnPlainBatches
  <1>1. /\ Track(memory, git) /\ LeavesInPlace(memory) /\ memory = fjall
        /\ count \in Nat /\ count \in Keys /\ count + 1 \in Keys
    BY LogTracks
  <1>2. MemoryAccepts(memory, ops) <=> FjallAccepts(memory, ops)
    BY <1>1, FjallTakesThePlain
  <1>3. CASE MemoryAccepts(memory, ops)
    <2> DEFINE t == FjallWrites(memory, ops)
    <2>1. (LeavesInPlace(t) /\ MemoryWrites(memory, ops) = t) \/ Gapped(t)
      BY <1>1, <1>3, AfterBatch
    <2>2. ~Gapped(t)
      BY <1>1, OrdinaryBatch
    <2>3. MemoryApply(memory, ops) = MemoryWrites(memory, ops) /\ FjallApply(memory, ops) = t
      BY <1>2, <1>3 DEF MemoryApply, MemoryWrites, FjallApply, FjallWrites
    <2> HIDE DEF t
    <2> QED
      BY <1>1, <1>2, <2>1, <2>2, <2>3, FjallReadsAlike
  <1>4. CASE ~MemoryAccepts(memory, ops)
    <2>1. MemoryApply(memory, ops) = memory /\ FjallApply(memory, ops) = memory
      BY <1>2, <1>4 DEF MemoryApply, FjallApply
    <2> QED
      BY <1>1, <1>2, <2>1, FjallReadsAlike
  <1> QED
    BY <1>3, <1>4

\* Fjall's check does not follow the algorithms of a batch, nor ask about a seed:
\* on batches for which that makes no difference it takes what memory takes, and
\* reads the same afterwards.
THEOREM FjallTakesPlainBatches == StoredSpec => []FjallAgreesOnPlainBatches
  BY InitAlike, StepAlike, AlikeAgreeOnPlain, PTL DEF StoredSpec

-----------------------------------------------------------------------------
(* Nothing is taken away *)

\* Memory's payloads are the first so many, whatever the count.
Dense(s) == s.count \in Nat /\ \E c \in Nat : DOMAIN s.leaves = 0..c - 1

LEMMA MemoryStep ==
  ASSUME NEW n \in Nat, n \in Keys, n + 1 \in Keys, NEW op \in Operations(n), NEW s,
         Dense(s), Takes(s, op)
  PROVE  Dense(MemoryWrite(s, op)) /\ Keeps(s, MemoryWrite(s, op))
  <1> DEFINE t == MemoryWrite(s, op)
             k == Cardinality(DOMAIN s.leaves)
  <1>1. /\ t.count = CountAfter(s.count, op)
        /\ t.metas = Overlay(s.metas, NamedEpochs(op))
        /\ t.leaves = IF op.kind = "AppendLeaf" THEN Overlay(s.leaves, Entry(k, op.data))
                                                ELSE s.leaves
    BY DEF MemoryWrite, Write
  <1>2. CountAfter(s.count, op) \in Nat /\ s.count <= CountAfter(s.count, op)
    BY CountsOn DEF Dense
  <1>3. PICK c \in Nat : DOMAIN s.leaves = 0..c - 1
    BY DEF Dense
  <1>4. k = c
    <2>1. 0 \in Int /\ c - 1 \in Int
      BY <1>3
    <2>2. Cardinality(0..c - 1) = IF 0 > c - 1 THEN 0 ELSE c - 1 - 0 + 1
      BY <2>1, FS_Interval
    <2> QED
      BY <1>3, <2>2
  <1> HIDE DEF t, k
  <1>5. op.kind = "AppendLeaf" =>
          DOMAIN t.leaves = (0..c - 1) \cup {c} /\ \A i \in 0..c - 1 : t.leaves[i] = s.leaves[i]
    BY <1>1, <1>3, <1>4 DEF Overlay, Entry
  <1>6. (0..c - 1) \cup {c} = 0..(c + 1) - 1 /\ c + 1 \in Nat
    BY <1>3
  <1>7. Dense(t)
    BY <1>1, <1>2, <1>3, <1>5, <1>6 DEF Dense
  <1>8. Keeps(s, t)
    BY <1>1, <1>2, <1>3, <1>5 DEF Keeps, Overlay
  <1> QED
    BY <1>7, <1>8 DEF t

LEMMA MemoryKeeps ==
  ASSUME NEW n \in Nat, n \in Keys, n + 1 \in Keys, NEW ops \in Batches(n), NEW s,
         Dense(s), MemoryAccepts(s, ops)
  PROVE  Keeps(s, MemoryWrites(s, ops))
  <1>1. ASSUME NEW x \in Operations(n), ops = <<x>>
        PROVE  Keeps(s, MemoryWrites(s, ops))
    <2>1. Takes(s, x)
      BY <1>1, MemoryAcceptance
    <2>2. MemoryWrites(s, ops) = MemoryWrite(s, x)
      BY <1>1, BatchOfOne
    <2> QED
      BY <2>1, <2>2, MemoryStep
  <1>2. ASSUME NEW x \in Operations(n), NEW y \in Operations(n), ops = <<x, y>>
        PROVE  Keeps(s, MemoryWrites(s, ops))
    <2> DEFINE r == MemoryWrite(s, x)
               t == MemoryWrite(r, y)
    <2>1. Takes(s, x) /\ Takes(FjallWrite(s, x), y)
      BY <1>2, MemoryAcceptance
    <2>2. FjallWrite(s, x).count = r.count /\ FjallWrite(s, x).metas = r.metas
      BY DEF FjallWrite, MemoryWrite, Write
    <2>3. Takes(r, y)
      BY <2>1, <2>2 DEF Takes
    <2>4. Dense(r) /\ Keeps(s, r)
      BY <2>1, MemoryStep
    <2> HIDE DEF r
    <2>5. Dense(t) /\ Keeps(r, t)
      BY <2>3, <2>4, MemoryStep
    <2>6. MemoryWrites(s, ops) = t
      BY <1>2, MemoryWriteTwice DEF r
    <2> HIDE DEF t
    <2> QED
      BY <2>4, <2>5, <2>6, KeepsOn DEF Dense
  <1> QED
    BY <1>1, <1>2, BatchCases

\* Without a seed fjall's running count is that of its store, and what it lets
\* through takes nothing away either.
LEMMA FjallKeeps ==
  ASSUME NEW n \in Nat, n \in Keys, n + 1 \in Keys, NEW ops \in Batches(n), NEW s, NEW g,
         Track(s, g), FjallAccepts(s, ops), \A i \in DOMAIN ops : ~IsSeed(ops[i])
  PROVE  Keeps(s, FjallWrites(s, ops))
  <1>0. ASSUME NEW r, NEW op \in Operations(n), ~IsSeed(op), r.count \in Nat,
               \A i \in DOMAIN r.leaves : i \in 0..r.count - 1,
               IsAppend(op) => op.at = r.count
        PROVE  LET t == FjallWrite(r, op)
               IN  /\ t.count = IF IsAppend(op) THEN r.count + 1 ELSE r.count
                   /\ \A i \in DOMAIN t.leaves : i \in 0..t.count - 1
                   /\ Keeps(r, t)
    <2> DEFINE t == FjallWrite(r, op)
    <2>1. /\ t.count = IF IsAppend(op) THEN r.count + 1 ELSE r.count
          /\ t.metas = Overlay(r.metas, NamedEpochs(op))
          /\ t.leaves = IF op.kind = "AppendLeaf" THEN Overlay(r.leaves, Entry(op.at, op.data))
                                                  ELSE r.leaves
      BY <1>0 DEF FjallWrite, Write, CountAfter
    <2>2. op.kind = "AppendLeaf" =>
            /\ IsAppend(op) /\ DOMAIN t.leaves = DOMAIN r.leaves \cup {r.count}
            /\ r.count \notin DOMAIN r.leaves
            /\ \A i \in DOMAIN r.leaves : t.leaves[i] = r.leaves[i]
      <3> HAVE op.kind = "AppendLeaf"
      <3>1. IsAppend(op) /\ op.at = r.count /\ r.count \notin DOMAIN r.leaves
        BY <1>0 DEF IsAppend
      <3> QED
        BY <2>1, <3>1 DEF Overlay, Entry
    <2> HIDE DEF t
    <2>3. \A i \in DOMAIN t.leaves : i \in 0..t.count - 1
      BY <1>0, <2>1, <2>2
    <2>4. Keeps(r, t)
      <3>1. r.count <= t.count
        BY <1>0, <2>1
      <3>2. DOMAIN r.metas \subseteq DOMAIN t.metas
        BY <2>1 DEF Overlay
      <3>3. \A i \in DOMAIN r.leaves : i \in DOMAIN t.leaves /\ t.leaves[i] = r.leaves[i]
        BY <2>1, <2>2
      <3> QED
        BY <3>1, <3>2, <3>3 DEF Keeps
    <2> QED
      BY <2>1, <2>3, <2>4 DEF t
  <1>1. ASSUME NEW x \in Operations(n), ops = <<x>>
        PROVE  Keeps(s, FjallWrites(s, ops))
    <2>1. ~IsSeed(x)
      <3>1. DOMAIN ops = {1} /\ ops[1] = x
        BY <1>1
      <3> QED
        BY <3>1
    <2>2. IsAppend(x) => x.at = s.count
      BY <1>1, FjallAcceptance DEF TakesLoosely, RefusedUnlessSeed
    <2> QED
      BY <1>0, <1>1, <2>1, <2>2, BatchOfOne DEF Track
  <1>2. ASSUME NEW x \in Operations(n), NEW y \in Operations(n), ops = <<x, y>>
        PROVE  Keeps(s, FjallWrites(s, ops))
    <2> DEFINE c == IF IsAppend(x) THEN s.count + 1 ELSE s.count
               r == FjallWrite(s, x)
               t == FjallWrite(r, y)
    <2>1. ~IsSeed(x) /\ ~IsSeed(y)
      <3>1. DOMAIN ops = {1, 2} /\ ops[1] = x /\ ops[2] = y
        BY <1>2
      <3> QED
        BY <3>1
    <2>2. TakesLoosely(s, x) /\ ~RefusedUnlessSeed(y, c, DOMAIN s.metas)
      BY <1>2, FjallAcceptance
    <2>3. (IsAppend(x) => x.at = s.count) /\ (IsAppend(y) => y.at = c)
      BY <2>2 DEF TakesLoosely, RefusedUnlessSeed
    <2>4. /\ r.count = c /\ Keeps(s, r)
          /\ \A i \in DOMAIN r.leaves : i \in 0..r.count - 1
      BY <1>0, <2>1, <2>3 DEF Track
    <2>5. c \in Nat /\ s.count \in Nat
      BY DEF Track
    <2> HIDE DEF r, c
    <2>6. Keeps(r, t) /\ t.count = IF IsAppend(y) THEN c + 1 ELSE c
      BY <1>0, <2>1, <2>3, <2>4, <2>5
    <2>7. FjallWrites(s, ops) = t
      BY <1>2, FjallWriteTwice DEF r
    <2> HIDE DEF t
    <2> QED
      BY <2>4, <2>5, <2>6, <2>7, KeepsOn
  <1> QED
    BY <1>1, <1>2, BatchCases

\* What a store keeps, git keeps at its paths.
LEMMA GitKeeps ==
  ASSUME NEW s, NEW g, NEW t, NEW h, Track(s, g), Track(t, h), Keeps(s, t)
  PROVE  Keeps(g, h)
  <1>1. g.count <= h.count /\ DOMAIN g.metas \subseteq DOMAIN h.metas
    BY DEF Track, Keeps
  <1>2. ASSUME NEW p \in DOMAIN g.leaves PROVE p \in DOMAIN h.leaves /\ h.leaves[p] = g.leaves[p]
    <2>1. PICK i \in DOMAIN s.leaves : p = KeyPath(i)
      BY DEF Track, SameEntries, LeafTree
    <2>2. i \in DOMAIN t.leaves /\ t.leaves[i] = s.leaves[i]
      BY DEF Keeps
    <2> QED
      BY <2>1, <2>2 DEF Track, SameEntries, LeafTree
  <1> QED
    BY <1>1, <1>2 DEF Keeps

LEMMA AlikeOnlyAppend == Alike => BatchesOnlyAppend
  <1> SUFFICES ASSUME Alike, NEW ops \in Batches(count)
               PROVE  /\ Keeps(memory, MemoryApply(memory, ops))
                      /\ Keeps(git, GitApply(git, ops))
                      /\ (\A i \in DOMAIN ops : ~IsSeed(ops[i])) => Keeps(fjall, FjallApply(fjall, ops))
    BY DEF BatchesOnlyAppend, Keeps
  <1>1. /\ Track(memory, git) /\ LeavesInPlace(memory) /\ memory = fjall
        /\ count \in Nat /\ count \in Keys /\ count + 1 \in Keys
    BY LogTracks
  <1>2. Keeps(memory, memory) /\ Keeps(git, git)
    BY <1>1 DEF Track, Keeps
  <1>3. Keeps(memory, MemoryApply(memory, ops))
    <2>1. Dense(memory)
      <3>1. CASE memory.leaves = <<>>
        <4>1. DOMAIN memory.leaves = 0..0 - 1
          BY <3>1
        <4> QED
          BY <1>1, <4>1 DEF Dense, Track
      <3>2. CASE memory.leaves # <<>>
        BY <1>1, <3>2 DEF Dense, LeavesInPlace
      <3> QED
        BY <3>1, <3>2
    <2>2. MemoryAccepts(memory, ops) => Keeps(memory, MemoryWrites(memory, ops))
      BY <1>1, <2>1, MemoryKeeps
    <2> QED
      BY <1>2, <2>2 DEF MemoryApply, MemoryWrites
  <1>4. Keeps(git, GitApply(git, ops))
    <2> DEFINE h == GitWrites(git, ops)
    <2>1. CASE GitAccepts(git, ops)
      <3>1. GitApply(git, ops) = ProjectEpochs(h) /\ GitProjects(Start(git), ops).ok
        BY <2>1, GitAcceptance
      <3>2. MemoryAccepts(memory, ops)
        BY <1>1, <3>1, ChecksAlike
      <3>3. Track(FjallWrites(memory, ops), h) /\ Keeps(memory, FjallWrites(memory, ops))
        BY <1>1, <3>2, AfterBatch
      <3>4. Keeps(git, h)
        BY <1>1, <3>3, GitKeeps
      <3>5. ProjectEpochs(h).count = h.count /\ ProjectEpochs(h).leaves = h.leaves
              /\ DOMAIN ProjectEpochs(h).metas = DOMAIN h.metas
        BY ProjectionOnBatch
      <3> HIDE DEF h
      <3> QED
        BY <3>1, <3>4, <3>5 DEF Keeps
    <2> QED
      BY <1>2, <2>1, GitAcceptance
  <1>5. ASSUME \A i \in DOMAIN ops : ~IsSeed(ops[i])
        PROVE  Keeps(fjall, FjallApply(fjall, ops))
    <2>1. FjallAccepts(memory, ops) => Keeps(memory, FjallWrites(memory, ops))
      BY <1>1, <1>5, FjallKeeps
    <2> QED
      BY <1>1, <1>2, <2>1 DEF FjallApply, FjallWrites
  <1> QED
    BY <1>3, <1>4, <1>5

\* Whatever batch of up to two operations a caller comes with on the store of any
\* log, no backend lets it set the count back, replace a payload or forget an
\* algorithm (fjall not without the batches that hold a seed).
THEOREM BatchesTakeNothing == StoredSpec => []BatchesOnlyAppend
  BY InitAlike, StepAlike, AlikeOnlyAppend, PTL DEF StoredSpec

=============================================================================
