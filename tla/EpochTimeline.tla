--------------------------- MODULE EpochTimeline ---------------------------
(***************************************************************************)
(* What a log promises about activation, abstracted from every digest: how *)
(* many positions it has and which algorithms were active at each.         *)
(*                                                                         *)
(* A client may take a checkpoint at any time: the size and the committed  *)
(* timeline an AuditPayload would carry.  It keeps it while the log goes   *)
(* on and later compares it with the log's timeline.                       *)
(***************************************************************************)
EXTENDS Epochs

CONSTANTS
  Algs,         \* algorithm identifiers
  Genesis,      \* the algorithm a new log registers (id 0 in the code)
  MaxCount,     \* the log's capacity (2^47 in the code)
  MaxToggles    \* bound: how often each algorithm is removed or resumed

ASSUME TimelineAssumption ==
  /\ Genesis \in Algs
  /\ MaxCount \in Nat
  /\ MaxCount < Open
  /\ MaxToggles \in [Algs -> Nat]

VARIABLES
  count,        \* positions appended so far
  epochs,       \* epochs[a]: a's intervals, <<>> when a is not registered
  checkpoint    \* [size, epochs] as a client recorded them

vars == <<count, epochs, checkpoint>>

-----------------------------------------------------------------------------

Registered(a) == epochs[a] # <<>>

\* Registration, removals and resumptions a has seen, read off its intervals;
\* all but the registration count against MaxToggles.
Toggles(a) == 2 * Len(epochs[a]) - (IF IsActive(epochs[a]) THEN 1 ELSE 0)

\* The timeline a reader is shown for `size`: algorithms without an interval
\* starting by then are not in it.
CommittedEpochsAt(size) == [a \in Algs |-> EpochsAt(epochs[a], size)]

Init ==
  /\ count = 0
  /\ epochs = [a \in Algs |-> IF a = Genesis THEN <<<<0, Open>>>> ELSE <<>>]
  /\ checkpoint = [size |-> 0, epochs |-> epochs]

AddAlgorithm(a) ==
  /\ ~Registered(a)
  /\ epochs' = [epochs EXCEPT ![a] = <<<<count, Open>>>>]
  /\ UNCHANGED <<count, checkpoint>>

\* The interval is closed one position early.
RemoveAlgorithmEarly(a) ==
  /\ IsActive(epochs[a])
  /\ Toggles(a) <= MaxToggles[a]
  /\ epochs' = [epochs EXCEPT ![a][Len(epochs[a])][2] = IF count > 0 THEN count - 1 ELSE 0]
  /\ UNCHANGED <<count, checkpoint>>

RemoveAlgorithm(a) ==
  /\ IsActive(epochs[a])
  /\ Toggles(a) <= MaxToggles[a]
  /\ epochs' = [epochs EXCEPT ![a][Len(epochs[a])][2] = count]
  /\ UNCHANGED <<count, checkpoint>>

\* The last interval is reopened instead of a new one started.
ResumeAlgorithmReopening(a) ==
  /\ Registered(a)
  /\ ~IsActive(epochs[a])
  /\ Toggles(a) <= MaxToggles[a]
  /\ epochs' = [epochs EXCEPT ![a][Len(epochs[a])][2] = Open]
  /\ UNCHANGED <<count, checkpoint>>

ResumeAlgorithm(a) ==
  /\ Registered(a)
  /\ ~IsActive(epochs[a])
  /\ Toggles(a) <= MaxToggles[a]
  /\ epochs' = [epochs EXCEPT ![a] = Append(@, <<count, Open>>)]
  /\ UNCHANGED <<count, checkpoint>>

\* The capacity is not looked at.
AppendPositionUncapped ==
  /\ \E a \in Algs : IsActive(epochs[a])
  /\ count' = count + 1
  /\ UNCHANGED <<epochs, checkpoint>>

\* An append is refused at capacity and when no algorithm is active.
AppendPosition ==
  /\ count < MaxCount
  /\ \E a \in Algs : IsActive(epochs[a])
  /\ count' = count + 1
  /\ UNCHANGED <<epochs, checkpoint>>

TakeCheckpoint ==
  /\ checkpoint' = [size |-> count, epochs |-> CommittedEpochsAt(count)]
  /\ UNCHANGED <<count, epochs>>

Next ==
  \/ AppendPosition
  \/ TakeCheckpoint
  \/ \E a \in Algs : AddAlgorithm(a) \/ RemoveAlgorithm(a) \/ ResumeAlgorithm(a)

Spec == Init /\ [][Next]_vars

-----------------------------------------------------------------------------

\* The shape of the state: every registered algorithm's intervals are pairs of
\* positions or Open, and the checkpoint is a timeline of the same shape.
TypeOK ==
  /\ count \in 0..MaxCount
  /\ epochs \in [Algs -> Seq(Interval)]
  /\ checkpoint \in [size : 0..MaxCount, epochs : [Algs -> Seq(Interval)]]

\* The log's own timeline always passes the validation the log applies when it
\* is reloaded (validate_epochs): no sequence of add, remove, resume and append
\* produces a store that from_storage would refuse.
EpochsValid ==
  \A a \in Algs : Registered(a) => ValidEpochs(epochs[a], count)

\* An append-only evolution is what an honest log shows: whatever a client
\* checkpointed, at whatever size and however many operations ago, the log's
\* present committed timeline is accepted by verify_epoch_evolution.
EvolutionAccepted ==
  VerifyEpochEvolution(checkpoint.epochs, checkpoint.size, CommittedEpochsAt(count), count)

\* Activity at a position that exists is never rewritten, by any operation.
PastActivityFixed ==
  [][\A a \in Algs : \A i \in 0..count - 1 :
       IsActiveAt(epochs'[a], i) <=> IsActiveAt(epochs[a], i)]_vars

\* The timeline committed for a size the log has grown past never changes, so
\* an AuditPayload rebuilt for it carries the same timeline as the original.
PastTimelineFixed ==
  [][\A n \in 0..count - 1 : CommittedEpochsAt(n)' = CommittedEpochsAt(n)]_vars
=============================================================================
