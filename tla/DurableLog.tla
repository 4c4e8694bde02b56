----------------------------- MODULE DurableLog -----------------------------
(***************************************************************************)
(* What a log kept in GitStorage promises to the one process that uses it: *)
(* the batches applied, and how many of them are durable.  Crashes do not  *)
(* show.  A power loss makes the log one of the states it ever had, usually *)
(* an earlier one, but always one that has everything durable.             *)
(***************************************************************************)
EXTENDS SequencesExt

CONSTANT Batch

VARIABLES log, durable, past

Init == log = <<>> /\ durable = <<>> /\ past = {<<>>}

Apply ==
  /\ \E b \in Batch : log' = Append(log, b)
  /\ past' = past \cup {log'}
  /\ UNCHANGED durable

Checkpoint == durable' = log /\ UNCHANGED <<log, past>>

PowerLoss ==
  /\ log' \in {s \in past : IsPrefix(durable, s)}
  /\ UNCHANGED <<durable, past>>

Next == Apply \/ Checkpoint \/ PowerLoss

Spec == Init /\ [][Next]_<<log, durable, past>>
=============================================================================
