-------------------------- MODULE MCAudioBroadcast --------------------------
(***************************************************************************)
(* Instances of AudioBroadcast for TLC.  Listen requests, a recording (or  *)
(* the stream relay, which attaches the same way), the poll loop and a     *)
(* change of settings.                                                     *)
(***************************************************************************)
EXTENDS AudioBroadcast, TLC

CONSTANTS listen, listen2, record, poll, owner

ConsumersSmall == {listen, record}
ConsumersListen == {listen, listen2}
RecordersOne == {record}
ReapersTwo == {poll, owner}
ReapersOne == {poll}
NoConsumers == {}

Symmetry == Permutations(Gens) \cup Permutations(Nodes)
=============================================================================
