----------------------------- MODULE MCSyncLive -----------------------------
(***************************************************************************)
(* An instance for progress: two groups of one server-owned field each, of *)
(* which the network may withhold one.                                     *)
(***************************************************************************)
EXTENDS ResourceSyncLive

MCSetting      == {"setting"}
MCSettingOwner == [f \in MCSetting |-> "server"]
MCSettingValid == [MCSetting -> 0 .. MaxValue]
=============================================================================
