--------------------------- MODULE MCWatchService ---------------------------
(***************************************************************************)
(* Instances of WatchService for TLC.                                      *)
(***************************************************************************)
EXTENDS WatchService

\* One sync from "src" to "tgt".
OneSync == {"one"}
OneSource == [s \in OneSync |-> "src"]
OneTarget == [s \in OneSync |-> "tgt"]
=============================================================================
