---------------------------- MODULE MCController ----------------------------
(***************************************************************************)
(* Instances of Controller for TLC.                                        *)
(***************************************************************************)
EXTENDS Controller

\* A mapping that is not the identity, and has no image for data but "a" and "b".
Swap == [d \in Data |-> CASE d = "a" -> "b" [] d = "b" -> "a" [] OTHER -> NoData]

\* One sync from "src" to "tgt".
OneSync == {"one"}
OneSource == [s \in OneSync |-> "src"]
OneTarget == [s \in OneSync |-> "tgt"]
OneMapping == [s \in OneSync |-> Swap]

\* Two syncs: of one source to one target, for which they want different data, and
\* one after the other.
TwoSyncs == {"one", "two"}
SharedSource == [s \in TwoSyncs |-> "src"]
ChainSource == [s \in TwoSyncs |-> IF s = "one" THEN "src" ELSE "tgt"]
ChainTarget == [s \in TwoSyncs |-> IF s = "one" THEN "tgt" ELSE "copy"]
SharedTarget == [s \in TwoSyncs |-> "tgt"]
TwoMapping == [s \in TwoSyncs |-> Swap]
RivalMapping == [s \in TwoSyncs |-> IF s = "one" THEN [d \in Data |-> d] ELSE Swap]

\* Both syncs are settled, and one of them has applied the target last: of its write
\* the other has been told nothing, because Sinker ignores its own.
AtWork == [phase |-> "live", uid |-> 1, fins |-> {FINALIZER}, force |-> FALSE, disable |-> FALSE]

Settle ==
  /\ obj = [src |-> Fresh("a"),
            tgt |-> [phase |-> "live", data |-> "a", by |-> "us", owner |-> <<"one", 1>>]]
  /\ backlog = [k \in Keys |-> <<>>]
  /\ watcher = [k \in Keys |-> "watching"]
  /\ cancelled = {} /\ pending = {} /\ reachable = Syncs /\ edits = 0 /\ faults = 0
  /\ watching = Keys /\ joining = NoKey /\ pc = [s \in Syncs |-> "idle"] /\ mode = "up"
  /\ rs = [s \in Syncs |-> AtWork]
  /\ status = [s \in Syncs |-> [value |-> "False", since |-> 0, generation |-> 1]]
  /\ cache = rs
  /\ feed = [s \in Syncs |-> <<>>]
  /\ past = [s \in Syncs |-> <<>>]
  /\ snap = [s \in Syncs |-> Gone(0)]
  /\ work = [s \in Syncs |-> NoWork]
  /\ crashes = 0

SettledSpec == Settle /\ [][Next]_vars /\ Fairness
=============================================================================
