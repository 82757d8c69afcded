------------------------------ MODULE Filters ------------------------------
(***************************************************************************)
(* Who wrote an object last (src/src/filters.rs), as the watches ask it of *)
(* the managedFields of every event they receive.                          *)
(*                                                                         *)
(* The API server (external) keeps one entry per manager, with the time of *)
(* its last write in whole seconds.  A write replaces the entry of its     *)
(* manager and may take over all the fields of others, whose entries then  *)
(* vanish; the order of the entries is the server's business.  A write     *)
(* that only removes fields of others, and so leaves no entry, is left out.*)
(***************************************************************************)
EXTENDS Naturals, Sequences

CONSTANTS
  Managers,      \* the other field managers, named or not
  Untimed,       \* those among them whose entries have no time
  MaxClock       \* bound: seconds

SINKER == "sinker.influxdata.io"
NoTime == 0    \* the clock starts at 1

ASSUME FiltersAssumption ==
  /\ SINKER \notin Managers
  /\ Untimed \subseteq Managers
  /\ MaxClock \in Nat \ {0}

VARIABLES
  clock,         \* the API server's, in seconds
  fields,        \* metadata.managedFields
  writer         \* who wrote the object last

filterVars == <<clock, fields, writer>>

Writers == Managers \cup {SINKER}
Entries == [manager : Writers, time : 0..MaxClock]

FiltersTypeOK ==
  /\ clock \in 1..MaxClock
  /\ fields \in Seq(Entries)
  /\ writer \in Writers

Listed(seq) == {seq[i] : i \in 1..Len(seq)}

(***************************************************************************)
(* was_last_modified_by.                                                   *)
(***************************************************************************)

\* Mutant: the first of the list is taken for the newest.
FirstEntry(seq) == seq[1]

\* max_by_key: the newest entry, and of several the last in the list.
MostRecent(seq) ==
  seq[CHOOSE i \in 1..Len(seq) :
        \A j \in 1..Len(seq) :
          seq[j].time < seq[i].time \/ (seq[j].time = seq[i].time /\ j <= i)]

\* None, Some(true) or Some(false); an object without managedFields is like one
\* with an empty list.
was_last_modified_by(seq, manager) ==
  CASE seq = <<>> -> "unknown"
    [] seq # <<>> /\ (\E e \in Listed(seq) : e.time = NoTime) -> "unknown"
    [] seq # <<>> /\ (\A e \in Listed(seq) : e.time # NoTime) ->
         IF MostRecent(seq).manager = manager THEN "yes" ELSE "no"

(***************************************************************************)
(* The API server.                                                         *)
(***************************************************************************)

\* The lists of at most n entries that have exactly these, each once.
Arrangements(set, n) ==
  {seq \in UNION {[1..len -> set] : len \in 0..n} :
     Listed(seq) = set /\ \A i, j \in 1..Len(seq) : seq[i] = seq[j] => i = j}

FiltersInit ==
  /\ clock = 1
  /\ fields = <<>>
  /\ writer \in Managers

Tick ==
  /\ clock < MaxClock
  /\ clock' = clock + 1
  /\ UNCHANGED <<fields, writer>>

Entry(m) == [manager |-> m, time |-> IF m \in Untimed THEN NoTime ELSE clock]

Others(m) == {e \in Listed(fields) : e.manager # m}

Write(m) ==
  /\ \E kept \in SUBSET Others(m) :
       fields' \in Arrangements(kept \cup {Entry(m)}, Len(fields) + 1)
  /\ writer' = m
  /\ UNCHANGED clock

FiltersNext == Tick \/ \E m \in Writers : Write(m)

FiltersSpec == FiltersInit /\ [][FiltersNext]_filterVars

(***************************************************************************)
(* Properties.                                                             *)
(***************************************************************************)

\* Sinker and somebody else both have an entry of the newest second in the list.
Contested ==
  \E ours, theirs \in Listed(fields) :
    /\ ours.manager = SINKER
    /\ theirs.manager # SINKER
    /\ ours.time = theirs.time
    /\ \A e \in Listed(fields) : e.time <= ours.time

\* The answer, when there is one, is right: a change by somebody else is not taken
\* for one of ours, which the watches ignore, and our own write not for somebody
\* else's, which would be reconciled again.  What it takes for a wrong answer is that
\* Sinker and somebody else wrote within the second of the last write; a manager
\* without times, an old entry or the order of the list is never enough.
LastWriterKnown ==
  LET answer == was_last_modified_by(fields, SINKER) IN
  answer # "unknown" => (answer = "yes" <=> writer = SINKER) \/ Contested

\* latest_entry_wins_regardless_of_position: the answer does not depend on the
\* order of the entries.
RegardlessOfPosition ==
  \A seq \in Arrangements(Listed(fields), Len(fields)) :
    was_last_modified_by(seq, SINKER) = was_last_modified_by(fields, SINKER)

(***************************************************************************)
(* The cases of the tests, with 1 for EPOCH and 2 for NOW.                 *)
(***************************************************************************)

At(manager, time) == [manager |-> manager, time |-> time]

test_was_last_modified_by ==
  {[fields |-> <<>>, expected |-> "unknown"],
   [fields |-> <<At(SINKER, 2), At("external-manager", 1)>>, expected |-> "yes"],
   [fields |-> <<At("external-manager", 2), At(SINKER, 1)>>, expected |-> "no"],
   [fields |-> <<At(SINKER, 2), At("external-manager", NoTime)>>, expected |-> "unknown"]}

latest_entry_wins ==
  UNION {{[fields |-> <<At(SINKER, 1), At(c[1], 2)>>, expected |-> c[2]],
          [fields |-> <<At(c[1], 2), At(SINKER, 1)>>, expected |-> c[2]]} :
         c \in {<<"unknown", "no">>, <<SINKER, "yes">>, <<"external", "no">>}}

\* At the start the model answers as the tests expect of the code.
ConformsToTests ==
  fields = <<>> => \A c \in test_was_last_modified_by \cup latest_entry_wins :
    was_last_modified_by(c.fields, SINKER) = c.expected
=============================================================================
