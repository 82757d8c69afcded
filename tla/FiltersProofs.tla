--------------------------- MODULE FiltersProofs ---------------------------
(***************************************************************************)
(* Theorems about Filters, for every value of its constants.               *)
(***************************************************************************)
EXTENDS Filters, WellFoundedInduction, TLAPS

USE FiltersAssumption

\* LastWriterKnown is not inductive: that no entry is newer than the last writer's
\* rests on the clock having passed the time of every entry.
Newest(e) ==
  /\ e \in Listed(fields)
  /\ e.manager = writer
  /\ e.time # NoTime => \A x \in Listed(fields) : x.time <= e.time

FiltersInv ==
  /\ FiltersTypeOK
  /\ \A x \in Listed(fields) : x.time <= clock
  /\ fields = <<>> \/ \E e \in Entries : Newest(e)

LEMMA ArrangementFacts ==
  ASSUME NEW set, NEW n \in Nat, NEW seq \in Arrangements(set, n)
  PROVE  /\ seq \in Seq(set)
         /\ Listed(seq) = set
<1>1. PICK len \in 0..n : seq \in [1..len -> set]
  BY DEF Arrangements
<1> QED
  BY <1>1 DEF Arrangements

\* A set of indices of a list has a greatest one: its distance from the end is least.
LEMMA Greatest ==
  ASSUME NEW n \in Nat, NEW T \in SUBSET (1..n), T # {}
  PROVE  \E i \in T : \A j \in T : j <= i
<1> DEFINE D == {n - i : i \in T}
           Lower == {ss \in Nat \X Nat : ss[1] < ss[2]}
<1>1. IsWellFoundedOn(Lower, Nat)
  BY NatLessThanWellFounded DEF OpToRel
<1>2. D \subseteq Nat /\ D # {}
  <2>1. \A i \in T : n - i \in Nat
    OBVIOUS
  <2>2. PICK i \in T : TRUE
    OBVIOUS
  <2>3. n - i \in D
    OBVIOUS
  <2> QED
    BY <2>1, <2>3
<1> HIDE DEF D
<1>3. PICK d \in D : \A y \in D : ~(<<y, d>> \in Lower)
  BY <1>1, <1>2, WFMin
<1>4. PICK i \in T : d = n - i
  BY <1>3 DEF D
<1>5. \A j \in T : n - j \in D /\ n - j \in Nat /\ n - i \in Nat
  BY <1>4 DEF D
<1>6. \A j \in T : ~(n - j < n - i)
  BY <1>3, <1>4, <1>5
<1> QED
  BY <1>4, <1>6

\* max_by_key finds an entry of the newest second, whichever that second is.
LEMMA MostRecentIsNewest ==
  ASSUME NEW seq \in Seq(Entries), NEW e \in Listed(seq),
         \A x \in Listed(seq) : x.time <= e.time
  PROVE  MostRecent(seq) \in Listed(seq) /\ MostRecent(seq).time = e.time
<1> DEFINE Last(i) == \A j \in 1..Len(seq) :
             seq[j].time < seq[i].time \/ (seq[j].time = seq[i].time /\ j <= i)
           T == {i \in 1..Len(seq) : seq[i].time = e.time}
<1>1. PICK n \in 1..Len(seq) : seq[n] = e
  BY DEF Listed
<1>2. Len(seq) \in Nat /\ \A j \in 1..Len(seq) : seq[j] \in Entries /\ seq[j].time <= e.time
  BY DEF Listed
<1>3. e.time \in Nat /\ \A j \in 1..Len(seq) : seq[j].time \in Nat
  BY <1>1, <1>2 DEF Entries
<1>4. PICK i \in T : \A j \in T : j <= i
  <2>1. T \in SUBSET (1..Len(seq)) /\ T # {}
    BY <1>1
  <2> HIDE DEF T
  <2> QED
    BY <1>2, <2>1, Greatest
<1>5. i \in 1..Len(seq) /\ Last(i)
  BY <1>2, <1>3, <1>4
<1>6. \A k \in 1..Len(seq) : Last(k) => seq[k].time = e.time
  BY <1>1, <1>2, <1>3
<1> HIDE DEF Last
<1>7. /\ (CHOOSE k \in 1..Len(seq) : Last(k)) \in 1..Len(seq)
      /\ Last(CHOOSE k \in 1..Len(seq) : Last(k))
  BY <1>5
<1>8. MostRecent(seq) = seq[CHOOSE k \in 1..Len(seq) : Last(k)]
  BY DEF MostRecent, Last
<1> QED
  BY <1>6, <1>7, <1>8 DEF Listed

LEMMA FiltersInvInit == FiltersInit => FiltersInv
<1> SUFFICES ASSUME FiltersInit PROVE FiltersInv
  OBVIOUS
<1>1. Listed(fields) = {}
  BY DEF FiltersInit, Listed
<1>2. fields = <<>> /\ fields \in Seq(Entries)
  BY DEF FiltersInit
<1>3. clock \in 1..MaxClock
  BY DEF FiltersInit
<1>4. writer \in Writers
  BY Zenon DEF FiltersInit, Writers
<1> QED
  BY <1>1, <1>2, <1>3, <1>4 DEF FiltersInv, FiltersTypeOK

LEMMA TickInv ==
  ASSUME FiltersInv, Tick
  PROVE  FiltersInv'
<1>1. /\ fields' = fields /\ writer' = writer /\ clock' = clock + 1
      /\ clock \in 1..MaxClock /\ clock' \in 1..MaxClock
  BY DEF Tick, FiltersInv, FiltersTypeOK
<1>2. Listed(fields)' = Listed(fields)
  BY <1>1 DEF Listed
<1>3. \A x \in Listed(fields) : x.time \in Nat
  <2>1. \A x \in Listed(fields) : x \in Entries
    BY DEF FiltersInv, FiltersTypeOK, Listed
  <2>2. \A x \in Entries : x.time \in Nat
    BY DEF Entries
  <2> QED
    BY <2>1, <2>2
<1>4. \A x \in Listed(fields)' : x.time <= clock'
  BY <1>1, <1>2, <1>3 DEF FiltersInv
<1>5. FiltersTypeOK'
  BY <1>1 DEF FiltersInv, FiltersTypeOK
<1>6. \A e \in Entries : Newest(e)' <=> Newest(e)
  BY <1>1, <1>2 DEF Newest
<1> QED
  BY <1>1, <1>4, <1>5, <1>6 DEF FiltersInv

LEMMA WriteInv ==
  ASSUME FiltersInv, NEW m \in Writers, Write(m)
  PROVE  FiltersInv'
<1>1. PICK kept \in SUBSET Others(m) :
        fields' \in Arrangements(kept \cup {Entry(m)}, Len(fields) + 1)
  BY DEF Write
<1>2. /\ writer' = m /\ clock' = clock
      /\ clock \in 1..MaxClock /\ Len(fields) + 1 \in Nat
  BY DEF Write, FiltersInv, FiltersTypeOK
<1>3. Entry(m) \in Entries /\ Entry(m).manager = m /\ Entry(m).time \in {NoTime, clock}
  BY <1>2 DEF Entry, Entries, NoTime
<1>4. \A x \in kept : x \in Entries /\ x.time <= clock
  BY DEF Others, Listed, FiltersInv, FiltersTypeOK
<1> DEFINE set == kept \cup {Entry(m)}
<1>5. set \subseteq Entries /\ \A x \in set : x.time <= clock
  BY <1>2, <1>3, <1>4 DEF NoTime
<1> HIDE DEF set
<1>6. fields' \in Seq(set) /\ Listed(fields)' = set
  <2>1. fields' \in Arrangements(set, Len(fields) + 1)
    BY <1>1 DEF set
  <2>2. Listed(fields') = set /\ fields' \in Seq(set)
    BY <1>2, <2>1, ArrangementFacts
  <2>3. Listed(fields)' = Listed(fields')
    BY DEF Listed
  <2> QED
    BY <2>2, <2>3
<1>7. FiltersTypeOK'
  BY <1>2, <1>5, <1>6 DEF FiltersTypeOK
<1>8. \A x \in Listed(fields)' : x.time <= clock'
  BY <1>2, <1>5, <1>6
<1>9. \E e \in Entries : Newest(e)'
  <2>1. Entry(m) \in set
    BY DEF set
  <2>2. Entry(m).time # NoTime => \A x \in set : x.time <= Entry(m).time
    BY <1>3, <1>5
  <2>3. PICK e \in Entries : e = Entry(m)
    BY <1>3
  <2>4. Newest(e)'
    BY <1>2, <1>3, <1>6, <2>1, <2>2, <2>3 DEF Newest
  <2> QED
    BY <2>4
<1> QED
  BY <1>7, <1>8, <1>9 DEF FiltersInv

\* Whenever was_last_modified_by gives an answer, the answer is right or Sinker and
\* somebody else both have an entry of the newest second: however close the writes
\* are, however the API server orders the entries and whoever takes over whose fields.
THEOREM LastWriterFound == FiltersSpec => []LastWriterKnown
<1>1. FiltersInit => FiltersInv
  BY FiltersInvInit
<1>2. FiltersInv /\ [FiltersNext]_filterVars => FiltersInv'
  <2>1. ASSUME FiltersInv, UNCHANGED filterVars PROVE FiltersInv'
    BY <2>1 DEF filterVars, FiltersInv, FiltersTypeOK, Newest, Listed
  <2> QED
    BY <2>1, TickInv, WriteInv DEF FiltersNext
<1>3. FiltersInv => LastWriterKnown
  <2> DEFINE found == MostRecent(fields)
  <2> SUFFICES ASSUME FiltersInv, fields # <<>>, \A e \in Listed(fields) : e.time # NoTime,
                      ~(found.manager = SINKER <=> writer = SINKER)
               PROVE  Contested
    BY DEF LastWriterKnown, was_last_modified_by
  <2>1. PICK e \in Entries : Newest(e)
    BY DEF FiltersInv
  <2>2. e \in Listed(fields) /\ e.manager = writer /\ \A x \in Listed(fields) : x.time <= e.time
    BY <2>1 DEF Newest
  <2>3. found \in Listed(fields) /\ found.time = e.time
    BY <2>2, MostRecentIsNewest DEF FiltersInv, FiltersTypeOK
  <2> HIDE DEF found
  <2>4. CASE found.manager = SINKER /\ writer # SINKER
    BY <2>2, <2>3, <2>4 DEF Contested
  <2>5. CASE found.manager # SINKER /\ writer = SINKER
    BY <2>2, <2>3, <2>5 DEF Contested
  <2> QED
    BY <2>4, <2>5
<1> QED
  BY <1>1, <1>2, <1>3, PTL DEF FiltersSpec
=============================================================================
