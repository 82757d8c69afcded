--------------------------- MODULE MappingProofs ---------------------------
(***************************************************************************)
(* The target that spec.mappings makes is well formed, has the identity of *)
(* the target reference and no field twice; a replacement starts over, and *)
(* what an entry wrote stays until a later entry writes there; an object   *)
(* comes out of a container as it went in.  All this for all sources, all  *)
(* lists of entries and all paths, by induction on lists and on paths.     *)
(***************************************************************************)
EXTENDS Mapping, SequenceTheorems, WellFoundedInduction, TLAPS

KnownFields == TextFields \cup MapFields
Reserved == TypeFields \cup {"metadata"}

\* A template has three parts; its metadata is ObjectMeta without nulls, its type
\* a type.
WellFormed(t) ==
  /\ DOMAIN t = {"types", "data", "metadata"}
  /\ ValidMeta(t.metadata)
  /\ DOMAIN t.metadata \subseteq KnownFields
  /\ \A f \in DOMAIN t.metadata : t.metadata[f] # Null
  /\ IsTypeMeta(t.types)
  /\ t.data = [f \in DOMAIN t.data |-> t.data[f]]

\* The field f of the metadata is as the target reference has it.
Own(t, f) == Field(Obj(t.metadata), f) = Field(Obj(Identity(Target)), f)

\* No field of the data is one of the object too.
Disjoint(t) == DOMAIN t.data \cap Reserved = {}

\* The entries that concern neither the field f of the metadata nor, as data, a
\* field of the object.
Spares(m, f) == m.to # NoPath => ~Overlap(<<"metadata", f>>, m.to[2])
Decent(m) == m.to # NoPath => IsMetaPath(m.to[2]) \/ m.to[2][1] \notin Reserved

(***************************************************************************)
(* Induction.  The natural numbers are well founded, so that a set of them *)
(* that is not empty has a least one, and a set that has 0 and, with every *)
(* number, the next has all of them.                                       *)
(***************************************************************************)

Lower == {ss \in Nat \X Nat : ss[1] < ss[2]}

LEMMA Least ==
  ASSUME NEW T, T \subseteq Nat, T # {}
  PROVE  \E x \in T : \A y \in T : ~(y < x)
<1>1. IsWellFoundedOn(Lower, Nat)
  BY NatLessThanWellFounded DEF OpToRel, Lower
<1>2. PICK x \in T : \A y \in T : ~ (<<y, x>> \in Lower)
  BY <1>1, WFMin
<1> QED
  BY <1>2 DEF Lower

LEMMA Counting ==
  ASSUME NEW S, 0 \in S, \A n \in Nat : n \in S => n + 1 \in S
  PROVE  Nat \subseteq S
<1> DEFINE T == Nat \ S
<1>1. SUFFICES ASSUME T # {}
               PROVE  FALSE
  OBVIOUS
<1>2. T \subseteq Nat
  OBVIOUS
<1> HIDE DEF T
<1>3. PICK x \in T : \A y \in T : ~(y < x)
  BY <1>1, <1>2, Least
<1>4. x \in Nat /\ x # 0
  BY <1>3 DEF T
<1>5. x - 1 \in T
  BY <1>3, <1>4 DEF T
<1> QED
  BY <1>3, <1>4, <1>5

(***************************************************************************)
(* What the recursive functions of the model compute.  Each is shown to    *)
(* exist on its first n arguments, for every n; that is enough for it to   *)
(* satisfy its own definition.                                             *)
(***************************************************************************)

\* The walk of set_field_path along the keys.
IsWalk(h, root, keys, n) ==
  h = [k \in 0..n |->
         IF k = 0 THEN root
         ELSE LET v == h[k - 1] IN IF Has(v, keys[k]) THEN v[2][keys[k]] ELSE Obj(NoFields)]

LEMMA WalkExists ==
  ASSUME NEW root, NEW keys, NEW n \in Nat
  PROVE  \E h : IsWalk(h, root, keys, n)
<1> DEFINE S == {k \in Nat : \E h : IsWalk(h, root, keys, k)}
<1>1. 0 \in S
  <2>1. IsWalk([k \in 0..0 |-> root], root, keys, 0)
    BY DEF IsWalk
  <2> QED
    BY <2>1
<1>2. ASSUME NEW k \in Nat, k \in S
      PROVE  k + 1 \in S
  <2>1. PICK h : IsWalk(h, root, keys, k)
    BY <1>2
  <2> DEFINE On(v, key) == IF Has(v, key) THEN v[2][key] ELSE Obj(NoFields)
             g == [j \in 0..k + 1 |-> IF j <= k THEN h[j] ELSE On(h[k], keys[k + 1])]
  <2>2. \A j \in 0..k : h[j] = IF j = 0 THEN root ELSE On(h[j - 1], keys[j])
    BY <2>1 DEF IsWalk
  <2> HIDE DEF On
  <2>3. \A j \in 0..k + 1 : g[j] = IF j = 0 THEN root ELSE On(g[j - 1], keys[j])
    <3> SUFFICES ASSUME NEW j \in 0..k + 1
                 PROVE  g[j] = IF j = 0 THEN root ELSE On(g[j - 1], keys[j])
      OBVIOUS
    <3>1. CASE j <= k
      <4>1. g[j] = h[j] /\ (j # 0 => g[j - 1] = h[j - 1])
        BY <3>1
      <4> QED
        BY <2>2, <3>1, <4>1
    <3>2. CASE ~(j <= k)
      <4>1. j = k + 1 /\ j # 0 /\ j - 1 = k
        BY <3>2
      <4>2. g[j] = On(h[k], keys[k + 1]) /\ g[k] = h[k]
        BY <4>1
      <4> QED
        BY <4>1, <4>2
    <3> QED
      BY <3>1, <3>2
  <2>4. g = [j \in 0..k + 1 |-> g[j]]
    OBVIOUS
  <2> HIDE DEF g
  <2>5. IsWalk(g, root, keys, k + 1)
    BY <2>3, <2>4 DEF IsWalk, On
  <2> QED
    BY <2>5
<1> HIDE DEF S
<1>3. Nat \subseteq S
  BY <1>1, <1>2, Counting
<1> QED
  BY <1>3 DEF S

LEMMA Walk ==
  ASSUME NEW root, NEW keys, Len(keys) \in Nat
  PROVE  LET h == Holders(root, keys) IN
         /\ h[0] = root
         /\ \A k \in 1..Len(keys) :
              h[k] = IF Has(h[k - 1], keys[k]) THEN h[k - 1][2][keys[k]] ELSE Obj(NoFields)
<1> DEFINE h == Holders(root, keys)
<1>1. IsWalk(h, root, keys, Len(keys))
  <2>1. \E g : IsWalk(g, root, keys, Len(keys))
    BY WalkExists
  <2>2. h = CHOOSE g : IsWalk(g, root, keys, Len(keys))
    BY DEF Holders, IsWalk
  <2> QED
    BY <2>1, <2>2
<1> HIDE DEF h
<1>2. h[0] = root
  BY <1>1 DEF IsWalk
<1>3. \A k \in 1..Len(keys) :
        h[k] = IF Has(h[k - 1], keys[k]) THEN h[k - 1][2][keys[k]] ELSE Obj(NoFields)
  BY <1>1 DEF IsWalk
<1> QED
  BY <1>2, <1>3 DEF h

\* What set_field_path builds, from the leaf upwards.
IsRebuilt(new, root, keys, leaf, first) ==
  new = [n \in first..Len(keys) + 1 |->
           IF n > Len(keys) THEN leaf
           ELSE Obj(With(Holders(root, keys)[n - 1][2], keys[n], new[n + 1]))]

LEMMA RebuiltExists ==
  ASSUME NEW root, NEW keys, Len(keys) \in Nat, NEW leaf
  PROVE  \E new : IsRebuilt(new, root, keys, leaf, 1)
<1> DEFINE L == Len(keys)
           On(n, v) == Obj(With(Holders(root, keys)[n - 1][2], keys[n], v))
           S == {k \in Nat : k <= L => \E new : IsRebuilt(new, root, keys, leaf, L + 1 - k)}
<1>1. 0 \in S
  <2>1. IsRebuilt([n \in L + 1..L + 1 |-> leaf], root, keys, leaf, L + 1)
    BY DEF IsRebuilt
  <2> QED
    BY <2>1
<1>2. ASSUME NEW k \in Nat, k \in S
      PROVE  k + 1 \in S
  <2> SUFFICES ASSUME k + 1 <= L
               PROVE  \E new : IsRebuilt(new, root, keys, leaf, L - k)
    OBVIOUS
  <2> DEFINE f == L - k
  <2>1. f \in 1..L /\ L + 1 - k = f + 1
    OBVIOUS
  <2>2. PICK old : IsRebuilt(old, root, keys, leaf, f + 1)
    BY <1>2, <2>1
  <2> DEFINE new == [n \in f..L + 1 |-> IF n > f THEN old[n] ELSE On(f, old[f + 1])]
  <2>3. \A n \in f + 1..L + 1 : old[n] = IF n > L THEN leaf ELSE On(n, old[n + 1])
    BY <2>2 DEF IsRebuilt
  <2> HIDE DEF On, f
  <2>4. \A n \in f..L + 1 : new[n] = IF n > L THEN leaf ELSE On(n, new[n + 1])
    <3> SUFFICES ASSUME NEW n \in f..L + 1
                 PROVE  new[n] = IF n > L THEN leaf ELSE On(n, new[n + 1])
      OBVIOUS
    <3>1. CASE n > f
      <4>1. new[n] = old[n] /\ (~(n > L) => new[n + 1] = old[n + 1])
        BY <2>1, <3>1
      <4> QED
        BY <2>1, <2>3, <3>1, <4>1
    <3>2. CASE ~(n > f)
      <4>1. n = f /\ ~(n > L)
        BY <2>1, <3>2
      <4>2. new[n] = On(f, old[f + 1]) /\ new[f + 1] = old[f + 1]
        BY <2>1, <4>1
      <4> QED
        BY <4>1, <4>2
    <3> QED
      BY <3>1, <3>2
  <2>5. new = [n \in f..L + 1 |-> new[n]]
    OBVIOUS
  <2> HIDE DEF new
  <2>6. IsRebuilt(new, root, keys, leaf, f)
    BY <2>4, <2>5 DEF IsRebuilt, On
  <2> QED
    BY <2>6 DEF f
<1> HIDE DEF S
<1>3. Nat \subseteq S
  BY <1>1, <1>2, Counting
<1>4. L \in S
  BY <1>3
<1>5. L + 1 - L = 1
  OBVIOUS
<1> QED
  BY <1>4, <1>5 DEF S

Rebuilds(new, root, keys, leaf) ==
  /\ new[Len(keys) + 1] = leaf
  /\ \A n \in 1..Len(keys) :
       new[n] = Obj(With(Holders(root, keys)[n - 1][2], keys[n], new[n + 1]))

LEMMA Rebuilding ==
  ASSUME NEW root, NEW keys, Len(keys) \in Nat, NEW leaf
  PROVE  Rebuilds(Rebuilt(root, keys, leaf), root, keys, leaf)
<1> DEFINE new == Rebuilt(root, keys, leaf)
<1>1. IsRebuilt(new, root, keys, leaf, 1)
  <2>1. \E g : IsRebuilt(g, root, keys, leaf, 1)
    BY RebuiltExists
  <2>2. new = CHOOSE g : IsRebuilt(g, root, keys, leaf, 1)
    BY DEF Rebuilt, IsRebuilt
  <2> QED
    BY <2>1, <2>2
<1> HIDE DEF new
<1>2. new[Len(keys) + 1] = leaf
  BY <1>1 DEF IsRebuilt
<1>3. \A n \in 1..Len(keys) :
        new[n] = Obj(With(Holders(root, keys)[n - 1][2], keys[n], new[n + 1]))
  <2> SUFFICES ASSUME NEW n \in 1..Len(keys)
               PROVE  new[n] = Obj(With(Holders(root, keys)[n - 1][2], keys[n], new[n + 1]))
    OBVIOUS
  <2>1. n \in 1..Len(keys) + 1 /\ ~(n > Len(keys))
    OBVIOUS
  <2> QED
    BY <1>1, <2>1 DEF IsRebuilt
<1> QED
  BY <1>2, <1>3 DEF new, Rebuilds

\* The nodes that a query selects, segment by segment.
IsQuery(nodes, v, segments, n) ==
  nodes = [k \in 0..n |->
             IF k = 0 THEN <<v>>
             ELSE LET above == nodes[k - 1]
                  IN  FlattenSeq([i \in DOMAIN above |-> Below(above[i], segments[k])])]

LEMMA QueryExists ==
  ASSUME NEW v, NEW segments, NEW n \in Nat
  PROVE  \E nodes : IsQuery(nodes, v, segments, n)
<1> DEFINE S == {k \in Nat : \E nodes : IsQuery(nodes, v, segments, k)}
<1>1. 0 \in S
  <2>1. IsQuery([k \in 0..0 |-> <<v>>], v, segments, 0)
    BY DEF IsQuery
  <2> QED
    BY <2>1
<1>2. ASSUME NEW k \in Nat, k \in S
      PROVE  k + 1 \in S
  <2>1. PICK h : IsQuery(h, v, segments, k)
    BY <1>2
  <2> DEFINE On(above, segment) == FlattenSeq([i \in DOMAIN above |-> Below(above[i], segment)])
             g == [j \in 0..k + 1 |-> IF j <= k THEN h[j] ELSE On(h[k], segments[k + 1])]
  <2>2. \A j \in 0..k : h[j] = IF j = 0 THEN <<v>> ELSE On(h[j - 1], segments[j])
    BY <2>1 DEF IsQuery
  <2> HIDE DEF On
  <2>3. \A j \in 0..k + 1 : g[j] = IF j = 0 THEN <<v>> ELSE On(g[j - 1], segments[j])
    <3> SUFFICES ASSUME NEW j \in 0..k + 1
                 PROVE  g[j] = IF j = 0 THEN <<v>> ELSE On(g[j - 1], segments[j])
      OBVIOUS
    <3>1. CASE j <= k
      <4>1. g[j] = h[j] /\ (j # 0 => g[j - 1] = h[j - 1])
        BY <3>1
      <4> QED
        BY <2>2, <3>1, <4>1
    <3>2. CASE ~(j <= k)
      <4>1. j = k + 1 /\ j # 0 /\ j - 1 = k
        BY <3>2
      <4>2. g[j] = On(h[k], segments[k + 1]) /\ g[k] = h[k]
        BY <4>1
      <4> QED
        BY <4>1, <4>2
    <3> QED
      BY <3>1, <3>2
  <2>4. g = [j \in 0..k + 1 |-> g[j]]
    OBVIOUS
  <2> HIDE DEF g
  <2>5. IsQuery(g, v, segments, k + 1)
    BY <2>3, <2>4 DEF IsQuery, On
  <2> QED
    BY <2>5
<1> HIDE DEF S
<1>3. Nat \subseteq S
  BY <1>1, <1>2, Counting
<1> QED
  BY <1>3 DEF S

LEMMA FlattenOne ==
  ASSUME NEW x
  PROVE  FlattenSeq(<<x>>) = x
<1> DEFINE P(g) == g = [i \in 1..1 |-> IF i = 1 THEN <<x>>[i] ELSE g[i - 1] \o <<x>>[i]]
<1>1. P([i \in 1..1 |-> x])
  OBVIOUS
<1>2. FlattenSeq(<<x>>) = (CHOOSE g : P(g))[1]
  BY DEF FlattenSeq
<1>3. \A g : P(g) => g[1] = x
  OBVIOUS
<1> HIDE DEF P
<1>4. P(CHOOSE g : P(g))
  BY <1>1
<1> QED
  BY <1>2, <1>3, <1>4

\* The keys lead from v to x: every one of them is there.
Leads(v, keys, x) ==
  \E p : /\ p[0] = v /\ p[Len(keys)] = x
         /\ \A k \in 1..Len(keys) : Has(p[k - 1], keys[k]) /\ p[k] = p[k - 1][2][keys[k]]

\* Where the keys lead is what the query for them selects.
LEMMA Reading ==
  ASSUME NEW v, NEW K, NEW keys \in Seq(K), NEW x, Leads(v, keys, x)
  PROVE  Query(v, Segments(keys)) = <<x>>
<1> DEFINE L == Len(keys)
           segments == Segments(keys)
           nodes == CHOOSE q : IsQuery(q, v, segments, L)
<1>1. Len(segments) = L /\ L \in Nat /\ \A k \in 1..L : segments[k] = Key(keys[k])
  BY DEF Segments
<1> HIDE DEF L, segments
<1>2. Query(v, segments) = nodes[L]
  BY <1>1 DEF Query, IsQuery
<1>3. IsQuery(nodes, v, segments, L)
  BY <1>1, QueryExists
<1> HIDE DEF nodes
<1>4. /\ nodes[0] = <<v>>
      /\ \A k \in 1..L : nodes[k] =
           FlattenSeq([i \in DOMAIN nodes[k - 1] |-> Below(nodes[k - 1][i], segments[k])])
  <2> DEFINE On(above, segment) == FlattenSeq([i \in DOMAIN above |-> Below(above[i], segment)])
  <2>1. nodes = [k \in 0..L |-> IF k = 0 THEN <<v>> ELSE On(nodes[k - 1], segments[k])]
    BY <1>3 DEF IsQuery
  <2> HIDE DEF On
  <2>2. nodes[0] = <<v>> /\ \A k \in 1..L : nodes[k] = On(nodes[k - 1], segments[k])
    BY <1>1, <2>1
  <2> QED
    BY <2>2 DEF On
<1>5. PICK p : /\ p[0] = v /\ p[L] = x
               /\ \A k \in 1..L : Has(p[k - 1], keys[k]) /\ p[k] = p[k - 1][2][keys[k]]
  BY DEF Leads, L
<1> DEFINE S == {k \in Nat : k <= L => nodes[k] = <<p[k]>>}
<1>6. 0 \in S
  BY <1>4, <1>5
<1>7. ASSUME NEW k \in Nat, k \in S
      PROVE  k + 1 \in S
  <2> SUFFICES ASSUME k + 1 <= L
               PROVE  nodes[k + 1] = <<p[k + 1]>>
    OBVIOUS
  <2>1. nodes[k] = <<p[k]>> /\ k + 1 \in 1..L /\ (k + 1) - 1 = k
    BY <1>1, <1>7
  <2> DEFINE one == Below(p[k], Key(keys[k + 1]))
  <2>2. one = <<p[k + 1]>>
    <3>1. Has(p[k], keys[k + 1]) /\ p[k + 1] = p[k][2][keys[k + 1]]
      BY <1>5, <2>1
    <3> QED
      BY <3>1 DEF Below, Key
  <2>3. nodes[k + 1] = FlattenSeq([i \in DOMAIN nodes[k] |-> Below(nodes[k][i], segments[k + 1])])
    BY <1>4, <2>1
  <2>4. [i \in DOMAIN nodes[k] |-> Below(nodes[k][i], segments[k + 1])] = <<one>>
    <3>1. segments[k + 1] = Key(keys[k + 1])
      BY <1>1, <2>1
    <3> QED
      BY <2>1, <3>1
  <2> HIDE DEF one
  <2> QED
    BY <2>2, <2>3, <2>4, FlattenOne
<1> HIDE DEF S
<1>8. Nat \subseteq S
  BY <1>6, <1>7, Counting
<1> QED
  BY <1>1, <1>2, <1>5, <1>8 DEF S, segments

\* Without keys, a query selects the whole.
LEMMA ReadingAll ==
  ASSUME NEW v
  PROVE  Query(v, << >>) = <<v>>
<1>1. Len(<< >>) = 0
  OBVIOUS
<1>2. Query(v, << >>) = (CHOOSE q : IsQuery(q, v, << >>, 0))[0]
  BY <1>1 DEF Query, IsQuery
<1>3. IsQuery(CHOOSE q : IsQuery(q, v, << >>, 0), v, << >>, 0)
  BY QueryExists
<1> QED
  BY <1>2, <1>3 DEF IsQuery

\* apply_mappings: the outcomes of the loop after none, one, ... of the entries.
IsRun(r, s, ms, target, n) ==
  r = [k \in 0..n |-> IF k = 0 THEN Ok(Blank(target)) ELSE Then(r[k - 1], s, ms[k], target)]

LEMMA RunExists ==
  ASSUME NEW s, NEW ms, NEW target, NEW n \in Nat
  PROVE  \E r : IsRun(r, s, ms, target, n)
<1> DEFINE S == {k \in Nat : \E r : IsRun(r, s, ms, target, k)}
<1>1. 0 \in S
  <2> DEFINE r == [k \in 0..0 |-> Ok(Blank(target))]
  <2>1. IsRun(r, s, ms, target, 0)
    BY DEF IsRun
  <2> QED
    BY <2>1
<1>2. ASSUME NEW k \in Nat, k \in S
      PROVE  k + 1 \in S
  <2>1. PICK r : IsRun(r, s, ms, target, k)
    BY <1>2
  <2> DEFINE q == [j \in 0..k + 1 |-> IF j <= k THEN r[j] ELSE Then(r[k], s, ms[k + 1], target)]
  <2>2. ASSUME NEW j \in 0..k + 1
        PROVE  q[j] = IF j = 0 THEN Ok(Blank(target)) ELSE Then(q[j - 1], s, ms[j], target)
    <3>1. CASE j <= k
      <4>1. q[j] = r[j] /\ (j # 0 => q[j - 1] = r[j - 1])
        BY <3>1
      <4> QED
        BY <2>1, <3>1, <4>1 DEF IsRun
    <3>2. CASE ~(j <= k)
      <4>1. j = k + 1 /\ j # 0 /\ j - 1 = k
        BY <3>2
      <4>2. q[j] = Then(r[k], s, ms[k + 1], target) /\ q[k] = r[k]
        BY <4>1
      <4> QED
        BY <4>1, <4>2
    <3> QED
      BY <3>1, <3>2
  <2>3. q = [j \in 0..k + 1 |-> q[j]]
    OBVIOUS
  <2> HIDE DEF q
  <2>4. IsRun(q, s, ms, target, k + 1)
    BY <2>2, <2>3 DEF IsRun
  <2> QED
    BY <2>4
<1> HIDE DEF S
<1>3. Nat \subseteq S
  BY <1>1, <1>2, Counting
<1> QED
  BY <1>3 DEF S

LEMMA RunUnique ==
  ASSUME NEW s, NEW ms, NEW target, NEW n \in Nat, NEW r, IsRun(r, s, ms, target, n),
         NEW ls, NEW l \in Nat, NEW q, IsRun(q, s, ls, target, l),
         \A k \in 1..n : k <= l => ls[k] = ms[k]
  PROVE  \A k \in 0..n : k <= l => q[k] = r[k]
<1> DEFINE S == {k \in Nat : k <= n /\ k <= l => q[k] = r[k]}
<1>1. 0 \in S
  BY DEF IsRun
<1>2. ASSUME NEW k \in Nat, k \in S
      PROVE  k + 1 \in S
  BY <1>2 DEF IsRun
<1> HIDE DEF S
<1>3. Nat \subseteq S
  BY <1>1, <1>2, Counting
<1> QED
  BY <1>3 DEF S

LEMMA RunOf ==
  ASSUME NEW s, NEW target, NEW M, NEW ms \in Seq(M)
  PROVE  \E r : IsRun(r, s, ms, target, Len(ms)) /\ apply_mappings(s, ms, target) = r[Len(ms)]
<1> DEFINE r == CHOOSE g : g = [n \in 0..Len(ms) |->
                  IF n = 0 THEN Ok(Blank(target)) ELSE Then(g[n - 1], s, ms[n], target)]
<1>1. apply_mappings(s, ms, target) = r[Len(ms)]
  BY DEF apply_mappings
<1>2. \E g : g = [n \in 0..Len(ms) |->
                  IF n = 0 THEN Ok(Blank(target)) ELSE Then(g[n - 1], s, ms[n], target)]
  <2>1. Len(ms) \in Nat
    OBVIOUS
  <2>2. PICK g : IsRun(g, s, ms, target, Len(ms))
    BY <2>1, RunExists
  <2> QED
    BY <2>2 DEF IsRun
<1>3. IsRun(r, s, ms, target, Len(ms))
  BY <1>2 DEF IsRun
<1> QED
  BY <1>1, <1>3

LEMMA RunNone ==
  ASSUME NEW s, NEW target
  PROVE  apply_mappings(s, << >>, target) = Ok(Blank(target))
<1>1. << >> \in Seq({}) /\ Len(<< >>) = 0
  OBVIOUS
<1>2. PICK r : /\ IsRun(r, s, << >>, target, Len(<< >>))
               /\ apply_mappings(s, << >>, target) = r[Len(<< >>)]
  BY <1>1, RunOf
<1> QED
  BY <1>1, <1>2 DEF IsRun

LEMMA RunNext ==
  ASSUME NEW s, NEW target, NEW M, NEW ms \in Seq(M), NEW m \in M
  PROVE  apply_mappings(s, Append(ms, m), target) =
           Then(apply_mappings(s, ms, target), s, m, target)
<1> DEFINE ls == Append(ms, m)
           n == Len(ms)
<1>1. /\ ls \in Seq(M) /\ n \in Nat /\ Len(ls) = n + 1
      /\ ls[n + 1] = m /\ \A k \in 1..n : ls[k] = ms[k]
  OBVIOUS
<1> HIDE DEF ls
<1>2. PICK r : IsRun(r, s, ms, target, n) /\ apply_mappings(s, ms, target) = r[n]
  BY RunOf
<1>3. PICK q : IsRun(q, s, ls, target, n + 1) /\ apply_mappings(s, ls, target) = q[n + 1]
  BY <1>1, RunOf
<1> HIDE DEF n
<1>4. q[n] = r[n]
  <2>1. n + 1 \in Nat /\ \A k \in 1..n : k <= n + 1 => ls[k] = ms[k]
    BY <1>1
  <2>2. \A k \in 0..n : k <= n + 1 => q[k] = r[k]
    BY <1>1, <1>2, <1>3, <2>1, RunUnique
  <2> QED
    BY <1>1, <2>2
<1>5. q[n + 1] = Then(q[n], s, ls[n + 1], target)
  BY <1>1, <1>3 DEF IsRun
<1> QED
  BY <1>1, <1>2, <1>3, <1>4, <1>5 DEF ls

LEMMA RunOne ==
  ASSUME NEW s, NEW target, NEW m
  PROVE  apply_mappings(s, <<m>>, target) = ApplyOne(Blank(target), s, m, target)
<1>1. <<m>> = Append(<< >>, m) /\ << >> \in Seq({m}) /\ m \in {m}
  OBVIOUS
<1>2. apply_mappings(s, <<m>>, target) = Then(apply_mappings(s, << >>, target), s, m, target)
  BY <1>1, RunNext
<1> QED
  BY <1>2, RunNone DEF Then, Ok

(***************************************************************************)
(* set_field_path.                                                         *)
(***************************************************************************)

\* It leaves the leaf where the keys lead, and changes one field of its root, the
\* one that the first key names.
LEMMA Writing ==
  ASSUME NEW root, NEW keys \in Seq(STRING), keys # << >>, NEW leaf,
         set_field_path(root, keys, leaf).status = "ok"
  PROVE  LET v == set_field_path(root, keys, leaf).value IN
         /\ Leads(v, keys, leaf)
         /\ \E f : v = Obj(With(root[2], keys[1], f)) /\ (f = leaf \/ IsObj(f))
<1> DEFINE new == Rebuilt(root, keys, leaf)
           L == Len(keys)
<1>1. set_field_path(root, keys, leaf).value = new[1]
  BY DEF set_field_path, Ok, Err
<1>2. L \in Nat /\ L >= 1
  OBVIOUS
<1>3. /\ new[L + 1] = leaf
      /\ \A n \in 1..L : new[n] = Obj(With(Holders(root, keys)[n - 1][2], keys[n], new[n + 1]))
  <2>1. Rebuilds(new, root, keys, leaf)
    BY <1>2, Rebuilding
  <2> HIDE DEF new
  <2> QED
    BY <2>1 DEF Rebuilds
<1>4. Holders(root, keys)[0] = root
  BY <1>2, Walk
<1> HIDE DEF new
<1>5. Leads(new[1], keys, leaf)
  <2> DEFINE p == [k \in 0..L |-> new[k + 1]]
  <2>1. p[0] = new[1] /\ p[L] = leaf
    BY <1>2, <1>3
  <2>2. ASSUME NEW k \in 1..L
        PROVE  Has(p[k - 1], keys[k]) /\ p[k] = p[k - 1][2][keys[k]]
    <3>1. p[k - 1] = new[k] /\ p[k] = new[k + 1]
      BY <1>2
    <3>2. new[k] = Obj(With(Holders(root, keys)[k - 1][2], keys[k], new[k + 1]))
      BY <1>3
    <3> QED
      BY <3>1, <3>2 DEF Has, IsObj, Obj, With, Over
  <2> HIDE DEF p
  <2> QED
    BY <2>1, <2>2 DEF Leads
<1>6. new[1] = Obj(With(root[2], keys[1], new[2]))
  BY <1>2, <1>3, <1>4
<1>7. new[2] = leaf \/ IsObj(new[2])
  BY <1>2, <1>3 DEF Obj, IsObj
<1> QED
  BY <1>1, <1>5, <1>6, <1>7

LEMMA WritingFields ==
  ASSUME NEW fields, NEW keys \in Seq(STRING), keys # << >>, NEW leaf,
         set_field_path(Obj(fields), keys, leaf).status = "ok"
  PROVE  \E f : /\ set_field_path(Obj(fields), keys, leaf).value = Obj(With(fields, keys[1], f))
                /\ f = leaf \/ IsObj(f)
<1>1. Obj(fields)[2] = fields
  BY DEF Obj
<1> DEFINE root == Obj(fields)
<1> HIDE DEF root
<1>2. set_field_path(root, keys, leaf).status = "ok"
  BY DEF root
<1>3. PICK f : /\ set_field_path(root, keys, leaf).value = Obj(With(root[2], keys[1], f))
               /\ f = leaf \/ IsObj(f)
  BY <1>2, Writing
<1> QED
  BY <1>1, <1>3 DEF root

\* Two paths that do not overlap part at some key.
LEMMA Parting ==
  ASSUME NEW p \in Seq(STRING), NEW q \in Seq(STRING), ~Overlap(p, q)
  PROVE  \E d \in 1..Len(p) : /\ d <= Len(q) /\ p[d] # q[d]
                              /\ \A k \in 1..d - 1 : p[k] = q[k]
<1> DEFINE T == {d \in Nat : d >= 1 /\ d <= Len(p) /\ d <= Len(q) /\ p[d] # q[d]}
<1>1. T # {}
  <2> SUFFICES ASSUME \A d \in Nat : d >= 1 /\ d <= Len(p) /\ d <= Len(q) => p[d] = q[d]
               PROVE  FALSE
    OBVIOUS
  <2>1. Len(p) \in Nat /\ Len(q) \in Nat
    OBVIOUS
  <2>2. CASE Len(p) <= Len(q)
    <3>1. SubSeq(p, 1, Len(p)) = SubSeq(q, 1, Len(p))
      BY <2>1, <2>2
    <3> QED
      BY <2>2, <3>1 DEF Overlap, IsPrefix
  <2>3. CASE Len(q) <= Len(p)
    <3>1. SubSeq(q, 1, Len(q)) = SubSeq(p, 1, Len(q))
      BY <2>1, <2>3
    <3> QED
      BY <2>3, <3>1 DEF Overlap, IsPrefix
  <2> QED
    BY <2>1, <2>2, <2>3
<1>2. T \subseteq Nat
  OBVIOUS
<1> HIDE DEF T
<1>3. PICK d \in T : \A e \in T : ~(e < d)
  BY <1>1, <1>2, Least
<1>4. d \in 1..Len(p) /\ d <= Len(q) /\ p[d] # q[d]
  BY <1>3 DEF T
<1>5. \A k \in 1..d - 1 : p[k] = q[k]
  BY <1>3, <1>4 DEF T
<1> QED
  BY <1>4, <1>5

\* What another path leads to stays where it is.
LEMMA WritingElsewhere ==
  ASSUME NEW root, NEW keys \in Seq(STRING), keys # << >>, NEW leaf,
         set_field_path(root, keys, leaf).status = "ok",
         NEW path \in Seq(STRING), NEW x, Leads(root, path, x), ~Overlap(path, keys)
  PROVE  Leads(set_field_path(root, keys, leaf).value, path, x)
<1> DEFINE new == Rebuilt(root, keys, leaf)
           h == Holders(root, keys)
           L == Len(keys)
           M == Len(path)
<1>1. set_field_path(root, keys, leaf).value = new[1]
  BY DEF set_field_path, Ok, Err
<1>2. L \in Nat /\ M \in Nat
  OBVIOUS
<1>3. \A n \in 1..L : new[n] = Obj(With(h[n - 1][2], keys[n], new[n + 1]))
  <2>1. Rebuilds(new, root, keys, leaf)
    BY <1>2, Rebuilding
  <2> HIDE DEF new
  <2> QED
    BY <2>1 DEF Rebuilds
<1>4. /\ h[0] = root
      /\ \A k \in 1..L :
           h[k] = IF Has(h[k - 1], keys[k]) THEN h[k - 1][2][keys[k]] ELSE Obj(NoFields)
  BY <1>2, Walk
<1> HIDE DEF new, h
<1>5. PICK p : /\ p[0] = root /\ p[M] = x
               /\ \A k \in 1..M : Has(p[k - 1], path[k]) /\ p[k] = p[k - 1][2][path[k]]
  BY DEF Leads
<1>6. PICK d \in 1..M : d <= L /\ path[d] # keys[d] /\ \A k \in 1..d - 1 : path[k] = keys[k]
  BY Parting
<1> HIDE DEF L, M
<1>7. h[d - 1] = p[d - 1]
  <2> DEFINE S == {k \in Nat : k < d => h[k] = p[k]}
  <2>1. 0 \in S
    BY <1>4, <1>5
  <2>2. ASSUME NEW k \in Nat, k \in S
        PROVE  k + 1 \in S
    <3> SUFFICES ASSUME k + 1 < d
                 PROVE  h[k + 1] = p[k + 1]
      OBVIOUS
    <3>1. k + 1 \in 1..L /\ k + 1 \in 1..M /\ k + 1 \in 1..d - 1 /\ (k + 1) - 1 = k /\ k < d
      BY <1>2, <1>6
    <3>2. h[k] = p[k] /\ path[k + 1] = keys[k + 1]
      BY <1>6, <2>2, <3>1
    <3> QED
      BY <1>4, <1>5, <3>1, <3>2
  <2> HIDE DEF S
  <2>3. Nat \subseteq S
    BY <2>1, <2>2, Counting
  <2>4. d - 1 \in Nat /\ d - 1 < d
    BY <1>2, <1>6
  <2> QED
    BY <2>3, <2>4 DEF S
<1> DEFINE q == [k \in 0..M |-> IF k < d THEN new[k + 1] ELSE p[k]]
<1>8. q[0] = new[1] /\ q[M] = x
  BY <1>2, <1>5, <1>6
<1>9. ASSUME NEW k \in 1..M
      PROVE  Has(q[k - 1], path[k]) /\ q[k] = q[k - 1][2][path[k]]
  <2>1. CASE k < d
    <3>1. q[k - 1] = new[k] /\ q[k] = new[k + 1] /\ path[k] = keys[k] /\ k \in 1..L
      BY <1>2, <1>6, <2>1
    <3>2. new[k] = Obj(With(h[k - 1][2], keys[k], new[k + 1]))
      BY <1>3, <3>1
    <3> HIDE DEF q
    <3> QED
      BY <3>1, <3>2 DEF Has, IsObj, Obj, With, Over
  <2>2. CASE k = d
    <3>1. q[k - 1] = new[k] /\ q[k] = p[k] /\ path[k] # keys[k] /\ k \in 1..L
      BY <1>2, <1>6, <2>2
    <3>2. new[k] = Obj(With(p[k - 1][2], keys[k], new[k + 1]))
      BY <1>3, <1>7, <2>2, <3>1
    <3>3. Has(p[k - 1], path[k]) /\ p[k] = p[k - 1][2][path[k]]
      BY <1>5
    <3> HIDE DEF q
    <3> QED
      BY <3>1, <3>2, <3>3 DEF Has, IsObj, Obj, With, Over
  <2>3. CASE k > d
    <3>1. q[k - 1] = p[k - 1] /\ q[k] = p[k]
      BY <1>2, <1>6, <2>3
    <3> QED
      BY <1>5, <3>1
  <2> QED
    BY <1>2, <1>6, <2>1, <2>2, <2>3
<1> HIDE DEF q
<1> QED
  BY <1>1, <1>8, <1>9 DEF Leads, M

(***************************************************************************)
(* Fields.                                                                 *)
(***************************************************************************)

\* What passes through ObjectMeta is ObjectMeta, and a known field that is not null
\* passes as it is.
LEMMA MetaPassed ==
  ASSUME NEW fields, MetaFromValue(fields).status = "ok"
  PROVE  LET kept == MetaFromValue(fields).value IN
         /\ ValidMeta(kept)
         /\ DOMAIN kept = {f \in DOMAIN fields \cap KnownFields : fields[f] # Null}
         /\ \A f \in DOMAIN kept : kept[f] = fields[f]
<1> DEFINE passing == {f \in DOMAIN fields \cap KnownFields : fields[f] # Null}
<1>1. ValidMeta(fields) /\ MetaFromValue(fields).value = [f \in passing |-> fields[f]]
  BY DEF MetaFromValue, Err, Ok, Restrict, KnownFields
<1> HIDE DEF passing
<1>2. passing \subseteq DOMAIN fields
  BY DEF passing
<1>3. ValidMeta([f \in passing |-> fields[f]])
  BY <1>1, <1>2 DEF ValidMeta
<1> QED
  BY <1>1, <1>3 DEF passing

\* The name and the namespace of the target are strings, and all its identity.
LEMMA IdentityFields ==
  /\ DOMAIN Identity(Target) \subseteq {"name", "namespace"}
  /\ \A f \in DOMAIN Identity(Target) : IsStr(Identity(Target)[f])
BY DEF Identity, IsStr, Str, Text

(***************************************************************************)
(* The template that the loop starts from, and clones.                     *)
(***************************************************************************)

LEMMA BlankTemplate ==
  /\ WellFormed(Blank(Target))
  /\ \A f \in TextFields : Own(Blank(Target), f)
  /\ Disjoint(Blank(Target))
<1>1. /\ Blank(Target).metadata = Identity(Target)
      /\ Blank(Target).types = Target.ar
      /\ Blank(Target).data = NoFields
      /\ DOMAIN Blank(Target) = {"types", "data", "metadata"}
  BY DEF Blank
<1>2. /\ ValidMeta(Identity(Target)) /\ DOMAIN Identity(Target) \subseteq KnownFields
      /\ \A f \in DOMAIN Identity(Target) : Identity(Target)[f] # Null
  BY IdentityFields DEF ValidMeta, TextFields, MapFields, KnownFields, IsStr, Null
<1>3. DOMAIN NoFields = {} /\ NoFields = [f \in DOMAIN NoFields |-> NoFields[f]]
  BY DEF NoFields
<1> QED
  BY <1>1, <1>2, <1>3, MappingAssumption DEF WellFormed, Own, Disjoint

\* A clone is well formed if the labels and annotations of what it is cloned from
\* are maps of strings; its identity is the target's, its data the source's.
LEMMA Cloned ==
  ASSUME NEW from, NEW ar, IsTypeMeta(ar),
         from.data = [f \in DOMAIN from.data |-> from.data[f]],
         \A f \in MapFields \cap DOMAIN from.metadata :
           /\ IsObj(from.metadata[f])
           /\ \A k \in DOMAIN from.metadata[f][2] : IsStr(from.metadata[f][2][k])
  PROVE  LET t == clone_resource(from, Target, ar) IN
         /\ WellFormed(t)
         /\ \A f \in TextFields : Own(t, f)
         /\ t.data = from.data
<1> DEFINE t == clone_resource(from, Target, ar)
           maps == [f \in MapFields \cap DOMAIN from.metadata |->
                      IF f = "annotations" THEN cleanup_annotations(from.metadata[f])
                      ELSE from.metadata[f]]
<1>1. /\ DOMAIN t = {"types", "data", "metadata"}
      /\ t.types = ar /\ t.data = from.data
      /\ t.metadata = Over(Identity(Target), maps)
  BY DEF clone_resource
<1>2. \A f \in DOMAIN maps : /\ IsObj(maps[f])
                             /\ \A k \in DOMAIN maps[f][2] : IsStr(maps[f][2][k])
  <2> SUFFICES ASSUME NEW f \in MapFields \cap DOMAIN from.metadata
               PROVE  /\ IsObj(maps[f])
                      /\ \A k \in DOMAIN maps[f][2] : IsStr(maps[f][2][k])
    OBVIOUS
  <2>1. CASE f = "annotations"
    <3> DEFINE old == from.metadata[f][2]
               new == [k \in DOMAIN old \ {LAST_APPLIED} |-> old[k]]
    <3>1. maps[f] = Obj(new)
      BY <2>1 DEF cleanup_annotations, Without, Restrict
    <3>2. \A k \in DOMAIN old : IsStr(old[k])
      OBVIOUS
    <3> HIDE DEF old
    <3>3. \A k \in DOMAIN new : IsStr(new[k])
      BY <3>2
    <3>4. IsObj(Obj(new)) /\ Obj(new)[2] = new
      BY DEF Obj, IsObj
    <3> HIDE DEF new, maps
    <3> QED
      BY <3>1, <3>3, <3>4
  <2>2. CASE f # "annotations"
    BY <2>2
  <2> QED
    BY <2>1, <2>2
<1>3. DOMAIN maps \subseteq MapFields
  OBVIOUS
<1> HIDE DEF t, maps
<1>4. /\ DOMAIN t.metadata = DOMAIN Identity(Target) \cup DOMAIN maps
      /\ \A f \in DOMAIN Identity(Target) : t.metadata[f] = Identity(Target)[f]
      /\ \A f \in DOMAIN maps \ DOMAIN Identity(Target) : t.metadata[f] = maps[f]
  BY <1>1 DEF Over
<1>5. TextFields \cap MapFields = {} /\ DOMAIN Identity(Target) \subseteq TextFields
  BY IdentityFields DEF TextFields, MapFields
<1>6. DOMAIN t.metadata \subseteq KnownFields
  BY <1>3, <1>4, <1>5 DEF KnownFields
<1>7. ValidMeta(t.metadata) /\ \A f \in DOMAIN t.metadata : t.metadata[f] # Null
  <2> SUFFICES ASSUME NEW f \in DOMAIN t.metadata
               PROVE  /\ f \in TextFields => IsStr(t.metadata[f])
                      /\ f \in MapFields =>
                           /\ IsObj(t.metadata[f])
                           /\ \A k \in DOMAIN t.metadata[f][2] : IsStr(t.metadata[f][2][k])
    BY <1>6 DEF ValidMeta, KnownFields, IsStr, IsObj, Null
  <2>1. CASE f \in DOMAIN Identity(Target)
    BY <2>1, <1>4, <1>5, IdentityFields
  <2>2. CASE f \in DOMAIN maps \ DOMAIN Identity(Target)
    BY <2>2, <1>2, <1>3, <1>4, <1>5
  <2> QED
    BY <2>1, <2>2, <1>4
<1>8. \A f \in TextFields : Own(t, f)
  <2> SUFFICES ASSUME NEW f \in TextFields
               PROVE  Own(t, f)
    OBVIOUS
  <2>1. f \in DOMAIN t.metadata <=> f \in DOMAIN Identity(Target)
    BY <1>3, <1>4, <1>5
  <2> QED
    BY <2>1, <1>4 DEF Own, Field, Has, Obj, IsObj
<1> QED
  BY <1>1, <1>6, <1>7, <1>8 DEF t, WellFormed

\* A sync without mappings.
LEMMA SourceCloned ==
  ASSUME NEW s \in Sources
  PROVE  LET t == clone_resource(s, Target, Target.ar) IN
         /\ WellFormed(t)
         /\ \A f \in TextFields : Own(t, f)
         /\ Disjoint(t)
<1>1. \A f \in MapFields \cap DOMAIN s.metadata :
        /\ IsObj(s.metadata[f])
        /\ \A k \in DOMAIN s.metadata[f][2] : IsStr(s.metadata[f][2][k])
  BY MappingAssumption DEF ValidMeta
<1>2. /\ IsTypeMeta(Target.ar) /\ DOMAIN s.data \cap Reserved = {}
      /\ s.data = [f \in DOMAIN s.data |-> s.data[f]]
  BY MappingAssumption DEF Reserved
<1> QED
  BY <1>1, <1>2, Cloned DEF Disjoint

(***************************************************************************)
(* One entry.                                                              *)
(***************************************************************************)

\* The type of an object inside the source is a type.
LEMMA InnerType ==
  ASSUME NEW subtree, get_ar_from_subtree(subtree).status = "ok"
  PROVE  IsTypeMeta(get_ar_from_subtree(subtree).value)
<1> DEFINE kind == Field(subtree, "kind")
           given == Field(subtree, "apiVersion")[2]
           version == Last(given)
           group == IF Len(given) > 1 THEN given[Len(given) - 1] ELSE ""
           terms == IF group = "" THEN <<version>> ELSE <<group, version>>
           t == get_ar_from_subtree(subtree).value
<1>1. IsStr(kind) /\ t = [apiVersion |-> Text(terms), kind |-> kind]
  BY DEF get_ar_from_subtree, Ok, Err
<1> HIDE DEF kind, version, group, t
<1>2. \/ terms = <<terms[1]>>
      \/ terms = <<terms[1], terms[2]>> /\ terms[1] # ""
  OBVIOUS
<1> HIDE DEF terms
<1>3. t.apiVersion = Text(terms) /\ t.kind = kind /\ DOMAIN t = TypeFields
  BY <1>1 DEF TypeFields
<1>4. t.apiVersion[2] = terms
  BY <1>3 DEF Text
<1> QED
  BY <1>1, <1>2, <1>3, <1>4 DEF IsTypeMeta, t

\* fromFieldPath alone: whatever object is inside the source, the clone of it is
\* well formed, has the identity of the target and no field twice.
LEMMA Replaced ==
  ASSUME NEW t, NEW subtree, ReplaceRoot(t, subtree, Target).status = "ok"
  PROVE  LET r == ReplaceRoot(t, subtree, Target).value IN
         /\ WellFormed(r)
         /\ \A f \in TextFields : Own(r, f)
         /\ Disjoint(r)
<1> DEFINE ar == get_ar_from_subtree(subtree)
           metadata == Field(subtree, "metadata")
           data == cleanup_subtree(subtree[2])
           inner == [types |-> ar.value, data |-> data, metadata |-> convert_metadata(metadata)]
<1>1. /\ ar.status = "ok" /\ Convertible(metadata)
      /\ ReplaceRoot(t, subtree, Target).value = clone_resource(inner, Target, ar.value)
  BY DEF ReplaceRoot, Ok, Err
<1>2. IsTypeMeta(ar.value)
  BY <1>1, InnerType
<1>3. /\ inner.data = data
      /\ inner.metadata = convert_metadata(metadata)
  OBVIOUS
<1>4. \A f \in MapFields \cap DOMAIN convert_metadata(metadata) :
        /\ IsObj(convert_metadata(metadata)[f])
        /\ \A k \in DOMAIN convert_metadata(metadata)[f][2] :
             IsStr(convert_metadata(metadata)[f][2][k])
  BY <1>1 DEF convert_metadata, Convertible
<1>5. DOMAIN data \cap Reserved = {} /\ data = [f \in DOMAIN data |-> data[f]]
  BY DEF cleanup_subtree, Without, Restrict, Reserved, TypeFields
<1> HIDE DEF ar, metadata, data, inner
<1>6. /\ WellFormed(clone_resource(inner, Target, ar.value))
      /\ \A f \in TextFields : Own(clone_resource(inner, Target, ar.value), f)
      /\ clone_resource(inner, Target, ar.value).data = data
  BY <1>2, <1>3, <1>4, <1>5, Cloned
<1> QED
  BY <1>1, <1>5, <1>6 DEF Disjoint

\* A destination in the metadata that does not overlap with a field is in another.
LEMMA OtherField ==
  ASSUME NEW keys \in Seq(STRING), IsMetaPath(keys), NEW f \in TextFields,
         ~Overlap(<<"metadata", f>>, keys)
  PROVE  Tail(keys)[1] # f
<1>1. Len(keys) \in Nat /\ Len(keys) >= 2 /\ keys[1] = "metadata" /\ Tail(keys)[1] = keys[2]
  BY DEF IsMetaPath
<1>2. SUFFICES ASSUME keys[2] = f
               PROVE  FALSE
  BY <1>1
<1> DEFINE field == <<"metadata", f>>
<1>3. /\ field \in Seq(STRING) /\ Len(field) = 2
      /\ field[1] = keys[1] /\ field[2] = keys[2]
  BY <1>1, <1>2
<1> HIDE DEF field
<1>4. SubSeq(field, 1, 2) = SubSeq(keys, 1, 2)
  <2>1. /\ SubSeq(field, 1, 2) \in Seq(STRING) /\ Len(SubSeq(field, 1, 2)) = 2
        /\ SubSeq(keys, 1, 2) \in Seq(STRING) /\ Len(SubSeq(keys, 1, 2)) = 2
    BY <1>1, <1>3
  <2>2. \A i \in 1..2 : SubSeq(field, 1, 2)[i] = SubSeq(keys, 1, 2)[i]
    BY <1>1, <1>3
  <2> QED
    BY <2>1, <2>2, SeqEqual
<1> QED
  BY <1>1, <1>3, <1>4 DEF field, Overlap, IsPrefix

\* toFieldPath: the template stays well formed, what the destination does not
\* concern stays as it is.
LEMMA Placed ==
  ASSUME NEW t, WellFormed(t), NEW keys \in Seq(STRING), keys # <<>>, NEW subtree,
         Place(t, keys, subtree).status = "ok"
  PROVE  LET r == Place(t, keys, subtree).value IN
         /\ WellFormed(r)
         /\ \A f \in TextFields : Own(t, f) /\ ~Overlap(<<"metadata", f>>, keys) => Own(r, f)
         /\ Disjoint(t) /\ (IsMetaPath(keys) \/ keys[1] \notin Reserved) => Disjoint(r)
<1> DEFINE r == Place(t, keys, subtree).value
<1>1. CASE IsMetaPath(keys)
  <2> DEFINE rest == Tail(keys)
             key == rest[1]
             set == set_field_path(Obj(t.metadata), rest, subtree)
             meta == MetaFromValue(set.value[2])
  <2>1. set.status = "ok" /\ meta.status = "ok" /\ r = [t EXCEPT !.metadata = meta.value]
    BY <1>1 DEF Place, Ok, Err
  <2> HIDE DEF rest
  <2>2. PICK v : set.value[2] = With(t.metadata, key, v)
    <3>1. rest \in Seq(STRING) /\ rest # << >>
      <4>1. Len(keys) > 1 /\ Tail(keys) \in Seq(STRING) /\ Len(Tail(keys)) = Len(keys) - 1
        BY <1>1 DEF IsMetaPath
      <4> QED
        BY <4>1 DEF rest
    <3>2. set_field_path(Obj(t.metadata), rest, subtree).status = "ok"
      BY <2>1
    <3>3. PICK v : set_field_path(Obj(t.metadata), rest, subtree).value =
                     Obj(With(t.metadata, rest[1], v))
      BY <3>1, <3>2, WritingFields
    <3> QED
      BY <3>3 DEF Obj
  <2> DEFINE fields == With(t.metadata, key, v)
  <2> HIDE DEF set, fields
  <2>3. /\ ValidMeta(meta.value)
        /\ DOMAIN meta.value = {f \in DOMAIN fields \cap KnownFields : fields[f] # Null}
        /\ \A f \in DOMAIN meta.value : meta.value[f] = fields[f]
    <3>1. set.value[2] = fields
      BY <2>2 DEF fields
    <3>2. MetaFromValue(fields).status = "ok" /\ meta.value = MetaFromValue(fields).value
      BY <2>1, <3>1
    <3> QED
      BY <3>2, MetaPassed
  <2> HIDE DEF meta, key
  <2>4. /\ DOMAIN r = DOMAIN t /\ r.types = t.types /\ r.data = t.data
        /\ r.metadata = meta.value
    BY <2>1 DEF WellFormed
  <2>5. WellFormed(r)
    BY <2>3, <2>4 DEF WellFormed
  <2>6. ASSUME NEW f \in TextFields, Own(t, f), ~Overlap(<<"metadata", f>>, keys)
        PROVE  Own(r, f)
    <3>1. f # key
      BY <1>1, <2>6, OtherField DEF key, rest
    <3>2. /\ f \in DOMAIN fields <=> f \in DOMAIN t.metadata
          /\ f \in DOMAIN fields => fields[f] = t.metadata[f]
      BY <3>1 DEF fields, With, Over
    <3>3. f \in KnownFields
      BY DEF KnownFields
    <3>4. Field(Obj(r.metadata), f) = Field(Obj(t.metadata), f)
      BY <2>3, <2>4, <3>2, <3>3 DEF Field, Has, IsObj, Obj
    <3> QED
      BY <2>6, <3>4 DEF Own
  <2>7. Disjoint(t) => Disjoint(r)
    BY <2>4 DEF Disjoint
  <2> QED
    BY <2>5, <2>6, <2>7, <1>1
<1>2. CASE ~IsMetaPath(keys)
  <2> DEFINE set == set_field_path(Obj(t.data), keys, subtree)
  <2>1. set.status = "ok" /\ r = [t EXCEPT !.data = set.value[2]]
    BY <1>2 DEF Place, Ok
  <2>2. PICK v : set.value[2] = With(t.data, keys[1], v)
    <3>1. set_field_path(Obj(t.data), keys, subtree).status = "ok"
      BY <2>1
    <3>2. PICK v : set_field_path(Obj(t.data), keys, subtree).value =
                     Obj(With(t.data, keys[1], v))
      BY <3>1, WritingFields
    <3> QED
      BY <3>2 DEF Obj
  <2> HIDE DEF set
  <2>3. /\ DOMAIN r = DOMAIN t /\ r.types = t.types /\ r.metadata = t.metadata
        /\ r.data = With(t.data, keys[1], v)
    BY <2>1, <2>2 DEF WellFormed
  <2>4. WellFormed(r) /\ \A f \in TextFields : Own(t, f) => Own(r, f)
    <3>1. r.data = [f \in DOMAIN r.data |-> r.data[f]]
      BY <2>3 DEF With, Over
    <3> QED
      BY <2>3, <3>1 DEF WellFormed, Own
  <2>5. Disjoint(t) /\ keys[1] \notin Reserved => Disjoint(r)
    BY <2>3 DEF Disjoint, With, Over
  <2> QED
    BY <2>4, <2>5, <1>2
<1> QED
  BY <1>1, <1>2

LEMMA Applied ==
  ASSUME NEW t, WellFormed(t), NEW s, NEW m \in Mappings,
         ApplyOne(t, s, m, Target).status = "ok"
  PROVE  LET r == ApplyOne(t, s, m, Target).value IN
         /\ WellFormed(r)
         /\ \A f \in TextFields : Own(t, f) /\ Spares(m, f) => Own(r, f)
         /\ Disjoint(t) /\ Decent(m) => Disjoint(r)
<1> DEFINE subtree == find_field_path(to_value(s), m.from)
<1>1. CASE m.to = NoPath
  <2>1. ApplyOne(t, s, m, Target) = ReplaceRoot(t, subtree.value, Target)
    BY <1>1 DEF ApplyOne, Err
  <2> QED
    BY <2>1, Replaced
<1>2. CASE m.to # NoPath
  <2>1. m.to[2] \in Seq(STRING) /\ m.to[2] # <<>>
    BY <1>2, MappingAssumption
  <2>2. ApplyOne(t, s, m, Target) = Place(t, m.to[2], subtree.value)
    BY <1>2 DEF ApplyOne
  <2> DEFINE r == Place(t, m.to[2], subtree.value).value
  <2>3. /\ WellFormed(r)
        /\ \A f \in TextFields : Own(t, f) /\ ~Overlap(<<"metadata", f>>, m.to[2]) => Own(r, f)
        /\ Disjoint(t) /\ (IsMetaPath(m.to[2]) \/ m.to[2][1] \notin Reserved) => Disjoint(r)
    BY <2>1, <2>2, Placed
  <2> QED
    BY <1>2, <2>2, <2>3 DEF Spares, Decent
<1> QED
  BY <1>1, <1>2

(***************************************************************************)
(* The loop.                                                               *)
(***************************************************************************)

\* At every step, not only at the end: the template is well formed, the fields of
\* the identity that no entry concerns are the target's own, and no field is there
\* twice unless an entry asks for it.
MappingInv ==
  /\ source \in Sources
  /\ mappings \in Seq(Mappings)
  /\ next \in Nat \ {0}
  /\ WellFormed(template)
  /\ \A f \in TextFields :
       (\A i \in DOMAIN mappings : Spares(mappings[i], f)) => Own(template, f)
  /\ (\A i \in DOMAIN mappings : Decent(mappings[i])) => Disjoint(template)

LEMMA MappingInitial == MappingInit => MappingInv
<1> SUFFICES ASSUME MappingInit
             PROVE  MappingInv
  OBVIOUS
<1>1. mappings \in Seq(Mappings)
  <2>1. PICK n \in 0..MaxMappings : mappings \in [1..n -> Mappings]
    BY DEF MappingInit
  <2> QED
    BY <2>1, MappingAssumption
<1> QED
  BY <1>1, BlankTemplate DEF MappingInit, MappingInv

LEMMA MappingStep == MappingInv /\ [Clone \/ Apply]_mappingVars => MappingInv'
<1> SUFFICES ASSUME MappingInv, [Clone \/ Apply]_mappingVars
             PROVE  MappingInv'
  OBVIOUS
<1>1. CASE Clone
  <2>1. /\ template' = clone_resource(source, Target, Target.ar)
        /\ source' = source /\ mappings' = mappings /\ next' = next /\ source \in Sources
    BY <1>1 DEF Clone, MappingInv
  <2>2. WellFormed(template') /\ (\A f \in TextFields : Own(template', f)) /\ Disjoint(template')
    BY <2>1, SourceCloned
  <2> QED
    BY <2>1, <2>2 DEF MappingInv
<1>2. CASE Apply
  <2> DEFINE m == mappings[next]
             r == ApplyOne(template, source, m, Target)
  <2>1. /\ template' = IF r.status = "ok" THEN r.value ELSE template
        /\ source' = source /\ mappings' = mappings /\ next' = next + 1
        /\ next \in DOMAIN mappings /\ m \in Mappings
    BY <1>2 DEF Apply, MappingInv
  <2>2. CASE r.status = "ok"
    <3>1. /\ WellFormed(r.value)
          /\ \A f \in TextFields : Own(template, f) /\ Spares(m, f) => Own(r.value, f)
          /\ Disjoint(template) /\ Decent(m) => Disjoint(r.value)
      BY <2>1, <2>2, Applied DEF MappingInv
    <3>2. template' = r.value
      BY <2>1, <2>2
    <3> HIDE DEF r
    <3> QED
      BY <2>1, <3>1, <3>2 DEF MappingInv
  <2>3. CASE r.status # "ok"
    BY <2>1, <2>3 DEF MappingInv
  <2> QED
    BY <2>2, <2>3
<1>3. CASE UNCHANGED mappingVars
  BY <1>3 DEF mappingVars, MappingInv
<1> QED
  BY <1>1, <1>2, <1>3

\* Whatever values the entries select and wherever they put them, the metadata of
\* the template is ObjectMeta after every entry, and its type a type.
THEOREM MappingTypeCorrect == MappingSpec => []MappingTypeOK
<1>1. MappingInv => MappingTypeOK
  BY DEF MappingInv, WellFormed, MappingTypeOK, KnownFields, IsTypeMeta
<1> QED
  BY MappingInitial, MappingStep, <1>1, PTL DEF MappingSpec

\* The target has the name and the namespace of the target reference and no uid,
\* each unless an entry writes it: for every source, every object inside one and
\* every list of entries.
THEOREM IdentityOfTarget == MappingSpec => []TargetIdentityKept
<1>1. MappingInv => TargetIdentityKept
  BY DEF MappingInv, Spares, Own, TargetIdentityKept
<1> QED
  BY MappingInitial, MappingStep, <1>1, PTL DEF MappingSpec

\* cleanup_subtree does what its comment says: unless an entry asks for it, no field
\* of the object is in the data too, after any number of replacements and writes.
THEOREM NoFieldTwice == MappingSpec => []FieldsOnce
<1>1. MappingInv => FieldsOnce
  BY DEF MappingInv, Decent, Disjoint, Reserved, FieldsOnce
<1> QED
  BY MappingInitial, MappingStep, <1>1, PTL DEF MappingSpec

\* What one entry returns: a template, or an error that is no state of the loop.
LEMMA Outcome ==
  ASSUME NEW t, NEW s, NEW m
  PROVE  LET r == ApplyOne(t, s, m, Target) IN
         /\ r.status = "ok" => r = Ok(r.value)
         /\ r.status # "running"
<1> DEFINE found == find_field_path(to_value(s), m.from)
           r == ApplyOne(t, s, m, Target)
           Fine(v) == (v.status = "ok" => v = Ok(v.value)) /\ v.status # "running"
<1>1. Fine(found)
  BY DEF find_field_path, Ok, Err
<1>2. Fine(ReplaceRoot(t, found.value, Target))
  <2> DEFINE ar == get_ar_from_subtree(found.value)
  <2>1. Fine(ar)
    BY DEF get_ar_from_subtree, Ok, Err
  <2> HIDE DEF ar, found
  <2> QED
    BY <2>1 DEF ReplaceRoot, Ok, Err, ar
<1>3. \A root, keys, leaf : Fine(set_field_path(root, keys, leaf))
  BY DEF set_field_path, Ok, Err
<1>4. \A fields : Fine(MetaFromValue(fields))
  BY DEF MetaFromValue, Ok, Err
<1>5. Fine(Place(t, m.to[2], found.value))
  <2> HIDE DEF found
  <2> DEFINE keys == m.to[2]
             inMeta == set_field_path(Obj(t.metadata), Tail(keys), found.value)
             meta == MetaFromValue(inMeta.value[2])
             inData == set_field_path(Obj(t.data), keys, found.value)
  <2>1. Fine(inMeta) /\ Fine(meta) /\ Fine(inData)
    BY <1>3, <1>4
  <2>2. Place(t, keys, found.value) =
          IF IsMetaPath(keys)
          THEN CASE inMeta.status # "ok" -> inMeta
                 [] inMeta.status = "ok" /\ meta.status # "ok" -> meta
                 [] inMeta.status = "ok" /\ meta.status = "ok" ->
                      Ok([t EXCEPT !.metadata = meta.value])
          ELSE IF inData.status = "ok" THEN Ok([t EXCEPT !.data = inData.value[2]]) ELSE inData
    BY DEF Place
  <2> HIDE DEF inMeta, meta, inData, keys
  <2> QED
    BY <2>1, <2>2 DEF Ok, keys
<1>6. r = CASE found.status # "ok" -> found
            [] found.status = "ok" /\ m.to = NoPath ->
                 IF m.from = NoPath THEN Err("MappingEmpty")
                 ELSE ReplaceRoot(t, found.value, Target)
            [] found.status = "ok" /\ m.to # NoPath -> Place(t, m.to[2], found.value)
  BY DEF ApplyOne
<1> HIDE DEF r, found
<1>7. Fine(r)
  BY <1>1, <1>2, <1>5, <1>6 DEF Err
<1> QED
  BY <1>7 DEF r

\* A replacement does not look at the template.
LEMMA Indifferent ==
  ASSUME NEW t, NEW u, NEW s, NEW m, Replaces(m)
  PROVE  ApplyOne(t, s, m, Target) = ApplyOne(u, s, m, Target)
BY DEF ApplyOne, ReplaceRoot, Replaces

\* The entries from i on have so far the outcome that they have by themselves.
Fresh(i) == apply_mappings(source, SubSeq(mappings, i, next - 1), Target) = Ok(template)

\* The whole list, and the list from any replacement on, have so far the outcome
\* that the template shows.
LoopInv ==
  /\ MappingInv
  /\ status = "ok" /\ mappings # << >> => next = Len(mappings) + 1
  /\ status = "running" \/ (status = "ok" /\ mappings # << >>) =>
       \A i \in DOMAIN mappings :
         i = 1 \/ (i < next /\ Replaces(mappings[i])) => Fresh(i)

LEMMA LoopInitial == MappingInit => LoopInv
<1> SUFFICES ASSUME MappingInit
             PROVE  LoopInv
  OBVIOUS
<1>1. MappingInv
  BY MappingInitial
<1>2. next = 1 /\ template = Blank(Target) /\ status = "running"
  BY DEF MappingInit
<1>3. Fresh(1)
  <2>1. SubSeq(mappings, 1, next - 1) = << >>
    BY <1>1, <1>2 DEF MappingInv
  <2> QED
    BY <1>2, <2>1, RunNone DEF Fresh
<1>4. \A i \in DOMAIN mappings : ~(i < next)
  BY <1>1, <1>2 DEF MappingInv
<1> QED
  BY <1>1, <1>2, <1>3, <1>4 DEF LoopInv

LEMMA LoopStep == LoopInv /\ [Clone \/ Apply]_mappingVars => LoopInv'
<1> SUFFICES ASSUME LoopInv, [Clone \/ Apply]_mappingVars
             PROVE  LoopInv'
  OBVIOUS
<1>1. MappingInv /\ MappingInv'
  BY MappingStep DEF LoopInv
<1>2. CASE Clone
  BY <1>1, <1>2 DEF Clone, LoopInv
<1>3. CASE Apply
  <2> DEFINE m == mappings[next]
             r == ApplyOne(template, source, m, Target)
             n == Len(mappings)
  <2>1. /\ status = "running" /\ next \in 1..n /\ n \in Nat /\ m \in Mappings
        /\ DOMAIN mappings = 1..n /\ mappings \in Seq(Mappings)
    BY <1>1, <1>3 DEF Apply, MappingInv
  <2>2. /\ source' = source /\ mappings' = mappings /\ next' = next + 1
        /\ status' = IF r.status # "ok" THEN r.status ELSE IF next = n THEN "ok" ELSE "running"
        /\ template' = IF r.status = "ok" THEN r.value ELSE template
    BY <1>3 DEF Apply
  <2>3. (r.status = "ok" => r = Ok(r.value)) /\ r.status # "running"
    BY Outcome
  <2> HIDE DEF r
  <2>4. status' = "ok" => next' = n + 1
    BY <2>1, <2>2
  <2>5. CASE r.status # "ok"
    BY <1>1, <2>2, <2>3, <2>5 DEF LoopInv
  <2>6. CASE r.status = "ok"
    <3>1. template' = r.value /\ r = Ok(template')
      BY <2>2, <2>3, <2>6
    <3>2. ASSUME NEW i \in 1..n, i <= next, i < next \/ i = 1 \/ Replaces(m),
                 i < next => i = 1 \/ Replaces(mappings[i])
          PROVE  Fresh(i)'
      <4> DEFINE before == SubSeq(mappings, i, next - 1)
      <4>1. before \in Seq(Mappings) /\ SubSeq(mappings, i, next) = Append(before, m)
        BY <2>1, <3>2
      <4> HIDE DEF before
      <4>2. apply_mappings(source, Append(before, m), Target) =
              Then(apply_mappings(source, before, Target), source, m, Target)
        BY <2>1, <4>1, RunNext
      <4>3. Then(apply_mappings(source, before, Target), source, m, Target) = r
        <5>1. CASE i < next \/ i = 1
          <6>1. apply_mappings(source, before, Target) = Ok(template)
            BY <2>1, <3>2, <5>1 DEF LoopInv, Fresh, before
          <6> QED
            BY <6>1 DEF Then, Ok, r
        <5>2. CASE ~(i < next \/ i = 1)
          <6>1. before = << >>
            BY <2>1, <3>2, <5>2 DEF before
          <6>2. Replaces(m)
            BY <3>2, <5>2
          <6> QED
            BY <6>1, <6>2, RunNone, Indifferent DEF Then, Ok, r
        <5> QED
          BY <5>1, <5>2
      <4> QED
        <5>1. next' - 1 = next
          <6>1. next \in Nat /\ next' = next + 1
            BY <1>1, <2>2 DEF MappingInv
          <6> QED
            BY <6>1
        <5>2. apply_mappings(source, SubSeq(mappings, i, next), Target) = Ok(template')
          BY <3>1, <4>1, <4>2, <4>3
        <5> QED
          BY <2>2, <5>1, <5>2 DEF Fresh
    <3>3. ASSUME NEW i \in 1..n, i = 1 \/ (i < next + 1 /\ Replaces(mappings[i]))
          PROVE  Fresh(i)'
      <4>1. i <= next /\ (i < next \/ i = next)
        BY <2>1, <3>3
      <4> QED
        BY <3>2, <3>3, <4>1
    <3> QED
      BY <1>1, <2>1, <2>2, <2>4, <3>3 DEF LoopInv
  <2> QED
    BY <2>5, <2>6
<1>4. CASE UNCHANGED mappingVars
  BY <1>1, <1>4 DEF mappingVars, LoopInv, Fresh
<1> QED
  BY <1>2, <1>3, <1>4

\* An entry without destination starts over: the outcome is the one that the
\* entries from it on have by themselves, whatever the entries before it did.
THEOREM StartsOver == MappingSpec => []ReplacementStartsOver
<1>1. LoopInv => ReplacementStartsOver
  <2> SUFFICES ASSUME LoopInv, status = "ok", NEW i \in DOMAIN mappings, Replaces(mappings[i])
               PROVE  apply_mappings(source, SubSeq(mappings, i, Len(mappings)), Target) =
                        Ok(template)
    BY DEF ReplacementStartsOver
  <2>1. mappings \in Seq(Mappings) /\ mappings # << >>
    BY DEF LoopInv, MappingInv
  <2>2. next = Len(mappings) + 1 /\ i < next /\ next - 1 = Len(mappings)
    BY <2>1 DEF LoopInv
  <2> QED
    BY <2>1, <2>2 DEF LoopInv, Fresh
<1> QED
  BY LoopInitial, LoopStep, <1>1, PTL DEF MappingSpec

(***************************************************************************)
(* Into a container and out of it.                                         *)
(***************************************************************************)

\* What the code needs of an object to copy it by way of JSON.
Portable(o) ==
  /\ IsTypeMeta(o.types)
  /\ ValidMeta(o.metadata)
  /\ \A f \in DOMAIN o.metadata : o.metadata[f] # Null
  /\ o.data = [f \in DOMAIN o.data |-> o.data[f]]
  /\ Disjoint(o)

\* A query that selects one value finds it.
LEMMA FoundOne ==
  ASSUME NEW doc, NEW from, from # BadPath, NEW v,
         Query(doc, IF from = NoPath THEN << >> ELSE from[2]) = <<v>>
  PROVE  find_field_path(doc, from) = Ok(v)
<1>1. Len(<<v>>) = 1 /\ <<v>> # << >> /\ <<v>>[1] = v /\ ~(1 > 1)
  OBVIOUS
<1> QED
  BY <1>1 DEF find_field_path

\* A path of one key into an object.
LEMMA OneKey ==
  ASSUME NEW fields, NEW key, NEW leaf
  PROVE  set_field_path(Obj(fields), <<key>>, leaf) = Ok(Obj(With(fields, key, leaf)))
<1> DEFINE root == Obj(fields)
           keys == <<key>>
           h == Holders(root, keys)
           new == Rebuilt(root, keys, leaf)
<1>1. Len(keys) \in Nat
  OBVIOUS
<1>2. Len(keys) = 1 /\ keys[1] = key
  OBVIOUS
<1> HIDE DEF root, keys
<1>3. h[0] = root
  BY <1>1, Walk
<1>4. new[2] = leaf /\ new[1] = Obj(With(h[0][2], key, new[2]))
  <2>1. Rebuilds(new, root, keys, leaf)
    BY <1>1, Rebuilding
  <2> HIDE DEF new
  <2>2. new[1 + 1] = leaf /\ new[1] = Obj(With(h[1 - 1][2], keys[1], new[1 + 1]))
    <3>1. 1 \in 1..Len(keys)
      BY <1>2
    <3> QED
      BY <1>2, <2>1, <3>1 DEF Rebuilds
  <2> QED
    BY <1>2, <2>2
<1> HIDE DEF h, new
<1>5. IsObj(root) /\ root[2] = fields
  BY DEF IsObj, Obj, root
<1>6. \A n \in 0..Len(keys) - 1 : IsObj(h[n])
  BY <1>2, <1>3, <1>5
<1>7. set_field_path(root, keys, leaf) = Ok(new[1])
  BY <1>6 DEF set_field_path, h, new
<1> QED
  BY <1>3, <1>4, <1>5, <1>7 DEF root, keys

\* {toFieldPath: spec} stores the whole object.
LEMMA Stored ==
  ASSUME NEW o, NEW container
  PROVE  LET r == apply_mappings(o, <<Entry(NoPath, Path(<<"spec">>))>>, container) IN
         find_field_path(to_value(r.value), Path(<<Key("spec")>>)) = Ok(to_value(o))
<1> DEFINE v == to_value(o)
           m == Entry(NoPath, Path(<<"spec">>))
           r == apply_mappings(o, <<m>>, container)
           data == With(NoFields, "spec", v)
<1>1. find_field_path(v, NoPath) = Ok(v)
  BY ReadingAll, FoundOne DEF NoPath, BadPath
<1>2. set_field_path(Obj(NoFields), <<"spec">>, v) = Ok(Obj(data))
  BY OneKey
<1>3. /\ m.from = NoPath /\ m.to = Path(<<"spec">>) /\ m.to # NoPath /\ m.to[2] = <<"spec">>
      /\ ~IsMetaPath(<<"spec">>)
  <2>1. Len(<<"spec">>) = 1 /\ ~(1 > 1)
    OBVIOUS
  <2> QED
    BY <2>1 DEF Entry, Path, NoPath, IsMetaPath
<1>4. DOMAIN Blank(container) = {"types", "data", "metadata"} /\ Blank(container).data = NoFields
  BY DEF Blank
<1> HIDE DEF v, m, data
<1>5. Place(Blank(container), <<"spec">>, v) = Ok([Blank(container) EXCEPT !.data = data])
  BY <1>2, <1>3, <1>4 DEF Place, Ok, Obj
<1>6. r = Ok([Blank(container) EXCEPT !.data = data])
  <2>1. r = ApplyOne(Blank(container), o, m, container)
    BY RunOne
  <2> QED
    BY <2>1, <1>1, <1>3, <1>5 DEF ApplyOne, Ok, v
<1>7. r.value.data = data
  BY <1>4, <1>6 DEF Ok
<1> HIDE DEF r
<1> DEFINE doc == to_value(r.value)
<1>8. Has(doc, "spec") /\ doc[2]["spec"] = v
  BY <1>7 DEF to_value, Has, IsObj, Obj, Over, With, data
<1> HIDE DEF doc
<1>9. Leads(doc, <<"spec">>, v)
  <2> DEFINE p == [k \in 0..1 |-> IF k = 0 THEN doc ELSE v]
  <2>1. p[0] = doc /\ p[1] = v /\ Len(<<"spec">>) = 1 /\ <<"spec">>[1] = "spec"
    OBVIOUS
  <2> HIDE DEF p
  <2>2. \A k \in 1..1 : Has(p[k - 1], <<"spec">>[k]) /\ p[k] = p[k - 1][2][<<"spec">>[k]]
    BY <1>8, <2>1
  <2> QED
    BY <2>1, <2>2 DEF Leads
<1>10. Query(doc, <<Key("spec")>>) = <<v>>
  <2>1. Segments(<<"spec">>) = <<Key("spec")>>
    BY DEF Segments
  <2>2. <<"spec">> \in Seq({"spec"})
    OBVIOUS
  <2> QED
    BY <1>9, <2>1, <2>2, Reading
<1>11. Path(<<Key("spec")>>) # BadPath /\ Path(<<Key("spec")>>) # NoPath
       /\ Path(<<Key("spec")>>)[2] = <<Key("spec")>>
  BY DEF Path, BadPath, NoPath
<1>12. find_field_path(doc, Path(<<Key("spec")>>)) = Ok(v)
  BY <1>10, <1>11, FoundOne
<1> QED
  BY <1>12 DEF doc, r, m, v

\* The fields of a serialized object.
LEMMA Serialized ==
  ASSUME NEW o, Portable(o)
  PROVE  /\ IsObj(to_value(o))
         /\ Field(to_value(o), "apiVersion") = o.types.apiVersion
         /\ Field(to_value(o), "kind") = o.types.kind
         /\ Field(to_value(o), "metadata") = Obj(o.metadata)
         /\ cleanup_subtree(to_value(o)[2]) = o.data
<1> DEFINE above == Over([metadata |-> Obj(o.metadata)], o.types)
           fields == Over(o.data, above)
<1>1. to_value(o) = Obj(fields)
  BY DEF to_value
<1>2. DOMAIN o.types = {"apiVersion", "kind"}
  BY DEF Portable, IsTypeMeta, TypeFields
<1>3. /\ DOMAIN above = {"apiVersion", "kind", "metadata"}
      /\ above["metadata"] = Obj(o.metadata)
      /\ above["apiVersion"] = o.types.apiVersion /\ above["kind"] = o.types.kind
  BY <1>2 DEF Over
<1> HIDE DEF above
<1>4. DOMAIN o.data \cap {"apiVersion", "kind", "metadata"} = {}
  BY DEF Portable, Disjoint, Reserved, TypeFields
<1>5. /\ DOMAIN fields = DOMAIN o.data \cup {"apiVersion", "kind", "metadata"}
      /\ \A f \in DOMAIN o.data : fields[f] = o.data[f]
      /\ \A f \in {"apiVersion", "kind", "metadata"} : fields[f] = above[f]
  BY <1>3, <1>4 DEF Over
<1> HIDE DEF fields
<1>6. /\ IsObj(Obj(fields)) /\ Obj(fields)[2] = fields
      /\ \A f \in DOMAIN fields : Field(Obj(fields), f) = fields[f]
  BY DEF IsObj, Obj, Field, Has
<1>7. cleanup_subtree(fields) = o.data
  <2>1. DOMAIN fields \ {"apiVersion", "kind", "metadata"} = DOMAIN o.data
    BY <1>4, <1>5
  <2>2. cleanup_subtree(fields) =
          [f \in DOMAIN fields \ {"apiVersion", "kind", "metadata"} |-> fields[f]]
    BY DEF cleanup_subtree, Without, Restrict
  <2>3. cleanup_subtree(fields) = [f \in DOMAIN o.data |-> fields[f]]
    BY <2>1, <2>2
  <2>4. [f \in DOMAIN o.data |-> fields[f]] = [f \in DOMAIN o.data |-> o.data[f]]
    BY <1>5
  <2> QED
    BY <2>3, <2>4 DEF Portable
<1> QED
  BY <1>1, <1>3, <1>5, <1>6, <1>7

\* The type survives.
LEMMA SameType ==
  ASSUME NEW o, Portable(o)
  PROVE  get_ar_from_subtree(to_value(o)) = Ok(o.types)
<1> DEFINE t == o.types
           kind == t.kind
           terms == t.apiVersion[2]
           a == terms[1]
           b == terms[2]
<1>1. /\ t = [apiVersion |-> Text(terms), kind |-> kind] /\ IsStr(kind)
      /\ terms = <<a>> \/ (terms = <<a, b>> /\ a # "")
  BY DEF Portable, IsTypeMeta
<1>2. Field(to_value(o), "apiVersion") = t.apiVersion /\ Field(to_value(o), "kind") = kind
  BY Serialized
<1> HIDE DEF t, kind, terms, a, b
<1>3. IsStr(t.apiVersion) /\ t.apiVersion = Text(terms) /\ t.apiVersion[2] = terms
  BY <1>1 DEF IsStr, Text
<1> DEFINE group == IF Len(terms) > 1 THEN terms[Len(terms) - 1] ELSE ""
<1>4. terms = IF group = "" THEN <<Last(terms)>> ELSE <<group, Last(terms)>>
  <2>1. CASE terms = <<a>>
    <3>1. Len(terms) = 1 /\ terms[1] = a
      BY <2>1
    <3>2. group = "" /\ Last(terms) = a
      BY <3>1 DEF Last
    <3> QED
      BY <2>1, <3>2
  <2>2. CASE terms = <<a, b>> /\ a # ""
    <3>1. Len(terms) = 2 /\ terms[1] = a /\ terms[2] = b
      BY <2>2
    <3>2. group = a /\ Last(terms) = b
      BY <3>1 DEF Last
    <3> QED
      BY <2>2, <3>2
  <2> QED
    BY <1>1, <2>1, <2>2
<1>5. get_ar_from_subtree(to_value(o)) =
        Ok([apiVersion |-> Text(IF group = "" THEN <<Last(terms)>> ELSE <<group, Last(terms)>>),
            kind |-> kind])
  BY <1>1, <1>2, <1>3 DEF get_ar_from_subtree
<1> HIDE DEF group
<1> QED
  BY <1>1, <1>4, <1>5 DEF t

\* So do the labels and the annotations.
LEMMA SameMaps ==
  ASSUME NEW o, Portable(o)
  PROVE  /\ Convertible(Obj(o.metadata))
         /\ LET maps == convert_metadata(Obj(o.metadata)) IN
            /\ MapFields \cap DOMAIN maps = MapFields \cap DOMAIN o.metadata
            /\ \A f \in MapFields \cap DOMAIN maps : maps[f] = o.metadata[f]
<1> DEFINE md == o.metadata
<1>1. \A f \in MapFields \cap DOMAIN md :
        IsObj(md[f]) /\ \A k \in DOMAIN md[f][2] : IsStr(md[f][2][k])
  BY DEF Portable, ValidMeta
<1> HIDE DEF md
<1>2. \A f : Field(Obj(md), f) = IF f \in DOMAIN md THEN md[f] ELSE Null
  BY DEF Field, Has, IsObj, Obj
<1>3. ~IsObj(Null)
  BY DEF IsObj, Null
<1>4. \A f \in MapFields : IsObj(Field(Obj(md), f)) <=> f \in DOMAIN md
  BY <1>1, <1>2, <1>3
<1>5. Convertible(Obj(md))
  BY <1>1, <1>2, <1>4 DEF Convertible
<1>6. /\ DOMAIN convert_metadata(Obj(md)) = MapFields \cap DOMAIN md
      /\ \A f \in MapFields \cap DOMAIN md : convert_metadata(Obj(md))[f] = md[f]
  BY <1>2, <1>4 DEF convert_metadata
<1> QED
  BY <1>5, <1>6 DEF md

LEMMA RoundTrip ==
  ASSUME NEW o, Portable(o), NEW container, NEW back
  PROVE  LET stored == apply_mappings(o, <<Entry(NoPath, Path(<<"spec">>))>>, container) IN
         apply_mappings(stored.value, <<Entry(Path(<<Key("spec")>>), NoPath)>>, back) =
           Ok(clone_resource(o, back, o.types))
<1> DEFINE v == to_value(o)
           c == apply_mappings(o, <<Entry(NoPath, Path(<<"spec">>))>>, container).value
           m == Entry(Path(<<Key("spec")>>), NoPath)
           inner == [types |-> o.types, data |-> o.data,
                     metadata |-> convert_metadata(Obj(o.metadata))]
<1>1. find_field_path(to_value(c), m.from) = Ok(v)
  BY Stored DEF Entry
<1>2. m.to = NoPath /\ m.from # NoPath
  BY DEF Entry, Path, NoPath
<1> HIDE DEF v, c, m, inner
<1>3. apply_mappings(c, <<m>>, back) = ReplaceRoot(Blank(back), v, back)
  BY <1>1, <1>2, RunOne DEF ApplyOne, Ok
<1>4. ReplaceRoot(Blank(back), v, back) = Ok(clone_resource(inner, back, o.types))
  <2>1. get_ar_from_subtree(v) = Ok(o.types)
    BY SameType DEF v
  <2>2. Field(v, "metadata") = Obj(o.metadata) /\ cleanup_subtree(v[2]) = o.data
    BY Serialized DEF v
  <2>3. Convertible(Obj(o.metadata))
    BY SameMaps
  <2>4. Ok(o.types).status = "ok" /\ Ok(o.types).value = o.types
    BY DEF Ok
  <2> QED
    BY <2>1, <2>2, <2>3, <2>4 DEF ReplaceRoot, inner
<1>5. clone_resource(inner, back, o.types) = clone_resource(o, back, o.types)
  <2> DEFINE maps == convert_metadata(Obj(o.metadata))
             kept(md) == [f \in MapFields \cap DOMAIN md |->
                            IF f = "annotations" THEN cleanup_annotations(md[f]) ELSE md[f]]
  <2>1. inner.data = o.data /\ inner.metadata = maps
    BY DEF inner
  <2>2. /\ MapFields \cap DOMAIN maps = MapFields \cap DOMAIN o.metadata
        /\ \A f \in MapFields \cap DOMAIN maps : maps[f] = o.metadata[f]
    BY SameMaps
  <2> HIDE DEF maps
  <2>3. kept(maps) = kept(o.metadata)
    BY <2>2
  <2>4. \A x : clone_resource(x, back, o.types) =
               [types |-> o.types, data |-> x.data,
                metadata |-> Over(Identity(back), kept(x.metadata))]
    BY DEF clone_resource
  <2> HIDE DEF kept
  <2> QED
    BY <2>1, <2>3, <2>4
<1> QED
  BY <1>3, <1>4, <1>5 DEF c, m

\* An object comes out of a SinkerContainer as a sync without mappings would have
\* copied it, for every source that the API server accepts and everything that the
\* entries make of one.
THEOREM ContainersRoundTrip == MappingSpec => []ContainerRoundTrip
<1>1. MappingInv => ContainerRoundTrip
  <2> SUFFICES ASSUME MappingInv, NEW o \in {source, template},
                      DOMAIN o.data \cap (TypeFields \cup {"metadata"}) = {}
               PROVE  Portable(o)
    BY RoundTrip DEF ContainerRoundTrip
  <2>1. CASE o = source
    BY <2>1, MappingAssumption DEF MappingInv, Portable, Disjoint, Reserved
  <2>2. CASE o = template
    BY <2>2 DEF MappingInv, WellFormed, Portable, Disjoint, Reserved
  <2> QED
    BY <2>1, <2>2
<1> QED
  BY MappingInitial, MappingStep, <1>1, PTL DEF MappingSpec

(***************************************************************************)
(* What an entry wrote.                                                    *)
(***************************************************************************)

\* A path goes on as before below its first key.
LEMMA OtherRoot ==
  ASSUME NEW v, NEW K, NEW keys \in Seq(K), keys # << >>, NEW x, Leads(v, keys, x),
         NEW w, Has(w, keys[1]), w[2][keys[1]] = v[2][keys[1]]
  PROVE  Leads(w, keys, x)
<1> DEFINE L == Len(keys)
<1>1. L \in Nat /\ L >= 1
  OBVIOUS
<1>2. PICK p : /\ p[0] = v /\ p[L] = x
               /\ \A k \in 1..L : Has(p[k - 1], keys[k]) /\ p[k] = p[k - 1][2][keys[k]]
  BY DEF Leads
<1> HIDE DEF L
<1> DEFINE q == [k \in 0..L |-> IF k = 0 THEN w ELSE p[k]]
<1>3. q[0] = w /\ \A k \in 1..L : q[k] = p[k]
  BY <1>1
<1> HIDE DEF q
<1>4. ASSUME NEW k \in 1..L
      PROVE  Has(q[k - 1], keys[k]) /\ q[k] = q[k - 1][2][keys[k]]
  <2>1. CASE k = 1
    <3>1. p[1] = v[2][keys[1]]
      <4>1. 1 \in 1..L /\ 1 - 1 = 0
        BY <1>1
      <4> QED
        BY <1>2, <4>1
    <3> QED
      BY <1>1, <1>3, <2>1, <3>1
  <2>2. CASE k # 1
    <3>1. k - 1 \in 1..L
      BY <1>1, <2>2
    <3> QED
      BY <1>2, <1>3, <3>1
  <2> QED
    BY <2>1, <2>2
<1> QED
  BY <1>1, <1>2, <1>3, <1>4 DEF Leads, L

\* A path of more than one key is its first key and the rest.
LEMMA Deeper ==
  ASSUME NEW v, NEW K, NEW keys \in Seq(K), keys # << >>, NEW x,
         Has(v, keys[1]), Leads(v[2][keys[1]], Tail(keys), x)
  PROVE  Leads(v, keys, x)
<1> DEFINE L == Len(keys)
           rest == Tail(keys)
<1>1. /\ L \in Nat /\ L >= 1 /\ Len(rest) = L - 1
      /\ \A k \in 1..L - 1 : rest[k] = keys[k + 1]
  OBVIOUS
<1> HIDE DEF rest
<1>2. PICK p : /\ p[0] = v[2][keys[1]] /\ p[L - 1] = x
               /\ \A k \in 1..L - 1 : Has(p[k - 1], rest[k]) /\ p[k] = p[k - 1][2][rest[k]]
  BY <1>1 DEF Leads, rest
<1> HIDE DEF L
<1> DEFINE q == [k \in 0..L |-> IF k = 0 THEN v ELSE p[k - 1]]
<1>3. q[0] = v /\ \A k \in 1..L : q[k] = p[k - 1]
  BY <1>1
<1> HIDE DEF q
<1>4. ASSUME NEW k \in 1..L
      PROVE  Has(q[k - 1], keys[k]) /\ q[k] = q[k - 1][2][keys[k]]
  <2>1. CASE k = 1
    BY <1>1, <1>2, <1>3, <2>1
  <2>2. CASE k # 1
    <3> DEFINE j == k - 1
    <3>1. j \in 1..L /\ j \in 1..L - 1 /\ j + 1 = k
      BY <1>1, <2>2
    <3>2. Has(p[j - 1], rest[j]) /\ p[j] = p[j - 1][2][rest[j]] /\ rest[j] = keys[k]
      BY <1>1, <1>2, <3>1
    <3>3. q[k] = p[j] /\ q[j] = p[j - 1]
      BY <1>3, <3>1
    <3> QED
      BY <3>2, <3>3
  <2> QED
    BY <2>1, <2>2
<1>5. q[L] = x
  BY <1>1, <1>2, <1>3
<1> QED
  BY <1>3, <1>4, <1>5 DEF Leads, L

\* A known field of the metadata that is not null passes through ObjectMeta with
\* all that is inside.
LEMMA Passing ==
  ASSUME NEW fields, MetaFromValue(fields).status = "ok",
         NEW K, NEW keys \in Seq(K), keys # << >>, keys[1] \in KnownFields,
         NEW x, x # Null, Leads(Obj(fields), keys, x)
  PROVE  Leads(Obj(MetaFromValue(fields).value), keys, x)
<1> DEFINE L == Len(keys)
           kept == MetaFromValue(fields).value
<1>1. L \in Nat /\ L >= 1
  OBVIOUS
<1>2. PICK p : /\ p[0] = Obj(fields) /\ p[L] = x
               /\ \A k \in 1..L : Has(p[k - 1], keys[k]) /\ p[k] = p[k - 1][2][keys[k]]
  BY DEF Leads
<1> HIDE DEF L
<1>3. keys[1] \in DOMAIN fields /\ p[1] = fields[keys[1]]
  <2>1. 1 \in 1..L /\ 1 - 1 = 0
    BY <1>1
  <2>2. Has(Obj(fields), keys[1]) /\ p[1] = Obj(fields)[2][keys[1]]
    BY <1>2, <2>1
  <2> QED
    BY <2>2 DEF Has, Obj
<1>4. p[1] # Null
  <2>1. CASE L = 1
    BY <1>2, <2>1
  <2>2. CASE L # 1
    <3>1. 2 \in 1..L /\ 2 - 1 = 1
      BY <1>1, <2>2
    <3>2. Has(p[1], keys[2])
      BY <1>2, <3>1
    <3> QED
      BY <3>2 DEF Has, IsObj, Null
  <2> QED
    BY <2>1, <2>2
<1>5. keys[1] \in DOMAIN kept /\ kept[keys[1]] = fields[keys[1]]
  BY <1>3, <1>4, MetaPassed
<1> HIDE DEF kept
<1>6. Has(Obj(kept), keys[1]) /\ Obj(kept)[2][keys[1]] = Obj(fields)[2][keys[1]]
  BY <1>5 DEF Has, IsObj, Obj
<1>7. Leads(Obj(kept), keys, x)
  BY <1>6, OtherRoot
<1> QED
  BY <1>7 DEF kept

\* Paths into the metadata that do not overlap do not overlap inside of it.
LEMMA InsideMeta ==
  ASSUME NEW p \in Seq(STRING), NEW q \in Seq(STRING), IsMetaPath(p), IsMetaPath(q), ~Overlap(p, q)
  PROVE  ~Overlap(Tail(p), Tail(q))
<1>1. PICK d \in 1..Len(p) : d <= Len(q) /\ p[d] # q[d]
  BY Parting
<1> DEFINE e == d - 1
           a == Tail(p)
           b == Tail(q)
<1>2. p[1] = "metadata" /\ q[1] = "metadata" /\ Len(p) > 1 /\ Len(q) > 1
  BY DEF IsMetaPath
<1>3. /\ a \in Seq(STRING) /\ Len(a) = Len(p) - 1 /\ Len(b) = Len(q) - 1 /\ b \in Seq(STRING)
      /\ \A k \in 1..Len(p) - 1 : a[k] = p[k + 1]
      /\ \A k \in 1..Len(q) - 1 : b[k] = q[k + 1]
  BY <1>2
<1>4. e \in 1..Len(p) - 1 /\ e \in 1..Len(q) - 1 /\ e + 1 = d
  BY <1>1, <1>2
<1>5. a[e] # b[e]
  BY <1>1, <1>3, <1>4
<1>6. e \in 1..Len(a) /\ e \in 1..Len(b)
  BY <1>3, <1>4
<1> HIDE DEF a, b, e
<1>7. ~IsPrefix(a, b)
  <2> SUFFICES ASSUME Len(a) <= Len(b), SubSeq(a, 1, Len(a)) = SubSeq(b, 1, Len(a))
               PROVE  FALSE
    BY DEF IsPrefix
  <2>1. SubSeq(a, 1, Len(a))[e] = a[e] /\ SubSeq(b, 1, Len(a))[e] = b[e]
    BY <1>3, <1>6
  <2> QED
    BY <1>5, <2>1
<1>8. ~IsPrefix(b, a)
  <2> SUFFICES ASSUME Len(b) <= Len(a), SubSeq(b, 1, Len(b)) = SubSeq(a, 1, Len(b))
               PROVE  FALSE
    BY DEF IsPrefix
  <2>1. SubSeq(b, 1, Len(b))[e] = b[e] /\ SubSeq(a, 1, Len(b))[e] = a[e]
    BY <1>3, <1>6
  <2> QED
    BY <1>5, <2>1
<1> QED
  BY <1>7, <1>8 DEF Overlap, a, b

LEMMA MetaTail ==
  ASSUME NEW keys \in Seq(STRING), IsMetaPath(keys)
  PROVE  Tail(keys) \in Seq(STRING) /\ Tail(keys) # << >> /\ Tail(keys)[1] = keys[2]
<1>1. Len(keys) \in Nat /\ Len(keys) > 1 /\ Tail(keys)[1] = keys[2]
  BY DEF IsMetaPath
<1>2. keys # << >>
  BY <1>1
<1>3. Tail(keys) \in Seq(STRING) /\ Len(Tail(keys)) = Len(keys) - 1
  BY <1>2
<1>4. Len(Tail(keys)) # 0
  BY <1>1, <1>3
<1>5. Tail(keys) # << >>
  <2>1. Len(<< >>) = 0
    OBVIOUS
  <2> QED
    BY <1>4, <2>1
<1> QED
  BY <1>1, <1>3, <1>5

\* The value is where the keys of a destination lead in the template.
There(t, keys, x) ==
  IF IsMetaPath(keys)
  THEN keys[2] \in KnownFields /\ x # Null => Leads(Obj(t.metadata), Tail(keys), x)
  ELSE Leads(Obj(t.data), keys, x)

Hidden(t) == "metadata" \in DOMAIN t.data

LEMMA PlacedThere ==
  ASSUME NEW t, WellFormed(t), NEW keys \in Seq(STRING), keys # << >>, NEW x,
         Place(t, keys, x).status = "ok"
  PROVE  LET r == Place(t, keys, x).value IN
         /\ There(r, keys, x)
         /\ \A path \in Seq(STRING) : \A y :
              path # << >> /\ There(t, path, y) /\ ~Overlap(path, keys) => There(r, path, y)
         /\ Hidden(r) => Hidden(t) \/ keys = <<"metadata">>
<1> DEFINE r == Place(t, keys, x).value
<1>1. CASE IsMetaPath(keys)
  <2> DEFINE rest == Tail(keys)
             root == Obj(t.metadata)
             set == set_field_path(root, rest, x)
             fields == set.value[2]
             meta == MetaFromValue(fields)
  <2>1. set.status = "ok" /\ meta.status = "ok" /\ r = [t EXCEPT !.metadata = meta.value]
    BY <1>1 DEF Place, Ok, Err
  <2>2. rest \in Seq(STRING) /\ rest # << >> /\ rest[1] = keys[2]
    BY <1>1, MetaTail
  <2> HIDE DEF rest
  <2>3. set.value = Obj(fields)
    <3>1. PICK f : set_field_path(root, rest, x).value = Obj(With(t.metadata, rest[1], f))
      BY <2>1, <2>2, WritingFields
    <3> QED
      BY <3>1 DEF Obj
  <2> HIDE DEF root
  <2>4. /\ Leads(set.value, rest, x)
        /\ \A path \in Seq(STRING) : \A y :
             Leads(root, path, y) /\ ~Overlap(path, rest) => Leads(set.value, path, y)
    BY <2>1, <2>2, Writing, WritingElsewhere
  <2> HIDE DEF set, fields
  <2>5. \A path \in Seq(STRING) : \A y :
          path # << >> /\ path[1] \in KnownFields /\ y # Null /\ Leads(Obj(fields), path, y)
          => Leads(Obj(meta.value), path, y)
    BY <2>1, Passing
  <2> HIDE DEF meta
  <2>6. r.data = t.data /\ r.metadata = meta.value
    BY <2>1 DEF WellFormed
  <2> HIDE DEF r
  <2>7. There(r, keys, x)
    BY <1>1, <2>2, <2>3, <2>4, <2>5, <2>6 DEF There, rest
  <2>8. ASSUME NEW path \in Seq(STRING), NEW y,
               path # << >>, There(t, path, y), ~Overlap(path, keys)
        PROVE  There(r, path, y)
    <3>1. CASE IsMetaPath(path)
      <4> DEFINE inner == Tail(path)
      <4>1. inner \in Seq(STRING) /\ inner # << >> /\ inner[1] = path[2]
        BY <3>1, MetaTail
      <4>2. ~Overlap(inner, rest)
        BY <1>1, <2>8, <3>1, InsideMeta DEF rest
      <4> HIDE DEF inner
      <4>3. SUFFICES ASSUME path[2] \in KnownFields, y # Null
                     PROVE  Leads(Obj(r.metadata), inner, y)
        BY <3>1 DEF There, inner
      <4>4. Leads(root, inner, y)
        BY <2>8, <3>1, <4>3 DEF There, root, inner
      <4>5. Leads(Obj(fields), inner, y)
        BY <2>3, <2>4, <4>1, <4>2, <4>4
      <4> QED
        BY <2>5, <2>6, <4>1, <4>3, <4>5
    <3>2. CASE ~IsMetaPath(path)
      BY <2>6, <2>8, <3>2 DEF There
    <3> QED
      BY <3>1, <3>2
  <2>9. Hidden(r) => Hidden(t)
    BY <2>6 DEF Hidden
  <2> QED
    BY <2>7, <2>8, <2>9 DEF r
<1>2. CASE ~IsMetaPath(keys)
  <2> DEFINE root == Obj(t.data)
             set == set_field_path(root, keys, x)
             data == set.value[2]
  <2>1. set.status = "ok" /\ r = [t EXCEPT !.data = data]
    BY <1>2 DEF Place, Ok
  <2>2. PICK f : set_field_path(root, keys, x).value = Obj(With(t.data, keys[1], f))
    BY <2>1, WritingFields
  <2>3. set.value = Obj(data) /\ data = With(t.data, keys[1], f)
    BY <2>2 DEF Obj
  <2> HIDE DEF root
  <2>4. /\ Leads(set.value, keys, x)
        /\ \A path \in Seq(STRING) : \A y :
             Leads(root, path, y) /\ ~Overlap(path, keys) => Leads(set.value, path, y)
    BY <2>1, Writing, WritingElsewhere
  <2> HIDE DEF set, data
  <2>5. r.data = data /\ r.metadata = t.metadata
    BY <2>1 DEF WellFormed
  <2> HIDE DEF r
  <2>6. There(r, keys, x)
    BY <1>2, <2>3, <2>4, <2>5 DEF There
  <2>7. \A path \in Seq(STRING) : \A y :
          path # << >> /\ There(t, path, y) /\ ~Overlap(path, keys) => There(r, path, y)
    BY <2>3, <2>4, <2>5 DEF There, root
  <2>8. Hidden(r) => Hidden(t) \/ keys = <<"metadata">>
    <3>1. keys[1] = "metadata" => keys = <<"metadata">>
      <4> SUFFICES ASSUME keys[1] = "metadata"
                   PROVE  keys = <<"metadata">>
        OBVIOUS
      <4> DEFINE n == Len(keys)
      <4>1. n \in Nat /\ n # 0 /\ ~(n > 1)
        BY <1>2 DEF IsMetaPath
      <4> HIDE DEF n
      <4>2. n = 1
        BY <4>1
      <4>3. Len(keys) = 1
        BY <4>2 DEF n
      <4> QED
        BY <4>3
    <3> QED
      BY <2>3, <2>5, <3>1 DEF Hidden, With, Over
  <2> QED
    BY <2>6, <2>7, <2>8 DEF r
<1> QED
  BY <1>1, <1>2

\* What find_field_path returns is what the entry selects.
LEMMA FoundSelected ==
  ASSUME NEW m, find_field_path(to_value(source), m.from).status = "ok"
  PROVE  find_field_path(to_value(source), m.from).value = Selected(m)
<1> DEFINE nodes == Query(to_value(source), IF m.from = NoPath THEN << >> ELSE m.from[2])
<1>1. /\ ~(Len(nodes) > 1)
      /\ find_field_path(to_value(source), m.from).value = IF nodes = << >> THEN Null ELSE nodes[1]
  BY DEF find_field_path, Ok, Err
<1>2. Selected(m) = IF nodes = << >> \/ Len(nodes) > 1 THEN Null ELSE nodes[1]
  BY DEF Selected
<1> HIDE DEF nodes
<1> QED
  BY <1>1, <1>2

\* No entry so far replaced the template or wrote over the i-th one.
Standing(i) ==
  /\ mappings[i].to # NoPath
  /\ \A j \in i + 1..Len(mappings) :
       j < next => mappings[j].to # NoPath /\ ~Overlap(mappings[i].to[2], mappings[j].to[2])

\* What such an entry selected is where it put it, and the metadata can be seen
\* unless an entry wrote data over it.
WinInv ==
  /\ LoopInv
  /\ status = "running" \/ (status = "ok" /\ mappings # << >>) =>
       /\ \A i \in DOMAIN mappings :
            i < next /\ Standing(i) => There(template, mappings[i].to[2], Selected(mappings[i]))
       /\ Hidden(template) =>
            \E j \in DOMAIN mappings : j < next /\ mappings[j].to = Path(<<"metadata">>)

LEMMA WinInitial == MappingInit => WinInv
<1> SUFFICES ASSUME MappingInit
             PROVE  WinInv
  OBVIOUS
<1>1. LoopInv /\ next = 1 /\ template = Blank(Target)
  BY LoopInitial DEF MappingInit
<1>2. DOMAIN mappings = 1..Len(mappings) /\ Len(mappings) \in Nat
  BY <1>1 DEF LoopInv, MappingInv
<1>3. ~Hidden(template)
  BY <1>1, BlankTemplate DEF Hidden, Disjoint, Reserved
<1> QED
  BY <1>1, <1>2, <1>3 DEF WinInv

LEMMA WinStep == WinInv /\ [Clone \/ Apply]_mappingVars => WinInv'
<1> SUFFICES ASSUME WinInv, [Clone \/ Apply]_mappingVars
             PROVE  WinInv'
  OBVIOUS
<1>1. LoopInv /\ LoopInv' /\ MappingInv
  BY LoopStep DEF WinInv, LoopInv
<1>2. CASE Clone
  BY <1>1, <1>2 DEF Clone, WinInv
<1>3. CASE Apply
  <2> DEFINE m == mappings[next]
             n == Len(mappings)
             keys == m.to[2]
             found == find_field_path(to_value(source), m.from)
             r == ApplyOne(template, source, m, Target)
  <2>1. /\ status = "running" /\ next \in 1..n /\ n \in Nat /\ m \in Mappings
        /\ DOMAIN mappings = 1..n /\ WellFormed(template)
        /\ \A i \in 1..n : mappings[i] \in Mappings
    BY <1>1, <1>3 DEF Apply, MappingInv
  <2>2. /\ source' = source /\ mappings' = mappings /\ next' = next + 1
        /\ status' = IF r.status # "ok" THEN r.status ELSE IF next = n THEN "ok" ELSE "running"
        /\ template' = IF r.status = "ok" THEN r.value ELSE template
    BY <1>3 DEF Apply
  <2>3. \A e : Selected(e)' = Selected(e)
    BY <2>2 DEF Selected
  <2>4. /\ \A i \in 1..n : i < next /\ Standing(i) =>
             There(template, mappings[i].to[2], Selected(mappings[i]))
        /\ Hidden(template) => \E j \in 1..n : j < next /\ mappings[j].to = Path(<<"metadata">>)
    BY <2>1 DEF WinInv
  <2>5. CASE r.status # "ok"
    <3>1. status' # "running" /\ status' # "ok"
      BY <2>2, <2>5, Outcome
    <3> QED
      BY <1>1, <3>1 DEF WinInv
  <2>6. CASE r.status = "ok" /\ m.to = NoPath
    <3>1. template' = ReplaceRoot(template, found.value, Target).value
          /\ ReplaceRoot(template, found.value, Target).status = "ok"
      <4>1. r = ReplaceRoot(template, found.value, Target)
        BY <2>6 DEF ApplyOne, Err
      <4> QED
        BY <2>2, <2>6, <4>1
    <3>2. ~Hidden(template)'
      BY <3>1, Replaced DEF Hidden, Disjoint, Reserved
    <3>3. ASSUME NEW i \in 1..n, i < next + 1
          PROVE  ~Standing(i)'
      <4>1. CASE i = next
        BY <2>2, <2>6, <4>1 DEF Standing
      <4>2. CASE i # next
        <5>1. next \in i + 1..n /\ next < next + 1
          BY <2>1, <3>3, <4>2
        <5> QED
          BY <2>2, <2>6, <5>1 DEF Standing
      <4> QED
        BY <4>1, <4>2
    <3> QED
      BY <1>1, <2>1, <2>2, <3>2, <3>3 DEF WinInv
  <2>7. CASE r.status = "ok" /\ m.to # NoPath
    <3>1. m.to = Path(keys) /\ keys \in Seq(STRING) /\ keys # << >>
      BY <2>1, <2>7, MappingAssumption
    <3> DEFINE t == Place(template, keys, Selected(m)).value
    <3>2. Place(template, keys, Selected(m)).status = "ok" /\ template' = t
      <4>1. found.status = "ok" /\ r = Place(template, keys, found.value)
        BY <2>7 DEF ApplyOne
      <4>2. found.value = Selected(m)
        BY <4>1, FoundSelected
      <4> QED
        BY <2>2, <2>7, <4>1, <4>2
    <3> HIDE DEF keys, found, r
    <3>3. /\ There(t, keys, Selected(m))
          /\ \A path \in Seq(STRING) : \A y :
               path # << >> /\ There(template, path, y) /\ ~Overlap(path, keys) => There(t, path, y)
          /\ Hidden(t) => Hidden(template) \/ keys = <<"metadata">>
      BY <2>1, <3>1, <3>2, PlacedThere
    <3> HIDE DEF t
    <3>4. ASSUME NEW i \in 1..n, i < next + 1, Standing(i)'
          PROVE  There(t, mappings[i].to[2], Selected(mappings[i]))
      <4>1. CASE i = next
        BY <3>3, <4>1 DEF keys
      <4>2. CASE i # next
        <5> DEFINE path == mappings[i].to[2]
        <5>1. i < next /\ next \in i + 1..n /\ next < next + 1
          BY <2>1, <3>4, <4>2
        <5>2. mappings[i].to # NoPath /\ ~Overlap(path, keys)
          BY <2>2, <3>4, <5>1 DEF Standing, keys
        <5>3. Standing(i)
          <6>1. \A j \in i + 1..n : j < next => j < next + 1
            BY <2>1
          <6> QED
            BY <2>2, <3>4, <6>1 DEF Standing
        <5>4. path \in Seq(STRING) /\ path # << >>
          BY <2>1, <5>2, MappingAssumption
        <5>5. There(template, path, Selected(mappings[i]))
          BY <2>4, <5>1, <5>3
        <5> HIDE DEF path
        <5>6. There(t, path, Selected(mappings[i]))
          BY <3>3, <5>2, <5>4, <5>5
        <5> QED
          BY <5>6 DEF path
      <4> QED
        BY <4>1, <4>2
    <3>5. Hidden(t) => \E j \in 1..n : j < next + 1 /\ mappings[j].to = Path(<<"metadata">>)
      <4>1. CASE keys = <<"metadata">>
        <5>1. next < next + 1 /\ mappings[next].to = Path(<<"metadata">>)
          BY <2>1, <3>1, <4>1
        <5> QED
          BY <2>1, <5>1
      <4>2. CASE keys # <<"metadata">>
        <5>1. \A j \in 1..n : j < next => j < next + 1
          BY <2>1
        <5> QED
          BY <2>4, <3>3, <4>2, <5>1
      <4> QED
        BY <4>1, <4>2
    <3>6. ASSUME NEW i \in 1..n, i < next', Standing(i)'
          PROVE  There(template, mappings[i].to[2], Selected(mappings[i]))'
      <4>1. There(t, mappings[i].to[2], Selected(mappings[i]))
        BY <2>2, <3>4, <3>6
      <4> QED
        BY <2>2, <2>3, <3>2, <4>1 DEF There
    <3> QED
      BY <1>1, <2>1, <2>2, <3>2, <3>5, <3>6 DEF WinInv, Hidden
  <2> QED
    BY <2>5, <2>6, <2>7
<1>4. CASE UNCHANGED mappingVars
  BY <1>1, <1>4 DEF mappingVars, WinInv, Standing, There, Selected, Hidden
<1> QED
  BY <1>2, <1>3, <1>4

\* Where the template has a value, its serialization has it.
LEMMA ReadBack ==
  ASSUME NEW t, NEW keys \in Seq(STRING), keys # << >>, NEW x, There(t, keys, x),
         IsMetaPath(keys) => keys[2] \in KnownFields /\ x # Null /\ ~Hidden(t)
  PROVE  Query(to_value(t), Segments(keys)) = <<x>>
<1> DEFINE doc == to_value(t)
<1>1. SUFFICES Leads(doc, keys, x)
  BY Reading
<1>2. CASE IsMetaPath(keys)
  <2>1. Leads(Obj(t.metadata), Tail(keys), x) /\ keys[1] = "metadata" /\ ~Hidden(t)
    BY <1>2 DEF There, IsMetaPath
  <2>2. Has(doc, "metadata") /\ doc[2]["metadata"] = Obj(t.metadata)
    BY <2>1 DEF to_value, Has, IsObj, Obj, Over, Hidden
  <2> HIDE DEF doc
  <2> QED
    BY <2>1, <2>2, Deeper
<1>3. CASE ~IsMetaPath(keys)
  <2> DEFINE root == Obj(t.data)
  <2>1. Leads(root, keys, x)
    BY <1>3 DEF There
  <2>2. Has(root, keys[1])
    <3> DEFINE L == Len(keys)
    <3>1. L \in Nat /\ 1 \in 1..L /\ 1 - 1 = 0
      OBVIOUS
    <3> HIDE DEF root
    <3>2. PICK p : /\ p[0] = root
                   /\ \A k \in 1..L : Has(p[k - 1], keys[k]) /\ p[k] = p[k - 1][2][keys[k]]
      BY <2>1 DEF Leads
    <3> QED
      BY <3>1, <3>2
  <2>3. Has(doc, keys[1]) /\ doc[2][keys[1]] = root[2][keys[1]]
    BY <2>2 DEF to_value, Has, IsObj, Obj, Over
  <2> HIDE DEF doc, root
  <2> QED
    BY <2>1, <2>3, OtherRoot
<1> QED
  BY <1>2, <1>3

\* Ordered mappings: what an entry selected is at its destination in the end, for
\* every source, every list of entries and every path, unless a later entry replaced
\* the template or wrote there.
THEOREM LaterWins == MappingSpec => []LaterEntriesWin
<1>1. WinInv => LaterEntriesWin
  <2> SUFFICES ASSUME WinInv, status = "ok", NEW i \in DOMAIN mappings,
                      mappings[i].to # NoPath,
                      \A j \in i + 1..Len(mappings) :
                        /\ mappings[j].to # NoPath
                        /\ ~Overlap(mappings[i].to[2], mappings[j].to[2]),
                      IsMetaPath(mappings[i].to[2]) =>
                        /\ mappings[i].to[2][2] \in KnownFields /\ Selected(mappings[i]) # Null
                        /\ \A j \in 1..i - 1 : mappings[j].to # Path(<<"metadata">>)
               PROVE  Query(to_value(template), Segments(mappings[i].to[2])) =
                        <<Selected(mappings[i])>>
    BY DEF LaterEntriesWin, KnownFields
  <2> DEFINE keys == mappings[i].to[2]
             x == Selected(mappings[i])
             n == Len(mappings)
  <2>1. /\ mappings \in Seq(Mappings) /\ mappings # << >> /\ mappings[i] \in Mappings
        /\ DOMAIN mappings = 1..n /\ n \in Nat
    BY DEF WinInv, LoopInv, MappingInv
  <2>2. next = n + 1 /\ i < next
    BY <2>1 DEF WinInv, LoopInv
  <2>3. keys \in Seq(STRING) /\ keys # << >>
    BY <2>1, MappingAssumption
  <2>4. There(template, keys, x)
    <3>1. Standing(i)
      BY DEF Standing
    <3> QED
      BY <2>1, <2>2, <3>1 DEF WinInv
  <2>5. ASSUME IsMetaPath(keys), Hidden(template)
        PROVE  FALSE
    <3>1. PICK j \in 1..n : mappings[j].to = Path(<<"metadata">>)
      BY <2>1, <2>5 DEF WinInv
    <3>2. mappings[j].to[2] = <<"metadata">>
      BY <3>1 DEF Path
    <3>3. CASE j < i
      BY <2>1, <2>5, <3>1, <3>3
    <3>4. CASE j = i
      <4>1. Len(<<"metadata">>) = 1 /\ ~(1 > 1)
        OBVIOUS
      <4> QED
        BY <2>5, <3>2, <3>4, <4>1 DEF IsMetaPath
    <3>5. CASE j > i
      <4>1. ~Overlap(keys, <<"metadata">>)
        BY <2>1, <3>2, <3>5
      <4> DEFINE short == <<"metadata">>
      <4>2. Len(keys) > 1 /\ keys[1] = "metadata" /\ Len(keys) \in Nat
        BY <2>3, <2>5 DEF IsMetaPath
      <4>3. Len(short) = 1 /\ short[1] = "metadata"
        OBVIOUS
      <4>4. SubSeq(short, 1, 1) = SubSeq(keys, 1, 1)
        BY <2>3, <4>2
      <4> HIDE DEF short, keys
      <4>5. IsPrefix(short, keys)
        BY <4>2, <4>3, <4>4 DEF IsPrefix
      <4> QED
        BY <4>1, <4>5 DEF Overlap, short
    <3> QED
      BY <2>1, <3>3, <3>4, <3>5
  <2> HIDE DEF keys, x
  <2>6. IsMetaPath(keys) => keys[2] \in KnownFields /\ x # Null /\ ~Hidden(template)
    BY <2>5 DEF keys, x
  <2>7. Query(to_value(template), Segments(keys)) = <<x>>
    BY <2>3, <2>4, <2>6, ReadBack
  <2> QED
    BY <2>7 DEF keys, x
<1> QED
  BY WinInitial, WinStep, <1>1, PTL DEF MappingSpec
=============================================================================
