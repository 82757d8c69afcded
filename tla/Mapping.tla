------------------------------ MODULE Mapping ------------------------------
(***************************************************************************)
(* The desired state of the target: src/src/mapping.rs.                    *)
(*                                                                         *)
(* JSON values are tagged tuples; a string is the sequence of its terms    *)
(* between slashes, which is all that the code ever takes apart.  Of a     *)
(* DynamicObject the type, the metadata and the rest are kept apart, each  *)
(* as a function from field names to JSON.                                 *)
(***************************************************************************)
EXTENDS Naturals, Sequences, SequencesExt, Functions, TLC

CONSTANTS
  Sources,       \* the source objects
  Mappings,      \* the entries that spec.mappings is made of
  MaxMappings,   \* bound: its length
  Target         \* the target reference: name, namespace and ApiResource

(***************************************************************************)
(* JSON.                                                                   *)
(***************************************************************************)
Null == <<"null">>
Num(n) == <<"num", n>>
Bool(b) == <<"bool", b>>
Text(terms) == <<"str", terms>>
Str(term) == Text(<<term>>)
Arr(values) == <<"arr", values>>
Obj(fields) == <<"obj", fields>>
NoFields == [f \in {} |-> Null]

IsObj(v) == v[1] = "obj"
IsStr(v) == v[1] = "str"
Has(v, f) == IsObj(v) /\ f \in DOMAIN v[2]

\* v[f] in the code: of a missing field, or of what is no object, null.
Field(v, f) == IF Has(v, f) THEN v[2][f] ELSE Null

Without(fields, gone) == Restrict(fields, DOMAIN fields \ gone)

\* The fields of new, and those of old that new does not have.
Over(new, old) ==
  [f \in DOMAIN new \cup DOMAIN old |-> IF f \in DOMAIN new THEN new[f] ELSE old[f]]

With(fields, f, v) == Over([g \in {f} |-> v], fields)

\* What a fallible operation returns.
Ok(v) == [status |-> "ok", value |-> v]
Err(e) == [status |-> e, value |-> Null]

(***************************************************************************)
(* Paths.  A source path is a JSONPath, a destination a list of keys.      *)
(***************************************************************************)
NoPath == <<"none">>
BadPath == <<"bad">>
Path(segments) == <<"path", segments>>
Key(f) == <<"key", f>>
Index(i) == <<"index", i>>
Every == <<"every">>

Entry(from, to) == [from |-> from, to |-> to]

\* JSONPath (external): the nodes that one segment selects below v.
Below(v, segment) ==
  CASE segment[1] = "key" -> IF Has(v, segment[2]) THEN <<v[2][segment[2]]>> ELSE <<>>
    [] segment[1] = "index" ->
         IF v[1] = "arr" /\ segment[2] < Len(v[2]) THEN <<v[2][segment[2] + 1]>> ELSE <<>>
    [] segment[1] = "every" ->
         CASE v[1] = "arr" -> v[2]
           [] v[1] = "obj" -> LET keys == SetToSeq(DOMAIN v[2])
                              IN  [i \in DOMAIN keys |-> v[2][keys[i]]]
           [] OTHER -> <<>>

Query(v, segments) ==
  LET nodes[n \in 0..Len(segments)] ==
        IF n = 0 THEN <<v>>
        ELSE LET above == nodes[n - 1]
             IN  FlattenSeq([i \in DOMAIN above |-> Below(above[i], segments[n])])
  IN  nodes[Len(segments)]

\* Mutant: of several nodes the first is taken.
FindFirst(doc, from) ==
  IF from = BadPath THEN Err("JsonPathError")
  ELSE LET nodes == Query(doc, IF from = NoPath THEN <<>> ELSE from[2])
       IN  Ok(IF nodes = <<>> THEN Null ELSE nodes[1])

find_field_path(doc, from) ==
  IF from = BadPath THEN Err("JsonPathError")
  ELSE LET nodes == Query(doc, IF from = NoPath THEN <<>> ELSE from[2])
       IN  IF Len(nodes) > 1 THEN Err("JsonPathExactlyOneValue")
           ELSE Ok(IF nodes = <<>> THEN Null ELSE nodes[1])

\* What the first n keys lead to, where the missing objects have been created.
Holders(root, keys) ==
  LET holder[n \in 0..Len(keys)] ==
        IF n = 0 THEN root
        ELSE LET v == holder[n - 1]
             IN  IF Has(v, keys[n]) THEN v[2][keys[n]] ELSE Obj(NoFields)
  IN  holder

\* The same with the leaf where all the keys lead, from the n-th key on.
Rebuilt(root, keys, leaf) ==
  LET new[n \in 1..Len(keys) + 1] ==
        IF n > Len(keys) THEN leaf
        ELSE Obj(With(Holders(root, keys)[n - 1][2], keys[n], new[n + 1]))
  IN  new

\* Mutant: what stands in the way is replaced by an object.
SetForcibly(root, keys, leaf) ==
  LET fields(n) == LET v == Holders(root, keys)[n] IN IF IsObj(v) THEN v[2] ELSE NoFields
      new[n \in 1..Len(keys) + 1] ==
        IF n > Len(keys) THEN leaf ELSE Obj(With(fields(n - 1), keys[n], new[n + 1]))
  IN  Ok(new[1])

\* Mutant: the object that holds the leaf loses its other fields.
SetAlone(root, keys, leaf) ==
  IF \E n \in 0..Len(keys) - 1 : ~IsObj(Holders(root, keys)[n]) THEN Err("AddToPathError")
  ELSE LET new[n \in 1..Len(keys) + 1] ==
             IF n > Len(keys) THEN leaf
             ELSE Obj(With(IF n = Len(keys) THEN NoFields ELSE Holders(root, keys)[n - 1][2],
                           keys[n], new[n + 1]))
       IN  Ok(new[1])

set_field_path(root, keys, leaf) ==
  IF \E n \in 0..Len(keys) - 1 : ~IsObj(Holders(root, keys)[n]) THEN Err("AddToPathError")
  ELSE Ok(Rebuilt(root, keys, leaf)[1])

(***************************************************************************)
(* Objects.                                                                *)
(***************************************************************************)
MapFields == {"annotations", "labels"}
TextFields == {"name", "namespace", "uid"}
TypeFields == {"apiVersion", "kind"}
LAST_APPLIED == "kubectl.kubernetes.io/last-applied-configuration"

TypeMeta(terms, kind) == [apiVersion |-> Text(terms), kind |-> Str(kind)]

\* "version" or "group/version", and a kind.
IsTypeMeta(t) ==
  /\ DOMAIN t = TypeFields
  /\ LET terms == t.apiVersion[2]
     IN  /\ t = [apiVersion |-> Text(terms), kind |-> t.kind]
         /\ \/ terms = <<terms[1]>>
            \/ terms = <<terms[1], terms[2]>> /\ terms[1] # ""
  /\ IsStr(t.kind)

NoNamespace == "no namespace"
Ref(name, namespace, ar) == [name |-> name, namespace |-> namespace, ar |-> ar]

\* Serialization: of a field that the object has twice, a reader keeps the last.
to_value(o) == Obj(Over(o.data, Over([metadata |-> Obj(o.metadata)], o.types)))

\* Deserialization of ObjectMeta: null is as good as absent, unknown fields are
\* ignored, labels and annotations are maps of strings.
ValidMeta(fields) ==
  \A f \in DOMAIN fields :
    /\ f \in TextFields => IsStr(fields[f]) \/ fields[f] = Null
    /\ f \in MapFields => \/ fields[f] = Null
                          \/ IsObj(fields[f]) /\ \A k \in DOMAIN fields[f][2] : IsStr(fields[f][2][k])

\* Mutant: the metadata is taken as it is.
KeepMeta(fields) == Ok(fields)

MetaFromValue(fields) ==
  IF ~ValidMeta(fields) THEN Err("SerializationError")
  ELSE Ok(Restrict(fields, {f \in DOMAIN fields \cap (TextFields \cup MapFields) : fields[f] # Null}))

Identity(target) ==
  IF target.namespace = NoNamespace THEN [name |-> Str(target.name)]
  ELSE [name |-> Str(target.name), namespace |-> Str(target.namespace)]

cleanup_annotations(annotations) == Obj(Without(annotations[2], {LAST_APPLIED}))

\* Mutant: the whole metadata is copied.
CloneIdentity(source, target, ar) ==
  [types |-> ar, data |-> source.data, metadata |-> Over(source.metadata, Identity(target))]

clone_resource(source, target, ar) ==
  [types |-> ar,
   data |-> source.data,
   metadata |-> Over(Identity(target),
     [f \in MapFields \cap DOMAIN source.metadata |->
        IF f = "annotations" THEN cleanup_annotations(source.metadata[f]) ELSE source.metadata[f]])]

(***************************************************************************)
(* An object inside the source.                                            *)
(***************************************************************************)
get_ar_from_subtree(subtree) ==
  LET apiVersion == Field(subtree, "apiVersion")
      kind == Field(subtree, "kind")
      terms == apiVersion[2]
      version == Last(terms)
      group == IF Len(terms) > 1 THEN terms[Len(terms) - 1] ELSE ""
  IN  IF ~IsStr(apiVersion) \/ ~IsStr(kind) THEN Err("MalformedInnerResource")
      ELSE Ok([apiVersion |-> Text(IF group = "" THEN <<version>> ELSE <<group, version>>),
               kind |-> kind])

\* map_conversion unwraps every value as a string.
Convertible(metadata) ==
  \A f \in MapFields :
    LET map == Field(metadata, f)
    IN  IsObj(map) => \A k \in DOMAIN map[2] : IsStr(map[2][k])

\* Mutant: the annotations are forgotten.
ConvertLabels(metadata) ==
  [f \in {g \in {"labels"} : IsObj(Field(metadata, g))} |-> Field(metadata, f)]

convert_metadata(metadata) ==
  [f \in {g \in MapFields : IsObj(Field(metadata, g))} |-> Field(metadata, f)]

\* Mutant: the metadata stays in the data.
CleanupTypes(fields) == Without(fields, TypeFields)

cleanup_subtree(fields) == Without(fields, {"apiVersion", "kind", "metadata"})

(***************************************************************************)
(* apply_mappings.                                                         *)
(***************************************************************************)
Blank(target) == [types |-> target.ar, data |-> NoFields, metadata |-> Identity(target)]

\* Mutant: what is in the template already stays.
ReplaceMerging(template, subtree, target) ==
  LET ar == get_ar_from_subtree(subtree)
      metadata == Field(subtree, "metadata")
      inner == [types |-> ar.value, data |-> cleanup_subtree(subtree[2]),
                metadata |-> convert_metadata(metadata)]
      new == clone_resource(inner, target, ar.value)
  IN  CASE ar.status # "ok" -> ar
        [] ar.status = "ok" /\ ~Convertible(metadata) -> Err("panic")
        [] ar.status = "ok" /\ Convertible(metadata) ->
             Ok([new EXCEPT !.data = Over(new.data, template.data)])

\* fromFieldPath alone: the template becomes a clone of the inner object.
ReplaceRoot(template, subtree, target) ==
  LET ar == get_ar_from_subtree(subtree)
      metadata == Field(subtree, "metadata")
      inner == [types |-> ar.value, data |-> cleanup_subtree(subtree[2]),
                metadata |-> convert_metadata(metadata)]
  IN  CASE ar.status # "ok" -> ar
        [] ar.status = "ok" /\ ~Convertible(metadata) -> Err("panic")
        [] ar.status = "ok" /\ Convertible(metadata) -> Ok(clone_resource(inner, target, ar.value))

IsMetaPath(keys) == Len(keys) > 1 /\ keys[1] = "metadata"

\* toFieldPath: "metadata." is written by way of JSON, anything else into the data.
Place(template, keys, subtree) ==
  IF IsMetaPath(keys)
  THEN LET set == set_field_path(Obj(template.metadata), Tail(keys), subtree)
           meta == MetaFromValue(set.value[2])
       IN  CASE set.status # "ok" -> set
             [] set.status = "ok" /\ meta.status # "ok" -> meta
             [] set.status = "ok" /\ meta.status = "ok" -> Ok([template EXCEPT !.metadata = meta.value])
  ELSE LET set == set_field_path(Obj(template.data), keys, subtree)
       IN  IF set.status = "ok" THEN Ok([template EXCEPT !.data = set.value[2]]) ELSE set

ApplyOne(template, source, m, target) ==
  LET subtree == find_field_path(to_value(source), m.from)
  IN  CASE subtree.status # "ok" -> subtree
        [] subtree.status = "ok" /\ m.to = NoPath ->
             IF m.from = NoPath THEN Err("MappingEmpty")
             ELSE ReplaceRoot(template, subtree.value, target)
        [] subtree.status = "ok" /\ m.to # NoPath -> Place(template, m.to[2], subtree.value)

\* The whole loop: the first error ends it.
Then(r, source, m, target) == IF r.status = "ok" THEN ApplyOne(r.value, source, m, target) ELSE r

apply_mappings(source, ms, target) ==
  LET after[n \in 0..Len(ms)] ==
        IF n = 0 THEN Ok(Blank(target)) ELSE Then(after[n - 1], source, ms[n], target)
  IN  after[Len(ms)]

(***************************************************************************)
(* What the API server and the CRD guarantee: a source has a type, its     *)
(* metadata is ObjectMeta, its data are the other fields, and a path that  *)
(* is split at dots has a key.                                             *)
(***************************************************************************)
ASSUME MappingAssumption ==
  /\ MaxMappings \in Nat
  /\ IsTypeMeta(Target.ar)
  /\ \A s \in Sources :
       /\ IsTypeMeta(s.types)
       /\ ValidMeta(s.metadata)
       /\ \A f \in DOMAIN s.metadata : s.metadata[f] # Null
       /\ s.data = [f \in DOMAIN s.data |-> s.data[f]]
       /\ DOMAIN s.data \cap (TypeFields \cup {"metadata"}) = {}
  /\ \A m \in Mappings : m.to # NoPath => m.to = Path(m.to[2]) /\ m.to[2] \in Seq(STRING) \ {<<>>}

(***************************************************************************)
(* The loop, entry by entry.                                               *)
(***************************************************************************)
VARIABLES
  source,        \* the source object
  mappings,      \* spec.mappings
  next,          \* the entry that comes next
  template,      \* the target so far
  status         \* "running", "ok", the error, or "panic"

mappingVars == <<source, mappings, next, template, status>>

MappingInit ==
  /\ source \in Sources
  /\ mappings \in UNION {[1..n -> Mappings] : n \in 0..MaxMappings}
  /\ next = 1
  /\ template = Blank(Target)
  /\ status = "running"

\* A sync without mappings copies its source.
Clone ==
  /\ status = "running" /\ mappings = <<>>
  /\ template' = clone_resource(source, Target, Target.ar)
  /\ status' = "ok"
  /\ UNCHANGED <<source, mappings, next>>

Apply ==
  /\ status = "running" /\ next <= Len(mappings)
  /\ LET r == ApplyOne(template, source, mappings[next], Target)
     IN  /\ status' = IF r.status # "ok" THEN r.status
                      ELSE IF next = Len(mappings) THEN "ok" ELSE "running"
         /\ template' = IF r.status = "ok" THEN r.value ELSE template
  /\ next' = next + 1
  /\ UNCHANGED <<source, mappings>>

MappingSpec == MappingInit /\ [][Clone \/ Apply]_mappingVars

(***************************************************************************)
(* Properties.                                                             *)
(***************************************************************************)

Replaces(m) == m.to = NoPath /\ m.from # NoPath

Selected(m) ==
  LET nodes == Query(to_value(source), IF m.from = NoPath THEN <<>> ELSE m.from[2])
  IN  IF nodes = <<>> \/ Len(nodes) > 1 THEN Null ELSE nodes[1]

\* Of two overlapping destinations one is, or is inside, the other.
Overlap(p, q) == IsPrefix(p, q) \/ IsPrefix(q, p)

Segments(keys) == [i \in DOMAIN keys |-> Key(keys[i])]

\* The metadata of the template is always metadata: whatever values are mapped
\* into it, names are strings and labels and annotations are maps of strings.
MappingTypeOK ==
  /\ ValidMeta(template.metadata)
  /\ DOMAIN template.metadata \subseteq TextFields \cup MapFields
  /\ DOMAIN template.types = TypeFields

\* "Ordered field mappings" (README.md:151): what an entry selected is at its
\* destination in the end, unless a later entry replaced the template or wrote
\* there.  Fields that ObjectMeta does not know and null metadata are not kept, and
\* the destination "metadata", which has no dot, hides the metadata: it is data.
LaterEntriesWin ==
  status = "ok" =>
    \A i \in DOMAIN mappings :
      LET m == mappings[i] IN
        /\ m.to # NoPath
        /\ \A j \in i + 1..Len(mappings) :
             /\ mappings[j].to # NoPath
             /\ ~Overlap(m.to[2], mappings[j].to[2])
        /\ IsMetaPath(m.to[2]) =>
             /\ m.to[2][2] \in TextFields \cup MapFields /\ Selected(m) # Null
             /\ \A j \in 1..i - 1 : mappings[j].to # Path(<<"metadata">>)
        => Query(to_value(template), Segments(m.to[2])) = <<Selected(m)>>

\* An entry without destination starts over: the outcome is the one that the
\* entries from the last such entry on have by themselves.
ReplacementStartsOver ==
  status = "ok" =>
    \A i \in DOMAIN mappings :
      Replaces(mappings[i]) =>
        apply_mappings(source, SubSeq(mappings, i, Len(mappings)), Target) = Ok(template)

\* The target has the name and the namespace of the target reference, whatever
\* object inside the source it is cloned from, unless an entry writes them; and
\* no uid but one that an entry writes.
TargetIdentityKept ==
  status = "ok" =>
    \A f \in TextFields :
      (\A i \in DOMAIN mappings : mappings[i].to # NoPath =>
          ~Overlap(<<"metadata", f>>, mappings[i].to[2]))
      => Field(Obj(template.metadata), f) = Field(Obj(Identity(Target)), f)

\* The comment at mapping.rs:83, "not produce duplicate fields": unless an entry
\* names one of them as its destination, the type and the metadata are no fields
\* of the data too, which are serialized beside them.
FieldsOnce ==
  (\A i \in DOMAIN mappings : mappings[i].to # NoPath =>
      IsMetaPath(mappings[i].to[2]) \/ mappings[i].to[2][1] \notin TypeFields \cup {"metadata"})
  => DOMAIN template.data \cap (TypeFields \cup {"metadata"}) = {}

\* An object that is stored in a SinkerContainer by a sync with {toFieldPath: spec}
\* and taken out of it by one with {fromFieldPath: spec} (README.md:270) arrives as
\* a sync without mappings would have copied it.  It is asked of every object at
\* hand whose fields are there once.
ContainerRoundTrip ==
  status = "ok" =>
    \A o \in {source, template} :
      /\ DOMAIN o.types = TypeFields
      /\ DOMAIN o.data \cap (TypeFields \cup {"metadata"}) = {}
      => LET container == Ref("container", "there", TypeMeta(<<"sinker.influxdata.io", "v1alpha1">>, "SinkerContainer"))
             back == Ref(Target.name, Target.namespace, o.types)
             stored == apply_mappings(o, <<Entry(NoPath, Path(<<"spec">>))>>, container)
         IN  apply_mappings(stored.value, <<Entry(Path(<<Key("spec")>>), NoPath)>>, back) =
               Ok(clone_resource(o, back, o.types))

\* "metadata labels must be strings" (the test at mapping.rs:460): of a mapping
\* that breaks the rule the code makes an error, never a panic.
BadLabelsAreErrors == status # "panic"
=============================================================================
