---------------------------- MODULE MappingTests ----------------------------
(***************************************************************************)
(* The unit tests of src/src/mapping.rs as tables, to hold Mapping against *)
(* what the code was seen to do, and the instances of it for TLC.          *)
(***************************************************************************)
EXTENDS Mapping

At(keys) == Path(Segments(keys))
ConfigMap == TypeMeta(<<"v1">>, "ConfigMap")
Container == TypeMeta(<<"sinker.influxdata.io", "v1alpha1">>, "SinkerContainer")
ClusterRole == TypeMeta(<<"rbac.authorization.k8s.io", "v1">>, "ClusterRole")

\* An object of a fixture, and what to_value makes of it.
Object(types, metadata, data) == [types |-> types, metadata |-> metadata, data |-> data]
Named(name) == [name |-> Str(name)]
NamedIn(name) == [name |-> Str(name), namespace |-> Str("default")]
Nested(f, g, v) == (f :> Obj(g :> v))
NoTypes == NoFields

(***************************************************************************)
(* find_field_path: value, path and the value or the error.                *)
(***************************************************************************)
KeyValue == Obj(Nested("data", "key", Str("value")))
ItemsAndNote == Obj([spec |-> Obj([items |-> Arr(<<Str("first"), Str("second")>>)]),
                     metadata |-> Obj(Nested("annotations", "example.com/key", Str("annotation")))])

source_path_selection ==
  /\ find_field_path(KeyValue, NoPath) = Ok(KeyValue)
  /\ find_field_path(KeyValue, Path(<<>>)) = Ok(KeyValue)
  /\ find_field_path(KeyValue, At(<<"data", "key">>)) = Ok(Str("value"))
  /\ find_field_path(KeyValue, At(<<"data", "missing">>)) = Ok(Null)

source_paths_support_jsonpath ==
  /\ find_field_path(ItemsAndNote, Path(<<Key("spec"), Key("items"), Index(1)>>)) = Ok(Str("second"))
  /\ find_field_path(ItemsAndNote, At(<<"metadata", "annotations", "example.com/key">>)) =
       Ok(Str("annotation"))

source_path_rejects ==
  /\ find_field_path(Obj([items |-> Arr(<<Num(1), Num(2)>>)]), Path(<<Key("items"), Every>>)) =
       Err("JsonPathExactlyOneValue")
  /\ find_field_path(Obj(NoFields), BadPath) = Err("JsonPathError")

(***************************************************************************)
(* set_field_path.                                                         *)
(***************************************************************************)
destination_paths_use_object_keys ==
  LET set(root, keys) == set_field_path(root, keys, Num(2))
  IN  /\ set(Obj(Nested("spec", "keep", Num(1))), <<"spec", "new">>) =
           Ok(Obj([spec |-> Obj([keep |-> Num(1), new |-> Num(2)])]))
      /\ set(Obj(Nested("spec", "old", Num(1))), <<"spec">>) = Ok(Obj([spec |-> Num(2)]))
      /\ set(Obj(NoFields), <<"">>) = Ok(Obj("" :> Num(2)))
      /\ set(Obj(NoFields), <<"items[0]">>) = Ok(Obj("items[0]" :> Num(2)))

destination_paths_reject_non_objects ==
  /\ \A root \in {Null, Arr(<<>>), Bool(FALSE)} :
       set_field_path(root, <<"key">>, Str("leaf")) = Err("AddToPathError")
  /\ \A v \in {Str("occupied"), Arr(<<>>), Null} :
       set_field_path(Obj([spec |-> v]), <<"spec", "key">>, Str("leaf")) = Err("AddToPathError")

test_add_to_path ==
  LET root == Obj([spec |-> Obj(NoFields), status |-> Obj([keep |-> Num(1)])])
      set(keys) == set_field_path(root, keys, Str("demo"))
      expected(v) == Ok(Obj([spec |-> Obj(NoFields), status |-> v]))
  IN  /\ set(<<"status">>) = expected(Str("demo"))
      /\ set(<<"status", "foo">>) = expected(Obj([keep |-> Num(1), foo |-> Str("demo")]))
      /\ set(<<"status", "foo", "bar">>) =
           expected(Obj([keep |-> Num(1), foo |-> Obj([bar |-> Str("demo")])]))

(***************************************************************************)
(* get_ar_from_subtree.                                                    *)
(***************************************************************************)
inner_resource_requires_type_metadata ==
  \A fields \in {[kind |-> Str("ConfigMap")],
                 [apiVersion |-> Num(1), kind |-> Str("ConfigMap")],
                 [apiVersion |-> Str("v1")],
                 [apiVersion |-> Str("v1"), kind |-> Arr(<<>>)]} :
    get_ar_from_subtree(Obj(fields)) = Err("MalformedInnerResource")

test_get_ar_from_subtree ==
  \A types \in {Container, ConfigMap} :
    get_ar_from_subtree(Obj(types @@ ("metadata" :> Obj(Named("test"))) @@
                            Nested("spec", "dummykey", Str("dummyvalue")))) = Ok(types)

(***************************************************************************)
(* clone_resource.                                                         *)
(***************************************************************************)
clone_preserves_payload_and_user_metadata_only ==
  LET payload == [data |-> Obj([nested |-> Arr(<<Num(1), Null, Bool(FALSE)>>)]),
                  status |-> Obj([ready |-> Bool(TRUE)])]
      labels == Obj([app |-> Str("demo")])
      original == Object(ConfigMap,
        [name |-> Str("original"), namespace |-> Str("source"), uid |-> Str("source-uid"),
         labels |-> labels,
         annotations |-> Obj(("example.com/keep" :> Str("yes")) @@ (LAST_APPLIED :> Str("discard")))],
        payload)
      ar == TypeMeta(<<"example.com", "v2">>, "Destination")
      metadata == [name |-> Str("copy"), labels |-> labels,
                   annotations |-> Obj("example.com/keep" :> Str("yes"))]
  IN  \A namespace \in {"destination", NoNamespace} :
        clone_resource(original, Ref("copy", namespace, ar), ar) =
          Object(ar, metadata @@ Identity(Ref("copy", namespace, ar)), payload)

test_clone_resource ==
  LET data == Nested("data", "dummykey", Str("dummyvalue"))
  IN  clone_resource(Object(ConfigMap, Named("test-configmap-1"), data),
                     Ref("test-configmap-2", "default", ConfigMap), ConfigMap) =
        Object(ConfigMap, NamedIn("test-configmap-2"), data)

test_clone_resource_cluster_scoped ==
  LET data == [rules |-> Arr(<<>>)]
  IN  clone_resource(Object(ClusterRole, Named("test-clusterrole-1"), data),
                     Ref("test-clusterrole-2", "default", ClusterRole), ClusterRole) =
        Object(ClusterRole, NamedIn("test-clusterrole-2"), data)

(***************************************************************************)
(* apply_mappings.  In most tests the source has neither type nor metadata.*)
(***************************************************************************)
mapped(data, ms) ==
  apply_mappings(Object(NoTypes, NoFields, data), ms, Ref("target-config", NoNamespace, ConfigMap))

fails(data, ms, e) == mapped(data, ms).status = e

Neither == Entry(NoPath, NoPath)
value_to(keys) == Entry(At(<<"value">>), Path(keys))

empty_mapping_entry_is_an_error ==
  fails([data |-> Obj([key |-> Str("value")])], <<Neither>>, "MappingEmpty")

mappings_are_ordered_and_missing_sources_become_null ==
  mapped([data |-> Obj([first |-> Str("one"), second |-> Str("two")])],
         <<Entry(At(<<"data", "first">>), Path(<<"data", "value">>)),
           Entry(At(<<"data", "second">>), Path(<<"data", "value">>)),
           Entry(At(<<"data", "missing">>), Path(<<"data", "absent">>))>>) =
    Ok(Object(ConfigMap, Named("target-config"),
              [data |-> Obj([value |-> Str("two"), absent |-> Null])]))

root_replacement_discards_earlier_mappings_and_allows_later_mappings ==
  LET labels == Obj([app |-> Str("embedded")])
      inner == ConfigMap @@ [metadata |-> Obj([labels |-> labels]),
                             data |-> Obj([embedded |-> Str("value")])]
  IN  mapped([spec |-> Obj(inner), extra |-> Str("after")],
             <<Entry(At(<<"extra">>), Path(<<"data", "discarded">>)),
               Entry(At(<<"spec">>), NoPath),
               Entry(At(<<"extra">>), Path(<<"data", "kept">>))>>) =
        Ok(Object(ConfigMap, [name |-> Str("target-config"), labels |-> labels],
                  [data |-> Obj([embedded |-> Str("value"), kept |-> Str("after")])]))

mapping_errors_propagate_from_destination_and_metadata_conversion ==
  LET data == [value |-> Num(42)]
  IN  /\ fails(data, <<value_to(<<"data">>), value_to(<<"data", "child">>)>>, "AddToPathError")
      /\ fails(data, <<value_to(<<"metadata", "labels", "app">>)>>, "SerializationError")

source_selection_errors_stop_later_mappings ==
  LET data == [items |-> Arr(<<Str("first"), Str("second")>>), value |-> Str("copied")]
      ms(path) == <<value_to(<<"data", "before">>), Entry(path, Path(<<"data", "selected">>)), Neither>>
  IN  /\ fails(data, ms(BadPath), "JsonPathError")
      /\ fails(data, ms(Path(<<Key("items"), Every>>)), "JsonPathExactlyOneValue")

malformed_root_replacement_stops_later_mappings ==
  fails([spec |-> Obj([apiVersion |-> Str("v1")]), value |-> Str("copied")],
        <<value_to(<<"data", "before">>), Entry(At(<<"spec">>), NoPath), Neither>>,
        "MalformedInnerResource")

metadata_paths_cannot_traverse_an_existing_scalar ==
  fails([value |-> Str("copied")],
        <<value_to(<<"metadata", "labels", "app">>),
          value_to(<<"metadata", "labels", "app", "child">>), Neither>>, "AddToPathError")

whole_source_mapping_preserves_embedded_identity ==
  LET dep == Object(ConfigMap,
        [name |-> Str("original"), namespace |-> Str("source"), uid |-> Str("source-uid")],
        Nested("data", "key", Str("value")))
  IN  \A path \in {NoPath, Path(<<>>)} :
        apply_mappings(dep, <<Entry(path, Path(<<"spec", "embedded">>))>>,
                       Ref("target-config", NoNamespace, ConfigMap)) =
          Ok(Object(ConfigMap, Named("target-config"), Nested("spec", "embedded", to_value(dep))))

\* The tests with a SinkerContainer or a plain resource on either side.
test_apply_mappings ==
  apply_mappings(
    Object(Container, Named("test-sinker-container-1"),
           Nested("spec", "subtree1", Obj([key |-> Str("value")]))),
    <<Entry(At(<<"spec", "subtree1">>), Path(<<"spec", "subtree2">>))>>,
    Ref("test-sinker-container-2", "default", Container)) =
  Ok(Object(Container, NamedIn("test-sinker-container-2"),
            Nested("spec", "subtree2", Obj([key |-> Str("value")]))))

test_apply_mappings_to_metadata ==
  LET labels == [labels |-> Obj([key |-> Str("value")])]
  IN  apply_mappings(
        Object(Container, Named("test-sinker-container-1") @@ labels,
               Nested("spec", "subtree1", Obj([key |-> Str("value")]))),
        <<Entry(At(<<"spec", "subtree1">>), Path(<<"spec", "subtree2">>)),
          Entry(At(<<"metadata", "labels">>), Path(<<"metadata", "labels">>))>>,
        Ref("test-sinker-container-2", "default", Container)) =
      Ok(Object(Container, NamedIn("test-sinker-container-2") @@ labels,
                Nested("spec", "subtree2", Obj([key |-> Str("value")]))))

from_spec(inner, target) ==
  apply_mappings(Object(Container, Named("test-sinker-container"), [spec |-> to_value(inner)]),
                 <<Entry(At(<<"spec">>), NoPath)>>, target)

test_apply_mappings_from_sinkercontainer ==
  LET maps == [annotations |-> Obj([key1 |-> Str("value1")]), labels |-> Obj([key2 |-> Str("value2")])]
      data == Nested("data", "dummykey", Str("dummyvalue"))
  IN  from_spec(Object(ConfigMap, Named("test-config-map-1") @@ maps, data),
                Ref("test-config-map-2", "default", ConfigMap)) =
        Ok(Object(ConfigMap, NamedIn("test-config-map-2") @@ maps, data))

test_apply_mappings_from_sinkercontainer_clusterscoped ==
  LET data == [rules |-> Arr(<<>>)]
  IN  from_spec(Object(ClusterRole, Named("test-clusterrole"), data),
                Ref("test-clusterrole", "default", ClusterRole)) =
        Ok(Object(ClusterRole, NamedIn("test-clusterrole"), data))

test_apply_mappings_to_sinkercontainer ==
  LET dep == Object(TypeMeta(<<"v1">>, "Deployment"),
                    NamedIn("test-deployment") @@
                      [annotations |-> Obj([key1 |-> Str("value1")]),
                       labels |-> Obj([key2 |-> Str("value2")])],
                    [spec |-> Obj([dummykey |-> Str("dummyvalue")]),
                     status |-> Obj([isgood |-> Bool(TRUE)])])
  IN  apply_mappings(dep, <<Entry(NoPath, Path(<<"spec">>))>>,
                     Ref("test-sinker-container", "default", Container)) =
        Ok(Object(Container, NamedIn("test-sinker-container"), [spec |-> to_value(dep)]))

\* The tests of mapping.rs, every case of every one of them.
MappingConformsToTests ==
  mappings = <<>> =>
  /\ source_path_selection
  /\ source_paths_support_jsonpath
  /\ source_path_rejects
  /\ destination_paths_use_object_keys
  /\ destination_paths_reject_non_objects
  /\ test_add_to_path
  /\ inner_resource_requires_type_metadata
  /\ test_get_ar_from_subtree
  /\ clone_preserves_payload_and_user_metadata_only
  /\ test_clone_resource
  /\ test_clone_resource_cluster_scoped
  /\ empty_mapping_entry_is_an_error
  /\ mappings_are_ordered_and_missing_sources_become_null
  /\ root_replacement_discards_earlier_mappings_and_allows_later_mappings
  /\ mapping_errors_propagate_from_destination_and_metadata_conversion
  /\ source_selection_errors_stop_later_mappings
  /\ malformed_root_replacement_stops_later_mappings
  /\ metadata_paths_cannot_traverse_an_existing_scalar
  /\ whole_source_mapping_preserves_embedded_identity
  /\ test_apply_mappings
  /\ test_apply_mappings_to_metadata
  /\ test_apply_mappings_from_sinkercontainer
  /\ test_apply_mappings_from_sinkercontainer_clusterscoped
  /\ test_apply_mappings_to_sinkercontainer

(***************************************************************************)
(* A property that takes objects apart to their leaves.                    *)
(***************************************************************************)
RECURSIVE Leaves(_)
Leaves(v) ==
  IF v[1] \in {"obj", "arr"} THEN UNION {Leaves(v[2][i]) : i \in DOMAIN v[2]} ELSE {v}

\* The comment at mapping.rs:43, "copies only fields explicitly selected": every
\* value of the target is one of the target reference, or in a subtree that some
\* entry selected.
OnlySelectedCopied ==
  status = "ok" /\ mappings # <<>> =>
    Leaves(to_value(template)) \subseteq
      Leaves(to_value(Blank(Target))) \cup UNION {Leaves(Selected(mappings[i])) : i \in DOMAIN mappings}

(***************************************************************************)
(* Instances.                                                              *)
(***************************************************************************)
Here == Ref("target", "here", ConfigMap)

\* Every value is in one place only, so that it tells where it comes from.
Plain ==
  Object(ConfigMap,
    [name |-> Str("plain"), namespace |-> Str("there"), uid |-> Str("plain-uid"),
     labels |-> Obj([app |-> Str("plain-app")]),
     annotations |-> Obj([note |-> Str("plain-note")] @@ (LAST_APPLIED :> Str("plain-applied")))],
    [data |-> Obj([first |-> Str("one"), second |-> Str("two")]),
     items |-> Arr(<<Str("item0"), Str("item1")>>), extra |-> Str("plain-extra"), value |-> Num(42)])

\* A container with an object, whose labels are given.
Holding(labels) ==
  Object(Container,
    [name |-> Str("holder"), namespace |-> Str("there"), labels |-> Obj([app |-> Str("holder-app")])],
    [spec |-> Obj(TypeMeta(<<"apps", "v1">>, "Deployment") @@
        [metadata |-> Obj([name |-> Str("inner"), namespace |-> Str("elsewhere"), uid |-> Str("inner-uid"),
                           annotations |-> Obj(LAST_APPLIED :> Str("inner-applied")), labels |-> labels]),
         data |-> Obj([first |-> Str("inner-one")])]),
     extra |-> Str("holder-extra")])

\* One that holds no object.
Hollow == Object(Container, [name |-> Str("hollow")], [spec |-> Obj([kind |-> Str("ConfigMap")]), extra |-> Null])

TidySources == {Plain, Holding(Obj([app |-> Str("inner-app")])), Holding(Null), Hollow}
UntidySources == {Holding(Obj([app |-> Num(42)]))}
AllSources == TidySources \cup UntidySources

Entries ==
  {Entry(At(<<"data", "first">>), Path(<<"data", "value">>)),
   Entry(At(<<"extra">>), Path(<<"data", "value">>)),
   Entry(At(<<"extra">>), Path(<<"data", "value", "deep">>)),
   Entry(At(<<"data">>), Path(<<"data">>)),
   Entry(At(<<"spec">>), NoPath),
   Entry(Path(<<>>), NoPath),
   Entry(NoPath, Path(<<"spec">>)),
   Entry(At(<<"metadata", "labels">>), Path(<<"metadata", "labels">>)),
   Entry(At(<<"value">>), Path(<<"metadata", "labels", "app">>)),
   Entry(At(<<"extra">>), Path(<<"metadata", "labels", "extra">>)),
   Entry(At(<<"extra">>), Path(<<"metadata", "name">>)),
   Entry(At(<<"extra">>), Path(<<"metadata", "unknown">>)),
   Entry(At(<<"extra">>), Path(<<"kind">>)),
   Entry(At(<<"extra">>), Path(<<"metadata">>)),
   Entry(Path(<<Key("items"), Index(1)>>), Path(<<"">>)),
   Entry(Path(<<Key("items"), Every>>), Path(<<"data", "items">>)),
   Neither}
=============================================================================
