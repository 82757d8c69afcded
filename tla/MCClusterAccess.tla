-------------------------- MODULE MCClusterAccess --------------------------
(***************************************************************************)
(* Instances of ClusterAccess, and the unit tests of                       *)
(* src/src/resource_extensions.rs on it as tables.                         *)
(***************************************************************************)
EXTENDS ClusterAccess

RefTo(remote, secret_ns, namespace, parses, scope) ==
  [local_ns |-> "team-a", remote |-> remote, secret_ns |-> secret_ns, namespace |-> namespace,
   parses |-> parses, scope |-> scope]

\* Local, with a Secret of its own namespace, and with one of another.
References ==
  {RefTo(FALSE, NotGiven, NotGiven, TRUE, scope) : scope \in {"Cluster", "Namespaced"}} \cup
  {RefTo(FALSE, NotGiven, NotGiven, FALSE, "Namespaced")} \cup
  {RefTo(TRUE, secret_ns, namespace, TRUE, "Namespaced") :
     secret_ns \in {NotGiven, "team-a", "store"}, namespace \in {"workloads", NotGiven}} \cup
  {RefTo(TRUE, "store", NotGiven, TRUE, "Cluster")}

(***************************************************************************)
(* Tests.                                                                  *)
(***************************************************************************)
cluster_ref(secret_ns) == RefTo(TRUE, secret_ns, "workloads", TRUE, "Namespaced")

\* The patterns of the tests as what they match of the namespaces that they are put to.
namespace_annotation_uses_regex_matching ==
  LET verify(ns, matches) == verify_kubeconfig_secret_access(ns, Secret("regex", matches, "no data"))
  IN  /\ verify("prefix-team-suffix", {"prefix-team-suffix"}) = "ok"
      /\ verify("prefix-team-suffix", {"team"}) = "UnauthorizedKubeconfigAccess"
      /\ verify("team-a", {"team-a", "prefix-team-suffix"}) = "ok"
      /\ verify("team-b", {"team-a", "team-b"}) = "ok"

\* errs_when_annotation_missing, errs_when_annotation_key_absent, errs_on_invalid_regex.
errs_without_usable_annotation ==
  \A annotation \in {"absent", "invalid"} :
    verify_kubeconfig_secret_access("dev", Secret(annotation, {}, "no data")) =
      "UnauthorizedKubeconfigAccess"

secret_read_errors_hide_cross_namespace_details ==
  /\ UseSecret(cluster_ref(NotGiven), Missing) = "KubeError"
  /\ UseSecret(cluster_ref("team-a"), Missing) = "KubeError"
  /\ UseSecret(cluster_ref("store"), Missing) = "UnauthorizedKubeconfigAccess"

secret_authorization_precedes_key_lookup ==
  LET use(ns, annotation, matches) == UseSecret(cluster_ref(ns), Secret(annotation, matches, "no key"))
  IN  /\ use(NotGiven, "absent", {}) = "MissingKeyError"
      /\ use(NotGiven, "regex", {"denied"}) = "MissingKeyError"
      /\ use("store", "absent", {}) = "UnauthorizedKubeconfigAccess"
      /\ use("store", "regex", {"denied"}) = "UnauthorizedKubeconfigAccess"
      /\ use("store", "regex", {"team-a"}) = "MissingKeyError"

invalid_kubeconfigs_return_typed_errors ==
  LET use(content) == UseSecret(cluster_ref(NotGiven), Secret("absent", {}, content))
  IN  /\ use("no text") = "KubeconfigUtf8Error"
      /\ use("no config") = "KubeconfigError"

local_api_uses_discovered_scope ==
  /\ NamespaceOf(RefTo(FALSE, NotGiven, NotGiven, TRUE, "Namespaced")) = "team-a"
  /\ NamespaceOf(RefTo(FALSE, NotGiven, NotGiven, TRUE, "Cluster")) = NotGiven

\* The tests of cluster_client, verify_kubeconfig_secret_access and api_for.
AccessConformsToTests ==
  secret = Missing =>
  /\ namespace_annotation_uses_regex_matching
  /\ errs_without_usable_annotation
  /\ secret_read_errors_hide_cross_namespace_details
  /\ secret_authorization_precedes_key_lookup
  /\ invalid_kubeconfigs_return_typed_errors
  /\ local_api_uses_discovered_scope
=============================================================================
