--------------------------- MODULE ClusterAccess ---------------------------
(***************************************************************************)
(* How a reference to an object becomes an Api: cluster_client,            *)
(* verify_kubeconfig_secret_access and api_for of                          *)
(* src/src/resource_extensions.rs.                                         *)
(*                                                                         *)
(* One reference is resolved again and again, as attempts and watches do.  *)
(* Between the requests of a resolution Secrets and clusters change.  Of   *)
(* the annotation on a Secret only the namespaces that it matches matter,  *)
(* of its content only how far the code gets with it.                      *)
(***************************************************************************)
EXTENDS Naturals, FiniteSets

CONSTANTS
  Namespaces,    \* the namespaces of the controller's cluster
  Contents,      \* what may be at the key of a Secret: see Readings
  Refs           \* the references: see RefType

NotGiven == "not given"        \* an Option that is None

\* What a Secret has at the key: nothing, as there is no data or no such key, bytes
\* that are no text, text that is no kubeconfig, or a kubeconfig, which is named
\* after the namespace of its context.
Readings == {"no data", "no key", "no text", "no config", "kube-one", "kube-two"}
Kubeconfigs == {"kube-one", "kube-two"}

\* ClusterResourceRef, beside the namespace of its ResourceSync: the namespace of the
\* Secret and the one in the cluster, if given, and its GVKN, of which it matters
\* whether it can be parsed and the scope of its kind.
RefType ==
  [local_ns : Namespaces, remote : BOOLEAN, secret_ns : Namespaces \cup {NotGiven},
   namespace : {"workloads", NotGiven}, parses : BOOLEAN, scope : {"Cluster", "Namespaced"}]

ASSUME AccessAssumption ==
  /\ Contents \subseteq Readings
  /\ Refs \subseteq RefType
  /\ NotGiven \notin Namespaces

\* A Secret as read; the annotation is absent, invalid or a regex with matches.
Secret(annotation, matches, content) ==
  [annotation |-> annotation, matches |-> matches, content |-> content]

Missing == Secret("missing", {}, "no data")    \* none, or one that may not be read

SecretStates ==
  {Missing} \cup
  [annotation : {"absent", "invalid"}, matches : {{}}, content : Contents] \cup
  [annotation : {"regex"}, matches : SUBSET Namespaces, content : Contents]

VARIABLES
  secret,        \* the Secret that the reference names, if it names one
  up,            \* whether the remote cluster answers
  known,         \* whether the cluster at hand knows the kind of the reference
  ref,           \* the reference
  stage,         \* "start", "connecting", "discovering", "resolved", "failed"
  config,        \* the namespace of the client's configuration
  api,           \* the NamespacedApi: its namespace, and the one in its URLs
  outcome        \* "pending", "ok", the error, or "panic"

accessVars == <<secret, up, known, ref, stage, config, api, outcome>>

NoApi == [namespace |-> NotGiven, url |-> NotGiven]

AccessInit ==
  /\ secret = Missing
  /\ up = TRUE /\ known = TRUE
  /\ ref \in Refs
  /\ stage = "start"
  /\ config = NotGiven
  /\ api = NoApi
  /\ outcome = "pending"

(***************************************************************************)
(* The clusters.                                                           *)
(***************************************************************************)
ChangeSecret ==
  /\ \E s \in SecretStates \ {secret} : secret' = s
  /\ UNCHANGED <<up, known, ref, stage, config, api, outcome>>

ChangeCluster ==
  /\ \/ up' = ~up /\ UNCHANGED known
     \/ known' = ~known /\ UNCHANGED up
  /\ UNCHANGED <<secret, ref, stage, config, api, outcome>>

(***************************************************************************)
(* The resolution.                                                         *)
(***************************************************************************)
SecretNamespace(r) == IF r.secret_ns = NotGiven THEN r.local_ns ELSE r.secret_ns
Crosses(r) == r.remote /\ SecretNamespace(r) # r.local_ns

\* Mutant: it matters that the annotation matches, not what.
VerifyAny(local_ns, s) ==
  IF s.annotation = "regex" /\ s.matches # {} THEN "ok" ELSE "UnauthorizedKubeconfigAccess"

verify_kubeconfig_secret_access(local_ns, s) ==
  IF s.annotation = "regex" /\ local_ns \in s.matches THEN "ok" ELSE "UnauthorizedKubeconfigAccess"

\* Mutant: whatever YAML there is will do.
ParseLoosely(content) ==
  CASE content = "no data" -> "panic"
    [] content = "no key" -> "MissingKeyError"
    [] content = "no text" -> "KubeconfigUtf8Error"
    [] content \in Kubeconfigs \cup {"no config"} -> "ok"

\* The unwrap, the key, the text and the kubeconfig, in this order.
ParseKubeconfig(content) ==
  CASE content = "no data" -> "panic"
    [] content = "no key" -> "MissingKeyError"
    [] content = "no text" -> "KubeconfigUtf8Error"
    [] content = "no config" -> "KubeconfigError"
    [] content \in Kubeconfigs -> "ok"

\* Mutant: the key is looked up first.
UseKeyFirst(r, s) ==
  CASE s = Missing -> IF Crosses(r) THEN "UnauthorizedKubeconfigAccess" ELSE "KubeError"
    [] s # Missing /\ ParseKubeconfig(s.content) # "ok" -> ParseKubeconfig(s.content)
    [] s # Missing /\ ParseKubeconfig(s.content) = "ok" ->
         IF Crosses(r) THEN verify_kubeconfig_secret_access(r.local_ns, s) ELSE "ok"

\* What comes of the Secret that the request returned.
UseSecret(r, s) ==
  LET denied == Crosses(r) /\ verify_kubeconfig_secret_access(r.local_ns, s) # "ok"
  IN  CASE s = Missing -> IF Crosses(r) THEN "UnauthorizedKubeconfigAccess" ELSE "KubeError"
        [] s # Missing /\ denied -> "UnauthorizedKubeconfigAccess"
        [] s # Missing /\ ~denied -> ParseKubeconfig(s.content)

Fail(e) == stage' = "failed" /\ outcome' = e /\ UNCHANGED <<config, api>>

\* cluster_client up to the request for the version: the reference is local, or the
\* Secret is read and used as it was when it was read.
cluster_client ==
  /\ stage = "start"
  /\ IF ~ref.remote
     THEN stage' = "discovering" /\ UNCHANGED <<config, api, outcome>>
     ELSE IF UseSecret(ref, secret) = "ok"
          THEN /\ stage' = "connecting"
               /\ config' = IF ref.namespace # NotGiven THEN ref.namespace ELSE secret.content
               /\ UNCHANGED <<api, outcome>>
          ELSE Fail(UseSecret(ref, secret))
  /\ UNCHANGED <<secret, up, known, ref>>

apiserver_version ==
  /\ stage = "connecting"
  /\ IF up THEN stage' = "discovering" /\ UNCHANGED <<config, api, outcome>> ELSE Fail("KubeError")
  /\ UNCHANGED <<secret, up, known, ref>>

\* Mutant: a namespace that is not given is that of the ResourceSync.
NamespaceOrLocal(r) ==
  CASE r.scope = "Cluster" -> NotGiven
    [] r.scope = "Namespaced" /\ ~r.remote -> r.local_ns
    [] r.scope = "Namespaced" /\ r.remote -> IF r.namespace = NotGiven THEN r.local_ns ELSE r.namespace

NamespaceOf(r) ==
  CASE r.scope = "Cluster" -> NotGiven
    [] r.scope = "Namespaced" /\ ~r.remote -> r.local_ns
    [] r.scope = "Namespaced" /\ r.remote -> r.namespace

\* The rest of api_for: parsing comes before the request, scope after it.
pinned_kind ==
  /\ stage = "discovering"
  /\ CASE ~ref.parses -> Fail("ParseGroupVersionError")
       [] ref.parses /\ ~(known /\ (ref.remote => up)) -> Fail("KubeError")
       [] ref.parses /\ known /\ (ref.remote => up) ->
            /\ api' = [namespace |-> NamespaceOf(ref),
                       url |-> CASE ref.scope = "Cluster" -> NotGiven
                                 [] ref.scope = "Namespaced" /\ NamespaceOf(ref) = NotGiven -> config
                                 [] ref.scope = "Namespaced" /\ NamespaceOf(ref) # NotGiven -> NamespaceOf(ref)]
            /\ stage' = "resolved" /\ outcome' = "ok" /\ UNCHANGED config
  /\ UNCHANGED <<secret, up, known, ref>>

\* Mutant: a denial is final.
ResolveUnlessDenied ==
  /\ stage \in {"resolved", "failed"} /\ outcome \notin {"panic", "UnauthorizedKubeconfigAccess"}
  /\ stage' = "start" /\ config' = NotGiven /\ api' = NoApi /\ outcome' = "pending"
  /\ UNCHANGED <<secret, up, known, ref>>

\* The next attempt, or the next run of the watch.  None follows a panic of the task.
Resolve ==
  /\ stage \in {"resolved", "failed"} /\ outcome # "panic"
  /\ stage' = "start" /\ config' = NotGiven /\ api' = NoApi /\ outcome' = "pending"
  /\ UNCHANGED <<secret, up, known, ref>>

Clusters == ChangeSecret \/ ChangeCluster
Resolution == cluster_client \/ apiserver_version \/ pinned_kind
AccessNext == Clusters \/ Resolution \/ Resolve

\* The runtime polls the resolution, and every failure is retried: an attempt after
\* five seconds, a watch after its backoff.
AccessSpec ==
  /\ AccessInit /\ [][AccessNext]_accessVars
  /\ WF_accessVars(Resolution) /\ WF_accessVars(stage = "failed" /\ Resolve)

(***************************************************************************)
(* Properties.                                                             *)
(***************************************************************************)
AccessTypeOK ==
  /\ secret \in SecretStates
  /\ {up, known} \subseteq BOOLEAN
  /\ ref \in Refs
  /\ stage \in {"start", "connecting", "discovering", "resolved", "failed"}
  /\ config \in {NotGiven, "workloads"} \cup Kubeconfigs
  /\ {api.namespace, api.url} \subseteq {NotGiven, "workloads"} \cup Kubeconfigs \cup Namespaces
  /\ outcome \in {"pending", "ok", "panic", "KubeError", "ParseGroupVersionError", "MissingKeyError",
                  "KubeconfigUtf8Error", "KubeconfigError", "UnauthorizedKubeconfigAccess"}

Permitted(r) == secret.annotation = "regex" /\ r.local_ns \in secret.matches

\* README.md:191: a Secret of another namespace serves only if its annotation matches
\* the namespace of the ResourceSync, and this is so when it is read: neither an
\* earlier resolution nor one of its errors carries a permission over.
ForeignSecretNeedsPermission ==
  [][stage = "start" /\ stage' = "connecting" /\ Crosses(ref) => Permitted(ref)]_accessVars

\* A ResourceSync learns nothing of a Secret that it may not use: whether there is
\* one, with a key or a kubeconfig, the error is the same
\* (secret_read_errors_hide_cross_namespace_details, README.md:194).
DenialTellsNothing ==
  [][/\ stage = "start" /\ stage' # "start"
     /\ Crosses(ref) /\ ~Permitted(ref)
     => outcome' = "UnauthorizedKubeconfigAccess"]_accessVars

\* The namespace that a target's manifest gets is the one of the requests for it,
\* or none, where it is the server's to fill in.  A local reference stays in the
\* namespace of its ResourceSync; a remote one is where the reference says, else
\* where a kubeconfig says, never where the ResourceSync happens to be.
NamespacesAgree ==
  stage = "resolved" =>
    /\ api.namespace \in {NotGiven, api.url}
    /\ ref.scope = "Cluster" <=> api.url = NotGiven
    /\ ~ref.remote => api.url \in {NotGiven, ref.local_ns}
    /\ ref.remote => api.url \in {NotGiven, ref.namespace} \cup
                                 (IF ref.namespace = NotGiven THEN Kubeconfigs ELSE {})

\* Everything is there that the reference needs.
Served ==
  /\ ref.parses /\ known
  /\ ref.remote => /\ up
                   /\ secret.content \in Kubeconfigs
                   /\ Crosses(ref) => Permitted(ref)

\* Once everything is there to stay, the reference is resolved again and again,
\* whatever errors the earlier resolutions ran into, unless one of them panics.
EventuallyResolved == <>[]Served => []<>(stage = "resolved" \/ outcome = "panic")

\* "invalid_kubeconfigs_return_typed_errors" (the test at resource_extensions.rs:433):
\* no Secret makes the resolution panic.
TypedErrors == outcome # "panic"
=============================================================================
