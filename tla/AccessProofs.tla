---------------------------- MODULE AccessProofs ----------------------------
(***************************************************************************)
(* What ClusterAccess promises, for all namespaces, Secrets and            *)
(* references: its types, the agreement of the namespaces, and that a      *)
(* Secret of another namespace is neither used nor described without its   *)
(* permission.                                                             *)
(***************************************************************************)
EXTENDS ClusterAccess, TLAPS

\* The configuration that a resolution has by its stage.  Only a remote reference
\* connects, and its client has the namespace of the reference, else the one of a
\* kubeconfig.
ConfigKept ==
  /\ stage = "connecting" => ref.remote
  /\ stage \in {"connecting", "discovering"} /\ ref.remote =>
       config \in IF ref.namespace = NotGiven THEN Kubeconfigs ELSE {ref.namespace}

AccessInv == AccessTypeOK /\ ConfigKept /\ NamespacesAgree

\* The fields of a reference.
LEMMA RefFields ==
  ASSUME NEW r \in Refs
  PROVE  /\ r.local_ns \in Namespaces /\ r.local_ns # NotGiven
         /\ r.remote \in BOOLEAN /\ r.parses \in BOOLEAN
         /\ r.secret_ns \in Namespaces \cup {NotGiven}
         /\ r.namespace \in {"workloads", NotGiven}
         /\ r.scope \in {"Cluster", "Namespaced"}
  BY AccessAssumption DEF RefType

\* The content of a Secret is one that the code tells apart.
LEMMA SecretFields ==
  ASSUME NEW s \in SecretStates
  PROVE  s.content \in Readings
  <1>1. CASE s = Missing  BY <1>1 DEF Missing, Secret, Readings
  <1>2. CASE s \in [annotation : {"absent", "invalid"}, matches : {{}}, content : Contents]
    BY <1>2, AccessAssumption
  <1>3. CASE s \in [annotation : {"regex"}, matches : SUBSET Namespaces, content : Contents]
    BY <1>3, AccessAssumption
  <1>4. QED  BY <1>1, <1>2, <1>3 DEF SecretStates

\* A Secret that serves has a kubeconfig, and permits it if it is of another namespace.
LEMMA UsedSecret ==
  ASSUME NEW r \in Refs, NEW s \in SecretStates, UseSecret(r, s) = "ok"
  PROVE  /\ s.content \in Kubeconfigs
         /\ Crosses(r) => s.annotation = "regex" /\ r.local_ns \in s.matches
  <1>1. s.content \in Readings  BY SecretFields
  <1>2. s # Missing  BY DEF UseSecret
  <1>3. ~(Crosses(r) /\ verify_kubeconfig_secret_access(r.local_ns, s) # "ok")
    BY <1>2 DEF UseSecret
  <1>4. ParseKubeconfig(s.content) = "ok"  BY <1>2, <1>3 DEF UseSecret
  <1>5. QED  BY <1>1, <1>3, <1>4 DEF ParseKubeconfig, Readings, Kubeconfigs, verify_kubeconfig_secret_access

\* The errors of a Secret are outcomes.
LEMMA UseSecretType ==
  ASSUME NEW r \in Refs, NEW s \in SecretStates
  PROVE  UseSecret(r, s) \in {"ok", "panic", "KubeError", "MissingKeyError",
                              "KubeconfigUtf8Error", "KubeconfigError",
                              "UnauthorizedKubeconfigAccess"}
  <1>1. s.content \in Readings  BY SecretFields
  <1>2. ParseKubeconfig(s.content) \in {"ok", "panic", "MissingKeyError", "KubeconfigUtf8Error", "KubeconfigError"}
    BY <1>1 DEF ParseKubeconfig, Readings, Kubeconfigs
  <1>3. QED  BY <1>2 DEF UseSecret

\* Without permission there is one answer, whatever the Secret is.
LEMMA DeniedSecret ==
  ASSUME NEW r \in Refs, NEW s \in SecretStates, Crosses(r),
         ~(s.annotation = "regex" /\ r.local_ns \in s.matches)
  PROVE  UseSecret(r, s) = "UnauthorizedKubeconfigAccess"
  BY DEF UseSecret, verify_kubeconfig_secret_access

\* A resolution starts with nothing to keep.
LEMMA AccessInitial == AccessInit => AccessInv
  <1> SUFFICES ASSUME AccessInit PROVE AccessInv
    OBVIOUS
  <1>1. secret \in SecretStates  BY DEF AccessInit, SecretStates
  <1>2. AccessTypeOK  BY <1>1 DEF AccessInit, AccessTypeOK, NoApi
  <1>3. ConfigKept /\ NamespacesAgree  BY DEF AccessInit, ConfigKept, NamespacesAgree
  <1>4. QED  BY <1>2, <1>3 DEF AccessInv

\* Every step keeps the invariant.
LEMMA AccessStep == AccessInv /\ [AccessNext]_accessVars => AccessInv'
  <1> SUFFICES ASSUME AccessInv, [AccessNext]_accessVars PROVE AccessInv'
    OBVIOUS
  <1> USE DEF AccessInv
  <1>r. /\ ref \in Refs
        /\ ref.local_ns \in Namespaces /\ ref.local_ns # NotGiven
        /\ ref.remote \in BOOLEAN /\ ref.parses \in BOOLEAN
        /\ ref.namespace \in {"workloads", NotGiven}
        /\ ref.scope \in {"Cluster", "Namespaced"}
    BY RefFields DEF AccessTypeOK
  <1>1. CASE ChangeSecret
    BY <1>1 DEF ChangeSecret, AccessTypeOK, ConfigKept, NamespacesAgree
  <1>2. CASE ChangeCluster
    BY <1>2 DEF ChangeCluster, AccessTypeOK, ConfigKept, NamespacesAgree
  <1>3. CASE cluster_client
    <2>1. UseSecret(ref, secret) \in {"ok", "panic", "KubeError", "MissingKeyError",
                "KubeconfigUtf8Error", "KubeconfigError", "UnauthorizedKubeconfigAccess"}
      BY UseSecretType DEF AccessTypeOK
    <2>2. UseSecret(ref, secret) = "ok" => secret.content \in Kubeconfigs
      BY UsedSecret DEF AccessTypeOK
    <2>3. AccessTypeOK'
      BY <1>3, <1>r, <2>1, <2>2 DEF cluster_client, Fail, AccessTypeOK
    <2>4. ConfigKept'
      BY <1>3, <1>r, <2>2 DEF cluster_client, Fail, ConfigKept
    <2>5. NamespacesAgree'
      BY <1>3 DEF cluster_client, Fail, NamespacesAgree
    <2>6. QED  BY <2>3, <2>4, <2>5
  <1>4. CASE apiserver_version
    BY <1>4, <1>r DEF apiserver_version, Fail, AccessTypeOK, ConfigKept, NamespacesAgree
  <1>5. CASE pinned_kind
    <2>1. CASE stage' = "failed"
      BY <1>5, <2>1 DEF pinned_kind, Fail, AccessTypeOK, ConfigKept, NamespacesAgree
    <2>2. CASE stage' = "resolved"
      <3>1. /\ ref.parses /\ known /\ (ref.remote => up)
            /\ api' = [namespace |-> NamespaceOf(ref),
                       url |-> CASE ref.scope = "Cluster" -> NotGiven
                                 [] ref.scope = "Namespaced" /\ NamespaceOf(ref) = NotGiven -> config
                                 [] ref.scope = "Namespaced" /\ NamespaceOf(ref) # NotGiven -> NamespaceOf(ref)]
            /\ outcome' = "ok"
            /\ UNCHANGED <<secret, up, known, ref, config>>
        BY <1>5, <1>r, <2>2 DEF pinned_kind, Fail, AccessTypeOK
      <3>2. ref.remote => config \in IF ref.namespace = NotGiven THEN Kubeconfigs ELSE {ref.namespace}
        BY <1>5 DEF pinned_kind, ConfigKept
      <3>3. CASE ref.scope = "Cluster"
        BY <1>r, <2>2, <3>1, <3>3 DEF NamespaceOf, AccessTypeOK, ConfigKept, NamespacesAgree, NotGiven
      <3>4. CASE ref.scope = "Namespaced" /\ ~ref.remote
        BY <1>r, <2>2, <3>1, <3>4 DEF NamespaceOf, AccessTypeOK, ConfigKept, NamespacesAgree, NotGiven
      <3>5. CASE ref.scope = "Namespaced" /\ ref.remote
        BY <1>r, <2>2, <3>1, <3>2, <3>5
        DEF NamespaceOf, AccessTypeOK, ConfigKept, NamespacesAgree, NotGiven, Kubeconfigs
      <3>6. QED  BY <1>r, <3>3, <3>4, <3>5
    <2>3. QED  BY <1>5, <1>r, <2>1, <2>2 DEF pinned_kind, Fail, AccessTypeOK
  <1>6. CASE Resolve
    BY <1>6 DEF Resolve, NoApi, AccessTypeOK, ConfigKept, NamespacesAgree
  <1>7. CASE UNCHANGED accessVars
    BY <1>7 DEF accessVars, AccessTypeOK, ConfigKept, NamespacesAgree
  <1>8. QED
    BY <1>1, <1>2, <1>3, <1>4, <1>5, <1>6, <1>7 DEF AccessNext, Clusters, Resolution

\* At every stage of a resolution, while Secret and cluster change as they like, the
\* reference, the Secret, the client's configuration and the outcome have their types.
THEOREM AccessTypeCorrect == AccessSpec => []AccessTypeOK
  <1>1. AccessInv => AccessTypeOK  BY DEF AccessInv
  <1>2. QED  BY AccessInitial, AccessStep, <1>1, PTL DEF AccessSpec

\* In every reachable state the namespace that api_for returns, that of its URLs and
\* that of the reference agree.
THEOREM AccessInvariant == AccessSpec => []NamespacesAgree
  <1>1. AccessInv => NamespacesAgree  BY DEF AccessInv
  <1>2. QED  BY AccessInitial, AccessStep, <1>1, PTL DEF AccessSpec

\* A resolution leaves its start by cluster_client alone, and goes on to connect
\* only with a Secret that serves.
LEMMA LeavesStart ==
  ASSUME AccessTypeOK, AccessNext, stage = "start", stage' # "start"
  PROVE  /\ cluster_client
         /\ ref.remote => IF UseSecret(ref, secret) = "ok" THEN stage' = "connecting"
                          ELSE stage' = "failed" /\ outcome' = UseSecret(ref, secret)
         /\ ~ref.remote => stage' = "discovering"
  <1>1. cluster_client
    BY DEF AccessNext, Clusters, Resolution, ChangeSecret, ChangeCluster, apiserver_version,
           pinned_kind, Resolve
  <1>2. QED  BY <1>1 DEF cluster_client, Fail

\* cluster_client uses no Secret of another namespace but one whose annotation, as
\* read with the Secret, matches the namespace of the ResourceSync.
THEOREM PermissionNeeded == AccessSpec => ForeignSecretNeedsPermission
  <1>1. AccessTypeOK /\ [AccessNext]_accessVars =>
          [stage = "start" /\ stage' = "connecting" /\ Crosses(ref) => Permitted(ref)]_accessVars
    <2> SUFFICES ASSUME AccessTypeOK, AccessNext, stage = "start", stage' = "connecting", Crosses(ref)
                 PROVE  Permitted(ref)
      BY DEF accessVars
    <2>1. UseSecret(ref, secret) = "ok"  BY LeavesStart DEF Crosses
    <2>2. ref \in Refs /\ secret \in SecretStates  BY DEF AccessTypeOK
    <2>3. QED  BY <2>1, <2>2, UsedSecret DEF Permitted
  <1>2. QED  BY <1>1, AccessTypeCorrect, PTL DEF AccessSpec, ForeignSecretNeedsPermission

\* Whatever a Secret of another namespace holds, and whether there is one, a
\* ResourceSync without its permission gets the same error.
THEOREM OneDenial == AccessSpec => DenialTellsNothing
  <1>1. AccessTypeOK /\ [AccessNext]_accessVars =>
          [/\ stage = "start" /\ stage' # "start"
           /\ Crosses(ref) /\ ~Permitted(ref)
           => outcome' = "UnauthorizedKubeconfigAccess"]_accessVars
    <2> SUFFICES ASSUME AccessTypeOK, AccessNext, stage = "start", stage' # "start",
                        Crosses(ref), ~Permitted(ref)
                 PROVE  outcome' = "UnauthorizedKubeconfigAccess"
      BY DEF accessVars
    <2>1. ref \in Refs /\ secret \in SecretStates  BY DEF AccessTypeOK
    <2>2. UseSecret(ref, secret) = "UnauthorizedKubeconfigAccess"
      BY <2>1, DeniedSecret DEF Permitted
    <2>3. ref.remote  BY DEF Crosses
    <2>4. QED  BY <2>2, <2>3, LeavesStart
  <1>2. QED  BY <1>1, AccessTypeCorrect, PTL DEF AccessSpec, DenialTellsNothing
=============================================================================
