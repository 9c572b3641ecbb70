------------------------------ MODULE Headscale ------------------------------
(***************************************************************************)
(* The Headscale reconciler, internal/controller/headscale_controller.go,  *)
(* with status.go and config.go: it turns one Headscale object into the    *)
(* workload that runs the server, and reports how that workload fares.     *)
(*                                                                         *)
(* The children are written with server-side apply, which replaces what    *)
(* the operator owns whatever version is stored and never conflicts.  The  *)
(* object itself is updated with optimistic locking, and its status with a *)
(* merge patch.  Around the reconciler stand the parts of the cluster it   *)
(* counts on: the StatefulSet controller, one pod with the headscale       *)
(* container and the API key sidecar, and the garbage collector.           *)
(*                                                                         *)
(* Simplifications: one Headscale object that lives once; of its spec the  *)
(* part that the properties tell apart; a child is the generation of the   *)
(* spec it was applied from; one replica; pods are read without delay; a   *)
(* spec.config that cannot be rendered is refused by the CRD.              *)
(***************************************************************************)
EXTENDS KubeObject, FiniteSets

CONSTANTS
  Specs,     \* the specs users write
  Secrets,   \* names of Secrets
  MaxLag,    \* bound on the watch events of one object on their way
  Bounds     \* how many generations, failures and changes by hand may meet

\* What spec.config is to the operator and to the server: fine in two ways, or
\* without a server_url, and then refused by the server when it starts.
Configs == {"fine", "alsoFine", "noServerURL"}

\* manage is api_key.auto_manage, secret is apiKeySecretNameFor, policy tells
\* whether acl_policy.inline parses.
HeadscaleSpec == [manage : BOOLEAN, secret : Secrets, config : Configs,
                  policy : BOOLEAN]

ASSUME SpecsAssumption == Specs \subseteq HeadscaleSpec
ASSUME BoundsAssumption ==
  MaxLag \in Nat \ {0} /\ Bounds \subseteq [gens : Nat, faults : Nat, admin : Nat]

VARIABLES
  hs,        \* versions of the Headscale object
  specs,     \* its specs, by generation
  child,     \* the children but the StatefulSet: generation applied, 0 if missing
  sts,       \* versions of the StatefulSet
  pod,       \* the pod, or NoPod
  secret,    \* who wrote each Secret
  queued,    \* the key is in the work queue
  pc,        \* the call the worker is about to make
  obj,       \* its in-memory copy of the object
  fresh,     \* that copy carries the latest resourceVersion
  ready,     \* the Ready condition it has computed
  late,      \* ghost: Secrets the sidecar wrote when deletion had begun
  marked,    \* ghost: the generation at which deletion began
  faults,    \* failed calls, restarts and container failures so far
  admin      \* changes made by hand so far

cluster == <<child, sts, pod, secret, late>>
object == <<hs, specs, marked>>
worker == <<pc, obj, fresh, ready>>
budget == <<faults, admin>>
vars == <<hs, specs, child, sts, pod, secret, queued, pc, obj, fresh,
          ready, late, marked, faults, admin>>

-----------------------------------------------------------------------------
(* Values.                                                                 *)

Rbac == <<"ServiceAccount", "Role", "RoleBinding">>
Workload == <<"ConfigMap", "StatefulSet", "Service", "MetricsService">>
Kinds == {"ServiceAccount", "Role", "RoleBinding", "ConfigMap", "StatefulSet",
          "Service", "MetricsService"}
Others == Kinds \ {"StatefulSet"}

ReadyReasons == {"Unset", "Reconciled", "StatefulSetMissing", "NotReady", "Crashed"}

\* The three conditions and the generation they were computed for.
Status == [gen : Nat, config : {"Unset", "Valid", "MissingServerURL"},
           policy : {"Unset", "Valid", "InvalidPolicy"}, ready : ReadyReasons]
NoStatus == [gen |-> 0, config |-> "Unset", policy |-> "Unset", ready |-> "Unset"]

Object == [life : {"none", "live", "deleting", "gone"}, finalizer : BOOLEAN,
           gen : Nat, status : Status]
Absent == [life |-> "none", finalizer |-> FALSE, gen |-> 0, status |-> NoStatus]

StatefulSet == [gen : Nat, ready : {0, 1}]
NoStatefulSet == [gen |-> 0, ready |-> 0]

\* A pod has the template of a generation and the config that was in the
\* ConfigMap when its container last started.
Pod == [gen : Nat, config : Nat, state : {"none", "ready", "crashed"}]
NoPod == [gen |-> 0, config |-> 0, state |-> "none"]

Writers == {"none", "sidecar", "user"}
Pcs == Kinds \cup {"idle", "addFinalizer", "computeReady", "patch", "deleteSecret",
                   "removeFinalizer"}

Exists(o) == o.life \in {"live", "deleting"}
SpecOf(g) == specs[g]

TypeOK ==
  /\ hs \in History(Object)
  /\ specs \in Seq(Specs)
  /\ child \in [Others -> Nat]
  /\ sts \in History(StatefulSet)
  /\ pod \in Pod
  /\ secret \in [Secrets -> Writers]
  /\ queued \in BOOLEAN
  /\ pc \in Pcs /\ obj \in Object /\ fresh \in BOOLEAN /\ ready \in ReadyReasons
  /\ late \subseteq Secrets /\ marked \in Nat
  /\ faults \in Nat /\ admin \in Nat
  /\ Stored(hs).gen = Len(specs)

Init ==
  /\ hs = <<Absent>> /\ specs = <<>> /\ marked = 0
  /\ child = [k \in Others |-> 0]
  /\ sts = <<NoStatefulSet>>
  /\ pod = NoPod
  /\ secret = [s \in Secrets |-> "none"] /\ late = {}
  /\ queued = FALSE
  /\ pc = "idle" /\ obj = Absent /\ fresh = FALSE /\ ready = "Unset"
  /\ faults = 0 /\ admin = 0

-----------------------------------------------------------------------------
(* Steps the actions are built from.                                       *)

Forget == pc' = "idle" /\ obj' = Absent /\ fresh' = FALSE /\ ready' = "Unset"
Finish == Forget /\ UNCHANGED queued
Requeue == Forget /\ queued' = TRUE

Goto(label) == pc' = label /\ UNCHANGED <<fresh, ready, queued>>

Within(g, f, a) == \E b \in Bounds : g <= b.gens /\ f <= b.faults /\ a <= b.admin

Fault == /\ Within(Len(specs), faults + 1, admin)
         /\ faults' = faults + 1 /\ UNCHANGED admin
AdminStep == /\ Within(Len(specs), faults, admin + 1)
             /\ admin' = admin + 1 /\ UNCHANGED faults

Write(o) == Lag(hs) < MaxLag /\ hs' = Written(hs, o)
Store(o) == Write(o) /\ UNCHANGED <<specs, marked>>

\* An Update of the in-memory copy: refused when that copy is out of date.
UpdateAccepted(o) == fresh /\ Store(o)
UpdateFailed(o) ==
  \/ ~fresh /\ UNCHANGED <<object, budget>>
  \/ fresh /\ Fault /\ (UNCHANGED object \/ Store(o))

WithFinalizer(o) == [o EXCEPT !.finalizer = TRUE]
Removed(o) == [o EXCEPT !.life = "gone", !.finalizer = FALSE]

-----------------------------------------------------------------------------
(* What each child is made of.                                             *)

\* The pod template: statefulSetForHeadscale with the hash of the rendered
\* config, and the sidecar and its --secret-name when the key is managed.
Template(g) == IF g = 0 THEN <<>>
               ELSE IF SpecOf(g).manage THEN <<SpecOf(g).config, SpecOf(g).secret>>
               ELSE <<SpecOf(g).config>>

\* What a child of kind k applied from generation g looks like; a kind that
\* does not depend on the spec looks the same for all of them.
Content(k, g) ==
  IF g = 0 THEN <<>>
  ELSE CASE k = "ConfigMap" -> <<SpecOf(g).config>>
         [] k = "Role" -> <<SpecOf(g).secret>>
         [] k = "StatefulSet" -> Template(g)
         [] OTHER -> <<k>>

\* The generation the StatefulSet was applied from.
Current == Stored(sts).gen

StatefulSetIs(o) == Lag(sts) < MaxLag /\ sts' = Written(sts, o)

\* Server-side apply: a write that changes nothing makes no version.
ApplyOther(k) == child' = [child EXCEPT ![k] = obj.gen] /\ UNCHANGED sts

ApplyStatefulSet ==
  /\ LET new == [Stored(sts) EXCEPT !.gen = obj.gen] IN
     IF Content("StatefulSet", Current) = Content("StatefulSet", obj.gen)
     THEN sts' = [sts EXCEPT ![Len(sts)] = new]
     ELSE StatefulSetIs(new)
  /\ UNCHANGED child

ApplyChild(k) == IF k = "StatefulSet" THEN ApplyStatefulSet ELSE ApplyOther(k)

\* A slip: Owns the StatefulSet only.
OwnsStatefulSet == {"StatefulSet"}

\* Owns: the kinds whose events enqueue their owner.
Owned == Kinds

\* The event of a child that the reconciler never reads; when it arrives does
\* not matter, so it arrives at once.
EventOfApply(k) ==
  /\ k # "StatefulSet" /\ k \in Owned
  /\ Content(k, child[k]) # Content(k, obj.gen)

\* A slip: the StatefulSet is applied before its ConfigMap.
StepsTemplateFirst(manage) ==
  (IF manage THEN Rbac ELSE <<>>)
    \o <<"StatefulSet", "ConfigMap", "Service", "MetricsService">>

\* The order in which Reconcile applies the children of a generation.
Steps(manage) == (IF manage THEN Rbac ELSE <<>>) \o Workload

\* The call that follows the apply of kind k.
After(k) ==
  LET order == Steps(SpecOf(obj.gen).manage)
      i == CHOOSE j \in 1..Len(order) : order[j] = k
  IN IF i = Len(order) THEN "computeReady" ELSE order[i + 1]

-----------------------------------------------------------------------------
(* The reconciler.                                                         *)

\* A slip: no ensureFinalizer.
FirstCallUnprotected(o) ==
  CASE o.life = "deleting" ->
         IF ~o.finalizer THEN "idle"
         ELSE IF SpecOf(o.gen).manage THEN "deleteSecret" ELSE "removeFinalizer"
    [] o.life = "live" -> Steps(SpecOf(o.gen).manage)[1]
    [] OTHER -> "idle"

\* A slip: the Secret is deleted whoever manages it.
FirstCallAlwaysDeletes(o) ==
  CASE o.life = "deleting" -> IF ~o.finalizer THEN "idle" ELSE "deleteSecret"
    [] o.life = "live" ->
         IF ~o.finalizer THEN "addFinalizer" ELSE Steps(SpecOf(o.gen).manage)[1]
    [] OTHER -> "idle"

\* Where Reconcile goes with the object it read.
FirstCall(o) ==
  CASE o.life = "deleting" ->
         IF ~o.finalizer THEN "idle"
         ELSE IF SpecOf(o.gen).manage THEN "deleteSecret" ELSE "removeFinalizer"
    [] o.life = "live" ->
         IF ~o.finalizer THEN "addFinalizer" ELSE Steps(SpecOf(o.gen).manage)[1]
    [] OTHER -> "idle"

\* Reconcile starts: it reads the object from the cache.
Reconcile ==
  /\ pc = "idle" /\ queued
  /\ queued' = FALSE
  /\ LET o == Observed(hs) IN
     IF FirstCall(o) # "idle"
     THEN pc' = FirstCall(o) /\ obj' = o /\ fresh' = InSync(hs) /\ UNCHANGED ready
     ELSE UNCHANGED worker
  /\ UNCHANGED <<object, cluster, budget>>

\* ensureFinalizer.
AddFinalizer ==
  /\ pc = "addFinalizer"
  /\ UpdateAccepted(WithFinalizer(obj))
  /\ obj' = WithFinalizer(obj)
  /\ Goto(Steps(SpecOf(obj.gen).manage)[1])
  /\ UNCHANGED <<cluster, budget>>

AddFinalizerFails ==
  /\ pc = "addFinalizer"
  /\ UpdateFailed(WithFinalizer(obj))
  /\ Requeue
  /\ UNCHANGED cluster

\* applyResource, for the next child in order.
Apply(k) ==
  /\ pc = k
  /\ ApplyChild(k)
  /\ queued' = (queued \/ EventOfApply(k))
  /\ pc' = After(k) /\ UNCHANGED <<fresh, ready>>
  /\ UNCHANGED <<object, pod, secret, late, obj, budget>>

\* A slip: the error of an apply is logged and the next child comes up.
AfterApplyErrorGoOn(k) == Goto(After(k)) /\ UNCHANGED obj

\* Reconcile returns the error of an apply.
AfterApplyError(k) == Requeue

ApplyFails(k) ==
  /\ pc = k
  /\ Fault
  /\ ApplyChild(k) \/ UNCHANGED <<child, sts>>
  /\ AfterApplyError(k)
  /\ UNCHANGED <<object, pod, secret, late>>

\* computeReadyCondition: the StatefulSet comes from the cache, and a failed
\* container is looked for only when replicas are missing.
ReadyReason ==
  LET o == Observed(sts) IN
  IF o.gen = 0 THEN "StatefulSetMissing"
  ELSE IF o.ready = 1 THEN "Reconciled"
  ELSE IF pod.state = "crashed" THEN "Crashed"
  ELSE "NotReady"

ComputeReady ==
  /\ pc = "computeReady"
  /\ ready' = ReadyReason
  /\ pc' = "patch"
  /\ UNCHANGED <<object, cluster, queued, obj, fresh, budget>>

\* An error of either read is taken for the absence of what it looked for.
ComputeReadyFails ==
  /\ pc = "computeReady"
  /\ Fault
  /\ \/ ready' = "StatefulSetMissing"
     \/ ReadyReason = "Crashed" /\ ready' = "NotReady"
  /\ pc' = "patch"
  /\ UNCHANGED <<object, cluster, queued, obj, fresh>>

\* configValidCondition, validateACLPolicy and the Ready condition.
NewStatus ==
  [gen |-> obj.gen,
   config |-> IF SpecOf(obj.gen).config = "noServerURL" THEN "MissingServerURL" ELSE "Valid",
   policy |-> IF SpecOf(obj.gen).policy THEN "Valid" ELSE "InvalidPolicy",
   ready |-> ready]

\* A slip: the copy is written back as a whole.
PatchedWhole == [obj EXCEPT !.status = NewStatus]

\* A merge patch touches the conditions only, but all of them.
Patched == [Stored(hs) EXCEPT !.status = NewStatus]

\* A slip: no requeue for a workload that is not ready.
AfterStatusNoRequeue == Finish

AfterStatus == IF ready = "Reconciled" THEN Finish ELSE Requeue

\* updateStatus: nothing to do when the copy has these conditions already;
\* otherwise a patch that replaces the whole list.
UpdateStatus ==
  /\ pc = "patch"
  /\ IF obj.status # NewStatus
     THEN Exists(Stored(hs)) /\ Store(Patched)
     ELSE UNCHANGED object
  /\ AfterStatus
  /\ UNCHANGED <<cluster, budget>>

UpdateStatusFails ==
  /\ pc = "patch" /\ obj.status # NewStatus
  /\ \/ ~Exists(Stored(hs)) /\ UNCHANGED <<object, budget>>
     \/ Fault /\ UNCHANGED object
     \/ Fault /\ Exists(Stored(hs)) /\ Store(Patched)
  /\ Requeue
  /\ UNCHANGED cluster

\* handleDeletion: the Secret goes before the finalizer.
DeleteSecret ==
  /\ pc = "deleteSecret"
  /\ secret[SpecOf(obj.gen).secret] # "none"
  /\ secret' = [secret EXCEPT ![SpecOf(obj.gen).secret] = "none"]
  /\ Goto("removeFinalizer")
  /\ UNCHANGED <<object, child, sts, pod, late, obj, budget>>

\* A slip: a Secret that is not there is an error like any other.
AfterSecretMissingRetry == Requeue

\* There may be none, or a call that failed has deleted it.
AfterSecretMissing == Goto("removeFinalizer") /\ UNCHANGED obj

DeleteSecretMissing ==
  /\ pc = "deleteSecret"
  /\ secret[SpecOf(obj.gen).secret] = "none"
  /\ AfterSecretMissing
  /\ UNCHANGED <<object, cluster, budget>>

\* A slip: the error is logged and the finalizer removed all the same.
AfterDeleteSecretErrorGoOn == Goto("removeFinalizer") /\ UNCHANGED obj

\* An error of that call keeps the finalizer.
AfterDeleteSecretError == Requeue

DeleteSecretFails ==
  /\ pc = "deleteSecret"
  /\ Fault
  /\ \/ UNCHANGED secret
     \/ secret' = [secret EXCEPT ![SpecOf(obj.gen).secret] = "none"]
  /\ AfterDeleteSecretError
  /\ UNCHANGED <<object, child, sts, pod, late>>

RemoveFinalizer ==
  /\ pc = "removeFinalizer"
  /\ UpdateAccepted(Removed(obj))
  /\ Finish
  /\ UNCHANGED <<cluster, budget>>

RemoveFinalizerFails ==
  /\ pc = "removeFinalizer"
  /\ UpdateFailed(Removed(obj))
  /\ Requeue
  /\ UNCHANGED cluster

Step ==
  \/ AddFinalizer \/ AddFinalizerFails
  \/ \E k \in Kinds : Apply(k) \/ ApplyFails(k)
  \/ ComputeReady \/ ComputeReadyFails
  \/ UpdateStatus \/ UpdateStatusFails
  \/ DeleteSecret \/ DeleteSecretMissing \/ DeleteSecretFails
  \/ RemoveFinalizer \/ RemoveFinalizerFails

-----------------------------------------------------------------------------
(* Watches and restarts.                                                   *)

\* A watch event of the object itself.
DeliverHeadscale ==
  /\ Lag(hs) > 0
  /\ hs' = Delivered(hs)
  /\ queued' = TRUE
  /\ UNCHANGED <<specs, marked, cluster, worker, budget>>

DeliverStatefulSet ==
  /\ Lag(sts) > 0
  /\ sts' = Delivered(sts)
  /\ queued' = (queued \/ "StatefulSet" \in Owned)
  /\ UNCHANGED <<object, child, pod, secret, late, worker, budget>>

\* The manager restarts and lists everything.
Crash ==
  /\ Fault
  /\ hs' = Relisted(hs) /\ sts' = Relisted(sts)
  /\ queued' = Exists(Stored(hs))
  /\ Forget
  /\ UNCHANGED <<specs, marked, child, pod, secret, late>>

-----------------------------------------------------------------------------
(* The rest of the cluster.                                                *)

\* The server exits when it refuses the config it starts with.
Runs(g) == SpecOf(g).config \in {"fine", "alsoFine"}

\* A container starts with the config that is mounted now.
Started(template) ==
  [gen |-> template, config |-> child["ConfigMap"],
   state |-> IF Runs(child["ConfigMap"]) THEN "ready" ELSE "crashed"]

\* The StatefulSet controller makes a pod.  Admission refuses one whose
\* ServiceAccount does not exist, and it waits for the ConfigMap it mounts.
PodStarts ==
  /\ Current # 0 /\ pod.state = "none"
  /\ child["ServiceAccount"] # 0 /\ child["ConfigMap"] # 0
  /\ pod' = Started(Current)
  /\ UNCHANGED <<object, child, sts, secret, late, worker, queued, budget>>

\* A container that exited is started again.
ContainerRestarts ==
  /\ pod.state = "crashed" /\ child["ConfigMap"] # 0
  /\ pod' = Started(pod.gen) /\ pod' # pod
  /\ UNCHANGED <<object, child, sts, secret, late, worker, queued, budget>>

\* The container of a pod that was ready exits.
ContainerFails ==
  /\ pod.state = "ready"
  /\ Fault
  /\ pod' = [pod EXCEPT !.state = "crashed"]
  /\ UNCHANGED <<object, child, sts, secret, late, worker, queued>>

\* The pod is removed: its StatefulSet is gone, or it makes way for one with
\* the new template, which OrderedReady allows only when it is ready.
PodRemoved ==
  /\ pod.state # "none"
  /\ \/ Current = 0
     \/ Current # 0 /\ pod.state = "ready" /\ Template(pod.gen) # Template(Current)
  /\ pod' = NoPod
  /\ UNCHANGED <<object, child, sts, secret, late, worker, queued, budget>>

\* The StatefulSet controller counts the pods that are ready.
ReadyReplicas == IF pod.state = "ready" THEN 1 ELSE 0

PodsCounted ==
  /\ Current # 0 /\ Stored(sts).ready # ReadyReplicas
  /\ StatefulSetIs([Stored(sts) EXCEPT !.ready = ReadyReplicas])
  /\ UNCHANGED <<object, child, pod, secret, late, worker, queued, budget>>

\* The sidecar of a running server finds its Secret missing and writes it;
\* the Role must name that Secret.
SidecarPublishes ==
  /\ pod.state = "ready" /\ SpecOf(pod.gen).manage
  /\ LET s == SpecOf(pod.gen).secret IN
     /\ secret[s] = "none"
     /\ child["Role"] # 0 /\ SpecOf(child["Role"]).secret = s
     /\ child["RoleBinding"] # 0
     /\ secret' = [secret EXCEPT ![s] = "sidecar"]
     /\ late' = IF Stored(hs).life = "live" THEN late \ {s} ELSE late \cup {s}
  /\ UNCHANGED <<object, child, sts, pod, worker, queued, budget>>

\* The garbage collector removes what the object owned.
Collect ==
  /\ Stored(hs).life = "gone"
  /\ \/ /\ \E k \in Others : child[k] # 0
        /\ child' = [k \in Others |-> 0]
        /\ queued' = TRUE /\ UNCHANGED sts
     \/ Current # 0 /\ StatefulSetIs(NoStatefulSet) /\ UNCHANGED <<child, queued>>
  /\ UNCHANGED <<object, pod, secret, late, worker, budget>>

Surroundings == PodStarts \/ ContainerRestarts \/ PodRemoved \/ PodsCounted
                  \/ SidecarPublishes \/ Collect

-----------------------------------------------------------------------------
(* People.                                                                 *)

CreateHeadscale ==
  /\ Stored(hs).life = "none"
  /\ \E s \in Specs :
       /\ specs' = <<s>>
       /\ Write([Absent EXCEPT !.life = "live", !.gen = 1])
  /\ UNCHANGED <<marked, cluster, worker, queued, budget>>

\* The spec may be edited as long as the object is there.
EditSpec ==
  /\ Exists(Stored(hs)) /\ Within(Len(specs) + 1, faults, admin)
  /\ \E s \in Specs \ {SpecOf(Stored(hs).gen)} : specs' = Append(specs, s)
  /\ Write([Stored(hs) EXCEPT !.gen = @ + 1])
  /\ fresh' = FALSE
  /\ UNCHANGED <<marked, cluster, pc, obj, ready, queued, budget>>

DeleteHeadscale ==
  /\ Stored(hs).life = "live"
  /\ Write(IF Stored(hs).finalizer THEN [Stored(hs) EXCEPT !.life = "deleting"]
           ELSE Removed(Stored(hs)))
  /\ marked' = Stored(hs).gen
  /\ fresh' = FALSE
  /\ UNCHANGED <<specs, cluster, pc, obj, ready, queued, budget>>

\* Somebody deletes a child.
DeleteChild ==
  /\ AdminStep
  /\ \/ \E k \in Others : /\ child[k] # 0
                          /\ child' = [child EXCEPT ![k] = 0]
                          /\ queued' = (queued \/ k \in Owned)
                          /\ UNCHANGED sts
     \/ Current # 0 /\ StatefulSetIs(NoStatefulSet) /\ UNCHANGED <<child, queued>>
  /\ UNCHANGED <<object, pod, secret, late, worker>>

\* Somebody brings an API key Secret of their own.
BringSecret ==
  /\ AdminStep
  /\ \E s \in Secrets : secret[s] = "none" /\ secret' = [secret EXCEPT ![s] = "user"]
  /\ UNCHANGED <<object, child, sts, pod, late, worker, queued>>

People == CreateHeadscale \/ EditSpec \/ DeleteHeadscale \/ DeleteChild \/ BringSecret

Worker == Reconcile \/ Step
Deliver == DeliverHeadscale \/ DeliverStatefulSet

Next == Worker \/ Deliver \/ Crash \/ Surroundings \/ ContainerFails \/ People

\* The worker, the watches and the cluster's own controllers keep going.
Fairness == WF_vars(Worker) /\ WF_vars(Deliver) /\ WF_vars(Surroundings)

Spec == Init /\ [][Next]_vars /\ Fairness

-----------------------------------------------------------------------------
(* Safety.                                                                 *)

\* A server runs with a config at least as new as the one its pod template was
\* hashed from, through edits, failed applies, restarts and deleted
\* ConfigMaps: the template must never be ahead of the ConfigMap, or the pod
\* would keep the old config with nothing left to roll it (the config-hash
\* annotation).
RunsHashedConfig == pod.state = "ready" => pod.config >= pod.gen

\* The status speaks for a generation only when every child of that
\* generation has been applied; what is missing since was deleted by hand
\* (Reconcile returns the error of an apply before updateStatus).
StatusAfterChildren ==
  LET g == Stored(hs).status.gen IN
  g # 0 => \A i \in 1..Len(Steps(SpecOf(g).manage)) :
             LET k == Steps(SpecOf(g).manage)[i]
                 applied == IF k = "StatefulSet" THEN Current ELSE child[k]
             IN applied = 0 \/ applied >= g

\* Once the object is gone, a Secret the sidecar wrote before the deletion
\* began is gone too, also when the spec was edited, a call failed or the
\* operator restarted half-way; the one exception is a Secret whose name or
\* management the user had given up (handleDeletion).
SecretDeleted ==
  Stored(hs).life = "gone" =>
    \A s \in Secrets :
      secret[s] = "sidecar" =>
        \/ s \in late
        \/ LET last == SpecOf(Stored(hs).gen) IN ~last.manage \/ last.secret # s

\* The operator deletes no Secret but the one that the spec managed when the
\* deletion began or since: a user who brings a Secret and turns auto_manage
\* off before deleting the object keeps it (handleDeletion).
DeletesOnlyManagedSecret ==
  [][\A s \in Secrets :
       secret[s] # "none" /\ secret'[s] = "none" =>
         /\ marked # 0
         /\ \E g \in marked..Len(specs) : SpecOf(g).manage /\ SpecOf(g).secret = s]_vars

-----------------------------------------------------------------------------
(* Liveness.                                                               *)

\* When edits and failures stop, no deletion hangs, an object that is gone has
\* taken its children along, and of one that stays every child is there and made
\* of the last spec, also those that were deleted by hand (the Owns watches and
\* the returned errors; nothing depends on the resync).
Applied(k) == IF k = "StatefulSet" THEN Current ELSE child[k]

ChildrenConverge ==
  LET g == Stored(hs).gen IN
  <>[](/\ Stored(hs).life # "deleting"
       /\ Stored(hs).life = "gone" => \A k \in Kinds : Applied(k) = 0
       /\ Stored(hs).life = "live" =>
            \A i \in 1..Len(Steps(SpecOf(g).manage)) :
              LET k == Steps(SpecOf(g).manage)[i]
              IN Applied(k) # 0 /\ Content(k, Applied(k)) = Content(k, g))

\* The conditions end up telling the truth: about the last spec, and about
\* the workload, including a container that crashes although pods are not
\* watched (notReadyRequeue).
StatusConverges ==
  <>[](Stored(hs).life = "live" =>
         LET g == Stored(hs).gen  st == Stored(hs).status IN
         /\ st.gen = g
         /\ st.config = "MissingServerURL" <=> SpecOf(g).config = "noServerURL"
         /\ st.policy = "InvalidPolicy" <=> ~SpecOf(g).policy
         /\ st.ready = "Reconciled" <=> pod.state = "ready"
         /\ st.ready = "Crashed" <=> pod.state = "crashed")

\* Given a ServiceAccount (the template names one in any case, but none is applied
\* unless auto_manage is on), a server whose spec.config is acceptable ends up
\* running it, also when it refused an earlier one: a StatefulSet does not
\* replace a pod that is not ready, so the fix must reach the crashing
\* container through the ConfigMap, and the others through the config-hash.
RunsLastConfig ==
  <>[](LET g == Stored(hs).gen IN
       Stored(hs).life = "live" /\ Runs(g) /\ child["ServiceAccount"] # 0
         => pod.state = "ready" /\ SpecOf(pod.config).config = SpecOf(g).config)
=============================================================================
