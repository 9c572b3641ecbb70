--------------------------- MODULE HeadscaleProofs ---------------------------
(***************************************************************************)
(* Theorems about Headscale, for any specs, any set of Secrets and any     *)
(* bounds.                                                                 *)
(***************************************************************************)
EXTENDS Headscale, KubeObjectProofs

-----------------------------------------------------------------------------
(* The order of the applies.                                               *)

RbacKinds == {"ServiceAccount", "Role", "RoleBinding"}
WorkloadKinds == {"ConfigMap", "StatefulSet", "Service", "MetricsService"}

\* The children that a generation asks for.
Required(g) == IF SpecOf(g).manage THEN RbacKinds \cup WorkloadKinds ELSE WorkloadKinds

\* The call after each apply.
Following ==
  [k \in Kinds |->
     CASE k = "ServiceAccount" -> "Role"
       [] k = "Role" -> "RoleBinding"
       [] k = "RoleBinding" -> "ConfigMap"
       [] k = "ConfigMap" -> "StatefulSet"
       [] k = "StatefulSet" -> "Service"
       [] k = "Service" -> "MetricsService"
       [] k = "MetricsService" -> "computeReady"]

\* The call a pass begins with when nothing else is to be done.
FirstApply(g) == IF SpecOf(g).manage THEN "ServiceAccount" ELSE "ConfigMap"

\* Call by call.
LEMMA FollowingCalls ==
  /\ Following["ServiceAccount"] = "Role" /\ Following["Role"] = "RoleBinding"
  /\ Following["RoleBinding"] = "ConfigMap" /\ Following["ConfigMap"] = "StatefulSet"
  /\ Following["StatefulSet"] = "Service" /\ Following["Service"] = "MetricsService"
  /\ Following["MetricsService"] = "computeReady"
BY DEF Following, Kinds

\* What the order is, written out.
LEMMA StepsOrder ==
  /\ Len(Steps(TRUE)) = 7
  /\ Steps(TRUE)[1] = "ServiceAccount" /\ Steps(TRUE)[2] = "Role"
  /\ Steps(TRUE)[3] = "RoleBinding" /\ Steps(TRUE)[4] = "ConfigMap"
  /\ Steps(TRUE)[5] = "StatefulSet" /\ Steps(TRUE)[6] = "Service"
  /\ Steps(TRUE)[7] = "MetricsService"
  /\ Len(Steps(FALSE)) = 4
  /\ Steps(FALSE)[1] = "ConfigMap" /\ Steps(FALSE)[2] = "StatefulSet"
  /\ Steps(FALSE)[3] = "Service" /\ Steps(FALSE)[4] = "MetricsService"
<1>1. Rbac \in Seq(Kinds) /\ Len(Rbac) = 3
  BY DEF Rbac, Kinds
<1>2. Workload \in Seq(Kinds) /\ Len(Workload) = 4
  BY DEF Workload, Kinds
<1>3. /\ Rbac[1] = "ServiceAccount" /\ Rbac[2] = "Role" /\ Rbac[3] = "RoleBinding"
      /\ Workload[1] = "ConfigMap" /\ Workload[2] = "StatefulSet"
      /\ Workload[3] = "Service" /\ Workload[4] = "MetricsService"
  BY DEF Rbac, Workload
<1>4. Steps(TRUE) = Rbac \o Workload /\ Steps(FALSE) = Workload
  BY <1>2, ConcatEmptySeq DEF Steps
<1>5. /\ Len(Rbac \o Workload) = Len(Rbac) + Len(Workload)
      /\ \A i \in 1..Len(Rbac) + Len(Workload) :
           (Rbac \o Workload)[i] = IF i <= Len(Rbac) THEN Rbac[i]
                                   ELSE Workload[i - Len(Rbac)]
  BY <1>1, <1>2, ConcatProperties
<1>6. Len(Rbac) + Len(Workload) = 7
  BY <1>1, <1>2
<1> DEFINE s == Rbac \o Workload
<1>7. \A i \in 1..7 : s[i] = IF i <= 3 THEN Rbac[i] ELSE Workload[i - 3]
  BY <1>1, <1>5, <1>6
<1> HIDE DEF s
<1>8. /\ s[1] = Rbac[1] /\ s[2] = Rbac[2] /\ s[3] = Rbac[3]
      /\ s[4] = Workload[1] /\ s[5] = Workload[2] /\ s[6] = Workload[3]
      /\ s[7] = Workload[4]
  BY <1>7
<1>9. Steps(TRUE) = s /\ Len(s) = 7
  BY <1>4, <1>5, <1>6 DEF s
<1> QED BY <1>2, <1>3, <1>4, <1>8, <1>9

\* It begins with one of two applies.
LEMMA StepsFirst ==
  ASSUME NEW m
  PROVE  Steps(m)[1] \in {"ServiceAccount", "ConfigMap"}
<1>1. CASE m
  <2>1. Steps(m) = Steps(TRUE)
    BY <1>1 DEF Steps
  <2> QED BY <2>1, StepsOrder
<1>2. CASE ~m
  <2>1. Steps(m) = Steps(FALSE)
    BY <1>2 DEF Steps
  <2> QED BY <2>1, StepsOrder
<1> QED BY <1>1, <1>2

\* The order takes up the children that are asked for and no others.
LEMMA StepsRequired ==
  ASSUME NEW g, SpecOf(g).manage \in BOOLEAN
  PROVE  LET order == Steps(SpecOf(g).manage)
         IN  /\ \A i \in 1..Len(order) : order[i] \in Required(g)
             /\ \A k \in Required(g) : \E i \in 1..Len(order) : order[i] = k
             /\ order[1] = FirstApply(g)
<1>1. CASE SpecOf(g).manage
  <2>1. SpecOf(g).manage = TRUE
    BY <1>1
  <2>2. 1..7 = {1, 2, 3, 4, 5, 6, 7}
    OBVIOUS
  <2> QED BY <2>1, <2>2, StepsOrder DEF Required, FirstApply, RbacKinds, WorkloadKinds
<1>2. CASE ~SpecOf(g).manage
  <2>1. SpecOf(g).manage = FALSE
    BY <1>2
  <2>2. 1..4 = {1, 2, 3, 4}
    OBVIOUS
  <2> QED BY <2>1, <2>2, StepsOrder DEF Required, FirstApply, RbacKinds, WorkloadKinds
<1> QED BY <1>1, <1>2

\* Each apply is followed by the next one.
LEMMA AfterApply ==
  ASSUME SpecOf(obj.gen).manage \in BOOLEAN, NEW k \in Required(obj.gen)
  PROVE  After(k) = Following[k]
<1> DEFINE order == Steps(SpecOf(obj.gen).manage)
           i == CHOOSE j \in 1..Len(order) : order[j] = k
<1>1. After(k) = IF i = Len(order) THEN "computeReady" ELSE order[i + 1]
  BY DEF After
<1>2. i \in 1..Len(order) /\ order[i] = k
  BY StepsRequired
<1> HIDE DEF i
<1> HIDE DEF order
<1>3. CASE SpecOf(obj.gen).manage
  <2>1. /\ Len(order) = 7
        /\ order[1] = "ServiceAccount"
        /\ order[2] = "Role"
        /\ order[3] = "RoleBinding"
        /\ order[4] = "ConfigMap"
        /\ order[5] = "StatefulSet"
        /\ order[6] = "Service"
        /\ order[7] = "MetricsService"
    BY <1>3, StepsOrder DEF order
  <2>2. \/ i = 7
        \/ i = 1 /\ i + 1 = 2
        \/ i = 2 /\ i + 1 = 3
        \/ i = 3 /\ i + 1 = 4
        \/ i = 4 /\ i + 1 = 5
        \/ i = 5 /\ i + 1 = 6
        \/ i = 6 /\ i + 1 = 7
    BY <1>2, <2>1
  <2>3. IF i = 7 THEN After(k) = "computeReady" ELSE After(k) = order[i + 1]
    BY <1>1, <2>1
  <2> QED BY <1>2, <2>1, <2>2, <2>3, FollowingCalls
<1>4. CASE ~SpecOf(obj.gen).manage
  <2>1. /\ Len(order) = 4
        /\ order[1] = "ConfigMap"
        /\ order[2] = "StatefulSet"
        /\ order[3] = "Service"
        /\ order[4] = "MetricsService"
    BY <1>4, StepsOrder DEF order
  <2>2. \/ i = 4
        \/ i = 1 /\ i + 1 = 2
        \/ i = 2 /\ i + 1 = 3
        \/ i = 3 /\ i + 1 = 4
    BY <1>2, <2>1
  <2>3. IF i = 4 THEN After(k) = "computeReady" ELSE After(k) = order[i + 1]
    BY <1>1, <2>1
  <2> QED BY <1>2, <2>1, <2>2, <2>3, FollowingCalls
<1> QED BY <1>3, <1>4

-----------------------------------------------------------------------------
(* What a step does to the object and to the worker.                       *)

\* The values the reconciler and people write.
LEMMA ValueTypes ==
  ASSUME TypeOK
  PROVE  /\ Stored(hs) \in Object /\ Observed(hs) \in Object
         /\ Stored(sts) \in StatefulSet
         /\ WithFinalizer(obj) \in Object /\ Removed(obj) \in Object
         /\ NewStatus \in Status /\ Patched \in Object
         /\ [Stored(hs) EXCEPT !.gen = @ + 1] \in Object
         /\ [Stored(hs) EXCEPT !.life = "deleting"] \in Object
         /\ Removed(Stored(hs)) \in Object
         /\ [Absent EXCEPT !.life = "live", !.gen = 1] \in Object
<1>1. /\ Stored(hs) \in Object /\ Observed(hs) \in Object
      /\ Stored(sts) \in StatefulSet
  BY EndVersions DEF TypeOK
<1>2. obj \in Object
  BY DEF TypeOK
<1>3. NewStatus \in Status
  BY <1>2 DEF NewStatus, Status, Object, TypeOK
<1>4. NoStatus \in Status
  BY DEF NoStatus, Status, ReadyReasons
<1>5. Patched \in Object
  BY <1>1, <1>3 DEF Patched, Object
<1>6. /\ WithFinalizer(obj) \in Object /\ Removed(obj) \in Object
      /\ Removed(Stored(hs)) \in Object
  BY <1>1, <1>2 DEF WithFinalizer, Removed, Object
<1>7. /\ [Stored(hs) EXCEPT !.gen = @ + 1] \in Object
      /\ [Stored(hs) EXCEPT !.life = "deleting"] \in Object
  BY <1>1 DEF Object
<1>8. [Absent EXCEPT !.life = "live", !.gen = 1] \in Object
  BY <1>4 DEF Absent, Object
<1> QED BY <1>1, <1>3, <1>5, <1>6, <1>7, <1>8

\* The versions that are ever written: by the worker from a copy that is still the
\* latest or, with the patch, from the stored version, and by people.
NewVersion(o) ==
  \/ /\ UNCHANGED <<specs, marked>> /\ pc' # pc
     /\ \/ pc = "addFinalizer" /\ fresh /\ o = WithFinalizer(obj)
        \/ pc = "removeFinalizer" /\ fresh /\ o = Removed(obj)
        \/ pc = "patch" /\ Exists(Stored(hs)) /\ o = Patched
  \/ CreateHeadscale /\ o = [Absent EXCEPT !.life = "live", !.gen = 1]
  \/ EditSpec /\ o = [Stored(hs) EXCEPT !.gen = @ + 1]
  \/ DeleteHeadscale /\ o = IF Stored(hs).finalizer
                            THEN [Stored(hs) EXCEPT !.life = "deleting"]
                            ELSE Removed(Stored(hs))

ObjectEvolves ==
  \/ UNCHANGED object
  \/ Lag(hs) > 0 /\ hs' = Delivered(hs) /\ UNCHANGED <<specs, marked, pc, obj, fresh>>
  \/ hs' = Relisted(hs) /\ pc' = "idle" /\ UNCHANGED <<specs, marked>>
  \/ \E o \in Object : hs' = Written(hs, o) /\ NewVersion(o)

\* Every version of the object is one of these.
LEMMA ObjectEvolution ==
  ASSUME TypeOK, [Next]_vars
  PROVE  ObjectEvolves
<1>1. CASE \/ AddFinalizer \/ AddFinalizerFails \/ RemoveFinalizer
           \/ RemoveFinalizerFails \/ UpdateStatus \/ UpdateStatusFails
  <2>1. CASE UNCHANGED object
    BY <2>1 DEF ObjectEvolves
  <2>2. CASE AddFinalizer \/ AddFinalizerFails
    <3>1. /\ pc = "addFinalizer" /\ pc' # pc
          /\ UNCHANGED object \/ (fresh /\ Store(WithFinalizer(obj)))
      <4>1. Steps(SpecOf(obj.gen).manage)[1] # "addFinalizer"
        BY StepsFirst
      <4> QED BY <2>2, <4>1 DEF AddFinalizer, AddFinalizerFails, UpdateAccepted,
                                UpdateFailed, Goto, Requeue, Forget
    <3> QED BY <2>1, <3>1, ValueTypes DEF Store, Write, ObjectEvolves, NewVersion
  <2>3. CASE RemoveFinalizer \/ RemoveFinalizerFails
    <3>1. /\ pc = "removeFinalizer" /\ pc' # pc
          /\ UNCHANGED object \/ (fresh /\ Store(Removed(obj)))
      BY <2>3 DEF RemoveFinalizer, RemoveFinalizerFails, UpdateAccepted, UpdateFailed,
                  Finish, Requeue, Forget
    <3> QED BY <2>1, <3>1, ValueTypes DEF Store, Write, ObjectEvolves, NewVersion
  <2>4. CASE UpdateStatus \/ UpdateStatusFails
    <3>1. /\ pc = "patch" /\ pc' # pc
          /\ UNCHANGED object \/ (Exists(Stored(hs)) /\ Store(Patched))
      BY <2>4 DEF UpdateStatus, UpdateStatusFails, AfterStatus, Finish, Requeue, Forget
    <3> QED BY <2>1, <3>1, ValueTypes DEF Store, Write, ObjectEvolves, NewVersion
  <2> QED BY <1>1, <2>2, <2>3, <2>4
<1>2. CASE CreateHeadscale
  BY <1>2, ValueTypes DEF CreateHeadscale, Write, ObjectEvolves, NewVersion
<1>3. CASE EditSpec
  BY <1>3, ValueTypes DEF EditSpec, Write, ObjectEvolves, NewVersion
<1>4. CASE DeleteHeadscale
  BY <1>4, ValueTypes DEF DeleteHeadscale, Write, ObjectEvolves, NewVersion
<1>5. CASE DeliverHeadscale
  BY <1>5 DEF DeliverHeadscale, ObjectEvolves, worker
<1>6. CASE Crash
  BY <1>6 DEF Crash, Forget, ObjectEvolves
<1>7. CASE \/ Reconcile \/ \E k \in Kinds : Apply(k) \/ ApplyFails(k)
           \/ ComputeReady \/ ComputeReadyFails
           \/ DeleteSecret \/ DeleteSecretMissing \/ DeleteSecretFails
           \/ DeliverStatefulSet \/ Surroundings \/ ContainerFails
           \/ DeleteChild \/ BringSecret \/ UNCHANGED vars
  <2>1. UNCHANGED object
    BY <1>7 DEF Reconcile, Apply, ApplyFails, ComputeReady, ComputeReadyFails,
                DeleteSecret, DeleteSecretMissing, DeleteSecretFails, DeliverStatefulSet,
                Surroundings, PodStarts, ContainerRestarts, PodRemoved, PodsCounted,
                SidecarPublishes, Collect, ContainerFails, DeleteChild, BringSecret,
                vars, object
  <2> QED BY <2>1 DEF ObjectEvolves
<1> QED BY <1>1, <1>2, <1>3, <1>4, <1>5, <1>6, <1>7
        DEF Next, Worker, Step, Deliver, People


\* A pass begins on what the cache shows.
Begins ==
  /\ Reconcile /\ pc = "idle" /\ pc' = FirstCall(obj') /\ pc' # "idle"
  /\ obj' = Observed(hs) /\ fresh' = InSync(hs)
  /\ UNCHANGED <<object, cluster>>

\* It ends, and nothing of it is kept.
Ends == pc' = "idle" /\ fresh' = FALSE /\ obj' = Absent

\* It goes on to the next call.
GoesOn ==
  /\ UNCHANGED fresh
  /\ \/ AddFinalizer
     \/ \E k \in Kinds : Apply(k)
     \/ pc = "computeReady" /\ pc' = "patch" /\ UNCHANGED <<obj, object, cluster>>
     \/ /\ pc = "deleteSecret" /\ pc' = "removeFinalizer"
        /\ UNCHANGED <<obj, object, child, sts, pod, late>>
        /\ secret' = [secret EXCEPT ![SpecOf(obj.gen).secret] = "none"]

\* What happens around it.
Outside ==
  /\ UNCHANGED <<pc, obj>>
  /\ \/ DeliverHeadscale \/ DeliverStatefulSet \/ Surroundings \/ ContainerFails
     \/ People \/ UNCHANGED <<object, cluster, worker>>

\* A pass reads its copy once, and takes its calls in this order.
LEMMA PassEvolution ==
  ASSUME TypeOK, [Next]_vars
  PROVE  Begins \/ Ends \/ GoesOn \/ Outside
<1>1. CASE Reconcile
  <2>1. CASE UNCHANGED worker
    BY <1>1, <2>1 DEF Reconcile, Outside, worker
  <2>2. CASE ~UNCHANGED worker
    BY <1>1, <2>2 DEF Reconcile, worker, Begins
  <2> QED BY <2>1, <2>2
<1>2. CASE \/ AddFinalizerFails \/ \E k \in Kinds : ApplyFails(k)
           \/ UpdateStatus \/ UpdateStatusFails \/ DeleteSecretFails
           \/ RemoveFinalizer \/ RemoveFinalizerFails \/ Crash
  BY <1>2 DEF AddFinalizerFails, ApplyFails, AfterApplyError, UpdateStatus, AfterStatus,
              UpdateStatusFails, DeleteSecretFails, AfterDeleteSecretError,
              RemoveFinalizer, RemoveFinalizerFails, Crash, Finish, Requeue, Forget, Ends
<1>3. CASE AddFinalizer \/ \E k \in Kinds : Apply(k)
  BY <1>3 DEF AddFinalizer, Apply, Goto, GoesOn
<1>4. CASE ComputeReady \/ ComputeReadyFails
  BY <1>4 DEF ComputeReady, ComputeReadyFails, GoesOn
<1>5. CASE DeleteSecret
  BY <1>5 DEF DeleteSecret, Goto, GoesOn
<1>6. CASE DeleteSecretMissing
  <2>1. secret \in [Secrets -> Writers]
    BY DEF TypeOK
  <2>2. secret' = [secret EXCEPT ![SpecOf(obj.gen).secret] = "none"]
    BY <1>6, <2>1 DEF DeleteSecretMissing, cluster
  <2> QED BY <1>6, <2>2 DEF DeleteSecretMissing, AfterSecretMissing, Goto, GoesOn, cluster
<1>7. CASE DeliverHeadscale \/ DeliverStatefulSet \/ ContainerFails
  BY <1>7 DEF DeliverHeadscale, DeliverStatefulSet, ContainerFails, Outside, worker
<1>8. CASE Surroundings
  BY <1>8 DEF Surroundings, PodStarts, ContainerRestarts, PodRemoved, PodsCounted,
              SidecarPublishes, Collect, Outside, worker
<1>9. CASE People
  BY <1>9 DEF People, CreateHeadscale, EditSpec, DeleteHeadscale, DeleteChild, BringSecret,
              Outside, worker
<1>10. CASE UNCHANGED vars
  BY <1>10 DEF vars, Outside, object, cluster, worker
<1> QED BY <1>1, <1>2, <1>3, <1>4, <1>5, <1>6, <1>7, <1>8, <1>9, <1>10
        DEF Next, Worker, Step, Deliver

-----------------------------------------------------------------------------
(* What a step does to the workload.                                       *)

\* The generation a child of kind k is applied from after the step.
AppliedNext(k) == IF k = "StatefulSet" THEN Stored(sts').gen ELSE child'[k]

\* A child is applied by the worker, or goes.
ChildEvolves(k) ==
  \/ AppliedNext(k) = Applied(k) \/ AppliedNext(k) = 0
  \/ pc = k /\ AppliedNext(k) = obj.gen /\ UNCHANGED <<object, pod, secret, late>>

\* A pod starts from the ConfigMap that is there, with a template of its own or the
\* StatefulSet's.
PodEvolves ==
  \/ UNCHANGED pod \/ pod' = NoPod
  \/ pod.state = "ready" /\ pod' = [pod EXCEPT !.state = "crashed"]
  \/ /\ child["ConfigMap"] # 0 /\ UNCHANGED <<child, sts, object, worker, secret, late>>
     /\ \/ Current # 0 /\ pod' = Started(Current)
        \/ pod.state = "crashed" /\ pod' = Started(pod.gen)

\* A write of the StatefulSet.
LEMMA StatefulSetWritten ==
  ASSUME TypeOK, NEW o \in StatefulSet, sts' = Written(sts, o)
  PROVE  sts' \in History(StatefulSet) /\ Stored(sts') = o
BY WrittenVersions DEF TypeOK

\* An apply leaves the generation it was made from, and the other children alone.
LEMMA ApplyResult ==
  ASSUME TypeOK, NEW k \in Kinds, ApplyChild(k)
  PROVE  /\ AppliedNext(k) = obj.gen
         /\ \A j \in Kinds \ {k} : AppliedNext(j) = Applied(j)
         /\ child' \in [Others -> Nat] /\ sts' \in History(StatefulSet)
<1>s. /\ sts \in History(StatefulSet) /\ sts \in Seq(StatefulSet)
      /\ Len(sts) \in 1..Len(sts)
  BY DEF TypeOK, History
<1>t. /\ obj.gen \in Nat /\ Stored(sts) \in StatefulSet /\ child \in [Others -> Nat]
  BY ValueTypes DEF TypeOK, Object
<1>1. CASE k = "StatefulSet"
  <2> DEFINE new == [Stored(sts) EXCEPT !.gen = obj.gen]
  <2>1. new \in StatefulSet /\ new.gen = obj.gen
    BY <1>t DEF StatefulSet
  <2>2. \/ sts' = [sts EXCEPT ![Len(sts)] = new]
        \/ sts' = Written(sts, new)
    BY <1>1 DEF ApplyChild, ApplyStatefulSet, StatefulSetIs
  <2>3. UNCHANGED child
    BY <1>1 DEF ApplyChild, ApplyStatefulSet
  <2> HIDE DEF new
  <2>4. sts' \in History(StatefulSet) /\ Stored(sts') = new
    <3>1. CASE sts' = Written(sts, new)
      BY <2>1, <3>1, StatefulSetWritten
    <3>2. CASE sts' = [sts EXCEPT ![Len(sts)] = new]
      <4>1. /\ sts' \in Seq(StatefulSet) /\ Len(sts') = Len(sts)
            /\ sts'[Len(sts)] = new
        BY <1>s, <2>1, <3>2, ExceptSeq
      <4> QED BY <1>s, <4>1 DEF Stored, History
    <3> QED BY <2>2, <3>1, <3>2
  <2> QED BY <1>1, <1>t, <2>1, <2>3, <2>4 DEF AppliedNext, Applied
<1>2. CASE k # "StatefulSet"
  <2>1. child' = [child EXCEPT ![k] = obj.gen] /\ UNCHANGED sts /\ k \in Others
    BY <1>2 DEF ApplyChild, ApplyOther, Others
  <2> QED BY <1>2, <1>s, <1>t, <2>1 DEF AppliedNext, Applied, Current, Others
<1> QED BY <1>1, <1>2

\* Nothing else happens to the children.
LEMMA ChildEvolution ==
  ASSUME TypeOK, [Next]_vars
  PROVE  /\ \A k \in Kinds : ChildEvolves(k)
         /\ child' \in [Others -> Nat] /\ sts' \in History(StatefulSet)
<1>t. /\ child \in [Others -> Nat] /\ sts \in History(StatefulSet)
      /\ Stored(sts) \in StatefulSet /\ NoStatefulSet \in StatefulSet
      /\ NoStatefulSet.gen = 0
  BY ValueTypes DEF TypeOK, StatefulSet, NoStatefulSet
<1>1. CASE \E k \in Kinds : Apply(k) \/ ApplyFails(k)
  <2>1. PICK k \in Kinds : Apply(k) \/ ApplyFails(k)
    BY <1>1
  <2>2. /\ pc = k /\ (ApplyChild(k) \/ UNCHANGED <<child, sts>>)
        /\ UNCHANGED <<object, pod, secret, late>>
    BY <2>1 DEF Apply, ApplyFails
  <2>3. CASE ApplyChild(k)
    BY <2>2, <2>3, ApplyResult DEF ChildEvolves
  <2>4. CASE UNCHANGED <<child, sts>>
    BY <1>t, <2>4 DEF ChildEvolves, AppliedNext, Applied, Current
  <2> QED BY <2>2, <2>3, <2>4
<1>2. CASE Collect \/ DeleteChild
  <2>1. CASE UNCHANGED sts /\ child' = [k \in Others |-> 0]
    BY <1>t, <2>1 DEF ChildEvolves, AppliedNext, Applied, Current, Others
  <2>2. CASE UNCHANGED sts /\ \E k \in Others : child' = [child EXCEPT ![k] = 0]
    BY <1>t, <2>2 DEF ChildEvolves, AppliedNext, Applied, Current, Others
  <2>3. CASE sts' = Written(sts, NoStatefulSet) /\ UNCHANGED child
    <3>1. sts' \in History(StatefulSet) /\ Stored(sts').gen = 0
      BY <1>t, <2>3, StatefulSetWritten
    <3> QED BY <1>t, <2>3, <3>1 DEF ChildEvolves, AppliedNext, Applied
  <2> QED BY <1>2, <2>1, <2>2, <2>3 DEF Collect, DeleteChild, StatefulSetIs
<1>3. CASE PodsCounted
  <2> DEFINE new == [Stored(sts) EXCEPT !.ready = ReadyReplicas]
  <2>1. new \in StatefulSet /\ new.gen = Current /\ sts' = Written(sts, new)
        /\ UNCHANGED child
    BY <1>3, <1>t DEF PodsCounted, StatefulSetIs, StatefulSet, ReadyReplicas, Current
  <2> HIDE DEF new
  <2>2. sts' \in History(StatefulSet) /\ Stored(sts') = new
    BY <2>1, StatefulSetWritten
  <2> QED BY <1>t, <2>1, <2>2 DEF ChildEvolves, AppliedNext, Applied
<1>4. CASE DeliverStatefulSet
  <2>1. Lag(sts) > 0 /\ sts' = Delivered(sts) /\ UNCHANGED child
    BY <1>4 DEF DeliverStatefulSet
  <2>2. sts' \in History(StatefulSet) /\ Stored(sts') = Stored(sts)
    BY <1>t, <2>1, DeliveredVersions
  <2> QED BY <1>t, <2>1, <2>2 DEF ChildEvolves, AppliedNext, Applied, Current
<1>5. CASE Crash
  <2>1. sts' = Relisted(sts) /\ UNCHANGED child
    BY <1>5 DEF Crash
  <2>2. sts' \in History(StatefulSet) /\ Stored(sts') = Stored(sts)
    BY <1>t, <2>1, RelistedVersions
  <2> QED BY <1>t, <2>1, <2>2 DEF ChildEvolves, AppliedNext, Applied, Current
<1>6. CASE \/ Reconcile \/ AddFinalizer \/ AddFinalizerFails
           \/ ComputeReady \/ ComputeReadyFails \/ UpdateStatus \/ UpdateStatusFails
           \/ DeleteSecret \/ DeleteSecretMissing \/ DeleteSecretFails
           \/ RemoveFinalizer \/ RemoveFinalizerFails \/ DeliverHeadscale
           \/ PodStarts \/ ContainerRestarts \/ PodRemoved \/ SidecarPublishes
           \/ ContainerFails \/ CreateHeadscale \/ EditSpec \/ DeleteHeadscale
           \/ BringSecret \/ UNCHANGED vars
  <2>1. UNCHANGED <<child, sts>>
    BY <1>6 DEF Reconcile, AddFinalizer, AddFinalizerFails, ComputeReady,
                ComputeReadyFails, UpdateStatus, UpdateStatusFails, DeleteSecret,
                DeleteSecretMissing, DeleteSecretFails, RemoveFinalizer,
                RemoveFinalizerFails, DeliverHeadscale, PodStarts, ContainerRestarts,
                PodRemoved, SidecarPublishes, ContainerFails, CreateHeadscale, EditSpec,
                DeleteHeadscale, BringSecret, vars, cluster
  <2> QED BY <1>t, <2>1 DEF ChildEvolves, AppliedNext, Applied, Current
<1> QED BY <1>1, <1>2, <1>3, <1>4, <1>5, <1>6
        DEF Next, Worker, Step, Deliver, Surroundings, People

\* Nor to the pod.
LEMMA PodEvolution ==
  ASSUME TypeOK, [Next]_vars
  PROVE  PodEvolves
<1>1. CASE \/ PodStarts \/ ContainerRestarts
  BY <1>1 DEF PodStarts, ContainerRestarts, PodEvolves
<1>2. CASE PodRemoved \/ ContainerFails
  BY <1>2 DEF PodRemoved, ContainerFails, PodEvolves
<1>3. CASE \/ Worker \/ Deliver \/ Crash \/ PodsCounted \/ SidecarPublishes \/ Collect
           \/ People \/ UNCHANGED vars
  BY <1>3
     DEF Worker, Reconcile, Step, AddFinalizer, AddFinalizerFails, Apply, ApplyFails,
         ComputeReady, ComputeReadyFails, UpdateStatus, UpdateStatusFails, DeleteSecret,
         DeleteSecretMissing, DeleteSecretFails, RemoveFinalizer, RemoveFinalizerFails,
         Deliver, DeliverHeadscale, DeliverStatefulSet, Crash, PodsCounted,
         SidecarPublishes, Collect, People, CreateHeadscale, EditSpec, DeleteHeadscale,
         DeleteChild, BringSecret, vars, cluster, PodEvolves
<1> QED BY <1>1, <1>2, <1>3 DEF Next, Surroundings

-----------------------------------------------------------------------------
(* Types.  They depend on where generations come from: whatever is of a    *)
(* generation, a copy, a child or a pod, has a spec.                       *)

VersionsNumbered ==
  \A o \in Versions(hs) : o.gen <= Len(specs) /\ (o.life = "none" <=> o.gen = 0)

\* The worker's copy is of an object that was there, and the latest one when it
\* carries the latest resourceVersion.
CopyInv ==
  /\ pc # "idle" => Exists(obj) /\ obj.gen \in 1..Len(specs)
  /\ pc \in Kinds => pc \in Required(obj.gen)
  /\ fresh => pc # "idle" /\ obj = Stored(hs)

WorkloadNumbered ==
  /\ \A k \in Kinds : Applied(k) <= Len(specs)
  /\ pod.gen <= Len(specs) /\ (pod.state # "none" => pod.gen > 0)

BaseInv == TypeOK /\ VersionsNumbered /\ CopyInv /\ WorkloadNumbered

\* The types of what has a spec.
LEMMA SpecTypes ==
  ASSUME TypeOK
  PROVE  /\ Len(specs) \in Nat
         /\ \A g \in 1..Len(specs) :
              SpecOf(g) \in HeadscaleSpec /\ SpecOf(g).manage \in BOOLEAN
                /\ SpecOf(g).secret \in Secrets
<1>1. specs \in Seq(Specs)
  BY DEF TypeOK
<1>2. Len(specs) \in Nat /\ \A g \in 1..Len(specs) : SpecOf(g) \in HeadscaleSpec
  BY <1>1, SpecsAssumption DEF SpecOf
<1> QED BY <1>2 DEF HeadscaleSpec

\* A step adds a spec at most, and numbers the object's version accordingly.
LEMMA NumberingStep ==
  ASSUME BaseInv, [Next]_vars
  PROVE  /\ hs' \in History(Object) /\ specs' \in Seq(Specs) /\ marked' \in Nat
         /\ Stored(hs').gen = Len(specs') /\ VersionsNumbered'
         /\ Len(specs) <= Len(specs')
         /\ \A g \in 1..Len(specs) : specs'[g] = specs[g]
<1>t. /\ TypeOK /\ hs \in History(Object) /\ specs \in Seq(Specs) /\ marked \in Nat
      /\ Stored(hs).gen = Len(specs) /\ Len(specs) \in Nat
      /\ Stored(hs) \in Object /\ Stored(hs) \in Versions(hs)
  BY ValueTypes, EndVersions, SpecTypes DEF BaseInv, TypeOK
<1>n. \A o \in Versions(hs) : o.gen <= Len(specs) /\ (o.life = "none" <=> o.gen = 0)
  BY DEF BaseInv, VersionsNumbered
<1>1. ASSUME hs' \in History(Object), UNCHANGED <<specs, marked>>,
             Stored(hs') = Stored(hs), Versions(hs') \subseteq Versions(hs)
      PROVE  /\ specs' \in Seq(Specs) /\ marked' \in Nat
             /\ Stored(hs').gen = Len(specs') /\ VersionsNumbered'
             /\ Len(specs) <= Len(specs')
             /\ \A g \in 1..Len(specs) : specs'[g] = specs[g]
  <2>1. \A o \in Versions(hs') : o.gen <= Len(specs') /\ (o.life = "none" <=> o.gen = 0)
    BY <1>n, <1>1
  <2> QED BY <1>t, <1>1, <2>1 DEF VersionsNumbered, Versions
<1>2. ASSUME NEW o \in Object, hs' = Written(hs, o), o.gen = Len(specs'),
             o.life = "none" <=> o.gen = 0,
             specs' \in Seq(Specs), marked' \in Nat, Len(specs) <= Len(specs'),
             \A g \in 1..Len(specs) : specs'[g] = specs[g]
      PROVE  hs' \in History(Object) /\ Stored(hs').gen = Len(specs') /\ VersionsNumbered'
  <2>1. /\ hs' \in History(Object) /\ Stored(hs') = o
        /\ Versions(hs') = Versions(hs) \cup {o}
    BY <1>t, <1>2, WrittenVersions
  <2>2. Len(specs') \in Nat
    BY <1>2
  <2>s. Versions(hs) \subseteq Object
    BY <1>t, EndVersions
  <2>3. \A v \in Versions(hs) : v.gen \in Nat
    BY <2>s DEF Object
  <2>4. \A v \in Versions(hs') : v.gen <= Len(specs') /\ (v.life = "none" <=> v.gen = 0)
    BY <1>t, <1>n, <1>2, <2>1, <2>2, <2>3
  <2> QED BY <1>2, <2>1, <2>4 DEF VersionsNumbered, Versions
<1>3. CASE UNCHANGED object
  BY <1>1, <1>3, <1>t DEF object
<1>4. CASE Lag(hs) > 0 /\ hs' = Delivered(hs) /\ UNCHANGED <<specs, marked, pc, obj, fresh>>
  BY <1>1, <1>4, <1>t, DeliveredVersions
<1>5. CASE hs' = Relisted(hs) /\ pc' = "idle" /\ UNCHANGED <<specs, marked>>
  BY <1>1, <1>5, <1>t, RelistedVersions
<1>6. ASSUME NEW o \in Object, hs' = Written(hs, o), NewVersion(o)
      PROVE  /\ o.gen = Len(specs') /\ (o.life = "none" <=> o.gen = 0)
             /\ specs' \in Seq(Specs) /\ marked' \in Nat /\ Len(specs) <= Len(specs')
             /\ \A g \in 1..Len(specs) : specs'[g] = specs[g]
  <2>1. CASE /\ UNCHANGED <<specs, marked>>
             /\ \/ pc = "addFinalizer" /\ fresh /\ o = WithFinalizer(obj)
                \/ pc = "removeFinalizer" /\ fresh /\ o = Removed(obj)
                \/ pc = "patch" /\ Exists(Stored(hs)) /\ o = Patched
    <3>1. fresh => obj = Stored(hs) /\ pc # "idle" /\ obj.life \in {"live", "deleting"}
      BY DEF BaseInv, CopyInv, Exists
    <3>2. o.gen = Stored(hs).gen /\ (o.life = "none" <=> Stored(hs).life = "none")
      BY <1>t, <2>1, <3>1 DEF WithFinalizer, Removed, Patched, Object, Exists
    <3> QED BY <1>t, <1>n, <2>1, <3>2
  <2>2. CASE CreateHeadscale /\ o = [Absent EXCEPT !.life = "live", !.gen = 1]
    <3>1. o.gen = 1 /\ o.life = "live"
      BY <2>2 DEF Absent
    <3>2. Len(specs) = 0 /\ UNCHANGED marked
      BY <1>t, <1>n, <2>2 DEF CreateHeadscale
    <3>3. PICK s \in Specs : specs' = <<s>>
      BY <2>2 DEF CreateHeadscale
    <3>4. specs' \in Seq(Specs) /\ Len(specs') = 1
      BY <3>3
    <3> QED BY <1>t, <3>1, <3>2, <3>4
  <2>3. CASE EditSpec /\ o = [Stored(hs) EXCEPT !.gen = @ + 1]
    <3>1. o.gen = Stored(hs).gen + 1 /\ o.life = Stored(hs).life
      BY <1>t, <2>3 DEF Object
    <3>2. Stored(hs).life # "none" /\ UNCHANGED marked
      BY <2>3 DEF EditSpec, Exists
    <3>3. PICK s \in Specs : specs' = Append(specs, s)
      BY <2>3 DEF EditSpec
    <3>4. /\ specs' \in Seq(Specs) /\ Len(specs') = Len(specs) + 1
          /\ \A g \in 1..Len(specs) : specs'[g] = specs[g]
      BY <1>t, <3>3
    <3> QED BY <1>t, <3>1, <3>2, <3>4
  <2>4. CASE /\ DeleteHeadscale
             /\ o = IF Stored(hs).finalizer THEN [Stored(hs) EXCEPT !.life = "deleting"]
                    ELSE Removed(Stored(hs))
    <3>1. Stored(hs).life = "live" /\ UNCHANGED specs /\ marked' = Stored(hs).gen
      BY <2>4 DEF DeleteHeadscale
    <3>2. o.gen = Stored(hs).gen /\ o.life \in {"deleting", "gone"}
      BY <1>t, <2>4 DEF Removed, Object
    <3> QED BY <1>t, <1>n, <3>1, <3>2
  <2> QED BY <1>6, <2>1, <2>2, <2>3, <2>4 DEF NewVersion
<1> QED BY <1>t, <1>2, <1>3, <1>4, <1>5, <1>6, <1>1, ObjectEvolution DEF ObjectEvolves


\* The calls there are.
LEMMA PcTypes ==
  /\ Kinds \subseteq Pcs /\ RbacKinds \cup WorkloadKinds = Kinds
  /\ {"idle", "addFinalizer", "computeReady", "patch", "deleteSecret",
      "removeFinalizer"} \subseteq Pcs
  /\ \A l \in {"idle", "addFinalizer", "computeReady", "patch", "deleteSecret",
               "removeFinalizer"} : l \notin Kinds
BY DEF Kinds, Pcs, RbacKinds, WorkloadKinds

\* A child that is asked for is followed by another one or by the end.
LEMMA FollowingRequired ==
  ASSUME NEW g, NEW k \in Required(g)
  PROVE  Following[k] \in Required(g) \cup {"computeReady"}
<1>1. \/ k \in {"ServiceAccount", "Role", "RoleBinding"} /\ SpecOf(g).manage
      \/ k \in {"ConfigMap", "StatefulSet", "Service", "MetricsService"}
  BY DEF Required, RbacKinds, WorkloadKinds
<1>2. /\ WorkloadKinds \subseteq Required(g)
      /\ SpecOf(g).manage => RbacKinds \subseteq Required(g)
  BY DEF Required
<1> QED BY <1>1, <1>2, FollowingCalls DEF RbacKinds, WorkloadKinds

\* Where a pass begins.
LEMMA FirstCalls ==
  ASSUME TypeOK, NEW o \in Object, o.gen \in 1..Len(specs)
  PROVE  FirstCall(o) =
           CASE o.life = "deleting" /\ ~o.finalizer -> "idle"
             [] /\ o.life = "deleting" /\ o.finalizer
                /\ SpecOf(o.gen).manage -> "deleteSecret"
             [] /\ o.life = "deleting" /\ o.finalizer
                /\ ~SpecOf(o.gen).manage -> "removeFinalizer"
             [] o.life = "live" /\ ~o.finalizer -> "addFinalizer"
             [] o.life = "live" /\ o.finalizer -> FirstApply(o.gen)
             [] OTHER -> "idle"
<1>1. SpecOf(o.gen).manage \in BOOLEAN
  BY SpecTypes
<1>2. Steps(SpecOf(o.gen).manage)[1] = FirstApply(o.gen)
  BY <1>1, StepsRequired
<1>3. o.finalizer \in BOOLEAN /\ o.life \in {"none", "live", "deleting", "gone"}
  BY DEF Object
<1>4. CASE o.life = "deleting"
  BY <1>1, <1>3, <1>4 DEF FirstCall
<1>5. CASE o.life = "live"
  BY <1>2, <1>3, <1>5 DEF FirstCall
<1>6. CASE o.life \in {"none", "gone"}
  BY <1>6 DEF FirstCall
<1> QED BY <1>3, <1>4, <1>5, <1>6

\* A first apply is asked for.
LEMMA FirstApplyRequired ==
  ASSUME NEW g
  PROVE  FirstApply(g) \in Required(g) /\ FirstApply(g) \in Kinds
BY DEF FirstApply, Required, RbacKinds, WorkloadKinds, Kinds


\* What happens to the Secrets: the worker deletes the one of its copy, the sidecar
\* of a pod writes the one of its template, and people bring theirs.
SecretsEvolve ==
  \/ UNCHANGED <<secret, late>>
  \/ /\ pc = "deleteSecret" /\ UNCHANGED <<late, object, child, sts, pod>>
     /\ secret' = [secret EXCEPT ![SpecOf(obj.gen).secret] = "none"]
  \/ /\ pod.state = "ready" /\ SpecOf(pod.gen).manage
     /\ UNCHANGED <<object, child, sts, pod, worker>>
     /\ LET s == SpecOf(pod.gen).secret
        IN  /\ secret' = [secret EXCEPT ![s] = "sidecar"]
            /\ late' = IF Stored(hs).life = "live" THEN late \ {s} ELSE late \cup {s}
  \/ /\ UNCHANGED <<late, object, child, sts, pod, worker>>
     /\ \E s \in Secrets :
          secret[s] = "none" /\ secret' = [secret EXCEPT ![s] = "user"]

\* Nothing else does.
LEMMA SecretEvolution ==
  ASSUME [Next]_vars
  PROVE  SecretsEvolve
<1>1. CASE DeleteSecret \/ DeleteSecretFails
  BY <1>1 DEF DeleteSecret, DeleteSecretFails, SecretsEvolve
<1>2. CASE SidecarPublishes
  BY <1>2 DEF SidecarPublishes, SecretsEvolve
<1>3. CASE BringSecret
  BY <1>3 DEF BringSecret, SecretsEvolve
<1>4. CASE \/ Reconcile \/ AddFinalizer \/ AddFinalizerFails
           \/ \E k \in Kinds : Apply(k) \/ ApplyFails(k)
           \/ ComputeReady \/ ComputeReadyFails \/ UpdateStatus \/ UpdateStatusFails
           \/ DeleteSecretMissing \/ RemoveFinalizer \/ RemoveFinalizerFails
           \/ Deliver \/ Crash \/ PodStarts \/ ContainerRestarts \/ PodRemoved
           \/ PodsCounted \/ Collect \/ ContainerFails \/ CreateHeadscale \/ EditSpec
           \/ DeleteHeadscale \/ DeleteChild \/ UNCHANGED vars
  BY <1>4
     DEF Reconcile, AddFinalizer, AddFinalizerFails, Apply, ApplyFails, ComputeReady,
         ComputeReadyFails, UpdateStatus, UpdateStatusFails, DeleteSecretMissing,
         RemoveFinalizer, RemoveFinalizerFails, Deliver, DeliverHeadscale,
         DeliverStatefulSet, Crash, PodStarts, ContainerRestarts, PodRemoved,
         PodsCounted, Collect, ContainerFails, CreateHeadscale, EditSpec,
         DeleteHeadscale, DeleteChild, vars, cluster, SecretsEvolve
<1> QED BY <1>1, <1>2, <1>3, <1>4 DEF Next, Worker, Step, Surroundings, People

\* The types of what has no invariant of its own.
LEMMA PlainTypes ==
  ASSUME TypeOK, [Next]_vars
  PROVE  /\ queued' \in BOOLEAN /\ ready' \in ReadyReasons
         /\ faults' \in Nat /\ admin' \in Nat
<1>t. /\ queued \in BOOLEAN /\ ready \in ReadyReasons
      /\ faults \in Nat /\ admin \in Nat
      /\ "Unset" \in ReadyReasons /\ "StatefulSetMissing" \in ReadyReasons
      /\ "NotReady" \in ReadyReasons /\ ReadyReason \in ReadyReasons
  BY DEF TypeOK, ReadyReasons, ReadyReason
<1>1. queued' \in BOOLEAN
  <2>1. CASE Worker
    <3>1. CASE \E k \in Kinds : Apply(k)
      BY <3>1, <1>t DEF Apply, EventOfApply
    <3> QED BY <1>t, <2>1, <3>1
            DEF Worker, Step, Reconcile, AddFinalizer, AddFinalizerFails, ApplyFails,
                AfterApplyError, ComputeReady, ComputeReadyFails, UpdateStatus,
                UpdateStatusFails, AfterStatus, DeleteSecret, DeleteSecretMissing,
                AfterSecretMissing, DeleteSecretFails, AfterDeleteSecretError,
                RemoveFinalizer, RemoveFinalizerFails, Goto, Requeue, Finish
  <2>2. CASE Deliver \/ Crash \/ Surroundings \/ ContainerFails
    <3>1. CASE DeliverStatefulSet
      BY <3>1 DEF DeliverStatefulSet
    <3>2. CASE Crash
      BY <3>2 DEF Crash, Exists
    <3>3. CASE DeliverHeadscale \/ Surroundings \/ ContainerFails
      BY <1>t, <3>3
         DEF DeliverHeadscale, Surroundings, PodStarts, ContainerRestarts, PodRemoved,
             PodsCounted, SidecarPublishes, Collect, ContainerFails
    <3> QED BY <2>2, <3>1, <3>2, <3>3 DEF Deliver
  <2>3. CASE People \/ UNCHANGED vars
    BY <1>t, <2>3 DEF People, CreateHeadscale, EditSpec, DeleteHeadscale, DeleteChild,
                      BringSecret, vars
  <2> QED BY <2>1, <2>2, <2>3 DEF Next
<1>2. ready' \in ReadyReasons
  <2>1. CASE Worker
    BY <1>t, <2>1
       DEF Worker, Step, Reconcile, AddFinalizer, AddFinalizerFails, Apply, ApplyFails,
           AfterApplyError, ComputeReady, ComputeReadyFails, UpdateStatus,
           UpdateStatusFails, AfterStatus, DeleteSecret, DeleteSecretMissing,
           AfterSecretMissing, DeleteSecretFails, AfterDeleteSecretError,
           RemoveFinalizer, RemoveFinalizerFails, Goto, Requeue, Finish, Forget, worker
  <2>2. CASE \/ Deliver \/ Crash \/ Surroundings \/ ContainerFails \/ People
             \/ UNCHANGED vars
    BY <1>t, <2>2
       DEF Deliver, DeliverHeadscale, DeliverStatefulSet, Crash, Forget, Surroundings,
           PodStarts, ContainerRestarts, PodRemoved, PodsCounted, SidecarPublishes,
           Collect, ContainerFails, People, CreateHeadscale, EditSpec, DeleteHeadscale,
           DeleteChild, BringSecret, vars, worker
  <2> QED BY <2>1, <2>2 DEF Next
<1>3. UNCHANGED budget \/ Fault \/ AdminStep
  <2>1. CASE Worker
    BY <2>1
       DEF Worker, Step, Reconcile, AddFinalizer, AddFinalizerFails, UpdateFailed, Apply,
           ApplyFails, ComputeReady, ComputeReadyFails, UpdateStatus, UpdateStatusFails,
           DeleteSecret, DeleteSecretMissing, DeleteSecretFails, RemoveFinalizer,
           RemoveFinalizerFails
  <2>2. CASE \/ Deliver \/ Crash \/ Surroundings \/ ContainerFails \/ People
             \/ UNCHANGED vars
    BY <2>2
       DEF Deliver, DeliverHeadscale, DeliverStatefulSet, Crash, Surroundings,
           PodStarts, ContainerRestarts, PodRemoved, PodsCounted, SidecarPublishes,
           Collect, ContainerFails, People, CreateHeadscale, EditSpec, DeleteHeadscale,
           DeleteChild, BringSecret, vars, budget
  <2> QED BY <2>1, <2>2 DEF Next
<1> QED BY <1>t, <1>1, <1>2, <1>3 DEF budget, Fault, AdminStep


\* The worker's copy stays one of an object that is there, with the right next call.
LEMMA CopyStep ==
  ASSUME BaseInv, [Next]_vars
  PROVE  CopyInv' /\ pc' \in Pcs /\ obj' \in Object /\ fresh' \in BOOLEAN
<1>t. /\ TypeOK /\ hs \in History(Object) /\ obj \in Object /\ fresh \in BOOLEAN
      /\ pc \in Pcs /\ Len(specs) \in Nat
  BY SpecTypes DEF BaseInv, TypeOK
<1>c. /\ pc # "idle" => Exists(obj) /\ obj.gen \in 1..Len(specs)
      /\ pc \in Kinds => pc \in Required(obj.gen)
      /\ fresh => pc # "idle" /\ obj = Stored(hs)
  BY DEF BaseInv, CopyInv
<1>o. /\ Observed(hs) \in Object /\ Observed(hs).gen \in Nat
      /\ Observed(hs).gen <= Len(specs)
      /\ Observed(hs).life = "none" <=> Observed(hs).gen = 0
      /\ InSync(hs) \in BOOLEAN /\ (InSync(hs) => Observed(hs) = Stored(hs))
  <2>1. /\ Observed(hs) \in Object /\ Observed(hs) \in Versions(hs)
        /\ (InSync(hs) => Observed(hs) = Stored(hs))
    BY <1>t, EndVersions
  <2>2. InSync(hs) \in BOOLEAN
    BY DEF InSync
  <2> QED BY <2>1, <2>2 DEF BaseInv, VersionsNumbered, Object
<1>n. /\ Len(specs') \in Nat /\ Len(specs) <= Len(specs')
      /\ \A g \in 1..Len(specs) : specs'[g] = specs[g]
  BY NumberingStep
<1>k. \A g : Required(g) \subseteq Kinds
  BY PcTypes DEF Required
<1>g. ASSUME pc' \in Pcs, obj' \in Object, fresh' \in BOOLEAN,
             pc' # "idle" => Exists(obj') /\ obj'.gen \in 1..Len(specs),
             pc' \in Kinds => pc' \in Required(obj'.gen),
             fresh' => pc' # "idle" /\ obj' = Stored(hs')
      PROVE  CopyInv'
  <2>1. pc' # "idle" => obj'.gen \in 1..Len(specs')
    BY <1>g, <1>n, <1>t
  <2>2. pc' \in Kinds => pc' # "idle" /\ pc' \in Required(obj.gen)'
    BY <1>g, <1>n, PcTypes DEF Required, SpecOf
  <2> QED BY <1>g, <2>1, <2>2 DEF CopyInv, Exists
<1>1. CASE Begins
  <2>1. /\ obj' = Observed(hs) /\ pc' = FirstCall(obj') /\ pc' # "idle"
        /\ fresh' = InSync(hs) /\ hs' = hs
    BY <1>1 DEF Begins, object
  <2>2. obj'.life \in {"live", "deleting"}
    BY <2>1 DEF FirstCall
  <2>3. obj' \in Object /\ obj'.gen \in 1..Len(specs)
    BY <1>o, <1>t, <2>1, <2>2
  <2>4. \/ pc' \in {"addFinalizer", "deleteSecret", "removeFinalizer"}
        \/ pc' = FirstApply(obj'.gen)
    BY <1>t, <2>1, <2>3, FirstCalls, Zenon
  <2>5. pc' \in Pcs /\ (pc' \in Kinds => pc' \in Required(obj'.gen))
    BY <2>4, PcTypes, FirstApplyRequired
  <2> QED BY <1>g, <1>o, <2>1, <2>2, <2>3, <2>5 DEF Exists
<1>2. CASE Ends
  <2>1. Absent \in Object
    BY DEF Absent, Object, NoStatus, Status, ReadyReasons
  <2> QED BY <1>2, <1>g, <2>1, PcTypes DEF Ends
<1>3. CASE GoesOn
  <2>1. CASE AddFinalizer
    <3>1. /\ pc = "addFinalizer" /\ pc' = Steps(SpecOf(obj.gen).manage)[1]
          /\ obj' = WithFinalizer(obj) /\ hs' = Written(hs, WithFinalizer(obj))
          /\ fresh' = fresh
      BY <2>1 DEF AddFinalizer, UpdateAccepted, Store, Write, Goto
    <3>2. pc # "idle" /\ SpecOf(obj.gen).manage \in BOOLEAN
      BY <1>t, <1>c, <3>1, SpecTypes
    <3>3. pc' = FirstApply(obj.gen)
      BY <3>1, <3>2, StepsRequired
    <3>4. obj' \in Object /\ obj'.gen = obj.gen /\ obj'.life = obj.life
      BY <1>t, <3>1, ValueTypes DEF WithFinalizer, Object
    <3>5. Stored(hs') = obj'
      BY <1>t, <3>1, <3>4, WrittenVersions
    <3> QED BY <1>g, <1>c, <1>t, <3>1, <3>2, <3>3, <3>4, <3>5, PcTypes,
               FirstApplyRequired DEF Exists
  <2>2. CASE \E k \in Kinds : Apply(k)
    <3>1. /\ pc \in Kinds /\ pc' = After(pc) /\ obj' = obj /\ hs' = hs
          /\ fresh' = fresh
      BY <2>2 DEF Apply, object
    <3>2. pc # "idle" /\ SpecOf(obj.gen).manage \in BOOLEAN
      BY <1>t, <1>c, <3>1, SpecTypes, PcTypes
    <3>3. pc' = Following[pc]
      BY <1>c, <3>1, <3>2, AfterApply
    <3>4. pc' \in Required(obj.gen) \cup {"computeReady"}
      BY <1>c, <3>1, <3>3, FollowingRequired
    <3>5. pc' \in Pcs /\ pc' # "idle" /\ (pc' \in Kinds => pc' \in Required(obj'.gen))
      BY <1>k, <3>1, <3>4, PcTypes
    <3> QED BY <1>g, <1>c, <1>t, <3>1, <3>2, <3>5
  <2>3. CASE \/ /\ pc = "computeReady" /\ pc' = "patch"
                /\ UNCHANGED <<obj, object, cluster>>
             \/ /\ pc = "deleteSecret" /\ pc' = "removeFinalizer"
                /\ UNCHANGED <<obj, object, child, sts, pod, late>>
    <3>1. /\ pc # "idle" /\ pc' \in {"patch", "removeFinalizer"} /\ obj' = obj /\ hs' = hs
          /\ fresh' = fresh
      BY <1>3, <2>3 DEF GoesOn, object
    <3> QED BY <1>g, <1>c, <1>t, <3>1, PcTypes
  <2> QED BY <1>3, <2>1, <2>2, <2>3 DEF GoesOn
<1>4. CASE Outside
  <2>1. pc' = pc /\ obj' = obj
    BY <1>4 DEF Outside
  <2>2. fresh' \in BOOLEAN /\ (fresh' => fresh /\ Stored(hs') = Stored(hs))
    <3>1. CASE DeliverHeadscale
      BY <1>t, <3>1, DeliveredVersions DEF DeliverHeadscale, worker
    <3>2. CASE EditSpec \/ DeleteHeadscale
      BY <3>2 DEF EditSpec, DeleteHeadscale
    <3>3. CASE CreateHeadscale
      <4>1. fresh' = fresh /\ Stored(hs).life = "none"
        BY <3>3 DEF CreateHeadscale, worker
      <4> QED BY <1>c, <1>t, <4>1 DEF Exists
    <3>4. CASE \/ DeliverStatefulSet \/ Surroundings \/ ContainerFails \/ DeleteChild
               \/ BringSecret \/ UNCHANGED <<object, cluster, worker>>
      BY <1>t, <3>4
         DEF DeliverStatefulSet, Surroundings, PodStarts, ContainerRestarts, PodRemoved,
             PodsCounted, SidecarPublishes, Collect, ContainerFails, DeleteChild,
             BringSecret, object, worker
    <3> QED BY <1>4, <3>1, <3>2, <3>3, <3>4 DEF Outside, People
  <2> QED BY <1>g, <1>c, <1>t, <2>1, <2>2
<1> QED BY <1>t, <1>1, <1>2, <1>3, <1>4, PassEvolution


\* Children and pods stay of generations that have a spec.
LEMMA WorkloadStep ==
  ASSUME BaseInv, [Next]_vars
  PROVE  WorkloadNumbered' /\ pod' \in Pod
<1>t. /\ TypeOK /\ obj.gen \in Nat /\ Len(specs) \in Nat /\ pod \in Pod
      /\ child \in [Others -> Nat] /\ Current \in Nat
  BY ValueTypes, SpecTypes DEF BaseInv, TypeOK, Object, Current, StatefulSet
<1>n. Len(specs') \in Nat /\ Len(specs) <= Len(specs')
  BY NumberingStep
<1>w. /\ \A k \in Kinds : Applied(k) \in Nat /\ Applied(k) <= Len(specs)
      /\ pod.gen <= Len(specs) /\ (pod.state # "none" => pod.gen > 0)
  BY <1>t DEF BaseInv, WorkloadNumbered, Applied, Others
<1>1. \A k \in Kinds : AppliedNext(k) <= Len(specs')
  <2> SUFFICES ASSUME NEW k \in Kinds PROVE AppliedNext(k) <= Len(specs')
    OBVIOUS
  <2>1. ChildEvolves(k)
    BY <1>t, ChildEvolution
  <2>2. pc = k => obj.gen <= Len(specs)
    BY <1>t, PcTypes DEF BaseInv, CopyInv
  <2> QED BY <1>t, <1>n, <1>w, <2>1, <2>2 DEF ChildEvolves
<1>2. \A k \in Kinds : Applied(k)' = AppliedNext(k)
  BY DEF Applied, AppliedNext, Current
<1>3. /\ pod' \in Pod /\ pod'.gen <= Len(specs')
      /\ (pod'.state # "none" => pod'.gen > 0)
  <2>1. PodEvolves
    BY <1>t, PodEvolution
  <2>2. CASE UNCHANGED pod \/ pod' = NoPod
    BY <1>t, <1>n, <1>w, <2>2 DEF NoPod, Pod
  <2>3. CASE pod.state = "ready" /\ pod' = [pod EXCEPT !.state = "crashed"]
    BY <1>t, <1>n, <1>w, <2>3 DEF Pod
  <2>4. ASSUME NEW g \in Nat, g > 0, g <= Len(specs), pod' = Started(g)
        PROVE  pod' \in Pod /\ pod'.gen <= Len(specs') /\ pod'.gen > 0
    <3>1. child["ConfigMap"] \in Nat
      BY <1>t DEF Others, Kinds
    <3> QED BY <1>t, <1>n, <2>4, <3>1 DEF Started, Pod
  <2>5. CASE Current # 0 /\ pod' = Started(Current)
    <3>1. Current = Applied("StatefulSet") /\ "StatefulSet" \in Kinds
      BY DEF Applied, Kinds
    <3> QED BY <1>t, <1>w, <2>4, <2>5, <3>1
  <2>6. CASE pod.state = "crashed" /\ pod' = Started(pod.gen)
    BY <1>t, <1>w, <2>4, <2>6 DEF Pod
  <2> QED BY <2>1, <2>2, <2>3, <2>5, <2>6 DEF PodEvolves
<1> QED BY <1>1, <1>2, <1>3 DEF WorkloadNumbered

\* The invariant is kept.
LEMMA BaseStep ==
  ASSUME BaseInv, [Next]_vars
  PROVE  BaseInv'
<1>t. TypeOK /\ late \subseteq Secrets /\ secret \in [Secrets -> Writers]
  BY DEF BaseInv, TypeOK
<1>1. secret' \in [Secrets -> Writers] /\ late' \subseteq Secrets
  <2>1. SecretsEvolve
    BY SecretEvolution
  <2>2. /\ {"none", "sidecar", "user"} = Writers
        /\ pod.state = "ready" => SpecOf(pod.gen).secret \in Secrets
    <3>1. pod.state = "ready" => pod.gen \in 1..Len(specs)
      BY <1>t, SpecTypes DEF BaseInv, WorkloadNumbered, TypeOK, Pod
    <3> QED BY <1>t, <3>1, SpecTypes DEF Writers
  <2> QED BY <1>t, <2>1, <2>2 DEF SecretsEvolve
<1>2. /\ hs' \in History(Object) /\ specs' \in Seq(Specs) /\ marked' \in Nat
      /\ Stored(hs').gen = Len(specs') /\ VersionsNumbered'
  BY NumberingStep
<1>3. child' \in [Others -> Nat] /\ sts' \in History(StatefulSet)
  BY <1>t, ChildEvolution
<1>4. WorkloadNumbered' /\ pod' \in Pod
  BY WorkloadStep
<1>5. CopyInv' /\ pc' \in Pcs /\ obj' \in Object /\ fresh' \in BOOLEAN
  BY CopyStep
<1>6. /\ queued' \in BOOLEAN /\ ready' \in ReadyReasons
      /\ faults' \in Nat /\ admin' \in Nat
  BY <1>t, PlainTypes
<1> QED BY <1>1, <1>2, <1>3, <1>4, <1>5, <1>6 DEF BaseInv, TypeOK, Stored

\* It holds at first.
LEMMA BaseInit ==
  ASSUME Init
  PROVE  BaseInv
<1>1. /\ Absent \in Object /\ NoStatefulSet \in StatefulSet /\ NoPod \in Pod
      /\ Absent.gen = 0 /\ Absent.life = "none" /\ NoStatefulSet.gen = 0
      /\ NoPod.gen = 0 /\ NoPod.state = "none"
  BY DEF Absent, Object, NoStatus, Status, ReadyReasons, NoStatefulSet, StatefulSet, NoPod,
         Pod
<1>2. /\ <<Absent>> \in History(Object) /\ <<NoStatefulSet>> \in History(StatefulSet)
      /\ Stored(<<Absent>>) = Absent /\ Stored(<<NoStatefulSet>>) = NoStatefulSet
      /\ Versions(<<Absent>>) = {Absent}
  <2>1. ASSUME NEW S, NEW e \in S
        PROVE  <<e>> \in History(S) /\ Stored(<<e>>) = e /\ Versions(<<e>>) = {e}
    BY DEF History, Stored, Versions
  <2> QED BY <1>1, <2>1
<1>3. TypeOK
  <2>1. /\ hs \in History(Object) /\ sts \in History(StatefulSet) /\ pod \in Pod
        /\ specs \in Seq(Specs) /\ Stored(hs).gen = 0 /\ Len(specs) = 0
    BY <1>1, <1>2 DEF Init
  <2>2. /\ child \in [Others -> Nat] /\ secret \in [Secrets -> Writers]
        /\ late \subseteq Secrets /\ marked \in Nat
    BY DEF Init, Writers
  <2>3. /\ queued \in BOOLEAN /\ pc \in Pcs /\ obj \in Object /\ fresh \in BOOLEAN
        /\ ready \in ReadyReasons /\ faults \in Nat /\ admin \in Nat
    BY <1>1, PcTypes DEF Init, ReadyReasons
  <2> QED BY <2>1, <2>2, <2>3 DEF TypeOK
<1>4. CopyInv /\ VersionsNumbered
  BY <1>1, <1>2, PcTypes DEF Init, CopyInv, VersionsNumbered
<1>5. WorkloadNumbered
  BY <1>1, <1>2 DEF Init, WorkloadNumbered, Applied, Current, Others
<1> QED BY <1>3, <1>4, <1>5 DEF BaseInv

\* Every value keeps its type, and the stored object is numbered by its specs.
THEOREM TypeCorrect == Spec => []TypeOK
<1>1. Init => BaseInv
  BY BaseInit
<1>2. BaseInv /\ [Next]_vars => BaseInv'
  BY BaseStep
<1>3. BaseInv => TypeOK
  BY DEF BaseInv
<1> QED BY <1>1, <1>2, <1>3, PTL DEF Spec

-----------------------------------------------------------------------------
(* Generations never go back: neither in the cache nor from one pass to    *)
(* the next, and nothing is of a generation the worker has not seen.       *)

AtLeast(n) == {o \in Object : o.gen >= n}

\* The generation the worker knows.
Seen == IF pc = "idle" THEN Observed(hs).gen ELSE obj.gen

SeenInv ==
  /\ \A n \in Nat : Lasting(hs, AtLeast(n))
  /\ pc # "idle" => obj.gen <= Observed(hs).gen
  /\ \A k \in Kinds : Applied(k) <= Seen
  /\ pod.gen <= Seen
  /\ Stored(hs).status.gen <= Seen

\* Where the stored status comes from.
LEMMA StatusEvolution ==
  ASSUME BaseInv, [Next]_vars
  PROVE  \/ Stored(hs').status = Stored(hs).status
         \/ Stored(hs').status.gen = 0 /\ Stored(hs).life = "none"
         \/ pc = "patch" /\ pc' = "idle" /\ Stored(hs').status = NewStatus
<1>t. TypeOK /\ hs \in History(Object)
  BY DEF BaseInv, TypeOK
<1>v. Stored(hs) \in Object /\ obj \in Object /\ (fresh => obj = Stored(hs))
  BY <1>t, ValueTypes DEF BaseInv, TypeOK, CopyInv
<1>1. CASE UNCHANGED object
  BY <1>1 DEF object
<1>2. CASE Lag(hs) > 0 /\ hs' = Delivered(hs)
  BY <1>t, <1>2, DeliveredVersions
<1>3. CASE hs' = Relisted(hs)
  BY <1>t, <1>3, RelistedVersions
<1>4. ASSUME NEW o \in Object, hs' = Written(hs, o), NewVersion(o)
      PROVE  \/ Stored(hs').status = Stored(hs).status
             \/ Stored(hs').status.gen = 0 /\ Stored(hs).life = "none"
             \/ pc = "patch" /\ pc' = "idle" /\ Stored(hs').status = NewStatus
  <2>1. Stored(hs') = o
    BY <1>t, <1>4, WrittenVersions
  <2>2. CASE pc = "patch" /\ pc' # pc /\ o = Patched
    <3>1. o.status = NewStatus
      BY <1>v, <2>2 DEF Patched, Object
    <3>2. pc' = "idle"
      <4>1. Begins \/ Ends \/ GoesOn \/ Outside
        BY <1>t, PassEvolution
      <4>2. ~Begins /\ ~Outside
        BY <2>2 DEF Begins, Outside
      <4>3. ~GoesOn
        BY <2>2 DEF GoesOn, AddFinalizer, Apply, Kinds
      <4> QED BY <4>1, <4>2, <4>3 DEF Ends
    <3> QED BY <2>1, <2>2, <3>1, <3>2
  <2>3. CASE CreateHeadscale /\ o = [Absent EXCEPT !.life = "live", !.gen = 1]
    BY <2>1, <2>3 DEF CreateHeadscale, Absent, NoStatus
  <2>4. CASE \/ fresh /\ (o = WithFinalizer(obj) \/ o = Removed(obj))
             \/ o = [Stored(hs) EXCEPT !.gen = @ + 1]
             \/ o = [Stored(hs) EXCEPT !.life = "deleting"]
             \/ o = Removed(Stored(hs))
    BY <1>v, <2>1, <2>4 DEF WithFinalizer, Removed, Object
  <2> QED BY <1>4, <2>2, <2>3, <2>4 DEF NewVersion
<1> QED BY <1>t, <1>1, <1>2, <1>3, <1>4, ObjectEvolution DEF ObjectEvolves

\* The cache and the worker only move on.
LEMMA SeenGrows ==
  ASSUME BaseInv, SeenInv, [Next]_vars
  PROVE  /\ \A n \in Nat : Lasting(hs', AtLeast(n))
         /\ Observed(hs).gen <= Observed(hs').gen
         /\ pc' # "idle" => obj'.gen <= Observed(hs').gen
         /\ Seen \in Nat /\ Seen' \in Nat /\ Seen <= Seen'
<1>t. /\ TypeOK /\ hs \in History(Object) /\ hs' \in History(Object)
      /\ obj.gen \in Nat /\ obj'.gen \in Nat
  <2>1. BaseInv'
    BY BaseStep
  <2> QED BY <2>1 DEF BaseInv, TypeOK, Object
<1>v. /\ Stored(hs) \in Object /\ Observed(hs) \in Object
      /\ Stored(hs') \in Object /\ Observed(hs') \in Object
  BY <1>t, EndVersions
<1>g. Stored(hs).gen <= Stored(hs').gen
  <2>1. Stored(hs).gen = Len(specs) /\ Stored(hs').gen = Len(specs')
    BY <1>t, NumberingStep DEF TypeOK
  <2> QED BY <2>1, NumberingStep
<1>l. \A n \in Nat : Lasting(hs, AtLeast(n))
  BY DEF SeenInv
<1>1. \A n \in Nat : Lasting(hs', AtLeast(n))
  <2> SUFFICES ASSUME NEW n \in Nat PROVE Lasting(hs', AtLeast(n))
    OBVIOUS
  <2>1. CASE UNCHANGED object
    BY <1>l, <2>1 DEF object
  <2>2. CASE Lag(hs) > 0 /\ hs' = Delivered(hs)
    BY <1>l, <1>t, <2>2, DeliveredLasting
  <2>3. CASE hs' = Relisted(hs)
    BY <1>t, <2>3, RelistedLasting
  <2>4. ASSUME NEW o \in Object, hs' = Written(hs, o)
        PROVE  Lasting(hs', AtLeast(n))
    <3>1. Stored(hs') = o
      BY <1>t, <2>4, WrittenVersions
    <3>2. Stored(hs) \in AtLeast(n) => o \in AtLeast(n)
      BY <1>g, <1>v, <3>1 DEF AtLeast, Object
    <3> QED BY <1>l, <1>t, <2>4, <3>2, WrittenLasting
  <2> QED BY <1>t, <2>1, <2>2, <2>3, <2>4, ObjectEvolution DEF ObjectEvolves
<1>2. Observed(hs).gen <= Observed(hs').gen
  <2>1. CASE UNCHANGED object
    BY <1>v, <2>1 DEF object, Object
  <2>2. CASE \/ Lag(hs) > 0 /\ hs' = Delivered(hs)
             \/ hs' = Relisted(hs)
    <3>1. Observed(hs') \in Versions(hs)
      <4>1. CASE Lag(hs) > 0 /\ hs' = Delivered(hs)
        BY <1>t, <4>1, DeliveredVersions, EndVersions
      <4>2. CASE hs' = Relisted(hs)
        BY <1>t, <4>2, RelistedVersions, EndVersions
      <4> QED BY <2>2, <4>1, <4>2
    <3>2. Observed(hs).gen \in Nat /\ Observed(hs) \in AtLeast(Observed(hs).gen)
      BY <1>v DEF AtLeast, Object
    <3>3. Versions(hs) \subseteq AtLeast(Observed(hs).gen)
      BY <1>l, <1>t, <3>2, LastingObserved
    <3> QED BY <3>1, <3>2, <3>3 DEF AtLeast
  <2>3. ASSUME NEW o \in Object, hs' = Written(hs, o)
        PROVE  Observed(hs).gen <= Observed(hs').gen
    <3>1. Observed(hs') = Observed(hs)
      BY <1>t, <2>3, WrittenVersions
    <3> QED BY <1>v, <3>1 DEF Object
  <2> QED BY <1>t, <2>1, <2>2, <2>3, ObjectEvolution DEF ObjectEvolves
<1>3. /\ Observed(hs).gen \in Nat /\ Observed(hs').gen \in Nat
      /\ pc # "idle" => obj.gen <= Observed(hs).gen
  BY <1>v DEF Object, SeenInv
<1>4. \/ pc' = "idle"
      \/ pc = "idle" /\ pc' # "idle" /\ obj' = Observed(hs) /\ hs' = hs
      \/ pc # "idle" /\ obj'.gen = obj.gen
  <2>1. CASE Begins
    BY <2>1 DEF Begins, object
  <2>2. CASE Ends
    BY <2>2 DEF Ends
  <2>3. CASE GoesOn
    <3>1. AddFinalizer => obj' = WithFinalizer(obj) /\ pc # "idle"
      BY DEF AddFinalizer
    <3>2. WithFinalizer(obj).gen = obj.gen
      BY <1>t DEF TypeOK, WithFinalizer, Object
    <3>3. \A k \in Kinds : Apply(k) => obj' = obj /\ pc # "idle"
      BY PcTypes DEF Apply
    <3> QED BY <2>3, <3>1, <3>2, <3>3 DEF GoesOn
  <2>4. CASE Outside
    BY <2>4 DEF Outside
  <2> QED BY <1>t, <2>1, <2>2, <2>3, <2>4, PassEvolution
<1>5. pc' # "idle" => obj'.gen <= Observed(hs').gen
  BY <1>2, <1>3, <1>4, <1>t
<1>6. /\ Seen = IF pc = "idle" THEN Observed(hs).gen ELSE obj.gen
      /\ Seen' = IF pc' = "idle" THEN Observed(hs').gen ELSE obj'.gen
  BY DEF Seen, Observed
<1>7. Seen \in Nat /\ Seen' \in Nat /\ Seen <= Seen'
  BY <1>2, <1>3, <1>4, <1>5, <1>6, <1>t
<1> QED BY <1>1, <1>2, <1>5, <1>7

\* The invariant is kept.
LEMMA SeenStep ==
  ASSUME BaseInv, SeenInv, [Next]_vars
  PROVE  SeenInv'
<1>t. TypeOK /\ pod \in Pod /\ obj \in Object /\ Stored(hs) \in Object
  BY ValueTypes DEF BaseInv, TypeOK
<1>s. /\ Seen \in Nat /\ Seen' \in Nat /\ Seen <= Seen'
      /\ \A n \in Nat : Lasting(hs', AtLeast(n))
      /\ pc' # "idle" => obj'.gen <= Observed(hs').gen
  BY SeenGrows
<1>i. /\ \A k \in Kinds : Applied(k) <= Seen
      /\ pod.gen <= Seen /\ Stored(hs).status.gen <= Seen
  BY DEF SeenInv
<1>1. \A k \in Kinds : Applied(k) \in Nat
  BY <1>t, ValueTypes DEF TypeOK, Applied, Current, StatefulSet, Others
<1>2. \A k \in Kinds : AppliedNext(k) <= Seen'
  <2> SUFFICES ASSUME NEW k \in Kinds PROVE AppliedNext(k) <= Seen'
    OBVIOUS
  <2>1. ChildEvolves(k)
    BY <1>t, ChildEvolution
  <2>2. pc = k => Seen = obj.gen
    BY PcTypes DEF Seen
  <2> QED BY <1>s, <1>i, <1>1, <2>1, <2>2 DEF ChildEvolves
<1>3. \A k \in Kinds : Applied(k)' = AppliedNext(k)
  BY DEF Applied, AppliedNext, Current
<1>4. pod'.gen <= Seen'
  <2>1. PodEvolves
    BY <1>t, PodEvolution
  <2>2. \A g : Started(g).gen = g
    BY DEF Started
  <2>3. Current <= Seen /\ Current \in Nat
    BY <1>i, <1>1 DEF Applied, Kinds
  <2>4. pod'.gen \in {pod.gen, 0, Current}
    BY <1>t, <2>1, <2>2 DEF PodEvolves, NoPod, Pod
  <2> QED BY <1>t, <1>s, <1>i, <2>3, <2>4 DEF Pod
<1>5. Stored(hs').status.gen <= Seen'
  <2>1. pc = "patch" => Seen = NewStatus.gen
    BY DEF Seen, NewStatus
  <2>2. Stored(hs).status.gen \in Nat
    BY <1>t DEF Object, Status
  <2> QED BY <1>s, <1>i, <2>1, <2>2, StatusEvolution
<1> QED BY <1>s, <1>2, <1>3, <1>4, <1>5 DEF SeenInv, Stored, Observed

-----------------------------------------------------------------------------
(* The order of the applies, seen from the cluster: when the worker is     *)
(* about to make a call, the children before it are as new as its copy, or *)
(* have been deleted since.                                                *)

UpTo(k, g) == Applied(k) = 0 \/ Applied(k) >= g

\* The children applied before a call.
Earlier(call) ==
  CASE call = "Role" -> {"ServiceAccount"}
    [] call = "RoleBinding" -> {"ServiceAccount", "Role"}
    [] call = "ConfigMap" -> RbacKinds
    [] call = "StatefulSet" -> RbacKinds \cup {"ConfigMap"}
    [] call = "Service" -> RbacKinds \cup {"ConfigMap", "StatefulSet"}
    [] call = "MetricsService" -> RbacKinds \cup {"ConfigMap", "StatefulSet", "Service"}
    [] call \in {"computeReady", "patch"} -> Kinds
    [] OTHER -> {}

OrderInv ==
  /\ \A k \in Earlier(pc) \cap Required(obj.gen) : UpTo(k, obj.gen)
  /\ LET g == Stored(hs).status.gen IN g # 0 => \A k \in Required(g) : UpTo(k, g)

\* A call comes right after the one before it.
LEMMA EarlierCalls ==
  /\ \A k \in Kinds : Earlier(Following[k]) \subseteq Earlier(k) \cup {k}
  /\ Earlier("patch") = Earlier("computeReady") /\ Earlier("patch") = Kinds
  /\ Earlier("idle") = {} /\ Earlier("addFinalizer") = {}
  /\ Earlier("deleteSecret") = {} /\ Earlier("removeFinalizer") = {}
  /\ "ConfigMap" \in Earlier("StatefulSet")
  /\ \A g : Earlier(FirstApply(g)) \cap Required(g) = {}
<1>1. /\ Earlier("Role") = {"ServiceAccount"}
      /\ Earlier("RoleBinding") = {"ServiceAccount", "Role"}
      /\ Earlier("ConfigMap") = RbacKinds
      /\ Earlier("StatefulSet") = RbacKinds \cup {"ConfigMap"}
      /\ Earlier("Service") = RbacKinds \cup {"ConfigMap", "StatefulSet"}
      /\ Earlier("MetricsService")
           = RbacKinds \cup {"ConfigMap", "StatefulSet", "Service"}
      /\ Earlier("ServiceAccount") = {}
      /\ Earlier("computeReady") = Kinds /\ Earlier("patch") = Kinds
      /\ Earlier("idle") = {} /\ Earlier("addFinalizer") = {}
      /\ Earlier("deleteSecret") = {} /\ Earlier("removeFinalizer") = {}
  BY DEF Earlier
<1>2. \A k \in Kinds : Earlier(Following[k]) \subseteq Earlier(k) \cup {k}
  BY <1>1, FollowingCalls DEF Kinds, RbacKinds
<1>3. \A g : Earlier(FirstApply(g)) \cap Required(g) = {}
  <2> SUFFICES ASSUME NEW g PROVE Earlier(FirstApply(g)) \cap Required(g) = {}
    OBVIOUS
  <2>1. CASE SpecOf(g).manage
    BY <1>1, <2>1 DEF FirstApply
  <2>2. CASE ~SpecOf(g).manage
    BY <1>1, <2>2 DEF FirstApply, Required, RbacKinds, WorkloadKinds
  <2> QED BY <2>1, <2>2
<1> QED BY <1>1, <1>2, <1>3

\* The same after a step, for a generation and a child of before it.
RequiredNext(g) ==
  IF specs'[g].manage THEN RbacKinds \cup WorkloadKinds ELSE WorkloadKinds
UpToNext(k, g) == AppliedNext(k) = 0 \/ AppliedNext(k) >= g

\* What is up to a generation the worker has seen stays so: whatever is applied next
\* is at least as new.
LEMMA UpToStays ==
  ASSUME BaseInv, SeenInv, [Next]_vars, NEW g \in Nat, g <= Seen,
         NEW k \in Kinds, UpTo(k, g)
  PROVE  UpToNext(k, g)
<1>1. ChildEvolves(k)
  BY ChildEvolution DEF BaseInv
<1>2. pc = k => Seen = obj.gen
  BY PcTypes DEF Seen
<1> QED BY <1>1, <1>2 DEF ChildEvolves, UpTo, UpToNext

\* The order is kept.
LEMMA OrderStep ==
  ASSUME BaseInv, SeenInv, OrderInv, [Next]_vars
  PROVE  OrderInv'
<1>t. TypeOK /\ obj \in Object /\ Stored(hs) \in Object /\ Len(specs) \in Nat
  BY ValueTypes, SpecTypes DEF BaseInv, TypeOK
<1>s. Seen \in Nat /\ Seen <= Len(specs)
  <2>1. Observed(hs).gen <= Len(specs) /\ Observed(hs).gen \in Nat
    BY <1>t, EndVersions, ValueTypes DEF BaseInv, TypeOK, VersionsNumbered, Object
  <2> QED BY <1>t, <2>1 DEF BaseInv, CopyInv, Seen
<1>r. \A g \in 1..Len(specs) : RequiredNext(g) = Required(g)
  BY NumberingStep DEF Required, RequiredNext, SpecOf
<1>k. \A g : Required(g) \subseteq Kinds
  BY PcTypes DEF Required
<1>u. \A g \in Nat : \A k \in Kinds : g <= Seen /\ UpTo(k, g) => UpToNext(k, g)
  BY UpToStays
<1>o. /\ \A k \in Earlier(pc) \cap Required(obj.gen) : UpTo(k, obj.gen)
      /\ LET g == Stored(hs).status.gen IN g # 0 => \A k \in Required(g) : UpTo(k, g)
  BY DEF OrderInv
<1>c. /\ pc # "idle" => obj.gen \in 1..Len(specs) /\ Seen = obj.gen
      /\ pc \in Kinds => pc \in Required(obj.gen)
  BY DEF BaseInv, CopyInv, Seen
<1>1. \A k \in Earlier(pc') \cap RequiredNext(obj'.gen) : UpToNext(k, obj'.gen)
  <2>1. CASE Begins
    <3>1. /\ obj' = Observed(hs) /\ pc' = FirstCall(obj') /\ pc' # "idle"
          /\ UNCHANGED specs
      BY <2>1 DEF Begins, object
    <3>2. obj' \in Object /\ obj'.gen \in 1..Len(specs)
      <4>1. BaseInv'
        BY BaseStep
      <4> QED BY <3>1, <4>1 DEF BaseInv, TypeOK, CopyInv
    <3>3. \/ pc' \in {"addFinalizer", "deleteSecret", "removeFinalizer"}
          \/ pc' = FirstApply(obj'.gen)
      BY <1>t, <3>1, <3>2, FirstCalls, Zenon
    <3>4. RequiredNext(obj'.gen) = Required(obj'.gen)
      BY <3>1 DEF Required, RequiredNext, SpecOf
    <3> QED BY <3>3, <3>4, EarlierCalls
  <2>2. CASE Ends
    BY <2>2, EarlierCalls DEF Ends
  <2>3. CASE AddFinalizer
    <3>1. /\ pc = "addFinalizer" /\ pc' = Steps(SpecOf(obj.gen).manage)[1]
          /\ obj' = WithFinalizer(obj) /\ UNCHANGED specs
      BY <2>3 DEF AddFinalizer, UpdateAccepted, Store, Goto
    <3>2. SpecOf(obj.gen).manage \in BOOLEAN
      BY <1>t, <1>c, <3>1, SpecTypes
    <3>3. pc' = FirstApply(obj.gen) /\ obj'.gen = obj.gen
      BY <1>t, <3>1, <3>2, StepsRequired DEF WithFinalizer, Object
    <3>4. RequiredNext(obj'.gen) = Required(obj.gen)
      BY <3>1, <3>3 DEF Required, RequiredNext, SpecOf
    <3> QED BY <3>3, <3>4, EarlierCalls
  <2>4. CASE \E k \in Kinds : Apply(k)
    <3>1. /\ pc \in Kinds /\ pc' = After(pc) /\ obj' = obj /\ UNCHANGED specs
          /\ ApplyChild(pc)
      BY <2>4 DEF Apply, object
    <3>2. pc # "idle" /\ SpecOf(obj.gen).manage \in BOOLEAN
      BY <1>t, <1>c, <3>1, SpecTypes, PcTypes
    <3>3. pc' = Following[pc]
      BY <1>c, <3>1, <3>2, AfterApply
    <3>4. RequiredNext(obj'.gen) = Required(obj.gen)
      BY <3>1 DEF Required, RequiredNext, SpecOf
    <3>5. UpToNext(pc, obj.gen)
      <4>1. AppliedNext(pc) = obj.gen /\ obj.gen >= obj.gen
        BY <1>t, <3>1, ApplyResult DEF Object
      <4> QED BY <4>1 DEF UpToNext
    <3>6. ASSUME NEW k \in Earlier(pc) \cap Required(obj.gen) PROVE UpToNext(k, obj.gen)
      <4>1. obj.gen \in Nat /\ obj.gen <= Seen
        BY <1>c, <1>s, <3>2
      <4> QED BY <1>k, <1>o, <1>u, <3>6, <4>1
    <3>7. Earlier(pc') \subseteq Earlier(pc) \cup {pc}
      BY <3>1, <3>3, EarlierCalls
    <3> QED BY <3>1, <3>4, <3>5, <3>6, <3>7
  <2>5. CASE \/ /\ pc = "computeReady" /\ pc' = "patch"
                /\ UNCHANGED <<obj, object, cluster>>
             \/ /\ pc = "deleteSecret" /\ pc' = "removeFinalizer"
                /\ UNCHANGED <<obj, object, child, sts, pod, late>>
             \/ UNCHANGED <<pc, obj>>
    <3>1. obj' = obj /\ Earlier(pc') \subseteq Earlier(pc)
      BY <2>5, EarlierCalls
    <3>2. CASE pc # "idle"
      <4>1. RequiredNext(obj'.gen) = Required(obj.gen)
        BY <1>c, <1>r, <3>1, <3>2
      <4>2. \A k \in Earlier(pc') \cap Required(obj.gen) : UpTo(k, obj.gen)
        BY <1>o, <3>1
      <4>3. obj.gen \in Nat /\ obj.gen <= Seen
        BY <1>c, <1>s, <3>2
      <4>4. ASSUME NEW k \in Earlier(pc') \cap Required(obj.gen)
            PROVE  UpToNext(k, obj.gen)
        BY <1>k, <1>u, <4>2, <4>3, <4>4
      <4> QED BY <3>1, <4>1, <4>4
    <3>3. CASE pc = "idle"
      BY <3>1, <3>3, EarlierCalls
    <3> QED BY <3>2, <3>3
  <2> QED BY <1>t, <2>1, <2>2, <2>3, <2>4, <2>5, PassEvolution DEF GoesOn, Outside
<1>2. LET g == Stored(hs').status.gen
      IN  g # 0 => \A k \in RequiredNext(g) : UpToNext(k, g)
  <2>1. ASSUME NEW g \in Nat, g # 0, g <= Seen, \A k \in Required(g) : UpTo(k, g)
        PROVE  \A k \in RequiredNext(g) : UpToNext(k, g)
    <3>1. g \in 1..Len(specs)
      BY <1>s, <1>t, <2>1
    <3>2. RequiredNext(g) = Required(g)
      BY <1>r, <3>1
    <3> QED BY <1>u, <1>k, <2>1, <3>2
  <2>2. CASE Stored(hs').status = Stored(hs).status
    <3> DEFINE g == Stored(hs).status.gen
    <3>1. g \in Nat /\ g <= Seen
      BY <1>t DEF Object, Status, SeenInv
    <3> HIDE DEF g
    <3>2. g # 0 => \A k \in Required(g) : UpTo(k, g)
      BY <1>o DEF g
    <3>3. g # 0 => \A k \in RequiredNext(g) : UpToNext(k, g)
      BY <2>1, <3>1, <3>2
    <3> QED BY <2>2, <3>3 DEF g
  <2>3. CASE Stored(hs').status.gen = 0
    BY <2>3
  <2>4. CASE pc = "patch" /\ Stored(hs').status = NewStatus
    <3> DEFINE g == obj.gen
    <3>1. g \in Nat /\ g # 0 /\ g <= Seen
      BY <1>c, <1>s, <2>4
    <3>2. \A k \in Required(g) : UpTo(k, g)
      BY <1>o, <1>k, <2>4, EarlierCalls
    <3>3. Stored(hs').status.gen = g
      BY <2>4 DEF NewStatus
    <3> HIDE DEF g
    <3>4. \A k \in RequiredNext(g) : UpToNext(k, g)
      BY <2>1, <3>1, <3>2
    <3> QED BY <3>3, <3>4
  <2> QED BY <2>2, <2>3, <2>4, StatusEvolution
<1> QED BY <1>1, <1>2 DEF OrderInv, UpTo, UpToNext, Stored, Applied, AppliedNext, Current,
                          Required, RequiredNext, SpecOf

-----------------------------------------------------------------------------
(* The config hash.                                                        *)

\* Neither the StatefulSet nor a pod is ahead of the ConfigMap.
HashInv ==
  LET config == child["ConfigMap"] IN
  /\ config = 0 \/ (Current <= config /\ pod.gen <= config)
  /\ pod.state = "ready" => pod.config >= pod.gen

\* The invariant is kept: a StatefulSet is applied after its ConfigMap, and a pod
\* starts from both.
LEMMA HashStep ==
  ASSUME BaseInv, SeenInv, OrderInv, HashInv, [Next]_vars
  PROVE  HashInv'
<1> DEFINE config == child["ConfigMap"]
<1>t. /\ TypeOK /\ pod \in Pod /\ obj.gen \in Nat /\ Current \in Nat /\ config \in Nat
      /\ Current = Applied("StatefulSet") /\ config = Applied("ConfigMap")
      /\ "ConfigMap" \in Kinds /\ "StatefulSet" \in Kinds
  BY ValueTypes DEF BaseInv, TypeOK, Object, StatefulSet, Current, Others, Kinds, Applied
<1>h. /\ config = 0 \/ (Current <= config /\ pod.gen <= config)
      /\ pod.state = "ready" => pod.config >= pod.gen
  BY DEF HashInv
<1>s. /\ pc \in Kinds => Current <= obj.gen /\ pod.gen <= obj.gen
      /\ pc = "StatefulSet" => config = 0 \/ obj.gen <= config
  <2>1. pc \in Kinds => Seen = obj.gen
    BY PcTypes DEF Seen
  <2>2. pc = "StatefulSet" => "ConfigMap" \in Earlier(pc) \cap Required(obj.gen)
    BY EarlierCalls DEF Required, WorkloadKinds
  <2>3. pc = "StatefulSet" => UpTo("ConfigMap", obj.gen)
    BY <2>2 DEF OrderInv
  <2> QED BY <1>t, <2>1, <2>3 DEF SeenInv, UpTo
<1> DEFINE new == AppliedNext("ConfigMap")
           newSet == AppliedNext("StatefulSet")
<1>1. /\ \/ new \in {config, 0}
         \/ pc = "ConfigMap" /\ new = obj.gen /\ UNCHANGED pod
      /\ \/ newSet \in {Current, 0}
         \/ pc = "StatefulSet" /\ newSet = obj.gen /\ UNCHANGED pod
  BY <1>t, ChildEvolution DEF ChildEvolves
<1>p. PodEvolves
  BY <1>t, PodEvolution
<1>e. /\ new = child'["ConfigMap"] /\ newSet = Current'
  BY DEF AppliedNext, Current
<1> HIDE DEF new
<1> HIDE DEF newSet
<1> HIDE DEF config
<1>2. \/ UNCHANGED pod \/ pod' = NoPod
      \/ pod.state = "ready" /\ pod' = [pod EXCEPT !.state = "crashed"]
      \/ /\ config # 0 /\ new = config /\ newSet = Current
         /\ \/ pod' = Started(Current)
            \/ pod' = Started(pod.gen)
  BY <1>p, <1>e DEF PodEvolves, config, Current
<1>3. \A g : Started(g).gen = g /\ Started(g).config = config
  BY DEF Started, config
<1>4. new = 0 \/ (newSet <= new /\ pod'.gen <= new)
  <2>1. pod'.gen \in {pod.gen, 0, Current}
    BY <1>t, <1>2, <1>3 DEF NoPod, Pod
  <2>2. pod.gen \in Nat
    BY <1>t DEF Pod
  <2>3. CASE pc = "ConfigMap" /\ new = obj.gen /\ UNCHANGED pod
    BY <1>t, <1>s, <1>1, <2>2, <2>3
  <2>4. CASE new = config /\ newSet \in {Current, 0}
    BY <1>t, <1>h, <2>1, <2>2, <2>4
  <2>5. CASE new = config /\ pc = "StatefulSet" /\ newSet = obj.gen /\ UNCHANGED pod
    BY <1>t, <1>h, <1>s, <2>2, <2>5
  <2> QED BY <1>1, <2>3, <2>4, <2>5
<1>5. pod'.state = "ready" => pod'.config >= pod'.gen
  <2>1. CASE UNCHANGED pod
    BY <1>h, <2>1
  <2>2. CASE pod' = NoPod \/ pod' = [pod EXCEPT !.state = "crashed"]
    BY <1>t, <2>2 DEF NoPod, Pod
  <2>3. CASE config # 0 /\ (pod' = Started(Current) \/ pod' = Started(pod.gen))
    BY <1>h, <1>3, <2>3, <1>t DEF Pod
  <2> QED BY <1>2, <2>1, <2>2, <2>3
<1> QED BY <1>4, <1>5, <1>e DEF HashInv

\* What the workload's theorems rest on.
WorkloadInv == BaseInv /\ SeenInv /\ OrderInv /\ HashInv

\* It holds at first.
LEMMA WorkloadInit ==
  ASSUME Init
  PROVE  WorkloadInv
<1>1. BaseInv
  BY BaseInit
<1>2. /\ Absent.gen = 0 /\ Absent.status.gen = 0 /\ Absent \in Object
      /\ NoStatefulSet.gen = 0 /\ NoPod.gen = 0 /\ NoPod.state = "none"
  BY DEF Absent, NoStatus, NoStatefulSet, NoPod, Object, Status, ReadyReasons
<1>3. /\ Stored(hs) = Absent /\ Observed(hs) = Absent /\ Stored(sts) = NoStatefulSet
      /\ Len(hs) = 1 /\ pc = "idle" /\ pod = NoPod /\ child = [k \in Others |-> 0]
  BY <1>2 DEF Init, Stored, Observed
<1>4. Current = 0 /\ \A k \in Kinds : Applied(k) = 0
  BY <1>2, <1>3 DEF Applied, Current, Others
<1>5. SeenInv
  BY <1>2, <1>3, <1>4 DEF SeenInv, Seen, Lasting
<1>6. OrderInv
  BY <1>2, <1>3, EarlierCalls DEF OrderInv
<1>7. HashInv
  BY <1>2, <1>3, <1>4 DEF HashInv, Others, Kinds
<1> QED BY <1>1, <1>5, <1>6, <1>7 DEF WorkloadInv

\* It is an invariant.
LEMMA WorkloadSafe == Spec => []WorkloadInv
<1>1. Init => WorkloadInv
  BY WorkloadInit
<1>2. WorkloadInv /\ [Next]_vars => WorkloadInv'
  BY BaseStep, SeenStep, OrderStep, HashStep DEF WorkloadInv
<1> QED BY <1>1, <1>2, PTL DEF Spec

\* A server that is ready runs with a config at least as new as the one its pod
\* template was hashed from (the config-hash annotation).
THEOREM HashSafe == Spec => []RunsHashedConfig
<1>1. WorkloadInv => RunsHashedConfig
  BY DEF WorkloadInv, HashInv, RunsHashedConfig
<1> QED BY <1>1, WorkloadSafe, PTL

\* The status speaks for a generation only when every child of it has been applied
\* (Reconcile returns the error of an apply before updateStatus).
THEOREM StatusSafe == Spec => []StatusAfterChildren
<1>1. WorkloadInv => StatusAfterChildren
  <2> SUFFICES ASSUME WorkloadInv PROVE StatusAfterChildren
    OBVIOUS
  <2> DEFINE g == Stored(hs).status.gen
             order == Steps(SpecOf(g).manage)
  <2>1. g # 0 => g \in 1..Len(specs)
    <3>1. g \in Nat /\ g <= Seen /\ Len(specs) \in Nat
      BY ValueTypes, SpecTypes DEF WorkloadInv, BaseInv, Object, Status, SeenInv
    <3>2. Seen \in Nat /\ Seen <= Len(specs)
      <4>1. Observed(hs).gen <= Len(specs) /\ Observed(hs).gen \in Nat
        BY EndVersions, ValueTypes
           DEF WorkloadInv, BaseInv, TypeOK, VersionsNumbered, Object
      <4> QED BY <4>1 DEF WorkloadInv, BaseInv, CopyInv, Seen
    <3> QED BY <3>1, <3>2
  <2>2. g # 0 => \A i \in 1..Len(order) : order[i] \in Required(g)
    BY <2>1, SpecTypes, StepsRequired DEF WorkloadInv, BaseInv
  <2>3. g # 0 => \A k \in Required(g) : UpTo(k, g)
    BY DEF WorkloadInv, OrderInv
  <2> HIDE DEF order
  <2>4. g # 0 => \A i \in 1..Len(order) : UpTo(order[i], g)
    BY <2>2, <2>3
  <2> QED BY <2>4 DEF StatusAfterChildren, UpTo, Applied, order
<1> QED BY <1>1, WorkloadSafe, PTL

-----------------------------------------------------------------------------
(* Deletion.                                                               *)

\* Deletion has begun.
Past == {o \in Object : o.life \in {"deleting", "gone"}}

\* The object has its finalizer, or had it when its deletion began.
Guarded == {o \in Object : o.life \in {"deleting", "gone"}
                             \/ (o.life = "live" /\ o.finalizer)}

\* A deletion is for good, also in the cache, and the worker's passes know of it.
DeletionInv ==
  /\ Lasting(hs, Past) /\ Lasting(hs, Guarded)
  /\ \A o \in Versions(hs) : o \in Past => marked # 0 /\ marked <= o.gen
  /\ marked # 0 => Stored(hs) \in Past
  /\ pc \in Kinds \cup {"computeReady", "patch"} => Stored(hs) \in Guarded
  /\ pc \in {"deleteSecret", "removeFinalizer"} =>
       obj \in Past /\ Stored(hs) \in Past /\ marked <= obj.gen
  /\ pc = "deleteSecret" => SpecOf(obj.gen).manage

\* What the new version of an object is to its deletion.
LEMMA NewVersionDeletion ==
  ASSUME BaseInv, DeletionInv, [Next]_vars, NEW o \in Object, hs' = Written(hs, o),
         NewVersion(o)
  PROVE  /\ Stored(hs) \in Past => o \in Past
         /\ Stored(hs) \in Guarded => o \in Guarded
         /\ pc = "addFinalizer" /\ pc' # pc => o \in Guarded
         /\ o \in Past => /\ marked' # 0 /\ marked' <= o.gen
                          /\ marked' = marked \/ (pc' = pc /\ Stored(hs).life = "live")
         /\ marked' # 0 => o \in Past
<1>t. /\ TypeOK /\ Stored(hs) \in Object /\ obj \in Object /\ Stored(hs).gen \in Nat
      /\ Stored(hs) \in Versions(hs) /\ marked \in Nat
  <2>1. TypeOK /\ hs \in History(Object) /\ obj \in Object /\ marked \in Nat
    BY DEF BaseInv, TypeOK
  <2>2. Stored(hs) \in Object /\ Stored(hs) \in Versions(hs)
    BY <2>1, EndVersions
  <2> QED BY <2>1, <2>2 DEF Object
<1>d. /\ Stored(hs) \in Past => marked # 0 /\ marked <= Stored(hs).gen
      /\ marked # 0 => Stored(hs) \in Past
      /\ pc = "removeFinalizer" => Stored(hs) \in Past
  BY <1>t DEF DeletionInv
<1>f. fresh => pc # "idle" /\ obj = Stored(hs) /\ obj.life \in {"live", "deleting"}
  BY DEF BaseInv, CopyInv, Exists
<1>1. CASE pc = "addFinalizer" /\ fresh /\ o = WithFinalizer(obj) /\ UNCHANGED marked
  <2>1. /\ o.life = Stored(hs).life /\ o.finalizer /\ o.gen = Stored(hs).gen
        /\ Stored(hs).life \in {"live", "deleting"}
    BY <1>t, <1>f, <1>1 DEF WithFinalizer, Object
  <2> QED BY <1>t, <1>d, <1>1, <2>1 DEF Past, Guarded
<1>2. CASE pc = "removeFinalizer" /\ fresh /\ o = Removed(obj) /\ UNCHANGED marked
  <2>1. o.life = "gone" /\ o.gen = Stored(hs).gen
    BY <1>t, <1>f, <1>2 DEF Removed, Object
  <2> QED BY <1>t, <1>d, <1>2, <2>1 DEF Past, Guarded
<1>3. CASE \/ pc = "patch" /\ UNCHANGED marked /\ o = Patched
           \/ EditSpec /\ o = [Stored(hs) EXCEPT !.gen = @ + 1]
  <2>1. /\ o.life = Stored(hs).life /\ o.finalizer = Stored(hs).finalizer
        /\ o.gen >= Stored(hs).gen /\ UNCHANGED marked /\ o.gen \in Nat
        /\ pc = "addFinalizer" => pc' = pc
    BY <1>t, <1>3 DEF Patched, Object, EditSpec
  <2> QED BY <1>t, <1>d, <2>1 DEF Past, Guarded
<1>4. CASE CreateHeadscale /\ o = [Absent EXCEPT !.life = "live", !.gen = 1]
  <2>1. /\ o.life = "live" /\ Stored(hs).life = "none" /\ UNCHANGED <<marked, pc>>
    BY <1>4 DEF CreateHeadscale, Absent, worker
  <2> QED BY <1>t, <1>d, <2>1 DEF Past, Guarded
<1>5. CASE /\ DeleteHeadscale
           /\ o = IF Stored(hs).finalizer THEN [Stored(hs) EXCEPT !.life = "deleting"]
                  ELSE Removed(Stored(hs))
  <2>1. /\ o.life \in {"deleting", "gone"} /\ o.gen = Stored(hs).gen
        /\ Stored(hs).life = "live" /\ marked' = Stored(hs).gen /\ UNCHANGED pc
    BY <1>t, <1>5 DEF DeleteHeadscale, Removed, Object
  <2>2. Stored(hs).gen # 0
    BY <1>t, <2>1 DEF BaseInv, VersionsNumbered
  <2> QED BY <1>t, <2>1, <2>2 DEF Past, Guarded
<1> QED BY <1>1, <1>2, <1>3, <1>4, <1>5 DEF NewVersion

\* The versions stay in that order.
LEMMA DeletionVersions ==
  ASSUME BaseInv, DeletionInv, [Next]_vars
  PROVE  /\ Lasting(hs', Past) /\ Lasting(hs', Guarded)
         /\ \A o \in Versions(hs') : o \in Past => marked' # 0 /\ marked' <= o.gen
         /\ marked' # 0 => Stored(hs') \in Past
         /\ Stored(hs) \in Past => Stored(hs') \in Past /\ marked' = marked
         /\ Stored(hs) \in Guarded => Stored(hs') \in Guarded
<1>t. /\ TypeOK /\ hs \in History(Object) /\ Stored(hs) \in Object
      /\ Stored(hs) \in Versions(hs)
  BY ValueTypes, EndVersions DEF BaseInv, TypeOK
<1>d. /\ Lasting(hs, Past) /\ Lasting(hs, Guarded)
      /\ \A o \in Versions(hs) : o \in Past => marked # 0 /\ marked <= o.gen
      /\ marked # 0 => Stored(hs) \in Past
  BY DEF DeletionInv
<1>1. CASE UNCHANGED object
  <2>1. hs' = hs /\ marked' = marked
    BY <1>1 DEF object
  <2> QED BY <1>d, <2>1
<1>2. CASE Lag(hs) > 0 /\ hs' = Delivered(hs) /\ UNCHANGED <<specs, marked, pc, obj, fresh>>
  <2>1. /\ Versions(hs') \subseteq Versions(hs) /\ Stored(hs') = Stored(hs)
        /\ Lasting(hs', Past) /\ Lasting(hs', Guarded) /\ marked' = marked
    BY <1>d, <1>t, <1>2, DeliveredVersions, DeliveredLasting
  <2> QED BY <1>d, <2>1
<1>3. CASE hs' = Relisted(hs) /\ pc' = "idle" /\ UNCHANGED <<specs, marked>>
  <2>1. /\ Versions(hs') = {Stored(hs)} /\ Stored(hs') = Stored(hs)
        /\ Lasting(hs', Past) /\ Lasting(hs', Guarded) /\ marked' = marked
    BY <1>t, <1>3, RelistedVersions, RelistedLasting
  <2> QED BY <1>d, <1>t, <2>1
<1>4. CASE \E o \in Object : hs' = Written(hs, o) /\ NewVersion(o)
  <2>1. PICK o \in Object : hs' = Written(hs, o) /\ NewVersion(o)
    BY <1>4
  <2>2. /\ Stored(hs) \in Past => o \in Past
        /\ Stored(hs) \in Guarded => o \in Guarded
        /\ pc = "addFinalizer" /\ pc' # pc => o \in Guarded
        /\ o \in Past => /\ marked' # 0 /\ marked' <= o.gen
                         /\ marked' = marked \/ (pc' = pc /\ Stored(hs).life = "live")
        /\ marked' # 0 => o \in Past
    BY <2>1, NewVersionDeletion
  <2>3. Versions(hs') = Versions(hs) \cup {o} /\ Stored(hs') = o
    BY <1>t, <2>1, WrittenVersions
  <2>4. Lasting(hs', Past) /\ Lasting(hs', Guarded)
    BY <1>d, <1>t, <2>1, <2>2, WrittenLasting
  <2>5. Stored(hs) \in Past => marked' = marked
    BY <2>2 DEF Past
  <2>6. ASSUME NEW v \in Versions(hs), v \in Past PROVE marked' # 0 /\ marked' <= v.gen
    <3>1. Stored(hs) \in Past
      BY <1>d, <2>6
    <3> QED BY <1>d, <2>5, <2>6, <3>1
  <2>7. \A v \in Versions(hs') : v \in Past => marked' # 0 /\ marked' <= v.gen
    BY <2>2, <2>3, <2>6
  <2> QED BY <2>2, <2>3, <2>4, <2>5, <2>7
<1> QED BY <1>t, <1>1, <1>2, <1>3, <1>4, ObjectEvolution DEF ObjectEvolves


\* The invariant is kept.
LEMMA DeletionStep ==
  ASSUME BaseInv, DeletionInv, [Next]_vars
  PROVE  DeletionInv'
<1>t. /\ TypeOK /\ hs \in History(Object) /\ obj \in Object /\ Stored(hs) \in Object
      /\ Observed(hs) \in Versions(hs) /\ Versions(hs) \subseteq Object
      /\ Stored(hs) \in Versions(hs)
  BY ValueTypes, EndVersions DEF BaseInv, TypeOK
<1>b. BaseInv'
  BY BaseStep
<1>v. /\ Lasting(hs', Past) /\ Lasting(hs', Guarded)
      /\ \A o \in Versions(hs') : o \in Past => marked' # 0 /\ marked' <= o.gen
      /\ marked' # 0 => Stored(hs') \in Past
      /\ Stored(hs) \in Past => Stored(hs') \in Past /\ marked' = marked
      /\ Stored(hs) \in Guarded => Stored(hs') \in Guarded
  BY DeletionVersions
<1>d. /\ Lasting(hs, Past) /\ Lasting(hs, Guarded)
      /\ \A o \in Versions(hs) : o \in Past => marked # 0 /\ marked <= o.gen
      /\ pc \in Kinds \cup {"computeReady", "patch"} => Stored(hs) \in Guarded
      /\ pc \in {"deleteSecret", "removeFinalizer"} =>
           obj \in Past /\ Stored(hs) \in Past /\ marked <= obj.gen
      /\ pc = "deleteSecret" => SpecOf(obj.gen).manage
  BY DEF DeletionInv
<1> DEFINE Applies == pc' \in Kinds \cup {"computeReady", "patch"} =>
                        Stored(hs') \in Guarded
           Deletes == pc' \in {"deleteSecret", "removeFinalizer"} =>
                        obj' \in Past /\ Stored(hs') \in Past /\ marked' <= obj'.gen
           Manages == pc' = "deleteSecret" => specs'[obj'.gen].manage
<1>1. ASSUME Begins PROVE Applies /\ Deletes /\ Manages
  <2>1. /\ obj' = Observed(hs) /\ pc' = FirstCall(obj') /\ pc' # "idle"
        /\ hs' = hs /\ marked' = marked /\ specs' = specs
    BY <1>1 DEF Begins, object
  <2>2. obj' \in Object /\ obj'.gen \in 1..Len(specs)
    BY <1>b, <2>1 DEF BaseInv, TypeOK, CopyInv
  <2>3. CASE obj'.life = "deleting"
    <3>1. Observed(hs) \in Past
      BY <2>1, <2>2, <2>3 DEF Past
    <3>2. Stored(hs) \in Past /\ marked <= Observed(hs).gen
      BY <1>d, <1>t, <3>1, LastingObserved
    <3>3. pc' \in {"deleteSecret", "removeFinalizer"}
          /\ (pc' = "deleteSecret" => SpecOf(obj'.gen).manage)
      BY <2>1, <2>3 DEF FirstCall
    <3> QED BY <2>1, <3>1, <3>2, <3>3, PcTypes DEF SpecOf
  <2>4. CASE obj'.life = "live" /\ obj'.finalizer
    <3>1. Observed(hs) \in Guarded
      BY <2>1, <2>2, <2>4 DEF Guarded
    <3>2. Stored(hs) \in Guarded
      BY <1>d, <1>t, <3>1, LastingObserved
    <3>3. pc' = FirstApply(obj'.gen)
      BY <1>t, <2>1, <2>2, <2>4, FirstCalls, Zenon
    <3>4. pc' \notin {"deleteSecret", "removeFinalizer"}
      BY <3>3 DEF FirstApply
    <3> QED BY <2>1, <3>2, <3>4
  <2>5. CASE obj'.life = "live" /\ ~obj'.finalizer
    <3>1. pc' = "addFinalizer"
      BY <2>1, <2>5 DEF FirstCall
    <3> QED BY <3>1, PcTypes
  <2>6. CASE obj'.life \notin {"live", "deleting"}
    BY <2>1, <2>6 DEF FirstCall
  <2> QED BY <2>2, <2>3, <2>4, <2>5, <2>6
<1>2. ASSUME Ends PROVE Applies /\ Deletes /\ Manages
  BY <1>2, PcTypes DEF Ends
<1>3. ASSUME AddFinalizer PROVE Applies /\ Deletes /\ Manages
  <2>1. /\ pc = "addFinalizer" /\ pc' = Steps(SpecOf(obj.gen).manage)[1] /\ fresh
        /\ hs' = Written(hs, WithFinalizer(obj)) /\ UNCHANGED <<specs, marked>>
    BY <1>3 DEF AddFinalizer, UpdateAccepted, Store, Write, Goto
  <2>2. pc' \in {"ServiceAccount", "ConfigMap"}
    BY <2>1, StepsFirst
  <2>3. WithFinalizer(obj) \in Object /\ NewVersion(WithFinalizer(obj))
    BY <1>t, <2>1, <2>2, ValueTypes DEF NewVersion
  <2>4. WithFinalizer(obj) \in Guarded /\ Stored(hs') = WithFinalizer(obj)
    BY <1>t, <2>1, <2>2, <2>3, NewVersionDeletion, WrittenVersions
  <2> QED BY <2>2, <2>4
<1>4. ASSUME \E k \in Kinds : Apply(k) PROVE Applies /\ Deletes /\ Manages
  <2>1. /\ pc \in Kinds /\ pc' = After(pc) /\ obj' = obj /\ hs' = hs
    BY <1>4 DEF Apply, object
  <2>2. SpecOf(obj.gen).manage \in BOOLEAN /\ pc \in Required(obj.gen)
    BY <1>t, <2>1, SpecTypes, PcTypes DEF BaseInv, CopyInv
  <2>3. pc' \in Required(obj.gen) \cup {"computeReady"}
    BY <2>1, <2>2, AfterApply, FollowingRequired
  <2>4. pc' \notin {"deleteSecret", "removeFinalizer"}
    BY <2>3, PcTypes DEF Required
  <2> QED BY <1>d, <1>v, <2>1, <2>4
<1>5. ASSUME \/ /\ pc = "computeReady" /\ pc' = "patch"
                /\ UNCHANGED <<obj, object, cluster>>
             \/ /\ pc = "deleteSecret" /\ pc' = "removeFinalizer"
                /\ UNCHANGED <<obj, object, child, sts, pod, late>>
      PROVE  Applies /\ Deletes /\ Manages
  BY <1>d, <1>5, PcTypes DEF object
<1>6. ASSUME UNCHANGED <<pc, obj>> PROVE Applies /\ Deletes /\ Manages
  <2>1. Applies /\ Deletes
    BY <1>d, <1>v, <1>6
  <2>2. Manages
    <3>1. pc = "deleteSecret" => specs'[obj.gen] = specs[obj.gen]
      BY NumberingStep DEF BaseInv, CopyInv
    <3> QED BY <1>d, <1>6, <3>1 DEF SpecOf
  <2> QED BY <2>1, <2>2
<1>7. Applies /\ Deletes /\ Manages
  BY <1>t, <1>1, <1>2, <1>3, <1>4, <1>5, <1>6, PassEvolution DEF GoesOn, Outside
<1> QED BY <1>7, <1>v DEF DeletionInv, Stored, SpecOf


\* Without a finalizer there is nothing yet; once the Secret of a managed key has been
\* deleted the sidecar's next one is late; and what is left of an object that is gone
\* is what SecretDeleted allows.
SecretInv ==
  /\ Stored(hs) \notin Guarded =>
       /\ \A k \in Kinds : Applied(k) = 0
       /\ pod.state = "none" /\ \A s \in Secrets : secret[s] # "sidecar"
  /\ pc = "removeFinalizer" /\ SpecOf(obj.gen).manage =>
       \/ secret[SpecOf(obj.gen).secret] # "sidecar"
       \/ SpecOf(obj.gen).secret \in late
  /\ SecretDeleted

\* What a step does to one Secret once deletion has begun: the sidecar's is late.
LEMMA LateSecret ==
  ASSUME BaseInv, [Next]_vars, Stored(hs).life # "live", NEW s \in Secrets,
         secret[s] # "sidecar" \/ s \in late
  PROVE  secret'[s] # "sidecar" \/ s \in late'
<1>t. secret \in [Secrets -> Writers]
  BY DEF BaseInv, TypeOK
<1> QED BY <1>t, SecretEvolution DEF SecretsEvolve

\* An object that is not guarded has left nothing behind.
LEMMA UnguardedStep ==
  ASSUME BaseInv, DeletionInv, SecretInv, [Next]_vars, Stored(hs') \notin Guarded
  PROVE  /\ \A k \in Kinds : AppliedNext(k) = 0
         /\ pod'.state = "none" /\ \A s \in Secrets : secret'[s] # "sidecar"
<1>t. /\ TypeOK /\ secret \in [Secrets -> Writers] /\ pod.state # "ready"
      /\ "ConfigMap" \in Others /\ "ConfigMap" \in Kinds
  <2>1. Stored(hs) \notin Guarded
    BY DeletionVersions
  <2> QED BY <2>1 DEF BaseInv, TypeOK, SecretInv, Others, Kinds
<1>1. Stored(hs) \notin Guarded
  BY DeletionVersions
<1>2. /\ \A k \in Kinds : Applied(k) = 0
      /\ pod.state = "none" /\ \A s \in Secrets : secret[s] # "sidecar"
      /\ pc \notin Kinds
  BY <1>1 DEF SecretInv, DeletionInv
<1>3. \A k \in Kinds : AppliedNext(k) = 0
  BY <1>t, <1>2, ChildEvolution DEF ChildEvolves
<1>4. pod'.state = "none"
  <2>1. child["ConfigMap"] = 0
    BY <1>t, <1>2 DEF Applied, Others
  <2> QED BY <1>t, <1>2, <2>1, PodEvolution DEF PodEvolves, NoPod
<1>5. \A s \in Secrets : secret'[s] # "sidecar"
  BY <1>t, <1>2, SecretEvolution DEF SecretsEvolve
<1> QED BY <1>3, <1>4, <1>5

\* A deletion that gets to the finalizer has deleted the Secret.
LEMMA RemovalStep ==
  ASSUME BaseInv, DeletionInv, SecretInv, [Next]_vars,
         pc' = "removeFinalizer", specs'[obj'.gen].manage
  PROVE  LET s == specs'[obj'.gen].secret IN secret'[s] # "sidecar" \/ s \in late'
<1>t. TypeOK /\ secret \in [Secrets -> Writers]
  BY DEF BaseInv, TypeOK
<1>b. BaseInv'
  BY BaseStep
<1>p. "removeFinalizer" \notin Kinds
  BY PcTypes
<1>1. CASE Begins
  <2>1. /\ obj' = Observed(hs) /\ pc' = FirstCall(obj') /\ UNCHANGED specs
    BY <1>1 DEF Begins, object
  <2>2. obj' \in Object /\ obj'.gen \in 1..Len(specs)
    BY <1>1, <1>b, <2>1 DEF Begins, BaseInv, TypeOK, CopyInv
  <2>3. FirstApply(obj'.gen) # "removeFinalizer"
    BY DEF FirstApply
  <2>4. ~SpecOf(obj'.gen).manage
    BY <1>t, <2>1, <2>2, <2>3, FirstCalls
  <2> QED BY <2>1, <2>4 DEF SpecOf
<1>2. CASE Ends
  BY <1>2 DEF Ends
<1>3. CASE AddFinalizer
  BY <1>3, StepsFirst DEF AddFinalizer, Goto
<1>4. CASE \E k \in Kinds : Apply(k)
  <2>1. pc \in Kinds /\ pc' = After(pc)
    BY <1>4 DEF Apply
  <2>2. SpecOf(obj.gen).manage \in BOOLEAN /\ pc \in Required(obj.gen)
    BY <1>t, <2>1, SpecTypes, PcTypes DEF BaseInv, CopyInv
  <2>3. pc' \in Required(obj.gen) \cup {"computeReady"}
    BY <2>1, <2>2, AfterApply, FollowingRequired
  <2> QED BY <2>3, PcTypes DEF Required
<1>5. CASE /\ pc = "deleteSecret" /\ UNCHANGED <<obj, object>>
           /\ secret' = [secret EXCEPT ![SpecOf(obj.gen).secret] = "none"]
  <2>1. SpecOf(obj.gen).secret \in Secrets /\ UNCHANGED specs
    BY <1>t, <1>5, SpecTypes DEF BaseInv, CopyInv, object
  <2> QED BY <1>t, <1>5, <2>1 DEF SpecOf
<1>6. CASE Outside
  <2>1. /\ pc = "removeFinalizer" /\ obj' = obj
        /\ specs'[obj.gen] = specs[obj.gen] /\ obj.gen \in 1..Len(specs)
    BY <1>6, NumberingStep DEF Outside, BaseInv, CopyInv
  <2>2. Stored(hs).life # "live"
    BY <2>1 DEF DeletionInv, Past
  <2> DEFINE s == SpecOf(obj.gen).secret
  <2>3. s \in Secrets /\ (secret[s] # "sidecar" \/ s \in late)
    BY <1>t, <2>1, SpecTypes DEF SecretInv, SpecOf
  <2>4. secret'[s] # "sidecar" \/ s \in late'
    BY <2>2, <2>3, LateSecret
  <2> QED BY <2>1, <2>4 DEF SpecOf
<1> QED BY <1>t, <1>1, <1>2, <1>3, <1>4, <1>5, <1>6, PassEvolution DEF GoesOn

\* An object that is gone stays as it is, and was deleted properly.
LEMMA GoneStep ==
  ASSUME BaseInv, DeletionInv, SecretInv, [Next]_vars
  PROVE  SecretDeleted'
<1>t. /\ TypeOK /\ hs \in History(Object) /\ Stored(hs) \in Object /\ obj \in Object
      /\ secret \in [Secrets -> Writers] /\ Stored(hs).gen = Len(specs)
      /\ Len(specs) \in Nat
  BY ValueTypes, SpecTypes DEF BaseInv, TypeOK
<1>f. fresh => pc # "idle" /\ obj = Stored(hs) /\ obj.life \in {"live", "deleting"}
               /\ obj.gen \in 1..Len(specs)
  BY DEF BaseInv, CopyInv, Exists
<1> SUFFICES ASSUME Stored(hs').life = "gone", NEW s \in Secrets, secret'[s] = "sidecar"
             PROVE  \/ s \in late'
                    \/ ~specs'[Stored(hs').gen].manage
                    \/ specs'[Stored(hs').gen].secret # s
  BY DEF SecretDeleted, SpecOf, Stored
<1>1. CASE Stored(hs) \notin Guarded
  <2>1. CASE UNCHANGED secret
    BY <1>1, <2>1 DEF SecretInv
  <2>2. CASE ~UNCHANGED secret
    BY <1>1, <1>t, <2>2, SecretEvolution DEF SecretsEvolve, SecretInv
  <2> QED BY <2>1, <2>2
<1>2. CASE Stored(hs') = Stored(hs) /\ UNCHANGED specs
  <2>1. CASE s \in late \/ secret[s] # "sidecar"
    BY <1>2, <2>1, LateSecret
  <2>2. CASE secret[s] = "sidecar" /\ s \notin late
    BY <1>2, <2>2 DEF SecretInv, SecretDeleted, SpecOf
  <2> QED BY <2>1, <2>2
<1>3. ASSUME NEW o \in Object, hs' = Written(hs, o), NewVersion(o)
      PROVE  \/ Stored(hs) \notin Guarded
             \/ /\ pc = "removeFinalizer" /\ o = Removed(obj) /\ fresh
                /\ UNCHANGED specs
             \/ o.life = Stored(hs).life /\ UNCHANGED specs
             \/ o.life # "gone"
  <2>1. CASE /\ UNCHANGED specs /\ fresh
             /\ \/ pc = "addFinalizer" /\ o = WithFinalizer(obj)
                \/ pc = "removeFinalizer" /\ o = Removed(obj)
    BY <1>t, <1>f, <2>1 DEF WithFinalizer, Object
  <2>2. CASE UNCHANGED specs /\ o = Patched
    BY <1>t, <2>2 DEF Patched, Object
  <2>3. CASE CreateHeadscale /\ o = [Absent EXCEPT !.life = "live", !.gen = 1]
    BY <2>3 DEF Absent
  <2>4. CASE EditSpec /\ o = [Stored(hs) EXCEPT !.gen = @ + 1]
    BY <1>t, <2>4 DEF EditSpec, Exists, Object
  <2>5. CASE /\ DeleteHeadscale
             /\ o = IF Stored(hs).finalizer THEN [Stored(hs) EXCEPT !.life = "deleting"]
                    ELSE Removed(Stored(hs))
    <3>1. Stored(hs).finalizer => o.life # "gone"
      BY <1>t, <2>5 DEF Object
    <3>2. ~Stored(hs).finalizer => Stored(hs) \notin Guarded
      BY <2>5 DEF DeleteHeadscale, Guarded
    <3> QED BY <3>1, <3>2
  <2> QED BY <1>3, <2>1, <2>2, <2>3, <2>4, <2>5 DEF NewVersion
<1>4. ASSUME NEW o \in Object, hs' = Written(hs, o), NewVersion(o)
      PROVE  \/ s \in late'
             \/ ~specs'[Stored(hs').gen].manage
             \/ specs'[Stored(hs').gen].secret # s
  <2>1. Stored(hs') = o /\ o.life = "gone"
    BY <1>t, <1>4, WrittenVersions
  <2>2. CASE pc = "removeFinalizer" /\ o = Removed(obj) /\ fresh /\ UNCHANGED specs
    <3>1. o.gen = obj.gen
      BY <1>t, <2>2 DEF Removed, Object
    <3>2. CASE s = SpecOf(obj.gen).secret /\ SpecOf(obj.gen).manage
      <4>1. secret[s] # "sidecar" \/ s \in late
        BY <2>2, <3>2 DEF SecretInv
      <4>2. Stored(hs).life # "live"
        BY <2>2 DEF DeletionInv, Past
      <4> QED BY <4>1, <4>2, LateSecret
    <3> QED BY <2>1, <2>2, <3>1, <3>2 DEF SpecOf
  <2>3. CASE o.life = Stored(hs).life /\ UNCHANGED specs
    <3>1. o.gen = Stored(hs).gen
      BY <1>t, <2>1, <2>3, NumberingStep
    <3>2. CASE s \in late \/ secret[s] # "sidecar"
      BY <2>1, <2>3, <3>2, LateSecret
    <3>3. CASE secret[s] = "sidecar" /\ s \notin late
      BY <2>1, <2>3, <3>1, <3>3 DEF SecretInv, SecretDeleted, SpecOf
    <3> QED BY <3>2, <3>3
  <2> QED BY <1>1, <1>3, <1>4, <2>1, <2>2, <2>3
<1>5. CASE \/ UNCHANGED object
           \/ Lag(hs) > 0 /\ hs' = Delivered(hs) /\ UNCHANGED specs
           \/ hs' = Relisted(hs) /\ UNCHANGED specs
  <2>1. Stored(hs') = Stored(hs) /\ UNCHANGED specs
    BY <1>t, <1>5, DeliveredVersions, RelistedVersions DEF object
  <2> QED BY <1>2, <2>1
<1> QED BY <1>t, <1>4, <1>5, ObjectEvolution DEF ObjectEvolves


\* What the theorems on deletion rest on.
RetiredInv == BaseInv /\ DeletionInv /\ SecretInv

\* It holds at first.
LEMMA RetiredInit ==
  ASSUME Init
  PROVE  RetiredInv
<1>1. BaseInv
  BY BaseInit
<1>2. /\ Absent.life = "none" /\ NoStatefulSet.gen = 0 /\ NoPod.state = "none"
  BY DEF Absent, NoStatefulSet, NoPod
<1>3. /\ Stored(hs) = Absent /\ Stored(sts) = NoStatefulSet
      /\ Len(hs) = 1 /\ Versions(hs) = {Absent} /\ pc = "idle" /\ marked = 0
      /\ pod = NoPod /\ child = [k \in Others |-> 0]
      /\ secret = [s \in Secrets |-> "none"]
  <2>1. 1..1 = {1}
    OBVIOUS
  <2> QED BY <2>1 DEF Init, Stored, Versions
<1>4. \A k \in Kinds : Applied(k) = 0
  BY <1>2, <1>3 DEF Applied, Current, Others
<1>5. DeletionInv
  BY <1>2, <1>3, PcTypes DEF DeletionInv, Lasting, Past
<1>6. SecretInv
  BY <1>2, <1>3, <1>4 DEF SecretInv, SecretDeleted
<1> QED BY <1>1, <1>5, <1>6 DEF RetiredInv

\* It is an invariant.
LEMMA RetiredSafe == Spec => []RetiredInv
<1>1. Init => RetiredInv
  BY RetiredInit
<1>2. ASSUME RetiredInv, [Next]_vars PROVE RetiredInv'
  <2>1. BaseInv' /\ DeletionInv' /\ SecretDeleted'
    BY <1>2, BaseStep, DeletionStep, GoneStep DEF RetiredInv
  <2>2. Stored(hs') \notin Guarded =>
          /\ \A k \in Kinds : AppliedNext(k) = 0
          /\ pod'.state = "none" /\ \A s \in Secrets : secret'[s] # "sidecar"
    BY <1>2, UnguardedStep DEF RetiredInv
  <2>3. pc' = "removeFinalizer" /\ specs'[obj'.gen].manage =>
          LET s == specs'[obj'.gen].secret IN secret'[s] # "sidecar" \/ s \in late'
    BY <1>2, RemovalStep DEF RetiredInv
  <2>4. SecretInv'
    BY <2>1, <2>2, <2>3 DEF SecretInv, Stored, Applied, AppliedNext, Current, SpecOf
  <2> QED BY <2>1, <2>4 DEF RetiredInv
<1> QED BY <1>1, <1>2, PTL DEF Spec

\* Once the object is gone, a Secret the sidecar wrote before the deletion began is
\* gone too, unless the user had given it up (handleDeletion).
THEOREM DeletionSafe == Spec => []SecretDeleted
<1>1. RetiredInv => SecretDeleted
  BY DEF RetiredInv, SecretInv
<1> QED BY <1>1, RetiredSafe, PTL

\* The operator deletes no Secret but the one that the spec managed when the deletion
\* began or since (handleDeletion).
THEOREM ManagedSafe == Spec => DeletesOnlyManagedSecret
<1>1. ASSUME RetiredInv, [Next]_vars, NEW s \in Secrets,
             secret[s] # "none", secret'[s] = "none"
      PROVE  /\ marked # 0
             /\ \E g \in marked..Len(specs) : SpecOf(g).manage /\ SpecOf(g).secret = s
  <2>1. /\ TypeOK /\ hs \in History(Object) /\ secret \in [Secrets -> Writers]
        /\ marked \in Nat /\ Len(specs) \in Nat
    BY <1>1, SpecTypes DEF RetiredInv, BaseInv, TypeOK
  <2>2. pc = "deleteSecret" /\ SpecOf(obj.gen).secret = s
    BY <1>1, <2>1, SecretEvolution DEF SecretsEvolve
  <2>3. /\ Stored(hs) \in Past /\ marked <= obj.gen /\ SpecOf(obj.gen).manage
    BY <1>1, <2>2 DEF RetiredInv, DeletionInv
  <2>4. marked # 0
    BY <1>1, <2>1, <2>3, EndVersions DEF RetiredInv, DeletionInv
  <2>5. obj.gen \in marked..Len(specs)
    BY <1>1, <2>1, <2>2, <2>3 DEF RetiredInv, BaseInv, CopyInv
  <2> QED BY <2>2, <2>3, <2>4, <2>5
<1>2. RetiredInv /\ [Next]_vars =>
        [\A s \in Secrets :
           secret[s] # "none" /\ secret'[s] = "none" =>
             /\ marked # 0
             /\ \E g \in marked..Len(specs) : SpecOf(g).manage /\ SpecOf(g).secret = s]_vars
  BY <1>1
<1> QED BY <1>2, RetiredSafe, PTL DEF Spec, DeletesOnlyManagedSecret
=============================================================================
