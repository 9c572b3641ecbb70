--------------------- MODULE HeadscaleAutoApproverProofs ---------------------
(***************************************************************************)
(* Theorems about HeadscaleAutoApprover, for any objects and Headscales,   *)
(* any staleness of the cache and any bounds.                              *)
(***************************************************************************)
EXTENDS HeadscaleAutoApprover, KubeObjectProofs

-----------------------------------------------------------------------------
(* What a step does to the versions of an object.                          *)

\* The versions that are ever written: by the worker, from a copy that is still
\* the latest or, with the patch, from the stored version, and by people.
NewVersion(a, o) ==
  LET st == Stored(approver[a]) IN
  \/ /\ cur = a
     /\ \/ pc = "addFinalizer" /\ pc' # pc /\ fresh /\ o = WithFinalizer(obj)
        \/ pc = "removeFinalizer" /\ pc' # pc /\ fresh /\ o = Removed(obj, "finalized")
        \/ pc = "patch" /\ pc' # pc /\ Exists(st) /\ o = WithReady(st, cond, obj.gen)
  \/ st.life = "none" /\ UNCHANGED <<worker, policy, ghosts>>
     /\ \E h \in Headscales : o = [Absent EXCEPT !.life = "live", !.gen = 1, !.ref = h]
  \/ /\ Exists(st) /\ (fresh' => cur # a)
     /\ UNCHANGED <<pc, cur, obj, doc, cond, policy, lost>>
     /\ \/ \E h \in Headscales :
             /\ o = [st EXCEPT !.gen = @ + 1, !.ref = h]
             /\ left' = IF h # st.ref THEN left \cup {<<st.ref, a>>} ELSE left
        \/ o = st /\ UNCHANGED left
        \/ /\ st.life = "live" /\ UNCHANGED left
           /\ o = IF st.finalizer THEN [st EXCEPT !.life = "deleting"]
                  ELSE Removed(st, "gone")

\* One object at a time gets one.
ObjectsEvolve ==
  \/ UNCHANGED approver
  \/ \E a \in Approvers :
       /\ Lag(approver[a]) > 0
       /\ approver' = [approver EXCEPT ![a] = Delivered(approver[a])]
  \/ approver' = [a \in Approvers |-> Relisted(approver[a])] /\ pc' = "idle"
  \/ \E a \in Approvers, o \in Object :
       /\ approver' = [approver EXCEPT ![a] = Written(approver[a], o)]
       /\ NewVersion(a, o)

\* The values that are written.
LEMMA ValueTypes ==
  ASSUME TypeOK
  PROVE  /\ obj \in Object /\ cond \in Reasons /\ Absent \in Object
         /\ WithFinalizer(obj) \in Object /\ Removed(obj, "finalized") \in Object
         /\ \A a \in Approvers :
              /\ approver[a] \in History(Object)
              /\ Stored(approver[a]) \in Object /\ Observed(approver[a]) \in Object
              /\ WithReady(Stored(approver[a]), cond, obj.gen) \in Object
              /\ [Stored(approver[a]) EXCEPT !.life = "deleting"] \in Object
              /\ Removed(Stored(approver[a]), "gone") \in Object
              /\ \A h \in Headscales :
                   [Stored(approver[a]) EXCEPT !.gen = @ + 1, !.ref = h] \in Object
         /\ \A h \in Headscales :
              [Absent EXCEPT !.life = "live", !.gen = 1, !.ref = h] \in Object
<1>1. obj \in Object /\ cond \in Reasons /\ Absent \in Object
  BY DEF TypeOK, Absent, Object, Lives, Reasons
<1>2. WithFinalizer(obj) \in Object /\ Removed(obj, "finalized") \in Object
  BY <1>1 DEF WithFinalizer, Removed, Object, Lives
<1>3. ASSUME NEW a \in Approvers
      PROVE  /\ approver[a] \in History(Object)
             /\ Stored(approver[a]) \in Object /\ Observed(approver[a]) \in Object
  <2>1. approver[a] \in History(Object)
    BY DEF TypeOK
  <2> QED BY <2>1, EndVersions
<1>4. ASSUME NEW s \in Object
      PROVE  /\ WithReady(s, cond, obj.gen) \in Object
             /\ [s EXCEPT !.life = "deleting"] \in Object
             /\ Removed(s, "gone") \in Object
             /\ \A h \in Headscales : [s EXCEPT !.gen = @ + 1, !.ref = h] \in Object
  <2>1. WithReady(s, cond, obj.gen) \in Object
    <3>1. obj.gen \in Nat
      BY <1>1 DEF Object
    <3>2. \A r \in Reasons, g \in Nat : WithReady(s, r, g) \in Object
      BY DEF WithReady, Object
    <3> QED BY <1>1, <3>1, <3>2
  <2>2. [s EXCEPT !.life = "deleting"] \in Object /\ Removed(s, "gone") \in Object
    BY DEF Removed, Object, Lives
  <2>3. \A h \in Headscales : [s EXCEPT !.gen = @ + 1, !.ref = h] \in Object
    <3>1. s.gen + 1 \in Nat
      BY DEF Object
    <3>2. \A h \in Headscales, g \in Nat : [s EXCEPT !.gen = g, !.ref = h] \in Object
      BY DEF Object
    <3> QED BY <3>1, <3>2
  <2> QED BY <2>1, <2>2, <2>3
<1>5. \A h \in Headscales :
        [Absent EXCEPT !.life = "live", !.gen = 1, !.ref = h] \in Object
  BY <1>1 DEF Absent, Object, Lives
<1> QED BY <1>1, <1>2, <1>3, <1>4, <1>5

\* A write of the worker's is one of its copy's object.
LEMMA CopyWritten ==
  ASSUME TypeOK, pc # "idle", NEW o \in Object, NewVersion(cur, o),
         approver' = approver \/ Store(cur, o)
  PROVE  ObjectsEvolve
BY DEF TypeOK, Store, ObjectsEvolve

\* Every version of an object is one of these.
LEMMA ObjectEvolution ==
  ASSUME TypeOK, [Next]_vars
  PROVE  ObjectsEvolve
<1>1. CASE AddFinalizer \/ AddFinalizerFails
  <2>1. /\ pc = "addFinalizer" /\ pc' # pc
        /\ UNCHANGED approver \/ (fresh /\ Store(cur, WithFinalizer(obj)))
    BY <1>1 DEF AddFinalizer, AddFinalizerFails, UpdateAccepted, UpdateFailed, Goto,
                Requeue, Forget
  <2>2. CASE fresh /\ Store(cur, WithFinalizer(obj))
    BY <2>1, <2>2, ValueTypes, CopyWritten DEF NewVersion
  <2> QED BY <2>1, <2>2 DEF ObjectsEvolve
<1>2. CASE RemoveFinalizer \/ RemoveFinalizerFails
  <2>1. /\ pc = "removeFinalizer" /\ pc' = "idle"
        /\ UNCHANGED approver \/ (fresh /\ Store(cur, Removed(obj, "finalized")))
    BY <1>2 DEF RemoveFinalizer, RemoveFinalizerFails, UpdateAccepted, UpdateFailed,
                Finish, Requeue, Forget
  <2>2. CASE fresh /\ Store(cur, Removed(obj, "finalized"))
    BY <2>1, <2>2, ValueTypes, CopyWritten DEF NewVersion
  <2> QED BY <2>1, <2>2 DEF ObjectsEvolve
<1>3. CASE SetCondition \/ SetConditionFails
  <2>1. pc = "patch" /\ pc' = "idle" /\ (UNCHANGED approver \/ PatchAccepted)
    BY <1>3 DEF SetCondition, SetConditionFails, AfterReport, Finish, Requeue, Forget
  <2>2. CASE PatchAccepted
    <3> DEFINE o == WithReady(Stored(approver[cur]), cond, obj.gen)
    <3>1. cur \in Approvers
      BY <2>1 DEF TypeOK
    <3>2. o \in Object /\ Exists(Stored(approver[cur])) /\ Store(cur, o)
      BY <2>2, <3>1, ValueTypes DEF PatchAccepted
    <3>3. NewVersion(cur, o)
      BY <2>1, <3>2 DEF NewVersion
    <3> QED BY <2>1, <3>2, <3>3, CopyWritten
  <2> QED BY <2>1, <2>2 DEF ObjectsEvolve
<1>4. ASSUME NEW a \in Approvers, NEW o \in Object, Store(a, o), NewVersion(a, o)
      PROVE  ObjectsEvolve
  BY <1>4 DEF Store, ObjectsEvolve
<1>5. ASSUME NEW a \in Approvers, CreateObject(a) PROVE ObjectsEvolve
  <2>1. PICK h \in Headscales :
          Store(a, [Absent EXCEPT !.life = "live", !.gen = 1, !.ref = h])
    BY <1>5 DEF CreateObject
  <2> DEFINE o == [Absent EXCEPT !.life = "live", !.gen = 1, !.ref = h]
  <2>2. o \in Object
    BY ValueTypes
  <2>3. NewVersion(a, o)
    BY <1>5 DEF CreateObject, NewVersion
  <2> QED BY <1>4, <2>1, <2>2, <2>3
<1>6. ASSUME NEW a \in Approvers, NEW h \in Headscales, EditSpec(a, h) PROVE ObjectsEvolve
  <2> DEFINE o == [Stored(approver[a]) EXCEPT !.gen = @ + 1, !.ref = h]
  <2>1. o \in Object
    BY ValueTypes
  <2>2. NewVersion(a, o)
    BY <1>6 DEF EditSpec, Outdate, NewVersion
  <2>3. Store(a, o)
    BY <1>6 DEF EditSpec
  <2> QED BY <1>4, <2>1, <2>2, <2>3
<1>7. ASSUME NEW a \in Approvers, EditMetadata(a) PROVE ObjectsEvolve
  <2>1. NewVersion(a, Stored(approver[a])) /\ Store(a, Stored(approver[a]))
    BY <1>7 DEF EditMetadata, Outdate, ghosts, NewVersion
  <2> QED BY <1>4, <2>1, ValueTypes
<1>8. ASSUME NEW a \in Approvers, DeleteObject(a) PROVE ObjectsEvolve
  <2> DEFINE o == IF Stored(approver[a]).finalizer
                  THEN [Stored(approver[a]) EXCEPT !.life = "deleting"]
                  ELSE Removed(Stored(approver[a]), "gone")
  <2>1. o \in Object
    BY ValueTypes
  <2>2. NewVersion(a, o) /\ Store(a, o)
    BY <1>8 DEF DeleteObject, Outdate, ghosts, Exists, NewVersion
  <2> QED BY <1>4, <2>1, <2>2
<1>9. ASSUME NEW a \in Approvers, Deliver(a) PROVE ObjectsEvolve
  BY <1>9 DEF Deliver, ObjectsEvolve
<1>10. CASE Crash
  BY <1>10 DEF Crash, Forget, ObjectsEvolve
<1>11. CASE \/ \E a \in Approvers : Reconcile(a)
            \/ GetHeadscale \/ GetHeadscaleFails \/ Collect \/ CollectFails
            \/ Push \/ PushFails
            \/ \E h \in Headscales :
                 \/ DeliverHeadscale(h) \/ DeliverHeadscaleFails(h) \/ LosePolicy(h)
                 \/ \E exists, spec : ChangeHeadscale(h, exists, spec)
            \/ UNCHANGED vars
  BY <1>11 DEF Reconcile, GetHeadscale, GetHeadscaleFails, Collect, CollectFails, Push,
               PushFails, DeliverHeadscale, DeliverHeadscaleFails, ChangeHeadscale,
               LosePolicy, kube, vars, ObjectsEvolve
<1> QED BY <1>1, <1>2, <1>3, <1>5, <1>6, <1>7, <1>8, <1>9, <1>10, <1>11
        DEF Next, Step, Environment


\* The same for one object.
VersionsEvolve(a) ==
  \/ approver'[a] = approver[a]
  \/ Lag(approver[a]) > 0 /\ approver'[a] = Delivered(approver[a])
  \/ approver'[a] = Relisted(approver[a]) /\ pc' = "idle"
  \/ \E o \in Object : approver'[a] = Written(approver[a], o) /\ NewVersion(a, o)

\* Each object evolves like that.
LEMMA VersionsEvolution ==
  ASSUME TypeOK, [Next]_vars
  PROVE  /\ approver' \in [Approvers -> History(Object)]
         /\ \A a \in Approvers : VersionsEvolve(a)
<1>t. approver \in [Approvers -> History(Object)]
  BY DEF TypeOK
<1>1. CASE UNCHANGED approver
  BY <1>1, <1>t DEF VersionsEvolve
<1>2. ASSUME NEW a \in Approvers, Lag(approver[a]) > 0,
             approver' = [approver EXCEPT ![a] = Delivered(approver[a])]
      PROVE  /\ approver' \in [Approvers -> History(Object)]
             /\ \A b \in Approvers : VersionsEvolve(b)
  <2>1. Delivered(approver[a]) \in History(Object)
    BY <1>t, <1>2, DeliveredHistory
  <2> QED BY <1>2, <1>t, <2>1 DEF VersionsEvolve
<1>3. CASE approver' = [a \in Approvers |-> Relisted(approver[a])] /\ pc' = "idle"
  BY <1>3, <1>t, RelistedHistory DEF VersionsEvolve
<1>4. ASSUME NEW a \in Approvers, NEW o \in Object, NewVersion(a, o),
             approver' = [approver EXCEPT ![a] = Written(approver[a], o)]
      PROVE  /\ approver' \in [Approvers -> History(Object)]
             /\ \A b \in Approvers : VersionsEvolve(b)
  <2>1. Written(approver[a], o) \in History(Object)
    BY <1>t, <1>4, WrittenHistory
  <2>2. VersionsEvolve(a)
    BY <1>4, <1>t DEF VersionsEvolve
  <2>3. \A b \in Approvers \ {a} : VersionsEvolve(b)
    BY <1>4, <1>t DEF VersionsEvolve
  <2> QED BY <1>4, <1>t, <2>1, <2>2, <2>3
<1> QED BY <1>1, <1>2, <1>3, <1>4, ObjectEvolution DEF ObjectsEvolve

-----------------------------------------------------------------------------
(* What a step does to the pass of the worker.                             *)

\* A pass begins on what the cache shows.
Begins ==
  /\ pc = "idle" /\ UNCHANGED <<kube, policy, ghosts, view, doc, cond>>
  /\ \E a \in Approvers :
       /\ cur' = a /\ obj' = Observed(approver[a]) /\ fresh' = InSync(approver[a])
       /\ Exists(obj') /\ pc' = FirstCall(obj') /\ pc' # "idle"

\* It ends, and nothing of it is kept.
Ends == Forget /\ UNCHANGED <<policy, ghosts>>

\* It goes on without a push, or after one that failed.
GivesUp ==
  /\ UNCHANGED <<kube, fresh, cur>>
  /\ \/ pc \in {"getHeadscale", "collect", "push"} /\ UNCHANGED policy
     \/ pc = "push" /\ SetPolicy
  /\ \E reason \in {"Unset"} \cup FailureReasons : WithoutPush(reason)

\* It has found the Headscale.
Finds ==
  /\ pc = "getHeadscale" /\ pc' = "collect"
  /\ \E h \in Headscales : view' = Observed(headscale[h])
  /\ UNCHANGED <<kube, policy, ghosts, cur, obj, fresh, doc, cond>>

\* It has rendered the policy.
Renders ==
  /\ pc = "collect" /\ pc' = "push" /\ doc' = Rendered
  /\ UNCHANGED <<kube, policy, ghosts, cur, obj, fresh, view, cond>>

\* The copy may become outdated.
Ages == fresh' \in BOOLEAN /\ (fresh' => fresh)

\* What happens around it.
Outside ==
  /\ UNCHANGED <<pc, cur, obj, view, doc, cond>> /\ Ages
  /\ \/ UNCHANGED <<policy, lost, left>>
     \/ UNCHANGED <<policy, lost>> /\ \E a \in Approvers, h \in Headscales : EditSpec(a, h)
     \/ UNCHANGED <<approver, fresh, left>>
        /\ \E h \in Headscales :
             policy' = [policy EXCEPT ![h] = NoPolicy] /\ lost' = lost \cup {h}

\* A pass takes its calls in this order.
LEMMA PassEvolution ==
  ASSUME TypeOK, [Next]_vars
  PROVE  Begins \/ Ends \/ AddFinalizer \/ GivesUp \/ Finds \/ Renders \/ Push \/ Outside
<1>a. UNCHANGED fresh => Ages
  BY DEF TypeOK, Ages
<1>b. \A a : Outdate(a) => Ages
  BY DEF Outdate, Ages
<1>1. ASSUME NEW a \in Approvers, Reconcile(a) PROVE Begins \/ Outside
  <2>1. CASE UNCHANGED worker
    BY <1>a, <1>1, <2>1 DEF Reconcile, Outside, worker, ghosts
  <2>2. CASE ~UNCHANGED worker
    BY <1>1, <2>2 DEF Reconcile, worker, ghosts, Begins
  <2> QED BY <2>1, <2>2
<1>2. CASE \/ AddFinalizerFails \/ SetCondition \/ SetConditionFails
           \/ RemoveFinalizer \/ RemoveFinalizerFails \/ Crash
  BY <1>2 DEF AddFinalizerFails, SetCondition, AfterReport, SetConditionFails,
              RemoveFinalizer, RemoveFinalizerFails, Crash, Finish, Requeue, Ends
<1>3. CASE GetHeadscale
  <2>1. CASE WithoutPush("HeadscaleNotFound") \/ WithoutPush("PolicyModeUnsupported")
    BY <1>3, <2>1 DEF GetHeadscale, WithoutPush, Goto, Report, kube, GivesUp,
                      FailureReasons
  <2>2. CASE view' = Observed(headscale[obj.ref]) /\ Goto("collect")
             /\ UNCHANGED <<obj, doc, ghosts>>
    <3>1. pc = "getHeadscale" /\ obj.ref \in Headscales
      BY <1>3 DEF GetHeadscale, TypeOK
    <3> QED BY <1>3, <2>2, <3>1 DEF GetHeadscale, Goto, Finds
  <2> QED BY <1>3, <2>1, <2>2 DEF GetHeadscale
<1>4. CASE GetHeadscaleFails
  <2>1. CASE WithoutPush("Unset")
    BY <1>4, <2>1 DEF GetHeadscaleFails, WithoutPush, Goto, Report, kube, GivesUp
  <2>2. CASE Requeue /\ UNCHANGED ghosts
    BY <1>4, <2>2 DEF GetHeadscaleFails, Requeue, Ends
  <2> QED BY <1>4, <2>1, <2>2 DEF GetHeadscaleFails
<1>5. CASE Collect \/ CollectFails
  <2>1. CASE AfterPushError
    BY <1>5, <2>1 DEF Collect, CollectFails, AfterPushError, WithoutPush, Goto, Report,
                      kube, GivesUp, FailureReasons
  <2>2. CASE Collect /\ doc' = Rendered /\ Goto("push") /\ UNCHANGED <<obj, view, ghosts>>
    BY <2>2 DEF Collect, Goto, Renders
  <2> QED BY <1>5, <2>1, <2>2 DEF Collect, CollectFails
<1>6. CASE PushFails
  BY <1>6 DEF PushFails, AfterPushError, WithoutPush, Goto, Report, kube, GivesUp,
              FailureReasons
<1>7. ASSUME NEW h \in Headscales, LosePolicy(h) PROVE Outside
  BY <1>a, <1>7 DEF LosePolicy, Outside, worker, kube
<1>8. ASSUME NEW h \in Headscales, NEW a \in Approvers, EditSpec(a, h) PROVE Outside
  <2>1. Ages
    BY <1>b, <1>8 DEF EditSpec
  <2> QED BY <1>8, <2>1 DEF EditSpec, Outdate, Outside
<1>9. CASE \/ \E a \in Approvers :
                Deliver(a) \/ CreateObject(a) \/ EditMetadata(a) \/ DeleteObject(a)
           \/ \E h \in Headscales :
                \/ DeliverHeadscale(h) \/ DeliverHeadscaleFails(h)
                \/ \E exists, spec : ChangeHeadscale(h, exists, spec)
           \/ UNCHANGED vars
  <2>1. Ages
    BY <1>a, <1>b, <1>9 DEF Deliver, CreateObject, EditMetadata, DeleteObject,
       DeliverHeadscale, DeliverHeadscaleFails, ChangeHeadscale, vars, worker
  <2> QED BY <1>9, <2>1 DEF Deliver, CreateObject, EditMetadata, DeleteObject, Outdate,
         DeliverHeadscale, DeliverHeadscaleFails, ChangeHeadscale, vars, worker, ghosts,
         Outside
<1> QED BY <1>1, <1>2, <1>3, <1>4, <1>5, <1>6, <1>7, <1>8, <1>9
        DEF Next, Step, Environment

-----------------------------------------------------------------------------
(* What the versions of an object have in common.                          *)

AtLeast(n) == {v \in Object : v.gen >= n}
Past == {v \in Object : v.life \in {"deleting", "finalized", "gone"}}

NumberedVersion(v) ==
  /\ v.life = "none" <=> v.gen = 0
  /\ v.life # "none" => v.ref \in Headscales
  /\ v.seen <= v.gen

\* Generations only grow, and each has one spec.
Numbered(h) ==
  /\ \A v \in Versions(h) : NumberedVersion(v)
  /\ \A v, w \in Versions(h) : v.gen = w.gen => v.ref = w.ref
  /\ \A n \in Nat : Lasting(h, AtLeast(n))
  /\ Lasting(h, Past)

VersionsInv == \A a \in Approvers : Numbered(approver[a])

\* What the worker holds is an object that is there, as the cache had it.
CopyInv ==
  /\ pc # "idle" =>
       /\ Exists(obj) /\ obj.gen > 0
       /\ obj.gen <= Observed(approver[cur]).gen
       /\ obj \in Past => Observed(approver[cur]) \in Past
       /\ \A v \in Versions(approver[cur]) : v.gen = obj.gen => v.ref = obj.ref
  /\ fresh => pc # "idle" /\ obj = Stored(approver[cur])
  /\ pc \in {"addFinalizer", "patch"} => obj.life = "live"
  /\ pc = "removeFinalizer" => obj.life = "deleting"

BaseInv == TypeOK /\ VersionsInv /\ CopyInv

\* The cache has the lowest generation in sight and the server the highest;
\* nothing returns from deletion.
LEMMA NumberedOrder ==
  ASSUME NEW h \in History(Object), Numbered(h), NEW v \in Versions(h)
  PROVE  /\ v \in Object /\ Observed(h) \in Object /\ Stored(h) \in Object
         /\ Observed(h).gen <= v.gen /\ v.gen <= Stored(h).gen
         /\ Observed(h) \in Past => v \in Past
         /\ v \in Past => Stored(h) \in Past
<1>1. PICK i \in 1..Len(h) : v = h[i]
  BY DEF Versions
<1>2. /\ Len(h) \in Nat /\ 1 \in 1..Len(h) /\ Len(h) \in 1..Len(h)
      /\ 1 <= i /\ i <= Len(h)
  BY <1>1 DEF History
<1>3. v \in Object /\ h[1] \in Object /\ h[Len(h)] \in Object
  BY <1>1, <1>2 DEF History
<1>4. v.gen \in Nat /\ h[1].gen \in Nat /\ h[Len(h)].gen \in Nat
  BY <1>3 DEF Object
<1>5. v \in AtLeast(h[1].gen)
  <2>1. h[1] \in AtLeast(h[1].gen)
    BY <1>3, <1>4 DEF AtLeast
  <2>2. Lasting(h, AtLeast(h[1].gen))
    BY <1>4 DEF Numbered
  <2> QED BY <1>1, <1>2, <2>1, <2>2 DEF Lasting
<1>6. h[Len(h)] \in AtLeast(v.gen)
  <2>1. v \in AtLeast(v.gen)
    BY <1>3, <1>4 DEF AtLeast
  <2>2. Lasting(h, AtLeast(v.gen))
    BY <1>4 DEF Numbered
  <2> QED BY <1>1, <1>2, <2>1, <2>2 DEF Lasting
<1>7. (h[1] \in Past => v \in Past) /\ (v \in Past => h[Len(h)] \in Past)
  BY <1>1, <1>2 DEF Numbered, Lasting
<1> QED BY <1>3, <1>5, <1>6, <1>7 DEF AtLeast, Observed, Stored

\* A version that follows the stored one in its numbers.
Follows(h, o) ==
  /\ NumberedVersion(o) /\ o.life # "none"
  /\ o.gen = Stored(h).gen + 1 \/ (o.gen = Stored(h).gen /\ o.ref = Stored(h).ref)
  /\ Stored(h) \in Past => o \in Past

\* Every version that is written does.
LEMMA NewVersionFollows ==
  ASSUME BaseInv, NEW a \in Approvers, NEW o \in Object, NewVersion(a, o)
  PROVE  Follows(approver[a], o)
<1> DEFINE st == Stored(approver[a])
<1>1. /\ st \in Object /\ Observed(approver[a]) \in Object
      /\ Observed(approver[a]).gen <= st.gen
      /\ NumberedVersion(st) /\ obj \in Object /\ cond \in Reasons
  BY ValueTypes, EndVersions, NumberedOrder DEF BaseInv, VersionsInv, Numbered
<1>2. st.gen \in Nat /\ obj.gen \in Nat /\ st.seen \in Nat
      /\ Observed(approver[a]).gen \in Nat
  BY <1>1 DEF Object
<1>3. CASE cur = a /\ pc = "addFinalizer" /\ fresh /\ o = WithFinalizer(obj)
  <2>1. obj = st
    BY <1>3 DEF BaseInv, CopyInv
  <2>2. o.life = "live" /\ o.gen = st.gen /\ o.ref = st.ref /\ o.seen = st.seen
        /\ st.life = "live"
    BY <1>1, <1>3, <2>1 DEF BaseInv, CopyInv, WithFinalizer, Object
  <2> QED BY <1>1, <2>2 DEF Follows, NumberedVersion, Past
<1>4. CASE cur = a /\ pc = "removeFinalizer" /\ fresh /\ o = Removed(obj, "finalized")
  <2>1. obj = st
    BY <1>4 DEF BaseInv, CopyInv
  <2>2. o.life = "finalized" /\ o.gen = st.gen /\ o.ref = st.ref /\ o.seen = st.seen
        /\ st.life = "deleting"
    BY <1>1, <1>4, <2>1 DEF BaseInv, CopyInv, Removed, Object
  <2> QED BY <1>1, <2>2 DEF Follows, NumberedVersion, Past
<1>5. CASE cur = a /\ pc = "patch" /\ Exists(st) /\ o = WithReady(st, cond, obj.gen)
  <2>1. /\ o.life = st.life /\ o.gen = st.gen /\ o.ref = st.ref /\ o.seen = obj.gen
        /\ st.life # "none"
    BY <1>1, <1>2, <1>5 DEF WithReady, Object, Exists
  <2>2. obj.gen <= st.gen
    BY <1>1, <1>2, <1>5 DEF BaseInv, CopyInv
  <2> QED BY <1>1, <2>1, <2>2 DEF Follows, NumberedVersion, Past
<1>6. CASE /\ st.life = "none"
           /\ \E h \in Headscales : o = [Absent EXCEPT !.life = "live", !.gen = 1, !.ref = h]
  <2>1. o.life = "live" /\ o.gen = 1 /\ o.ref \in Headscales /\ o.seen = 0 /\ st.gen = 0
    BY <1>1, <1>6 DEF Absent, NumberedVersion
  <2> QED BY <1>6, <2>1 DEF Follows, NumberedVersion, Past
<1>7. CASE /\ Exists(st)
           /\ \E h \in Headscales : o = [st EXCEPT !.gen = @ + 1, !.ref = h]
  <2>1. /\ o.life = st.life /\ o.gen = st.gen + 1 /\ o.ref \in Headscales
        /\ o.seen = st.seen /\ st.life # "none"
    BY <1>1, <1>7 DEF Object, Exists
  <2> QED BY <1>1, <1>2, <2>1 DEF Follows, NumberedVersion, Past
<1>8. CASE Exists(st) /\ o = st
  BY <1>1, <1>8 DEF Follows, Exists
<1>9. CASE /\ st.life = "live"
           /\ o = IF st.finalizer THEN [st EXCEPT !.life = "deleting"]
                  ELSE Removed(st, "gone")
  <2>1. /\ o.life \in {"deleting", "gone"} /\ o.gen = st.gen /\ o.ref = st.ref
        /\ o.seen = st.seen
    BY <1>1, <1>9 DEF Removed, Object
  <2> QED BY <1>1, <1>9, <2>1 DEF Follows, NumberedVersion, Past
<1> QED BY <1>3, <1>4, <1>5, <1>6, <1>7, <1>8, <1>9 DEF NewVersion

\* A version that follows keeps the versions numbered.
LEMMA FollowsNumbered ==
  ASSUME NEW h \in History(Object), Numbered(h), NEW o \in Object, Follows(h, o)
  PROVE  Numbered(Written(h, o))
<1>1. /\ Versions(Written(h, o)) = Versions(h) \cup {o}
      /\ Stored(h) \in Versions(h) /\ Versions(h) \subseteq Object
  BY WrittenVersions, EndVersions
<1>2. \A v \in Versions(Written(h, o)) : NumberedVersion(v)
  BY <1>1 DEF Numbered, Follows
<1>3. ASSUME NEW v \in Versions(h), v.gen = o.gen PROVE v.ref = o.ref
  <2>1. v.gen <= Stored(h).gen /\ v.gen \in Nat /\ Stored(h).gen \in Nat
    BY <1>1, NumberedOrder DEF Object
  <2>2. o.gen = Stored(h).gen /\ o.ref = Stored(h).ref
    BY <1>3, <2>1 DEF Follows
  <2> QED BY <1>1, <1>3, <2>2 DEF Numbered
<1>4. \A v, w \in Versions(Written(h, o)) : v.gen = w.gen => v.ref = w.ref
  BY <1>1, <1>3 DEF Numbered
<1>5. ASSUME NEW n \in Nat PROVE Lasting(Written(h, o), AtLeast(n))
  <2>1. Stored(h).gen \in Nat /\ o.gen \in Nat
    BY <1>1 DEF Object
  <2>2. Stored(h) \in AtLeast(n) => o \in AtLeast(n)
    BY <2>1 DEF AtLeast, Follows
  <2> QED BY <2>2, WrittenLasting DEF Numbered
<1>6. Lasting(Written(h, o), Past)
  BY WrittenLasting DEF Numbered, Follows
<1> QED BY <1>2, <1>4, <1>5, <1>6 DEF Numbered

\* Fewer versions in sight are numbered as well.
LEMMA FewerNumbered ==
  ASSUME NEW h \in History(Object), Numbered(h)
  PROVE  /\ Numbered(Relisted(h))
         /\ Lag(h) > 0 => Numbered(Delivered(h))
<1>1. Versions(Relisted(h)) \subseteq Versions(h)
  BY RelistedVersions, EndVersions
<1>2. Numbered(Relisted(h))
  BY <1>1, RelistedLasting DEF Numbered
<1>3. ASSUME Lag(h) > 0 PROVE Numbered(Delivered(h))
  BY <1>3, DeliveredVersions, DeliveredLasting DEF Numbered
<1> QED BY <1>2, <1>3

-----------------------------------------------------------------------------
(* The base invariant.                                                     *)

\* The versions in sight after a step: from the old ones, or one that follows.
Advances(a) ==
  /\ Observed(approver'[a]) \in Versions(approver[a])
  /\ \A v \in Versions(approver'[a]) :
       \/ v \in Versions(approver[a])
       \/ v = Stored(approver'[a]) /\ Follows(approver[a], v)

\* They stay numbered, and the cache moves forward.
LEMMA VersionsAdvance ==
  ASSUME BaseInv, [Next]_vars
  PROVE  VersionsInv' /\ \A a \in Approvers : Advances(a)
<1> SUFFICES ASSUME NEW a \in Approvers
             PROVE  Numbered(approver'[a]) /\ Advances(a)
  BY DEF VersionsInv
<1>1. /\ approver[a] \in History(Object) /\ Numbered(approver[a]) /\ VersionsEvolve(a)
      /\ Observed(approver[a]) \in Versions(approver[a])
      /\ Stored(approver[a]) \in Versions(approver[a])
  BY ValueTypes, EndVersions, VersionsEvolution DEF BaseInv, VersionsInv
<1>2. CASE approver'[a] = approver[a]
  BY <1>1, <1>2 DEF Advances
<1>3. CASE Lag(approver[a]) > 0 /\ approver'[a] = Delivered(approver[a])
  <2>1. Delivered(approver[a]) \in History(Object)
        /\ Versions(Delivered(approver[a])) \subseteq Versions(approver[a])
    BY <1>1, <1>3, DeliveredVersions
  <2>2. Observed(Delivered(approver[a])) \in Versions(Delivered(approver[a]))
    BY <2>1, EndVersions
  <2> QED BY <1>1, <1>3, <2>1, <2>2, FewerNumbered DEF Advances
<1>4. CASE approver'[a] = Relisted(approver[a])
  BY <1>1, <1>4, RelistedVersions, FewerNumbered DEF Advances
<1>5. ASSUME NEW o \in Object, approver'[a] = Written(approver[a], o), NewVersion(a, o)
      PROVE  Numbered(approver'[a]) /\ Advances(a)
  <2>1. Follows(approver[a], o)
    BY <1>5, NewVersionFollows
  <2>2. Numbered(Written(approver[a], o))
    BY <1>1, <2>1, FollowsNumbered
  <2>3. /\ Versions(Written(approver[a], o)) = Versions(approver[a]) \cup {o}
        /\ Observed(Written(approver[a], o)) = Observed(approver[a])
        /\ Stored(Written(approver[a], o)) = o
    BY <1>1, WrittenVersions
  <2> QED BY <1>1, <1>5, <2>1, <2>2, <2>3 DEF Advances
<1> QED BY <1>1, <1>2, <1>3, <1>4, <1>5 DEF VersionsEvolve

\* What the worker knows of an object stays true of its versions.
Known(h, o) ==
  /\ o.gen <= Observed(h).gen
  /\ o \in Past => Observed(h) \in Past
  /\ \A v \in Versions(h) : v.gen = o.gen => v.ref = o.ref

LEMMA KnownStays ==
  ASSUME BaseInv, [Next]_vars, NEW a \in Approvers, NEW o \in Object,
         Known(approver[a], o)
  PROVE  Known(approver'[a], o)
<1> DEFINE h == approver[a]
           next == approver'[a]
<1>1. h \in History(Object) /\ Numbered(h) /\ Advances(a)
  BY ValueTypes, VersionsAdvance DEF BaseInv, VersionsInv
<1>2. /\ Observed(next) \in Object /\ Observed(h) \in Object
      /\ Observed(h).gen <= Observed(next).gen
      /\ Observed(h) \in Past => Observed(next) \in Past
      /\ Stored(h) \in Versions(h)
  BY <1>1, EndVersions, NumberedOrder DEF Advances
<1>3. /\ Observed(next).gen \in Nat /\ Observed(h).gen \in Nat /\ o.gen \in Nat
      /\ Stored(h) \in Object /\ Stored(h).gen \in Nat
      /\ Observed(h).gen <= Stored(h).gen
  BY <1>1, <1>2, EndVersions, NumberedOrder DEF Object
<1>4. o.gen <= Observed(next).gen /\ (o \in Past => Observed(next) \in Past)
  BY <1>2, <1>3 DEF Known
<1>5. ASSUME NEW v \in Versions(next), v.gen = o.gen PROVE v.ref = o.ref
  <2>1. CASE v \in Versions(h)
    BY <1>5, <2>1 DEF Known
  <2>2. CASE Follows(h, v)
    <3>1. v.gen # Stored(h).gen + 1
      BY <1>3, <1>5 DEF Known
    <3>2. v.gen = Stored(h).gen /\ v.ref = Stored(h).ref
      BY <2>2, <3>1 DEF Follows
    <3> QED BY <1>2, <1>5, <3>2 DEF Known
  <2> QED BY <1>1, <2>1, <2>2 DEF Advances
<1> QED BY <1>4, <1>5 DEF Known

\* The copy.
LEMMA CopyStays ==
  ASSUME BaseInv, [Next]_vars
  PROVE  CopyInv'
<1> USE DEF BaseInv
<1>1. CASE Begins
  <2>1. PICK a \in Approvers :
          /\ cur' = a /\ obj' = Observed(approver[a]) /\ fresh' = InSync(approver[a])
          /\ Exists(obj') /\ pc' = FirstCall(obj') /\ pc' # "idle"
    BY <1>1 DEF Begins
  <2>2. /\ approver' = approver /\ approver[a] \in History(Object)
        /\ Observed(approver[a]) \in Versions(approver[a]) /\ Numbered(approver[a])
        /\ Observed(approver[a]) \in Object
        /\ InSync(approver[a]) => Observed(approver[a]) = Stored(approver[a])
    BY <1>1, ValueTypes, EndVersions DEF Begins, kube, VersionsInv
  <2>3. obj'.gen > 0
    <3>1. obj'.gen \in Nat /\ obj'.gen # 0
      BY <2>1, <2>2 DEF Numbered, NumberedVersion, Exists, Object
    <3> QED BY <3>1
  <2>4. /\ obj'.gen <= Observed(approver[a]).gen
        /\ \A v \in Versions(approver[a]) : v.gen = obj'.gen => v.ref = obj'.ref
    BY <2>1, <2>2 DEF Numbered, Object
  <2>5. /\ pc' \in {"addFinalizer", "patch"} => obj'.life = "live"
        /\ pc' # "removeFinalizer"
    BY <2>1 DEF FirstCall, Exists
  <2> QED BY <2>1, <2>2, <2>3, <2>4, <2>5 DEF CopyInv
<1>2. CASE Ends
  BY <1>2 DEF Ends, Forget, CopyInv
<1>3. ASSUME pc # "idle"
      PROVE  cur \in Approvers /\ obj \in Object /\ Known(approver'[cur], obj)
  <2>1. cur \in Approvers /\ obj \in Object /\ Known(approver[cur], obj)
    BY <1>3 DEF TypeOK, CopyInv, Known
  <2> QED BY <2>1, KnownStays
\* A step that keeps the copy, or writes what is in it.
<1>4. ASSUME pc # "idle", pc' # "idle", cur' = cur, obj' \in Object,
             obj'.life = obj.life, obj'.gen = obj.gen, obj'.ref = obj.ref,
             fresh' => obj' = Stored(approver'[cur]),
             pc' \in {"addFinalizer", "patch"} => obj.life = "live",
             pc' = "removeFinalizer" => obj.life = "deleting"
      PROVE  CopyInv'
  <2>1. Exists(obj') /\ obj'.gen > 0 /\ (obj' \in Past <=> obj \in Past)
    BY <1>4, <1>3 DEF CopyInv, Exists, Past
  <2> QED BY <1>3, <1>4, <2>1 DEF CopyInv, Known
<1>5. CASE AddFinalizer
  <2>1. /\ pc = "addFinalizer" /\ pc' = "getHeadscale" /\ cur' = cur
        /\ obj' = WithFinalizer(obj) /\ obj' \in Object
        /\ approver' = [approver EXCEPT ![cur] = Written(approver[cur], obj')]
    BY <1>5, ValueTypes DEF AddFinalizer, UpdateAccepted, Store, Goto
  <2>2. approver'[cur] = Written(approver[cur], obj') /\ approver[cur] \in History(Object)
    BY <1>3, <2>1, ValueTypes DEF TypeOK
  <2>3. obj'.life = obj.life /\ obj'.gen = obj.gen /\ obj'.ref = obj.ref
    BY <1>3, <2>1 DEF WithFinalizer, Object
  <2>4. Stored(approver'[cur]) = obj'
    BY <2>1, <2>2, WrittenVersions
  <2> QED BY <1>4, <2>1, <2>3, <2>4
<1>6. CASE GivesUp \/ Finds \/ Renders \/ Push
  <2>1. /\ pc # "idle" /\ UNCHANGED <<approver, cur, obj, fresh>>
        /\ \/ pc' \in {"collect", "push"}
           \/ pc' = "removeFinalizer" /\ Deleting
           \/ pc' = "patch" /\ ~Deleting
    BY <1>6 DEF GivesUp, WithoutPush, Finds, Renders, Push, Goto, Report, kube
  <2> QED BY <1>3, <1>4, <2>1 DEF CopyInv, Deleting, Exists
<1>7. CASE Outside
  <2>1. UNCHANGED <<pc, cur, obj>> /\ (fresh' => fresh)
    BY <1>7 DEF Outside, Ages
  <2>2. ASSUME fresh' PROVE Stored(approver'[cur]) = Stored(approver[cur])
    <3>1. fresh /\ pc # "idle" /\ cur \in Approvers /\ Exists(Stored(approver[cur]))
      BY <2>1, <2>2 DEF CopyInv, TypeOK
    <3>2. approver[cur] \in History(Object) /\ VersionsEvolve(cur)
      BY <3>1, ValueTypes, VersionsEvolution
    <3>3. ~\E o \in Object : NewVersion(cur, o)
      BY <2>1, <2>2, <3>1 DEF NewVersion, Exists
    <3> QED BY <3>2, <3>3, DeliveredVersions, RelistedVersions DEF VersionsEvolve
  <2>3. CASE pc # "idle"
    BY <1>3, <1>4, <2>1, <2>2, <2>3 DEF CopyInv
  <2>4. CASE pc = "idle"
    BY <2>1, <2>4 DEF CopyInv
  <2> QED BY <2>3, <2>4
<1> QED BY <1>1, <1>2, <1>5, <1>6, <1>7, PassEvolution


\* The versions of the Headscales.
LEMMA HeadscalesTyped ==
  ASSUME TypeOK, [Next]_vars
  PROVE  headscale' \in [Headscales -> History(Headscale)]
<1>t. headscale \in [Headscales -> History(Headscale)]
  BY DEF TypeOK
<1>1. CASE UNCHANGED headscale
  BY <1>t, <1>1
<1>2. ASSUME NEW h \in Headscales, DeliverHeadscale(h) \/ DeliverHeadscaleFails(h)
      PROVE  headscale' \in [Headscales -> History(Headscale)]
  <2>1. Lag(headscale[h]) > 0 /\ headscale[h] \in History(Headscale)
        /\ headscale' = [headscale EXCEPT ![h] = Delivered(headscale[h])]
    BY <1>t, <1>2 DEF DeliverHeadscale, DeliverHeadscaleFails
  <2>2. Delivered(headscale[h]) \in History(Headscale)
    BY <2>1, DeliveredHistory
  <2> QED BY <1>t, <2>1, <2>2
<1>3. ASSUME NEW h \in Headscales, NEW exists \in BOOLEAN, NEW spec \in Specs,
             ChangeHeadscale(h, exists, spec)
      PROVE  headscale' \in [Headscales -> History(Headscale)]
  <2> DEFINE v == [exists |-> exists, gen |-> Stored(headscale[h]).gen + 1, spec |-> spec]
  <2>1. headscale[h] \in History(Headscale)
        /\ headscale' = [headscale EXCEPT ![h] = Written(headscale[h], v)]
    BY <1>t, <1>3 DEF ChangeHeadscale
  <2>2. v \in Headscale
    <3>1. Stored(headscale[h]) \in Headscale
      BY <2>1, EndVersions
    <3>2. Stored(headscale[h]).gen + 1 \in Nat
      BY <3>1 DEF Headscale
    <3> QED BY <3>2 DEF Headscale
  <2>3. Written(headscale[h], v) \in History(Headscale)
    BY <2>1, <2>2, WrittenHistory
  <2> QED BY <1>t, <2>1, <2>3
<1>4. CASE Crash
  BY <1>t, <1>4, RelistedHistory DEF Crash
<1>5. ASSUME NEW h \in Headscales PROVE Stored(headscale[h]).spec \in Specs
  <2>1. headscale[h] \in History(Headscale)
    BY <1>t
  <2>2. Stored(headscale[h]) \in Headscale
    BY <2>1, EndVersions
  <2> QED BY <2>2 DEF Headscale
<1>6. CASE \/ \E a \in Approvers : Reconcile(a) \/ Deliver(a)
           \/ Step \/ UNCHANGED vars
           \/ \E a \in Approvers :
                \/ CreateObject(a) \/ EditMetadata(a) \/ DeleteObject(a)
                \/ \E h \in Headscales : EditSpec(a, h)
           \/ \E h \in Headscales : LosePolicy(h)
  <2>1. CASE Step
    BY <1>1, <2>1 DEF Step, AddFinalizer, AddFinalizerFails, GetHeadscale,
       GetHeadscaleFails, Collect, CollectFails, Push, PushFails, SetCondition,
       SetConditionFails, RemoveFinalizer, RemoveFinalizerFails, kube
  <2>2. CASE ~Step
    BY <1>1, <1>6, <2>2 DEF Reconcile, Deliver, CreateObject, EditMetadata, DeleteObject,
       EditSpec, LosePolicy, kube, vars
  <2> QED BY <2>1, <2>2
<1> QED BY <1>2, <1>3, <1>4, <1>5, <1>6 DEF Next, Environment

\* The queue and the counters.
LEMMA BookkeepingTyped ==
  ASSUME TypeOK, [Next]_vars
  PROVE  /\ queue' \subseteq Approvers /\ missed' \subseteq Headscales
         /\ faults' \in Nat /\ edits' \in Nat /\ admin' \in Nat
<1> USE DEF TypeOK
<1>1. UNCHANGED faults \/ faults' = faults + 1
  BY DEF Next, Step, Environment, Reconcile, Deliver, DeliverHeadscale,
     DeliverHeadscaleFails, AddFinalizer, AddFinalizerFails, GetHeadscale,
     GetHeadscaleFails, Collect, CollectFails, Push, PushFails, SetCondition,
     SetConditionFails, RemoveFinalizer, RemoveFinalizerFails, Crash, CreateObject,
     EditMetadata, DeleteObject, EditSpec, ChangeHeadscale, LosePolicy, Fault,
     UpdateFailed, budget, vars
<1>2. UNCHANGED edits \/ edits' = edits + 1
  BY DEF Next, Step, Environment, Reconcile, Deliver, DeliverHeadscale,
     DeliverHeadscaleFails, AddFinalizer, AddFinalizerFails, GetHeadscale,
     GetHeadscaleFails, Collect, CollectFails, Push, PushFails, SetCondition,
     SetConditionFails, RemoveFinalizer, RemoveFinalizerFails, Crash, CreateObject,
     EditMetadata, DeleteObject, EditSpec, ChangeHeadscale, LosePolicy, Edit,
     budget, vars
<1>3. UNCHANGED admin \/ admin' = admin + 1
  BY DEF Next, Step, Environment, Reconcile, Deliver, DeliverHeadscale,
     DeliverHeadscaleFails, AddFinalizer, AddFinalizerFails, GetHeadscale,
     GetHeadscaleFails, Collect, CollectFails, Push, PushFails, SetCondition,
     SetConditionFails, RemoveFinalizer, RemoveFinalizerFails, Crash, CreateObject,
     EditMetadata, DeleteObject, EditSpec, ChangeHeadscale, LosePolicy, AdminStep,
     budget, vars
<1>4. UNCHANGED missed \/ \E h \in Headscales : missed' = missed \cup {h}
  BY DEF Next, Step, Environment, Reconcile, Deliver, DeliverHeadscale,
     DeliverHeadscaleFails, AddFinalizer, AddFinalizerFails, GetHeadscale,
     GetHeadscaleFails, Collect, CollectFails, AfterPushError, WithoutPush, Push,
     PushFails, SetCondition, SetConditionFails, RemoveFinalizer, RemoveFinalizerFails,
     Crash, CreateObject, EditMetadata, DeleteObject, EditSpec, ChangeHeadscale,
     LosePolicy, ghosts, vars
<1>5. CASE pc # "idle" /\ Step
  <2>1. UNCHANGED queue \/ queue' = queue \cup {cur}
    BY <1>5 DEF Step, AddFinalizer, AddFinalizerFails, GetHeadscale, GetHeadscaleFails,
       Collect, CollectFails, AfterPushError, WithoutPush, Push, PushFails, SetCondition,
       SetConditionFails, AfterReport, RemoveFinalizer, RemoveFinalizerFails, Goto,
       Report, Finish, Requeue
  <2> QED BY <1>1, <1>2, <1>3, <1>4, <1>5, <2>1
<1>6. Step => pc # "idle"
  BY DEF Step, AddFinalizer, AddFinalizerFails, GetHeadscale, GetHeadscaleFails,
     Collect, CollectFails, Push, PushFails, SetCondition, SetConditionFails,
     RemoveFinalizer, RemoveFinalizerFails
<1>7. CASE ~Step
  <2>1. \/ queue' \subseteq queue \/ \E a \in Approvers : queue' = queue \cup {a}
        \/ \E h \in Headscales : queue' = queue \cup Targeting(h)
        \/ queue' = {a \in Approvers : Exists(Stored(approver[a]))}
    BY <1>7 DEF Next, Environment, Reconcile, Deliver, DeliverHeadscale,
       DeliverHeadscaleFails, Crash, CreateObject, EditMetadata, DeleteObject, EditSpec,
       ChangeHeadscale, LosePolicy, vars
  <2>2. \A h : Targeting(h) \subseteq Approvers
    BY DEF Targeting
  <2> QED BY <1>1, <1>2, <1>3, <1>4, <2>1, <2>2
<1> QED BY <1>5, <1>6, <1>7


\* What is rendered is a policy.
LEMMA RenderedTyped ==
  ASSUME TypeOK
  PROVE  Rendered \in Policy
<1>1. view.gen \in Nat
  BY DEF TypeOK, Headscale
<1>2. \A a \in Approvers : Observed(approver[a]).gen \in Nat
  BY ValueTypes DEF Object
<1>3. {[by |-> a, gen |-> Observed(approver[a]).gen] :
         a \in {b \in Approvers : Contributes(Observed(approver[b]))}} \subseteq Entry
  BY <1>2 DEF Entry
<1> QED BY <1>1, <1>3 DEF Rendered, Policy

\* The worker's memory and the policies.
LEMMA PassTyped ==
  ASSUME BaseInv, [Next]_vars
  PROVE  /\ policy' \in [Headscales -> Policy]
         /\ pc' \in Pcs /\ cur' \in Approvers \cup {NoApprover} /\ obj' \in Object
         /\ fresh' \in BOOLEAN /\ view' \in Headscale /\ doc' \in Policy
         /\ cond' \in Reasons
         /\ lost' \subseteq Headscales /\ left' \subseteq Headscales \X Approvers
         /\ pc' # "idle" => cur' \in Approvers /\ obj'.ref \in Headscales
<1> USE DEF BaseInv, TypeOK
<1>1. /\ NoPolicy \in Policy /\ NoView \in Headscale /\ Absent \in Object
      /\ obj \in Object /\ WithFinalizer(obj) \in Object
      /\ \A a \in Approvers : Observed(approver[a]) \in Object
  BY ValueTypes DEF NoPolicy, Policy, NoView, Headscale, Specs
<1>2. CASE Begins
  <2>1. PICK a \in Approvers :
          /\ cur' = a /\ obj' = Observed(approver[a]) /\ fresh' = InSync(approver[a])
          /\ Exists(obj') /\ pc' = FirstCall(obj') /\ pc' # "idle"
    BY <1>2 DEF Begins
  <2>2. obj'.ref \in Headscales
    <3>1. Observed(approver[a]) \in Versions(approver[a])
      BY ValueTypes, EndVersions
    <3> QED BY <2>1, <3>1 DEF VersionsInv, Numbered, NumberedVersion, Exists
  <2>3. pc' \in Pcs /\ fresh' \in BOOLEAN
    BY <2>1 DEF FirstCall, Pcs, InSync
  <2> QED BY <1>1, <1>2, <2>1, <2>2, <2>3 DEF Begins, ghosts
<1>3. CASE Ends
  BY <1>1, <1>3 DEF Ends, Forget, ghosts, Pcs, Reasons
<1>4. CASE AddFinalizer
  <2>1. WithFinalizer(obj).ref = obj.ref
    BY <1>1 DEF WithFinalizer, Object
  <2> QED BY <1>1, <1>4, <2>1 DEF AddFinalizer, Goto, ghosts, Pcs
<1>5. CASE GivesUp
  <2>1. policy' \in [Headscales -> Policy]
    BY <1>5 DEF GivesUp, SetPolicy
  <2>2. PICK reason \in {"Unset"} \cup FailureReasons : WithoutPush(reason)
    BY <1>5 DEF GivesUp
  <2>3. reason \in Reasons /\ pc # "idle"
    BY <1>5 DEF Reasons, GivesUp
  <2>4. UNCHANGED <<obj, cur, fresh, view, doc, lost>>
    BY <1>5, <2>2 DEF WithoutPush, GivesUp
  <2>5. pc' \in Pcs /\ cond' \in Reasons /\ left' \subseteq Headscales \X Approvers
    BY <2>2, <2>3 DEF WithoutPush, Goto, Report, Pcs
  <2> QED BY <2>1, <2>3, <2>4, <2>5
<1>6. CASE Finds
  <2>1. view' \in Headscale
    BY <1>6, EndVersions DEF Finds
  <2> QED BY <1>6, <2>1 DEF Finds, ghosts, Pcs
<1>7. CASE Renders
  BY <1>7, RenderedTyped DEF Renders, ghosts, Pcs
<1>8. CASE Push
  BY <1>8 DEF Push, SetPolicy, Goto, Report, Pcs, Reasons
<1>9. CASE Outside
  <2>1. policy' \in [Headscales -> Policy] /\ lost' \subseteq Headscales
    BY <1>1, <1>9 DEF Outside
  <2>2. left' \subseteq Headscales \X Approvers
    <3>1. ASSUME NEW a \in Approvers, NEW h \in Headscales, EditSpec(a, h)
          PROVE  left' \subseteq Headscales \X Approvers
      <4>1. Stored(approver[a]).ref \in Headscales
        <5>1. Stored(approver[a]) \in Versions(approver[a]) /\ Exists(Stored(approver[a]))
          BY <3>1, ValueTypes, EndVersions DEF EditSpec
        <5> QED BY <5>1 DEF VersionsInv, Numbered, NumberedVersion, Exists
      <4> QED BY <3>1, <4>1 DEF EditSpec
    <3> QED BY <1>9, <3>1 DEF Outside
  <2> QED BY <1>9, <2>1, <2>2 DEF Outside, Ages
<1> QED BY <1>2, <1>3, <1>4, <1>5, <1>6, <1>7, <1>8, <1>9, PassEvolution


\* The first state.
LEMMA BaseInit == Init => BaseInv
<1> SUFFICES ASSUME Init PROVE BaseInv
  OBVIOUS
<1> USE DEF Init
<1>1. Absent \in Object /\ NoPolicy \in Policy /\ NoView \in Headscale
  BY DEF Absent, Object, Lives, Reasons, NoPolicy, Policy, NoView, Headscale, Specs
<1>2. <<Absent>> \in History(Object)
  BY <1>1 DEF History
<1>3. \A h \in Headscales :
        <<[exists |-> TRUE, gen |-> 1, spec |-> "database"]>> \in History(Headscale)
  BY DEF History, Headscale, Specs
<1>4. TypeOK
  BY <1>1, <1>2, <1>3 DEF TypeOK, Pcs, Reasons
<1>5. ASSUME NEW a \in Approvers PROVE Numbered(approver[a])
  <2>1. approver[a] = <<Absent>> /\ Len(approver[a]) = 1 /\ approver[a][1] = Absent
    OBVIOUS
  <2>2. Versions(approver[a]) = {Absent}
    BY <2>1 DEF Versions
  <2>3. NumberedVersion(Absent)
    BY DEF NumberedVersion, Absent
  <2>4. \A P : Lasting(approver[a], P)
    BY <2>1 DEF Lasting
  <2> QED BY <2>2, <2>3, <2>4 DEF Numbered
<1> QED BY <1>4, <1>5 DEF BaseInv, VersionsInv, CopyInv

\* Every other state.
LEMMA BaseStep == BaseInv /\ [Next]_vars => BaseInv'
<1> SUFFICES ASSUME BaseInv, [Next]_vars PROVE BaseInv'
  OBVIOUS
<1>1. approver' \in [Approvers -> History(Object)]
  BY VersionsEvolution DEF BaseInv
<1>2. TypeOK'
  BY <1>1, HeadscalesTyped, BookkeepingTyped, PassTyped DEF BaseInv, TypeOK
<1> QED BY <1>2, VersionsAdvance, CopyStays DEF BaseInv

\* The base invariant holds throughout.
LEMMA BaseAlways == Spec => []BaseInv
  BY BaseInit, BaseStep, PTL DEF Spec

\* Every value the reconciler, the caches and the servers hold is of its type.
THEOREM TypeCorrect == Spec => []TypeOK
<1>1. BaseInv => TypeOK
  BY DEF BaseInv
<1> QED BY <1>1, BaseAlways, PTL

-----------------------------------------------------------------------------
(* "PolicyApplied" means that the policy has been applied.                 *)

EntryOf(a, o) == [by |-> a, gen |-> o.gen]
Ready(o) == o.life = "live" /\ o.ready = "PolicyApplied" /\ o.seen = o.gen

\* The condition is written only of a generation the cache has shown, so no pass
\* that begins later renders without that generation; the pass that is about to
\* push has rendered every object that is ready, and its own.
ReadyInv ==
  /\ \A a \in Approvers :
       LET o == Stored(approver[a]) IN
       /\ Ready(o) => Observed(approver[a]).gen >= o.gen
       /\ Ready(o) /\ o.ref \notin lost => EntryOf(a, o) \in policy[o.ref].entries
       /\ pc = "push" /\ Ready(o) /\ o.ref = obj.ref => EntryOf(a, o) \in doc.entries
  /\ LET o == Stored(approver[cur]) IN
     o.life = "live" /\ o.gen = obj.gen =>
       /\ pc = "push" => EntryOf(cur, o) \in doc.entries
       /\ pc = "patch" /\ cond = "PolicyApplied" /\ o.ref \notin lost =>
            EntryOf(cur, o) \in policy[o.ref].entries

AppliedInv == BaseInv /\ ReadyInv

\* The stored version is the one there was or a new one.
LEMMA StoredEvolution ==
  ASSUME TypeOK, [Next]_vars, NEW a \in Approvers
  PROVE  /\ Stored(approver'[a]) \in Object
         /\ \/ Stored(approver'[a]) = Stored(approver[a])
            \/ NewVersion(a, Stored(approver'[a]))
<1>1. /\ approver[a] \in History(Object) /\ approver'[a] \in History(Object)
      /\ VersionsEvolve(a)
  BY ValueTypes, VersionsEvolution
<1>2. Stored(approver'[a]) \in Object
  BY <1>1, EndVersions
<1> QED BY <1>1, <1>2, WrittenVersions, DeliveredVersions, RelistedVersions
        DEF VersionsEvolve

\* What is stored and what is cached, compared.
LEMMA EndsCompared ==
  ASSUME BaseInv, NEW a \in Approvers
  PROVE  LET st == Stored(approver[a])
             ob == Observed(approver[a])
         IN /\ st \in Object /\ ob \in Object /\ NumberedVersion(st) /\ NumberedVersion(ob)
            /\ st.gen \in Nat /\ ob.gen \in Nat /\ ob.gen <= st.gen
            /\ ob.gen = st.gen => ob.ref = st.ref
            /\ st.life = "live" /\ ob.gen = st.gen => ob.life = "live"
<1> DEFINE st == Stored(approver[a])
           ob == Observed(approver[a])
<1>1. /\ approver[a] \in History(Object) /\ Numbered(approver[a])
      /\ st \in Versions(approver[a]) /\ ob \in Versions(approver[a])
  BY ValueTypes, EndVersions DEF BaseInv, VersionsInv
<1>2. /\ st \in Object /\ ob \in Object /\ NumberedVersion(st) /\ NumberedVersion(ob)
      /\ ob.gen <= st.gen
      /\ ob.gen = st.gen => ob.ref = st.ref
      /\ ob \in Past => st \in Past
  BY <1>1, NumberedOrder DEF Numbered
<1>3. st.gen \in Nat /\ ob.gen \in Nat
  BY <1>2 DEF Object
<1>4. ASSUME st.life = "live", ob.gen = st.gen PROVE ob.life = "live"
  <2>1. ob.life # "none" /\ ob \notin Past
    BY <1>2, <1>4 DEF NumberedVersion, Past
  <2> QED BY <1>2, <2>1 DEF Past, Object, Lives
<1> QED BY <1>2, <1>3, <1>4

\* A live object of a generation was live, of that generation and with that spec,
\* unless the generation is new.
LEMMA LiveBefore ==
  ASSUME BaseInv, [Next]_vars, NEW a \in Approvers,
         Stored(approver'[a]).life = "live",
         Stored(approver'[a]).gen <= Stored(approver[a]).gen
  PROVE  /\ Stored(approver[a]).life = "live"
         /\ Stored(approver[a]).gen = Stored(approver'[a]).gen
         /\ Stored(approver[a]).ref = Stored(approver'[a]).ref
<1> DEFINE st == Stored(approver[a])
           new == Stored(approver'[a])
<1>1. st \in Object /\ NumberedVersion(st) /\ st.gen \in Nat
  BY EndsCompared
<1>2. CASE new = st
  BY <1>2
<1>3. CASE Follows(approver[a], new)
  <2>1. new.gen = st.gen /\ new.ref = st.ref
    BY <1>1, <1>3 DEF Follows
  <2>2. st \notin Past /\ st.life # "none"
    BY <1>1, <1>3, <2>1 DEF Follows, Past, NumberedVersion
  <2> QED BY <1>1, <2>1, <2>2 DEF Past, Object, Lives
<1> QED BY <1>2, <1>3, StoredEvolution, NewVersionFollows DEF BaseInv

\* Only the patch of a pass that has pushed makes an object ready.
LEMMA ReadyEvolution ==
  ASSUME BaseInv, [Next]_vars, NEW a \in Approvers, Ready(Stored(approver'[a]))
  PROVE  /\ Stored(approver'[a]).gen = Stored(approver[a]).gen
         /\ Stored(approver'[a]).ref = Stored(approver[a]).ref
         /\ Stored(approver[a]).life = "live"
         /\ \/ Ready(Stored(approver[a]))
            \/ /\ cur = a /\ pc = "patch" /\ pc' # pc /\ cond = "PolicyApplied"
               /\ obj.gen = Stored(approver[a]).gen
<1> DEFINE st == Stored(approver[a])
           new == Stored(approver'[a])
<1>1. /\ st \in Object /\ NumberedVersion(st) /\ st.gen \in Nat /\ st.seen \in Nat
      /\ obj \in Object
  BY EndsCompared, ValueTypes DEF Object, BaseInv
<1>2. CASE new = st
  BY <1>2 DEF Ready
<1>3. CASE cur = a /\ pc = "addFinalizer" /\ fresh /\ new = WithFinalizer(obj)
  <2>1. obj = st
    BY <1>3 DEF BaseInv, CopyInv
  <2> QED BY <1>1, <1>3, <2>1 DEF WithFinalizer, Object, Ready
<1>4. CASE cur = a /\ pc = "removeFinalizer" /\ new = Removed(obj, "finalized")
  BY <1>1, <1>4 DEF Removed, Object, Ready
<1>5. CASE cur = a /\ pc = "patch" /\ pc' # pc /\ new = WithReady(st, cond, obj.gen)
  BY <1>1, <1>5 DEF WithReady, Object, Ready
<1>6. CASE \E h \in Headscales : new = [Absent EXCEPT !.life = "live", !.gen = 1, !.ref = h]
  BY <1>6 DEF Absent, Ready
<1>7. CASE \E h \in Headscales : new = [st EXCEPT !.gen = @ + 1, !.ref = h]
  BY <1>1, <1>7 DEF NumberedVersion, Object, Ready
<1>8. CASE new = IF st.finalizer THEN [st EXCEPT !.life = "deleting"] ELSE Removed(st, "gone")
  BY <1>1, <1>8 DEF Removed, Object, Ready
<1> QED BY <1>2, <1>3, <1>4, <1>5, <1>6, <1>7, <1>8, StoredEvolution
        DEF NewVersion, BaseInv


\* A pass that has rendered still has what was ready, or of its own object.
LEMMA RenderedReady ==
  ASSUME AppliedInv, [Next]_vars, pc' = "push"
  PROVE  /\ \A a \in Approvers :
              LET o == Stored(approver'[a]) IN
              Ready(o) /\ o.ref = obj'.ref => EntryOf(a, o) \in doc'.entries
         /\ LET o == Stored(approver'[cur']) IN
            o.life = "live" /\ o.gen = obj'.gen => EntryOf(cur', o) \in doc'.entries
<1> USE DEF AppliedInv
<1>1. CASE Renders
  <2>1. /\ pc = "collect" /\ approver' = approver /\ cur' = cur /\ obj' = obj
        /\ doc'.entries = {[by |-> a, gen |-> Observed(approver[a]).gen] :
                             a \in {b \in Approvers : Contributes(Observed(approver[b]))}}
    BY <1>1 DEF Renders, Rendered, kube
  <2>2. ASSUME NEW a \in Approvers, Stored(approver[a]).life = "live",
               Stored(approver[a]).ref = obj.ref,
               Observed(approver[a]).gen = Stored(approver[a]).gen
        PROVE  EntryOf(a, Stored(approver[a])) \in doc'.entries
    <3>1. Contributes(Observed(approver[a]))
      BY <2>2, EndsCompared DEF Contributes, Exists
    <3> QED BY <2>1, <2>2, <3>1 DEF EntryOf
  <2>3. ASSUME NEW a \in Approvers, Ready(Stored(approver[a])),
               Stored(approver[a]).ref = obj.ref
        PROVE  EntryOf(a, Stored(approver[a])) \in doc'.entries
    <3>1. Observed(approver[a]).gen >= Stored(approver[a]).gen
      BY <2>3 DEF ReadyInv
    <3>2. Observed(approver[a]).gen = Stored(approver[a]).gen
      BY <3>1, EndsCompared
    <3> QED BY <2>2, <2>3, <3>2 DEF Ready
  <2>4. ASSUME Stored(approver[cur]).life = "live", Stored(approver[cur]).gen = obj.gen
        PROVE  EntryOf(cur, Stored(approver[cur])) \in doc'.entries
    <3>1. /\ cur \in Approvers /\ approver[cur] \in History(Object)
          /\ Known(approver[cur], obj)
      BY <2>1, ValueTypes DEF BaseInv, TypeOK, CopyInv, Known
    <3>2. Observed(approver[cur]).gen = Stored(approver[cur]).gen
      BY <2>4, <3>1, EndsCompared DEF Known
    <3>3. Stored(approver[cur]).ref = obj.ref
      BY <2>4, <3>1, EndVersions DEF Known
    <3> QED BY <2>2, <2>4, <3>1, <3>2, <3>3
  <2> QED BY <2>1, <2>3, <2>4
<1>2. CASE Outside
  <2>1. pc = "push" /\ UNCHANGED <<pc, cur, obj, doc>>
    BY <1>2 DEF Outside
  <2>2. ASSUME NEW a \in Approvers, Ready(Stored(approver'[a])),
               Stored(approver'[a]).ref = obj.ref
        PROVE  EntryOf(a, Stored(approver'[a])) \in doc.entries
    <3>1. Ready(Stored(approver[a])) /\ Stored(approver[a]).ref = obj.ref
          /\ Stored(approver[a]).gen = Stored(approver'[a]).gen
      BY <2>1, <2>2, ReadyEvolution
    <3> QED BY <2>1, <3>1 DEF ReadyInv, EntryOf
  <2>3. ASSUME Stored(approver'[cur]).life = "live", Stored(approver'[cur]).gen = obj.gen
        PROVE  EntryOf(cur, Stored(approver'[cur])) \in doc.entries
    <3>1. cur \in Approvers /\ Known(approver[cur], obj) /\ obj.gen \in Nat
      BY <2>1, ValueTypes DEF BaseInv, TypeOK, CopyInv, Known, Object
    <3>2. Stored(approver'[cur]).gen <= Stored(approver[cur]).gen
      BY <2>3, <3>1, EndsCompared DEF Known
    <3>3. Stored(approver[cur]).life = "live" /\ Stored(approver[cur]).gen = obj.gen
      BY <2>3, <3>1, <3>2, LiveBefore
    <3> QED BY <2>1, <2>3, <3>3 DEF ReadyInv, EntryOf
  <2> QED BY <2>1, <2>2, <2>3
<1>3. CASE Begins \/ Ends \/ AddFinalizer \/ GivesUp \/ Finds \/ Push
  BY <1>3 DEF Begins, FirstCall, Ends, Forget, AddFinalizer, GivesUp, WithoutPush, Finds,
              Push, Goto, Report
<1> QED BY <1>1, <1>2, <1>3, PassEvolution DEF BaseInv

\* And what it is about to report is true.
LEMMA ReportedTrue ==
  ASSUME AppliedInv, [Next]_vars, pc' = "patch", cond' = "PolicyApplied",
         Stored(approver'[cur']).life = "live",
         Stored(approver'[cur']).gen = obj'.gen,
         Stored(approver'[cur']).ref \notin lost'
  PROVE  EntryOf(cur', Stored(approver'[cur']))
           \in policy'[Stored(approver'[cur']).ref].entries
<1> USE DEF AppliedInv
<1> DEFINE o == Stored(approver'[cur'])
<1>1. CASE Push
  <2>1. /\ pc = "push" /\ approver' = approver /\ cur' = cur /\ obj' = obj
        /\ policy' = [policy EXCEPT ![obj.ref] = doc]
    BY <1>1 DEF Push, SetPolicy, Goto, Report, kube
  <2>2. /\ cur \in Approvers /\ obj.ref \in Headscales /\ policy \in [Headscales -> Policy]
        /\ approver[cur] \in History(Object) /\ Known(approver[cur], obj)
    BY <2>1, ValueTypes DEF BaseInv, TypeOK, CopyInv, Known
  <2>3. o.ref = obj.ref
    BY <2>1, <2>2, EndVersions DEF Known
  <2>4. EntryOf(cur, o) \in doc.entries
    BY <2>1 DEF ReadyInv
  <2> QED BY <2>1, <2>2, <2>3, <2>4
<1>2. CASE Outside
  <2>1. pc = "patch" /\ UNCHANGED <<pc, cur, obj, cond>>
    BY <1>2 DEF Outside
  <2>2. cur \in Approvers /\ Known(approver[cur], obj) /\ obj.gen \in Nat
        /\ policy \in [Headscales -> Policy]
    BY <2>1, ValueTypes DEF BaseInv, TypeOK, CopyInv, Known, Object
  <2>3. o.gen <= Stored(approver[cur]).gen
    BY <2>1, <2>2, EndsCompared DEF Known
  <2>4. /\ Stored(approver[cur]).life = "live" /\ Stored(approver[cur]).gen = obj.gen
        /\ Stored(approver[cur]).ref = o.ref
    BY <2>1, <2>2, <2>3, LiveBefore
  <2>5. /\ o.ref \notin lost /\ o.ref \in Headscales
        /\ policy'[o.ref] = policy[o.ref]
    <3>1. o.ref \in Headscales
      BY <2>2, <2>4, EndsCompared DEF NumberedVersion
    <3> QED BY <1>2, <2>2, <3>1 DEF Outside
  <2>6. EntryOf(cur, o) \in policy[o.ref].entries
    BY <2>1, <2>4, <2>5 DEF ReadyInv, EntryOf
  <2> QED BY <2>1, <2>5, <2>6
<1>3. CASE Begins \/ Ends \/ AddFinalizer \/ GivesUp \/ Finds \/ Renders
  BY <1>3 DEF Begins, FirstCall, Ends, Forget, AddFinalizer, GivesUp, WithoutPush, Finds,
              Renders, Goto, Report, FailureReasons
<1> QED BY <1>1, <1>2, <1>3, PassEvolution DEF BaseInv


\* What becomes of the policy of a Headscale: it is kept, pushed, or lost.
LEMMA PolicyEvolution ==
  ASSUME BaseInv, [Next]_vars, NEW h \in Headscales
  PROVE  \/ policy'[h] = policy[h] /\ (h \notin lost' => h \notin lost)
         \/ /\ pc = "push" /\ obj.ref = h /\ policy'[h] = doc
            /\ approver' = approver
         \/ policy'[h] = NoPolicy /\ h \in lost'
<1> USE DEF BaseInv, TypeOK
<1>1. CASE Push \/ (GivesUp /\ pc = "push" /\ SetPolicy)
  <2>1. /\ pc = "push" /\ policy' = [policy EXCEPT ![obj.ref] = doc]
        /\ approver' = approver
        /\ lost' = lost \ {obj.ref} \/ lost' = lost
    BY <1>1 DEF Push, GivesUp, WithoutPush, SetPolicy, kube
  <2> QED BY <2>1
<1>2. CASE Begins \/ Ends \/ AddFinalizer \/ (GivesUp /\ UNCHANGED policy) \/ Finds \/ Renders
  BY <1>2 DEF Begins, Ends, AddFinalizer, GivesUp, WithoutPush, Finds, Renders, ghosts
<1>3. CASE Outside
  BY <1>3 DEF Outside
<1> QED BY <1>1, <1>2, <1>3, PassEvolution DEF GivesUp

\* Every step keeps it.
LEMMA ReadyStep == AppliedInv /\ [Next]_vars => ReadyInv'
<1> SUFFICES ASSUME AppliedInv, [Next]_vars PROVE ReadyInv'
  OBVIOUS
<1> USE DEF AppliedInv
<1>1. ASSUME NEW a \in Approvers, Ready(Stored(approver'[a]))
      PROVE  Observed(approver'[a]).gen >= Stored(approver'[a]).gen
  <2> DEFINE known == Observed(approver[a]).gen
  <2>1. Stored(approver'[a]).gen <= known
    <3>1. CASE Ready(Stored(approver[a]))
      BY <1>1, <3>1, ReadyEvolution, EndsCompared DEF ReadyInv
    <3>2. CASE cur = a /\ pc = "patch" /\ obj.gen = Stored(approver[a]).gen
      BY <1>1, <3>2, ReadyEvolution DEF BaseInv, CopyInv
    <3> QED BY <1>1, <3>1, <3>2, ReadyEvolution
  <2>2. /\ approver[a] \in History(Object) /\ Numbered(approver[a])
        /\ Observed(approver'[a]) \in Versions(approver[a])
    BY ValueTypes, VersionsAdvance DEF BaseInv, VersionsInv, Advances
  <2>3. known <= Observed(approver'[a]).gen
        /\ Observed(approver'[a]) \in Object
    BY <2>2, NumberedOrder
  <2>4. Stored(approver'[a]) \in Object
    BY StoredEvolution DEF BaseInv
  <2> QED BY <2>1, <2>3, <2>4, EndsCompared DEF Object
<1>2. ASSUME NEW a \in Approvers, Ready(Stored(approver'[a])),
             Stored(approver'[a]).ref \notin lost'
      PROVE  EntryOf(a, Stored(approver'[a]))
               \in policy'[Stored(approver'[a]).ref].entries
  <2> DEFINE o == Stored(approver'[a])
  <2>1. /\ o.gen = Stored(approver[a]).gen /\ o.ref = Stored(approver[a]).ref
        /\ Stored(approver[a]).life = "live"
        /\ \/ Ready(Stored(approver[a]))
           \/ /\ cur = a /\ pc = "patch" /\ cond = "PolicyApplied"
              /\ obj.gen = Stored(approver[a]).gen
    BY <1>2, ReadyEvolution
  <2>2. o.ref \in Headscales
    BY <2>1, EndsCompared DEF NumberedVersion
  <2>3. CASE policy'[o.ref] = policy[o.ref] /\ o.ref \notin lost
    BY <2>1, <2>3 DEF ReadyInv, EntryOf
  <2>4. CASE /\ pc = "push" /\ obj.ref = o.ref /\ policy'[o.ref] = doc
    BY <2>1, <2>4 DEF ReadyInv, EntryOf
  <2> QED BY <1>2, <2>2, <2>3, <2>4, PolicyEvolution
<1> QED BY <1>1, <1>2, RenderedReady, ReportedTrue DEF ReadyInv

\* "PolicyApplied" for the current generation is true, whatever siblings, an
\* outdated cache or a restart have pushed since (renderAndPush, setCondition).
THEOREM ReadySafe == Spec => []ReadyMeansApplied
<1>1. Init => AppliedInv
  <2>1. Init => ReadyInv
    <3> SUFFICES ASSUME Init PROVE ReadyInv
      OBVIOUS
    <3>1. \A a \in Approvers : approver[a] = <<Absent>>
      BY DEF Init
    <3>2. \A a \in Approvers : Stored(approver[a]) = Absent
      BY <3>1 DEF Stored
    <3>3. \A a \in Approvers : ~Ready(Stored(approver[a]))
      BY <3>2 DEF Ready, Absent
    <3>4. pc = "idle"
      BY DEF Init
    <3> QED BY <3>3, <3>4 DEF ReadyInv
  <2> QED BY <2>1, BaseInit DEF AppliedInv
<1>2. AppliedInv /\ [Next]_vars => AppliedInv'
  BY BaseStep, ReadyStep DEF AppliedInv
<1>3. AppliedInv => ReadyMeansApplied
  BY DEF AppliedInv, ReadyInv, ReadyMeansApplied, Ready, EntryOf
<1> QED BY <1>1, <1>2, <1>3, PTL DEF Spec

-----------------------------------------------------------------------------
(* A finalized object has no entries that are not accounted for.           *)

HasEntry(p, a) == \E e \in p.entries : e.by = a

\* The entries of the object in that policy are its due, or may be left behind.
Accounted(h, a) ==
  \/ <<h, a>> \in left
  \/ /\ Stored(approver[a]).ref = h
     /\ Stored(approver[a]).life \in {"live", "deleting", "gone"}

\* So are those that a pass renders, or will render from a version the cache has or
\* is to see; and handleDeletion leaves none, or gives up.
LeftInv ==
  \A h \in Headscales, a \in Approvers :
    /\ HasEntry(policy[h], a) => Accounted(h, a)
    /\ (\E v \in Versions(approver[a]) : v.life = "live" /\ v.ref = h) => Accounted(h, a)
    /\ pc = "push" /\ obj.ref = h /\ HasEntry(doc, a) => Accounted(h, a)
    /\ pc = "push" /\ Deleting /\ cur = a => ~HasEntry(doc, a)
    /\ pc = "removeFinalizer" /\ obj.ref = h /\ cur = a =>
         <<h, a>> \in left \/ ~HasEntry(policy[h], a)

FinalInv == BaseInv /\ LeftInv

\* Two steps end that: the push that removes the entries, ...
Cleaned(h, a) ==
  /\ pc = "push" /\ pc' # pc /\ obj.ref = h /\ approver' = approver
  /\ policy'[h] = doc /\ ~HasEntry(doc, a) /\ ~ComesBack(a)

\* ... and the removal of the finalizer.
Finalized(h, a) ==
  /\ pc = "removeFinalizer" /\ cur = a /\ obj.ref = h
  /\ pc' = "idle" /\ left' = left /\ policy' = policy

\* What may be left behind is, until a push without it.
LEMMA LeftEvolution ==
  ASSUME BaseInv, [Next]_vars, NEW h \in Headscales, NEW a \in Approvers, <<h, a>> \in left
  PROVE  <<h, a>> \in left' \/ Cleaned(h, a)
<1>1. CASE Push
  <2>1. /\ pc = "push" /\ pc' # pc /\ approver' = approver
        /\ policy' = [policy EXCEPT ![obj.ref] = doc]
        /\ left' = {p \in left : p[1] = obj.ref => p[2] \in Contributors \/ ComesBack(p[2])}
    BY <1>1 DEF Push, SetPolicy, Goto, Report, kube
  <2>2. ASSUME <<h, a>> \notin left'
        PROVE  obj.ref = h /\ a \notin Contributors /\ ~ComesBack(a)
    BY <2>1, <2>2
  <2>3. HasEntry(doc, a) => a \in Contributors
    BY DEF HasEntry, Contributors
  <2>4. obj.ref = h => policy'[h] = doc
    BY <2>1 DEF BaseInv, TypeOK
  <2> QED BY <2>1, <2>2, <2>3, <2>4 DEF Cleaned
<1>2. CASE Begins \/ Ends \/ AddFinalizer \/ GivesUp \/ Finds \/ Renders
  BY <1>2 DEF Begins, Ends, AddFinalizer, GivesUp, WithoutPush, Finds, Renders, ghosts
<1>3. CASE Outside
  BY <1>3 DEF Outside, EditSpec
<1> QED BY <1>1, <1>2, <1>3, PassEvolution DEF BaseInv

\* And so is what is accounted for, until it or its object is dealt with.
LEMMA AccountedEvolution ==
  ASSUME BaseInv, [Next]_vars, NEW h \in Headscales, NEW a \in Approvers, Accounted(h, a)
  PROVE  \/ <<h, a>> \in left'
         \/ /\ Stored(approver'[a]).ref = h
            /\ Stored(approver'[a]).life \in {"live", "deleting", "gone"}
         \/ Cleaned(h, a) \/ Finalized(h, a)
<1> DEFINE st == Stored(approver[a])
           new == Stored(approver'[a])
           lives == {"live", "deleting", "gone"}
<1>1. CASE <<h, a>> \in left
  BY <1>1, LeftEvolution
<1>2. CASE st.ref = h /\ st.life \in lives
  <2>t. st \in Object /\ obj \in Object
    BY EndsCompared, ValueTypes DEF BaseInv
  <2>1. CASE new = st
    BY <1>2, <2>1
  <2>2. CASE cur = a /\ pc = "addFinalizer" /\ fresh /\ new = WithFinalizer(obj)
    <3>1. obj = st
      BY <2>2 DEF BaseInv, CopyInv
    <3> QED BY <1>2, <2>t, <2>2, <3>1 DEF WithFinalizer, Object
  <2>3. CASE cur = a /\ pc = "removeFinalizer" /\ pc' # pc /\ fresh
    <3>1. obj = st
      BY <2>3 DEF BaseInv, CopyInv
    <3>2. Ends
      BY <2>3, PassEvolution DEF BaseInv, Begins, AddFinalizer, GivesUp, Finds, Renders,
         Push, Outside
    <3> QED BY <1>2, <2>3, <3>1, <3>2 DEF Ends, Forget, ghosts, Finalized
  <2>4. CASE new = WithReady(st, cond, obj.gen)
    BY <1>2, <2>t, <2>4 DEF WithReady, Object
  <2>5. CASE st.life = "none"
    BY <1>2, <2>5
  <2>6. CASE \E k \in Headscales :
               /\ new = [st EXCEPT !.gen = @ + 1, !.ref = k]
               /\ left' = IF k # st.ref THEN left \cup {<<st.ref, a>>} ELSE left
    BY <1>2, <2>t, <2>6 DEF Object
  <2>7. CASE new = IF st.finalizer THEN [st EXCEPT !.life = "deleting"]
                   ELSE Removed(st, "gone")
    BY <1>2, <2>t, <2>7 DEF Removed, Object
  <2> QED BY <2>1, <2>2, <2>3, <2>4, <2>5, <2>6, <2>7, StoredEvolution
          DEF NewVersion, BaseInv
<1> QED BY <1>1, <1>2 DEF Accounted


\* No version in sight is live once handleDeletion has begun.
LEMMA DeletionSeen ==
  ASSUME BaseInv, pc # "idle", Deleting, NEW v \in Versions(approver[cur])
  PROVE  v \in Past
<1>1. /\ cur \in Approvers /\ approver[cur] \in History(Object) /\ Numbered(approver[cur])
      /\ obj \in Object
  BY ValueTypes DEF BaseInv, TypeOK, VersionsInv
<1>2. Observed(approver[cur]) \in Past
  BY <1>1 DEF BaseInv, CopyInv, Deleting, Past
<1> QED BY <1>1, <1>2, NumberedOrder

\* Every step keeps the account.
LEMMA LeftStep == FinalInv /\ [Next]_vars => LeftInv'
<1> SUFFICES ASSUME FinalInv, [Next]_vars, NEW h \in Headscales, NEW a \in Approvers
             PROVE  /\ HasEntry(policy'[h], a) => Accounted(h, a)'
                    /\ (\E v \in Versions(approver'[a]) : v.life = "live" /\ v.ref = h) =>
                         Accounted(h, a)'
                    /\ pc' = "push" /\ obj'.ref = h /\ HasEntry(doc', a) => Accounted(h, a)'
                    /\ pc' = "push" /\ Deleting' /\ cur' = a => ~HasEntry(doc', a)
                    /\ pc' = "removeFinalizer" /\ obj'.ref = h /\ cur' = a =>
                         <<h, a>> \in left' \/ ~HasEntry(policy'[h], a)
  BY DEF LeftInv
<1> USE DEF FinalInv
<1>n. ~HasEntry(NoPolicy, a)
  BY DEF HasEntry, NoPolicy
<1>1. Accounted(h, a) => Accounted(h, a)' \/ Cleaned(h, a) \/ Finalized(h, a)
  BY AccountedEvolution DEF Accounted
<1>2. ASSUME HasEntry(policy'[h], a) PROVE Accounted(h, a)'
  <2>1. CASE policy'[h] = policy[h]
    <3>1. Accounted(h, a)
      BY <1>2, <2>1 DEF LeftInv
    <3>2. CASE Cleaned(h, a)
      BY <1>2, <3>2 DEF Cleaned
    <3>3. CASE Finalized(h, a)
      BY <1>2, <2>1, <3>3 DEF Finalized, LeftInv, Accounted
    <3> QED BY <1>1, <3>1, <3>2, <3>3
  <2>2. CASE pc = "push" /\ obj.ref = h /\ policy'[h] = doc
    <3>1. Accounted(h, a)
      BY <1>2, <2>2 DEF LeftInv
    <3> QED BY <1>1, <1>2, <2>2, <3>1 DEF Cleaned, Finalized
  <2> QED BY <1>n, <1>2, <2>1, <2>2, PolicyEvolution
<1>3. ASSUME NEW v \in Versions(approver'[a]), v.life = "live", v.ref = h
      PROVE  Accounted(h, a)'
  <2>1. CASE v \in Versions(approver[a])
    <3>1. Accounted(h, a)
      BY <1>3, <2>1 DEF LeftInv
    <3>2. ~Cleaned(h, a)
      <4>1. ASSUME pc = "push", obj.ref = h PROVE ComesBack(a)
        <5>1. approver[a] \in Seq(Object)
          BY ValueTypes DEF History, BaseInv
        <5>2. PICK i \in DOMAIN approver[a] : approver[a][i] = v
          BY <2>1, <5>1 DEF Versions
        <5> QED BY <1>3, <4>1, <5>2 DEF ComesBack, Contributes, Exists
      <4> QED BY <4>1 DEF Cleaned
    <3>3. ~Finalized(h, a)
      BY <1>3, <2>1, DeletionSeen DEF Finalized, BaseInv, CopyInv, Deleting, Past
    <3> QED BY <1>1, <3>1, <3>2, <3>3
  <2>2. CASE v = Stored(approver'[a])
    BY <1>3, <2>2 DEF Accounted
  <2> QED BY <2>1, <2>2, VersionsAdvance DEF Advances
<1>4. ASSUME pc' = "push", obj'.ref = h, HasEntry(doc', a) PROVE Accounted(h, a)'
  <2>1. CASE Renders
    <3>1. Contributes(Observed(approver[a])) /\ obj.ref = h
      BY <1>4, <2>1 DEF Renders, Rendered, HasEntry
    <3>2. /\ Observed(approver[a]) \in Versions(approver[a])
          /\ Observed(approver[a]).life = "live" /\ Observed(approver[a]).ref = h
      BY <3>1, ValueTypes, EndVersions DEF BaseInv, Contributes, Exists
    <3>3. Accounted(h, a)
      BY <3>2 DEF LeftInv
    <3>4. approver' = approver /\ left' = left
      BY <2>1 DEF Renders, kube, ghosts
    <3> QED BY <3>3, <3>4 DEF Accounted
  <2>2. CASE Outside
    <3>1. pc = "push" /\ obj.ref = h /\ HasEntry(doc, a) /\ pc' = pc
      BY <1>4, <2>2 DEF Outside
    <3>2. Accounted(h, a)
      BY <3>1 DEF LeftInv
    <3> QED BY <1>1, <3>1, <3>2 DEF Cleaned, Finalized
  <2>3. CASE Begins \/ Ends \/ AddFinalizer \/ GivesUp \/ Finds \/ Push
    BY <1>4, <2>3 DEF Begins, FirstCall, Ends, Forget, AddFinalizer, GivesUp, WithoutPush,
       Finds, Push, Goto, Report
  <2> QED BY <2>1, <2>2, <2>3, PassEvolution DEF BaseInv
<1>5. ASSUME pc' = "push", Deleting', cur' = a PROVE ~HasEntry(doc', a)
  <2>1. CASE Renders
    <3>1. /\ pc # "idle" /\ cur = a /\ Deleting
          /\ approver[a] \in History(Object)
      BY <1>5, <2>1, ValueTypes DEF Renders, Deleting, BaseInv
    <3>2. Observed(approver[a]) \in Past
      BY <3>1, EndVersions, DeletionSeen
    <3>3. ~Contributes(Observed(approver[a]))
      BY <3>2 DEF Contributes, Exists, Past
    <3> QED BY <2>1, <3>3 DEF Renders, Rendered, HasEntry
  <2>2. CASE Outside
    BY <1>5, <2>2 DEF Outside, LeftInv, Deleting
  <2>3. CASE Begins \/ Ends \/ AddFinalizer \/ GivesUp \/ Finds \/ Push
    BY <1>5, <2>3 DEF Begins, FirstCall, Ends, Forget, AddFinalizer, GivesUp, WithoutPush,
       Finds, Push, Goto, Report
  <2> QED BY <2>1, <2>2, <2>3, PassEvolution DEF BaseInv
<1>6. ASSUME pc' = "removeFinalizer", obj'.ref = h, cur' = a
      PROVE  <<h, a>> \in left' \/ ~HasEntry(policy'[h], a)
  <2>1. CASE Push
    <3>1. /\ pc = "push" /\ Deleting /\ cur = a /\ obj.ref = h
          /\ policy' = [policy EXCEPT ![obj.ref] = doc]
      BY <1>6, <2>1 DEF Push, SetPolicy, Goto, Report
    <3>2. policy'[h] = doc /\ ~HasEntry(doc, a)
      BY <3>1 DEF LeftInv, BaseInv, TypeOK
    <3> QED BY <3>2
  <2>2. CASE GivesUp
    BY <1>6, <2>2 DEF GivesUp, WithoutPush, Goto, Report
  <2>3. CASE Outside
    <3>1. pc = "removeFinalizer" /\ obj.ref = h /\ cur = a
      BY <1>6, <2>3 DEF Outside
    <3>2. <<h, a>> \in left => <<h, a>> \in left'
      BY <3>1, LeftEvolution DEF Cleaned
    <3>3. ~HasEntry(policy[h], a) => ~HasEntry(policy'[h], a)
      BY <1>n, <3>1, PolicyEvolution
    <3> QED BY <3>1, <3>2, <3>3 DEF LeftInv
  <2>4. CASE Begins \/ Ends \/ AddFinalizer \/ Finds \/ Renders
    BY <1>6, <2>4 DEF Begins, FirstCall, Ends, Forget, AddFinalizer, Finds, Renders, Goto
  <2> QED BY <2>1, <2>2, <2>3, <2>4, PassEvolution DEF BaseInv
<1> QED BY <1>2, <1>3, <1>4, <1>5, <1>6

\* The entries of a finalized object are out of every policy, and no sibling brings
\* them back, but where handleDeletion gave up on the push or the object had moved.
THEOREM FinalizedSafe == Spec => []FinalizedLeavesNoEntries
<1>1. Init => FinalInv
  <2> SUFFICES ASSUME Init, NEW h \in Headscales, NEW a \in Approvers
               PROVE  /\ ~HasEntry(policy[h], a) /\ pc = "idle"
                      /\ \A v \in Versions(approver[a]) : v.life # "live"
    BY BaseInit DEF FinalInv, LeftInv
  <2>1. approver[a] = <<Absent>> /\ policy[h] = NoPolicy /\ pc = "idle"
    BY DEF Init
  <2>2. Versions(approver[a]) = {Absent}
    <3>1. Len(approver[a]) = 1 /\ approver[a][1] = Absent
      BY <2>1
    <3> QED BY <3>1 DEF Versions
  <2>3. Absent.life # "live" /\ NoPolicy.entries = {}
    BY DEF Absent, NoPolicy
  <2> QED BY <2>1, <2>2, <2>3, Zenon DEF HasEntry
<1>2. FinalInv /\ [Next]_vars => FinalInv'
  BY BaseStep, LeftStep DEF FinalInv
<1>3. FinalInv => FinalizedLeavesNoEntries
  BY DEF FinalInv, LeftInv, FinalizedLeavesNoEntries, HasEntry, Accounted
<1> QED BY <1>1, <1>2, <1>3, PTL DEF Spec
=============================================================================
