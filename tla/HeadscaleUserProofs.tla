------------------------- MODULE HeadscaleUserProofs -------------------------
(***************************************************************************)
(* Theorems about HeadscaleUser, for any set of objects and usernames and  *)
(* any bounds.                                                             *)
(***************************************************************************)
EXTENDS HeadscaleUser, KubeObjectProofs

-----------------------------------------------------------------------------
(* Types.                                                                  *)

\* Storing an object keeps every history a history.
LEMMA StoreType ==
  ASSUME TypeOK, NEW u \in Users, NEW o \in Object, Store(u, o)
  PROVE  user' \in [Users -> History(Object)]
  BY WrittenHistory DEF TypeOK, Store

\* The versions a reconciler writes are objects.
LEMMA WrittenTypes ==
  ASSUME NEW o \in Object, NEW id \in Nat, NEW r \in Reasons
  PROVE  /\ WithFinalizer(o) \in Object /\ WithUserID(o, id) \in Object
         /\ WithReady(o, r) \in Object /\ Removed(o) \in Object
         /\ Absent \in Object
  BY DEF Object, WithFinalizer, WithUserID, WithReady, Removed, Absent, Lives,
         Reasons

\* The stored and the observed version of a key are objects.
LEMMA VersionTypes ==
  ASSUME TypeOK, NEW u \in Users
  PROVE  Stored(user[u]) \in Object /\ Observed(user[u]) \in Object
  BY DEF TypeOK, History, Stored, Observed

\* A spent budget stays within its bound.
LEMMA FaultType ==
  ASSUME TypeOK, Fault
  PROVE  faults' \in Nat
  BY DEF TypeOK, Fault

\* An Update that fails leaves a history, whether or not it took effect.
LEMMA UpdateFailedType ==
  ASSUME TypeOK, cur \in Users, NEW o \in Object, UpdateFailed(o)
  PROVE  user' \in [Users -> History(Object)] /\ faults' \in Nat
<1>1. CASE UNCHANGED <<user, faults>>
  BY <1>1 DEF TypeOK
<1>2. CASE Fault /\ UNCHANGED user
  BY <1>2, FaultType DEF TypeOK
<1>3. CASE Fault /\ Store(cur, o)
  BY <1>3, FaultType, StoreType
<1> QED BY <1>1, <1>2, <1>3 DEF UpdateFailed

\* Each step keeps the types.
LEMMA TypeStep == TypeOK /\ [Next]_vars => TypeOK'
<1> SUFFICES ASSUME TypeOK, [Next]_vars PROVE TypeOK'
    OBVIOUS
<1> USE BoundsAssumption
<1>a. ASSUME pc # "idle"
      PROVE  /\ cur \in Users /\ Stored(user[cur]) \in Object
             /\ obj \in Object /\ cond \in Reasons
             /\ WithFinalizer(obj) \in Object /\ Removed(obj) \in Object
             /\ WithUserID(obj, 0) \in Object /\ WithUserID(obj, nextId) \in Object
             /\ WithReady(Stored(user[cur]), cond) \in Object
             /\ \A o \in Object : Store(cur, o) => user' \in [Users -> History(Object)]
  BY <1>a, VersionTypes, WrittenTypes, StoreType DEF TypeOK
<1>b. Absent \in Object /\ "Unset" \in Reasons
  BY WrittenTypes DEF Absent, Object, Lives, Reasons
<1>f. ASSUME pc # "idle", NEW o \in Object, UpdateFailed(o)
      PROVE  user' \in [Users -> History(Object)] /\ faults' \in Nat
  BY <1>a, <1>f, UpdateFailedType
<1>1. ASSUME NEW u \in Users, Reconcile(u) PROVE TypeOK'
  <2>1. Observed(user[u]) \in Object /\ FirstCall(Observed(user[u])) \in Pcs
    BY VersionTypes DEF FirstCall, Pcs, LivePcs, DeletionPcs
  <2> QED BY <1>1, <2>1 DEF TypeOK, Reconcile, kube, server, budget, worker, InSync
<1>2. CASE AddFinalizer
  BY <1>2, <1>a DEF AddFinalizer, TypeOK, UpdateAccepted, Goto, server, budget,
                    Pcs, LivePcs
<1>3. CASE AddFinalizerFails
  BY <1>3, <1>a, <1>b, <1>f DEF AddFinalizerFails, TypeOK, Requeue,
                    Forget, server, Pcs
<1>4. CASE GetHeadscale
  BY <1>4, <1>a DEF GetHeadscale, TypeOK, Goto, AfterGetHeadscale, Report, kube,
                    server, budget, Pcs, LivePcs, Reasons, FailureReasons
<1>5. CASE GetHeadscaleFails
  BY <1>5, <1>a, <1>b, FaultType DEF GetHeadscaleFails, TypeOK, Requeue, Forget, kube,
                    server, Pcs
<1>6. CASE VerifyUser
  BY <1>6, <1>a DEF VerifyUser, TypeOK, Goto, Report, kube, server, budget, Pcs,
                    LivePcs, Reasons, ReadyReasons
<1>7. CASE VerifyUserFails
  BY <1>7, <1>a DEF VerifyUserFails, AfterVerifyError, TypeOK, Fault, Report, kube,
                    server, Pcs, Reasons, FailureReasons
<1>8. CASE ClearUserID
  BY <1>8, <1>a, <1>b DEF ClearUserID, TypeOK, UpdateAccepted, Finish, Forget, server,
                    budget, Pcs
<1>9. CASE ClearUserIDFails
  BY <1>9, <1>a, <1>b, <1>f DEF ClearUserIDFails, TypeOK, Requeue,
                    Forget, server, Pcs
<1>i. ASSUME NEW n \in Names, NEW k \in Users \cup {NoUser}, Insert(n, k)
      PROVE  db' \in [Names -> Row] /\ nextId' \in Nat \ {0}
  BY <1>i DEF Insert, TypeOK, Row
<1>n. pc # "idle" => Username[cur] \in Names
  BY <1>a, UsernameAssumption
<1>10. CASE CreateUser
  BY <1>10, <1>a, <1>i, <1>n DEF CreateUser, TypeOK, Goto, kube, budget, Pcs, LivePcs
<1>11. CASE CreateUserNameTaken
  BY <1>11, <1>a DEF CreateUserNameTaken, AfterNameTaken, TypeOK, Report, kube,
                    server, budget, Pcs, Reasons, FailureReasons
<1>12. CASE CreateUserFails
  BY <1>12, <1>a, <1>i, <1>n DEF CreateUserFails, TypeOK, Fault, Report, kube,
                    server, Pcs, Reasons, FailureReasons
<1>13. CASE RecordUserID
  BY <1>13, <1>a DEF RecordUserID, TypeOK, UpdateAccepted, Report, server, budget,
                    Pcs, Reasons, ReadyReasons
<1>14. CASE RecordUserIDFails
  BY <1>14, <1>a, <1>f DEF RecordUserIDFails, TypeOK, Report, server,
                    Pcs, Reasons, FailureReasons
<1>15. CASE PatchCondition
  BY <1>15, <1>a, <1>b DEF PatchCondition, AfterReport, TypeOK, Finish, Requeue,
                    Forget, server, budget, Pcs
<1>16. CASE PatchConditionFails
  <2>1. user' \in [Users -> History(Object)] /\ faults' \in Nat
    BY <1>16, <1>a, FaultType DEF PatchConditionFails, TypeOK
  <2> QED BY <1>16, <1>a, <1>b, <2>1 DEF PatchConditionFails, TypeOK, Requeue,
                    Forget, server, Pcs
<1>17. CASE Finalize
  BY <1>17, <1>a DEF Finalize, AfterFinalize, TypeOK, Goto, kube, server, budget, Pcs,
     DeletionPcs
<1>d. ASSUME Delete PROVE db' \in [Names -> Row] /\ nextId' = nextId
  BY <1>d DEF Delete, TypeOK, Row, NoRow
<1>18. CASE DeleteUser
  BY <1>18, <1>a, <1>d DEF DeleteUser, TypeOK, Goto, kube, budget, Pcs, DeletionPcs
<1>19. CASE DeleteUserUnknown
  BY <1>19, <1>a DEF DeleteUserUnknown, AfterDeleteError, TypeOK, Goto, kube, server,
                    budget, Pcs, DeletionPcs
<1>20. CASE DeleteUserFails
  BY <1>20, <1>a, <1>d DEF DeleteUserFails, AfterDeleteError, TypeOK, Fault, Goto,
                    kube, server, Pcs, DeletionPcs
<1>21. CASE RemoveFinalizer
  BY <1>21, <1>a, <1>b DEF RemoveFinalizer, TypeOK, UpdateAccepted, Finish, Forget,
                    server, budget, Pcs
<1>22. CASE RemoveFinalizerFails
  BY <1>22, <1>a, <1>b, <1>f DEF RemoveFinalizerFails, TypeOK, Requeue,
                    Forget, server, Pcs
<1>23. ASSUME NEW u \in Users, CreateObject(u) PROVE TypeOK'
  <2>1. [Absent EXCEPT !.life = "live"] \in Object
    BY DEF Absent, Object, Lives, Reasons
  <2>2. user' \in [Users -> History(Object)]
    BY <1>23, <2>1, StoreType DEF CreateObject
  <2> QED BY <1>23, <2>2 DEF CreateObject, TypeOK, server, worker, budget
<1>24. ASSUME NEW u \in Users, EditObject(u) PROVE TypeOK'
  <2>1. user' \in [Users -> History(Object)]
    BY <1>24, VersionTypes, StoreType DEF EditObject
  <2> QED BY <1>24, <2>1 DEF EditObject, TypeOK, Outdate, server
<1>25. ASSUME NEW u \in Users, DeleteObject(u) PROVE TypeOK'
  <2>1. /\ Removed(Stored(user[u])) \in Object
        /\ [Stored(user[u]) EXCEPT !.life = "deleting"] \in Object
    BY VersionTypes DEF Object, Lives, Removed
  <2>2. user' \in [Users -> History(Object)]
    BY <1>25, <2>1, StoreType DEF DeleteObject
  <2> QED BY <1>25, <2>2 DEF DeleteObject, TypeOK, Outdate, server, budget
<1>26. ASSUME NEW u \in Users, Deliver(u) PROVE TypeOK'
  <2>1. user' \in [Users -> History(Object)]
    BY <1>26, DeliveredHistory DEF Deliver, TypeOK
  <2> QED BY <1>26, <2>1 DEF Deliver, TypeOK, server, worker, budget
<1>27. ASSUME NEW u \in Users, Resync(u) PROVE TypeOK'
  BY <1>27 DEF Resync, TypeOK, kube, server, worker, budget
<1>28. CASE Crash
  <2>1. user' \in [Users -> History(Object)]
    BY <1>28, RelistedHistory DEF Crash, TypeOK
  <2>2. faults' \in Nat /\ queue' \subseteq Users
    BY <1>28, FaultType DEF Crash
  <2> QED BY <1>28, <1>b, <2>1, <2>2 DEF Crash, TypeOK, Forget, server, Pcs
<1>29. CASE ToggleHeadscale
  BY <1>29 DEF ToggleHeadscale, AdminStep, TypeOK, server, worker
<1>30. ASSUME NEW n \in Names, AdminDeleteUser(n) PROVE TypeOK'
  BY <1>30 DEF AdminDeleteUser, AdminStep, TypeOK, kube, worker, Row, NoRow
<1>31. ASSUME NEW n \in Names, AdminCreateUser(n) PROVE TypeOK'
  BY <1>31, <1>i DEF AdminCreateUser, AdminStep, TypeOK, kube, worker
<1>32. CASE UNCHANGED vars
  BY <1>32 DEF vars, TypeOK
<1> QED
  BY <1>1, <1>2, <1>3, <1>4, <1>5, <1>6, <1>7, <1>8, <1>9, <1>10, <1>11, <1>12,
     <1>13, <1>14, <1>15, <1>16, <1>17, <1>18, <1>19, <1>20, <1>21, <1>22, <1>23,
     <1>24, <1>25, <1>26, <1>27, <1>28, <1>29, <1>30, <1>31, <1>32
  DEF Next, Step, Environment

\* No object, no user and an idle worker (SetupWithManager before any event).
LEMMA InitType == Init => TypeOK
<1> SUFFICES ASSUME Init PROVE TypeOK
  OBVIOUS
<1>1. Absent \in Object /\ NoRow \in Row /\ "Unset" \in Reasons
  BY DEF Absent, Object, Lives, Reasons, Row, NoRow
<1>2. <<Absent>> \in History(Object)
  BY <1>1 DEF History
<1>3. 0 \in Nat
  OBVIOUS
<1>4. /\ user \in [Users -> History(Object)] /\ db \in [Names -> Row]
      /\ nextId \in Nat \ {0} /\ queue \subseteq Users
  BY <1>1, <1>2 DEF Init
<1>5. headscale \in BOOLEAN /\ fresh \in BOOLEAN
  BY Zenon DEF Init
<1> QED BY <1>1, <1>3, <1>4, <1>5 DEF Init, TypeOK, Pcs

\* The variables keep their types: every version of an object stays an object
\* and a worker that is busy has a key.
THEOREM TypeCorrect == Spec => []TypeOK
<1> QED BY InitType, TypeStep, PTL DEF Spec

-----------------------------------------------------------------------------
(* The finalizer is stored before a user is created.                       *)
(*                                                                         *)
(* The worker decides on a stale copy, so what it sees must bind what is   *)
(* stored: an object whose cached version is live and holds the finalizer  *)
(* still holds it, because only the worker takes it away, and only after   *)
(* the cache has shown it the deletion.                                    *)

Past(o) == o.life \in {"deleting", "gone"}

\* No version is live after one that was being deleted.
VersionsOrdered ==
  \A u \in Users : \A i, j \in 1..Len(user[u]) :
    i <= j /\ Past(user[u][i]) => Past(user[u][j])

\* A finalizer seen on a live version is still stored.
FinalizerStays ==
  \A u \in Users : \A i \in 1..Len(user[u]) :
    user[u][i].life = "live" /\ user[u][i].finalizer => Stored(user[u]).finalizer

\* Only objects that exist hold one.
FinalizerExists ==
  \A u \in Users : \A i \in 1..Len(user[u]) :
    user[u][i].finalizer => Exists(user[u][i])

HistoryInv == VersionsOrdered /\ FinalizerStays /\ FinalizerExists

\* What the worker's place says about its copy and about the stored object.
Holding == {"getHeadscale", "verify", "clearUserID", "create", "recordUserID"}

WorkerInv ==
  /\ pc # "idle" => Exists(obj)
  /\ fresh => pc # "idle" /\ obj.life = Stored(user[cur]).life
  /\ pc \in DeletionPcs => \A i \in 1..Len(user[cur]) : Past(user[cur][i])
  /\ pc \in Holding => obj.finalizer /\ Stored(user[cur]).finalizer

FinalizerInv == TypeOK /\ HistoryInv /\ WorkerInv

\* What a write makes of the versions of its object, and of the others.
LEMMA StoredHistory ==
  ASSUME TypeOK, NEW u \in Users, NEW o \in Object, Store(u, o)
  PROVE  /\ Len(user[u]) \in Nat \ {0}
         /\ user'[u] = Written(user[u], o)
         /\ Len(user'[u]) = Len(user[u]) + 1
         /\ Stored(user'[u]) = o /\ user'[u][Len(user[u]) + 1] = o
         /\ \A i \in 1..Len(user[u]) : user'[u][i] = user[u][i]
         /\ \A v \in Users \ {u} : user'[v] = user[v]
<1> DEFINE h == user[u]
<1>1. /\ h \in History(Object) /\ user'[u] = Written(h, o)
      /\ \A v \in Users \ {u} : user'[v] = user[v]
  BY DEF TypeOK, Store
<1> HIDE DEF h
<1>2. Len(h) \in Nat \ {0} BY <1>1, WrittenHistory
<1>3. Len(Written(h, o)) = Len(h) + 1 BY <1>1, WrittenHistory
<1>4. Stored(Written(h, o)) = o BY <1>1, WrittenHistory
<1>5. Written(h, o)[Len(h) + 1] = o BY <1>1, WrittenHistory
<1>6. \A i \in 1..Len(h) : Written(h, o)[i] = h[i] BY <1>1, WrittenHistory
<1> QED BY <1>1, <1>2, <1>3, <1>4, <1>5, <1>6 DEF h

\* A write keeps the histories in order when it does not revive an object and
\* drops a stored finalizer only when every version in sight is past.
LEMMA StoreKeepsHistory ==
  ASSUME TypeOK, HistoryInv, NEW u \in Users, NEW o \in Object, Store(u, o),
         Past(Stored(user[u])) => Past(o),
         o.finalizer => Exists(o),
         \/ Stored(user[u]).finalizer => o.finalizer
         \/ \A i \in 1..Len(user[u]) : Past(user[u][i])
  PROVE  HistoryInv'
<1>1. /\ Len(user[u]) \in Nat \ {0}
      /\ user'[u] = Written(user[u], o)
      /\ Len(user'[u]) = Len(user[u]) + 1
      /\ Stored(user'[u]) = o /\ user'[u][Len(user[u]) + 1] = o
      /\ \A i \in 1..Len(user[u]) : user'[u][i] = user[u][i]
  BY StoredHistory
<1>2. \A v \in Users \ {u} : user'[v] = user[v]
  BY StoredHistory
<1>3. VersionsOrdered'
  <2> SUFFICES ASSUME NEW v \in Users, NEW i \in 1..Len(user'[v]),
                      NEW j \in 1..Len(user'[v]), i <= j, Past(user'[v][i])
               PROVE  Past(user'[v][j])
    BY DEF VersionsOrdered, Past
  <2>1. CASE v # u
    BY <2>1, <1>2 DEF HistoryInv, VersionsOrdered
  <2>2. CASE v = u /\ j <= Len(user[u])
    <3>1. i \in 1..Len(user[u]) /\ j \in 1..Len(user[u])
      BY <2>2, <1>1
    <3> QED BY <2>2, <3>1, <1>1 DEF HistoryInv, VersionsOrdered
  <2>3. CASE v = u /\ j = Len(user[u]) + 1
    <3>1. CASE i = Len(user[u]) + 1
      BY <2>3, <3>1
    <3>2. CASE i \in 1..Len(user[u])
      <4>1. Past(user[u][Len(user[u])])
        BY <2>3, <3>2, <1>1 DEF HistoryInv, VersionsOrdered
      <4> QED BY <4>1, <2>3, <1>1 DEF Stored
    <3> QED BY <2>3, <3>1, <3>2, <1>1
  <2> QED BY <2>1, <2>2, <2>3, <1>1
<1>4. FinalizerStays'
  <2> SUFFICES ASSUME NEW v \in Users, NEW i \in 1..Len(user'[v]),
                      user'[v][i].life = "live", user'[v][i].finalizer
               PROVE  Stored(user'[v]).finalizer
    BY DEF FinalizerStays, Stored
  <2>1. CASE v # u
    BY <2>1, <1>2 DEF HistoryInv, FinalizerStays
  <2>2. CASE v = u /\ i = Len(user[u]) + 1
    BY <2>2, <1>1
  <2>3. CASE v = u /\ i \in 1..Len(user[u])
    <3>1. Stored(user[u]).finalizer /\ ~Past(user[u][i])
      BY <2>3, <1>1 DEF HistoryInv, FinalizerStays, Past
    <3> QED BY <3>1, <2>3, <1>1
  <2> QED BY <2>1, <2>2, <2>3, <1>1
<1>5. FinalizerExists'
  <2> SUFFICES ASSUME NEW v \in Users, NEW i \in 1..Len(user'[v]),
                      user'[v][i].finalizer
               PROVE  Exists(user'[v][i])
    BY DEF FinalizerExists, Exists
  <2>1. CASE v # u
    BY <2>1, <1>2 DEF HistoryInv, FinalizerExists
  <2>2. CASE v = u /\ i = Len(user[u]) + 1
    BY <2>2, <1>1
  <2>3. CASE v = u /\ i \in 1..Len(user[u])
    BY <2>3, <1>1 DEF HistoryInv, FinalizerExists
  <2> QED BY <2>1, <2>2, <2>3, <1>1
<1> QED BY <1>3, <1>4, <1>5 DEF HistoryInv

\* Watch events and relists only take versions away.
LEMMA DeliverKeepsHistory ==
  ASSUME TypeOK, HistoryInv, NEW u \in Users, Deliver(u)
  PROVE  /\ HistoryInv'
         /\ \A v \in Users : Stored(user'[v]) = Stored(user[v])
         /\ \A v \in Users : (\A i \in 1..Len(user[v]) : Past(user[v][i]))
                               => (\A i \in 1..Len(user'[v]) : Past(user'[v][i]))
<1>1. /\ user'[u] = Delivered(user[u]) /\ Len(user[u]) \in Nat \ {0, 1}
      /\ Len(user'[u]) = Len(user[u]) - 1
      /\ Stored(user'[u]) = Stored(user[u])
      /\ \A i \in 1..(Len(user[u]) - 1) : user'[u][i] = user[u][i + 1]
  BY DeliveredHistory DEF TypeOK, Deliver
<1>2. \A v \in Users \ {u} : user'[v] = user[v]
  BY DEF TypeOK, Deliver
<1>3. \A i \in 1..Len(user'[u]) : i + 1 \in 1..Len(user[u]) /\ user'[u][i] = user[u][i + 1]
  BY <1>1
<1>4. VersionsOrdered'
  <2> SUFFICES ASSUME NEW v \in Users, NEW i \in 1..Len(user'[v]),
                      NEW j \in 1..Len(user'[v]), i <= j, Past(user'[v][i])
               PROVE  Past(user'[v][j])
    BY DEF VersionsOrdered, Past
  <2>1. CASE v # u
    BY <2>1, <1>2 DEF HistoryInv, VersionsOrdered
  <2>2. CASE v = u
    <3>1. i + 1 <= j + 1 /\ i + 1 \in 1..Len(user[u]) /\ j + 1 \in 1..Len(user[u])
      BY <2>2, <1>3
    <3> QED BY <2>2, <3>1, <1>3 DEF HistoryInv, VersionsOrdered
  <2> QED BY <2>1, <2>2
<1>5. FinalizerStays'
  BY <1>1, <1>2, <1>3 DEF HistoryInv, FinalizerStays, Stored
<1>6. FinalizerExists'
  BY <1>2, <1>3 DEF HistoryInv, FinalizerExists, Exists
<1>7. \A v \in Users : Stored(user'[v]) = Stored(user[v])
  BY <1>1, <1>2
<1>8. ASSUME NEW v \in Users, \A i \in 1..Len(user[v]) : Past(user[v][i]),
             NEW i \in 1..Len(user'[v])
      PROVE  Past(user'[v][i])
  BY <1>8, <1>2, <1>3
<1> QED BY <1>4, <1>5, <1>6, <1>7, <1>8 DEF HistoryInv

\* A restarted manager lists the objects: the cache jumps to the stored versions.
LEMMA CrashKeepsHistory ==
  ASSUME TypeOK, HistoryInv, Crash
  PROVE  HistoryInv'
<1>1. \A v \in Users : /\ Len(user'[v]) = 1 /\ Len(user[v]) \in Nat \ {0}
                       /\ Stored(user'[v]) = Stored(user[v])
                       /\ user'[v][1] = user[v][Len(user[v])]
  BY RelistedHistory DEF TypeOK, Crash
<1>2. ASSUME NEW v \in Users, NEW i \in 1..Len(user'[v])
      PROVE  i = 1 /\ Len(user[v]) \in 1..Len(user[v])
  <2>1. Len(user'[v]) = 1 /\ Len(user[v]) \in Nat \ {0}
    BY <1>1
  <2> QED BY <1>2, <2>1
<1>3. VersionsOrdered'
  BY <1>2 DEF VersionsOrdered, Past
<1>4. FinalizerStays' /\ FinalizerExists'
  BY <1>1, <1>2 DEF HistoryInv, FinalizerStays, FinalizerExists, Exists, Stored
<1> QED BY <1>3, <1>4 DEF HistoryInv

\* The worker's facts hold of any idle worker.
LEMMA IdleWorker == pc = "idle" /\ ~fresh => WorkerInv
  BY DEF WorkerInv, DeletionPcs, Holding

\* A reconciler that has returned, or was restarted, asserts nothing.
LEMMA ForgetWorker == Forget => WorkerInv'
  BY DEF Forget, WorkerInv, DeletionPcs, Holding

\* The versions the worker writes at each of its calls.
Writable(o) ==
  \/ pc = "addFinalizer" /\ o = WithFinalizer(obj)
  \/ pc = "clearUserID" /\ o = WithUserID(obj, 0)
  \/ pc = "recordUserID" /\ o = obj
  \/ pc = "removeFinalizer" /\ o = Removed(obj)

\* An Update or Status().Update of the worker's copy that the API server accepts
\* was made from the stored version, so it keeps what the versions promise.
LEMMA WorkerWrite ==
  ASSUME FinalizerInv, NEW o \in Object, Writable(o), fresh, Store(cur, o)
  PROVE  HistoryInv'
<1>1. /\ cur \in Users /\ obj \in Object /\ Exists(obj)
      /\ obj.life = Stored(user[cur]).life
  BY DEF FinalizerInv, TypeOK, WorkerInv, Writable
<1>2. Past(Stored(user[cur])) => Past(o)
  BY <1>1 DEF Writable, Past, WithFinalizer, WithUserID, Removed, Object
<1>3. o.finalizer => Exists(o)
  BY <1>1 DEF Writable, Exists, WithFinalizer, WithUserID, Removed, Object
<1>4. \/ Stored(user[cur]).finalizer => o.finalizer
      \/ \A i \in 1..Len(user[cur]) : Past(user[cur][i])
  BY <1>1 DEF FinalizerInv, WorkerInv, Writable, Holding, DeletionPcs, WithFinalizer,
              WithUserID, Object
<1> QED BY <1>1, <1>2, <1>3, <1>4, StoreKeepsHistory DEF FinalizerInv

\* The same write when the worker cannot tell whether it took effect.
LEMMA WorkerWriteFails ==
  ASSUME FinalizerInv, NEW o \in Object, Writable(o), UpdateFailed(o)
  PROVE  HistoryInv'
<1>1. CASE user' = user
  BY <1>1 DEF FinalizerInv, HistoryInv, VersionsOrdered, FinalizerStays, FinalizerExists
<1>2. CASE fresh /\ Store(cur, o)
  BY <1>2, WorkerWrite
<1> QED BY <1>1, <1>2 DEF UpdateFailed

\* A patch of the condition.
LEMMA PatchWrite ==
  ASSUME FinalizerInv, pc = "patch", Exists(Stored(user[cur])),
         Store(cur, WithReady(Stored(user[cur]), cond))
  PROVE  HistoryInv'
<1> DEFINE s == Stored(user[cur])
<1>1. cur \in Users /\ s \in Object /\ cond \in Reasons
  BY VersionTypes DEF FinalizerInv, TypeOK
<1>2. WithReady(s, cond) \in Object
  BY <1>1, WrittenTypes
<1>3. /\ WithReady(s, cond).life = s.life
      /\ WithReady(s, cond).finalizer = s.finalizer
  BY <1>1 DEF WithReady, Object
<1>4. /\ Past(s) => Past(WithReady(s, cond))
      /\ WithReady(s, cond).finalizer => Exists(WithReady(s, cond))
  BY <1>3 DEF Past, Exists
<1> QED BY <1>1, <1>2, <1>3, <1>4, StoreKeepsHistory DEF FinalizerInv

\* A write by somebody else to a stored object that neither revives it nor
\* takes a finalizer away.
LEMMA OutsideWrite ==
  ASSUME FinalizerInv, NEW u \in Users, NEW o \in Object, Store(u, o),
         Outdate(u), UNCHANGED <<pc, cur, obj>>,
         Past(Stored(user[u])) => Past(o),
         o.finalizer => Exists(o),
         Stored(user[u]).finalizer => o.finalizer
  PROVE  HistoryInv' /\ WorkerInv'
<1>1. HistoryInv'
  BY StoreKeepsHistory DEF FinalizerInv
<1>2. /\ Stored(user'[u]) = o
      /\ \A v \in Users \ {u} : user'[v] = user[v]
  BY StoredHistory DEF FinalizerInv
<1>3. pc # "idle" => cur \in Users
  BY DEF FinalizerInv, TypeOK
<1>4. ASSUME fresh' PROVE pc' # "idle" /\ obj'.life = Stored(user'[cur']).life
  BY <1>4, <1>2, <1>3 DEF FinalizerInv, WorkerInv, Outdate
<1>5. ASSUME pc \in DeletionPcs, NEW i \in 1..Len(user'[cur]) PROVE Past(user'[cur][i])
  <2>1. cur \in Users /\ \A j \in 1..Len(user[cur]) : Past(user[cur][j])
    BY <1>5, <1>3 DEF FinalizerInv, WorkerInv, DeletionPcs
  <2>2. CASE cur # u
    BY <2>1, <2>2, <1>2, <1>5
  <2>3. CASE cur = u
    <3>1. /\ Len(user[u]) \in Nat \ {0} /\ Len(user'[u]) = Len(user[u]) + 1
          /\ \A j \in 1..Len(user[u]) : user'[u][j] = user[u][j]
          /\ user'[u][Len(user[u]) + 1] = o
      BY StoredHistory DEF FinalizerInv
    <3>2. Past(Stored(user[u]))
      BY <2>1, <2>3, <3>1 DEF Stored
    <3> QED BY <2>1, <2>3, <3>1, <3>2, <1>5
  <2> QED BY <2>2, <2>3
<1>6. ASSUME pc \in Holding PROVE obj.finalizer /\ Stored(user'[cur]).finalizer
  <2>1. cur \in Users /\ obj.finalizer /\ Stored(user[cur]).finalizer
    BY <1>6, <1>3 DEF FinalizerInv, WorkerInv, Holding
  <2> QED BY <2>1, <1>2
<1>7. WorkerInv'
  BY <1>4, <1>5, <1>6 DEF FinalizerInv, WorkerInv
<1> QED BY <1>1, <1>7

\* Each step keeps the invariant.
LEMMA FinalizerStep == FinalizerInv /\ [Next]_vars => FinalizerInv'
<1> SUFFICES ASSUME FinalizerInv, [Next]_vars PROVE FinalizerInv'
    OBVIOUS
<1>t. TypeOK /\ TypeOK'
  BY TypeStep DEF FinalizerInv
<1> SUFFICES HistoryInv' /\ WorkerInv'
  BY <1>t DEF FinalizerInv
<1>b. ASSUME pc # "idle"
      PROVE  /\ cur \in Users /\ obj \in Object
             /\ WithFinalizer(obj) \in Object /\ Removed(obj) \in Object
             /\ WithUserID(obj, 0) \in Object /\ obj.life \in {"live", "deleting"}
  BY <1>b, WrittenTypes DEF FinalizerInv, TypeOK, WorkerInv, Exists
<1>u. ASSUME UNCHANGED user PROVE HistoryInv'
  BY <1>u DEF FinalizerInv, HistoryInv, VersionsOrdered, FinalizerStays,
              FinalizerExists
<1>s. ASSUME UNCHANGED <<user, cur, obj, fresh>>, pc # "idle", pc' # "idle",
             pc' \in DeletionPcs => pc \in DeletionPcs,
             pc' \in Holding => pc \in Holding
      PROVE  HistoryInv' /\ WorkerInv'
  BY <1>s, <1>u DEF FinalizerInv, WorkerInv
<1>w. ASSUME UNCHANGED <<user, pc, cur, obj, fresh>> PROVE HistoryInv' /\ WorkerInv'
  BY <1>w, <1>u DEF FinalizerInv, WorkerInv
<1>1. ASSUME NEW u \in Users, Reconcile(u) PROVE HistoryInv' /\ WorkerInv'
  <2>1. HistoryInv'
    BY <1>1, <1>u DEF Reconcile, kube
  <2> DEFINE o == Observed(user[u])
  <2>2. o \in Object /\ Len(user[u]) \in Nat \ {0}
    BY <1>t, VersionTypes DEF TypeOK, History
  <2>3. CASE ~(Exists(o) /\ FirstCall(o) # "idle")
    BY <1>1, <2>3, <1>w DEF Reconcile, kube, worker
  <2>4. CASE Exists(o) /\ FirstCall(o) # "idle"
    <3>1. /\ pc' = FirstCall(o) /\ cur' = u /\ obj' = o
          /\ fresh' = InSync(user[u]) /\ user' = user
      BY <1>1, <2>4 DEF Reconcile, kube
    <3>2. fresh' => o = Stored(user[u])
      BY <3>1 DEF InSync, Stored, Observed
    <3>3. 1 \in 1..Len(user[u]) /\ o = user[u][1]
      BY <2>2 DEF Observed
    <3>4. pc' \in DeletionPcs => \A i \in 1..Len(user[u]) : Past(user[u][i])
      <4>1. pc' \in DeletionPcs => o.life = "deleting"
        BY <3>1 DEF FirstCall, DeletionPcs
      <4> QED BY <4>1, <3>3 DEF FinalizerInv, HistoryInv, VersionsOrdered, Past
    <3>5. pc' \in Holding => o.finalizer /\ Stored(user[u]).finalizer
      <4>1. pc' \in Holding => o.finalizer /\ o.life = "live"
        BY <3>1, <2>4 DEF FirstCall, Holding, Exists
      <4> QED BY <4>1, <3>3 DEF FinalizerInv, HistoryInv, FinalizerStays
    <3> QED BY <2>1, <2>4, <3>1, <3>2, <3>4, <3>5 DEF WorkerInv
  <2> QED BY <2>1, <2>3, <2>4
<1>2. CASE AddFinalizer
  <2>1. /\ fresh /\ Store(cur, WithFinalizer(obj)) /\ Writable(WithFinalizer(obj))
        /\ obj' = WithFinalizer(obj) /\ pc' = "getHeadscale"
        /\ cur' = cur /\ pc # "idle"
    BY <1>2 DEF AddFinalizer, UpdateAccepted, Writable, Goto
  <2>2. Stored(user'[cur]) = WithFinalizer(obj)
    BY <2>1, <1>b, <1>t, StoredHistory
  <2>3. WithFinalizer(obj).finalizer /\ WithFinalizer(obj).life = obj.life
    BY <2>1, <1>b DEF WithFinalizer, Object
  <2>4. WorkerInv'
    BY <2>1, <2>2, <2>3, <1>b DEF WorkerInv, Exists, DeletionPcs
  <2> QED BY <2>1, <2>4, <1>b, WorkerWrite
<1>3. CASE AddFinalizerFails
  BY <1>3, <1>b, WorkerWriteFails, ForgetWorker
     DEF AddFinalizerFails, Requeue, Writable
<1>4. CASE GetHeadscale
  BY <1>4, <1>s DEF GetHeadscale, Goto, AfterGetHeadscale, Report, kube, DeletionPcs,
                    Holding
<1>5. CASE GetHeadscaleFails
  BY <1>5, <1>u, ForgetWorker DEF GetHeadscaleFails, Requeue, kube
<1>6. CASE VerifyUser
  BY <1>6, <1>s DEF VerifyUser, Goto, Report, kube, DeletionPcs, Holding
<1>7. CASE VerifyUserFails
  BY <1>7, <1>s DEF VerifyUserFails, AfterVerifyError, Report, kube, DeletionPcs,
                    Holding
<1>8. CASE ClearUserID
  BY <1>8, <1>b, WorkerWrite, ForgetWorker
     DEF ClearUserID, UpdateAccepted, Finish, Writable
<1>9. CASE ClearUserIDFails
  BY <1>9, <1>b, WorkerWriteFails, ForgetWorker
     DEF ClearUserIDFails, Requeue, Writable
<1>10. CASE CreateUser
  <2>1. /\ UNCHANGED <<user, cur, fresh>> /\ pc = "create" /\ pc' = "recordUserID"
        /\ obj' = WithUserID(obj, nextId)
    BY <1>10 DEF CreateUser, Goto, kube
  <2>2. obj'.life = obj.life /\ obj'.finalizer = obj.finalizer
    BY <2>1, <1>b DEF WithUserID, Object
  <2> QED BY <2>1, <2>2, <1>u DEF FinalizerInv, WorkerInv, Holding, DeletionPcs, Exists
<1>11. CASE CreateUserNameTaken
  BY <1>11, <1>s DEF CreateUserNameTaken, AfterNameTaken, Report, kube, DeletionPcs,
                     Holding
<1>12. CASE CreateUserFails
  BY <1>12, <1>s DEF CreateUserFails, Report, kube, DeletionPcs, Holding
<1>13. CASE RecordUserID
  <2>1. /\ fresh /\ Store(cur, obj) /\ Writable(obj) /\ obj' = obj
        /\ pc' = "patch" /\ cur' = cur /\ pc # "idle"
    BY <1>13 DEF RecordUserID, UpdateAccepted, Writable, Report
  <2>2. Stored(user'[cur]) = obj
    BY <2>1, <1>b, <1>t, StoredHistory
  <2>3. WorkerInv'
    BY <2>1, <2>2, <1>b DEF WorkerInv, Exists, DeletionPcs, Holding
  <2> QED BY <2>1, <2>3, <1>b, WorkerWrite
<1>14. CASE RecordUserIDFails
  <2>1. /\ UpdateFailed(obj) /\ Writable(obj) /\ pc' = "patch" /\ pc # "idle"
        /\ UNCHANGED <<cur, obj, fresh>>
    BY <1>14 DEF RecordUserIDFails, Writable, Report
  <2>2. HistoryInv'
    BY <2>1, <1>b, WorkerWriteFails
  <2>3. fresh => obj.life = Stored(user'[cur]).life
    <3>1. CASE UNCHANGED user
      BY <3>1 DEF FinalizerInv, WorkerInv
    <3>2. CASE Store(cur, obj)
      BY <3>2, <2>1, <1>b, <1>t, StoredHistory
    <3> QED BY <2>1, <3>1, <3>2 DEF UpdateFailed
  <2>4. WorkerInv'
    BY <2>1, <2>3, <1>b DEF WorkerInv, Exists, DeletionPcs, Holding
  <2> QED BY <2>2, <2>4
<1>15. CASE PatchCondition
  <2>1. CASE UNCHANGED user
    BY <1>15, <2>1, <1>u, ForgetWorker
       DEF PatchCondition, AfterReport, Finish, Requeue
  <2>2. CASE ~UNCHANGED user
    BY <1>15, <2>2, PatchWrite, ForgetWorker
       DEF PatchCondition, AfterReport, Finish, Requeue
  <2> QED BY <2>1, <2>2
<1>16. CASE PatchConditionFails
  <2>1. CASE UNCHANGED user
    BY <1>16, <2>1, <1>u, ForgetWorker DEF PatchConditionFails, Requeue
  <2>2. CASE ~UNCHANGED user
    BY <1>16, <2>2, PatchWrite, ForgetWorker DEF PatchConditionFails, Requeue
  <2> QED BY <2>1, <2>2
<1>17. CASE Finalize
  BY <1>17, <1>s DEF Finalize, AfterFinalize, Goto, kube, DeletionPcs, Holding
<1>18. CASE DeleteUser
  BY <1>18, <1>s DEF DeleteUser, Goto, kube, DeletionPcs, Holding
<1>19. CASE DeleteUserUnknown
  BY <1>19, <1>s DEF DeleteUserUnknown, AfterDeleteError, Goto, kube, DeletionPcs,
                     Holding
<1>20. CASE DeleteUserFails
  BY <1>20, <1>s DEF DeleteUserFails, AfterDeleteError, Goto, kube, DeletionPcs, Holding
<1>21. CASE RemoveFinalizer
  BY <1>21, <1>b, WorkerWrite, ForgetWorker
     DEF RemoveFinalizer, UpdateAccepted, Finish, Writable
<1>22. CASE RemoveFinalizerFails
  BY <1>22, <1>b, WorkerWriteFails, ForgetWorker
     DEF RemoveFinalizerFails, Requeue, Writable
<1>e. ASSUME NEW u \in Users
      PROVE  /\ Stored(user[u]) \in Object
             /\ Stored(user[u]).finalizer => Exists(Stored(user[u]))
  <2>1. Len(user[u]) \in 1..Len(user[u]) /\ Stored(user[u]) \in Object
    BY <1>t, VersionTypes DEF TypeOK, History
  <2> QED BY <2>1 DEF FinalizerInv, HistoryInv, FinalizerExists, Stored
<1>23. ASSUME NEW u \in Users, CreateObject(u) PROVE HistoryInv' /\ WorkerInv'
  <2> DEFINE o == [Absent EXCEPT !.life = "live"]
  <2>1. /\ Stored(user[u]).life = "none" /\ Store(u, o) /\ UNCHANGED worker
        /\ o \in Object /\ o.life = "live" /\ ~o.finalizer
    BY <1>23 DEF CreateObject, Absent, Object, Lives, Reasons
  <2>2. ~Past(Stored(user[u])) /\ ~Stored(user[u]).finalizer
    BY <2>1, <1>e DEF Past, Exists
  <2>3. ~(fresh /\ cur = u)
    BY <2>1 DEF FinalizerInv, WorkerInv, Exists
  <2>4. Outdate(u) /\ UNCHANGED <<pc, cur, obj>>
    BY <2>1, <2>3, <1>t DEF Outdate, worker, TypeOK
  <2> HIDE DEF o
  <2> QED BY <2>1, <2>2, <2>4, OutsideWrite
<1>24. ASSUME NEW u \in Users, EditObject(u) PROVE HistoryInv' /\ WorkerInv'
  BY <1>24, <1>e, OutsideWrite DEF EditObject
<1>25. ASSUME NEW u \in Users, DeleteObject(u) PROVE HistoryInv' /\ WorkerInv'
  <2> DEFINE o == IF Stored(user[u]).finalizer
                  THEN [Stored(user[u]) EXCEPT !.life = "deleting"]
                  ELSE Removed(Stored(user[u]))
  <2>1. /\ Store(u, o) /\ Outdate(u) /\ UNCHANGED <<pc, cur, obj>>
        /\ o \in Object /\ Past(o) /\ o.finalizer = Stored(user[u]).finalizer
        /\ o.finalizer => Exists(o)
    BY <1>25, <1>e DEF DeleteObject, Removed, Object, Lives, Past, Exists
  <2> HIDE DEF o
  <2> QED BY <2>1, OutsideWrite
<1>26. ASSUME NEW u \in Users, Deliver(u) PROVE HistoryInv' /\ WorkerInv'
  <2>1. /\ HistoryInv'
        /\ \A v \in Users : Stored(user'[v]) = Stored(user[v])
        /\ \A v \in Users : (\A i \in 1..Len(user[v]) : Past(user[v][i]))
                               => (\A i \in 1..Len(user'[v]) : Past(user'[v][i]))
    BY <1>26, <1>t, DeliverKeepsHistory DEF FinalizerInv
  <2>2. UNCHANGED <<pc, cur, obj, fresh>>
    BY <1>26 DEF Deliver, worker
  <2>3. WorkerInv'
    BY <2>1, <2>2, <1>b DEF FinalizerInv, WorkerInv, DeletionPcs, Holding
  <2> QED BY <2>1, <2>3
<1>27. ASSUME NEW u \in Users, Resync(u) PROVE HistoryInv' /\ WorkerInv'
  BY <1>27, <1>w DEF Resync, kube, worker
<1>28. CASE Crash
  BY <1>28, <1>t, CrashKeepsHistory, ForgetWorker DEF Crash, FinalizerInv
<1>29. CASE ToggleHeadscale
  BY <1>29, <1>w DEF ToggleHeadscale, worker
<1>30. ASSUME NEW n \in Names, AdminDeleteUser(n) \/ AdminCreateUser(n)
       PROVE  HistoryInv' /\ WorkerInv'
  BY <1>30, <1>w DEF AdminDeleteUser, AdminCreateUser, kube, worker
<1>31. CASE UNCHANGED vars
  BY <1>31, <1>w DEF vars
<1> QED
  BY <1>1, <1>2, <1>3, <1>4, <1>5, <1>6, <1>7, <1>8, <1>9, <1>10, <1>11, <1>12,
     <1>13, <1>14, <1>15, <1>16, <1>17, <1>18, <1>19, <1>20, <1>21, <1>22, <1>23,
     <1>24, <1>25, <1>26, <1>27, <1>28, <1>29, <1>30, <1>31
  DEF Next, Step, Environment

\* No version at the start is past or holds a finalizer.
LEMMA InitFinalizer == Init => FinalizerInv
<1> SUFFICES ASSUME Init PROVE FinalizerInv
  OBVIOUS
<1>1. TypeOK
  BY InitType
<1>2. \A u \in Users : Len(user[u]) = 1 /\ user[u][1] = Absent
  BY DEF Init
<1>3. ~Past(Absent) /\ ~Absent.finalizer
  BY DEF Past, Absent
<1>4. \A u \in Users : \A i \in 1..Len(user[u]) : user[u][i] = Absent
  BY <1>2
<1>5. HistoryInv
  BY <1>3, <1>4 DEF HistoryInv, VersionsOrdered, FinalizerStays, FinalizerExists
<1>6. WorkerInv
  BY IdleWorker DEF Init
<1> QED BY <1>1, <1>5, <1>6 DEF FinalizerInv

\* The stored object holds the finalizer whenever the worker is about to create
\* a user in Headscale or to record the one it created, whatever the age of the
\* copy it decided on (ensureFinalizer before createUser).
THEOREM FinalizerSafe == Spec => []FinalizerBeforeCreate
<1>1. FinalizerInv => FinalizerBeforeCreate
  BY DEF FinalizerInv, WorkerInv, Holding, FinalizerBeforeCreate
<1> QED BY <1>1, InitFinalizer, FinalizerStep, PTL DEF Spec

-----------------------------------------------------------------------------
(* What a step does to the versions of an object.                          *)

\* The versions that are ever written, by the worker from a copy that is still
\* the latest, and by everybody else from the stored version.
NewVersion(u, o) ==
  \/ u = cur /\ pc # "idle" /\ fresh /\ Writable(o)
  \/ /\ Exists(Stored(user[u]))
     /\ o.life = Stored(user[u]).life /\ o.finalizer = Stored(user[u]).finalizer
     /\ o.userID = Stored(user[u]).userID
  \/ Stored(user[u]).life = "none" /\ o = [Absent EXCEPT !.life = "live"]
  \/ /\ Stored(user[u]).life = "live" /\ o.userID = Stored(user[u]).userID
     /\ o.finalizer = Stored(user[u]).finalizer
     /\ o.life = IF o.finalizer THEN "deleting" ELSE "gone"

Evolves(u) ==
  \/ UNCHANGED user[u]
  \/ Lag(user[u]) > 0 /\ user'[u] = Delivered(user[u]) /\ u \in queue'
  \/ /\ faults' = faults + 1 /\ pc' = "idle" /\ user'[u] = Relisted(user[u])
     /\ Exists(Stored(user[u])) => u \in queue'
  \/ \E o \in Object : user'[u] = Written(user[u], o) /\ NewVersion(u, o)

\* A write to one object leaves the others alone.
LEMMA StoreEvolves ==
  ASSUME TypeOK, NEW k \in Users, NEW o \in Object, Store(k, o), NewVersion(k, o)
  PROVE  \A u \in Users : Evolves(u)
<1>1. /\ user'[k] = Written(user[k], o)
      /\ \A u \in Users \ {k} : user'[u] = user[u]
  BY DEF TypeOK, Store
<1> QED BY <1>1 DEF Evolves

\* So does a call of the worker that may or may not have written its copy.
LEMMA WorkerEvolves ==
  ASSUME TypeOK, pc # "idle", NEW o \in Object, Writable(o),
         UNCHANGED user \/ (fresh /\ Store(cur, o))
  PROVE  \A u \in Users : Evolves(u)
<1>1. CASE UNCHANGED user
  BY <1>1 DEF Evolves
<1>2. CASE fresh /\ Store(cur, o)
  BY <1>2, StoreEvolves DEF TypeOK, NewVersion
<1> QED BY <1>1, <1>2

\* Every version of an object is one of these.
LEMMA Evolution ==
  ASSUME TypeOK, [Next]_vars
  PROVE  \A u \in Users : Evolves(u)
<1>a. ASSUME pc # "idle"
      PROVE  /\ cur \in Users /\ obj \in Object /\ Stored(user[cur]) \in Object
             /\ WithFinalizer(obj) \in Object /\ Removed(obj) \in Object
             /\ WithUserID(obj, 0) \in Object
             /\ WithReady(Stored(user[cur]), cond) \in Object
  BY <1>a, VersionTypes, WrittenTypes DEF TypeOK
<1>u. ASSUME UNCHANGED user PROVE \A u \in Users : Evolves(u)
  BY <1>u DEF Evolves
<1>1. CASE AddFinalizer \/ AddFinalizerFails
  <2>1. /\ pc # "idle" /\ Writable(WithFinalizer(obj))
        /\ (UNCHANGED user) \/ (fresh /\ Store(cur, WithFinalizer(obj)))
    BY <1>1 DEF AddFinalizer, AddFinalizerFails, UpdateAccepted, UpdateFailed, Writable
  <2> QED BY <2>1, <1>a, WorkerEvolves
<1>2. CASE ClearUserID \/ ClearUserIDFails
  <2>1. /\ pc # "idle" /\ Writable(WithUserID(obj, 0))
        /\ (UNCHANGED user) \/ (fresh /\ Store(cur, WithUserID(obj, 0)))
    BY <1>2 DEF ClearUserID, ClearUserIDFails, UpdateAccepted, UpdateFailed, Writable
  <2> QED BY <2>1, <1>a, WorkerEvolves
<1>3. CASE RecordUserID \/ RecordUserIDFails
  <2>1. /\ pc # "idle" /\ Writable(obj)
        /\ (UNCHANGED user) \/ (fresh /\ Store(cur, obj))
    BY <1>3 DEF RecordUserID, RecordUserIDFails, UpdateAccepted, UpdateFailed, Writable
  <2> QED BY <2>1, <1>a, WorkerEvolves
<1>4. CASE RemoveFinalizer \/ RemoveFinalizerFails
  <2>1. /\ pc # "idle" /\ Writable(Removed(obj))
        /\ (UNCHANGED user) \/ (fresh /\ Store(cur, Removed(obj)))
    BY <1>4 DEF RemoveFinalizer, RemoveFinalizerFails, UpdateAccepted, UpdateFailed, Writable
  <2> QED BY <2>1, <1>a, WorkerEvolves
<1>5. CASE PatchCondition \/ PatchConditionFails
  <2>1. CASE UNCHANGED user
    BY <2>1, <1>u
  <2>2. CASE ~UNCHANGED user
    <3> DEFINE o == WithReady(Stored(user[cur]), cond)
    <3>1. pc # "idle" /\ Exists(Stored(user[cur])) /\ Store(cur, o)
      BY <1>5, <2>2 DEF PatchCondition, PatchConditionFails
    <3>2. /\ o.life = Stored(user[cur]).life
          /\ o.finalizer = Stored(user[cur]).finalizer
          /\ o.userID = Stored(user[cur]).userID
      BY <3>1, <1>a DEF WithReady, Object
    <3> QED BY <3>1, <3>2, <1>a, StoreEvolves DEF NewVersion
  <2> QED BY <2>1, <2>2
<1>6. ASSUME NEW k \in Users, CreateObject(k) PROVE \A u \in Users : Evolves(u)
  <2>1. [Absent EXCEPT !.life = "live"] \in Object
    BY DEF Absent, Object, Lives, Reasons
  <2> QED BY <2>1, <1>6, StoreEvolves DEF CreateObject, NewVersion
<1>7. ASSUME NEW k \in Users, EditObject(k) PROVE \A u \in Users : Evolves(u)
  BY <1>7, VersionTypes, StoreEvolves DEF EditObject, NewVersion
<1>8. ASSUME NEW k \in Users, DeleteObject(k) PROVE \A u \in Users : Evolves(u)
  <2> DEFINE s == Stored(user[k])
             o == IF s.finalizer THEN [s EXCEPT !.life = "deleting"] ELSE Removed(s)
  <2>1. s \in Object /\ s.life = "live" /\ Store(k, o)
    BY <1>8, VersionTypes DEF DeleteObject
  <2>2. /\ o \in Object /\ o.userID = s.userID /\ o.finalizer = s.finalizer
        /\ o.life = IF o.finalizer THEN "deleting" ELSE "gone"
    BY <2>1 DEF Object, Lives, Removed
  <2> QED BY <2>1, <2>2, StoreEvolves DEF NewVersion
<1>9. ASSUME NEW k \in Users, Deliver(k) PROVE \A u \in Users : Evolves(u)
  BY <1>9 DEF Deliver, Triggers, TypeOK, Evolves
<1>10. CASE Crash
  BY <1>10 DEF Crash, Fault, Forget, TypeOK, Evolves
<1>11. CASE \/ \E u \in Users : Reconcile(u) \/ Resync(u)
            \/ GetHeadscale \/ GetHeadscaleFails \/ VerifyUser \/ VerifyUserFails
            \/ CreateUser \/ CreateUserNameTaken \/ CreateUserFails \/ Finalize
            \/ DeleteUser \/ DeleteUserUnknown \/ DeleteUserFails
            \/ ToggleHeadscale \/ UNCHANGED vars
            \/ \E n \in Names : AdminDeleteUser(n) \/ AdminCreateUser(n)
  BY <1>11, <1>u
     DEF Reconcile, Resync, GetHeadscale, GetHeadscaleFails, VerifyUser,
         VerifyUserFails, CreateUser, CreateUserNameTaken, CreateUserFails, Finalize,
         DeleteUser, DeleteUserUnknown, DeleteUserFails, ToggleHeadscale, vars,
         AdminDeleteUser, AdminCreateUser, kube
<1> QED
  BY <1>1, <1>2, <1>3, <1>4, <1>5, <1>6, <1>7, <1>8, <1>9, <1>10, <1>11
  DEF Next, Step, Environment

\* So a version in sight was in sight before, or it has just been written.
LEMMA SeenVersions ==
  ASSUME TypeOK, [Next]_vars, NEW u \in Users, NEW o \in Versions(user'[u])
  PROVE  \/ o \in Versions(user[u])
         \/ /\ o \in Object /\ NewVersion(u, o)
            /\ user'[u] = Written(user[u], o)
<1>1. user[u] \in History(Object) /\ Evolves(u)
  BY Evolution DEF TypeOK
<1>2. CASE UNCHANGED user[u]
  BY <1>2
<1>3. CASE Lag(user[u]) > 0 /\ user'[u] = Delivered(user[u])
  BY <1>1, <1>3, DeliveredVersions
<1>4. CASE user'[u] = Relisted(user[u])
  BY <1>1, <1>4, RelistedVersions, EndVersions
<1>5. ASSUME NEW n \in Object, user'[u] = Written(user[u], n), NewVersion(u, n)
      PROVE  o \in Versions(user[u]) \/ o = n
  BY <1>1, <1>5, WrittenVersions
<1> QED BY <1>1, <1>2, <1>3, <1>4, <1>5 DEF Evolves

\* What a step does to the worker's copy.
CopyEvolves ==
  \/ pc' = "idle"
  \/ pc # "idle" /\ pc' # "idle" /\ UNCHANGED <<cur, obj>>
  \/ AddFinalizer
  \/ CreateUser
  \/ /\ pc = "idle" /\ UNCHANGED <<user, db, nextId, headscale, faults, admin>>
     /\ \E u \in Users :
          /\ cur' = u /\ obj' = Observed(user[u]) /\ Exists(obj')
          /\ pc' = FirstCall(obj') /\ fresh' = InSync(user[u])

\* A pass reads its copy once, and changes it where it adds the finalizer and
\* where it has created the user.
LEMMA CopyEvolution == TypeOK /\ [Next]_vars => CopyEvolves
<1> SUFFICES ASSUME TypeOK, [Next]_vars PROVE CopyEvolves
  OBVIOUS
<1>1. ASSUME NEW u \in Users, Reconcile(u) PROVE CopyEvolves
  BY <1>1 DEF Reconcile, worker, kube, server, budget, CopyEvolves
<1>2. CASE \/ GetHeadscaleFails \/ AddFinalizerFails \/ ClearUserID \/ ClearUserIDFails
           \/ PatchCondition \/ PatchConditionFails \/ RemoveFinalizer
           \/ RemoveFinalizerFails \/ Crash
  BY <1>2 DEF GetHeadscaleFails, AddFinalizerFails, ClearUserID, ClearUserIDFails,
              PatchCondition, PatchConditionFails, RemoveFinalizer,
              RemoveFinalizerFails, Crash, AfterReport, Finish, Requeue, Forget,
              CopyEvolves
<1>3. CASE \/ GetHeadscale \/ VerifyUser \/ VerifyUserFails \/ CreateUserNameTaken
           \/ CreateUserFails \/ RecordUserID \/ RecordUserIDFails \/ Finalize
           \/ DeleteUser \/ DeleteUserUnknown \/ DeleteUserFails
  BY <1>3 DEF GetHeadscale, VerifyUser, VerifyUserFails, CreateUserNameTaken,
              CreateUserFails, RecordUserID, RecordUserIDFails, Finalize, DeleteUser,
              DeleteUserUnknown, DeleteUserFails, AfterGetHeadscale, AfterVerifyError,
              AfterNameTaken, AfterFinalize, AfterDeleteError, Goto, Report, CopyEvolves
<1>4. CASE \/ \E u \in Users : Deliver(u) \/ Resync(u)
           \/ ToggleHeadscale \/ UNCHANGED vars
           \/ \E u \in Users : CreateObject(u) \/ EditObject(u) \/ DeleteObject(u)
           \/ \E n \in Names : AdminDeleteUser(n) \/ AdminCreateUser(n)
  BY <1>4 DEF Deliver, Resync, ToggleHeadscale, vars, CreateObject, EditObject,
              DeleteObject, AdminDeleteUser, AdminCreateUser, worker, CopyEvolves
<1>5. CASE AddFinalizer \/ CreateUser
  BY <1>5 DEF CopyEvolves
<1> QED BY <1>1, <1>2, <1>3, <1>4, <1>5 DEF Next, Step, Environment

-----------------------------------------------------------------------------
(* What a step does to the users table.                                    *)

ServerEvolves ==
  \/ UNCHANGED server
  \/ pc = "create" /\ Insert(Username[cur], cur)
  \/ pc = "deleteUser" /\ Delete
  \/ /\ admin' = admin + 1 /\ UNCHANGED nextId
     /\ \E n \in Names : db' = [db EXCEPT ![n] = NoRow]
  \/ /\ admin' = admin + 1
     /\ \E n \in Names : Insert(n, NoUser)

\* The worker creates under its object's name and deletes by ID; the rest is done
\* by hand.
LEMMA ServerEvolution == [Next]_vars => ServerEvolves
<1> SUFFICES ASSUME [Next]_vars PROVE ServerEvolves
  OBVIOUS
<1>1. CASE CreateUser \/ CreateUserFails
  BY <1>1 DEF CreateUser, CreateUserFails, ServerEvolves
<1>2. CASE DeleteUser \/ DeleteUserFails
  BY <1>2 DEF DeleteUser, DeleteUserFails, ServerEvolves
<1>3. ASSUME NEW n \in Names, AdminDeleteUser(n) PROVE ServerEvolves
  BY <1>3 DEF AdminDeleteUser, AdminStep, ServerEvolves
<1>4. ASSUME NEW n \in Names, AdminCreateUser(n) PROVE ServerEvolves
  BY <1>4 DEF AdminCreateUser, AdminStep, ServerEvolves
<1>5. CASE \/ \E u \in Users : Reconcile(u) \/ Deliver(u) \/ Resync(u)
           \/ AddFinalizer \/ AddFinalizerFails \/ GetHeadscale \/ GetHeadscaleFails
           \/ VerifyUser \/ VerifyUserFails \/ ClearUserID \/ ClearUserIDFails
           \/ CreateUserNameTaken \/ RecordUserID \/ RecordUserIDFails
           \/ PatchCondition \/ PatchConditionFails \/ Finalize \/ DeleteUserUnknown
           \/ RemoveFinalizer \/ RemoveFinalizerFails
           \/ Crash \/ ToggleHeadscale \/ UNCHANGED vars
           \/ \E u \in Users : CreateObject(u) \/ EditObject(u) \/ DeleteObject(u)
  BY <1>5
     DEF Reconcile, Deliver, Resync, AddFinalizer, AddFinalizerFails, GetHeadscale,
         GetHeadscaleFails, VerifyUser, VerifyUserFails, ClearUserID,
         ClearUserIDFails, CreateUserNameTaken, RecordUserID, RecordUserIDFails,
         PatchCondition, PatchConditionFails, Finalize, DeleteUserUnknown,
         RemoveFinalizer, RemoveFinalizerFails, Crash, ToggleHeadscale, vars,
         CreateObject, EditObject, DeleteObject, server, ServerEvolves
<1> QED BY <1>1, <1>2, <1>3, <1>4, <1>5 DEF Next, Step, Environment

-----------------------------------------------------------------------------
(* An ID belongs to the object that asked for the user.                    *)

\* The ID was handed out, and the user that has it was created for u.
Owned(u, id) ==
  /\ id < nextId
  /\ \A n \in Names : id # 0 /\ db[n].id = id => db[n].by = u /\ n = Username[u]

RowsIssued == \A n \in Names : db[n].id < nextId

VersionsOwned == \A u \in Users : \A o \in Versions(user[u]) : Owned(u, o.userID)

CopyOwned == pc # "idle" => Owned(cur, obj.userID)

OwnershipInv == TypeOK /\ RowsIssued /\ VersionsOwned /\ CopyOwned

\* The users table changes in no way that takes an ID from its owner: IDs are
\* never handed out twice.
LEMMA OwnedLasts ==
  ASSUME TypeOK, RowsIssued, [Next]_vars, NEW u \in Users, NEW id \in Nat, Owned(u, id)
  PROVE  Owned(u, id)'
<1>1. db \in [Names -> Row] /\ nextId \in Nat \ {0} /\ \A n \in Names : db[n].id \in Nat
  BY DEF TypeOK, Row
<1>2. ASSUME NEW n \in Names, NEW k, Insert(n, k) PROVE Owned(u, id)'
  BY <1>1, <1>2 DEF Insert, Owned
<1>3. CASE pc = "create" /\ Insert(Username[cur], cur)
  BY <1>2, <1>3, UsernameAssumption DEF TypeOK
<1>4. CASE Delete
  BY <1>1, <1>4 DEF Delete, NoRow, Owned
<1>5. ASSUME NEW n \in Names, db' = [db EXCEPT ![n] = NoRow], UNCHANGED nextId
      PROVE  Owned(u, id)'
  BY <1>1, <1>5 DEF NoRow, Owned
<1>6. CASE UNCHANGED server
  BY <1>6 DEF server, Owned
<1> QED BY <1>2, <1>3, <1>4, <1>5, <1>6, ServerEvolution DEF ServerEvolves

\* No row is ahead of the counter, and the counter does not go back.
LEMMA RowsIssuedStep ==
  ASSUME TypeOK, RowsIssued, [Next]_vars
  PROVE  RowsIssued' /\ nextId <= nextId'
<1>1. db \in [Names -> Row] /\ nextId \in Nat \ {0} /\ \A n \in Names : db[n].id \in Nat
  BY DEF TypeOK, Row
<1>2. ASSUME NEW n \in Names, NEW k, Insert(n, k) PROVE RowsIssued' /\ nextId <= nextId'
  BY <1>1, <1>2 DEF Insert, RowsIssued
<1>3. CASE pc = "create" /\ Insert(Username[cur], cur)
  BY <1>2, <1>3, UsernameAssumption DEF TypeOK
<1>4. CASE Delete
  BY <1>1, <1>4 DEF Delete, NoRow, RowsIssued
<1>5. ASSUME NEW n \in Names, db' = [db EXCEPT ![n] = NoRow], UNCHANGED nextId
      PROVE  RowsIssued' /\ nextId <= nextId'
  BY <1>1, <1>5 DEF NoRow, RowsIssued
<1>6. CASE UNCHANGED server
  BY <1>1, <1>6 DEF server, RowsIssued
<1> QED BY <1>2, <1>3, <1>4, <1>5, <1>6, ServerEvolution DEF ServerEvolves

\* Every step keeps the owners.
LEMMA OwnershipStep == OwnershipInv /\ [Next]_vars => OwnershipInv'
<1> SUFFICES ASSUME OwnershipInv, [Next]_vars PROVE OwnershipInv'
  OBVIOUS
<1>1. TypeOK /\ TypeOK' /\ RowsIssued /\ RowsIssued' /\ nextId <= nextId'
  BY TypeStep, RowsIssuedStep DEF OwnershipInv
<1>2. \A u \in Users, id \in Nat : Owned(u, id) => Owned(u, id)'
  BY <1>1, OwnedLasts
<1>3. \A u \in Users : Owned(u, 0)
  BY <1>1 DEF TypeOK, Owned
<1>4. ASSUME NEW u \in Users, NEW o \in Versions(user[u])
      PROVE  o \in Object /\ Owned(u, o.userID)
  BY <1>1, <1>4, EndVersions DEF OwnershipInv, VersionsOwned, TypeOK
<1>5. ASSUME NEW u \in Users
      PROVE  /\ Stored(user[u]) \in Object /\ Owned(u, Stored(user[u]).userID)
             /\ Observed(user[u]) \in Object /\ Owned(u, Observed(user[u]).userID)
  BY <1>1, <1>4, EndVersions DEF TypeOK
<1>6. pc # "idle" => cur \in Users /\ obj \in Object /\ Owned(cur, obj.userID)
  BY <1>1 DEF OwnershipInv, CopyOwned, TypeOK
<1>7. ASSUME NEW u \in Users, NEW o \in Object, NewVersion(u, o)
      PROVE  Owned(u, o.userID)
  <2>1. CASE u = cur /\ pc # "idle" /\ fresh /\ Writable(o)
    <3>1. o.userID \in {obj.userID, 0}
      BY <2>1, <1>6 DEF Writable, WithFinalizer, WithUserID, Removed, Object
    <3> QED BY <3>1, <2>1, <1>3, <1>6
  <2>2. CASE o.userID = Stored(user[u]).userID
    BY <2>2, <1>5
  <2>3. CASE o = [Absent EXCEPT !.life = "live"]
    BY <2>3, <1>3 DEF Absent
  <2> QED BY <1>7, <2>1, <2>2, <2>3 DEF NewVersion
<1>8. VersionsOwned'
  <2> SUFFICES ASSUME NEW u \in Users, NEW o \in Versions(user'[u])
               PROVE  Owned(u, o.userID)'
    BY DEF VersionsOwned, Versions
  <2>1. o \in Object /\ Owned(u, o.userID)
    BY <1>1, <1>4, <1>7, SeenVersions
  <2>2. o.userID \in Nat
    BY <2>1 DEF Object
  <2> QED BY <2>1, <2>2, <1>2
<1>9. CopyOwned'
  <2>0. \A o \in Object : o.userID \in Nat
    BY DEF Object
  <2>1. CASE pc' = "idle"
    BY <2>1 DEF CopyOwned
  <2>2. CASE pc # "idle" /\ UNCHANGED <<cur, obj>>
    BY <2>0, <2>2, <1>2, <1>6 DEF CopyOwned, Owned
  <2>3. CASE AddFinalizer
    <3>1. pc # "idle" /\ cur' = cur /\ obj' = WithFinalizer(obj)
      BY <2>3 DEF AddFinalizer, Goto
    <3>2. obj'.userID = obj.userID
      BY <3>1, <1>6 DEF WithFinalizer, Object
    <3> QED BY <2>0, <3>1, <3>2, <1>2, <1>6 DEF CopyOwned, Owned
  <2>4. CASE CreateUser
    <3>1. /\ cur \in Users /\ cur' = cur /\ Insert(Username[cur], cur)
          /\ obj' = WithUserID(obj, nextId) /\ obj \in Object
      BY <2>4, <1>6 DEF CreateUser, Goto
    <3>2. obj'.userID = nextId /\ nextId' = nextId + 1 /\ nextId \in Nat
      BY <3>1, <1>1 DEF WithUserID, Object, Insert, TypeOK
    <3>3. \A n \in Names : db'[n].id = nextId => n = Username[cur] /\ db'[n].by = cur
      BY <3>1, <1>1 DEF Insert, RowsIssued, TypeOK, Row
    <3> QED BY <3>1, <3>2, <3>3 DEF CopyOwned, Owned
  <2>5. ASSUME NEW u \in Users, cur' = u, obj' = Observed(user[u])
        PROVE  CopyOwned'
    BY <2>0, <2>5, <1>2, <1>5 DEF CopyOwned, Owned
  <2> QED BY <2>1, <2>2, <2>3, <2>4, <2>5, <1>1, CopyEvolution DEF CopyEvolves
<1> QED BY <1>1, <1>8, <1>9 DEF OwnershipInv

\* No version and no row carries an ID at the start.
LEMMA InitOwnership == Init => OwnershipInv
<1> SUFFICES ASSUME Init PROVE OwnershipInv
  OBVIOUS
<1>1. TypeOK
  BY InitType
<1>2. /\ \A n \in Names : db[n].id = 0
      /\ nextId = 1 /\ pc = "idle"
  BY DEF Init, NoRow
<1>3. \A u \in Users : \A o \in Versions(user[u]) : o.userID = 0
  BY DEF Init, Versions, Absent
<1> QED BY <1>1, <1>2, <1>3 DEF OwnershipInv, RowsIssued, VersionsOwned, CopyOwned, Owned

\* The ID an object records, if the database has it, is that of the user created
\* for this very object under its own name, whatever other objects of that name,
\* administrators, stale copies and lost answers do (createUser).
THEOREM RecordedSafe == Spec => []RecordedIdOwned
<1>1. OwnershipInv => RecordedIdOwned
  <2> SUFFICES ASSUME OwnershipInv, NEW u \in Users, NEW n \in Names,
                      Stored(user[u]).userID # 0, db[n].id = Stored(user[u]).userID
               PROVE  db[n].by = u /\ n = Username[u]
    BY DEF RecordedIdOwned
  <2>1. Stored(user[u]) \in Versions(user[u])
    BY EndVersions DEF OwnershipInv, TypeOK
  <2> QED BY <2>1 DEF OwnershipInv, VersionsOwned, Owned
<1> QED BY <1>1, InitOwnership, OwnershipStep, PTL DEF Spec

\* handleDeletion removes from Headscale no user but the one created for the
\* object in hand, also when its copy is old and the name has been given to
\* another user since (deleteUser goes by ID).
THEOREM DeletionSafe == Spec => DeletesOnlyOwnUser
<1> DEFINE OnlyOwn ==
      \A n \in Names :
        pc = "deleteUser" /\ db[n].id # 0 /\ db'[n].id = 0 /\ admin' = admin
          => db[n].by = cur
<1>1. OwnershipInv /\ [Next]_vars => OnlyOwn
  <2> SUFFICES ASSUME OwnershipInv, [Next]_vars, NEW n \in Names, pc = "deleteUser",
                      db[n].id # 0, db'[n].id = 0, admin' = admin
               PROVE  db[n].by = cur
    OBVIOUS
  <2>1. admin \in Nat /\ db \in [Names -> Row]
    BY DEF OwnershipInv, TypeOK
  <2>2. Delete
    BY <2>1, ServerEvolution DEF ServerEvolves, server
  <2>3. db[n].id = obj.userID
    BY <2>2 DEF Delete, Matches
  <2> QED BY <2>3 DEF OwnershipInv, CopyOwned, Owned
<1> QED BY <1>1, InitOwnership, OwnershipStep, PTL DEF Spec, DeletesOnlyOwnUser

-----------------------------------------------------------------------------
(* What a copy that is still the latest says of the recorded ID.           *)

\* Until the worker changes the ID in its copy, that copy has the stored one.
FreshCopy ==
  fresh /\ pc \notin {"recordUserID", "patch"} => obj.userID = Stored(user[cur]).userID

IdRecorded ==
  /\ pc \in {"verify", "clearUserID", "recordUserID"} => obj.userID # 0
  /\ pc = "create" => obj.userID = 0

\* Between verifyUser and the update that clears the ID nobody can bring the
\* user back: a new one has a new ID.
UserMissing == pc = "clearUserID" => \A n \in Names : db[n].id # obj.userID

NoneUnrecorded ==
  \A u \in Users : \A o \in Versions(user[u]) : o.life = "none" => o.userID = 0

CopyInv == FinalizerInv /\ OwnershipInv
             /\ FreshCopy /\ IdRecorded /\ UserMissing /\ NoneUnrecorded

\* What happens around the worker.
Outside ==
  \/ \E u \in Users : \/ Deliver(u) \/ Resync(u)
                      \/ CreateObject(u) \/ EditObject(u) \/ DeleteObject(u)
  \/ ToggleHeadscale
  \/ \E n \in Names : AdminDeleteUser(n) \/ AdminCreateUser(n)
  \/ UNCHANGED vars

\* A copy stays the latest only as long as nobody else writes the object.
LEMMA OutsideStays ==
  ASSUME FinalizerInv, Outside
  PROVE  /\ UNCHANGED <<pc, cur, obj, cond>>
         /\ fresh' => (fresh /\ Stored(user'[cur]) = Stored(user[cur]))
<1>1. ASSUME NEW u \in Users, Deliver(u)
      PROVE  \A v \in Users : Stored(user'[v]) = Stored(user[v])
  BY <1>1, DeliverKeepsHistory DEF FinalizerInv
<1>2. fresh => cur \in Users /\ Exists(obj) /\ obj.life = Stored(user[cur]).life
  BY DEF FinalizerInv, WorkerInv, TypeOK
<1>3. ASSUME NEW u \in Users, CreateObject(u) PROVE fresh => cur # u
  BY <1>2, <1>3 DEF CreateObject, Exists
<1>4. ASSUME NEW u \in Users, CreateObject(u) \/ EditObject(u) \/ DeleteObject(u)
      PROVE  \A v \in Users : v # u => user'[v] = user[v]
  BY <1>4 DEF CreateObject, EditObject, DeleteObject, Store, FinalizerInv, TypeOK
<1>5. ASSUME NEW u \in Users, CreateObject(u) \/ EditObject(u) \/ DeleteObject(u)
      PROVE  /\ UNCHANGED <<pc, cur, obj, cond>>
             /\ fresh' => (fresh /\ user'[cur] = user[cur])
  <2>1. UNCHANGED <<pc, cur, obj, cond>> /\ (UNCHANGED fresh \/ Outdate(u))
    BY <1>5 DEF CreateObject, EditObject, DeleteObject, worker
  <2>2. CASE CreateObject(u)
    BY <2>1, <2>2, <1>2, <1>3, <1>4 DEF CreateObject, worker
  <2>3. CASE Outdate(u)
    BY <2>1, <2>3, <1>2, <1>4, <1>5 DEF Outdate
  <2>4. CASE EditObject(u) \/ DeleteObject(u)
    BY <2>3, <2>4 DEF EditObject, DeleteObject
  <2> QED BY <2>2, <2>4, <1>5
<1>6. ASSUME NEW u \in Users, Deliver(u)
      PROVE  /\ UNCHANGED <<pc, cur, obj, cond, fresh>>
             /\ fresh => Stored(user'[cur]) = Stored(user[cur])
  BY <1>1, <1>2, <1>6 DEF Deliver, worker
<1>7. CASE \/ \E u \in Users : Resync(u)
           \/ ToggleHeadscale
           \/ \E n \in Names : AdminDeleteUser(n) \/ AdminCreateUser(n)
           \/ UNCHANGED vars
  BY <1>7 DEF Resync, ToggleHeadscale, AdminDeleteUser, AdminCreateUser, vars, kube,
              worker
<1> QED BY <1>5, <1>6, <1>7 DEF Outside

\* The copy the worker may write back has the stored ID, and it clears that ID only
\* after the lookup that found nothing.
LEMMA CopyStep == CopyInv /\ [Next]_vars => CopyInv'
<1> SUFFICES ASSUME CopyInv, [Next]_vars PROVE CopyInv'
  OBVIOUS
<1>i. FinalizerInv /\ OwnershipInv /\ FinalizerInv' /\ OwnershipInv' /\ TypeOK
  BY FinalizerStep, OwnershipStep DEF CopyInv, OwnershipInv
<1>a. pc # "idle" => /\ cur \in Users /\ obj \in Object /\ Exists(obj)
                     /\ WithFinalizer(obj) \in Object
  BY <1>i DEF TypeOK, FinalizerInv, WorkerInv, WithFinalizer, Object
<1>d. /\ db \in [Names -> Row] /\ nextId \in Nat \ {0}
      /\ pc # "idle" => obj.userID \in Nat /\ obj.userID < nextId
  BY <1>i, <1>a DEF TypeOK, Object, OwnershipInv, CopyOwned, Owned
<1> DEFINE Same == fresh' /\ pc' \notin {"recordUserID", "patch"}
                      => obj'.userID = Stored(user'[cur']).userID
           Copies == Same /\ IdRecorded' /\ UserMissing'
<1>1. ASSUME pc' = "idle" PROVE Copies
  <2>1. ~fresh'
    BY <1>1, <1>i DEF FinalizerInv, WorkerInv
  <2> QED BY <1>1, <2>1 DEF FreshCopy, IdRecorded, UserMissing
<1>2. ASSUME NEW u \in Users, Reconcile(u) PROVE Copies
  <2>1. CASE UNCHANGED worker
    BY <1>2, <2>1, <1>1 DEF Reconcile, worker
  <2>2. CASE ~UNCHANGED worker
    <3>1. /\ cur' = u /\ obj' = Observed(user[u]) /\ fresh' = InSync(user[u])
          /\ pc' = FirstCall(obj') /\ user' = user
      BY <1>2, <2>2 DEF Reconcile, kube
    <3>2. fresh' => Observed(user[u]) = Stored(user[u])
      BY <3>1, <1>i, EndVersions DEF TypeOK
    <3>3. pc' \in {"idle", "finalize", "getHeadscale", "addFinalizer"}
      BY <3>1 DEF FirstCall
    <3> QED BY <3>1, <3>2, <3>3 DEF FreshCopy, IdRecorded, UserMissing
  <2> QED BY <2>1, <2>2
<1>3. ASSUME AddFinalizer
      PROVE  Copies
  <2>1. /\ pc # "idle" /\ fresh /\ Store(cur, WithFinalizer(obj)) /\ cur' = cur
        /\ obj' = WithFinalizer(obj) /\ pc' = "getHeadscale"
    BY <1>3 DEF AddFinalizer, UpdateAccepted, Goto
  <2>2. Stored(user'[cur]) = WithFinalizer(obj)
    BY <2>1, <1>a, <1>i, StoredHistory
  <2>3. WithFinalizer(obj).userID = obj.userID
    BY <2>1, <1>a DEF WithFinalizer, Object
  <2> QED BY <2>1, <2>2, <2>3 DEF IdRecorded, UserMissing
<1>4. ASSUME CreateUser
      PROVE  Copies
  <2>1. pc' = "recordUserID" /\ obj'.userID = nextId
    BY <1>4, <1>a DEF CreateUser, Goto, WithUserID, Object
  <2> QED BY <2>1, <1>d DEF FreshCopy, IdRecorded, UserMissing
<1>5. ASSUME \/ VerifyUserFails \/ CreateUserNameTaken \/ CreateUserFails
           \/ RecordUserID \/ RecordUserIDFails
      PROVE  Copies
  <2>1. pc' = "patch"
    BY <1>5 DEF VerifyUserFails, AfterVerifyError, CreateUserNameTaken, AfterNameTaken,
                CreateUserFails, RecordUserID, RecordUserIDFails, Report
  <2> QED BY <2>1 DEF FreshCopy, IdRecorded, UserMissing
<1>6. ASSUME GetHeadscale \/ Finalize \/ DeleteUser \/ DeleteUserUnknown \/ DeleteUserFails
      PROVE  Copies
  <2>1. /\ UNCHANGED <<user, cur, obj, fresh>>
        /\ pc \in {"getHeadscale", "finalize", "deleteUser"}
        /\ pc' \in {"patch", "verify", "create", "deleteUser", "removeFinalizer"}
        /\ pc' = "verify" => obj.userID # 0
        /\ pc' = "create" => obj.userID = 0
    BY <1>6 DEF GetHeadscale, Finalize, DeleteUser, DeleteUserUnknown, DeleteUserFails,
                AfterGetHeadscale, AfterFinalize, AfterDeleteError, Goto, Report, kube
  <2> QED BY <2>1 DEF CopyInv, FreshCopy, IdRecorded, UserMissing
<1>7. ASSUME VerifyUser
      PROVE  Copies
  <2>1. /\ UNCHANGED <<user, db, cur, obj, fresh>> /\ pc = "verify"
        /\ pc' \in {"patch", "clearUserID"}
        /\ pc' = "clearUserID" => db[Username[cur]].id = 0
    BY <1>7 DEF VerifyUser, Goto, Report, kube, server, Found
  <2>2. pc' = "clearUserID" => \A n \in Names : db[n].id # obj.userID
    BY <2>1, <1>i DEF CopyInv, IdRecorded, OwnershipInv, CopyOwned, Owned
  <2> QED BY <2>1, <2>2 DEF CopyInv, FreshCopy, IdRecorded, UserMissing
<1>8. ASSUME Outside
      PROVE  Copies
  <2>1. /\ UNCHANGED <<pc, cur, obj>>
        /\ fresh' => (fresh /\ Stored(user'[cur]) = Stored(user[cur]))
    BY <1>8, <1>i, OutsideStays
  <2>2. pc = "clearUserID" => \A n \in Names : db'[n].id # obj.userID
    <3> SUFFICES ASSUME pc = "clearUserID", NEW n \in Names PROVE db'[n].id # obj.userID
      OBVIOUS
    <3>1. db[n].id # obj.userID /\ obj.userID # 0
      BY DEF CopyInv, UserMissing, IdRecorded
    <3>2. db'[n].id \in {0, nextId, db[n].id}
      BY <1>d, ServerEvolution DEF ServerEvolves, Insert, NoRow, server
    <3> QED BY <3>1, <3>2, <1>d
  <2> QED BY <2>1, <2>2 DEF CopyInv, FreshCopy, IdRecorded, UserMissing
<1>9. Copies
  <2>1. CASE \/ GetHeadscaleFails \/ AddFinalizerFails \/ ClearUserID \/ ClearUserIDFails
             \/ PatchCondition \/ PatchConditionFails \/ RemoveFinalizer
             \/ RemoveFinalizerFails \/ Crash
    BY <2>1, <1>1
       DEF GetHeadscaleFails, AddFinalizerFails, ClearUserID, ClearUserIDFails,
           PatchCondition, PatchConditionFails, RemoveFinalizer, RemoveFinalizerFails,
           Crash, AfterReport, Finish, Requeue, Forget
  <2> QED BY <2>1, <1>2, <1>3, <1>4, <1>5, <1>6, <1>7, <1>8
          DEF Next, Step, Environment, Outside
<1>10. NoneUnrecorded'
  <2> SUFFICES ASSUME NEW u \in Users, NEW o \in Versions(user'[u]), o.life = "none"
               PROVE  o.userID = 0
    BY DEF NoneUnrecorded, Versions
  <2>1. CASE o \in Versions(user[u])
    BY <2>1 DEF CopyInv, NoneUnrecorded
  <2>2. CASE NewVersion(u, o) /\ o \in Object
    BY <2>2, <1>a DEF NewVersion, Writable, WithFinalizer, WithUserID, Removed, Object,
                      Exists, Absent
  <2> QED BY <2>1, <2>2, <1>i, SeenVersions
<1>11. FreshCopy'
  BY <1>9 DEF FreshCopy, Stored
<1> QED BY <1>9, <1>10, <1>11, <1>i DEF CopyInv

\* The invariant holds at the start: the worker is idle.
LEMMA InitCopy == Init => CopyInv
<1> SUFFICES ASSUME Init PROVE CopyInv
  OBVIOUS
<1>1. FinalizerInv /\ OwnershipInv
  BY InitFinalizer, InitOwnership
<1>2. \A u \in Users : \A o \in Versions(user[u]) : o.userID = 0
  BY DEF Init, Versions, Absent
<1>3. pc = "idle" /\ ~fresh
  BY DEF Init
<1> QED BY <1>1, <1>2, <1>3
        DEF CopyInv, FreshCopy, IdRecorded, UserMissing, NoneUnrecorded

\* Unless a version is written, the stored one is the same.
LEMMA StoredEvolves ==
  ASSUME TypeOK, NEW u \in Users, Evolves(u)
  PROVE  \/ Stored(user'[u]) = Stored(user[u])
         \/ /\ Stored(user'[u]) \in Object
            /\ user'[u] = Written(user[u], Stored(user'[u]))
            /\ NewVersion(u, Stored(user'[u]))
<1>1. user[u] \in History(Object)
  BY DEF TypeOK
<1>2. CASE Lag(user[u]) > 0 /\ user'[u] = Delivered(user[u])
  BY <1>1, <1>2, DeliveredVersions
<1>3. CASE user'[u] = Relisted(user[u])
  BY <1>1, <1>3, RelistedVersions
<1>4. ASSUME NEW o \in Object, user'[u] = Written(user[u], o), NewVersion(u, o)
      PROVE  Stored(user'[u]) = o
  BY <1>1, <1>4, WrittenVersions
<1> QED BY <1>2, <1>3, <1>4 DEF Evolves

\* The recorded ID of a user the database still has is not cleared: verifyUser must
\* have missed it, no write can have come between (the update would be refused) and
\* no user can have got that ID since (createUser, the update of the status in
\* Reconcile).
THEOREM ClearingSafe == Spec => ClearedOnlyIfMissing
<1> DEFINE Missed ==
      \A u \in Users :
        Stored(user[u]).userID # 0 /\ Stored(user[u])'.userID = 0
          => \A n \in Names : db[n].id # Stored(user[u]).userID
<1>1. CopyInv /\ [Next]_vars => Missed
  <2> SUFFICES ASSUME CopyInv, [Next]_vars, NEW u \in Users,
                      Stored(user[u]).userID # 0, Stored(user'[u]).userID = 0
               PROVE  \A n \in Names : db[n].id # Stored(user[u]).userID
    BY DEF Stored
  <2> DEFINE o == Stored(user'[u])
             s == Stored(user[u])
  <2>1. TypeOK
    BY DEF CopyInv, OwnershipInv
  <2>2. o \in Object /\ NewVersion(u, o)
    BY <2>1, Evolution, StoredEvolves
  <2>3. s \in Object /\ s \in Versions(user[u])
    BY <2>1, EndVersions DEF TypeOK, History
  <2>4. s.life # "none"
    BY <2>3 DEF CopyInv, NoneUnrecorded
  <2>5. u = cur /\ pc # "idle" /\ fresh /\ Writable(o) /\ obj \in Object
    BY <2>1, <2>2, <2>4 DEF NewVersion, TypeOK
  <2>6. pc # "recordUserID"
    BY <2>5 DEF CopyInv, IdRecorded, Writable
  <2>7. obj.userID = s.userID
    BY <2>5, <2>6 DEF CopyInv, FreshCopy, Writable
  <2>8. pc = "clearUserID"
    BY <2>5, <2>6, <2>7 DEF Writable, WithFinalizer, Removed, Object
  <2> QED BY <2>7, <2>8 DEF CopyInv, UserMissing
<1> QED BY <1>1, InitCopy, CopyStep, PTL DEF Spec, ClearedOnlyIfMissing

-----------------------------------------------------------------------------
(* What a step does to the worker's place.                                 *)

\* A pass over a live object and a pass over one in deletion do not mix, and the
\* finalizer is removed last.
LEMMA PlaceEvolution ==
  ASSUME TypeOK, [Next]_vars, pc # "idle", pc' # "idle"
  PROVE  /\ cur' = cur
         /\ pc' \in LivePcs => pc \in LivePcs
         /\ pc' = "removeFinalizer" =>
              \/ pc = "removeFinalizer" /\ UNCHANGED obj
              \/ Finalize \/ DeleteUser \/ DeleteUserUnknown \/ DeleteUserFails
<1>1. CASE AddFinalizer \/ CreateUser
  BY <1>1 DEF AddFinalizer, CreateUser, Goto, LivePcs
<1>2. CASE \/ GetHeadscaleFails \/ AddFinalizerFails \/ ClearUserID \/ ClearUserIDFails
           \/ PatchCondition \/ PatchConditionFails \/ RemoveFinalizer
           \/ RemoveFinalizerFails \/ Crash
  BY <1>2 DEF GetHeadscaleFails, AddFinalizerFails, ClearUserID, ClearUserIDFails,
              PatchCondition, PatchConditionFails, RemoveFinalizer,
              RemoveFinalizerFails, Crash, AfterReport, Finish, Requeue, Forget
<1>3. CASE \/ GetHeadscale \/ VerifyUser \/ VerifyUserFails \/ CreateUserNameTaken
           \/ CreateUserFails \/ RecordUserID \/ RecordUserIDFails
  BY <1>3 DEF GetHeadscale, VerifyUser, VerifyUserFails, CreateUserNameTaken,
              CreateUserFails, RecordUserID, RecordUserIDFails, AfterGetHeadscale,
              AfterVerifyError, AfterNameTaken, Goto, Report, LivePcs
<1>4. CASE Finalize \/ DeleteUser \/ DeleteUserUnknown \/ DeleteUserFails
  BY <1>4 DEF Finalize, DeleteUser, DeleteUserUnknown, DeleteUserFails, AfterFinalize,
              AfterDeleteError, Goto, LivePcs
<1>5. CASE \/ \E u \in Users : Deliver(u) \/ Resync(u)
           \/ ToggleHeadscale \/ UNCHANGED vars
           \/ \E u \in Users : CreateObject(u) \/ EditObject(u) \/ DeleteObject(u)
           \/ \E n \in Names : AdminDeleteUser(n) \/ AdminCreateUser(n)
  BY <1>5 DEF Deliver, Resync, ToggleHeadscale, vars, CreateObject, EditObject,
              DeleteObject, AdminDeleteUser, AdminCreateUser, worker
<1>6. CASE \E u \in Users : Reconcile(u)
  BY <1>6 DEF Reconcile
<1> QED BY <1>1, <1>2, <1>3, <1>4, <1>5, <1>6 DEF Next, Step, Environment

-----------------------------------------------------------------------------
(* Runs in which no call has failed and nobody has touched Headscale.      *)

Quiet == faults = 0 /\ admin = 0

\* They stay quiet only by steps that take nothing away behind the worker's back.
LEMMA QuietSteps ==
  ASSUME TypeOK, [Next]_vars, Quiet'
  PROVE  /\ Quiet /\ UNCHANGED headscale
         /\ (UNCHANGED server) \/ CreateUser \/ DeleteUser
         /\ ~DeleteUserFails
<1>a. faults \in Nat /\ admin \in Nat /\ faults' = 0 /\ admin' = 0
  BY DEF TypeOK, Quiet
<1>1. ~Fault /\ ~AdminStep
  BY <1>a DEF Fault, AdminStep
<1>b. ~DeleteUserFails
  BY <1>1 DEF DeleteUserFails
<1>2. CASE \/ \E u \in Users : Reconcile(u) \/ Deliver(u) \/ Resync(u)
           \/ AddFinalizer \/ GetHeadscale \/ VerifyUser \/ ClearUserID
           \/ CreateUserNameTaken \/ RecordUserID \/ PatchCondition \/ Finalize
           \/ DeleteUserUnknown \/ RemoveFinalizer \/ UNCHANGED vars
           \/ \E u \in Users : CreateObject(u) \/ EditObject(u) \/ DeleteObject(u)
  <2>1. UNCHANGED <<headscale, db, nextId, faults, admin>>
    BY <1>2
       DEF Reconcile, Deliver, Resync, AddFinalizer, GetHeadscale, VerifyUser,
           ClearUserID, CreateUserNameTaken, RecordUserID, PatchCondition, Finalize,
           DeleteUserUnknown, RemoveFinalizer, vars, CreateObject, EditObject,
           DeleteObject, kube, server, budget
  <2> QED BY <2>1, <1>a, <1>b DEF Quiet, server
<1>3. CASE CreateUser \/ DeleteUser
  <2>1. UNCHANGED <<headscale, faults, admin>>
    BY <1>3 DEF CreateUser, DeleteUser, kube, budget
  <2> QED BY <2>1, <1>a, <1>b, <1>3 DEF Quiet
<1>4. CASE \/ AddFinalizerFails \/ ClearUserIDFails \/ RecordUserIDFails
           \/ PatchConditionFails \/ RemoveFinalizerFails
  <2>1. UNCHANGED <<headscale, db, nextId, faults, admin>>
    BY <1>4, <1>1
       DEF AddFinalizerFails, ClearUserIDFails, RecordUserIDFails, PatchConditionFails,
           RemoveFinalizerFails, UpdateFailed, server
  <2> QED BY <2>1, <1>a, <1>b DEF Quiet, server
<1>5. CASE \/ GetHeadscaleFails \/ VerifyUserFails \/ CreateUserFails
           \/ DeleteUserFails \/ Crash
  BY <1>5, <1>1 DEF GetHeadscaleFails, VerifyUserFails, CreateUserFails,
                    DeleteUserFails, Crash
<1>6. CASE ToggleHeadscale \/ \E n \in Names : AdminDeleteUser(n) \/ AdminCreateUser(n)
  BY <1>6, <1>1 DEF ToggleHeadscale, AdminDeleteUser, AdminCreateUser
<1> QED BY <1>2, <1>3, <1>4, <1>5, <1>6 DEF Next, Step, Environment

-----------------------------------------------------------------------------
(* The rows of the users table and the objects they were created for.      *)

\* A row that was created for an object carries its name; an empty one is
\* nobody's.
RowsNamed ==
  \A n \in Names : /\ db[n].by \in Users => n = Username[db[n].by]
                   /\ db[n].id = 0 => db[n].by = NoUser

\* An object that has recorded an ID is protected until its deletion.
Protected(o) == o.userID # 0 /\ o.life = "live" => o.finalizer

IdProtected ==
  /\ \A u \in Users : \A o \in Versions(user[u]) : Protected(o)
  /\ pc # "idle" => Protected(obj)

RowInv == CopyInv /\ RowsNamed /\ IdProtected

\* What every version of an object and the worker's copy have.
LEMMA RowFacts ==
  ASSUME RowInv
  PROVE  /\ TypeOK /\ FinalizerInv /\ OwnershipInv /\ db \in [Names -> Row]
         /\ \A u \in Users : /\ Stored(user[u]) \in Versions(user[u])
                             /\ Observed(user[u]) \in Versions(user[u])
                             /\ Username[u] \in Names /\ u # NoUser
         /\ \A u \in Users : \A o \in Versions(user[u]) :
              o \in Object /\ Protected(o) /\ Owned(u, o.userID)
         /\ pc # "idle" => /\ cur \in Users /\ obj \in Object /\ Exists(obj)
                           /\ Protected(obj) /\ Owned(cur, obj.userID)
<1>1. TypeOK /\ FinalizerInv /\ OwnershipInv
  BY DEF RowInv, CopyInv, OwnershipInv
<1>2. \A u \in Users : Username[u] \in Names /\ u # NoUser
  BY UsernameAssumption, NoUserAssumption
<1>3. ASSUME NEW u \in Users
      PROVE  /\ Stored(user[u]) \in Versions(user[u])
             /\ Observed(user[u]) \in Versions(user[u])
             /\ \A o \in Versions(user[u]) :
                  o \in Object /\ Protected(o) /\ Owned(u, o.userID)
  BY <1>1, EndVersions DEF RowInv, IdProtected, OwnershipInv, VersionsOwned, TypeOK
<1>4. pc # "idle" => /\ cur \in Users /\ obj \in Object /\ Exists(obj)
                     /\ Protected(obj) /\ Owned(cur, obj.userID)
  BY <1>1 DEF RowInv, IdProtected, OwnershipInv, CopyOwned, TypeOK, FinalizerInv,
              WorkerInv
<1> QED BY <1>1, <1>2, <1>3, <1>4 DEF TypeOK

\* The worker creates a user under the name of its object, whose copy holds the
\* finalizer by then.
LEMMA RowStep == RowInv /\ [Next]_vars => RowInv'
<1> SUFFICES ASSUME RowInv, [Next]_vars PROVE RowInv'
  OBVIOUS
<1>1. CopyInv'
  BY CopyStep DEF RowInv
<1>2. RowsNamed'
  <2>1. /\ db \in [Names -> Row] /\ nextId \in Nat \ {0} /\ NoUser \notin Users
        /\ RowsNamed
    BY RowFacts, NoUserAssumption DEF TypeOK, RowInv
  <2>2. ASSUME pc = "create", Insert(Username[cur], cur) PROVE RowsNamed'
    BY <2>1, <2>2, RowFacts DEF Insert, RowsNamed
  <2>3. CASE Delete
    BY <2>1, <2>3 DEF Delete, NoRow, RowsNamed
  <2>4. ASSUME NEW n \in Names, db' = [db EXCEPT ![n] = NoRow] PROVE RowsNamed'
    BY <2>1, <2>4 DEF NoRow, RowsNamed
  <2>5. ASSUME NEW n \in Names, Insert(n, NoUser) PROVE RowsNamed'
    BY <2>1, <2>5 DEF Insert, RowsNamed
  <2>6. CASE UNCHANGED server
    BY <2>1, <2>6 DEF server, RowsNamed
  <2> QED BY <2>2, <2>3, <2>4, <2>5, <2>6, ServerEvolution DEF ServerEvolves
<1>3. ASSUME NEW u \in Users, NEW o \in Versions(user'[u]) PROVE Protected(o)
  <2>1. CASE o \in Versions(user[u])
    BY <2>1, RowFacts
  <2>2. CASE u = cur /\ pc # "idle" /\ Writable(o)
    BY <2>2, RowFacts DEF Writable, Protected, WithFinalizer, WithUserID, Removed, Object
  <2>3. CASE /\ o.life = Stored(user[u]).life
             /\ o.finalizer = Stored(user[u]).finalizer
             /\ o.userID = Stored(user[u]).userID
    BY <2>3, RowFacts DEF Protected
  <2>4. CASE o = [Absent EXCEPT !.life = "live"]
    BY <2>4 DEF Protected, Absent
  <2>5. CASE o.life = IF o.finalizer THEN "deleting" ELSE "gone"
    BY <2>5 DEF Protected
  <2> QED BY <2>1, <2>2, <2>3, <2>4, <2>5, RowFacts, SeenVersions DEF NewVersion
<1>4. ASSUME pc' # "idle" PROVE Protected(obj')
  <2>1. CASE pc # "idle" /\ UNCHANGED obj
    BY <2>1, RowFacts
  <2>2. CASE AddFinalizer
    BY <2>2, RowFacts DEF AddFinalizer, WithFinalizer, Object, Protected
  <2>3. CASE CreateUser
    <3>1. pc = "create" /\ obj' = WithUserID(obj, nextId) /\ obj \in Object
      BY <2>3, RowFacts DEF CreateUser
    <3>2. obj.finalizer
      BY <3>1, RowFacts DEF FinalizerInv, WorkerInv, Holding
    <3> QED BY <3>1, <3>2 DEF WithUserID, Object, Protected
  <2>4. CASE \E u \in Users : obj' = Observed(user[u])
    BY <2>4, RowFacts
  <2> QED BY <1>4, <2>1, <2>2, <2>3, <2>4, RowFacts, CopyEvolution DEF CopyEvolves
<1>5. IdProtected'
  BY <1>3, <1>4 DEF IdProtected, Versions, Protected
<1> QED BY <1>1, <1>2, <1>5 DEF RowInv

-----------------------------------------------------------------------------
(* Without failures the user of an object goes before its finalizer.       *)

RowOf(u) == db[Username[u]]

\* Every version in sight is past.
AllPast(u) == \A o \in Versions(user[u]) : Past(o)

\* The object's user has been removed and will not be created again.
Finished(u) == /\ AllPast(u)
               /\ cur = u => pc \notin LivePcs
               /\ RowOf(u).by # u

\* The user with this ID is in the database under the object's name, unless the
\* object has done with it.
Kept(u, id) == id # 0 => RowOf(u).id = id \/ Finished(u)

VersionsKept == \A u \in Users : \A o \in Versions(user[u]) : Kept(u, o.userID)

CopyKept == pc # "idle" => Kept(cur, obj.userID)

\* The worker has deleted the user when it is about to remove the finalizer.
UserDeleted == pc = "removeFinalizer" /\ obj.userID # 0 => RowOf(cur).by # cur

GoneClean ==
  \A u \in Users :
    Stored(user[u]).life = "gone" /\ Stored(user[u]).userID # 0 => RowOf(u).by # u

CleanInv == Quiet => headscale /\ VersionsKept /\ CopyKept /\ UserDeleted /\ GoneClean

CompletionInv == RowInv /\ CleanInv

\* An object in deletion does not come back.
LEMMA PastLasts ==
  ASSUME RowInv, [Next]_vars, NEW u \in Users, AllPast(u)
  PROVE  AllPast(u)'
<1> SUFFICES ASSUME NEW o \in Versions(user'[u]) PROVE Past(o)
  BY DEF AllPast, Versions, Past
<1>1. CASE o \in Versions(user[u])
  BY <1>1 DEF AllPast
<1>2. CASE NewVersion(u, o) /\ o \in Object
  <2>1. Past(Stored(user[u]))
    BY RowFacts DEF AllPast
  <2>2. CASE u = cur /\ pc # "idle" /\ fresh /\ Writable(o)
    <3>1. obj \in Object /\ Past(obj)
      BY <2>1, <2>2, RowFacts DEF FinalizerInv, WorkerInv, Past
    <3> QED BY <3>1, <2>2 DEF Writable, WithFinalizer, WithUserID, Removed, Object, Past
  <2> QED BY <2>1, <2>2, <1>2 DEF NewVersion, Past
<1> QED BY <1>1, <1>2, RowFacts, SeenVersions

\* What is finished stays so.
LEMMA FinishedLasts ==
  ASSUME RowInv, [Next]_vars, Quiet', NEW u \in Users, Finished(u)
  PROVE  Finished(u)'
<1>1. AllPast(u)'
  BY PastLasts DEF Finished
<1>2. ASSUME cur' = u PROVE pc' \notin LivePcs
  <2>1. CASE pc # "idle" /\ pc' # "idle"
    BY <2>1, <1>2, PlaceEvolution, RowFacts DEF Finished
  <2>2. CASE pc' = "idle"
    BY <2>2 DEF LivePcs
  <2>3. CASE pc = "idle" /\ pc' # "idle"
    <3>1. obj' = Observed(user[u]) /\ Exists(obj') /\ pc' = FirstCall(obj')
      BY <2>3, <1>2, RowFacts, CopyEvolution DEF CopyEvolves, AddFinalizer, CreateUser
    <3>2. obj'.life = "deleting"
      BY <3>1, RowFacts DEF Finished, AllPast, Past, Exists
    <3> QED BY <3>1, <3>2 DEF FirstCall, LivePcs
  <2> QED BY <2>1, <2>2, <2>3
<1>3. db'[Username[u]].by # u
  <2>1. CASE CreateUser
    <3>1. cur # u /\ Insert(Username[cur], cur) /\ cur \in Users
      BY <2>1, RowFacts DEF CreateUser, Finished, LivePcs
    <3> QED BY <3>1, RowFacts DEF Insert, Finished, RowOf
  <2>2. CASE DeleteUser
    BY <2>2, RowFacts DEF DeleteUser, Delete, NoRow, Finished, RowOf
  <2>3. CASE UNCHANGED server
    BY <2>3 DEF server, Finished, RowOf
  <2> QED BY <2>1, <2>2, <2>3, QuietSteps, RowFacts
<1> QED BY <1>1, <1>2, <1>3 DEF Finished, RowOf

\* A user leaves the database by the deletion of its own object only.
LEMMA KeptLasts ==
  ASSUME RowInv, [Next]_vars, Quiet', NEW u \in Users, NEW id \in Nat,
         Owned(u, id), Kept(u, id)
  PROVE  Kept(u, id)'
<1>1. CASE id = 0
  BY <1>1 DEF Kept
<1>2. CASE Finished(u)
  BY <1>2, FinishedLasts DEF Kept
<1>3. CASE id # 0 /\ RowOf(u).id = id
  <2>1. CASE CreateUser
    <3>1. Insert(Username[cur], cur) /\ cur \in Users
      BY <2>1, RowFacts DEF CreateUser
    <3>2. db'[Username[u]].id = id
      BY <3>1, <1>3, RowFacts DEF Insert, RowOf
    <3> QED BY <3>2 DEF Kept, RowOf
  <2>2. CASE DeleteUser /\ obj.userID = id
    <3>1. /\ pc = "deleteUser" /\ pc' = "removeFinalizer" /\ cur' = cur
          /\ Delete /\ user' = user
      BY <2>2 DEF DeleteUser, Goto, kube
    <3>2. cur = u
      BY <2>2, <3>1, <1>3, RowFacts DEF Owned, RowOf
    <3>3. AllPast(u)
      BY <3>1, <3>2, RowFacts DEF FinalizerInv, WorkerInv, DeletionPcs, AllPast, Versions
    <3>4. AllPast(u)'
      BY <3>3, PastLasts
    <3>5. db'[Username[u]].by # u
      BY <3>1, <2>2, <1>3, RowFacts DEF Delete, Matches, RowOf, NoRow
    <3> QED BY <3>1, <3>2, <3>4, <3>5 DEF Kept, Finished, RowOf, LivePcs
  <2>3. CASE DeleteUser /\ obj.userID # id
    <3>1. db'[Username[u]].id = id
      BY <2>3, <1>3, RowFacts DEF DeleteUser, Delete, Matches, RowOf
    <3> QED BY <3>1 DEF Kept, RowOf
  <2>4. CASE UNCHANGED server
    BY <2>4, <1>3 DEF server, Kept, RowOf
  <2> QED BY <2>1, <2>2, <2>3, <2>4, QuietSteps, RowFacts
<1> QED BY <1>1, <1>2, <1>3 DEF Kept

\* The ID of a version in sight was kept before the step that wrote it.
LEMMA SeenKept ==
  ASSUME RowInv, CleanInv, Quiet, [Next]_vars, NEW u \in Users,
         NEW o \in Versions(user'[u])
  PROVE  o.userID \in Nat /\ Owned(u, o.userID) /\ Kept(u, o.userID)
<1>1. CASE o \in Versions(user[u])
  BY <1>1, RowFacts DEF CleanInv, VersionsKept, Object
<1>2. CASE o.userID = 0
  BY <1>2, RowFacts DEF Owned, Kept, TypeOK
<1>3. CASE o.userID = Stored(user[u]).userID
  BY <1>3, RowFacts DEF CleanInv, VersionsKept, Object
<1>4. CASE u = cur /\ pc # "idle" /\ Writable(o)
  <2>1. o.userID \in {0, obj.userID}
    BY <1>4, RowFacts DEF Writable, WithFinalizer, WithUserID, Removed, Object
  <2> QED BY <2>1, <1>2, <1>4, RowFacts DEF CleanInv, CopyKept, Object
<1> QED BY <1>1, <1>2, <1>3, <1>4, RowFacts, SeenVersions DEF NewVersion, Absent

\* Each step of a quiet run keeps it: the worker deletes the user it finds in its
\* copy, and removes the finalizer only from the version it has read.
LEMMA CleanStep ==
  ASSUME CompletionInv, [Next]_vars
  PROVE  CleanInv'
<1> SUFFICES ASSUME Quiet'
             PROVE  (headscale /\ VersionsKept /\ CopyKept /\ UserDeleted /\ GoneClean)'
  BY DEF CleanInv
<1>1. /\ RowInv /\ CleanInv /\ TypeOK /\ Quiet /\ headscale' /\ headscale
      /\ (UNCHANGED server) \/ CreateUser \/ DeleteUser
      /\ ~DeleteUserFails
  BY RowFacts, QuietSteps DEF CompletionInv, CleanInv
<1>2. VersionsKept'
  <2> SUFFICES ASSUME NEW u \in Users, NEW o \in Versions(user'[u])
               PROVE  Kept(u, o.userID)'
    BY DEF VersionsKept, Versions
  <2> QED BY <1>1, SeenKept, KeptLasts
<1>3. CopyKept'
  <2> SUFFICES ASSUME pc' # "idle"
               PROVE  obj'.userID # 0 => \/ db'[Username[cur']].id = obj'.userID
                                         \/ Finished(cur)'
    BY DEF CopyKept, Kept, RowOf
  <2>1. ASSUME NEW u \in Users, NEW id \in Nat, Owned(u, id), Kept(u, id),
               cur' = u, obj'.userID = id, id # 0
        PROVE  db'[Username[cur']].id = id \/ Finished(cur)'
    BY <2>1, <1>1, KeptLasts DEF Kept, RowOf, Finished, AllPast, Versions, Past
  <2>2. CASE pc # "idle" /\ cur' = cur /\ obj'.userID = obj.userID
    BY <2>1, <2>2, <1>1, RowFacts DEF CleanInv, CopyKept, Object
  <2>3. CASE AddFinalizer
    <3>1. pc # "idle" /\ cur' = cur /\ obj' = WithFinalizer(obj)
      BY <2>3 DEF AddFinalizer, Goto
    <3> QED BY <2>2, <3>1, <1>1, RowFacts DEF WithFinalizer, Object
  <2>4. CASE CreateUser
    <3>1. /\ cur \in Users /\ cur' = cur /\ Insert(Username[cur], cur)
          /\ obj' = WithUserID(obj, nextId) /\ obj \in Object
      BY <2>4, <1>1, RowFacts DEF CreateUser, Goto
    <3> QED BY <3>1, <1>1, RowFacts DEF WithUserID, Object, Insert
  <2>5. ASSUME NEW u \in Users, cur' = u, obj' = Observed(user[u])
        PROVE  obj'.userID # 0 => db'[Username[cur']].id = obj'.userID \/ Finished(cur)'
    BY <2>1, <2>5, <1>1, RowFacts DEF CleanInv, VersionsKept, Object
  <2> QED BY <2>2, <2>3, <2>4, <2>5, <1>1, CopyEvolution DEF CopyEvolves
<1>4. UserDeleted'
  <2> SUFFICES ASSUME pc' = "removeFinalizer", obj'.userID # 0
               PROVE  db'[Username[cur']].by # cur'
    BY DEF UserDeleted, RowOf
  <2>1. pc # "idle"
    BY <1>1, CopyEvolution DEF CopyEvolves, FirstCall, AddFinalizer, CreateUser
  <2>2. cur' = cur /\ cur \in Users
    BY <1>1, <2>1, PlaceEvolution, RowFacts
  <2>3. CASE pc = "removeFinalizer" /\ UNCHANGED obj
    BY <2>3, <2>2, <1>1 DEF CleanInv, UserDeleted, RowOf, server, CreateUser, DeleteUser
  <2>4. CASE Finalize
    BY <2>4, <1>1 DEF Finalize, Goto, AfterFinalize
  <2>5. ASSUME Finished(cur) PROVE db'[Username[cur']].by # cur'
    <3>1. Finished(cur)'
      BY <2>2, <2>5, <1>1, FinishedLasts
    <3> QED BY <3>1, <2>2 DEF Finished, RowOf
  <2>6. CASE DeleteUser \/ DeleteUserUnknown
    <3>1. obj' = obj
      BY <2>6 DEF DeleteUser, DeleteUserUnknown, AfterDeleteError
    <3>2. RowOf(cur).id = obj.userID \/ Finished(cur)
      BY <3>1, <2>1, <1>1 DEF CleanInv, CopyKept, Kept
    <3>3. CASE RowOf(cur).id = obj.userID
      <4>1. DeleteUser
        BY <3>3, <2>2, <2>6, <1>1, RowFacts DEF DeleteUserUnknown, Matches, RowOf
      <4> QED BY <4>1, <3>3, <2>2, <1>1, RowFacts
              DEF DeleteUser, Delete, Matches, RowOf, NoRow
    <3> QED BY <3>2, <3>3, <2>5
  <2> QED BY <2>1, <2>3, <2>4, <2>6, <1>1, PlaceEvolution
<1>5. GoneClean'
  <2> SUFFICES ASSUME NEW u \in Users, Stored(user'[u]).life = "gone",
                      Stored(user'[u]).userID # 0
               PROVE  db'[Username[u]].by # u
    BY DEF GoneClean, RowOf, Stored
  <2>1. CASE Stored(user'[u]) = Stored(user[u])
    <3>1. RowOf(u).by # u
      BY <2>1, <1>1 DEF CleanInv, GoneClean
    <3>2. CASE CreateUser
      <4>1. pc = "create" /\ Insert(Username[cur], cur) /\ cur \in Users
        BY <3>2, <1>1, RowFacts DEF CreateUser
      <4>2. Stored(user[cur]).finalizer
        BY <4>1, <1>1, RowFacts DEF FinalizerInv, WorkerInv, Holding
      <4>3. Exists(Stored(user[cur]))
        BY <4>1, <4>2, <1>1, RowFacts
           DEF FinalizerInv, HistoryInv, FinalizerExists, Versions
      <4>4. cur # u
        BY <4>3, <2>1 DEF Exists
      <4> QED BY <4>1, <4>4, <3>1, <1>1, RowFacts DEF Insert, RowOf
    <3>3. CASE DeleteUser
      BY <3>1, <3>3, <1>1, RowFacts DEF DeleteUser, Delete, NoRow, RowOf
    <3>4. CASE UNCHANGED server
      BY <3>1, <3>4 DEF server, RowOf
    <3> QED BY <3>2, <3>3, <3>4, <1>1
  <2>2. CASE NewVersion(u, Stored(user'[u]))
    <3> DEFINE o == Stored(user'[u])
    <3>1. CASE u = cur /\ pc # "idle" /\ Writable(o)
      <4>1. pc = "removeFinalizer" /\ o.userID = obj.userID
        BY <3>1, <1>1, RowFacts
           DEF Writable, WithFinalizer, WithUserID, Removed, Object, Exists
      <4>2. RowOf(u).by # u
        BY <4>1, <3>1, <1>1 DEF CleanInv, UserDeleted
      <4> QED BY <4>1, <4>2, <1>1 DEF RowOf, server, CreateUser, DeleteUser
    <3>2. CASE /\ Stored(user[u]).life = "live" /\ o.userID = Stored(user[u]).userID
               /\ o.finalizer = Stored(user[u]).finalizer
               /\ o.life = IF o.finalizer THEN "deleting" ELSE "gone"
      BY <3>2, <1>1, RowFacts DEF Protected
    <3> QED BY <2>2, <3>1, <3>2 DEF NewVersion, Exists, Absent
  <2> QED BY <2>1, <2>2, <1>1, Evolution, StoredEvolves
<1> QED BY <1>1, <1>2, <1>3, <1>4, <1>5

\* At the start nobody has an ID.
LEMMA InitCompletion == Init => CompletionInv
<1> SUFFICES ASSUME Init PROVE CompletionInv
  OBVIOUS
<1>1. CopyInv
  BY InitCopy
<1>2. \A n \in Names : db[n].id = 0 /\ db[n].by = NoUser
  BY DEF Init, NoRow
<1>3. \A u \in Users : \A o \in Versions(user[u]) : o.userID = 0
  BY DEF Init, Versions, Absent
<1>4. \A u \in Users : Stored(user[u]).userID = 0
  BY DEF Init, Stored, Absent
<1>5. pc = "idle" /\ headscale
  BY DEF Init
<1> QED BY <1>1, <1>2, <1>3, <1>4, <1>5, NoUserAssumption
        DEF CompletionInv, RowInv, RowsNamed, IdProtected, Protected, CleanInv,
            VersionsKept, Kept, CopyKept, UserDeleted, GoneClean

\* In a run without failed calls, restarts and changes by hand, an object that is
\* gone and had recorded its ID has taken its user along, through any stale copies,
\* conflicts, edits and rivals for the name (handleDeletion).
THEOREM NothingLeftBehind == Spec => []LeftBehindPaidFor
<1>1. CompletionInv /\ [Next]_vars => CompletionInv'
  BY RowStep, CleanStep DEF CompletionInv
<1>2. CompletionInv => LeftBehindPaidFor
  <2> SUFFICES ASSUME CompletionInv, faults = 0, admin = 0, NEW u \in Users,
                      Stored(user[u]).life = "gone", Stored(user[u]).userID # 0,
                      NEW n \in Names, db[n].by = u
               PROVE  FALSE
    BY DEF LeftBehindPaidFor, LeftBehind
  <2>1. n = Username[u]
    BY DEF CompletionInv, RowInv, RowsNamed
  <2>2. RowOf(u).by # u
    BY DEF CompletionInv, CleanInv, Quiet, GoneClean
  <2> QED BY <2>1, <2>2 DEF RowOf
<1> QED BY <1>1, <1>2, InitCompletion, PTL DEF Spec

-----------------------------------------------------------------------------
(* No wake-up is lost.                                                     *)

\* A pass will start with the object: its key is queued, or will be when the next
\* watch event arrives.
Awaited(u) == u \in queue \/ Lag(user[u]) > 0

\* Deletion is a mark only while there is a finalizer.
Held(o) == o.life = "deleting" => o.finalizer

DeletionHeld ==
  /\ \A u \in Users : \A o \in Versions(user[u]) : Held(o)
  /\ pc # "idle" => Held(obj)

IdleNoKey == pc = "idle" => cur = NoUser

LiveCopy == pc \in LivePcs => obj.life = "live"

CopySettled ==
  pc = "patch" =>
    \/ cond \in FailureReasons
    \/ cond \in ReadyReasons /\ obj.life = "live" /\ obj.finalizer /\ obj.userID # 0

\* A pass that may end without a requeue either has the stored object in hand or
\* another pass will follow.
CopyTrue ==
  pc \notin {"idle", "recordUserID"} /\ ~(pc = "patch" /\ cond \in FailureReasons)
    => Awaited(cur) \/ obj = Stored(user[cur])

WorkInv == RowInv /\ DeletionHeld /\ IdleNoKey /\ LiveCopy /\ CopySettled
             /\ CopyTrue /\ UnsettledHasWork

\* How a pass comes to write the condition.
LEMMA ReportEvolution ==
  ASSUME TypeOK, [Next]_vars, pc' = "patch"
  PROVE  \/ pc = "patch" /\ UNCHANGED <<cond, obj>>
         \/ cond' \in FailureReasons
         \/ (VerifyUser \/ RecordUserID) /\ cond' \in ReadyReasons /\ UNCHANGED obj
<1>1. CASE \/ AddFinalizer \/ CreateUser \/ Finalize \/ DeleteUser \/ DeleteUserUnknown
           \/ DeleteUserFails \/ GetHeadscaleFails \/ AddFinalizerFails \/ ClearUserID
           \/ ClearUserIDFails \/ PatchCondition \/ PatchConditionFails
           \/ RemoveFinalizer \/ RemoveFinalizerFails \/ Crash
  BY <1>1 DEF AddFinalizer, CreateUser, Finalize, DeleteUser, DeleteUserUnknown,
              DeleteUserFails, GetHeadscaleFails, AddFinalizerFails, ClearUserID,
              ClearUserIDFails, PatchCondition, PatchConditionFails, RemoveFinalizer,
              RemoveFinalizerFails, Crash, AfterReport, AfterFinalize, AfterDeleteError,
              Goto, Finish, Requeue, Forget
<1>2. CASE \/ GetHeadscale \/ VerifyUserFails \/ CreateUserNameTaken \/ CreateUserFails
           \/ RecordUserIDFails
  BY <1>2 DEF GetHeadscale, VerifyUserFails, CreateUserNameTaken, CreateUserFails,
              RecordUserIDFails, AfterGetHeadscale, AfterVerifyError, AfterNameTaken,
              Goto, Report, FailureReasons
<1>3. CASE VerifyUser \/ RecordUserID
  <2>1. cond' \in ReadyReasons /\ UNCHANGED obj
    BY <1>3 DEF VerifyUser, RecordUserID, Goto, Report, ReadyReasons
  <2> QED BY <1>3, <2>1
<1>4. CASE \/ \E u \in Users : Deliver(u) \/ Resync(u)
           \/ ToggleHeadscale \/ UNCHANGED vars
           \/ \E u \in Users : CreateObject(u) \/ EditObject(u) \/ DeleteObject(u)
           \/ \E n \in Names : AdminDeleteUser(n) \/ AdminCreateUser(n)
  BY <1>4 DEF Deliver, Resync, ToggleHeadscale, vars, CreateObject, EditObject,
              DeleteObject, AdminDeleteUser, AdminCreateUser, worker
<1>5. CASE \E u \in Users : Reconcile(u)
  BY <1>5 DEF Reconcile, FirstCall, worker
<1> QED BY <1>1, <1>2, <1>3, <1>4, <1>5 DEF Next, Step, Environment

\* How a pass ends: with a requeue, with a write to the object, or with a success
\* it had reported before.
LEMMA FinishEvolution ==
  ASSUME TypeOK, [Next]_vars, pc # "idle", pc' = "idle"
  PROVE  \/ Crash
         \/ cur \in queue'
         \/ \E o \in Object : Store(cur, o)
         \/ /\ pc = "patch" /\ cond \notin FailureReasons /\ obj.ready = cond
            /\ UNCHANGED <<user, queue>>
<1>1. /\ cur \in Users /\ WithUserID(obj, 0) \in Object /\ Removed(obj) \in Object
      /\ WithReady(Stored(user[cur]), cond) \in Object
  BY VersionTypes, WrittenTypes DEF TypeOK
<1>2. CASE \/ GetHeadscaleFails \/ AddFinalizerFails \/ ClearUserIDFails
           \/ PatchConditionFails \/ RemoveFinalizerFails
  BY <1>2 DEF GetHeadscaleFails, AddFinalizerFails, ClearUserIDFails,
              PatchConditionFails, RemoveFinalizerFails, Requeue
<1>3. CASE ClearUserID \/ RemoveFinalizer
  BY <1>1, <1>3 DEF ClearUserID, RemoveFinalizer, UpdateAccepted
<1>4. CASE PatchCondition
  <2>1. CASE NeedsPatch
    BY <1>1, <1>4, <2>1 DEF PatchCondition
  <2>2. CASE ~NeedsPatch
    BY <1>4, <2>2 DEF PatchCondition, AfterReport, NeedsPatch, Requeue, Finish
  <2> QED BY <2>1, <2>2
<1>5. CASE \/ AddFinalizer \/ CreateUser \/ Finalize \/ DeleteUser \/ DeleteUserUnknown
           \/ DeleteUserFails \/ GetHeadscale \/ VerifyUser \/ VerifyUserFails
           \/ CreateUserNameTaken \/ CreateUserFails \/ RecordUserID
           \/ RecordUserIDFails
  BY <1>5 DEF AddFinalizer, CreateUser, Finalize, DeleteUser, DeleteUserUnknown,
              DeleteUserFails, GetHeadscale, VerifyUser, VerifyUserFails,
              CreateUserNameTaken, CreateUserFails, RecordUserID, RecordUserIDFails,
              AfterGetHeadscale, AfterVerifyError, AfterNameTaken, AfterFinalize,
              AfterDeleteError, Goto, Report
<1>6. CASE \/ \E u \in Users : Deliver(u) \/ Resync(u)
           \/ ToggleHeadscale \/ UNCHANGED vars
           \/ \E u \in Users : CreateObject(u) \/ EditObject(u) \/ DeleteObject(u)
           \/ \E n \in Names : AdminDeleteUser(n) \/ AdminCreateUser(n)
  BY <1>6 DEF Deliver, Resync, ToggleHeadscale, vars, CreateObject, EditObject,
              DeleteObject, AdminDeleteUser, AdminCreateUser, worker
<1>7. CASE \E u \in Users : Reconcile(u)
  BY <1>7 DEF Reconcile
<1> QED BY <1>2, <1>3, <1>4, <1>5, <1>6, <1>7 DEF Next, Step, Environment

\* A key leaves the queue when a pass takes it, or when the manager restarts.
LEMMA QueueEvolution ==
  ASSUME TypeOK, [Next]_vars, NEW u \in queue
  PROVE  u \in queue' \/ Reconcile(u) \/ Crash
<1>1. CASE \/ GetHeadscaleFails \/ AddFinalizerFails \/ ClearUserID \/ ClearUserIDFails
           \/ PatchCondition \/ PatchConditionFails \/ RemoveFinalizer
           \/ RemoveFinalizerFails
  BY <1>1 DEF GetHeadscaleFails, AddFinalizerFails, ClearUserID, ClearUserIDFails,
              PatchCondition, PatchConditionFails, RemoveFinalizer,
              RemoveFinalizerFails, AfterReport, Finish, Requeue
<1>2. CASE \/ AddFinalizer \/ CreateUser \/ Finalize \/ DeleteUser \/ DeleteUserUnknown
           \/ DeleteUserFails \/ GetHeadscale \/ VerifyUser \/ VerifyUserFails
           \/ CreateUserNameTaken \/ CreateUserFails \/ RecordUserID
           \/ RecordUserIDFails
  BY <1>2 DEF AddFinalizer, CreateUser, Finalize, DeleteUser, DeleteUserUnknown,
              DeleteUserFails, GetHeadscale, VerifyUser, VerifyUserFails,
              CreateUserNameTaken, CreateUserFails, RecordUserID, RecordUserIDFails,
              AfterVerifyError, AfterNameTaken, AfterDeleteError, Goto, Report
<1>3. CASE \/ \E k \in Users : Deliver(k) \/ Resync(k)
           \/ ToggleHeadscale \/ UNCHANGED vars
           \/ \E k \in Users : CreateObject(k) \/ EditObject(k) \/ DeleteObject(k)
           \/ \E n \in Names : AdminDeleteUser(n) \/ AdminCreateUser(n)
  BY <1>3 DEF Deliver, Resync, ToggleHeadscale, vars, CreateObject, EditObject,
              DeleteObject, AdminDeleteUser, AdminCreateUser
<1>4. ASSUME NEW k \in Users, Reconcile(k) PROVE u \in queue' \/ Reconcile(u)
  BY <1>4 DEF Reconcile
<1> QED BY <1>1, <1>2, <1>3, <1>4 DEF Next, Step, Environment

\* While a pass runs, an object that another pass awaits keeps it, and a write to
\* it brings one.
LEMMA AwaitedLasts ==
  ASSUME RowInv, [Next]_vars, pc # "idle", pc' # "idle", NEW u \in Users
  PROVE  /\ Awaited(u) => u \in queue' \/ Lag(user'[u]) > 0
         /\ (Awaited(u))' \/ Stored(user'[u]) = Stored(user[u])
<1>1. ~Crash /\ \A k \in Users : ~Reconcile(k)
  BY DEF Crash, Forget, Reconcile
<1>2. TypeOK /\ user[u] \in History(Object) /\ Evolves(u)
  BY RowFacts, Evolution DEF TypeOK
<1>3. u \in queue => u \in queue'
  BY <1>1, <1>2, QueueEvolution
<1>4. CASE UNCHANGED user[u]
  BY <1>3, <1>4 DEF Awaited
<1>5. CASE u \in queue'
  BY <1>5 DEF Awaited
<1>6. CASE \E o \in Object : user'[u] = Written(user[u], o)
  <2>1. Lag(user'[u]) > 0
    BY <1>2, <1>6, WrittenVersions
  <2> QED BY <2>1 DEF Awaited, Lag
<1> QED BY <1>2, <1>4, <1>5, <1>6 DEF Evolves

\* Every version in deletion holds its finalizer, and so does the copy of one.
LEMMA HeldStep ==
  ASSUME RowInv, DeletionHeld, [Next]_vars
  PROVE  DeletionHeld'
<1>1. ASSUME NEW u \in Users, NEW o \in Versions(user'[u]) PROVE Held(o)
  <2>1. CASE o \in Versions(user[u])
    BY <2>1 DEF DeletionHeld
  <2>2. CASE u = cur /\ pc # "idle" /\ Writable(o)
    BY <2>2, RowFacts
       DEF DeletionHeld, Writable, Held, WithFinalizer, WithUserID, Removed, Object
  <2>3. CASE /\ o.life = Stored(user[u]).life
             /\ o.finalizer = Stored(user[u]).finalizer
    BY <2>3, RowFacts DEF DeletionHeld, Held
  <2>4. CASE o = [Absent EXCEPT !.life = "live"]
    BY <2>4 DEF Held, Absent
  <2>5. CASE o.life = IF o.finalizer THEN "deleting" ELSE "gone"
    BY <2>5 DEF Held
  <2> QED BY <2>1, <2>2, <2>3, <2>4, <2>5, RowFacts, SeenVersions DEF NewVersion
<1>2. ASSUME pc' # "idle" PROVE Held(obj')
  <2>1. CASE pc # "idle" /\ UNCHANGED obj
    BY <2>1 DEF DeletionHeld
  <2>2. CASE AddFinalizer
    BY <2>2, RowFacts DEF AddFinalizer, WithFinalizer, Object, Held
  <2>3. CASE CreateUser
    BY <2>3, RowFacts DEF CreateUser, WithUserID, Object, Held, DeletionHeld
  <2>4. CASE \E u \in Users : obj' = Observed(user[u])
    BY <2>4, RowFacts DEF DeletionHeld
  <2> QED BY <1>2, <2>1, <2>2, <2>3, <2>4, RowFacts, CopyEvolution DEF CopyEvolves
<1> QED BY <1>1, <1>2 DEF DeletionHeld, Versions, Held

\* What the worker is about to report is true of its copy.
LEMMA CopyTold ==
  ASSUME WorkInv, [Next]_vars
  PROVE  IdleNoKey' /\ LiveCopy' /\ CopySettled'
<1>1. RowInv /\ TypeOK /\ CopyEvolves
  BY RowFacts, CopyEvolution DEF WorkInv
<1>2. IdleNoKey'
  <2>1. CASE pc' = "idle" /\ pc # "idle"
    <3>1. CASE \/ GetHeadscaleFails \/ AddFinalizerFails \/ ClearUserID \/ Crash
               \/ ClearUserIDFails \/ PatchCondition \/ PatchConditionFails
               \/ RemoveFinalizer \/ RemoveFinalizerFails
      BY <3>1 DEF GetHeadscaleFails, AddFinalizerFails, ClearUserID, ClearUserIDFails,
                  PatchCondition, PatchConditionFails, RemoveFinalizer, Crash,
                  RemoveFinalizerFails, AfterReport, Finish, Requeue, Forget, IdleNoKey
    <3>2. CASE \/ AddFinalizer \/ CreateUser \/ Finalize \/ DeleteUser
               \/ DeleteUserUnknown \/ DeleteUserFails \/ GetHeadscale \/ VerifyUser
               \/ VerifyUserFails \/ CreateUserNameTaken \/ CreateUserFails
               \/ RecordUserID \/ RecordUserIDFails
      BY <3>2, <2>1
         DEF AddFinalizer, CreateUser, Finalize, DeleteUser, DeleteUserUnknown,
             DeleteUserFails, GetHeadscale, VerifyUser, VerifyUserFails,
             CreateUserNameTaken, CreateUserFails, RecordUserID, RecordUserIDFails,
             AfterGetHeadscale, AfterVerifyError, AfterNameTaken, AfterFinalize,
             AfterDeleteError, Goto, Report
    <3>3. CASE Outside
      BY <3>3, <2>1, <1>1, RowFacts, OutsideStays
    <3>4. CASE \E u \in Users : Reconcile(u)
      BY <3>4, <2>1 DEF Reconcile
    <3> QED BY <3>1, <3>2, <3>3, <3>4 DEF Next, Step, Environment, Outside
  <2>2. CASE pc' = "idle" /\ pc = "idle"
    <3>1. cur = NoUser
      BY <2>2 DEF WorkInv, IdleNoKey
    <3>2. CASE Crash
      BY <3>2 DEF Crash, Forget, IdleNoKey
    <3>3. CASE Outside
      BY <3>1, <3>3, <1>1, RowFacts, OutsideStays DEF IdleNoKey
    <3>4. ASSUME NEW u \in Users, Reconcile(u) PROVE IdleNoKey'
      BY <3>1, <3>4, <2>2 DEF Reconcile, worker, IdleNoKey
    <3>5. CASE Step
      BY <3>5, <2>2
         DEF Step, AddFinalizer, AddFinalizerFails, GetHeadscale, GetHeadscaleFails,
             VerifyUser, VerifyUserFails, ClearUserID, ClearUserIDFails, CreateUser,
             CreateUserNameTaken, CreateUserFails, RecordUserID, RecordUserIDFails,
             PatchCondition, PatchConditionFails, Finalize, DeleteUser,
             DeleteUserUnknown, DeleteUserFails, RemoveFinalizer, RemoveFinalizerFails
    <3> QED BY <3>2, <3>3, <3>4, <3>5 DEF Next, Environment, Outside
  <2> QED BY <2>1, <2>2 DEF IdleNoKey
<1>3. LiveCopy'
  <2> SUFFICES ASSUME pc' \in LivePcs PROVE obj'.life = "live"
    BY DEF LiveCopy
  <2>0. pc' # "idle"
    BY DEF LivePcs
  <2>1. ASSUME pc # "idle" PROVE obj.life = "live" /\ obj \in Object
    BY <2>0, <2>1, <1>1, PlaceEvolution, RowFacts DEF WorkInv, LiveCopy
  <2>2. CASE pc # "idle" /\ UNCHANGED obj
    BY <2>1, <2>2
  <2>3. CASE AddFinalizer
    BY <2>1, <2>3 DEF AddFinalizer, WithFinalizer, Object
  <2>4. CASE CreateUser
    BY <2>1, <2>4 DEF CreateUser, WithUserID, Object
  <2>5. CASE Exists(obj') /\ pc' = FirstCall(obj')
    BY <2>5 DEF Exists, FirstCall, LivePcs
  <2> QED BY <2>0, <2>2, <2>3, <2>4, <2>5, <1>1 DEF CopyEvolves
<1>4. CopySettled'
  <2> SUFFICES ASSUME pc' = "patch", cond' \notin FailureReasons
               PROVE  /\ cond' \in ReadyReasons /\ obj'.life = "live"
                      /\ obj'.finalizer /\ obj'.userID # 0
    BY DEF CopySettled
  <2>1. CASE pc = "patch" /\ UNCHANGED <<cond, obj>>
    BY <2>1 DEF WorkInv, CopySettled
  <2>2. CASE (VerifyUser \/ RecordUserID) /\ cond' \in ReadyReasons /\ UNCHANGED obj
    <3>1. pc \in {"verify", "recordUserID"}
      BY <2>2 DEF VerifyUser, RecordUserID
    <3>2. obj.life = "live" /\ obj.userID # 0
      BY <3>1 DEF WorkInv, LiveCopy, LivePcs, RowInv, CopyInv, IdRecorded
    <3>3. obj.finalizer
      BY <3>1, <1>1, RowFacts DEF FinalizerInv, WorkerInv, Holding
    <3> QED BY <2>2, <3>2, <3>3
  <2> QED BY <2>1, <2>2, <1>1, ReportEvolution
<1> QED BY <1>2, <1>3, <1>4

\* A pass that may end quietly has the stored object in hand: it was read when the
\* cache had seen every write, and a write since brings another pass.
LEMMA CopyStaysTrue ==
  ASSUME WorkInv, [Next]_vars
  PROVE  CopyTrue'
<1> SUFFICES ASSUME pc' \notin {"idle", "recordUserID"},
                    ~(pc' = "patch" /\ cond' \in FailureReasons)
             PROVE  \/ cur' \in queue' \/ Lag(user'[cur']) > 0
                    \/ obj' = Stored(user'[cur'])
  BY DEF CopyTrue, Awaited, Lag, Stored
<1>1. RowInv /\ TypeOK /\ CopyEvolves
  BY RowFacts, CopyEvolution DEF WorkInv
<1>2. CASE pc # "idle" /\ pc = "recordUserID"
  <2>1. cur' = cur /\ cur \in Users /\ obj \in Object /\ user[cur] \in History(Object)
    BY <1>1, <1>2, PlaceEvolution, RowFacts DEF TypeOK
  <2>2. CASE RecordUserID
    <3>1. user'[cur] = Written(user[cur], obj)
      BY <2>1, <2>2, <1>1 DEF RecordUserID, UpdateAccepted, Store, TypeOK
    <3> QED BY <2>1, <3>1, WrittenVersions
  <2>3. CASE RecordUserIDFails
    BY <2>3 DEF RecordUserIDFails, Report, FailureReasons
  <2>4. CASE Outside
    BY <2>4, <1>2, <1>1, OutsideStays, RowFacts
  <2> QED BY <2>2, <2>3, <2>4, <1>2
          DEF Next, Step, Environment, Outside, Crash, Forget, Reconcile, AddFinalizer,
              AddFinalizerFails, GetHeadscale, GetHeadscaleFails, VerifyUser,
              VerifyUserFails, ClearUserID, ClearUserIDFails, CreateUser,
              CreateUserNameTaken, CreateUserFails, PatchCondition,
              PatchConditionFails, Finalize, DeleteUser, DeleteUserUnknown,
              DeleteUserFails, RemoveFinalizer, RemoveFinalizerFails
<1>3. CASE pc \notin {"idle", "recordUserID"} /\ UNCHANGED <<cur, obj>>
  <2>1. cur \in Users
    BY <1>1, <1>3, RowFacts
  <2>2. ~(pc = "patch" /\ cond \in FailureReasons)
    <3> SUFFICES ASSUME pc = "patch", cond \in FailureReasons PROVE FALSE
      OBVIOUS
    <3>1. CASE Outside
      BY <3>1, <1>1, OutsideStays, RowFacts
    <3>2. CASE PatchCondition \/ PatchConditionFails \/ Crash
      BY <3>2 DEF PatchCondition, PatchConditionFails, Crash, AfterReport, Requeue,
                  Finish, Forget
    <3> QED BY <3>1, <3>2
          DEF Next, Step, Environment, Outside, Reconcile, AddFinalizer,
              AddFinalizerFails, GetHeadscale, GetHeadscaleFails, VerifyUser,
              VerifyUserFails, ClearUserID, ClearUserIDFails, CreateUser,
              CreateUserNameTaken, CreateUserFails, RecordUserID, RecordUserIDFails,
              Finalize, DeleteUser, DeleteUserUnknown, DeleteUserFails,
              RemoveFinalizer, RemoveFinalizerFails
  <2>3. Awaited(cur) \/ obj = Stored(user[cur])
    BY <1>3, <2>2 DEF WorkInv, CopyTrue
  <2>4. /\ Awaited(cur) => cur \in queue' \/ Lag(user'[cur]) > 0
        /\ \/ cur \in queue' \/ Lag(user'[cur]) > 0
           \/ Stored(user'[cur]) = Stored(user[cur])
    BY <1>1, <1>3, <2>1, AwaitedLasts DEF Awaited
  <2> QED BY <1>3, <2>3, <2>4
<1>4. CASE AddFinalizer
  <2>1. /\ cur' = cur /\ cur \in Users /\ WithFinalizer(obj) \in Object
        /\ Store(cur, WithFinalizer(obj))
    BY <1>4, <1>1, RowFacts, WrittenTypes
       DEF AddFinalizer, UpdateAccepted, Goto, WithFinalizer, Object
  <2>2. user'[cur] = Written(user[cur], WithFinalizer(obj))
    BY <2>1, <1>1 DEF Store, TypeOK
  <2> QED BY <2>1, <2>2, <1>1, WrittenVersions DEF TypeOK
<1>5. CASE CreateUser
  BY <1>5 DEF CreateUser, Goto
<1>6. ASSUME NEW u \in Users, cur' = u, obj' = Observed(user[u]), UNCHANGED user
      PROVE  Lag(user'[cur']) > 0 \/ obj' = Stored(user'[cur'])
  <2>1. user[u] \in History(Object)
    BY <1>1 DEF TypeOK
  <2> QED BY <2>1, <1>6, EndVersions
<1> QED BY <1>1, <1>2, <1>3, <1>4, <1>5, <1>6 DEF CopyEvolves

\* An object that is not settled keeps its pass.
LEMMA UnsettledStep ==
  ASSUME WorkInv, [Next]_vars
  PROVE  UnsettledHasWork'
<1> SUFFICES ASSUME NEW u \in Users, Exists(Stored(user'[u])),
                    ~Settled(Stored(user'[u]))
             PROVE  u \in queue' \/ Lag(user'[u]) > 0 \/ cur' = u
  BY DEF UnsettledHasWork, Exists, Settled, Stored, Lag
<1>1. /\ RowInv /\ TypeOK /\ user[u] \in History(Object) /\ Evolves(u)
      /\ \A k \in Users : user[k] \in History(Object)
  BY RowFacts, Evolution DEF WorkInv, TypeOK
<1>2. CASE user'[u] = Relisted(user[u]) /\ (Exists(Stored(user[u])) => u \in queue')
  BY <1>1, <1>2, RelistedVersions
<1>3. CASE \E o \in Object : user'[u] = Written(user[u], o)
  BY <1>1, <1>3, WrittenVersions
<1>4. CASE UNCHANGED user[u]
  <2>1. /\ Exists(Stored(user[u])) /\ ~Settled(Stored(user[u]))
        /\ u \in queue \/ Lag(user[u]) > 0 \/ cur = u
    BY <1>4 DEF WorkInv, UnsettledHasWork
  <2>2. CASE Crash
    BY <2>1, <2>2 DEF Crash
  <2>3. CASE Lag(user[u]) > 0
    BY <1>4, <2>3
  <2>4. CASE Reconcile(u) /\ Lag(user[u]) = 0
    <3>1. Observed(user[u]) = Stored(user[u])
      BY <2>4, <1>1, EndVersions
    <3>2. Held(Observed(user[u]))
      BY <1>1, RowFacts DEF WorkInv, DeletionHeld
    <3>3. FirstCall(Observed(user[u])) # "idle"
      BY <3>2 DEF Held, FirstCall
    <3> QED BY <3>1, <3>3, <2>1, <2>4 DEF Reconcile
  <2>5. CASE u \in queue
    BY <2>2, <2>3, <2>4, <2>5, <1>1, QueueEvolution, EndVersions
  <2>6. CASE cur = u /\ u \notin queue /\ Lag(user[u]) = 0 /\ ~Crash
    <3>1. pc # "idle"
      BY <2>6, NoUserAssumption DEF WorkInv, IdleNoKey
    <3>2. CASE pc' # "idle"
      BY <3>1, <3>2, <2>6, <1>1, PlaceEvolution
    <3>3. CASE pc' = "idle"
      <4>1. ASSUME NEW o \in Object, Store(cur, o) PROVE Lag(user'[u]) > 0
        <5>1. user'[u] = Written(user[u], o)
          BY <4>1, <2>6, <1>1 DEF Store, TypeOK
        <5> QED BY <5>1, <1>1, WrittenVersions
      <4>2. ASSUME pc = "patch", cond \notin FailureReasons, obj.ready = cond
            PROVE  FALSE
        <5>1. /\ cond \in ReadyReasons /\ obj.life = "live"
              /\ obj.finalizer /\ obj.userID # 0
          BY <4>2 DEF WorkInv, CopySettled
        <5>2. Settled(obj)
          BY <5>1, <4>2 DEF Settled
        <5>3. obj = Stored(user[u])
          BY <4>2, <2>6 DEF WorkInv, CopyTrue, Awaited
        <5> QED BY <5>2, <5>3, <2>1
      <4> QED BY <4>1, <4>2, <3>1, <3>3, <2>6, <1>1, FinishEvolution
    <3> QED BY <3>2, <3>3
  <2> QED BY <2>1, <2>2, <2>3, <2>5, <2>6, <1>1, EndVersions
<1> QED BY <1>1, <1>2, <1>3, <1>4 DEF Evolves

\* Nothing exists at the start.
LEMMA InitWork == Init => WorkInv
<1> SUFFICES ASSUME Init PROVE WorkInv
  OBVIOUS
<1>1. RowInv
  BY InitCompletion DEF CompletionInv
<1>2. \A u \in Users : \A o \in Versions(user[u]) : o = Absent
  BY DEF Init, Versions
<1>3. \A u \in Users : Stored(user[u]) = Absent
  BY DEF Init, Stored
<1>4. ~Exists(Absent) /\ Held(Absent)
  BY DEF Absent, Exists, Held
<1>5. pc = "idle" /\ cur = NoUser
  BY DEF Init
<1> QED BY <1>1, <1>2, <1>3, <1>4, <1>5
        DEF WorkInv, DeletionHeld, IdleNoKey, LiveCopy, LivePcs, CopySettled, CopyTrue,
            UnsettledHasWork

\* No lost wake-up: an object that is being deleted, not Ready or without a recorded
\* user is queued, has a watch event on its way, or is being processed. In
\* particular the pass that cleared the ID and asked for no requeue is brought back
\* by its own write (Reconcile, updateStatusCondition, SetupWithManager).
THEOREM WakeUpSafe == Spec => []UnsettledHasWork
<1>1. WorkInv /\ [Next]_vars => WorkInv'
  BY RowStep, HeldStep, CopyTold, CopyStaysTrue, UnsettledStep DEF WorkInv
<1>2. WorkInv => UnsettledHasWork
  BY DEF WorkInv
<1> QED BY <1>1, <1>2, InitWork, PTL DEF Spec
=============================================================================
