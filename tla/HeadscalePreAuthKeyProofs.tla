---------------------- MODULE HeadscalePreAuthKeyProofs ----------------------
(***************************************************************************)
(* Theorems about HeadscalePreAuthKey, for any set of objects, users and   *)
(* Secrets and any bounds.                                                 *)
(***************************************************************************)
EXTENDS HeadscalePreAuthKey, KubeObjectProofs, FiniteSetTheorems

-----------------------------------------------------------------------------
(* Types.                                                                  *)

\* Storing an object or a Secret keeps every history a history.
LEMMA StoreType ==
  ASSUME TypeOK
  PROVE  /\ \A k \in Keys, o \in Object :
              Store(k, o) => object' \in [Keys -> History(Object)]
         /\ \A s \in Secrets, v \in Secret :
              StoreSecret(s, v) => secret' \in [Secrets -> History(Secret)]
<1>1. ASSUME NEW k \in Keys, NEW o \in Object, Store(k, o)
      PROVE  object' \in [Keys -> History(Object)]
  BY <1>1, WrittenHistory DEF TypeOK, Store
<1>2. ASSUME NEW s \in Secrets, NEW v \in Secret, StoreSecret(s, v)
      PROVE  secret' \in [Secrets -> History(Secret)]
  BY <1>2, WrittenHistory DEF TypeOK, StoreSecret
<1> QED BY <1>1, <1>2

\* The stored and the observed version of an object and of a Secret.
LEMMA VersionTypes ==
  ASSUME TypeOK
  PROVE  /\ \A k \in Keys :
              Stored(object[k]) \in Object /\ Observed(object[k]) \in Object
         /\ \A s \in Secrets :
              Stored(secret[s]) \in Secret /\ Observed(secret[s]) \in Secret
         /\ \A k \in Keys : SecretName[k] \in Secrets
  BY SecretNameAssumption DEF TypeOK, History, Stored, Observed

\* The versions the reconciler writes.
LEMMA WrittenTypes ==
  ASSUME NEW o \in Object
  PROVE  /\ WithFinalizer(o) \in Object /\ Removed(o) \in Object
         /\ \A id \in Nat : WithKeyID(o, id) \in Object
         /\ \A r \in Reasons : WithReady(o, r) \in Object
         /\ \A uid \in Nat : [o EXCEPT !.owner = uid] \in Object
  BY DEF Object, WithFinalizer, WithKeyID, WithReady, Removed, Lives

\* The lag of a run is a number, and 0 only as long as every pass has found both of
\* its caches in step.
LEMMA LagType ==
  ASSUME TypeOK, NEW k \in Keys, Reconcile(k)
  PROVE  /\ lag' \in Nat
         /\ lag' = 0 => lag = 0 /\ InSync(object[k]) /\ InSync(SecretOf(k))
<1> DEFINE a == Lag(object[k])
           b == Lag(SecretOf(k))
<1>1. /\ lag \in Nat /\ a \in Nat /\ b \in Nat
      /\ a = 0 <=> InSync(object[k])
      /\ b = 0 <=> InSync(SecretOf(k))
  BY EndVersions, VersionTypes DEF TypeOK, SecretOf
<1>2. lag' = Most({lag, a, b})
  BY DEF Reconcile
<1> HIDE DEF a, b
<1>3. \E n \in {lag, a, b} : \A i \in {lag, a, b} : i <= n
  BY <1>1
<1>4. lag' \in {lag, a, b} /\ \A i \in {lag, a, b} : i <= lag'
  BY <1>2, <1>3 DEF Most
<1> QED BY <1>1, <1>4

\* An Update that fails leaves a history, whether or not it took effect.
LEMMA UpdateFailedType ==
  ASSUME TypeOK, cur \in Keys, NEW o \in Object, UpdateFailed(o)
  PROVE  object' \in [Keys -> History(Object)] /\ lag' \in Nat /\ faults' \in Nat
<1>1. CASE UNCHANGED <<object, lag, faults>>
  BY <1>1 DEF TypeOK
<1>2. CASE Fault /\ (UNCHANGED object \/ Store(cur, o))
  BY <1>2, StoreType DEF TypeOK, Fault
<1> QED BY <1>1, <1>2 DEF UpdateFailed

\* A pass that ends, with or without the key, has the types of an idle worker.
LEMMA EndType ==
  ASSUME TypeOK, Finish \/ (pc # "idle" /\ (RetryError \/ RequeueAfter))
  PROVE  /\ pc' = "idle" /\ "idle" \in Pcs
         /\ cur' = NoKey /\ obj' \in Object /\ fresh' = FALSE
         /\ minted' \in Nat /\ secFresh' = FALSE /\ cond' \in Reasons
         /\ queue' \subseteq Keys /\ later' \subseteq Keys
<1>1. Absent \in Object /\ "Unset" \in Reasons /\ 0 \in Nat /\ "idle" \in Pcs
  BY DEF Absent, Object, Lives, Reasons, Pcs
<1> QED BY <1>1 DEF Finish, RetryError, RequeueAfter, Forget, queues, TypeOK

\* A pass that goes on to the condition.
LEMMA ReportType ==
  ASSUME TypeOK, pc # "idle", NEW r \in Reasons, Report(r)
  PROVE  /\ pc' \in Pcs /\ cur' \in Keys /\ obj' \in Object /\ fresh' \in BOOLEAN
         /\ minted' \in Nat /\ secFresh' \in BOOLEAN /\ cond' \in Reasons
         /\ queue' \subseteq Keys /\ later' \subseteq Keys
  BY DEF Report, queues, TypeOK, Pcs

\* A pass that goes on to the next call.
LEMMA GotoType ==
  ASSUME TypeOK, pc # "idle", NEW l \in Pcs, Goto(l)
  PROVE  /\ pc' \in Pcs /\ cur' \in Keys /\ fresh' \in BOOLEAN /\ cond' \in Reasons
         /\ queue' \subseteq Keys /\ later' \subseteq Keys
  BY DEF Goto, queues, TypeOK

\* Each step keeps the types.
LEMMA TypeStep == TypeOK /\ [Next]_vars => TypeOK'
<1> SUFFICES ASSUME TypeOK, [Next]_vars PROVE TypeOK'
    OBVIOUS
<1> USE BoundsAssumption
<1>a. ASSUME pc # "idle"
      PROVE  /\ cur \in Keys /\ SecretName[cur] \in Secrets
             /\ Stored(object[cur]) \in Object /\ Stored(SecretOf(cur)) \in Secret
             /\ obj \in Object /\ cond \in Reasons /\ minted \in Nat
             /\ WithFinalizer(obj) \in Object /\ Removed(obj) \in Object
             /\ WithKeyID(obj, minted) \in Object
             /\ [obj EXCEPT !.owner = hsUser.uid] \in Object
             /\ WithReady(Stored(object[cur]), cond) \in Object
             /\ NewSecret \in Secret
             /\ [Stored(SecretOf(cur)) EXCEPT !.key = minted] \in Secret
  <2>1. /\ cur \in Keys /\ SecretName[cur] \in Secrets
        /\ Stored(object[cur]) \in Object /\ Stored(SecretOf(cur)) \in Secret
        /\ obj \in Object /\ cond \in Reasons /\ minted \in Nat /\ hsUser.uid \in Nat
    BY <1>a, VersionTypes DEF TypeOK, SecretOf, HsUser
  <2> QED BY <2>1, WrittenTypes DEF NewSecret, Secret
<1>s. ASSUME NEW k \in Keys, NEW o \in Object, Store(k, o)
      PROVE  object' \in [Keys -> History(Object)]
  BY <1>s, StoreType
<1>v. ASSUME NEW s \in Secrets, NEW v \in Secret, StoreSecret(s, v)
      PROVE  secret' \in [Secrets -> History(Secret)]
  BY <1>v, StoreType
<1>f. ASSUME pc # "idle", NEW o \in Object, UpdateFailed(o)
      PROVE  object' \in [Keys -> History(Object)] /\ lag' \in Nat /\ faults' \in Nat
  BY <1>a, <1>f, UpdateFailedType
<1>g. ASSUME Fault PROVE lag' \in Nat /\ faults' \in Nat
  BY <1>g DEF Fault, TypeOK
<1>i. ASSUME pc # "idle", Insert
      PROVE  db' \subseteq Row /\ nextId' \in Nat \ {0}
  BY <1>i, <1>a DEF Insert, TypeOK, Row
<1>d. ASSUME Delete PROVE db' \subseteq Row /\ nextId' = nextId
  BY <1>d DEF Delete, TypeOK
<1>n. NoSecret \in Secret
  BY DEF NoSecret, Secret
<1>1. ASSUME NEW k \in Keys, Reconcile(k) PROVE TypeOK'
  <2>1. Observed(object[k]) \in Object /\ FirstCall(Observed(object[k])) \in Pcs
    BY VersionTypes DEF FirstCall, Pcs, LivePcs, DeletionPcs
  <2>2. lag' \in Nat
    BY <1>1, LagType
  <2> QED BY <1>1, <2>1, <2>2 DEF TypeOK, Reconcile, kube, server, worker, InSync
<1>2. CASE AddFinalizer
  BY <1>2, <1>a, <1>s DEF AddFinalizer, TypeOK, UpdateAccepted, Goto, server, queues,
                    budget, Pcs, LivePcs
<1>3. CASE AddFinalizerFails
  <2>1. object' \in [Keys -> History(Object)] /\ lag' \in Nat /\ faults' \in Nat
    BY <1>3, <1>a, <1>f DEF AddFinalizerFails
  <2> QED BY <1>3, <2>1, EndType DEF AddFinalizerFails, TypeOK, server
<1>r. ASSUME pc # "idle", AfterResolve
      PROVE  /\ pc' \in Pcs /\ cur' \in Keys /\ obj' \in Object /\ fresh' \in BOOLEAN
             /\ minted' \in Nat /\ secFresh' \in BOOLEAN /\ cond' \in Reasons
             /\ queue' \subseteq Keys /\ later' \subseteq Keys
  <2>1. "mint" \in Pcs /\ "PreAuthKeyReady" \in Reasons
    BY DEF Pcs, LivePcs, MintPcs, Reasons, ReadyReasons
  <2> QED BY <1>r, <2>1, ReportType, GotoType DEF AfterResolve, TypeOK
<1>4. CASE GetHeadscale
  <2>1. /\ "getUser" \in Pcs /\ "HeadscaleNotFound" \in Reasons
        /\ pc # "idle" /\ UNCHANGED <<kube, server, budget>>
    BY <1>4 DEF GetHeadscale, Pcs, LivePcs, Reasons, FailureReasons
  <2>2. CASE Report("HeadscaleNotFound")
    BY <2>1, <2>2, ReportType DEF TypeOK, kube, server, budget
  <2>3. CASE Goto("getUser") /\ UNCHANGED <<obj, minted, secFresh>>
    BY <2>1, <2>3, GotoType DEF TypeOK, kube, server, budget
  <2>4. CASE AfterResolve
    BY <2>1, <2>4, <1>r DEF TypeOK, kube, server, budget
  <2> QED BY <1>4, <2>2, <2>3, <2>4 DEF GetHeadscale
<1>5. CASE GetFails
  <2>1. pc # "idle"
    BY <1>5 DEF GetFails
  <2> QED BY <1>5, <2>1, <1>g, EndType DEF GetFails, TypeOK, kube, server
<1>6. CASE GetUser
  <2>1. /\ "addOwner" \in Pcs /\ "UserNotFound" \in Reasons
        /\ "UserNotReady" \in Reasons
        /\ pc # "idle" /\ UNCHANGED <<kube, server, budget>>
    BY <1>6 DEF GetUser, Pcs, LivePcs, Reasons, FailureReasons
  <2>2. CASE Report("UserNotFound") \/ Report("UserNotReady")
    BY <2>1, <2>2, ReportType DEF TypeOK, kube, server, budget
  <2>3. CASE Goto("addOwner") /\ obj' = [obj EXCEPT !.owner = hsUser.uid]
             /\ UNCHANGED <<minted, secFresh>>
    BY <2>1, <2>3, <1>a, GotoType DEF TypeOK, kube, server, budget
  <2>4. CASE AfterResolve
    BY <2>1, <2>4, <1>r DEF TypeOK, kube, server, budget
  <2>5. hsUser.state \in {"absent", "pending", "ready"}
    BY DEF TypeOK, HsUser
  <2> QED BY <1>6, <2>2, <2>3, <2>4, <2>5 DEF GetUser
<1>7. CASE AddOwner
  <2>1. /\ object' \in [Keys -> History(Object)] /\ pc # "idle" /\ AfterResolve
        /\ UNCHANGED <<secret, hsUser, headscale, server, budget>>
    BY <1>7, <1>a, <1>s DEF AddOwner, UpdateAccepted
  <2> QED BY <2>1, <1>r DEF TypeOK, server, budget
<1>8. CASE AddOwnerFails
  <2>1. object' \in [Keys -> History(Object)] /\ lag' \in Nat /\ faults' \in Nat
    BY <1>8, <1>a, <1>f DEF AddOwnerFails
  <2> QED BY <1>8, <2>1, EndType DEF AddOwnerFails, TypeOK, server
<1>c. ASSUME pc # "idle", CreationFailed
      PROVE  /\ pc' \in Pcs /\ cur' \in Keys /\ obj' \in Object /\ fresh' \in BOOLEAN
             /\ minted' \in Nat /\ secFresh' \in BOOLEAN /\ cond' \in Reasons
             /\ queue' \subseteq Keys /\ later' \subseteq Keys
  <2>1. "PreAuthKeyCreationFailed" \in Reasons
    BY DEF Reasons, FailureReasons
  <2> QED BY <1>c, <2>1, ReportType DEF CreationFailed
<1>9. CASE Mint
  <2>1. "createSecret" \in Pcs /\ nextId \in Nat
    BY DEF Pcs, LivePcs, MintPcs, TypeOK
  <2> QED BY <1>9, <2>1, <1>i, GotoType DEF Mint, TypeOK, kube, budget
<1>10. CASE MintFails
  <2>1. db' \subseteq Row /\ nextId' \in Nat \ {0}
    BY <1>10, <1>i DEF MintFails, server, TypeOK
  <2> QED BY <1>10, <2>1, <1>g, <1>c DEF MintFails, TypeOK, kube
<1>11. CASE CreateSecret
  <2>1. "recordKeyID" \in Pcs
    BY DEF Pcs, LivePcs, MintPcs
  <2>2. secret' \in [Secrets -> History(Secret)]
    BY <1>11, <1>a, <1>v DEF CreateSecret
  <2> QED BY <1>11, <2>1, <2>2, GotoType DEF CreateSecret, TypeOK, server, budget
<1>12. CASE CreateSecretExists
  <2>1. "getSecret" \in Pcs
    BY DEF Pcs, LivePcs, MintPcs
  <2> QED BY <1>12, <2>1, GotoType DEF CreateSecretExists, AfterAlreadyExists, TypeOK,
                    kube, server, budget
<1>13. CASE CreateSecretFails
  <2>1. secret' \in [Secrets -> History(Secret)]
    BY <1>13, <1>a, <1>v DEF CreateSecretFails, TypeOK
  <2> QED BY <1>13, <2>1, <1>g, <1>c DEF CreateSecretFails, TypeOK, server
<1>14. CASE GetSecret
  <2>1. "updateSecret" \in Pcs /\ InSync(SecretOf(cur)) \in BOOLEAN
    BY DEF Pcs, LivePcs, MintPcs, InSync
  <2>2. CASE CreationFailed
    BY <1>14, <2>2, <1>c DEF GetSecret, TypeOK, kube, server, budget
  <2>3. CASE ~CreationFailed
    BY <1>14, <2>1, <2>3, GotoType DEF GetSecret, TypeOK, kube, server, budget
  <2> QED BY <2>2, <2>3
<1>15. CASE UpdateSecret
  <2>1. "recordKeyID" \in Pcs
    BY DEF Pcs, LivePcs, MintPcs
  <2>2. secret' \in [Secrets -> History(Secret)]
    BY <1>15, <1>a, <1>v DEF UpdateSecret
  <2> QED BY <1>15, <2>1, <2>2, GotoType DEF UpdateSecret, TypeOK, server, budget
<1>16. CASE UpdateSecretFails
  <2>1. secret' \in [Secrets -> History(Secret)] /\ lag' \in Nat /\ faults' \in Nat
    BY <1>16, <1>a, <1>v, <1>g DEF UpdateSecretFails, TypeOK
  <2> QED BY <1>16, <2>1, <1>c DEF UpdateSecretFails, TypeOK, server
<1>17. CASE RecordKeyID
  <2>1. object' \in [Keys -> History(Object)] /\ "PreAuthKeyCreated" \in Reasons
    BY <1>17, <1>a, <1>s DEF RecordKeyID, UpdateAccepted, Reasons, ReadyReasons
  <2> QED BY <1>17, <2>1, ReportType DEF RecordKeyID, TypeOK, server, budget
<1>18. CASE RecordKeyIDFails
  <2>1. object' \in [Keys -> History(Object)] /\ lag' \in Nat /\ faults' \in Nat
    BY <1>18, <1>a, <1>f DEF RecordKeyIDFails
  <2> QED BY <1>18, <2>1, <1>c DEF RecordKeyIDFails, TypeOK, server
<1>19. CASE PatchCondition
  <2>1. object' \in [Keys -> History(Object)]
    BY <1>19, <1>a, <1>s DEF PatchCondition, TypeOK
  <2> QED BY <1>19, <2>1, EndType DEF PatchCondition, AfterReport, TypeOK, server, budget
<1>20. CASE PatchConditionFails
  <2>1. object' \in [Keys -> History(Object)] /\ lag' \in Nat /\ faults' \in Nat
    BY <1>20, <1>a, <1>s, <1>g DEF PatchConditionFails, TypeOK
  <2> QED BY <1>20, <2>1, EndType DEF PatchConditionFails, TypeOK, server
<1>k. \A label \in DeletionPcs : label \in Pcs
  BY DEF Pcs
<1>21. CASE Finalize
  <2>1. PICK label \in DeletionPcs : Continue(label)
    BY <1>21 DEF Finalize, DeletionPcs
  <2> QED BY <1>21, <2>1, <1>k, GotoType
          DEF Finalize, Continue, TypeOK, kube, server, budget
<1>22. CASE DeleteKey \/ DeleteKeyNotFound
  <2>1. pc # "idle" /\ Continue("deleteSecret") /\ UNCHANGED <<kube, budget>>
        /\ db' \subseteq Row /\ nextId' = nextId
    BY <1>22, <1>d DEF DeleteKey, DeleteKeyNotFound, AfterNotFound, server, TypeOK
  <2>2. "deleteSecret" \in Pcs
    BY DEF Pcs, DeletionPcs
  <2> QED BY <2>1, <2>2, GotoType DEF Continue, TypeOK, kube, budget
<1>23. CASE DeleteKeyFails
  <2>1. db' \subseteq Row /\ nextId' = nextId
    BY <1>23, <1>d DEF DeleteKeyFails, server, TypeOK
  <2> QED BY <1>23, <2>1, <1>g, EndType DEF DeleteKeyFails, TypeOK, kube
<1>24. CASE DeleteSecret \/ DeleteSecretFails
  <2>1. secret' \in [Secrets -> History(Secret)] /\ lag' \in Nat /\ faults' \in Nat
    BY <1>24, <1>a, <1>v, <1>g, <1>n DEF DeleteSecret, DeleteSecretFails, TypeOK, kube,
                    budget
  <2>2. "removeFinalizer" \in Pcs
    BY DEF Pcs, DeletionPcs
  <2>3. /\ pc # "idle" /\ Continue("removeFinalizer")
        /\ UNCHANGED <<object, hsUser, headscale, db, nextId, edits, admin>>
    BY <1>24 DEF DeleteSecret, DeleteSecretFails, kube, server, budget
  <2> QED BY <2>1, <2>2, <2>3, GotoType DEF Continue, TypeOK
<1>25. CASE RemoveFinalizer
  <2>1. object' \in [Keys -> History(Object)]
    BY <1>25, <1>a, <1>s DEF RemoveFinalizer, UpdateAccepted
  <2> QED BY <1>25, <2>1, EndType DEF RemoveFinalizer, TypeOK, server, budget
<1>26. CASE RemoveFinalizerFails
  <2>1. object' \in [Keys -> History(Object)] /\ lag' \in Nat /\ faults' \in Nat
    BY <1>26, <1>a, <1>f DEF RemoveFinalizerFails
  <2> QED BY <1>26, <2>1, EndType DEF RemoveFinalizerFails, TypeOK, server
<1>27. ASSUME NEW k \in Keys, CreateObject(k) PROVE TypeOK'
  <2>1. [Absent EXCEPT !.life = "live"] \in Object
    BY DEF Absent, Object, Lives, Reasons
  <2>2. object' \in [Keys -> History(Object)]
    BY <1>27, <2>1, <1>s DEF CreateObject
  <2> QED BY <1>27, <2>2 DEF CreateObject, TypeOK, server, queues, worker, budget
<1>28. ASSUME NEW k \in Keys, EditObject(k) PROVE TypeOK'
  <2>1. object' \in [Keys -> History(Object)]
    BY <1>28, VersionTypes, <1>s DEF EditObject
  <2> QED BY <1>28, <2>1 DEF EditObject, TypeOK, Outdate, server, queues
<1>29. ASSUME NEW k \in Keys, DeleteObject(k) PROVE TypeOK'
  <2>1. /\ Removed(Stored(object[k])) \in Object
        /\ [Stored(object[k]) EXCEPT !.life = "deleting"] \in Object
    BY VersionTypes DEF Object, Lives, Removed
  <2>2. object' \in [Keys -> History(Object)]
    BY <1>29, <2>1, <1>s DEF DeleteObject
  <2> QED BY <1>29, <2>2 DEF DeleteObject, TypeOK, Outdate, server, queues, budget
<1>30. ASSUME NEW s \in Secrets, CollectSecret(s) PROVE TypeOK'
  <2>1. secret' \in [Secrets -> History(Secret)]
    BY <1>30, <1>v, <1>n DEF CollectSecret
  <2> QED BY <1>30, <2>1 DEF CollectSecret, TypeOK, server, queues, budget
<1>31. ASSUME NEW k \in Keys, Deliver(k) PROVE TypeOK'
  <2>1. object' \in [Keys -> History(Object)]
    BY <1>31, DeliveredHistory DEF Deliver, TypeOK
  <2> QED BY <1>31, <2>1 DEF Deliver, TypeOK, server, worker, budget
<1>32. ASSUME NEW s \in Secrets, DeliverSecret(s) PROVE TypeOK'
  <2>1. secret' \in [Secrets -> History(Secret)]
    BY <1>32, DeliveredHistory DEF DeliverSecret, TypeOK
  <2> QED BY <1>32, <2>1 DEF DeliverSecret, TypeOK, server, queues, worker, budget
<1>33. ASSUME NEW k \in Keys, Timer(k) \/ Resync(k) PROVE TypeOK'
  BY <1>33 DEF Timer, Resync, TypeOK, kube, server, worker, budget
<1>34. CASE Crash
  <2>1. object' \in [Keys -> History(Object)] /\ secret' \in [Secrets -> History(Secret)]
    BY <1>34, RelistedHistory DEF Crash, Restart, TypeOK
  <2>2. Absent \in Object /\ "Unset" \in Reasons /\ "idle" \in Pcs /\ 0 \in Nat
    BY DEF Absent, Object, Lives, Reasons, Pcs
  <2> QED BY <1>34, <2>1, <2>2, <1>g DEF Crash, Restart, Forget, TypeOK, server
<1>35. CASE ToggleHeadscale
  BY <1>35 DEF ToggleHeadscale, AdminStep, TypeOK, server, queues, worker
<1>36. ASSUME NEW state \in {"absent", "pending", "ready"}, ChangeUser(state)
       PROVE  TypeOK'
  <2>1. hsUser' \in HsUser
    BY <1>36 DEF ChangeUser, TypeOK, HsUser
  <2> QED BY <1>36, <2>1 DEF ChangeUser, AdminStep, TypeOK, server, queues, worker
<1>37. ASSUME NEW row \in db, AdminDeleteKey(row) PROVE TypeOK'
  BY <1>37 DEF AdminDeleteKey, AdminStep, TypeOK, kube, queues, worker
<1>38. CASE UNCHANGED vars
  BY <1>38 DEF vars, TypeOK
<1> QED
  BY <1>1, <1>2, <1>3, <1>4, <1>5, <1>6, <1>7, <1>8, <1>9, <1>10, <1>11, <1>12,
     <1>13, <1>14, <1>15, <1>16, <1>17, <1>18, <1>19, <1>20, <1>21, <1>22, <1>23,
     <1>24, <1>25, <1>26, <1>27, <1>28, <1>29, <1>30, <1>31, <1>32, <1>33, <1>34,
     <1>35, <1>36, <1>37, <1>38
  DEF Next, Step, Environment

\* No object, no Secret, no key and an idle worker (SetupWithManager before any
\* event).
LEMMA InitType == Init => TypeOK
<1> SUFFICES ASSUME Init PROVE TypeOK
  OBVIOUS
<1>1. Absent \in Object /\ NoSecret \in Secret /\ "Unset" \in Reasons
  BY DEF Absent, Object, Lives, Reasons, Secret, NoSecret
<1>2. <<Absent>> \in History(Object) /\ <<NoSecret>> \in History(Secret)
  BY <1>1 DEF History
<1>3. /\ object \in [Keys -> History(Object)] /\ secret \in [Secrets -> History(Secret)]
      /\ db \subseteq Row /\ nextId \in Nat \ {0} /\ queue \subseteq Keys
      /\ later \subseteq Keys /\ hsUser \in HsUser
  BY <1>2 DEF Init, InitKeys, HsUser
<1>4. headscale \in BOOLEAN /\ fresh \in BOOLEAN /\ secFresh \in BOOLEAN
  BY Zenon DEF Init, InitKeys
<1> QED BY <1>1, <1>3, <1>4 DEF Init, InitKeys, TypeOK, Pcs

\* The variables keep their types: every version of an object and of a Secret
\* stays one, and a worker that is busy has an object.
THEOREM TypeCorrect == Spec => []TypeOK
<1> QED BY InitType, TypeStep, PTL DEF Spec

-----------------------------------------------------------------------------
(* What a step does to the versions of an object.                          *)

\* The copies the worker writes back.
Writable(o) ==
  \/ pc = "addFinalizer" /\ o = WithFinalizer(obj)
  \/ pc = "addOwner" /\ o = obj
  \/ pc = "recordKeyID" /\ o = WithKeyID(obj, minted)
  \/ pc = "removeFinalizer" /\ o = Removed(obj)

\* The versions that are ever written, by the worker from a copy that is still
\* the latest, and by everybody else from the stored version.
NewVersion(k, o) ==
  \/ k = cur /\ pc # "idle" /\ pc' # pc /\ fresh /\ Writable(o)
  \/ /\ Exists(Stored(object[k]))
     /\ o.life = Stored(object[k]).life /\ o.finalizer = Stored(object[k]).finalizer
     /\ o.keyID = Stored(object[k]).keyID
  \/ Stored(object[k]).life = "none" /\ o = [Absent EXCEPT !.life = "live"]
  \/ /\ Stored(object[k]).life = "live" /\ o.keyID = Stored(object[k]).keyID
     /\ o.finalizer = Stored(object[k]).finalizer
     /\ o.life = IF o.finalizer THEN "deleting" ELSE "gone"

Evolves(k) ==
  \/ UNCHANGED object[k]
  \/ Lag(object[k]) > 0 /\ object'[k] = Delivered(object[k])
  \/ object'[k] = Relisted(object[k]) /\ pc' = "idle"
  \/ \E o \in Object : object'[k] = Written(object[k], o) /\ NewVersion(k, o)

\* A write to one object leaves the others alone.
LEMMA StoreEvolves ==
  ASSUME TypeOK, NEW j \in Keys, NEW o \in Object, Store(j, o), NewVersion(j, o)
  PROVE  \A k \in Keys : Evolves(k)
<1>1. /\ object'[j] = Written(object[j], o)
      /\ \A k \in Keys \ {j} : object'[k] = object[k]
  BY DEF TypeOK, Store
<1> QED BY <1>1 DEF Evolves

\* So does a call of the worker that may or may not have written its copy.
LEMMA WorkerEvolves ==
  ASSUME TypeOK, pc # "idle", pc' # pc, NEW o \in Object, Writable(o),
         UNCHANGED object \/ (fresh /\ Store(cur, o))
  PROVE  \A k \in Keys : Evolves(k)
<1>1. CASE UNCHANGED object
  BY <1>1 DEF Evolves
<1>2. CASE fresh /\ Store(cur, o)
  BY <1>2, StoreEvolves DEF TypeOK, NewVersion
<1> QED BY <1>1, <1>2

\* Every version of an object is one of these.
LEMMA Evolution ==
  ASSUME TypeOK, [Next]_vars
  PROVE  \A k \in Keys : Evolves(k)
<1>a. ASSUME pc # "idle"
      PROVE  /\ cur \in Keys /\ obj \in Object /\ Stored(object[cur]) \in Object
             /\ WithFinalizer(obj) \in Object /\ Removed(obj) \in Object
             /\ WithKeyID(obj, minted) \in Object
             /\ WithReady(Stored(object[cur]), cond) \in Object
  BY <1>a, VersionTypes, WrittenTypes DEF TypeOK
<1>u. ASSUME UNCHANGED object PROVE \A k \in Keys : Evolves(k)
  BY <1>u DEF Evolves
<1>1. CASE AddFinalizer \/ AddFinalizerFails
  <2>1. /\ pc # "idle" /\ pc' # pc /\ Writable(WithFinalizer(obj))
        /\ (UNCHANGED object) \/ (fresh /\ Store(cur, WithFinalizer(obj)))
    BY <1>1 DEF AddFinalizer, AddFinalizerFails, UpdateAccepted, UpdateFailed, Writable,
                Goto, RetryError, Forget
  <2> QED BY <2>1, <1>a, WorkerEvolves
<1>2. CASE AddOwner \/ AddOwnerFails
  <2>1. /\ pc # "idle" /\ pc' # pc /\ Writable(obj)
        /\ (UNCHANGED object) \/ (fresh /\ Store(cur, obj))
    BY <1>2 DEF AddOwner, AddOwnerFails, UpdateAccepted, UpdateFailed, Writable,
                AfterResolve, Report, Goto, RetryError, Forget
  <2> QED BY <2>1, <1>a, WorkerEvolves
<1>3. CASE RecordKeyID \/ RecordKeyIDFails
  <2>1. /\ pc # "idle" /\ pc' # pc /\ Writable(WithKeyID(obj, minted))
        /\ (UNCHANGED object) \/ (fresh /\ Store(cur, WithKeyID(obj, minted)))
    BY <1>3 DEF RecordKeyID, RecordKeyIDFails, UpdateAccepted, UpdateFailed, Writable,
                CreationFailed, Report
  <2> QED BY <2>1, <1>a, WorkerEvolves
<1>4. CASE RemoveFinalizer \/ RemoveFinalizerFails
  <2>1. /\ pc # "idle" /\ pc' # pc /\ Writable(Removed(obj))
        /\ (UNCHANGED object) \/ (fresh /\ Store(cur, Removed(obj)))
    BY <1>4 DEF RemoveFinalizer, RemoveFinalizerFails, UpdateAccepted, UpdateFailed,
                Writable, Finish, RetryError, Forget
  <2> QED BY <2>1, <1>a, WorkerEvolves
<1>5. CASE PatchCondition \/ PatchConditionFails
  <2>1. CASE UNCHANGED object
    BY <2>1, <1>u
  <2>2. CASE ~UNCHANGED object
    <3> DEFINE o == WithReady(Stored(object[cur]), cond)
    <3>1. pc # "idle" /\ Exists(Stored(object[cur])) /\ Store(cur, o)
      BY <1>5, <2>2 DEF PatchCondition, PatchConditionFails
    <3>2. /\ o.life = Stored(object[cur]).life
          /\ o.finalizer = Stored(object[cur]).finalizer
          /\ o.keyID = Stored(object[cur]).keyID
      BY <3>1, <1>a DEF WithReady, Object
    <3> QED BY <3>1, <3>2, <1>a, StoreEvolves DEF NewVersion
  <2> QED BY <2>1, <2>2
<1>6. ASSUME NEW j \in Keys, CreateObject(j) PROVE \A k \in Keys : Evolves(k)
  <2>1. [Absent EXCEPT !.life = "live"] \in Object
    BY DEF Absent, Object, Lives, Reasons
  <2> QED BY <2>1, <1>6, StoreEvolves DEF CreateObject, NewVersion
<1>7. ASSUME NEW j \in Keys, EditObject(j) PROVE \A k \in Keys : Evolves(k)
  BY <1>7, VersionTypes, StoreEvolves DEF EditObject, NewVersion
<1>8. ASSUME NEW j \in Keys, DeleteObject(j) PROVE \A k \in Keys : Evolves(k)
  <2> DEFINE s == Stored(object[j])
             o == IF s.finalizer THEN [s EXCEPT !.life = "deleting"] ELSE Removed(s)
  <2>1. s \in Object /\ s.life = "live" /\ Store(j, o)
    BY <1>8, VersionTypes DEF DeleteObject
  <2>2. /\ o \in Object /\ o.keyID = s.keyID /\ o.finalizer = s.finalizer
        /\ o.life = IF o.finalizer THEN "deleting" ELSE "gone"
    BY <2>1 DEF Object, Lives, Removed
  <2> QED BY <2>1, <2>2, StoreEvolves DEF NewVersion
<1>9. ASSUME NEW j \in Keys, Deliver(j) PROVE \A k \in Keys : Evolves(k)
  BY <1>9 DEF Deliver, TypeOK, Evolves
<1>10. CASE Crash
  BY <1>10 DEF Crash, Restart, Forget, TypeOK, Evolves
<1>11. CASE \/ \E k \in Keys : Reconcile(k) \/ Timer(k) \/ Resync(k)
            \/ \E s \in Secrets : DeliverSecret(s) \/ CollectSecret(s)
            \/ GetHeadscale \/ GetFails \/ GetUser \/ Mint \/ MintFails
            \/ CreateSecret \/ CreateSecretExists \/ CreateSecretFails
            \/ GetSecret \/ UpdateSecret \/ UpdateSecretFails
            \/ Finalize \/ DeleteKey \/ DeleteKeyNotFound \/ DeleteKeyFails
            \/ DeleteSecret \/ DeleteSecretFails
            \/ ToggleHeadscale \/ UNCHANGED vars
            \/ \E state \in {"absent", "pending", "ready"} : ChangeUser(state)
            \/ \E row \in db : AdminDeleteKey(row)
  BY <1>11, <1>u
     DEF Reconcile, Timer, Resync, DeliverSecret, CollectSecret, GetHeadscale, GetFails,
         GetUser, Mint, MintFails, CreateSecret, CreateSecretExists, CreateSecretFails,
         GetSecret, UpdateSecret, UpdateSecretFails, Finalize, DeleteKey,
         DeleteKeyNotFound, DeleteKeyFails, DeleteSecret, DeleteSecretFails,
         ToggleHeadscale, vars, ChangeUser, AdminDeleteKey, kube
<1> QED
  BY <1>1, <1>2, <1>3, <1>4, <1>5, <1>6, <1>7, <1>8, <1>9, <1>10, <1>11
  DEF Next, Step, Environment

\* So a version in sight was in sight before, or it has just been written.
LEMMA SeenVersions ==
  ASSUME TypeOK, [Next]_vars, NEW k \in Keys, NEW o \in Versions(object'[k])
  PROVE  \/ o \in Versions(object[k])
         \/ /\ o \in Object /\ NewVersion(k, o)
            /\ object'[k] = Written(object[k], o)
<1>1. object[k] \in History(Object) /\ Evolves(k)
  BY Evolution DEF TypeOK
<1>2. CASE UNCHANGED object[k]
  BY <1>2
<1>3. CASE Lag(object[k]) > 0 /\ object'[k] = Delivered(object[k])
  BY <1>1, <1>3, DeliveredVersions
<1>4. CASE object'[k] = Relisted(object[k])
  BY <1>1, <1>4, RelistedVersions, EndVersions
<1>5. ASSUME NEW n \in Object, object'[k] = Written(object[k], n), NewVersion(k, n)
      PROVE  o \in Versions(object[k]) \/ o = n
  BY <1>1, <1>5, WrittenVersions
<1> QED BY <1>1, <1>2, <1>3, <1>4, <1>5 DEF Evolves

\* Unless a version is written, the stored one is the same.
LEMMA StoredEvolves ==
  ASSUME TypeOK, [Next]_vars, NEW k \in Keys
  PROVE  \/ Stored(object'[k]) = Stored(object[k])
         \/ /\ Stored(object'[k]) \in Object
            /\ object'[k] = Written(object[k], Stored(object'[k]))
            /\ NewVersion(k, Stored(object'[k]))
<1>1. object[k] \in History(Object) /\ Evolves(k)
  BY Evolution DEF TypeOK
<1>2. CASE Lag(object[k]) > 0 /\ object'[k] = Delivered(object[k])
  BY <1>1, <1>2, DeliveredVersions
<1>3. CASE object'[k] = Relisted(object[k])
  BY <1>1, <1>3, RelistedVersions
<1>4. ASSUME NEW o \in Object, object'[k] = Written(object[k], o), NewVersion(k, o)
      PROVE  Stored(object'[k]) = o
  BY <1>1, <1>4, WrittenVersions
<1> QED BY <1>1, <1>2, <1>3, <1>4 DEF Evolves

-----------------------------------------------------------------------------
(* What a step does to the worker's place and copy.                        *)

Moves == {<<"addFinalizer", "getHeadscale">>,
          <<"getHeadscale", "getUser">>, <<"getUser", "addOwner">>,
          <<"getHeadscale", "mint">>, <<"getUser", "mint">>, <<"addOwner", "mint">>,
          <<"mint", "createSecret">>,
          <<"createSecret", "recordKeyID">>, <<"createSecret", "getSecret">>,
          <<"getSecret", "updateSecret">>, <<"updateSecret", "recordKeyID">>,
          <<"finalize", "deleteKey">>, <<"finalize", "deleteSecret">>,
          <<"finalize", "removeFinalizer">>,
          <<"deleteKey", "deleteSecret">>, <<"deleteSecret", "removeFinalizer">>}

\* The pass begins on what the cache shows.
Begins(k) ==
  /\ Reconcile(k) /\ pc = "idle" /\ pc' = FirstCall(obj') /\ pc' # "idle"
  /\ cur' = k /\ obj' = Observed(object[k]) /\ Exists(obj')
  /\ fresh' = InSync(object[k])
  /\ UNCHANGED <<minted, secFresh, object, secret, server, faults, edits, admin>>

\* It ends, and nothing of it is kept.
Ends == pc' = "idle" /\ cur' = NoKey /\ fresh' = FALSE /\ minted' = 0

\* It goes on, to the next call or to the condition.
GoesOn ==
  /\ pc # "idle" /\ (pc = "addFinalizer" => AddFinalizer)
  /\ pc' = "patch" \/ <<pc, pc'>> \in Moves
  /\ pc' = "mint" => obj.keyID = 0
  /\ pc' = "recordKeyID" => CreateSecret \/ UpdateSecret
  /\ UNCHANGED <<cur, fresh>>
  /\ UNCHANGED lag \/ Fault
  /\ UNCHANGED object \/ AddFinalizer \/ AddOwner \/ RecordKeyID \/ RecordKeyIDFails
  /\ \/ obj' = obj
     \/ AddFinalizer
     \/ GetUser /\ obj' = [obj EXCEPT !.owner = hsUser.uid]
  /\ minted' = minted \/ Mint

\* What happens around it.
Outside ==
  \/ \E k \in Keys : \/ Deliver(k) \/ Timer(k) \/ Resync(k)
                     \/ CreateObject(k) \/ EditObject(k) \/ DeleteObject(k)
  \/ \E s \in Secrets : DeliverSecret(s) \/ CollectSecret(s)
  \/ ToggleHeadscale
  \/ \E state \in {"absent", "pending", "ready"} : ChangeUser(state)
  \/ \E row \in db : AdminDeleteKey(row)
  \/ (\E k \in Keys : Reconcile(k)) /\ UNCHANGED worker
  \/ UNCHANGED vars

\* A pass reads its copy once, and takes its calls in this order.
LEMMA PassEvolution ==
  ASSUME TypeOK, [Next]_vars
  PROVE  (\E k \in Keys : Begins(k)) \/ Ends \/ GoesOn \/ Outside
<1>1. ASSUME NEW k \in Keys, Reconcile(k) PROVE Begins(k) \/ Outside
  <2>1. CASE UNCHANGED worker
    BY <1>1, <2>1 DEF Outside
  <2>2. CASE ~UNCHANGED worker
    BY <1>1, <2>2 DEF Reconcile, worker, kube, Begins
  <2> QED BY <2>1, <2>2
<1>2. CASE \/ GetFails \/ AddFinalizerFails \/ AddOwnerFails \/ PatchCondition
           \/ PatchConditionFails \/ DeleteKeyFails \/ RemoveFinalizer
           \/ RemoveFinalizerFails \/ Crash
  BY <1>2 DEF GetFails, AddFinalizerFails, AddOwnerFails, PatchCondition,
              PatchConditionFails, DeleteKeyFails, RemoveFinalizer,
              RemoveFinalizerFails, Crash, Restart, AfterReport, Finish, RetryError,
              RequeueAfter, Forget, Ends
<1>3. ASSUME pc \notin {"idle", "addFinalizer"}, pc' = "patch" \/ <<pc, pc'>> \in Moves,
             pc' = "mint" => obj.keyID = 0, UNCHANGED <<cur, obj, fresh, minted>>,
             UNCHANGED lag \/ Fault,
             UNCHANGED object \/ AddOwner \/ RecordKeyID \/ RecordKeyIDFails,
             pc' = "recordKeyID" => CreateSecret \/ UpdateSecret
      PROVE  GoesOn
  BY <1>3 DEF GoesOn
<1>4. ASSUME pc \in {"getHeadscale", "getUser", "addOwner"}, AfterResolve,
             UNCHANGED lag, UNCHANGED object \/ AddOwner
      PROVE  GoesOn
  <2>1. <<pc, "mint">> \in Moves
    BY <1>4 DEF Moves
  <2>2. CASE Report("PreAuthKeyReady")
    BY <1>4, <2>2, <1>3 DEF Report
  <2>3. CASE obj.keyID = 0 /\ Goto("mint") /\ UNCHANGED <<obj, minted, secFresh>>
    BY <1>4, <2>1, <2>3, <1>3 DEF Goto
  <2> QED BY <1>4, <2>2, <2>3 DEF AfterResolve
<1>5. CASE AddFinalizer
  <2>1. /\ pc = "addFinalizer" /\ pc' = "getHeadscale"
        /\ UNCHANGED <<cur, fresh, minted, lag>>
    BY <1>5 DEF AddFinalizer, Goto, budget
  <2> QED BY <1>5, <2>1 DEF GoesOn, Moves
<1>6. CASE GetHeadscale
  <2>1. pc = "getHeadscale" /\ UNCHANGED <<lag, object>>
    BY <1>6 DEF GetHeadscale, budget, kube
  <2>2. CASE Report("HeadscaleNotFound")
    BY <2>1, <2>2, <1>3 DEF Report
  <2>3. CASE Goto("getUser") /\ UNCHANGED <<obj, minted, secFresh>>
    BY <2>1, <2>3, <1>3 DEF Goto, Moves
  <2>4. CASE AfterResolve
    BY <2>1, <2>4, <1>4
  <2> QED BY <1>6, <2>2, <2>3, <2>4 DEF GetHeadscale
<1>7. CASE GetUser
  <2>1. /\ pc = "getUser" /\ UNCHANGED <<lag, object>>
        /\ hsUser.state \in {"absent", "pending", "ready"}
    BY <1>7 DEF GetUser, budget, kube, TypeOK, HsUser
  <2>2. CASE Report("UserNotFound") \/ Report("UserNotReady")
    BY <2>1, <2>2, <1>3 DEF Report
  <2>3. CASE /\ obj' = [obj EXCEPT !.owner = hsUser.uid]
             /\ Goto("addOwner") /\ UNCHANGED <<minted, secFresh>>
    BY <2>1, <2>3, <1>7 DEF Goto, Moves, GoesOn
  <2>4. CASE AfterResolve
    BY <2>1, <2>4, <1>4
  <2> QED BY <1>7, <2>1, <2>2, <2>3, <2>4 DEF GetUser
<1>8. CASE AddOwner
  BY <1>8, <1>4 DEF AddOwner, budget
<1>9. CASE Mint
  <2>1. /\ pc = "mint" /\ pc' = "createSecret"
        /\ UNCHANGED <<cur, fresh, obj, lag, object>>
    BY <1>9 DEF Mint, Goto, budget, kube
  <2> QED BY <1>9, <2>1 DEF GoesOn, Moves
<1>10. CASE \/ MintFails \/ CreateSecretFails \/ UpdateSecretFails
            \/ RecordKeyID \/ RecordKeyIDFails
  <2>1. /\ pc \notin {"idle", "addFinalizer"} /\ pc' = "patch"
        /\ UNCHANGED <<cur, obj, fresh, minted>>
        /\ UNCHANGED lag \/ Fault
        /\ UNCHANGED object \/ RecordKeyID \/ RecordKeyIDFails
    BY <1>10 DEF MintFails, CreateSecretFails, UpdateSecretFails, RecordKeyID,
                 RecordKeyIDFails, CreationFailed, Report, budget, kube, UpdateFailed
  <2> QED BY <2>1, <1>3
<1>11. CASE CreateSecret \/ CreateSecretExists \/ GetSecret \/ UpdateSecret
  <2>1. /\ pc \notin {"idle", "addFinalizer"} /\ pc' # "mint"
        /\ pc' = "recordKeyID" => CreateSecret \/ UpdateSecret
        /\ pc' = "patch" \/ <<pc, pc'>> \in Moves
        /\ UNCHANGED <<cur, obj, fresh, minted, lag, object>>
    BY <1>11 DEF CreateSecret, CreateSecretExists, GetSecret, UpdateSecret,
                 AfterAlreadyExists, CreationFailed, Report, Goto, budget, kube, Moves
  <2> QED BY <2>1, <1>3
<1>12. CASE \/ Finalize \/ DeleteKey \/ DeleteKeyNotFound \/ DeleteSecret
            \/ DeleteSecretFails
  <2>1. /\ pc \notin {"idle", "addFinalizer"} /\ <<pc, pc'>> \in Moves
        /\ pc' \notin {"mint", "recordKeyID"}
        /\ UNCHANGED <<cur, obj, fresh, minted, object>>
        /\ UNCHANGED lag \/ Fault
    BY <1>12 DEF Finalize, DeleteKey, DeleteKeyNotFound, DeleteSecret,
                 DeleteSecretFails, AfterNotFound, Continue, Goto, budget, kube, Moves
  <2> QED BY <2>1, <1>3
<1>13. CASE \/ \E k \in Keys : Deliver(k) \/ Timer(k) \/ Resync(k)
            \/ \E s \in Secrets : DeliverSecret(s) \/ CollectSecret(s)
            \/ Environment \/ UNCHANGED vars
  BY <1>13 DEF Environment, Outside
<1> QED BY <1>1, <1>2, <1>5, <1>6, <1>7, <1>8, <1>9, <1>10, <1>11, <1>12, <1>13
        DEF Next, Step

-----------------------------------------------------------------------------
(* The finalizer is stored before a key is minted.                         *)
(*                                                                         *)
(* The worker decides on a stale copy, so what it sees must bind what is   *)
(* stored: an object whose cached version is live and holds the finalizer  *)
(* still holds it, because only the worker takes it away, and only after   *)
(* the cache has shown it the deletion.                                    *)

Past(o) == o.life \in {"deleting", "gone"}
PastObjects == {o \in Object : Past(o)}
MadeObjects == {o \in Object : o.life # "none"}

\* No version is live after one that was being deleted, none is missing after
\* one that was there.
VersionsOrdered ==
  \A k \in Keys : Lasting(object[k], PastObjects) /\ Lasting(object[k], MadeObjects)

\* A finalizer seen on a live version is still stored.
FinalizerStays ==
  \A k \in Keys : \A o \in Versions(object[k]) :
    o.life = "live" /\ o.finalizer => Stored(object[k]).finalizer

\* Only objects that exist hold one, and only those that were there record a key.
FinalizerExists ==
  \A k \in Keys : \A o \in Versions(object[k]) :
    (o.finalizer => Exists(o)) /\ (o.life = "none" => o.keyID = 0)

HistoryInv == VersionsOrdered /\ FinalizerStays /\ FinalizerExists

\* What the worker's place says about its copy and about the stored object.
Holding == LivePcs \ {"addFinalizer"}

\* Until the worker has tried to record a key, a copy that carries the latest
\* resourceVersion is the stored version, up to the owner it may have added.
FreshCopy ==
  fresh => /\ pc # "idle" /\ obj.life = Stored(object[cur]).life
           /\ obj.finalizer = Stored(object[cur]).finalizer
           /\ pc # "patch" => obj.keyID = Stored(object[cur]).keyID

WorkerInv ==
  /\ pc # "idle" => Exists(obj) /\ Stored(object[cur]).life # "none"
  /\ pc \in DeletionPcs => Versions(object[cur]) \subseteq PastObjects
  /\ pc \in Holding => obj.finalizer /\ Stored(object[cur]).finalizer
  /\ pc \in MintPcs => obj.keyID = 0

FinalizerInv == TypeOK /\ HistoryInv /\ FreshCopy /\ WorkerInv

\* What the invariant says of each version, and of the worker's copy.
LEMMA Sight ==
  ASSUME FinalizerInv
  PROVE  /\ \A k \in Keys :
              /\ object[k] \in History(Object) /\ Stored(object[k]) \in Object
              /\ Stored(object[k]) \in Versions(object[k])
              /\ Observed(object[k]) \in Versions(object[k])
              /\ Versions(object[k]) \subseteq Object
         /\ pc # "idle" => /\ cur \in Keys /\ obj \in Object
                           /\ obj.life \in {"live", "deleting"}
                           /\ obj.finalizer \in BOOLEAN /\ minted \in Nat
                           /\ WithFinalizer(obj) \in Object /\ Removed(obj) \in Object
                           /\ WithKeyID(obj, minted) \in Object
<1>1. ASSUME NEW k \in Keys
      PROVE  /\ object[k] \in History(Object) /\ Stored(object[k]) \in Object
             /\ Stored(object[k]) \in Versions(object[k])
             /\ Observed(object[k]) \in Versions(object[k])
             /\ Versions(object[k]) \subseteq Object
  BY EndVersions, VersionTypes DEF FinalizerInv, TypeOK
<1>2. pc # "idle" => /\ cur \in Keys /\ obj \in Object /\ minted \in Nat
                     /\ obj.life \in {"live", "deleting"}
                     /\ obj.finalizer \in BOOLEAN
  BY DEF FinalizerInv, WorkerInv, TypeOK, Exists, Object
<1> QED BY <1>1, <1>2, WrittenTypes

\* A version that is written continues the stored one: nobody revives an object,
\* only the worker takes a finalizer away, and only it records a key.
LEMMA NewVersionKeeps ==
  ASSUME FinalizerInv, NEW k \in Keys, NEW o \in Object, NewVersion(k, o)
  PROVE  /\ Past(Stored(object[k])) => Past(o)
         /\ o.life # "none"
         /\ o.finalizer => Exists(o)
         /\ \/ Stored(object[k]).finalizer => o.finalizer
            \/ k = cur /\ pc = "removeFinalizer"
         /\ \/ o.keyID = Stored(object[k]).keyID
            \/ k = cur /\ pc = "recordKeyID" /\ pc' # pc /\ o.keyID = minted
<1> DEFINE s == Stored(object[k])
<1>1. /\ s \in Object /\ s \in Versions(object[k])
      /\ s.finalizer \in BOOLEAN
      /\ s.finalizer => Exists(s)
      /\ s.life = "none" => s.keyID = 0
  BY Sight DEF FinalizerInv, HistoryInv, FinalizerExists, Object
<1>2. CASE k = cur /\ pc # "idle" /\ pc' # pc /\ fresh /\ Writable(o)
  <2>1. /\ obj \in Object /\ obj.life \in {"live", "deleting"} /\ obj.life = s.life
        /\ obj.finalizer = s.finalizer /\ minted \in Nat
        /\ pc # "patch" => obj.keyID = s.keyID
    BY <1>2, Sight DEF FinalizerInv, FreshCopy
  <2>2. CASE pc = "addFinalizer" /\ o = WithFinalizer(obj)
    BY <2>1, <2>2 DEF WithFinalizer, Object, Past, Exists
  <2>3. CASE pc = "addOwner" /\ o = obj
    BY <1>1, <2>1, <2>3 DEF Past, Exists
  <2>4. CASE pc = "recordKeyID" /\ o = WithKeyID(obj, minted)
    BY <1>1, <1>2, <2>1, <2>4 DEF WithKeyID, Object, Past, Exists
  <2>5. CASE pc = "removeFinalizer" /\ o = Removed(obj)
    BY <1>2, <2>1, <2>5 DEF Removed, Object, Past, Exists
  <2> QED BY <1>2, <2>2, <2>3, <2>4, <2>5 DEF Writable
<1>3. CASE /\ Exists(s) /\ o.life = s.life /\ o.finalizer = s.finalizer
           /\ o.keyID = s.keyID
  BY <1>1, <1>3 DEF Past, Exists
<1>4. CASE s.life = "none" /\ o = [Absent EXCEPT !.life = "live"]
  BY <1>1, <1>4 DEF Absent, Past, Exists
<1>5. CASE /\ s.life = "live" /\ o.keyID = s.keyID /\ o.finalizer = s.finalizer
           /\ o.life = IF o.finalizer THEN "deleting" ELSE "gone"
  BY <1>1, <1>5 DEF Past, Exists
<1> QED BY <1>2, <1>3, <1>4, <1>5 DEF NewVersion

\* Every step keeps the histories in order.
LEMMA HistoryStep ==
  ASSUME FinalizerInv, [Next]_vars
  PROVE  HistoryInv'
<1>t. TypeOK
  BY DEF FinalizerInv
<1>1. ASSUME NEW k \in Keys
      PROVE  /\ Lasting(object'[k], PastObjects)
             /\ Lasting(object'[k], MadeObjects)
  <2>1. /\ object[k] \in History(Object) /\ Evolves(k)
        /\ Lasting(object[k], PastObjects) /\ Lasting(object[k], MadeObjects)
    BY Sight, Evolution, <1>t DEF FinalizerInv, HistoryInv, VersionsOrdered
  <2>2. CASE Lag(object[k]) > 0 /\ object'[k] = Delivered(object[k])
    BY <2>1, <2>2, DeliveredLasting
  <2>3. CASE object'[k] = Relisted(object[k])
    BY <2>1, <2>3, RelistedLasting
  <2>4. ASSUME NEW o \in Object, object'[k] = Written(object[k], o), NewVersion(k, o)
        PROVE  /\ Lasting(object'[k], PastObjects)
               /\ Lasting(object'[k], MadeObjects)
    <3>1. /\ Stored(object[k]) \in PastObjects => o \in PastObjects
          /\ o \in MadeObjects
      BY <2>4, NewVersionKeeps DEF PastObjects, MadeObjects
    <3> QED BY <2>1, <2>4, <3>1, WrittenLasting
  <2> QED BY <2>1, <2>2, <2>3, <2>4 DEF Evolves
<1>2. ASSUME NEW k \in Keys, NEW o \in Versions(object'[k])
      PROVE  /\ o.finalizer => Exists(o)
             /\ o.life = "none" => o.keyID = 0
             /\ o.life = "live" /\ o.finalizer => Stored(object'[k]).finalizer
  <2>1. CASE o \in Versions(object[k])
    <3>1. /\ o \in Object
          /\ o.finalizer => Exists(o)
          /\ o.life = "none" => o.keyID = 0
          /\ o.life = "live" /\ o.finalizer => Stored(object[k]).finalizer
      BY <2>1, Sight DEF FinalizerInv, HistoryInv, FinalizerExists, FinalizerStays
    <3>2. ASSUME o.life = "live", NewVersion(k, Stored(object'[k])),
                 Stored(object'[k]) \in Object, Stored(object[k]).finalizer
          PROVE  Stored(object'[k]).finalizer
      <4>1. ~(k = cur /\ pc = "removeFinalizer")
        BY <2>1, <3>2
           DEF FinalizerInv, WorkerInv, DeletionPcs, PastObjects, Past
      <4> QED BY <3>2, <4>1, NewVersionKeeps
    <3>3. \/ Stored(object'[k]) = Stored(object[k])
          \/ Stored(object'[k]) \in Object /\ NewVersion(k, Stored(object'[k]))
      BY <1>t, StoredEvolves
    <3> QED BY <3>1, <3>2, <3>3
  <2>2. CASE o \in Object /\ NewVersion(k, o) /\ object'[k] = Written(object[k], o)
    <3>1. Stored(object'[k]) = o
      BY <2>2, Sight, WrittenVersions
    <3> QED BY <2>2, <3>1, NewVersionKeeps
  <2> QED BY <2>1, <2>2, <1>t, SeenVersions
<1>3. VersionsOrdered'
  BY <1>1 DEF VersionsOrdered, Lasting, PastObjects, MadeObjects
<1>4. FinalizerStays'
  BY <1>2 DEF FinalizerStays, Versions, Stored
<1>5. FinalizerExists'
  BY <1>2 DEF FinalizerExists, Versions, Exists
<1> QED BY <1>3, <1>4, <1>5 DEF HistoryInv

\* A copy stays the latest only as long as nobody else writes the object.
LEMMA OutsideStays ==
  ASSUME FinalizerInv, Outside
  PROVE  /\ UNCHANGED <<pc, cur, obj, minted, cond>>
         /\ fresh' => (fresh /\ Stored(object'[cur]) = Stored(object[cur]))
<1>1. ASSUME NEW k \in Keys, Deliver(k)
      PROVE  \A j \in Keys : Stored(object'[j]) = Stored(object[j])
  <2>1. \A j \in Keys : object[j] \in History(Object)
    BY Sight
  <2>2. /\ Lag(object[k]) > 0 /\ object'[k] = Delivered(object[k])
        /\ \A j \in Keys \ {k} : object'[j] = object[j]
    BY <1>1 DEF Deliver, FinalizerInv, TypeOK
  <2> QED BY <2>1, <2>2, DeliveredVersions
<1>2. fresh => cur \in Keys /\ Stored(object[cur]).life # "none"
  BY Sight DEF FinalizerInv, FreshCopy, WorkerInv
<1>3. ASSUME NEW k \in Keys, CreateObject(k) PROVE fresh => cur # k
  BY <1>2, <1>3 DEF CreateObject
<1>4. ASSUME NEW k \in Keys, CreateObject(k) \/ EditObject(k) \/ DeleteObject(k)
      PROVE  \A j \in Keys : j # k => object'[j] = object[j]
  BY <1>4 DEF CreateObject, EditObject, DeleteObject, Store, FinalizerInv, TypeOK
<1>5. ASSUME NEW k \in Keys, CreateObject(k) \/ EditObject(k) \/ DeleteObject(k)
      PROVE  /\ UNCHANGED <<pc, cur, obj, minted, cond>>
             /\ fresh' => (fresh /\ object'[cur] = object[cur])
  <2>1. UNCHANGED <<pc, cur, obj, minted, cond>>
    BY <1>5 DEF CreateObject, EditObject, DeleteObject, worker
  <2>2. CASE CreateObject(k)
    BY <2>1, <2>2, <1>2, <1>3, <1>4 DEF CreateObject, worker
  <2>3. CASE Outdate(k)
    BY <2>1, <2>3, <1>2, <1>4, <1>5 DEF Outdate
  <2>4. CASE EditObject(k) \/ DeleteObject(k)
    BY <2>3, <2>4 DEF EditObject, DeleteObject
  <2> QED BY <2>2, <2>4, <1>5
<1>6. ASSUME NEW k \in Keys, Deliver(k)
      PROVE  /\ UNCHANGED <<pc, cur, obj, minted, cond, fresh>>
             /\ fresh => Stored(object'[cur]) = Stored(object[cur])
  BY <1>1, <1>2, <1>6 DEF Deliver, worker
<1>7. CASE \/ \E k \in Keys : Timer(k) \/ Resync(k)
           \/ \E s \in Secrets : DeliverSecret(s) \/ CollectSecret(s)
           \/ ToggleHeadscale
           \/ \E state \in {"absent", "pending", "ready"} : ChangeUser(state)
           \/ \E row \in db : AdminDeleteKey(row)
           \/ (\E k \in Keys : Reconcile(k)) /\ UNCHANGED worker
           \/ UNCHANGED vars
  <2>1. UNCHANGED <<pc, cur, obj, minted, cond, fresh, object>>
    BY <1>7 DEF Timer, Resync, DeliverSecret, CollectSecret, ToggleHeadscale,
                ChangeUser, AdminDeleteKey, Reconcile, vars, kube, worker
  <2> QED BY <2>1
<1> QED BY <1>5, <1>6, <1>7 DEF Outside

\* What a step does to the stored version.
LEMMA StoredKeeps ==
  ASSUME FinalizerInv, [Next]_vars, NEW k \in Keys
  PROVE  /\ Stored(object'[k]) \in Object
         /\ Stored(object[k]).life # "none" => Stored(object'[k]).life # "none"
         /\ Past(Stored(object[k])) => Past(Stored(object'[k]))
         /\ \/ Stored(object[k]).finalizer => Stored(object'[k]).finalizer
            \/ k = cur /\ pc = "removeFinalizer"
         /\ \/ Stored(object'[k]).keyID = Stored(object[k]).keyID
            \/ /\ k = cur /\ pc = "recordKeyID" /\ pc' # pc
               /\ Stored(object'[k]).keyID = minted
<1>1. \/ Stored(object'[k]) = Stored(object[k])
      \/ Stored(object'[k]) \in Object /\ NewVersion(k, Stored(object'[k]))
  BY StoredEvolves DEF FinalizerInv
<1>2. Stored(object[k]) \in Object
  BY Sight
<1> QED BY <1>1, <1>2, NewVersionKeeps

\* A worker's call that writes the copy stores it, and nothing else does.
LEMMA StoredByWorker ==
  ASSUME FinalizerInv, NEW o \in Object, Store(cur, o), pc # "idle"
  PROVE  Stored(object'[cur]) = o
<1>1. object[cur] \in History(Object) /\ object'[cur] = Written(object[cur], o)
  BY Sight DEF Store, FinalizerInv, TypeOK
<1> QED BY <1>1, WrittenVersions

\* Each step keeps the invariant.
LEMMA FinalizerStep == FinalizerInv /\ [Next]_vars => FinalizerInv'
<1> SUFFICES ASSUME FinalizerInv, [Next]_vars PROVE FinalizerInv'
    OBVIOUS
<1> DEFINE Fresh == fresh' => /\ pc' # "idle" /\ obj'.life = Stored(object'[cur']).life
                              /\ obj'.finalizer = Stored(object'[cur']).finalizer
                              /\ pc' # "patch"
                                   => obj'.keyID = Stored(object'[cur']).keyID
           Worker ==
             /\ pc' # "idle" => Exists(obj') /\ Stored(object'[cur']).life # "none"
             /\ pc' \in DeletionPcs => Versions(object'[cur']) \subseteq PastObjects
             /\ pc' \in Holding => obj'.finalizer /\ Stored(object'[cur']).finalizer
             /\ pc' \in MintPcs => obj'.keyID = 0
<1>t. TypeOK /\ TypeOK' /\ HistoryInv'
  BY TypeStep, HistoryStep DEF FinalizerInv
<1>b. pc # "idle" => /\ cur \in Keys /\ obj \in Object
                     /\ obj.life \in {"live", "deleting"}
                     /\ obj.finalizer \in BOOLEAN /\ minted \in Nat
                     /\ WithFinalizer(obj) \in Object
                     /\ WithKeyID(obj, minted) \in Object
  BY Sight
<1>k. ASSUME pc # "idle", pc # "removeFinalizer"
      PROVE  /\ Stored(object[cur]).life # "none" /\ Stored(object'[cur]).life # "none"
             /\ Stored(object[cur]).finalizer => Stored(object'[cur]).finalizer
             /\ pc # "recordKeyID"
                  => Stored(object'[cur]).keyID = Stored(object[cur]).keyID
  BY <1>b, <1>k, StoredKeeps DEF FinalizerInv, WorkerInv
<1>v. ASSUME pc \in DeletionPcs PROVE Versions(object'[cur]) \subseteq PastObjects
  <2> SUFFICES ASSUME NEW o \in Versions(object'[cur]) PROVE o \in PastObjects
    OBVIOUS
  <2>1. pc # "idle" /\ cur \in Keys /\ Versions(object[cur]) \subseteq PastObjects
    BY <1>v, <1>b DEF FinalizerInv, WorkerInv, DeletionPcs
  <2>2. CASE o \in Object /\ NewVersion(cur, o)
    <3>1. Stored(object[cur]) \in PastObjects
      BY <2>1, Sight
    <3> QED BY <2>1, <2>2, <3>1, NewVersionKeeps DEF PastObjects
  <2> QED BY <2>1, <2>2, <1>t, SeenVersions
<1>1. ASSUME NEW k \in Keys, Begins(k) PROVE Fresh /\ Worker
  <2> DEFINE o == Observed(object[k])
  <2>1. /\ pc' = FirstCall(o) /\ cur' = k /\ obj' = o /\ Exists(o)
        /\ fresh' = InSync(object[k]) /\ object' = object /\ pc' # "idle"
    BY <1>1 DEF Begins
  <2>2. /\ object[k] \in History(Object) /\ o \in Versions(object[k]) /\ o \in Object
        /\ Stored(object[k]) \in Versions(object[k])
    BY Sight
  <2>3. fresh' => o = Stored(object[k])
    BY <2>1, <2>2, EndVersions
  <2>4. pc' \in {"finalize", "getHeadscale", "addFinalizer"}
    BY <2>1 DEF FirstCall
  <2>5. pc' = "finalize" => Versions(object[k]) \subseteq PastObjects
    <3>1. pc' = "finalize" => o \in PastObjects
      BY <2>1, <2>2 DEF FirstCall, PastObjects, Past
    <3> QED BY <2>2, <3>1, LastingObserved DEF FinalizerInv, HistoryInv, VersionsOrdered
  <2>6. pc' = "getHeadscale" => o.finalizer /\ Stored(object[k]).finalizer
    <3>1. pc' = "getHeadscale" => o.finalizer /\ o.life = "live"
      BY <2>1 DEF FirstCall, Exists
    <3> QED BY <2>2, <3>1 DEF FinalizerInv, HistoryInv, FinalizerStays
  <2>7. Stored(object[k]).life # "none"
    <3>1. o \in MadeObjects
      BY <2>1, <2>2 DEF MadeObjects, Exists
    <3>2. Versions(object[k]) \subseteq MadeObjects
      BY <2>2, <3>1, LastingObserved DEF FinalizerInv, HistoryInv, VersionsOrdered
    <3> QED BY <2>2, <3>2 DEF MadeObjects
  <2>8. Fresh
    BY <2>1, <2>3
  <2>9. Worker
    BY <2>1, <2>4, <2>5, <2>6, <2>7 DEF DeletionPcs, Holding, LivePcs, MintPcs
  <2> QED BY <2>8, <2>9
<1>2. ASSUME Ends PROVE Fresh /\ Worker
  BY <1>2 DEF Ends, DeletionPcs, Holding, LivePcs, MintPcs
<1>3. ASSUME GoesOn PROVE Fresh /\ Worker
  <2>1. /\ pc # "idle" /\ pc' # "idle" /\ cur' = cur /\ fresh' = fresh
        /\ pc' = "patch" \/ <<pc, pc'>> \in Moves
        /\ pc' = "mint" => obj.keyID = 0
        /\ cur \in Keys /\ obj \in Object /\ pc' \in Pcs
    BY <1>3, <1>t, <1>b DEF GoesOn, Moves, TypeOK
  <2>2. /\ obj'.life = obj.life /\ obj'.keyID = obj.keyID
        /\ obj'.finalizer = obj.finalizer \/ AddFinalizer
        /\ AddFinalizer => obj' = WithFinalizer(obj) /\ obj'.finalizer
    BY <1>3, <2>1 DEF GoesOn, AddFinalizer, WithFinalizer, Object
  <2>3. Fresh
    <3>1. CASE UNCHANGED object /\ ~AddFinalizer
      <4>1. pc' # "patch" => pc # "patch"
        BY <2>1 DEF Moves
      <4> QED BY <2>1, <2>2, <3>1, <4>1 DEF FinalizerInv, FreshCopy
    <3>2. CASE AddFinalizer
      <4>1. Store(cur, WithFinalizer(obj))
        BY <3>2 DEF AddFinalizer, UpdateAccepted
      <4> QED BY <2>1, <2>2, <3>2, <4>1, <1>b, StoredByWorker
    <3>3. CASE AddOwner
      <4>1. Store(cur, obj) /\ ~AddFinalizer
        BY <3>3 DEF AddOwner, UpdateAccepted, AddFinalizer
      <4> QED BY <2>1, <2>2, <3>3, <4>1, <1>b, StoredByWorker
    <3>4. CASE RecordKeyID \/ RecordKeyIDFails
      <4>1. /\ (UNCHANGED object) \/ Store(cur, WithKeyID(obj, minted))
            /\ pc = "recordKeyID" /\ pc' = "patch" /\ obj' = obj
        BY <3>4 DEF RecordKeyID, RecordKeyIDFails, UpdateAccepted, UpdateFailed,
                    CreationFailed, Report
      <4>2. CASE UNCHANGED object
        BY <2>1, <4>1, <4>2 DEF FinalizerInv, FreshCopy
      <4>3. CASE Store(cur, WithKeyID(obj, minted))
        <5>1. Stored(object'[cur]) = WithKeyID(obj, minted)
          BY <2>1, <4>3, <1>b, StoredByWorker
        <5> QED BY <2>1, <4>1, <5>1 DEF WithKeyID, Object
      <4> QED BY <4>1, <4>2, <4>3
    <3> QED BY <1>3, <3>1, <3>2, <3>3, <3>4 DEF GoesOn
  <2>4. pc # "removeFinalizer" \/ pc' = "patch"
    BY <2>1 DEF Moves
  <2>5. Exists(obj') /\ Stored(object'[cur]).life # "none"
    BY <2>1, <2>2, <1>b, StoredKeeps DEF Exists, FinalizerInv, WorkerInv
  <2>6. pc' \in DeletionPcs => pc \in DeletionPcs
    BY <2>1 DEF Moves, DeletionPcs
  <2>7. pc' \in Holding => obj'.finalizer /\ Stored(object'[cur]).finalizer
    <3>1. CASE AddFinalizer
      <4>1. Store(cur, WithFinalizer(obj))
        BY <3>1 DEF AddFinalizer, UpdateAccepted
      <4> QED BY <2>1, <2>2, <3>1, <4>1, <1>b, StoredByWorker
    <3>2. CASE ~AddFinalizer /\ pc' \in Holding
      <4>1. pc \in Holding \/ pc = "addFinalizer"
        BY <2>1, <3>2 DEF Moves, Holding, LivePcs, MintPcs
      <4>2. pc # "addFinalizer"
        BY <1>3, <3>2 DEF GoesOn
      <4> QED BY <2>1, <2>2, <2>4, <3>2, <4>1, <4>2, <1>k
              DEF FinalizerInv, WorkerInv, Holding, LivePcs, MintPcs
    <3> QED BY <3>1, <3>2
  <2>8. pc' \in MintPcs => obj'.keyID = 0
    <3>1. pc' \in MintPcs => pc \in MintPcs \/ pc' = "mint"
      BY <2>1 DEF Moves, MintPcs
    <3> QED BY <2>1, <2>2, <3>1 DEF FinalizerInv, WorkerInv
  <2> QED BY <2>1, <2>3, <2>5, <2>6, <2>7, <2>8, <1>v
<1>4. ASSUME Outside PROVE Fresh /\ Worker
  <2>1. /\ UNCHANGED <<pc, cur, obj>>
        /\ fresh' => (fresh /\ Stored(object'[cur]) = Stored(object[cur]))
    BY <1>4, OutsideStays
  <2>2. Fresh
    BY <2>1 DEF FinalizerInv, FreshCopy
  <2>3. pc # "idle" => Exists(obj) /\ Stored(object'[cur]).life # "none"
    BY <1>b, StoredKeeps DEF FinalizerInv, WorkerInv
  <2>4. pc \in Holding => obj.finalizer /\ Stored(object'[cur]).finalizer
    BY <1>k DEF FinalizerInv, WorkerInv, Holding, LivePcs, MintPcs
  <2> QED BY <2>1, <2>2, <2>3, <2>4, <1>v DEF FinalizerInv, WorkerInv
<1>5. Fresh /\ Worker
  BY <1>1, <1>2, <1>3, <1>4, <1>t, PassEvolution
<1>6. FreshCopy' /\ WorkerInv'
  BY <1>5 DEF FreshCopy, WorkerInv, Stored, Exists, Versions
<1> QED BY <1>t, <1>6 DEF FinalizerInv

\* No version at the start is past, holds a finalizer or records a key.
LEMMA InitFinalizer == Init => FinalizerInv
<1> SUFFICES ASSUME Init PROVE FinalizerInv
  OBVIOUS
<1>1. TypeOK
  BY InitType
<1>2. \A k \in Keys : Len(object[k]) = 1 /\ object[k][1] = Absent
  BY DEF Init, InitKeys
<1>3. \A k \in Keys : \A i \in 1..Len(object[k]) : object[k][i] = Absent
  BY <1>2
<1>4. ~Absent.finalizer /\ Absent.life = "none" /\ Absent.keyID = 0
  BY DEF Absent
<1>5. HistoryInv
  BY <1>3, <1>4 DEF HistoryInv, VersionsOrdered, FinalizerStays, FinalizerExists,
                    Lasting, Versions
<1>6. pc = "idle" /\ ~fresh
  BY DEF Init, InitKeys
<1> QED BY <1>1, <1>5, <1>6 DEF FinalizerInv, FreshCopy, WorkerInv, DeletionPcs, Holding,
                                LivePcs, MintPcs

\* The stored object holds the finalizer while a key is minted, stored and recorded,
\* whatever the age of the copy the worker decided on (ensureFinalizer before
\* createPreAuthKey).
THEOREM FinalizerSafe == Spec => []FinalizerBeforeMint
<1>1. FinalizerInv => FinalizerBeforeMint
  BY DEF FinalizerInv, WorkerInv, Holding, LivePcs, MintPcs, FinalizerBeforeMint
<1> QED BY <1>1, InitFinalizer, FinalizerStep, PTL DEF Spec

-----------------------------------------------------------------------------
(* A key belongs to the object that had it minted.                         *)

ServerEvolves ==
  \/ UNCHANGED server
  \/ Insert /\ (Mint \/ MintFails)
  \/ pc = "deleteKey" /\ Delete
  \/ admin' = admin + 1 /\ UNCHANGED nextId /\ db' \subseteq db

\* The worker mints for its object and deletes by ID; the rest is done by hand.
LEMMA ServerEvolution == [Next]_vars => ServerEvolves
<1> SUFFICES ASSUME [Next]_vars PROVE ServerEvolves
  OBVIOUS
<1>1. CASE Mint \/ MintFails
  BY <1>1 DEF Mint, MintFails, ServerEvolves
<1>2. CASE DeleteKey \/ DeleteKeyFails
  BY <1>2 DEF DeleteKey, DeleteKeyFails, ServerEvolves
<1>3. ASSUME NEW row \in db, AdminDeleteKey(row) PROVE ServerEvolves
  BY <1>3 DEF AdminDeleteKey, AdminStep, ServerEvolves
<1>4. CASE \/ \E k \in Keys : Reconcile(k) \/ Deliver(k) \/ Timer(k) \/ Resync(k)
           \/ \E s \in Secrets : DeliverSecret(s) \/ CollectSecret(s)
           \/ AddFinalizer \/ AddFinalizerFails \/ GetHeadscale \/ GetFails
           \/ GetUser \/ AddOwner \/ AddOwnerFails
           \/ CreateSecret \/ CreateSecretExists \/ CreateSecretFails
           \/ GetSecret \/ UpdateSecret \/ UpdateSecretFails
           \/ RecordKeyID \/ RecordKeyIDFails
           \/ PatchCondition \/ PatchConditionFails
           \/ Finalize \/ DeleteKeyNotFound
           \/ DeleteSecret \/ DeleteSecretFails \/ RemoveFinalizer
           \/ RemoveFinalizerFails \/ Crash \/ ToggleHeadscale \/ UNCHANGED vars
           \/ \E k \in Keys : CreateObject(k) \/ EditObject(k) \/ DeleteObject(k)
           \/ \E state \in {"absent", "pending", "ready"} : ChangeUser(state)
  BY <1>4
     DEF Reconcile, Deliver, Timer, Resync, DeliverSecret, CollectSecret, AddFinalizer,
         AddFinalizerFails, GetHeadscale, GetFails, GetUser, AddOwner, AddOwnerFails,
         CreateSecret, CreateSecretExists, CreateSecretFails, GetSecret, UpdateSecret,
         UpdateSecretFails, RecordKeyID, RecordKeyIDFails, PatchCondition,
         PatchConditionFails, Finalize, DeleteKeyNotFound, DeleteSecret,
         DeleteSecretFails, RemoveFinalizer, RemoveFinalizerFails, Crash, Restart,
         ToggleHeadscale, vars, CreateObject, EditObject, DeleteObject, ChangeUser,
         server, ServerEvolves
<1> QED BY <1>1, <1>2, <1>3, <1>4 DEF Next, Step, Environment

\* The ID was handed out, and the key that has it was minted for k.
Owned(k, id) == id < nextId /\ \A row \in db : row.id = id => row.by = k

RowsIssued == \A row \in db : 0 < row.id /\ row.id < nextId

VersionsOwned == \A k \in Keys : \A o \in Versions(object[k]) : Owned(k, o.keyID)

CopyOwned ==
  /\ pc # "idle" => Owned(cur, obj.keyID) /\ Owned(cur, minted)
  /\ pc = "idle" => minted = 0

OwnershipInv == FinalizerInv /\ RowsIssued /\ VersionsOwned /\ CopyOwned

\* IDs are never handed out twice, so no change of the table takes one from its owner.
LEMMA OwnedLasts ==
  ASSUME TypeOK, RowsIssued, [Next]_vars
  PROVE  /\ RowsIssued' /\ nextId <= nextId'
         /\ \A k \in Keys, id \in Nat : Owned(k, id) => Owned(k, id)'
<1>1. /\ db \subseteq Row /\ nextId \in Nat \ {0}
      /\ \A row \in db : row.id \in Nat /\ row.id < nextId
  BY DEF TypeOK, RowsIssued, Row
<1>2. CASE Insert
  BY <1>1, <1>2 DEF Insert, Owned, RowsIssued
<1>3. CASE db' \subseteq db /\ UNCHANGED nextId
  BY <1>1, <1>3 DEF Owned, RowsIssued
<1> QED BY <1>2, <1>3, ServerEvolution DEF ServerEvolves, Delete, server

\* Every step keeps the owners.
LEMMA OwnershipStep == OwnershipInv /\ [Next]_vars => OwnershipInv'
<1> SUFFICES ASSUME OwnershipInv, [Next]_vars PROVE OwnershipInv'
  OBVIOUS
<1> DEFINE OwnedNext(k, id) == /\ id < nextId'
                               /\ \A row \in db' : row.id = id => row.by = k
<1>1. /\ TypeOK /\ TypeOK' /\ RowsIssued /\ RowsIssued' /\ FinalizerInv /\ FinalizerInv'
      /\ nextId <= nextId' /\ nextId \in Nat /\ nextId' \in Nat
  BY FinalizerStep, OwnedLasts DEF OwnershipInv, FinalizerInv, TypeOK
<1>2. \A k \in Keys, id \in Nat : Owned(k, id) => OwnedNext(k, id)
  BY <1>1, OwnedLasts DEF Owned
<1>3. \A k \in Keys : Owned(k, 0)
  BY <1>1 DEF TypeOK, Owned, RowsIssued, Row
<1>4. ASSUME NEW k \in Keys, NEW o \in Versions(object[k])
      PROVE  o \in Object /\ o.keyID \in Nat /\ Owned(k, o.keyID)
  BY <1>1, <1>4, Sight DEF OwnershipInv, VersionsOwned, Object
<1>5. pc # "idle" => /\ cur \in Keys /\ obj \in Object /\ Owned(cur, obj.keyID)
                     /\ minted \in Nat /\ Owned(cur, minted) /\ obj.keyID \in Nat
  BY <1>1, Sight DEF OwnershipInv, CopyOwned, Object
<1>6. ASSUME NEW k \in Keys, NEW o \in Versions(object'[k])
      PROVE  OwnedNext(k, o.keyID)
  <2>1. CASE o \in Versions(object[k])
    BY <2>1, <1>2, <1>4
  <2>2. CASE o \in Object /\ NewVersion(k, o)
    <3>1. \/ o.keyID = Stored(object[k]).keyID
          \/ k = cur /\ pc = "recordKeyID" /\ o.keyID = minted
      BY <1>1, <2>2, NewVersionKeeps
    <3>2. Stored(object[k]) \in Versions(object[k])
      BY <1>1, Sight
    <3> QED BY <3>1, <3>2, <1>2, <1>4, <1>5
  <2> QED BY <2>1, <2>2, <1>1, SeenVersions
<1>7. VersionsOwned'
  BY <1>6 DEF VersionsOwned, Versions, Owned
<1>8. CopyOwned'
  <2>1. CASE Ends
    BY <2>1 DEF Ends, CopyOwned
  <2>2. ASSUME NEW k \in Keys, Begins(k) PROVE CopyOwned'
    <3>1. /\ cur' = k /\ obj' = Observed(object[k]) /\ minted' = minted
          /\ Observed(object[k]) \in Versions(object[k])
      BY <1>1, <2>2, Sight DEF Begins
    <3>2. OwnedNext(k, obj'.keyID)
      BY <3>1, <1>2, <1>4
    <3>3. minted' = 0 /\ OwnedNext(k, 0)
      BY <2>2, <1>2, <1>3 DEF Begins, OwnershipInv, CopyOwned
    <3> QED BY <2>2, <3>1, <3>2, <3>3 DEF Begins, CopyOwned, Owned
  <2>3. CASE GoesOn
    <3>1. pc # "idle" /\ cur' = cur /\ obj'.keyID = obj.keyID
      BY <2>3, <1>5 DEF GoesOn, AddFinalizer, WithFinalizer, Object
    <3>2. OwnedNext(cur, obj'.keyID)
      BY <3>1, <1>2, <1>5
    <3>3. OwnedNext(cur, minted')
      <4>1. CASE Mint
        BY <4>1, <1>1, <1>5 DEF Mint, Insert, Owned, RowsIssued, TypeOK, Row
      <4>2. CASE minted' = minted
        BY <4>2, <3>1, <1>2, <1>5
      <4> QED BY <2>3, <4>1, <4>2 DEF GoesOn
    <3>4. pc' # "idle"
      BY <2>3 DEF GoesOn, Moves
    <3> QED BY <3>1, <3>2, <3>3, <3>4 DEF CopyOwned, Owned
  <2>4. CASE Outside
    <3>1. UNCHANGED <<pc, cur, obj, minted>>
      BY <1>1, <2>4, OutsideStays
    <3> QED BY <3>1, <1>2, <1>5 DEF OwnershipInv, CopyOwned, Owned
  <2> QED BY <2>1, <2>2, <2>3, <2>4, <1>1, PassEvolution
<1> QED BY <1>1, <1>7, <1>8 DEF OwnershipInv

\* No key is there at the start and no version records one.
LEMMA InitOwnership == Init => OwnershipInv
<1> SUFFICES ASSUME Init PROVE OwnershipInv
  OBVIOUS
<1>1. db = {} /\ nextId = 1 /\ pc = "idle" /\ minted = 0
  BY DEF Init, InitKeys
<1>2. \A k \in Keys : \A o \in Versions(object[k]) : o.keyID = 0
  BY DEF Init, InitKeys, Versions, Absent
<1> QED BY <1>1, <1>2, InitFinalizer
        DEF OwnershipInv, RowsIssued, VersionsOwned, CopyOwned, Owned

\* handleDeletion removes from Headscale no key but the one minted for the object in
\* hand, also when its copy is old (deletePreAuthKey goes by status.keyId).
THEOREM DeletionSafe == Spec => DeletesOnlyOwnKey
<1> DEFINE OnlyOwn ==
      \A row \in db : pc = "deleteKey" /\ row \notin db' /\ admin' = admin
        => row.by = cur
<1>1. OwnershipInv /\ [Next]_vars => OnlyOwn
  <2> SUFFICES ASSUME OwnershipInv, [Next]_vars, NEW row \in db, pc = "deleteKey",
                      row \notin db', admin' = admin
               PROVE  row.by = cur
    OBVIOUS
  <2>1. admin \in Nat
    BY DEF OwnershipInv, FinalizerInv, TypeOK
  <2>2. Delete
    BY <2>1, ServerEvolution DEF ServerEvolves, server, Mint, MintFails
  <2>3. row.id = obj.keyID
    BY <2>2 DEF Delete, Matches
  <2> QED BY <2>3 DEF OwnershipInv, CopyOwned, Owned
<1> QED BY <1>1, InitOwnership, OwnershipStep, PTL DEF Spec, DeletesOnlyOwnKey

-----------------------------------------------------------------------------
(* The Secret is written before the status.                                *)

\* What a step makes of a Secret: the worker writes the key it has minted, or
\* deletes the Secret; the garbage collector takes it after its owner.
SecretEvolves(s) ==
  \/ Stored(secret'[s]) = Stored(secret[s])
  \/ /\ pc \in {"createSecret", "updateSecret"} /\ s = SecretName[cur]
     /\ UNCHANGED object
     /\ Stored(secret'[s]).key = minted
     /\ Stored(secret'[s]).owner \in {cur, Stored(secret[s]).owner}
  \/ pc = "deleteSecret" /\ s = SecretName[cur] /\ Stored(secret'[s]) = NoSecret
  \/ CollectSecret(s) /\ Stored(secret'[s]) = NoSecret

\* A write to one Secret leaves the others alone.
LEMMA StoredSecret ==
  ASSUME TypeOK, NEW s \in Secrets, NEW v \in Secret, StoreSecret(s, v)
  PROVE  /\ Stored(secret'[s]) = v
         /\ \A r \in Secrets : r # s => secret'[r] = secret[r]
<1>1. /\ secret[s] \in History(Secret) /\ secret'[s] = Written(secret[s], v)
      /\ \A r \in Secrets : r # s => secret'[r] = secret[r]
  BY DEF StoreSecret, TypeOK
<1> QED BY <1>1, WrittenVersions

\* Nothing else happens to a Secret.
LEMMA SecretEvolution ==
  ASSUME TypeOK, [Next]_vars
  PROVE  \A s \in Secrets : SecretEvolves(s)
<1>u. ASSUME UNCHANGED secret PROVE \A s \in Secrets : SecretEvolves(s)
  BY <1>u DEF SecretEvolves
<1>a. pc # "idle" => /\ cur \in Keys /\ SecretName[cur] \in Secrets /\ minted \in Nat
                     /\ Stored(SecretOf(cur)) \in Secret
                     /\ NewSecret \in Secret
                     /\ [Stored(SecretOf(cur)) EXCEPT !.key = minted] \in Secret
  <2>1. pc # "idle" => /\ cur \in Keys /\ SecretName[cur] \in Secrets /\ minted \in Nat
                       /\ Stored(SecretOf(cur)) \in Secret
    BY VersionTypes DEF TypeOK, SecretOf
  <2> QED BY <2>1 DEF NewSecret, Secret
<1>n. NoSecret \in Secret
  BY DEF NoSecret, Secret
<1>w. ASSUME pc \in {"createSecret", "updateSecret"}, UNCHANGED object,
             StoreSecret(SecretName[cur], NewSecret)
               \/ StoreSecret(SecretName[cur], [Stored(SecretOf(cur)) EXCEPT !.key = minted])
      PROVE  \A s \in Secrets : SecretEvolves(s)
  <2>1. CASE StoreSecret(SecretName[cur], NewSecret)
    <3>1. NewSecret.key = minted /\ NewSecret.owner = cur
      BY DEF NewSecret
    <3> QED BY <1>w, <1>a, <2>1, <3>1, StoredSecret DEF SecretEvolves
  <2>2. CASE StoreSecret(SecretName[cur], [Stored(SecretOf(cur)) EXCEPT !.key = minted])
    <3> DEFINE v == [Stored(SecretOf(cur)) EXCEPT !.key = minted]
    <3>1. v \in Secret /\ v.key = minted /\ v.owner = Stored(secret[SecretName[cur]]).owner
      BY <1>w, <1>a DEF Secret, SecretOf
    <3>2. /\ Stored(secret'[SecretName[cur]]) = v
          /\ \A r \in Secrets : r # SecretName[cur] => secret'[r] = secret[r]
      BY <1>w, <1>a, <2>2, <3>1, StoredSecret
    <3> HIDE DEF v
    <3> QED BY <1>w, <3>1, <3>2 DEF SecretEvolves
  <2> QED BY <1>w, <2>1, <2>2
<1>1. CASE \/ CreateSecret \/ CreateSecretFails \/ UpdateSecret \/ UpdateSecretFails
  <2>1. CASE UNCHANGED secret
    BY <2>1, <1>u
  <2>2. CASE ~UNCHANGED secret
    BY <1>1, <2>2, <1>w DEF CreateSecret, CreateSecretFails, UpdateSecret,
                            UpdateSecretFails
  <2> QED BY <2>1, <2>2
<1>2. CASE DeleteSecret
  <2>1. pc = "deleteSecret"
        /\ ((UNCHANGED secret) \/ StoreSecret(SecretName[cur], NoSecret))
    BY <1>2 DEF DeleteSecret
  <2> QED BY <2>1, <1>a, <1>n, <1>u, StoredSecret DEF SecretEvolves
<1>3. ASSUME NEW s \in Secrets, CollectSecret(s) PROVE \A r \in Secrets : SecretEvolves(r)
  <2>1. StoreSecret(s, NoSecret)
    BY <1>3 DEF CollectSecret
  <2>2. /\ Stored(secret'[s]) = NoSecret
        /\ \A r \in Secrets : r # s => secret'[r] = secret[r]
    BY <2>1, <1>n, StoredSecret
  <2> QED BY <1>3, <2>2 DEF SecretEvolves
<1>4. ASSUME NEW s \in Secrets, DeliverSecret(s) PROVE \A r \in Secrets : SecretEvolves(r)
  <2>1. /\ Lag(secret[s]) > 0 /\ secret'[s] = Delivered(secret[s])
        /\ \A r \in Secrets : r # s => secret'[r] = secret[r]
        /\ secret[s] \in History(Secret)
    BY <1>4 DEF DeliverSecret, TypeOK
  <2>2. Stored(secret'[s]) = Stored(secret[s])
    BY <2>1, DeliveredVersions
  <2> QED BY <2>1, <2>2 DEF SecretEvolves
<1>5. CASE Crash
  <2>1. \A s \in Secrets : secret'[s] = Relisted(secret[s]) /\ secret[s] \in History(Secret)
    BY <1>5 DEF Crash, Restart, TypeOK
  <2> QED BY <2>1, RelistedVersions DEF SecretEvolves
<1>6. CASE \/ \E k \in Keys : Reconcile(k) \/ Deliver(k) \/ Timer(k) \/ Resync(k)
           \/ AddFinalizer \/ AddFinalizerFails \/ GetHeadscale \/ GetFails
           \/ GetUser \/ AddOwner \/ AddOwnerFails \/ Mint \/ MintFails
           \/ CreateSecretExists \/ GetSecret \/ RecordKeyID \/ RecordKeyIDFails
           \/ PatchCondition \/ PatchConditionFails
           \/ Finalize \/ DeleteKey \/ DeleteKeyNotFound \/ DeleteKeyFails
           \/ DeleteSecretFails \/ RemoveFinalizer \/ RemoveFinalizerFails
           \/ Environment \/ UNCHANGED vars
  BY <1>6, <1>u
     DEF Reconcile, Deliver, Timer, Resync, AddFinalizer, AddFinalizerFails,
         GetHeadscale, GetFails, GetUser, AddOwner, AddOwnerFails, Mint, MintFails,
         CreateSecretExists, GetSecret, RecordKeyID, RecordKeyIDFails, PatchCondition,
         PatchConditionFails, Finalize, DeleteKey, DeleteKeyNotFound, DeleteKeyFails,
         DeleteSecretFails, RemoveFinalizer, RemoveFinalizerFails, Environment,
         ToggleHeadscale, vars, CreateObject, EditObject, DeleteObject, ChangeUser,
         AdminDeleteKey, kube
<1> QED BY <1>1, <1>2, <1>3, <1>4, <1>5, <1>6 DEF Next, Step

\* A Secret's owner is an object of its name that was there.
SecretsOwned ==
  \A s \in Secrets :
    LET owner == Stored(secret[s]).owner
    IN  owner # NoKey => SecretName[owner] = s /\ Stored(object[owner]).life # "none"

\* As long as every pass has begun on caches that were in step, its copy has the
\* recorded ID, fresh or not: only the worker changes that one.
CopyTrue ==
  lag = 0 /\ pc \notin {"idle", "patch"} => obj.keyID = Stored(object[cur]).keyID

\* When the worker comes to record a key, the Secret has it.
MintedInSecret ==
  lag = 0 /\ pc = "recordKeyID" /\ ~Shared(cur) => Stored(SecretOf(cur)).key = minted

SecretInv ==
  FinalizerInv /\ SecretsOwned /\ CopyTrue /\ MintedInSecret /\ RecordedKeyInSecret

\* Copies are once behind, always behind (in the ghost lag).
LEMMA LagStays ==
  ASSUME TypeOK, [Next]_vars, lag' = 0
  PROVE  lag = 0 /\ \A k \in Keys : Begins(k) => InSync(object[k]) /\ InSync(SecretOf(k))
<1>1. ASSUME NEW k \in Keys, Reconcile(k)
      PROVE  lag = 0 /\ InSync(object[k]) /\ InSync(SecretOf(k))
  BY <1>1, LagType
<1>2. ASSUME Step PROVE lag = 0
  BY <1>2
     DEF Step, AddFinalizer, AddFinalizerFails, GetHeadscale, GetFails, GetUser, AddOwner,
         AddOwnerFails, Mint, MintFails, CreateSecret, CreateSecretExists,
         CreateSecretFails, GetSecret, UpdateSecret, UpdateSecretFails, RecordKeyID,
         RecordKeyIDFails, PatchCondition, PatchConditionFails, Finalize, DeleteKey,
         DeleteKeyNotFound, DeleteKeyFails, DeleteSecret, DeleteSecretFails,
         RemoveFinalizer, RemoveFinalizerFails, UpdateFailed, Fault, budget
<1>3. ASSUME \/ \E k \in Keys : Deliver(k) \/ Timer(k) \/ Resync(k)
             \/ \E s \in Secrets : DeliverSecret(s) \/ CollectSecret(s)
             \/ Crash \/ Environment \/ UNCHANGED vars
      PROVE  lag = 0
  BY <1>3
     DEF Deliver, Timer, Resync, DeliverSecret, CollectSecret, Crash, Restart,
         Environment, CreateObject, EditObject, DeleteObject, ToggleHeadscale,
         ChangeUser, AdminDeleteKey, Fault, budget, vars
<1>4. (\E k \in Keys : Reconcile(k)) \/ lag = 0
  BY <1>2, <1>3 DEF Next
<1>5. lag = 0
  BY <1>1, <1>4
<1> QED BY <1>1, <1>5 DEF Begins

\* An object does not leave the ranks of those that ask for a Secret.
LEMMA SharedStays ==
  ASSUME FinalizerInv, [Next]_vars, NEW k \in Keys,
         \A j \in Keys \ {k} :
           SecretName[j] = SecretName[k] => Stored(object'[j]).life = "none"
  PROVE  ~Shared(k)
<1>1. \A j \in Keys : Stored(object[j]).life # "none" => Stored(object'[j]).life # "none"
  BY StoredKeeps
<1> QED BY <1>1 DEF Shared

\* While nobody else asks for the Secret of an object that is there, only the
\* worker, for this very object, touches it.
LEMMA OwnSecret ==
  ASSUME SecretInv, [Next]_vars, NEW k \in Keys, ~Shared(k),
         Stored(object[k]).life \in {"live", "deleting"},
         Stored(secret'[SecretName[k]]) # Stored(secret[SecretName[k]])
  PROVE  /\ k = cur
         /\ \/ /\ pc \in {"createSecret", "updateSecret"} /\ UNCHANGED object
               /\ Stored(secret'[SecretName[k]]).key = minted
            \/ pc = "deleteSecret"
<1> DEFINE s == SecretName[k]
<1>1. /\ TypeOK /\ s \in Secrets /\ Stored(secret[s]).owner \in Keys \cup {NoKey}
      /\ \A j \in Keys \ {k} : SecretName[j] = s => Stored(object[j]).life = "none"
  BY VersionTypes DEF SecretInv, FinalizerInv, Secret, Shared
<1>2. SecretEvolves(s)
  BY <1>1, SecretEvolution
<1>3. pc # "idle" => cur \in Keys /\ Stored(object[cur]).life # "none"
  BY DEF SecretInv, FinalizerInv, WorkerInv, TypeOK
<1>4. ~CollectSecret(s)
  <2> SUFFICES ASSUME CollectSecret(s) PROVE FALSE
    OBVIOUS
  <2> DEFINE j == Stored(secret[s]).owner
  <2>1. j # NoKey /\ Stored(object[j]).life = "gone"
    BY DEF CollectSecret
  <2>2. SecretName[j] = s
    BY <1>1, <2>1 DEF SecretInv, SecretsOwned
  <2> QED BY <1>1, <2>1, <2>2
<1> QED BY <1>1, <1>2, <1>3, <1>4 DEF SecretEvolves

\* Each step keeps the invariant.
LEMMA SecretStep == SecretInv /\ [Next]_vars => SecretInv'
<1> SUFFICES ASSUME SecretInv, [Next]_vars PROVE SecretInv'
  OBVIOUS
<1> DEFINE SharedNext(k) ==
      \E j \in Keys \ {k} : /\ SecretName[j] = SecretName[k]
                            /\ Stored(object'[j]).life # "none"
<1>t. FinalizerInv /\ FinalizerInv' /\ TypeOK /\ TypeOK'
  BY FinalizerStep DEF SecretInv, FinalizerInv
<1>b. pc # "idle" => /\ cur \in Keys /\ obj \in Object /\ SecretName[cur] \in Secrets
                     /\ Stored(object[cur]).life # "none"
  BY <1>t, Sight, VersionTypes DEF FinalizerInv, WorkerInv
<1>1. SecretsOwned'
  <2> SUFFICES ASSUME NEW s \in Secrets, Stored(secret'[s]).owner # NoKey
               PROVE  /\ SecretName[Stored(secret'[s]).owner] = s
                      /\ Stored(object'[Stored(secret'[s]).owner]).life # "none"
    BY DEF SecretsOwned, Stored
  <2>1. Stored(secret'[s]).owner \in Keys
    <3>1. secret'[s] \in History(Secret)
      BY <1>t DEF TypeOK
    <3>2. Stored(secret'[s]) \in Secret
      BY <3>1, EndVersions
    <3> QED BY <3>2 DEF Secret
  <2>2. \/ Stored(secret'[s]).owner = Stored(secret[s]).owner
        \/ pc # "idle" /\ s = SecretName[cur] /\ Stored(secret'[s]).owner = cur
    BY <1>t, SecretEvolution DEF SecretEvolves, NoSecret
  <2>3. /\ SecretName[Stored(secret'[s]).owner] = s
        /\ Stored(object[Stored(secret'[s]).owner]).life # "none"
    BY <2>2, <1>b DEF SecretInv, SecretsOwned
  <2> QED BY <1>t, <2>1, <2>3, StoredKeeps
<1>2. ASSUME lag' = 0, pc' \notin {"idle", "patch"}
      PROVE  obj'.keyID = Stored(object'[cur']).keyID
  <2>1. lag = 0
    BY <1>2, <1>t, LagStays
  <2>2. ASSUME NEW k \in Keys, Begins(k) PROVE obj'.keyID = Stored(object'[cur']).keyID
    <3>1. /\ InSync(object[k]) /\ cur' = k /\ obj' = Observed(object[k])
          /\ object' = object /\ object[k] \in History(Object)
      BY <1>2, <1>t, <2>2, Sight, LagStays DEF Begins
    <3> QED BY <3>1, EndVersions
  <2>3. CASE GoesOn
    <3>1. /\ pc \notin {"idle", "patch", "recordKeyID"} /\ cur' = cur
          /\ obj'.keyID = obj.keyID
      BY <1>2, <1>b, <2>3 DEF GoesOn, Moves, AddFinalizer, WithFinalizer, Object
    <3> QED BY <1>t, <1>b, <2>1, <3>1, StoredKeeps DEF SecretInv, CopyTrue
  <2>4. CASE Outside
    <3>1. UNCHANGED <<pc, cur, obj>>
      BY <1>t, <2>4, OutsideStays
    <3> QED BY <1>2, <1>t, <1>b, <2>1, <3>1, StoredKeeps DEF SecretInv, CopyTrue
  <2> QED BY <1>2, <1>t, <2>2, <2>3, <2>4, PassEvolution DEF Ends
<1>3. ASSUME lag' = 0, pc' = "recordKeyID", ~SharedNext(cur')
      PROVE  Stored(secret'[SecretName[cur']]).key = minted'
  <2>1. lag = 0 /\ ~(\E k \in Keys : Begins(k)) /\ ~Ends
    BY <1>3, <1>t, LagStays DEF Begins, FirstCall, Ends
  <2>2. CASE GoesOn
    <3>1. (CreateSecret \/ UpdateSecret) /\ minted' = minted /\ cur' = cur
      BY <1>3, <2>2 DEF GoesOn, Mint, CreateSecret, UpdateSecret
    <3>2. PICK v \in Secret : StoreSecret(SecretName[cur], v) /\ v.key = minted
      <4>1. /\ pc # "idle" /\ minted \in Nat /\ cur \in Keys
            /\ Stored(SecretOf(cur)) \in Secret
        BY <3>1, <1>t, <1>b, VersionTypes DEF CreateSecret, UpdateSecret, TypeOK, SecretOf
      <4>2. NewSecret \in Secret /\ NewSecret.key = minted
        BY <4>1 DEF NewSecret, Secret
      <4>3. /\ [Stored(SecretOf(cur)) EXCEPT !.key = minted] \in Secret
            /\ [Stored(SecretOf(cur)) EXCEPT !.key = minted].key = minted
        BY <4>1 DEF Secret
      <4> QED BY <3>1, <4>2, <4>3 DEF CreateSecret, UpdateSecret
    <3> QED BY <3>1, <3>2, <1>t, <1>b, StoredSecret DEF CreateSecret, UpdateSecret
  <2>3. CASE Outside
    <3>1. UNCHANGED <<pc, cur, minted>>
      BY <1>t, <2>3, OutsideStays
    <3>2. ~SharedNext(cur) /\ cur \in Keys /\ pc = "recordKeyID"
      BY <1>3, <1>b, <3>1
    <3>3. ~Shared(cur)
      BY <3>2, <1>t, SharedStays
    <3>4. Stored(SecretOf(cur)).key = minted
      BY <2>1, <3>2, <3>3 DEF SecretInv, MintedInSecret
    <3>5. Stored(object[cur]).life \in {"live", "deleting"}
      <4>1. Stored(object[cur]).finalizer
        BY <3>2, <1>t DEF FinalizerInv, WorkerInv, Holding, LivePcs, MintPcs
      <4> QED BY <4>1, <3>2, <1>t, Sight DEF FinalizerInv, HistoryInv, FinalizerExists,
                                          Exists
    <3>6. Stored(secret'[SecretName[cur]]) = Stored(secret[SecretName[cur]])
      BY <3>2, <3>3, <3>5, OwnSecret
    <3> QED BY <3>1, <3>4, <3>6 DEF SecretOf
  <2> QED BY <2>1, <2>2, <2>3, <1>t, PassEvolution
<1>4. ASSUME lag' = 0, NEW k \in Keys, Stored(object'[k]).life = "live",
             Stored(object'[k]).keyID # 0, ~SharedNext(k)
      PROVE  Stored(secret'[SecretName[k]]).key = Stored(object'[k]).keyID
  <2>1. lag = 0 /\ ~Shared(k)
    BY <1>4, <1>t, LagStays, SharedStays
  <2>2. Stored(object[k]).life \in {"none", "live"}
    BY <1>4, <1>t, StoredKeeps, Sight DEF Past, Object, Lives
  <2>3. CASE Stored(object'[k]).keyID = Stored(object[k]).keyID
    <3>1. Stored(object[k]).life = "live"
      BY <1>4, <1>t, <2>2, <2>3, Sight DEF FinalizerInv, HistoryInv, FinalizerExists
    <3>2. Stored(secret[SecretName[k]]).key = Stored(object[k]).keyID
      BY <1>4, <2>1, <2>3, <3>1 DEF SecretInv, RecordedKeyInSecret, SecretOf
    <3>3. k = cur => pc \notin {"createSecret", "updateSecret", "deleteSecret"}
      <4>1. ASSUME k = cur, pc \in {"createSecret", "updateSecret"} PROVE FALSE
        <5>1. obj.keyID = 0 /\ obj.keyID = Stored(object[k]).keyID
          BY <1>t, <2>1, <4>1
             DEF SecretInv, FinalizerInv, WorkerInv, MintPcs, CopyTrue
        <5> QED BY <1>4, <2>3, <5>1
      <4>2. ASSUME k = cur, pc = "deleteSecret" PROVE FALSE
        BY <1>t, <3>1, <4>2, Sight
           DEF FinalizerInv, WorkerInv, DeletionPcs, PastObjects, Past
      <4> QED BY <4>1, <4>2
    <3>4. Stored(secret'[SecretName[k]]) = Stored(secret[SecretName[k]])
      BY <2>1, <3>1, <3>3, OwnSecret
    <3> QED BY <2>3, <3>2, <3>4
  <2>4. CASE /\ k = cur /\ pc = "recordKeyID"
             /\ Stored(object'[k]).keyID # Stored(object[k]).keyID
             /\ Stored(object'[k]).keyID = minted
    <3>1. Stored(secret[SecretName[k]]).key = minted
      BY <2>1, <2>4 DEF SecretInv, MintedInSecret, SecretOf
    <3>2. Stored(object[k]).life = "live"
      BY <2>2, <2>4, <1>b
    <3>3. Stored(secret'[SecretName[k]]) = Stored(secret[SecretName[k]])
      BY <2>1, <2>4, <3>2, OwnSecret
    <3> QED BY <2>4, <3>1, <3>3
  <2> QED BY <2>3, <2>4, <1>t, StoredKeeps
<1>5. CopyTrue'
  BY <1>2 DEF CopyTrue, Stored
<1>6. MintedInSecret'
  BY <1>3 DEF MintedInSecret, SecretOf, Stored, Shared
<1>7. RecordedKeyInSecret'
  BY <1>4 DEF RecordedKeyInSecret, SecretOf, Stored, Shared
<1> QED BY <1>t, <1>1, <1>5, <1>6, <1>7 DEF SecretInv

\* No Secret has an owner and no object a key at the start.
LEMMA InitSecret == Init => SecretInv
<1> SUFFICES ASSUME Init PROVE SecretInv
  OBVIOUS
<1>1. /\ \A k \in Keys : Stored(object[k]) = Absent
      /\ \A s \in Secrets : Stored(secret[s]) = NoSecret
      /\ pc = "idle"
  BY DEF Init, InitKeys, Stored
<1> QED BY <1>1, InitFinalizer
        DEF SecretInv, SecretsOwned, CopyTrue, MintedInSecret, RecordedKeyInSecret,
            Absent, NoSecret

\* As long as the caches are in step, the key a live object records is the key in its
\* Secret, unless another object asks for the same Secret: whatever fails, and
\* whoever else writes or deletes, the worker has stored the key before it records
\* it, and stores no other one afterwards (createPreAuthKey).
THEOREM RecordedSafe == Spec => []RecordedKeyInSecret
<1>1. SecretInv => RecordedKeyInSecret
  BY DEF SecretInv
<1> QED BY <1>1, InitSecret, SecretStep, PTL DEF Spec

-----------------------------------------------------------------------------
(* Every leaked key is paid for.                                           *)

AfterMint == {"createSecret", "getSecret", "updateSecret", "recordKeyID"}

\* How a pass comes to the calls that decide about a minted key, and what becomes of
\* the counts of failures and edits.
LEMMA CallEvolution ==
  ASSUME TypeOK, [Next]_vars
  PROVE  /\ pc' = "getSecret" => pc = "getSecret" \/ CreateSecretExists
         /\ pc' = "updateSecret" => pc = "updateSecret" \/ GetSecret
         /\ pc \in AfterMint /\ pc' = "patch"
              => \/ CreateSecretFails \/ GetSecret \/ UpdateSecretFails
                 \/ RecordKeyID \/ RecordKeyIDFails
         /\ pc \in MintPcs /\ pc' = "idle" => Fault
         /\ pc' \notin {pc, "idle", "recordKeyID", "patch", "removeFinalizer"}
              => UNCHANGED secret
         /\ faults' = faults \/ faults' = faults + 1
         /\ edits' = edits \/ edits' = edits + 1
<1>1. CASE \/ \E k \in Keys : Deliver(k) \/ Timer(k) \/ Resync(k)
           \/ \E s \in Secrets : DeliverSecret(s) \/ CollectSecret(s)
           \/ Environment \/ UNCHANGED vars
  BY <1>1
     DEF Deliver, Timer, Resync, DeliverSecret, CollectSecret, Environment, CreateObject,
         EditObject, DeleteObject, ToggleHeadscale, ChangeUser, AdminDeleteKey, AdminStep,
         worker, budget, vars, AfterMint, MintPcs
<1>2. ASSUME NEW k \in Keys, Reconcile(k)
      PROVE  /\ pc = "idle" /\ pc' \notin {"getSecret", "updateSecret"}
             /\ UNCHANGED <<secret, faults, edits>>
  BY <1>2 DEF Reconcile, FirstCall, worker, kube
<1>3. CASE Crash
  BY <1>3 DEF Crash, Restart, Forget, Fault, AfterMint
<1>4. CASE \/ AddFinalizer \/ AddFinalizerFails \/ GetHeadscale \/ GetFails \/ GetUser
           \/ AddOwner \/ AddOwnerFails \/ Mint \/ MintFails
  BY <1>4
     DEF AddFinalizer, AddFinalizerFails, GetHeadscale, GetFails, GetUser, AddOwner,
         AddOwnerFails, Mint, MintFails, AfterResolve, Goto, Report, CreationFailed,
         RetryError, Forget, UpdateFailed, Fault, kube, budget, AfterMint, MintPcs
<1>5. CASE \/ CreateSecret \/ CreateSecretExists \/ CreateSecretFails
           \/ GetSecret \/ UpdateSecret \/ UpdateSecretFails
           \/ RecordKeyID \/ RecordKeyIDFails
  BY <1>5
     DEF CreateSecret, CreateSecretExists, CreateSecretFails, GetSecret, UpdateSecret,
         UpdateSecretFails, RecordKeyID, RecordKeyIDFails, AfterAlreadyExists, Goto,
         Report, CreationFailed, UpdateFailed, Fault, kube, budget, AfterMint
<1>6. CASE \/ PatchCondition \/ PatchConditionFails \/ Finalize
           \/ DeleteKey \/ DeleteKeyNotFound \/ DeleteKeyFails
           \/ DeleteSecret \/ DeleteSecretFails \/ RemoveFinalizer
           \/ RemoveFinalizerFails
  BY <1>6
     DEF PatchCondition, PatchConditionFails, AfterReport, Finalize, DeleteKey,
         DeleteKeyNotFound, DeleteKeyFails, AfterNotFound, DeleteSecret,
         DeleteSecretFails, RemoveFinalizer, RemoveFinalizerFails, Continue, Goto,
         Finish, RetryError, RequeueAfter, Forget, UpdateFailed, Fault, kube, budget,
         AfterMint, MintPcs
<1>7. CASE \E k \in Keys : Reconcile(k)
  BY <1>2, <1>7 DEF AfterMint, MintPcs
<1> QED BY <1>1, <1>3, <1>4, <1>5, <1>6, <1>7 DEF Next, Step

\* A key that is minted and that the object does not record.
Pending == minted # 0 /\ Stored(object[cur]).keyID # minted

\* The worker remembers a minted key only until its pass ends.
MintedLate == minted # 0 => pc \in AfterMint \cup {"patch"}

\* Until the worker looks at the Secret, only the garbage collector can have touched
\* it since the pass began.
SecretSeen ==
  lag = 0 /\ pc \in LivePcs \ {"getSecret", "updateSecret", "recordKeyID"}
    => InSync(SecretOf(cur)) \/ Stored(SecretOf(cur)).key = 0

\* The pass cannot record a key any more, or has failed to.
Doomed ==
  \/ pc \in Holding /\ ~fresh
  \/ pc = "patch" /\ Pending
  \/ pc = "getSecret" /\ ~(InSync(SecretOf(cur)) /\ Stored(SecretOf(cur)).key # 0)
  \/ pc = "updateSecret" /\ ~secFresh

\* Objects that are gone and whose Secret, also another one's, is not theirs any
\* more: it has been collected, or was never theirs.
Collected ==
  {k \in Keys : /\ Stored(object[k]).life = "gone" /\ Shared(k)
                /\ Stored(SecretOf(k)).owner # k}

Paid == faults + edits + Cardinality(Deleted) + Cardinality(Collected)

LeaksPaid == lag = 0 => Cardinality(Leaked) + (IF Doomed THEN 1 ELSE 0) <= Paid

LeakInv ==
  /\ SecretInv /\ OwnershipInv
  /\ IsFiniteSet(db) /\ MintedLate /\ SecretSeen /\ LeaksPaid

\* What is bought by one step.
Charged ==
  \/ faults' = faults + 1 \/ edits' = edits + 1
  \/ Deleted' # Deleted \/ Collected' # Collected


\* Nobody writes an object that is gone.
LEMMA GoneStays ==
  ASSUME FinalizerInv, [Next]_vars, NEW k \in Keys, Stored(object[k]).life = "gone"
  PROVE  Stored(object'[k]) = Stored(object[k])
<1>1. ASSUME NEW o \in Object, NewVersion(k, o) PROVE FALSE
  BY <1>1 DEF NewVersion, FinalizerInv, FreshCopy, WorkerInv, Exists
<1> QED BY <1>1, StoredEvolves DEF FinalizerInv

\* While the worker mints for an object, that object is there.
LEMMA MinterExists ==
  ASSUME FinalizerInv, pc \in Holding
  PROVE  cur \in Keys /\ Exists(Stored(object[cur]))
<1>1. cur \in Keys /\ Stored(object[cur]).finalizer
  BY DEF FinalizerInv, WorkerInv, TypeOK, Holding, LivePcs, MintPcs
<1>2. Stored(object[cur]) \in Versions(object[cur])
  BY <1>1, Sight
<1> QED BY <1>1, <1>2 DEF FinalizerInv, HistoryInv, FinalizerExists

\* A deletion stays, and so does a collected Secret.
LEMMA PastGrows ==
  ASSUME SecretInv, [Next]_vars
  PROVE  Deleted \subseteq Deleted' /\ Collected \subseteq Collected'
<1>t. FinalizerInv /\ TypeOK
  BY DEF SecretInv, FinalizerInv
<1>1. ASSUME NEW k \in Deleted PROVE k \in Deleted'
  <2>1. k \in Keys /\ Past(Stored(object[k]))
    BY DEF Deleted, Past
  <2>2. Past(Stored(object'[k]))
    BY <1>t, <2>1, StoredKeeps
  <2> QED BY <2>1, <2>2 DEF Deleted, Past, Stored
<1>2. ASSUME NEW k \in Collected PROVE k \in Collected'
  <2> DEFINE s == SecretName[k]
  <2>1. /\ k \in Keys /\ Stored(object[k]).life = "gone" /\ Shared(k)
        /\ Stored(secret[s]).owner # k
    BY DEF Collected, SecretOf
  <2>2. Stored(object'[k]).life = "gone"
    BY <1>t, <2>1, GoneStays
  <2>3. \E j \in Keys \ {k} :
          SecretName[j] = SecretName[k] /\ Stored(object'[j]).life # "none"
    BY <1>t, <2>1, SharedStays
  <2>4. Stored(secret'[s]).owner # k
    <3>1. SecretEvolves(s)
      BY <1>t, <2>1, SecretEvolution, SecretNameAssumption
    <3>2. pc \in {"createSecret", "updateSecret"} => cur # k
      BY <1>t, <2>1, MinterExists DEF Holding, LivePcs, MintPcs, Exists
    <3>3. NoSecret.owner # k
      BY <2>1, ByRefAssumption DEF NoSecret
    <3> QED BY <2>1, <3>1, <3>2, <3>3 DEF SecretEvolves
  <2> QED BY <2>1, <2>2, <2>3, <2>4 DEF Collected, SecretOf, Stored, Shared
<1> QED BY <1>1, <1>2

\* So what has been paid is not paid back, and whatever a step buys costs one.
LEMMA PaidGrows ==
  ASSUME SecretInv, [Next]_vars
  PROVE  /\ Paid \in Int /\ Paid' \in Int /\ Paid <= Paid'
         /\ Charged => Paid + 1 <= Paid'
         /\ faults' = faults + 1 => Charged
<1>1. /\ IsFiniteSet(Deleted) /\ IsFiniteSet(Deleted')
      /\ IsFiniteSet(Collected) /\ IsFiniteSet(Collected')
  <2>1. /\ Deleted \in SUBSET Keys /\ Deleted' \in SUBSET Keys
        /\ Collected \in SUBSET Keys /\ Collected' \in SUBSET Keys
    BY DEF Deleted, Collected
  <2> QED BY <2>1, FS_Subset, KeysAssumption
<1>2. /\ Cardinality(Deleted) \in Nat /\ Cardinality(Deleted') \in Nat
      /\ Cardinality(Collected) \in Nat /\ Cardinality(Collected') \in Nat
  BY <1>1, FS_CardinalityType
<1>3. /\ Cardinality(Deleted) <= Cardinality(Deleted')
      /\ Deleted' # Deleted => Cardinality(Deleted) # Cardinality(Deleted')
      /\ Cardinality(Collected) <= Cardinality(Collected')
      /\ Collected' # Collected => Cardinality(Collected) # Cardinality(Collected')
  BY <1>1, PastGrows, FS_Subset
<1>4. TypeOK
  BY DEF SecretInv, FinalizerInv
<1>5. /\ faults \in Nat /\ edits \in Nat
      /\ faults' = faults \/ faults' = faults + 1
      /\ edits' = edits \/ edits' = edits + 1
  BY <1>4, CallEvolution DEF TypeOK
<1> DEFINE d == Cardinality(Deleted)
           e == Cardinality(Deleted')
           c == Cardinality(Collected)
           b == Cardinality(Collected')
<1>6. Paid = faults + edits + d + c /\ Paid' = faults' + edits' + e + b
  BY DEF Paid
<1>7. Charged => faults' = faults + 1 \/ edits' = edits + 1 \/ d # e \/ c # b
  BY <1>3 DEF Charged
<1>8. d \in Nat /\ e \in Nat /\ c \in Nat /\ b \in Nat /\ d <= e /\ c <= b
  BY <1>2, <1>3
<1> HIDE DEF d, e, c, b
<1> QED BY <1>5, <1>6, <1>7, <1>8 DEF Charged

\* The worker remembers a minted key no longer than its pass.
LEMMA MintedLateStep ==
  ASSUME TypeOK, MintedLate, [Next]_vars
  PROVE  MintedLate'
<1>1. CASE \E k \in Keys : Begins(k)
  BY <1>1 DEF Begins, MintedLate, AfterMint
<1>2. CASE Ends
  BY <1>2 DEF Ends, MintedLate
<1>3. CASE Mint
  BY <1>3 DEF Mint, Goto, MintedLate, AfterMint
<1>4. CASE GoesOn /\ ~Mint
  BY <1>4 DEF GoesOn, Moves, MintedLate, AfterMint
<1>5. CASE Outside
  <2>1. UNCHANGED <<pc, minted>>
    BY <1>5 DEF Outside, Deliver, Timer, Resync, CreateObject, EditObject, DeleteObject,
                DeliverSecret, CollectSecret, ToggleHeadscale, ChangeUser,
                AdminDeleteKey, worker, vars
  <2> QED BY <2>1 DEF MintedLate
<1> QED BY <1>1, <1>2, <1>3, <1>4, <1>5, PassEvolution


\* What the surroundings do to the Secret of the object in hand, and to its copies:
\* a change that is not the worker's costs something.
LEMMA OutsideCharged ==
  ASSUME SecretInv, Outside
  PROVE  /\ fresh /\ ~fresh' => Charged
         /\ pc \in Holding =>
              \/ UNCHANGED <<secret, secFresh>>
              \/ Charged
              \/ /\ Lag(SecretOf(cur)) > 0 /\ UNCHANGED secFresh
                 /\ Stored(secret'[SecretName[cur]]) = Stored(SecretOf(cur))
              \/ UNCHANGED secFresh /\ secret'[SecretName[cur]] = SecretOf(cur)
         /\ pc \in LivePcs =>
              \/ secret'[SecretName[cur]] = SecretOf(cur)
              \/ Stored(secret'[SecretName[cur]]).key = 0
              \/ /\ Lag(SecretOf(cur)) > 0
                 /\ Stored(secret'[SecretName[cur]]) = Stored(SecretOf(cur))
<1>t. FinalizerInv /\ TypeOK
  BY DEF SecretInv, FinalizerInv
<1>k. pc \in LivePcs \cup Holding => cur \in Keys /\ SecretName[cur] \in Secrets
  BY <1>t, SecretNameAssumption DEF TypeOK, Holding, LivePcs, MintPcs
<1>f. fresh /\ ~fresh' => Charged
  <2>1. ASSUME NEW k \in Keys, DeleteObject(k) PROVE Charged
    <3>1. Stored(object[k]).life = "live" /\ object[k] \in History(Object)
      BY <1>t, <2>1 DEF DeleteObject, TypeOK
    <3>2. Stored(object[k]) \in Object
      BY <1>t, Sight
    <3> DEFINE o == IF Stored(object[k]).finalizer
                    THEN [Stored(object[k]) EXCEPT !.life = "deleting"]
                    ELSE Removed(Stored(object[k]))
    <3>3. o \in Object /\ o.life \in {"deleting", "gone"}
      BY <3>2, WrittenTypes DEF Removed, Object, Lives
    <3>4. object'[k] = Written(object[k], o)
      BY <1>t, <2>1 DEF DeleteObject, Store, TypeOK
    <3> HIDE DEF o
    <3>5. Stored(object'[k]) = o
      BY <3>1, <3>3, <3>4, WrittenVersions
    <3>6. k \notin Deleted /\ k \in Deleted'
      BY <3>1, <3>3, <3>5 DEF Deleted, Stored
    <3> QED BY <3>6 DEF Charged
  <2>2. ASSUME NEW k \in Keys, EditObject(k) PROVE Charged
    BY <2>2 DEF EditObject, Charged
  <2>3. CASE \/ \E k \in Keys : Deliver(k) \/ Timer(k) \/ Resync(k) \/ CreateObject(k)
             \/ \E s \in Secrets : DeliverSecret(s) \/ CollectSecret(s)
             \/ ToggleHeadscale
             \/ \E state \in {"absent", "pending", "ready"} : ChangeUser(state)
             \/ \E row \in db : AdminDeleteKey(row)
             \/ (\E k \in Keys : Reconcile(k)) /\ UNCHANGED worker
             \/ UNCHANGED vars
    <3>1. UNCHANGED fresh
      BY <2>3 DEF Deliver, Timer, Resync, CreateObject, DeliverSecret, CollectSecret,
                  ToggleHeadscale, ChangeUser, AdminDeleteKey, worker, vars
    <3> QED BY <3>1
  <2> QED BY <2>1, <2>2, <2>3 DEF Outside
<1>d. ASSUME NEW s \in Secrets, DeliverSecret(s)
      PROVE  /\ UNCHANGED secFresh
             /\ \A r \in Secrets : \/ secret'[r] = secret[r]
                                   \/ /\ Lag(secret[r]) > 0
                                      /\ Stored(secret'[r]) = Stored(secret[r])
  <2>1. /\ Lag(secret[s]) > 0 /\ secret'[s] = Delivered(secret[s]) /\ UNCHANGED secFresh
        /\ \A r \in Secrets : r # s => secret'[r] = secret[r]
        /\ secret[s] \in History(Secret)
    BY <1>t, <1>d DEF DeliverSecret, TypeOK, worker
  <2>2. Stored(secret'[s]) = Stored(secret[s])
    BY <2>1, DeliveredVersions
  <2> QED BY <2>1, <2>2
<1>c. ASSUME NEW s \in Secrets, CollectSecret(s)
      PROVE  /\ \A r \in Secrets : r # s => secret'[r] = secret[r]
             /\ Stored(secret'[s]) = NoSecret
             /\ cur \in Keys /\ SecretName[cur] # s => UNCHANGED secFresh
             /\ pc \in Holding /\ SecretName[cur] = s => Charged
  <2>1. /\ Stored(secret'[s]) = NoSecret
        /\ \A r \in Secrets : r # s => secret'[r] = secret[r]
    BY <1>t, <1>c, StoredSecret DEF CollectSecret, NoSecret, Secret
  <2>2. secFresh \in BOOLEAN /\ secFresh' = (secFresh /\ SecretName[cur] # s)
    BY <1>t, <1>c DEF CollectSecret, TypeOK
  <2>3. ASSUME pc \in Holding, SecretName[cur] = s PROVE Charged
    <3> DEFINE j == Stored(secret[s]).owner
    <3>1. /\ j # NoKey /\ Stored(object[j]).life = "gone" /\ UNCHANGED object
      BY <1>c DEF CollectSecret
    <3>2. j \in Keys /\ SecretName[j] = s
      BY <1>t, <3>1, VersionTypes DEF SecretInv, SecretsOwned, Secret
    <3>3. cur \in Keys /\ cur # j /\ Stored(object[cur]).life # "none"
      BY <1>t, <2>3, <3>1, MinterExists DEF Exists
    <3>4. j \notin Collected
      BY <3>2 DEF Collected, SecretOf
    <3>5. /\ Stored(object'[j]).life = "gone"
          /\ \E i \in Keys \ {j} :
               SecretName[i] = SecretName[j] /\ Stored(object'[i]).life # "none"
          /\ Stored(secret'[SecretName[j]]).owner # j
      BY <2>1, <2>3, <3>1, <3>2, <3>3 DEF NoSecret
    <3> HIDE DEF j
    <3>6. j \in Collected'
      BY <3>2, <3>5 DEF Collected, SecretOf, Stored, Shared
    <3> QED BY <3>4, <3>6 DEF Charged
  <2> QED BY <2>1, <2>2, <2>3
<1>u. CASE \/ \E k \in Keys : Deliver(k) \/ Timer(k) \/ Resync(k)
           \/ \E k \in Keys : CreateObject(k) \/ EditObject(k) \/ DeleteObject(k)
           \/ ToggleHeadscale
           \/ \E state \in {"absent", "pending", "ready"} : ChangeUser(state)
           \/ \E row \in db : AdminDeleteKey(row)
           \/ (\E k \in Keys : Reconcile(k)) /\ UNCHANGED worker
           \/ UNCHANGED vars
  <2>1. UNCHANGED <<secret, secFresh>>
    BY <1>u DEF Deliver, Timer, Resync, CreateObject, EditObject, DeleteObject,
                ToggleHeadscale, ChangeUser, AdminDeleteKey, Reconcile, worker, vars, kube
  <2> QED BY <1>f, <2>1 DEF SecretOf
<1>1. ASSUME NEW s \in Secrets, DeliverSecret(s)
      PROVE  /\ pc \in LivePcs \cup Holding =>
                  \/ UNCHANGED secFresh /\ secret'[SecretName[cur]] = SecretOf(cur)
                  \/ /\ Lag(SecretOf(cur)) > 0 /\ UNCHANGED secFresh
                     /\ Stored(secret'[SecretName[cur]]) = Stored(SecretOf(cur))
  BY <1>1, <1>d, <1>k DEF SecretOf
<1>2. ASSUME NEW s \in Secrets, CollectSecret(s)
      PROVE  /\ pc \in Holding =>
                  \/ UNCHANGED secFresh /\ secret'[SecretName[cur]] = SecretOf(cur)
                  \/ Charged
             /\ pc \in LivePcs =>
                  \/ secret'[SecretName[cur]] = SecretOf(cur)
                  \/ Stored(secret'[SecretName[cur]]).key = 0
  <2>1. NoSecret.key = 0
    BY DEF NoSecret
  <2> QED BY <1>2, <1>c, <1>k, <2>1 DEF SecretOf
<1>3. CASE \E s \in Secrets : DeliverSecret(s)
  BY <1>3, <1>1, <1>f
<1>4. CASE \E s \in Secrets : CollectSecret(s)
  BY <1>4, <1>2, <1>f
<1> QED BY <1>u, <1>3, <1>4 DEF Outside


\* At the start of a pass the Secret is in sight, and it is left alone up to the call
\* that looks at it.
LEMMA SecretSeenStep ==
  ASSUME SecretInv, SecretSeen, [Next]_vars
  PROVE  SecretSeen'
<1> DEFINE Blind == LivePcs \ {"getSecret", "updateSecret", "recordKeyID"}
           Seen == \/ InSync(secret'[SecretName[cur']])
                   \/ Stored(secret'[SecretName[cur']]).key = 0
<1>t. TypeOK
  BY DEF SecretInv, FinalizerInv
<1>1. ASSUME lag' = 0, pc' \in Blind PROVE Seen
  <2>1. lag = 0 /\ \A k \in Keys : Begins(k) => InSync(SecretOf(k))
    BY <1>t, <1>1, LagStays
  <2>2. pc' \in LivePcs /\ pc' \notin {"idle", "recordKeyID", "patch", "removeFinalizer",
                                       "getSecret", "updateSecret"}
    BY <1>1 DEF LivePcs, MintPcs
  <2>3. ASSUME NEW k \in Keys, Begins(k) PROVE Seen
    BY <2>1, <2>3 DEF Begins, SecretOf
  <2>4. CASE Ends
    BY <2>2, <2>4 DEF Ends
  <2>5. CASE GoesOn
    <3>1. pc \in Blind /\ pc' # pc /\ UNCHANGED cur
      BY <2>2, <2>5 DEF GoesOn, Moves, LivePcs, MintPcs
    <3>2. UNCHANGED secret
      BY <1>t, <2>2, <3>1, CallEvolution
    <3> QED BY <2>1, <3>1, <3>2 DEF SecretSeen, SecretOf
  <2>6. CASE Outside
    <3>1. UNCHANGED <<pc, cur>>
      BY <2>6, OutsideStays DEF SecretInv
    <3>2. \/ secret'[SecretName[cur]] = SecretOf(cur)
          \/ Stored(secret'[SecretName[cur]]).key = 0
          \/ /\ Lag(SecretOf(cur)) > 0
             /\ Stored(secret'[SecretName[cur]]) = Stored(SecretOf(cur))
      BY <2>2, <2>6, <3>1, OutsideCharged
    <3>3. Lag(SecretOf(cur)) > 0 => ~InSync(SecretOf(cur))
      <4>1. SecretOf(cur) \in History(Secret)
        BY <1>t, <2>2, <3>1, SecretNameAssumption DEF TypeOK, SecretOf
      <4> QED BY <4>1, EndVersions
    <3> QED BY <1>1, <2>1, <3>1, <3>2, <3>3 DEF SecretSeen
  <2> QED BY <1>t, <2>3, <2>4, <2>5, <2>6, PassEvolution
<1> QED BY <1>1 DEF SecretSeen, SecretOf, InSync, Stored

\* A pass that is lost has been charged for.
LEMMA DoomedCharged ==
  ASSUME SecretInv, MintedLate, SecretSeen, [Next]_vars, lag' = 0, Doomed', ~Doomed
  PROVE  Charged
<1>t. FinalizerInv /\ TypeOK /\ fresh \in BOOLEAN /\ secFresh \in BOOLEAN
  BY DEF SecretInv, FinalizerInv, TypeOK
<1>l. lag = 0 /\ \A k \in Keys : Begins(k) => InSync(object[k])
  BY <1>t, LagStays
<1>p. /\ pc' \in Holding \cup {"patch"}
      /\ \/ pc' \in Holding /\ ~fresh'
         \/ pc' = "patch" /\ minted' # 0 /\ Stored(object'[cur']).keyID # minted'
         \/ /\ pc' = "getSecret"
            /\ ~(InSync(secret'[SecretName[cur']])
                   /\ Stored(secret'[SecretName[cur']]).key # 0)
         \/ pc' = "updateSecret" /\ ~secFresh'
  BY DEF Doomed, Pending, SecretOf, InSync, Stored, Holding, LivePcs, MintPcs
<1>f. Fault => Charged
  BY DEF Fault, Charged
<1>1. ASSUME NEW k \in Keys, Begins(k) PROVE FALSE
  <2>1. fresh' = InSync(object[k]) /\ pc' \in {"addFinalizer", "getHeadscale", "finalize"}
    BY <1>1 DEF Begins, FirstCall
  <2> QED BY <1>1, <1>l, <1>p, <2>1
<1>2. CASE Ends
  BY <1>2, <1>p DEF Ends, Holding, LivePcs, MintPcs
<1>3. CASE GoesOn
  <2>1. pc # "idle" /\ cur \in Keys /\ UNCHANGED <<cur, fresh>>
    BY <1>3, <1>t DEF GoesOn, TypeOK
  <2>2. CASE pc' \in Holding /\ ~fresh'
    <3>1. pc \in Holding \cup {"addFinalizer"}
      BY <1>3, <2>2 DEF GoesOn, Moves, Holding, LivePcs, MintPcs
    <3>2. pc = "addFinalizer" => fresh
      BY <1>3 DEF GoesOn, AddFinalizer, UpdateAccepted
    <3> QED BY <2>1, <2>2, <3>1, <3>2 DEF Doomed
  <2>3. CASE pc' = "patch" /\ minted' # 0 /\ Stored(object'[cur']).keyID # minted'
    <3>1. minted' = minted
      BY <1>3, <2>3 DEF GoesOn, Mint, Goto
    <3>2. pc \in AfterMint \cup {"patch"}
      BY <2>3, <3>1 DEF MintedLate
    <3>3. CASE pc = "patch"
      <4>1. Stored(object'[cur]).keyID = Stored(object[cur]).keyID
        BY <1>t, <2>1, <3>3, StoredKeeps
      <4> QED BY <2>1, <2>3, <3>1, <3>3, <4>1 DEF Doomed, Pending
    <3>4. CASE CreateSecretFails \/ UpdateSecretFails
      <4>1. Fault \/ (pc = "updateSecret" /\ ~secFresh)
        BY <3>4 DEF CreateSecretFails, UpdateSecretFails
      <4> QED BY <1>f, <4>1 DEF Doomed
    <3>5. CASE GetSecret
      <4>1. pc = "getSecret" /\ Observed(SecretOf(cur)).key = 0
        BY <2>3, <3>5 DEF GetSecret, Goto
      <4>2. InSync(SecretOf(cur)) => Observed(SecretOf(cur)) = Stored(SecretOf(cur))
        <5>1. SecretOf(cur) \in History(Secret)
          BY <1>t, <2>1, SecretNameAssumption DEF TypeOK, SecretOf
        <5> QED BY <5>1, EndVersions
      <4> QED BY <4>1, <4>2 DEF Doomed
    <3>6. CASE RecordKeyID
      <4>1. WithKeyID(obj, minted) \in Object /\ Store(cur, WithKeyID(obj, minted))
        BY <1>t, <2>1, <3>6, Sight DEF RecordKeyID, UpdateAccepted
      <4>2. Stored(object'[cur]) = WithKeyID(obj, minted)
        BY <1>t, <2>1, <4>1, StoredByWorker
      <4>3. WithKeyID(obj, minted).keyID = minted
        BY <1>t, <2>1, Sight DEF WithKeyID, Object
      <4> QED BY <2>1, <2>3, <3>1, <4>2, <4>3
    <3>7. CASE RecordKeyIDFails
      <4>1. pc = "recordKeyID" /\ (~fresh \/ Fault)
        BY <3>7 DEF RecordKeyIDFails, UpdateFailed
      <4> QED BY <1>f, <4>1 DEF Doomed, Holding, LivePcs, MintPcs
    <3> QED BY <1>t, <2>3, <3>2, <3>3, <3>4, <3>5, <3>6, <3>7, CallEvolution
  <2>4. CASE /\ pc' = "getSecret"
             /\ ~(InSync(secret'[SecretName[cur']])
                    /\ Stored(secret'[SecretName[cur']]).key # 0)
    <3>1. pc' # pc
      BY <1>3, <2>4 DEF GoesOn, Moves
    <3>2. CreateSecretExists
      BY <1>t, <2>4, <3>1, CallEvolution
    <3>3. pc = "createSecret" /\ Stored(SecretOf(cur)).key # 0 /\ UNCHANGED secret
      BY <3>2 DEF CreateSecretExists, kube
    <3>4. InSync(SecretOf(cur))
      BY <1>l, <3>3 DEF SecretSeen, LivePcs, MintPcs
    <3> QED BY <2>1, <2>4, <3>3, <3>4 DEF SecretOf
  <2>5. CASE pc' = "updateSecret" /\ ~secFresh'
    <3>1. pc' # pc
      BY <1>3, <2>5 DEF GoesOn, Moves
    <3>2. GetSecret
      BY <1>t, <2>5, <3>1, CallEvolution
    <3>3. pc = "getSecret" /\ secFresh' = InSync(SecretOf(cur))
      BY <2>5, <3>2 DEF GetSecret, CreationFailed, Report
    <3> QED BY <2>5, <3>3 DEF Doomed
  <2> QED BY <1>p, <2>2, <2>3, <2>4, <2>5
<1>4. CASE Outside
  <2>1. UNCHANGED <<pc, cur, minted>>
    BY <1>t, <1>4, OutsideStays
  <2>2. CASE pc' \in Holding /\ ~fresh'
    BY <1>4, <2>1, <2>2, OutsideCharged DEF Doomed
  <2>3. CASE pc' = "patch" /\ minted' # 0 /\ Stored(object'[cur']).keyID # minted'
    <3>1. cur \in Keys /\ pc = "patch"
      BY <1>t, <2>1, <2>3 DEF TypeOK
    <3>2. Stored(object'[cur]).keyID = Stored(object[cur]).keyID
      BY <1>t, <3>1, StoredKeeps
    <3> QED BY <2>1, <2>3, <3>1, <3>2 DEF Doomed, Pending
  <2>4. CASE /\ pc' = "getSecret"
             /\ ~(InSync(secret'[SecretName[cur']])
                    /\ Stored(secret'[SecretName[cur']]).key # 0)
    <3>1. /\ pc = "getSecret" /\ pc \in Holding
          /\ InSync(SecretOf(cur)) /\ Stored(SecretOf(cur)).key # 0
      BY <2>1, <2>4 DEF Doomed, Holding, LivePcs, MintPcs
    <3>2. Charged \/ secret'[SecretName[cur]] = SecretOf(cur)
      BY <1>4, <3>1, OutsideCharged DEF SecretOf, InSync, Lag
    <3> QED BY <2>1, <2>4, <3>1, <3>2
  <2>5. CASE pc' = "updateSecret" /\ ~secFresh'
    <3>1. pc = "updateSecret" /\ pc \in Holding /\ secFresh
      BY <2>1, <2>5 DEF Doomed, Holding, LivePcs, MintPcs
    <3> QED BY <1>4, <2>5, <3>1, OutsideCharged
  <2> QED BY <1>p, <2>2, <2>3, <2>4, <2>5
<1> QED BY <1>t, <1>1, <1>2, <1>3, <1>4, PassEvolution


\* A key is leaked when a pass that is lost, or fails, forgets it, or when the answer
\* to its creation is lost; no step leaks two.
LEMMA LeakedGrows ==
  ASSUME SecretInv, OwnershipInv, MintedLate, [Next]_vars, lag' = 0
  PROVE  \/ Leaked' \subseteq Leaked
         \/ /\ \E x : Leaked' \subseteq Leaked \cup {x}
            /\ ~Doomed'
            /\ Doomed \/ faults' = faults + 1
<1>t. FinalizerInv /\ TypeOK /\ TypeOK'
  BY TypeStep DEF SecretInv, FinalizerInv
<1>l. lag = 0
  BY <1>t, LagStays
<1>r. ASSUME NEW row \in Leaked'
      PROVE  /\ row \in db' /\ row.by \in Keys
             /\ row.id # Stored(object'[row.by]).keyID
             /\ ~(cur' = row.by /\ minted' = row.id)
  BY <1>t DEF Leaked, Stored, TypeOK, Row
<1>s. ServerEvolves
  BY ServerEvolution
<1>n. minted \in Nat /\ minted' \in Nat /\ nextId \in Nat \ {0}
  BY <1>t DEF TypeOK
\* A key that was there before is forgotten with the pass that minted it.
<1>f. ASSUME NEW row \in Leaked', row \in db, row \notin Leaked
      PROVE  /\ Ends /\ row = [id |-> minted, by |-> cur]
             /\ pc \in AfterMint \cup {"patch"} /\ Pending
  <2>1. /\ row.by \in Keys /\ row.id # Stored(object'[row.by]).keyID
        /\ ~(cur' = row.by /\ minted' = row.id)
        /\ row = [id |-> row.id, by |-> row.by] /\ row.id \in Nat /\ row.id > 0
    BY <1>t, <1>f, <1>r DEF TypeOK, Row, OwnershipInv, RowsIssued
  <2>2. Stored(object'[row.by]).keyID = Stored(object[row.by]).keyID
    <3> SUFFICES ASSUME Stored(object'[row.by]).keyID # Stored(object[row.by]).keyID,
                        row.id = Stored(object[row.by]).keyID
                 PROVE  FALSE
      <4>1. row.id # Stored(object[row.by]).keyID => cur = row.by /\ minted = row.id
        BY <1>f DEF Leaked
      <4>2. Stored(object'[row.by]).keyID # Stored(object[row.by]).keyID
              => Stored(object'[row.by]).keyID = minted
        BY <1>t, <2>1, StoredKeeps
      <4> QED BY <2>1, <4>1, <4>2
    <3>1. row.by = cur /\ pc = "recordKeyID"
      BY <1>t, <2>1, StoredKeeps
    <3>2. obj.keyID = 0 /\ obj.keyID = Stored(object[cur]).keyID
      BY <1>l, <3>1 DEF SecretInv, CopyTrue, FinalizerInv, WorkerInv, MintPcs
    <3> QED BY <2>1, <3>1, <3>2
  <2>3. cur = row.by /\ minted = row.id /\ minted # 0 /\ Pending
    BY <1>f, <2>1, <2>2 DEF Leaked, Pending
  <2>4. pc \in AfterMint \cup {"patch"}
    BY <2>3 DEF MintedLate
  <2>5. ASSUME NEW k \in Keys, Begins(k) PROVE FALSE
    BY <2>4, <2>5 DEF Begins, AfterMint
  <2>6. ~GoesOn
    BY <2>1, <2>3, <2>4 DEF GoesOn, Mint, AfterMint
  <2>7. ~Outside
    BY <1>t, <2>1, <2>3, OutsideStays
  <2> QED BY <1>t, <2>1, <2>3, <2>4, <2>5, <2>6, <2>7, PassEvolution
<1>1. CASE Insert /\ Mint
  <2>1. ASSUME NEW row \in Leaked' PROVE row \in Leaked
    <3>1. /\ pc = "mint" /\ pc' = "createSecret" /\ cur' = cur /\ minted' = nextId
          /\ db' = db \cup {[id |-> nextId, by |-> cur]}
      BY <1>1 DEF Mint, Insert, Goto
    <3>2. row \in db
      BY <1>r, <2>1, <3>1
    <3>3. ~Ends
      BY <3>1 DEF Ends
    <3> QED BY <1>f, <2>1, <3>2, <3>3
  <2> QED BY <2>1
<1>2. CASE Insert /\ MintFails
  <2>1. /\ pc = "mint" /\ pc' = "patch" /\ minted' = minted /\ faults' = faults + 1
        /\ db' = db \cup {[id |-> nextId, by |-> cur]}
    BY <1>2 DEF MintFails, Insert, CreationFailed, Report, Fault
  <2>2. minted = 0
    BY <2>1 DEF MintedLate, AfterMint
  <2>3. ~Doomed'
    BY <2>1, <2>2 DEF Doomed, Pending, Holding, LivePcs, MintPcs
  <2>4. ASSUME NEW row \in Leaked'
        PROVE  row \in Leaked \cup {[id |-> nextId, by |-> cur]}
    BY <1>r, <1>f, <2>1, <2>4 DEF Ends
  <2>5. Leaked' \subseteq Leaked \cup {[id |-> nextId, by |-> cur]}
    BY <2>4
  <2> QED BY <2>1, <2>3, <2>5
<1>3. CASE db' \subseteq db
  <2>1. CASE Leaked' \subseteq Leaked
    BY <2>1
  <2>2. CASE ~(Leaked' \subseteq Leaked)
    <3>1. PICK row \in Leaked' : row \notin Leaked
      BY <2>2
    <3>2. Ends /\ pc \in AfterMint \cup {"patch"} /\ Pending
      BY <1>3, <1>r, <1>f, <3>1
    <3>3. ASSUME NEW other \in Leaked'
          PROVE  other \in Leaked \cup {[id |-> minted, by |-> cur]}
      BY <1>3, <1>r, <1>f, <3>3
    <3>4. Leaked' \subseteq Leaked \cup {[id |-> minted, by |-> cur]}
      BY <3>3
    <3>5. ~Doomed'
      BY <3>2 DEF Ends, Doomed, Holding, LivePcs, MintPcs
    <3>6. Doomed \/ faults' = faults + 1
      <4>1. pc \in AfterMint => Fault
        BY <1>t, <3>2, CallEvolution DEF Ends, AfterMint, MintPcs
      <4> QED BY <3>2, <4>1 DEF Doomed, Fault
    <3> QED BY <3>4, <3>5, <3>6
  <2> QED BY <2>1, <2>2
<1>4. UNCHANGED server \/ (pc = "deleteKey" /\ Delete) => db' \subseteq db
  BY DEF server, Delete
<1> QED BY <1>s, <1>1, <1>2, <1>3, <1>4 DEF ServerEvolves


\* Each step keeps the books in order.
LEMMA LeakStep == LeakInv /\ [Next]_vars => LeakInv'
<1> SUFFICES ASSUME LeakInv, [Next]_vars PROVE LeakInv'
  OBVIOUS
<1>1. SecretInv' /\ OwnershipInv' /\ MintedLate' /\ SecretSeen'
  BY SecretStep, OwnershipStep, MintedLateStep, SecretSeenStep
     DEF LeakInv, SecretInv, FinalizerInv
<1>2. IsFiniteSet(db')
  <2>1. db' \subseteq db \cup {[id |-> nextId, by |-> cur]}
    BY ServerEvolution DEF ServerEvolves, server, Insert, Delete
  <2>2. IsFiniteSet(db \cup {[id |-> nextId, by |-> cur]})
    BY FS_AddElement DEF LeakInv
  <2> QED BY <2>1, <2>2, FS_Subset
<1>3. IsFiniteSet(Leaked) /\ IsFiniteSet(Leaked')
  <2>1. Leaked \in SUBSET db /\ Leaked' \in SUBSET db'
    BY DEF Leaked
  <2> QED BY <1>2, <2>1, FS_Subset DEF LeakInv
<1>4. LeaksPaid'
  <2> SUFFICES ASSUME lag' = 0
               PROVE  Cardinality(Leaked') + (IF Doomed' THEN 1 ELSE 0) <= Paid'
    BY DEF LeaksPaid
  <2>0. TypeOK
    BY DEF LeakInv, SecretInv, FinalizerInv
  <2>1. lag = 0
    BY <2>0, LagStays
  <2>2. Cardinality(Leaked) + (IF Doomed THEN 1 ELSE 0) <= Paid
    BY <2>1 DEF LeakInv, LeaksPaid
  <2>3. /\ Paid \in Int /\ Paid' \in Int /\ Paid <= Paid'
        /\ Charged => Paid + 1 <= Paid'
        /\ faults' = faults + 1 => Charged
    BY PaidGrows DEF LeakInv
  <2>4. Cardinality(Leaked) \in Nat /\ Cardinality(Leaked') \in Nat
    BY <1>3, FS_CardinalityType
  <2>5. CASE Leaked' \subseteq Leaked
    <3>1. Cardinality(Leaked') <= Cardinality(Leaked)
      BY <1>3, <2>5, FS_Subset
    <3>2. Doomed' /\ ~Doomed => Charged
      BY DoomedCharged DEF LeakInv
    <3> QED BY <2>2, <2>3, <2>4, <3>1, <3>2
  <2>6. CASE /\ \E x : Leaked' \subseteq Leaked \cup {x}
             /\ ~Doomed'
             /\ Doomed \/ faults' = faults + 1
    <3>1. PICK x : Leaked' \subseteq Leaked \cup {x}
      BY <2>6
    <3>2. /\ IsFiniteSet(Leaked \cup {x})
          /\ Cardinality(Leaked \cup {x}) \in {Cardinality(Leaked), Cardinality(Leaked) + 1}
      BY <1>3, FS_AddElement
    <3>3. Cardinality(Leaked') <= Cardinality(Leaked) + 1
      <4>1. Cardinality(Leaked') <= Cardinality(Leaked \cup {x})
        BY <3>1, <3>2, FS_Subset
      <4> QED BY <2>4, <3>2, <4>1
    <3> QED BY <2>2, <2>3, <2>4, <2>6, <3>3
  <2> QED BY <2>5, <2>6, LeakedGrows DEF LeakInv
<1> QED BY <1>1, <1>2, <1>4 DEF LeakInv

\* Nothing is minted, leaked or deleted at the start.
LEMMA InitLeak == Init => LeakInv
<1> SUFFICES ASSUME Init PROVE LeakInv
  OBVIOUS
<1>1. /\ db = {} /\ minted = 0 /\ pc = "idle" /\ faults = 0 /\ edits = 0
      /\ \A k \in Keys : Stored(object[k]) = Absent
  BY DEF Init, InitKeys, Stored
<1>2. Leaked = {} /\ Deleted = {} /\ Collected = {} /\ ~Doomed
  BY <1>1 DEF Leaked, Deleted, Collected, Doomed, Absent, Holding, LivePcs, MintPcs
<1>3. IsFiniteSet({}) /\ Cardinality({}) = 0
  BY FS_EmptySet
<1>4. LeaksPaid
  BY <1>1, <1>2, <1>3 DEF LeaksPaid, Paid
<1>5. MintedLate /\ SecretSeen
  BY <1>1 DEF MintedLate, SecretSeen, LivePcs, MintPcs
<1> QED BY <1>1, <1>3, <1>4, <1>5, InitSecret, InitOwnership DEF LeakInv

\* As long as the caches are in step, there are no more leaked keys than failures,
\* writes by third parties, deletions, and gone objects whose Secret was another
\* one's too: each ends at most one of the passes that have minted a key and not
\* recorded it, and a retry by itself leaks nothing (createPreAuthKey).
THEOREM LeaksSafe == Spec => []LeaksBounded
<1>1. LeakInv => LeaksBounded
  <2> SUFFICES ASSUME LeakInv, lag = 0
               PROVE  Cardinality(Leaked)
                        <= faults + edits + Cardinality(Deleted) + Cardinality(Bereaving)
    BY DEF LeaksBounded
  <2>1. Cardinality(Leaked) + (IF Doomed THEN 1 ELSE 0)
          <= faults + edits + Cardinality(Deleted) + Cardinality(Collected)
    BY DEF LeakInv, LeaksPaid, Paid
  <2>2. Cardinality(Collected) <= Cardinality(Bereaving)
    <3>1. Bereaving \in SUBSET Keys /\ Collected \in SUBSET Bereaving
      BY DEF Bereaving, Collected
    <3> QED BY <3>1, FS_Subset, KeysAssumption
  <2>3. /\ Cardinality(Leaked) \in Nat /\ Cardinality(Deleted) \in Nat
        /\ Cardinality(Collected) \in Nat /\ Cardinality(Bereaving) \in Nat
    <3>1. /\ Leaked \in SUBSET db /\ Deleted \in SUBSET Keys
          /\ Collected \in SUBSET Keys /\ Bereaving \in SUBSET Keys
      BY DEF Leaked, Deleted, Collected, Bereaving
    <3>2. IsFiniteSet(db)
      BY DEF LeakInv
    <3> QED BY <3>1, <3>2, FS_Subset, FS_CardinalityType, KeysAssumption
  <2>4. faults \in Nat /\ edits \in Nat
    BY DEF LeakInv, SecretInv, FinalizerInv, TypeOK
  <2> QED BY <2>1, <2>2, <2>3, <2>4
<1> QED BY <1>1, InitLeak, LeakStep, PTL DEF Spec
=============================================================================
