-------------------------- MODULE HeadscalePreAuthKey --------------------------
(***************************************************************************)
(* The HeadscalePreAuthKey reconciler, internal/controller/                *)
(* headscalepreauthkey_controller.go, one action per call that reads or    *)
(* changes something outside the reconciler's memory.                      *)
(*                                                                         *)
(* An object asks for one pre-auth key.  The reconciler mints the key in   *)
(* Headscale, writes it to a Secret and records its ID in the status, in   *)
(* this order and with nothing that makes the three steps one.  The object *)
(* and the Secret are both read from caches.                               *)
(*                                                                         *)
(* Simplifications: one Headscale object and one HeadscaleUser that the    *)
(* objects of ByRef refer to; specs are the ones the CRD's validation      *)
(* rules admit, so InvalidSpec cannot be reported; a key's expiry, tags    *)
(* and text are left out (a key is its ID).                                *)
(***************************************************************************)
EXTENDS KubeObject, FiniteSets

CONSTANTS
  Keys,        \* HeadscalePreAuthKey objects
  NoKey,       \* not an object
  ByRef,       \* those with spec.headscaleUserRef; the others name no user object
  Secrets,     \* names of Secrets
  SecretName,  \* spec.secretName (or the object's name) of each object
  Bounds       \* how many objects, failures, edits and changes by hand may meet,
               \* and how stale the copies are that the worker starts on

ASSUME KeysAssumption == IsFiniteSet(Keys)
ASSUME ByRefAssumption == ByRef \subseteq Keys /\ NoKey \notin Keys
ASSUME SecretNameAssumption == SecretName \in [Keys -> Secrets]
ASSUME BoundsAssumption ==
  Bounds \subseteq [objects : Nat, lag : Nat, faults : Nat, edits : Nat, admin : Nat]

VARIABLES
  object,     \* versions of each HeadscalePreAuthKey
  secret,     \* versions of each Secret
  hsUser,     \* the HeadscaleUser the cache shows: its state and its UID
  headscale,  \* whether the referenced Headscale object exists
  db,         \* pre-auth keys in the Headscale database
  nextId,     \* the next ID the database hands out
  queue,      \* objects in the work queue
  later,      \* objects that come back when their RequeueAfter has passed
  pc,         \* the call the worker is about to make
  cur,        \* the object it is processing
  obj,        \* its in-memory copy
  fresh,      \* that copy carries the latest resourceVersion
  minted,     \* the ID of the key it has just minted
  secFresh,   \* its copy of the Secret carries the latest resourceVersion
  cond,       \* the Ready condition it is about to write
  lag,        \* events the caches were behind by, at most, when a pass began
  faults,     \* failed calls and restarts so far
  edits,      \* writes to the objects by third parties so far
  admin       \* changes to Headscale and to the HeadscaleUser so far

kube == <<object, secret, hsUser, headscale>>
server == <<db, nextId>>
queues == <<queue, later>>
worker == <<pc, cur, obj, fresh, minted, secFresh, cond>>
budget == <<lag, faults, edits, admin>>
vars == <<object, secret, hsUser, headscale, db, nextId, queue, later, pc, cur,
          obj, fresh, minted, secFresh, cond, lag, faults, edits, admin>>

-----------------------------------------------------------------------------
(* Values.                                                                 *)

Lives == {"none", "live", "deleting", "gone"}

ReadyReasons == {"PreAuthKeyReady", "PreAuthKeyCreated"}
FailureReasons == {"HeadscaleNotFound", "UserNotFound", "UserNotReady",
                   "PreAuthKeyCreationFailed"}
Reasons == {"Unset"} \cup ReadyReasons \cup FailureReasons

\* status.keyId is 0 when it is the empty string; owner is the UID of the
\* HeadscaleUser the object has an owner reference to, 0 for none.
Object == [life : Lives, finalizer : BOOLEAN, owner : Nat, keyID : Nat,
           ready : Reasons]
Absent == [life |-> "none", finalizer |-> FALSE, owner |-> 0, keyID |-> 0,
           ready |-> "Unset"]

\* A Secret holds the key with this ID, 0 when there is no such Secret; its
\* controller reference names an object.
Secret == [key : Nat, owner : Keys \cup {NoKey}]
NoSecret == [key |-> 0, owner |-> NoKey]

HsUser == [state : {"absent", "pending", "ready"}, uid : Nat]

\* A row of the pre_auth_keys table; "by" is a ghost: who had it minted.
Row == [id : Nat, by : Keys]

MintPcs == {"mint", "createSecret", "getSecret", "updateSecret", "recordKeyID"}
LivePcs == {"addFinalizer", "getHeadscale", "getUser", "addOwner"} \cup MintPcs
DeletionPcs == {"finalize", "deleteKey", "deleteSecret", "removeFinalizer"}
Pcs == {"idle", "patch"} \cup LivePcs \cup DeletionPcs

Exists(o) == o.life \in {"live", "deleting"}
SecretOf(k) == secret[SecretName[k]]

TypeOK ==
  /\ object \in [Keys -> History(Object)]
  /\ secret \in [Secrets -> History(Secret)]
  /\ hsUser \in HsUser
  /\ headscale \in BOOLEAN
  /\ db \subseteq Row
  /\ nextId \in Nat \ {0}
  /\ queue \subseteq Keys /\ later \subseteq Keys
  /\ pc \in Pcs
  /\ cur \in Keys \cup {NoKey}
  /\ obj \in Object
  /\ fresh \in BOOLEAN /\ secFresh \in BOOLEAN
  /\ minted \in Nat
  /\ cond \in Reasons
  /\ lag \in Nat /\ faults \in Nat /\ edits \in Nat /\ admin \in Nat
  /\ pc # "idle" => cur \in Keys

InitKeys ==
  /\ object = [k \in Keys |-> <<Absent>>]
  /\ secret = [s \in Secrets |-> <<NoSecret>>]
  /\ headscale = TRUE
  /\ db = {} /\ nextId = 1
  /\ queue = {} /\ later = {}
  /\ pc = "idle" /\ cur = NoKey /\ obj = Absent /\ fresh = FALSE
  /\ minted = 0 /\ secFresh = FALSE /\ cond = "Unset"
  /\ lag = 0 /\ faults = 0 /\ edits = 0 /\ admin = 0

Init == InitKeys /\ hsUser = [state |-> "ready", uid |-> 1]

-----------------------------------------------------------------------------
(* Steps the actions are built from.                                       *)

\* Reconcile returns: with nothing, with an error (rate-limited retry), or
\* with RequeueAfter.
Forget == /\ pc' = "idle" /\ cur' = NoKey /\ obj' = Absent /\ fresh' = FALSE
          /\ minted' = 0 /\ secFresh' = FALSE /\ cond' = "Unset"
Finish == Forget /\ UNCHANGED queues

\* A slip: the key is forgotten before it is put back.
RetryErrorForgotten == Forget /\ queue' = queue \cup {cur'} /\ UNCHANGED later

RetryError == Forget /\ queue' = queue \cup {cur} /\ UNCHANGED later
RequeueAfter == Forget /\ later' = later \cup {cur} /\ UNCHANGED queue

Goto(label) == pc' = label /\ UNCHANGED <<cur, fresh, cond, queues>>
Report(reason) == /\ pc' = "patch" /\ cond' = reason
                  /\ UNCHANGED <<cur, obj, fresh, minted, secFresh, queues>>

Within(o, l, f, e, a) ==
  \E b \in Bounds : /\ o <= b.objects /\ l <= b.lag
                    /\ f <= b.faults /\ e <= b.edits /\ a <= b.admin

\* The objects created so far.
Created == Cardinality({k \in Keys : Stored(object[k]).life # "none"})

Fault == /\ Within(Created, lag, faults + 1, edits, admin)
         /\ faults' = faults + 1 /\ UNCHANGED lag

Store(k, o) == object' = [object EXCEPT ![k] = Written(@, o)]
StoreSecret(s, v) == secret' = [secret EXCEPT ![s] = Written(@, v)]

UpdateAccepted(o) == fresh /\ Store(cur, o)

\* A conflict, a refused call, or one that took effect and whose answer was
\* lost.
UpdateFailed(o) ==
  \/ ~fresh /\ UNCHANGED <<object, lag, faults>>
  \/ fresh /\ Fault /\ (UNCHANGED object \/ Store(cur, o))

WithFinalizer(o) == [o EXCEPT !.finalizer = TRUE]
WithReady(o, reason) == [o EXCEPT !.ready = reason]
WithKeyID(o, id) == [o EXCEPT !.keyID = id]
Removed(o) == [o EXCEPT !.life = "gone", !.finalizer = FALSE]

-----------------------------------------------------------------------------
(* The reconciler: up to the decision to mint.                             *)

\* A slip: no ensureFinalizer.
FirstCallUnprotected(o) ==
  IF o.life = "deleting" THEN IF o.finalizer THEN "finalize" ELSE "idle"
  ELSE "getHeadscale"

FirstCall(o) ==
  IF o.life = "deleting" THEN IF o.finalizer THEN "finalize" ELSE "idle"
  ELSE IF o.finalizer THEN "getHeadscale" ELSE "addFinalizer"

Most(numbers) == CHOOSE n \in numbers : \A i \in numbers : i <= n

Reconcile(k) ==
  /\ pc = "idle" /\ k \in queue
  /\ lag' = Most({lag, Lag(object[k]), Lag(SecretOf(k))})
  /\ Within(Created, lag', faults, edits, admin)
  /\ queue' = queue \ {k}
  /\ LET o == Observed(object[k]) IN
     IF Exists(o) /\ FirstCall(o) # "idle"
     THEN /\ pc' = FirstCall(o) /\ cur' = k /\ obj' = o
          /\ fresh' = InSync(object[k]) /\ UNCHANGED <<minted, secFresh, cond>>
     ELSE UNCHANGED worker
  /\ UNCHANGED <<kube, server, later, faults, edits, admin>>

AddFinalizer ==
  /\ pc = "addFinalizer"
  /\ UpdateAccepted(WithFinalizer(obj))
  /\ obj' = WithFinalizer(obj)
  /\ Goto("getHeadscale")
  /\ UNCHANGED <<secret, hsUser, headscale, server, minted, secFresh, budget>>

AddFinalizerFails ==
  /\ pc = "addFinalizer"
  /\ UpdateFailed(WithFinalizer(obj))
  /\ RetryError
  /\ UNCHANGED <<secret, hsUser, headscale, server, edits, admin>>

\* With the user resolved: a recorded key is never looked at again.
AfterResolve ==
  IF obj.keyID # 0 THEN Report("PreAuthKeyReady")
  ELSE Goto("mint") /\ UNCHANGED <<obj, minted, secFresh>>

GetHeadscale ==
  /\ pc = "getHeadscale"
  /\ IF ~headscale THEN Report("HeadscaleNotFound")
     ELSE IF cur \in ByRef THEN Goto("getUser") /\ UNCHANGED <<obj, minted, secFresh>>
     ELSE AfterResolve
  /\ UNCHANGED <<kube, server, budget>>

\* Any other error of the reads of Headscale and HeadscaleUser is returned.
GetFails ==
  /\ pc \in {"getHeadscale", "getUser", "finalize"}
  /\ Fault
  /\ RetryError
  /\ UNCHANGED <<kube, server, edits, admin>>

\* resolveUserID; the missing owner reference is set in memory first.
GetUser ==
  /\ pc = "getUser"
  /\ CASE hsUser.state = "absent" -> Report("UserNotFound")
       [] hsUser.state = "pending" -> Report("UserNotReady")
       [] hsUser.state = "ready" /\ obj.owner = hsUser.uid -> AfterResolve
       [] OTHER -> /\ obj' = [obj EXCEPT !.owner = hsUser.uid]
                   /\ Goto("addOwner") /\ UNCHANGED <<minted, secFresh>>
  /\ UNCHANGED <<kube, server, budget>>

\* ensureHeadscaleUserOwnerReference.
AddOwner ==
  /\ pc = "addOwner"
  /\ UpdateAccepted(obj)
  /\ AfterResolve
  /\ UNCHANGED <<secret, hsUser, headscale, server, budget>>

AddOwnerFails ==
  /\ pc = "addOwner"
  /\ UpdateFailed(obj)
  /\ RetryError
  /\ UNCHANGED <<secret, hsUser, headscale, server, edits, admin>>

-----------------------------------------------------------------------------
(* The reconciler: createPreAuthKey.                                       *)

\* Every error of createPreAuthKey is reported the same way, whatever had
\* been done before it.
CreationFailed == Report("PreAuthKeyCreationFailed")

Insert == db' = db \cup {[id |-> nextId, by |-> cur]} /\ nextId' = nextId + 1

Mint ==
  /\ pc = "mint"
  /\ Insert
  /\ minted' = nextId
  /\ Goto("createSecret")
  /\ UNCHANGED <<kube, obj, secFresh, budget>>

MintFails ==
  /\ pc = "mint"
  /\ Fault
  /\ Insert \/ UNCHANGED server
  /\ CreationFailed
  /\ UNCHANGED <<kube, edits, admin>>

\* A slip: no SetControllerReference.
NewSecretOrphan == [key |-> minted, owner |-> NoKey]

\* The new Secret and its controller reference.
NewSecret == [key |-> minted, owner |-> cur]

CreateSecret ==
  /\ pc = "createSecret"
  /\ Stored(SecretOf(cur)).key = 0
  /\ StoreSecret(SecretName[cur], NewSecret)
  /\ Goto("recordKeyID")
  /\ UNCHANGED <<object, hsUser, headscale, server, obj, minted, secFresh, budget>>

\* A slip: AlreadyExists counts as success.
AfterAlreadyExistsDone == Goto("recordKeyID") /\ UNCHANGED <<obj, minted, secFresh>>

\* A slip: AlreadyExists counts as failure.
AfterAlreadyExistsFailed == CreationFailed

\* AlreadyExists: the Secret that is there will be overwritten, whoever owns it.
AfterAlreadyExists == Goto("getSecret") /\ UNCHANGED <<obj, minted, secFresh>>

CreateSecretExists ==
  /\ pc = "createSecret"
  /\ Stored(SecretOf(cur)).key # 0
  /\ AfterAlreadyExists
  /\ UNCHANGED <<kube, server, budget>>

CreateSecretFails ==
  /\ pc = "createSecret"
  /\ Fault
  /\ \/ UNCHANGED secret
     \/ /\ Stored(SecretOf(cur)).key = 0
        /\ StoreSecret(SecretName[cur], NewSecret)
  /\ CreationFailed
  /\ UNCHANGED <<object, hsUser, headscale, server, edits, admin>>

\* Through the cache, which may not know the Secret yet.
GetSecret ==
  /\ pc = "getSecret"
  /\ IF Observed(SecretOf(cur)).key = 0
     THEN CreationFailed
     ELSE /\ secFresh' = InSync(SecretOf(cur))
          /\ Goto("updateSecret") /\ UNCHANGED <<obj, minted>>
  /\ UNCHANGED <<kube, server, budget>>

UpdateSecret ==
  /\ pc = "updateSecret" /\ secFresh
  /\ StoreSecret(SecretName[cur], [Stored(SecretOf(cur)) EXCEPT !.key = minted])
  /\ Goto("recordKeyID")
  /\ UNCHANGED <<object, hsUser, headscale, server, obj, minted, secFresh, budget>>

UpdateSecretFails ==
  /\ pc = "updateSecret"
  /\ \/ ~secFresh /\ UNCHANGED <<secret, lag, faults>>
     \/ secFresh /\ Fault /\ UNCHANGED secret
     \/ /\ secFresh /\ Fault
        /\ StoreSecret(SecretName[cur], [Stored(SecretOf(cur)) EXCEPT !.key = minted])
  /\ CreationFailed
  /\ UNCHANGED <<object, hsUser, headscale, server, edits, admin>>

RecordKeyID ==
  /\ pc = "recordKeyID"
  /\ UpdateAccepted(WithKeyID(obj, minted))
  /\ Report("PreAuthKeyCreated")
  /\ UNCHANGED <<secret, hsUser, headscale, server, budget>>

\* A slip: the key is taken back although the update may have succeeded.
RecordKeyIDFailsUndone ==
  /\ pc = "recordKeyID"
  /\ UpdateFailed(WithKeyID(obj, minted))
  /\ CreationFailed
  /\ db' = {row \in db : row.id # minted}
  /\ UNCHANGED <<secret, hsUser, headscale, nextId, edits, admin>>

\* The key is minted and in the Secret, and nothing remembers its ID.
RecordKeyIDFails ==
  /\ pc = "recordKeyID"
  /\ UpdateFailed(WithKeyID(obj, minted))
  /\ CreationFailed
  /\ UNCHANGED <<secret, hsUser, headscale, server, edits, admin>>

-----------------------------------------------------------------------------
(* The reconciler: updateStatusCondition and what Reconcile returns.       *)

\* A slip: a condition that is there is never replaced.
NeedsPatchOnce == obj.ready = "Unset"

NeedsPatch == obj.ready # cond
AfterReport == IF cond \in FailureReasons THEN RequeueAfter ELSE Finish

PatchCondition ==
  /\ pc = "patch"
  /\ IF NeedsPatch
     THEN /\ Exists(Stored(object[cur]))
          /\ Store(cur, WithReady(Stored(object[cur]), cond))
     ELSE UNCHANGED object
  /\ AfterReport
  /\ UNCHANGED <<secret, hsUser, headscale, server, budget>>

PatchConditionFails ==
  /\ pc = "patch" /\ NeedsPatch
  /\ \/ ~Exists(Stored(object[cur])) /\ UNCHANGED <<object, lag, faults>>
     \/ Fault /\ UNCHANGED object
     \/ /\ Fault /\ Exists(Stored(object[cur]))
        /\ Store(cur, WithReady(Stored(object[cur]), cond))
  /\ RetryError
  /\ UNCHANGED <<secret, hsUser, headscale, server, edits, admin>>

-----------------------------------------------------------------------------
(* The reconciler: handleDeletion.                                         *)

Continue(label) == Goto(label) /\ UNCHANGED <<obj, minted, secFresh>>

\* Without a Headscale object the finalizer goes at once.
Finalize ==
  /\ pc = "finalize"
  /\ Continue(IF ~headscale THEN "removeFinalizer"
              ELSE IF obj.keyID # 0 THEN "deleteKey" ELSE "deleteSecret")
  /\ UNCHANGED <<kube, server, budget>>

\* A slip: the keys of the object's user instead of its own key.
MatchesUser(row) == TRUE

Matches(row) == row.id = obj.keyID
Delete == db' = {row \in db : ~Matches(row)} /\ UNCHANGED nextId

DeleteKey ==
  /\ pc = "deleteKey"
  /\ \E row \in db : Matches(row)
  /\ Delete
  /\ Continue("deleteSecret")
  /\ UNCHANGED <<kube, budget>>

\* A slip: NotFound is an error like any other.
AfterNotFoundRetry == RetryError

\* isPreAuthKeyNotFoundError: gone already, carry on.
AfterNotFound == Continue("deleteSecret")

DeleteKeyNotFound ==
  /\ pc = "deleteKey"
  /\ \A row \in db : ~Matches(row)
  /\ AfterNotFound
  /\ UNCHANGED <<kube, server, budget>>

\* Any other error, a missing API key included, keeps the finalizer.
DeleteKeyFails ==
  /\ pc = "deleteKey"
  /\ Fault
  /\ Delete \/ UNCHANGED server
  /\ RetryError
  /\ UNCHANGED <<kube, edits, admin>>

\* By name, whoever owns it; an error is logged.
DeleteSecret ==
  /\ pc = "deleteSecret"
  /\ IF Stored(SecretOf(cur)).key # 0
     THEN StoreSecret(SecretName[cur], NoSecret) ELSE UNCHANGED secret
  /\ Continue("removeFinalizer")
  /\ UNCHANGED <<object, hsUser, headscale, server, budget>>

DeleteSecretFails ==
  /\ pc = "deleteSecret"
  /\ Fault
  /\ Continue("removeFinalizer")
  /\ UNCHANGED <<kube, server, edits, admin>>

RemoveFinalizer ==
  /\ pc = "removeFinalizer"
  /\ UpdateAccepted(Removed(obj))
  /\ Finish
  /\ UNCHANGED <<secret, hsUser, headscale, server, budget>>

RemoveFinalizerFails ==
  /\ pc = "removeFinalizer"
  /\ UpdateFailed(Removed(obj))
  /\ RetryError
  /\ UNCHANGED <<secret, hsUser, headscale, server, edits, admin>>

Step ==
  \/ AddFinalizer \/ AddFinalizerFails \/ GetHeadscale \/ GetFails
  \/ GetUser \/ AddOwner \/ AddOwnerFails
  \/ Mint \/ MintFails
  \/ CreateSecret \/ CreateSecretExists \/ CreateSecretFails
  \/ GetSecret \/ UpdateSecret \/ UpdateSecretFails
  \/ RecordKeyID \/ RecordKeyIDFails
  \/ PatchCondition \/ PatchConditionFails
  \/ Finalize \/ DeleteKey \/ DeleteKeyNotFound \/ DeleteKeyFails
  \/ DeleteSecret \/ DeleteSecretFails \/ RemoveFinalizer \/ RemoveFinalizerFails

-----------------------------------------------------------------------------
(* The surroundings.                                                       *)

Outdate(k) == fresh' = (fresh /\ cur # k)

CreateObject(k) ==
  /\ Stored(object[k]).life = "none"
  /\ Within(Created + 1, lag, faults, edits, admin)
  /\ Store(k, [Absent EXCEPT !.life = "live"])
  /\ UNCHANGED <<secret, hsUser, headscale, server, queues, worker, budget>>

EditObject(k) ==
  /\ Within(Created, lag, faults, edits + 1, admin) /\ edits' = edits + 1
  /\ Exists(Stored(object[k]))
  /\ Store(k, Stored(object[k]))
  /\ Outdate(k)
  /\ UNCHANGED <<secret, hsUser, headscale, server, queues, pc, cur, obj, minted,
                 secFresh, cond, lag, faults, admin>>

\* By a user, or by the garbage collector after the owning HeadscaleUser.
DeleteObject(k) ==
  /\ Stored(object[k]).life = "live"
  /\ Store(k, IF Stored(object[k]).finalizer
              THEN [Stored(object[k]) EXCEPT !.life = "deleting"]
              ELSE Removed(Stored(object[k])))
  /\ Outdate(k)
  /\ UNCHANGED <<secret, hsUser, headscale, server, queues, pc, cur, obj, minted,
                 secFresh, cond, budget>>

\* The garbage collector removes a Secret whose controller is gone.
CollectSecret(s) ==
  LET v == Stored(secret[s]) IN
  /\ v.key # 0 /\ v.owner # NoKey /\ Stored(object[v.owner]).life = "gone"
  /\ StoreSecret(s, NoSecret)
  /\ secFresh' = (secFresh /\ SecretName[cur] # s)
  /\ UNCHANGED <<object, hsUser, headscale, server, queues, pc, cur, obj, fresh,
                 minted, cond, budget>>

Deliver(k) ==
  /\ Lag(object[k]) > 0
  /\ object' = [object EXCEPT ![k] = Delivered(@)]
  /\ queue' = queue \cup {k}
  /\ UNCHANGED <<secret, hsUser, headscale, server, later, worker, budget>>

\* Secrets are cached for reading; they are not watched by this controller.
DeliverSecret(s) ==
  /\ Lag(secret[s]) > 0
  /\ secret' = [secret EXCEPT ![s] = Delivered(@)]
  /\ UNCHANGED <<object, hsUser, headscale, server, queues, worker, budget>>

\* The delays of RequeueAfter (10 s, 30 s) and of the resync (hours) are long
\* for a watch event: the caches have caught up when they end.
CaughtUp(k) == InSync(object[k]) /\ InSync(SecretOf(k))

Timer(k) ==
  /\ k \in later /\ CaughtUp(k)
  /\ later' = later \ {k} /\ queue' = queue \cup {k}
  /\ UNCHANGED <<kube, server, worker, budget>>

Resync(k) ==
  /\ Exists(Observed(object[k])) /\ CaughtUp(k) /\ k \notin queue
  /\ queue' = queue \cup {k}
  /\ UNCHANGED <<kube, server, later, worker, budget>>

Restart ==
  /\ Fault
  /\ object' = [k \in Keys |-> Relisted(object[k])]
  /\ secret' = [s \in Secrets |-> Relisted(secret[s])]
  /\ queue' = {k \in Keys : Exists(Stored(object[k]))} /\ later' = {}
  /\ Forget
  /\ UNCHANGED <<headscale, server, edits, admin>>

Crash == Restart /\ UNCHANGED hsUser

AdminStep ==
  Within(Created, lag, faults, edits, admin + 1) /\ admin' = admin + 1

ToggleHeadscale ==
  /\ AdminStep
  /\ headscale' = ~headscale
  /\ UNCHANGED <<object, secret, hsUser, server, queues, worker, lag, faults, edits>>

\* The HeadscaleUser loses or regains its ID, is deleted, or is created anew.
ChangeUser(state) ==
  /\ AdminStep
  /\ hsUser.state # state /\ (hsUser.state = "absent" => state = "pending")
  /\ hsUser' = [state |-> state,
                uid |-> IF hsUser.state = "absent" THEN hsUser.uid + 1 ELSE hsUser.uid]
  /\ UNCHANGED <<object, secret, headscale, server, queues, worker, lag, faults, edits>>

AdminDeleteKey(row) ==
  /\ AdminStep
  /\ db' = db \ {row}
  /\ UNCHANGED <<kube, nextId, queues, worker, lag, faults, edits>>

Environment ==
  \/ \E k \in Keys : CreateObject(k) \/ EditObject(k) \/ DeleteObject(k)
  \/ ToggleHeadscale
  \/ \E state \in {"absent", "pending", "ready"} : ChangeUser(state)
  \/ \E row \in db : AdminDeleteKey(row)

Next ==
  \/ \E k \in Keys : Reconcile(k) \/ Deliver(k) \/ Timer(k) \/ Resync(k)
  \/ \E s \in Secrets : DeliverSecret(s) \/ CollectSecret(s)
  \/ Step
  \/ Crash
  \/ Environment

\* A watch event arrives, or the garbage collector does its work.
Arrive == \/ \E k \in Keys : Deliver(k)
          \/ \E s \in Secrets : DeliverSecret(s) \/ CollectSecret(s)

\* As for HeadscaleUser; delays end.
Fairness ==
  /\ WF_vars(Step)
  /\ WF_vars(Arrive)
  /\ \A k \in Keys : SF_vars(Reconcile(k)) /\ WF_vars(Timer(k) \/ Resync(k))

Spec == Init /\ [][Next]_vars /\ Fairness

-----------------------------------------------------------------------------
(* Safety.                                                                 *)

\* While a key is being minted, stored and recorded, the stored object holds
\* the finalizer: a deletion at that moment still passes through
\* handleDeletion (ensureFinalizer before createPreAuthKey).
FinalizerBeforeMint == pc \in MintPcs => Stored(object[cur]).finalizer

\* The deletion of an object removes from Headscale no key but its own
\* (deletePreAuthKey by status.keyId).
DeletesOnlyOwnKey ==
  [][\A row \in db : pc = "deleteKey" /\ row \notin db' /\ admin' = admin
       => row.by = cur]_vars

\* The key a live object records is the key its Secret holds, after every
\* conflict, failure and restart: the Secret is written before the status.
\* (As long as the caches are in step and the Secret is the object's alone; see
\* ReadyKeyInSecret.)
Shared(k) ==
  \E j \in Keys \ {k} : /\ SecretName[j] = SecretName[k]
                        /\ Stored(object[j]).life # "none"

RecordedKeyInSecret ==
  lag = 0 =>
  \A k \in Keys :
    LET o == Stored(object[k]) IN
    o.life = "live" /\ o.keyID # 0 /\ ~Shared(k)
      => Stored(SecretOf(k)).key = o.keyID

\* Keys that work in Headscale and that no object will ever delete.
Leaked ==
  {row \in db : /\ row.id # Stored(object[row.by]).keyID
                /\ ~(cur = row.by /\ minted = row.id)}

Deleted == {k \in Keys : Stored(object[k]).life \in {"deleting", "gone"}}

\* Objects that are gone and whose Secret is also another one's: it may be
\* collected while the worker is about to write to it for that other object.
Bereaving == {k \in Keys : Stored(object[k]).life = "gone" /\ Shared(k)}

\* Every leaked key is paid for by a failure, a concurrent write, a deletion that
\* met the worker between Mint and RecordKeyID, or a shared Secret that was
\* collected in between: retries alone leak none.
\* (As long as the caches are in step.)
LeaksBounded ==
  lag = 0 =>
  Cardinality(Leaked)
    <= faults + edits + Cardinality(Deleted) + Cardinality(Bereaving)

-----------------------------------------------------------------------------
(* Liveness.                                                               *)

\* Failures delay the removal of an object, a key that is already gone from
\* Headscale does not; and the Secret does not outlive its object, also where
\* handleDeletion skips deleteSecret (no Headscale) or gives up on it: the
\* controller reference is the second line.
DeletionCompletes ==
  <>[](\A k \in Keys :
         /\ Stored(object[k]).life # "deleting"
         /\ Stored(object[k]).life = "gone" /\ ~Shared(k)
              => Stored(SecretOf(k)).key = 0)

\* When changes and failures stop, an object is Ready just when Headscale is
\* there and its user has an ID, or it needs none.
UserResolves(k) == k \in ByRef => hsUser.state = "ready"

StatusConverges ==
  <>[](\A k \in Keys :
         Stored(object[k]).life = "live"
           => (Stored(object[k]).ready \in ReadyReasons
                 <=> headscale /\ UserResolves(k)))

-----------------------------------------------------------------------------
(* A claim of the repository that the code does not keep.                  *)

\* The Secret of a Ready object that nobody is working on holds the key it
\* records (README.md: "The generated preauth key is stored in a Kubernetes
\* Secret").
AtRest(k) == cur # k /\ k \notin queue /\ InSync(object[k])

ReadyKeyInSecret ==
  \A k \in Keys :
    LET o == Stored(object[k]) IN
    AtRest(k) /\ o.life = "live" /\ o.ready \in ReadyReasons
      => Stored(SecretOf(k)).key = o.keyID
=============================================================================
