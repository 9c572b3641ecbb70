---------------------------- MODULE HeadscaleUser ----------------------------
(***************************************************************************)
(* The HeadscaleUser reconciler, internal/controller/                      *)
(* headscaleuser_controller.go, one action per call that reads or changes  *)
(* something outside the reconciler's memory.                              *)
(*                                                                         *)
(* A HeadscaleUser object asks for one user in the database of a Headscale *)
(* server.  The reconciler records the user's ID in the object's status and*)
(* holds a finalizer so that the user is removed before the object is.     *)
(* One worker processes a de-duplicated queue of keys.  It works on a copy *)
(* read from the informer cache; Update and Status().Update are refused    *)
(* when that copy is not the latest version, Status().Patch is not.        *)
(*                                                                         *)
(* Simplifications: one Headscale object and its database; a key lives     *)
(* once (a recreated object is a second key with the same username); the   *)
(* Ready condition is its reason; requeues after a delay are requeues.     *)
(***************************************************************************)
EXTENDS KubeObject, FiniteSets

CONSTANTS
  Users,      \* keys of HeadscaleUser objects
  NoUser,     \* not a key
  Names,      \* usernames
  Username,   \* spec.username of each key, immutable (headscaleuser_types.go)
  MaxLag,     \* the worker starts only on an object at most this stale
  Bounds      \* how many objects, failures, edits and changes by hand may meet

ASSUME UsernameAssumption == Username \in [Users -> Names]
ASSUME NoUserAssumption == NoUser \notin Users
ASSUME BoundsAssumption ==
  /\ MaxLag \in Nat
  /\ Bounds \subseteq [objects : Nat, faults : Nat, edits : Nat, admin : Nat]

VARIABLES
  user,       \* versions of each HeadscaleUser object
  headscale,  \* whether the referenced Headscale object exists
  db,         \* users in the Headscale database, by name
  nextId,     \* the next ID the database hands out
  queue,      \* keys in the work queue
  pc,         \* the call the worker is about to make
  cur,        \* the key it is processing
  obj,        \* its in-memory copy of the object
  fresh,      \* that copy carries the latest resourceVersion
  cond,       \* the Ready condition it is about to write
  faults,     \* failed calls and restarts so far
  edits,      \* writes to the objects by third parties so far
  admin       \* changes made to Headscale behind the operator's back so far

kube == <<user, headscale>>
server == <<db, nextId>>
worker == <<pc, cur, obj, fresh, cond>>
budget == <<faults, edits, admin>>
vars == <<user, headscale, db, nextId, queue, pc, cur, obj, fresh, cond,
          faults, edits, admin>>

-----------------------------------------------------------------------------
(* Values.                                                                 *)

Lives == {"none", "live", "deleting", "gone"}

ReadyReasons == {"UserReady", "UserCreated"}
FailureReasons == {"HeadscaleNotFound", "UserVerificationFailed", "UserCreationFailed"}
Reasons == {"Unset"} \cup ReadyReasons \cup FailureReasons

\* status.userId is 0 when it is the empty string.
Object == [life : Lives, finalizer : BOOLEAN, userID : Nat, ready : Reasons]

Absent == [life |-> "none", finalizer |-> FALSE, userID |-> 0, ready |-> "Unset"]

\* A row of the users table; "by" is a ghost: the key that had it created.
Row == [id : Nat, by : Users \cup {NoUser}]
NoRow == [id |-> 0, by |-> NoUser]

LivePcs == {"addFinalizer", "getHeadscale", "verify", "clearUserID", "create",
            "recordUserID"}
DeletionPcs == {"finalize", "deleteUser", "removeFinalizer"}
Pcs == {"idle", "patch"} \cup LivePcs \cup DeletionPcs

\* The object is there, for the API server or for the cache.
Exists(o) == o.life \in {"live", "deleting"}

TypeOK ==
  /\ user \in [Users -> History(Object)]
  /\ headscale \in BOOLEAN
  /\ db \in [Names -> Row]
  /\ nextId \in Nat \ {0}
  /\ queue \subseteq Users
  /\ pc \in Pcs
  /\ cur \in Users \cup {NoUser}
  /\ obj \in Object
  /\ fresh \in BOOLEAN
  /\ cond \in Reasons
  /\ faults \in Nat /\ edits \in Nat /\ admin \in Nat
  /\ pc # "idle" => cur \in Users

Init ==
  /\ user = [u \in Users |-> <<Absent>>]
  /\ headscale = TRUE
  /\ db = [n \in Names |-> NoRow]
  /\ nextId = 1
  /\ queue = {}
  /\ pc = "idle" /\ cur = NoUser /\ obj = Absent /\ fresh = FALSE /\ cond = "Unset"
  /\ faults = 0 /\ edits = 0 /\ admin = 0

-----------------------------------------------------------------------------
(* Steps the actions are built from.                                       *)

\* Reconcile returns; the queue keeps the key when it asked for a requeue or
\* returned an error.
Forget == /\ pc' = "idle" /\ cur' = NoUser /\ obj' = Absent
          /\ fresh' = FALSE /\ cond' = "Unset"
Finish == Forget /\ UNCHANGED queue

\* A slip: the key is forgotten before it is put back.
RequeueForgotten == Forget /\ queue' = queue \cup {cur'}

Requeue == Forget /\ queue' = queue \cup {cur}

Goto(label) == pc' = label /\ UNCHANGED <<cur, fresh, cond, queue>>

\* Reconcile goes on to updateStatusCondition with this reason.
Report(reason) == /\ pc' = "patch" /\ cond' = reason
                  /\ UNCHANGED <<cur, fresh, queue>>

Within(o, f, e, a) ==
  \E b \in Bounds : o <= b.objects /\ f <= b.faults /\ e <= b.edits /\ a <= b.admin

\* The objects created so far.
Created == Cardinality({u \in Users : Stored(user[u]).life # "none"})

Fault == Within(Created, faults + 1, edits, admin) /\ faults' = faults + 1

Store(u, o) == user' = [user EXCEPT ![u] = Written(@, o)]

\* An Update (of the object or of its status) of the in-memory copy that the
\* API server accepts.
UpdateAccepted(o) == fresh /\ Store(cur, o)

\* An Update that returns an error: a conflict, a refused call, or a call
\* that took effect and whose answer was lost.
UpdateFailed(o) ==
  \/ ~fresh /\ UNCHANGED <<user, faults>>
  \/ fresh /\ Fault /\ UNCHANGED user
  \/ fresh /\ Fault /\ Store(cur, o)

\* The values the reconciler writes.
WithFinalizer(o) == [o EXCEPT !.finalizer = TRUE]

\* A slip: the new ID is not assigned.
WithoutUserID(o, id) == o

WithUserID(o, id) == [o EXCEPT !.userID = id]
WithReady(o, reason) == [o EXCEPT !.ready = reason]
Removed(o) == [o EXCEPT !.life = "gone", !.finalizer = FALSE]

-----------------------------------------------------------------------------
(* The reconciler.                                                         *)

\* A slip: no ensureFinalizer.
FirstCallUnprotected(o) ==
  IF o.life = "deleting" THEN IF o.finalizer THEN "finalize" ELSE "idle"
  ELSE "getHeadscale"

\* Where Reconcile goes with the object it read.
FirstCall(o) ==
  IF o.life = "deleting" THEN IF o.finalizer THEN "finalize" ELSE "idle"
  ELSE IF o.finalizer THEN "getHeadscale" ELSE "addFinalizer"

\* Reconcile starts: the key leaves the queue, the object is read from the
\* cache.  Not found, or nothing to do: it returns at once.
Reconcile(u) ==
  /\ pc = "idle" /\ u \in queue /\ Lag(user[u]) <= MaxLag
  /\ queue' = queue \ {u}
  /\ LET o == Observed(user[u]) IN
     IF Exists(o) /\ FirstCall(o) # "idle"
     THEN /\ pc' = FirstCall(o) /\ cur' = u /\ obj' = o
          /\ fresh' = InSync(user[u]) /\ UNCHANGED cond
     ELSE UNCHANGED worker
  /\ UNCHANGED <<kube, server, budget>>

\* ensureFinalizer.
AddFinalizer ==
  /\ pc = "addFinalizer"
  /\ UpdateAccepted(WithFinalizer(obj))
  /\ obj' = WithFinalizer(obj)
  /\ Goto("getHeadscale")
  /\ UNCHANGED <<headscale, server, budget>>

AddFinalizerFails ==
  /\ pc = "addFinalizer"
  /\ UpdateFailed(WithFinalizer(obj))
  /\ Requeue
  /\ UNCHANGED <<headscale, server, edits, admin>>

\* r.Get of the Headscale object, then the branch on status.userId.
AfterGetHeadscale == IF obj.userID # 0 THEN "verify" ELSE "create"

GetHeadscale ==
  /\ pc = "getHeadscale"
  /\ IF headscale THEN Goto(AfterGetHeadscale) ELSE Report("HeadscaleNotFound")
  /\ UNCHANGED <<kube, server, budget, obj>>

\* Any other error of that read, here and in handleDeletion, is returned.
GetHeadscaleFails ==
  /\ pc \in {"getHeadscale", "finalize"}
  /\ Fault
  /\ Requeue
  /\ UNCHANGED <<kube, server, edits, admin>>

\* verifyUser looks the user up by name.
Found(name) == db[name].id # 0

VerifyUser ==
  /\ pc = "verify"
  /\ IF Found(Username[cur]) THEN Report("UserReady") ELSE Goto("clearUserID")
  /\ UNCHANGED <<kube, server, budget, obj>>

\* A slip: any error counts as ErrUserNotFound.
AfterVerifyErrorClear == Goto("clearUserID")

\* No API key, no connection, or any error but ErrUserNotFound.
AfterVerifyError == Report("UserVerificationFailed")

VerifyUserFails ==
  /\ pc = "verify"
  /\ Fault
  /\ AfterVerifyError
  /\ UNCHANGED <<kube, server, edits, admin, obj>>

\* The ID is cleared and Reconcile returns without asking for a requeue.
ClearUserID ==
  /\ pc = "clearUserID"
  /\ UpdateAccepted(WithUserID(obj, 0))
  /\ Finish
  /\ UNCHANGED <<headscale, server, budget>>

ClearUserIDFails ==
  /\ pc = "clearUserID"
  /\ UpdateFailed(WithUserID(obj, 0))
  /\ Requeue
  /\ UNCHANGED <<headscale, server, edits, admin>>

\* The CreateUser call takes effect: usernames are unique in the database.
Insert(name, key) ==
  /\ db[name].id = 0
  /\ db' = [db EXCEPT ![name] = [id |-> nextId, by |-> key]]
  /\ nextId' = nextId + 1

CreateUser ==
  /\ pc = "create"
  /\ Insert(Username[cur], cur)
  /\ obj' = WithUserID(obj, nextId)
  /\ Goto("recordUserID")
  /\ UNCHANGED <<kube, budget>>

\* A slip: the user that has the name is adopted.
AfterNameTakenAdopt == /\ obj' = WithUserID(obj, db[Username[cur]].id)
                       /\ Goto("recordUserID")

\* The server refuses a name it already has.
AfterNameTaken == Report("UserCreationFailed") /\ UNCHANGED obj

CreateUserNameTaken ==
  /\ pc = "create"
  /\ Found(Username[cur])
  /\ AfterNameTaken
  /\ UNCHANGED <<kube, server, budget>>

\* The call fails, with or without having taken effect.
CreateUserFails ==
  /\ pc = "create"
  /\ Fault
  /\ Insert(Username[cur], cur) \/ UNCHANGED server
  /\ Report("UserCreationFailed")
  /\ UNCHANGED <<kube, edits, admin, obj>>

\* Status().Update with the new ID, still inside createUser.
RecordUserID ==
  /\ pc = "recordUserID"
  /\ UpdateAccepted(obj)
  /\ Report("UserCreated")
  /\ UNCHANGED <<headscale, server, budget, obj>>

\* createUser returns the error; the condition is patched all the same, and
\* only the condition, so the ID is not recorded.
RecordUserIDFails ==
  /\ pc = "recordUserID"
  /\ UpdateFailed(obj)
  /\ Report("UserCreationFailed")
  /\ UNCHANGED <<headscale, server, edits, admin, obj>>

\* A slip: a condition that is there is never replaced.
NeedsPatchOnce == obj.ready = "Unset"

\* updateStatusCondition: no call when the copy has the condition already;
\* otherwise a patch of the stored object, whatever its version.
NeedsPatch == obj.ready # cond
AfterReport == IF cond \in FailureReasons THEN Requeue ELSE Finish

PatchCondition ==
  /\ pc = "patch"
  /\ IF NeedsPatch
     THEN /\ Exists(Stored(user[cur]))
          /\ Store(cur, WithReady(Stored(user[cur]), cond))
     ELSE UNCHANGED user
  /\ AfterReport
  /\ UNCHANGED <<headscale, server, budget>>

\* The object is gone, or the call fails: Reconcile returns the error.
PatchConditionFails ==
  /\ pc = "patch" /\ NeedsPatch
  /\ \/ ~Exists(Stored(user[cur])) /\ UNCHANGED <<user, faults>>
     \/ Fault /\ UNCHANGED user
     \/ /\ Fault /\ Exists(Stored(user[cur]))
        /\ Store(cur, WithReady(Stored(user[cur]), cond))
  /\ Requeue
  /\ UNCHANGED <<headscale, server, edits, admin>>

\* handleDeletion: without a Headscale or a recorded ID nothing is deleted.
AfterFinalize ==
  IF headscale /\ obj.userID # 0 THEN "deleteUser" ELSE "removeFinalizer"

Finalize ==
  /\ pc = "finalize"
  /\ Goto(AfterFinalize)
  /\ UNCHANGED <<kube, server, budget, obj>>

\* A slip: deleteUser by name.
MatchesName(name) == name = Username[cur]

\* deleteUser, by ID.
Matches(name) == db[name].id = obj.userID
Delete ==
  db' = [n \in Names |-> IF Matches(n) THEN NoRow ELSE db[n]] /\ UNCHANGED nextId

\* A slip: an error of deleteUser keeps the finalizer.
AfterDeleteErrorRetry == Requeue

\* What the caller does with an error of deleteUser: log it and carry on.
AfterDeleteError == Goto("removeFinalizer") /\ UNCHANGED obj

DeleteUser ==
  /\ pc = "deleteUser"
  /\ \E n \in Names : Matches(n)
  /\ Delete
  /\ Goto("removeFinalizer")
  /\ UNCHANGED <<kube, budget, obj>>

\* The database has no such user.
DeleteUserUnknown ==
  /\ pc = "deleteUser"
  /\ \A n \in Names : ~Matches(n)
  /\ AfterDeleteError
  /\ UNCHANGED <<kube, server, budget>>

DeleteUserFails ==
  /\ pc = "deleteUser"
  /\ Fault
  /\ Delete \/ UNCHANGED server
  /\ AfterDeleteError
  /\ UNCHANGED <<kube, edits, admin>>

RemoveFinalizer ==
  /\ pc = "removeFinalizer"
  /\ UpdateAccepted(Removed(obj))
  /\ Finish
  /\ UNCHANGED <<headscale, server, budget>>

RemoveFinalizerFails ==
  /\ pc = "removeFinalizer"
  /\ UpdateFailed(Removed(obj))
  /\ Requeue
  /\ UNCHANGED <<headscale, server, edits, admin>>

Step ==
  \/ AddFinalizer \/ AddFinalizerFails
  \/ GetHeadscale \/ GetHeadscaleFails
  \/ VerifyUser \/ VerifyUserFails \/ ClearUserID \/ ClearUserIDFails
  \/ CreateUser \/ CreateUserNameTaken \/ CreateUserFails
  \/ RecordUserID \/ RecordUserIDFails
  \/ PatchCondition \/ PatchConditionFails
  \/ Finalize
  \/ DeleteUser \/ DeleteUserUnknown \/ DeleteUserFails
  \/ RemoveFinalizer \/ RemoveFinalizerFails

-----------------------------------------------------------------------------
(* The surroundings.                                                       *)

\* A write by somebody else: the worker's copy is no longer the latest.
Outdate(u) == fresh' = (fresh /\ cur # u)

\* A user of the cluster creates the object.
CreateObject(u) ==
  /\ Stored(user[u]).life = "none"
  /\ Within(Created + 1, faults, edits, admin)
  /\ Store(u, [Absent EXCEPT !.life = "live"])
  /\ UNCHANGED <<headscale, server, queue, worker, budget>>

\* Somebody writes a label, an annotation or a field of the spec that may
\* change.
EditObject(u) ==
  /\ Within(Created, faults, edits + 1, admin) /\ edits' = edits + 1
  /\ Exists(Stored(user[u]))
  /\ Store(u, Stored(user[u]))
  /\ Outdate(u)
  /\ UNCHANGED <<headscale, server, queue, pc, cur, obj, cond, faults, admin>>

\* Deletion is a mark while there is a finalizer.
DeleteObject(u) ==
  /\ Stored(user[u]).life = "live"
  /\ Store(u, IF Stored(user[u]).finalizer
              THEN [Stored(user[u]) EXCEPT !.life = "deleting"]
              ELSE Removed(Stored(user[u])))
  /\ Outdate(u)
  /\ UNCHANGED <<headscale, server, queue, pc, cur, obj, cond, budget>>

\* A slip: a predicate that ignores changes of the status.
TriggersNotStatus(old, new) == old.life # new.life \/ old.finalizer # new.finalizer

\* SetupWithManager: no predicate, so every event of the object enqueues it.
Triggers(old, new) == TRUE

\* A watch event reaches the cache and the queue.
Deliver(u) ==
  /\ Lag(user[u]) > 0
  /\ user' = [user EXCEPT ![u] = Delivered(@)]
  /\ queue' = IF Triggers(user[u][1], user[u][2]) THEN queue \cup {u} ELSE queue
  /\ UNCHANGED <<headscale, server, worker, budget>>

\* The informer's periodic resync.
Resync(u) ==
  /\ Exists(Observed(user[u])) /\ u \notin queue
  /\ queue' = queue \cup {u}
  /\ UNCHANGED <<kube, server, worker, budget>>

\* The manager restarts and lists the objects.
Crash ==
  /\ Fault
  /\ user' = [u \in Users |-> Relisted(user[u])]
  /\ queue' = {u \in Users : Exists(Stored(user[u]))}
  /\ Forget
  /\ UNCHANGED <<headscale, server, edits, admin>>

AdminStep == Within(Created, faults, edits, admin + 1) /\ admin' = admin + 1

\* The Headscale object is deleted, or created again over the same volume.
ToggleHeadscale ==
  /\ AdminStep
  /\ headscale' = ~headscale
  /\ UNCHANGED <<user, server, queue, worker, faults, edits>>

\* An administrator uses the headscale command line.
AdminDeleteUser(n) ==
  /\ AdminStep
  /\ Found(n)
  /\ db' = [db EXCEPT ![n] = NoRow]
  /\ UNCHANGED <<kube, nextId, queue, worker, faults, edits>>

AdminCreateUser(n) ==
  /\ AdminStep
  /\ Insert(n, NoUser)
  /\ UNCHANGED <<kube, queue, worker, faults, edits>>

Environment ==
  \/ \E u \in Users : CreateObject(u) \/ EditObject(u) \/ DeleteObject(u)
  \/ ToggleHeadscale
  \/ \E n \in Names : AdminDeleteUser(n) \/ AdminCreateUser(n)

Next ==
  \/ \E u \in Users : Reconcile(u) \/ Deliver(u) \/ Resync(u)
  \/ Step
  \/ Crash
  \/ Environment

\* The worker runs, a queued key is eventually taken (the queue is first in,
\* first out), watch events arrive, and the informer resyncs.
Fairness ==
  /\ WF_vars(Step)
  /\ \A u \in Users : /\ SF_vars(Reconcile(u))
                      /\ WF_vars(Deliver(u))
                      /\ WF_vars(Resync(u))

Spec == Init /\ [][Next]_vars /\ Fairness

-----------------------------------------------------------------------------
(* Safety.                                                                 *)

\* A user is created only for an object whose stored version holds the
\* finalizer, however stale the copy the worker acts on: otherwise a deletion
\* at that moment would leave the user behind (ensureFinalizer before
\* createUser).
FinalizerBeforeCreate ==
  pc \in {"create", "recordUserID"} => Stored(user[cur]).finalizer

\* A recorded ID that the database knows is the ID of the user this very
\* object had created, under its own name: two objects with one username
\* never share a user.
RecordedIdOwned ==
  \A u \in Users, n \in Names :
    /\ Exists(Stored(user[u])) /\ Stored(user[u]).userID # 0
    /\ db[n].id = Stored(user[u]).userID
    => db[n].by = u /\ n = Username[u]

\* No lost wake-up: an object that is not settled (being deleted, not Ready,
\* or without a recorded user) is queued, has a watch event on its way, or is
\* being processed.  Reconcile returns without a requeue after it cleared the
\* ID; the event of its own write must bring it back.
Settled(o) == /\ o.life = "live" /\ o.finalizer
              /\ o.userID # 0 /\ o.ready \in ReadyReasons

UnsettledHasWork ==
  \A u \in Users :
    Exists(Stored(user[u])) /\ ~Settled(Stored(user[u]))
      => u \in queue \/ Lag(user[u]) > 0 \/ cur = u

\* The deletion of an object removes from Headscale no user but the one that
\* was created for it, even when an administrator or another object has put a
\* new user under the same name.
DeletesOnlyOwnUser ==
  [][\A n \in Names :
       pc = "deleteUser" /\ db[n].id # 0 /\ db'[n].id = 0 /\ admin' = admin
         => db[n].by = cur]_vars

\* As long as no call fails, no manager restarts and nothing changes in Headscale
\* by hand, an object that is gone and had its ID recorded has taken its user
\* along: stale reads, conflicts, edits and rivals for the name leave none behind
\* (handleDeletion removes the finalizer from the very version whose ID it has
\* deleted).
LeftBehind ==
  {u \in Users : /\ Stored(user[u]).life = "gone" /\ Stored(user[u]).userID # 0
                 /\ \E n \in Names : db[n].by = u}

LeftBehindPaidFor == faults = 0 /\ admin = 0 => LeftBehind = {}

\* The recorded ID is cleared only when the database has lost that user: a
\* failing server must not make the operator forget it.
ClearedOnlyIfMissing ==
  [][\A u \in Users :
       Stored(user[u]).userID # 0 /\ Stored(user[u])'.userID = 0
         => \A n \in Names : db[n].id # Stored(user[u]).userID]_vars

-----------------------------------------------------------------------------
(* Liveness.                                                               *)

\* When changes and failures stop, no object is left in deletion (an
\* unreachable server and a user removed by hand do not block it), and Ready
\* tells whether Headscale is there and has a user of that name that the object
\* has recorded (handleDeletion, updateStatusCondition).
Provided(u) == /\ headscale /\ Stored(user[u]).userID # 0
               /\ db[Username[u]].id # 0

Converges ==
  <>[](\A u \in Users :
         /\ Stored(user[u]).life # "deleting"
         /\ Stored(user[u]).life = "live"
              => (Stored(user[u]).ready \in ReadyReasons <=> Provided(u)))

\* Left alone, the only one to claim its username, an object gets its user,
\* records its ID and says so for good, although the reconciler's own writes
\* make the worker act on stale copies.
Ready(u) == Stored(user[u]).ready \in ReadyReasons /\ Stored(user[u]).userID # 0
Undisturbed == faults = 0 /\ edits = 0 /\ admin = 0

Unrivalled(u) ==
  \A v \in Users \ {u} : Username[v] = Username[u] => Stored(user[v]).life = "none"

ReadyWhenUndisturbed ==
  <>[](\A u \in Users :
         Undisturbed /\ Unrivalled(u) /\ Stored(user[u]).life = "live"
           => Ready(u) /\ db[Username[u]].id = Stored(user[u]).userID)

-----------------------------------------------------------------------------
(* A claim of the repository that the code does not keep.                  *)

\* Every object gets its user, whatever somebody writes to its metadata at the
\* same time (test/e2e/e2e_test.go: "should create a user in Headscale and
\* populate status.userId").
EventuallyReady ==
  <>[](\A u \in Users : Stored(user[u]).life = "live" => Ready(u))
=============================================================================
