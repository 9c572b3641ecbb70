------------------------------- MODULE Accounts -------------------------------
(***************************************************************************)
(* The HeadscaleUser and the HeadscalePreAuthKey reconcilers at work on    *)
(* one Headscale: a user object, and keys that refer to it by              *)
(* spec.headscaleUserRef.                                                  *)
(*                                                                         *)
(* Each reconciler has a worker and a queue of its own.  What they share   *)
(* is the manager process, the user object (one writes it, the other reads *)
(* it from the same cache), the Headscale object and the server: a key     *)
(* belongs to a user of the server, and is minted only for one it has.     *)
(* The garbage collector deletes the keys of a user object that is gone,   *)
(* in the background, as for a plain kubectl delete.                       *)
(*                                                                         *)
(* Simplifications: the Headscale object stays, and nobody changes the     *)
(* server by hand (both are in the modules of the two reconcilers); there  *)
(* is no periodic resync, so that an event or a timer must bring back      *)
(* whatever is unfinished.                                                 *)
(***************************************************************************)
EXTENDS KubeObject, FiniteSets

CONSTANTS
  Owner,       \* the HeadscaleUser
  NoUser,      \* not an object
  Keys,        \* HeadscalePreAuthKeys with spec.headscaleUserRef = Owner
  NoKey,       \* not an object
  Secrets,     \* names of Secrets
  SecretName,  \* spec.secretName of each key
  MaxLag,      \* as for HeadscaleUser: its worker starts on an object this stale
  Bounds       \* as for HeadscalePreAuthKey, for both reconcilers together

ASSUME KeysAssumption == IsFiniteSet(Keys) /\ NoKey \notin Keys
ASSUME NoUserAssumption == NoUser # Owner
ASSUME SecretNameAssumption == SecretName \in [Keys -> Secrets]
ASSUME MaxLagAssumption == MaxLag \in Nat
ASSUME BoundsAssumption ==
  Bounds \subseteq [objects : Nat, lag : Nat, faults : Nat, edits : Nat, admin : Nat]

VARIABLES
  user, headscale, users, nextUser, uqueue,      \* HeadscaleUser; its worker
  upc, ucur, uobj, ufresh, ucond,
  object, secret, keys, nextKey, kqueue, later,  \* HeadscalePreAuthKey; its worker
  kpc, kcur, kobj, kfresh, minted, secFresh, kcond,
  lag, faults, edits, admin,
  resolved,    \* the user ID that resolveUserID has returned to the pass
  belongs      \* the user each key was minted for, by the key's ID

userVars == <<user, users, nextUser, uqueue, upc, ucur, uobj, ufresh, ucond>>
keyVars == <<object, secret, nextKey, kqueue, later, kpc, kcur, kobj, kfresh, minted,
             secFresh, kcond, lag>>
links == <<resolved, belongs>>
vars == <<user, headscale, users, nextUser, uqueue, upc, ucur, uobj, ufresh, ucond,
          object, secret, keys, nextKey, kqueue, later, kpc, kcur, kobj, kfresh,
          minted, secFresh, kcond, lag, faults, edits, admin, resolved, belongs>>

Name == "username"

\* The two reconcilers, each with its theorems.
U == INSTANCE HeadscaleUserProofs WITH
       Users <- {Owner}, Names <- {Name}, Username <- [u \in {Owner} |-> Name],
       Bounds <- {[objects |-> b.objects, faults |-> b.faults, edits |-> b.edits,
                   admin |-> b.admin] : b \in Bounds},
       db <- users, nextId <- nextUser, queue <- uqueue,
       pc <- upc, cur <- ucur, obj <- uobj, fresh <- ufresh, cond <- ucond

\* resolveUserID's view of the user object.
OwnerSeen ==
  LET o == Observed(user[Owner]) IN
  [state |-> IF ~U!Exists(o) THEN "absent"
             ELSE IF o.userID = 0 THEN "pending" ELSE "ready",
   uid |-> 1]

K == INSTANCE HeadscalePreAuthKeyProofs WITH
       ByRef <- Keys, hsUser <- OwnerSeen,
       db <- keys, nextId <- nextKey, queue <- kqueue,
       pc <- kpc, cur <- kcur, obj <- kobj, fresh <- kfresh, cond <- kcond

Init == U!Init /\ K!InitKeys /\ resolved = 0 /\ belongs = <<>>

-----------------------------------------------------------------------------
(* The user's side.                                                        *)

InDatabase(id) == users[Name].id = id

\* When the server removes a user it removes the user's keys, or it does not.
ServerRemovesKeys ==
  \/ UNCHANGED keys
  \/ /\ users[Name].id # 0 /\ users'[Name].id = 0
     /\ keys' = {row \in keys : ~InDatabase(belongs[row.id])}

\* A call, or the start of a pass, of its worker; an event.
UserWorker == U!Step /\ ServerRemovesKeys /\ UNCHANGED <<keyVars, links>>
UserStarts == U!Reconcile(Owner) /\ UNCHANGED <<keyVars, keys, links>>
UserEvent == U!Deliver(Owner) /\ UNCHANGED <<keyVars, keys, links>>

\* A user of the cluster creates and deletes the object.
UserPeople ==
  /\ U!CreateObject(Owner) \/ U!DeleteObject(Owner)
  /\ UNCHANGED <<keyVars, keys, links>>

-----------------------------------------------------------------------------
(* The keys' side.                                                         *)

\* The pass remembers the ID that resolveUserID returned, until it ends.
Resolve ==
  resolved' = IF kpc' = "idle" THEN 0
              ELSE IF kpc = "getUser" THEN Observed(user[Owner]).userID ELSE resolved

\* A call of its worker.  CreatePreAuthKey takes effect, answered or not, only
\* for a user the server has.
KeyCall ==
  /\ UNCHANGED userVars /\ K!Step /\ Resolve
  /\ \/ nextKey' = nextKey /\ UNCHANGED belongs
     \/ /\ nextKey' # nextKey /\ InDatabase(resolved)
        /\ belongs' = Append(belongs, resolved)

\* For another it is an error like any other of createPreAuthKey.
KeyRefused ==
  /\ kpc = "mint" /\ ~InDatabase(resolved)
  /\ K!CreationFailed
  /\ UNCHANGED <<userVars, object, secret, headscale, keys, nextKey, lag, faults, edits,
                 admin, links>>

KeyWorker == KeyCall \/ KeyRefused
KeyStarts(k) == UNCHANGED <<userVars, links>> /\ K!Reconcile(k)
KeyEvent == UNCHANGED <<userVars, links>> /\ K!Arrive
KeyReturns(k) == UNCHANGED <<userVars, links>> /\ K!Timer(k)

KeyPeople ==
  /\ UNCHANGED <<userVars, links>>
  /\ \E k \in Keys : K!CreateObject(k) \/ K!DeleteObject(k)

-----------------------------------------------------------------------------
(* What they have in common.                                               *)

\* The owner reference names an object that is gone.
Collect(k) ==
  /\ Stored(user[Owner]).life = "gone" /\ Stored(object[k]).owner # 0
  /\ UNCHANGED <<userVars, links>>
  /\ K!DeleteObject(k)

\* The manager restarts, with both workers and all caches.
Crash ==
  /\ U!Crash /\ K!Restart
  /\ resolved' = 0 /\ UNCHANGED belongs

Next ==
  \/ UserWorker \/ UserStarts \/ UserEvent \/ UserPeople
  \/ KeyWorker \/ KeyEvent \/ KeyPeople
  \/ \E k \in Keys : KeyStarts(k) \/ KeyReturns(k) \/ Collect(k)
  \/ Crash

\* That of the two reconcilers; the garbage collector runs.
Fairness ==
  /\ WF_vars(UserWorker) /\ SF_vars(UserStarts)
  /\ WF_vars(KeyWorker)
  /\ WF_vars(UserEvent \/ KeyEvent \/ \E k \in Keys : Collect(k))
  /\ \A k \in Keys : SF_vars(KeyStarts(k)) /\ WF_vars(KeyReturns(k))

Spec == Init /\ [][Next]_vars /\ Fairness

-----------------------------------------------------------------------------
(* Safety.                                                                 *)

\* The key that a live object records is in force, and belongs to the user that
\* the HeadscaleUser it names records: the ID is read from a cache and used some
\* calls later, and the user may be deleted in between (resolveUserID,
\* createPreAuthKey).
InForceFor(k, id) ==
  /\ \E row \in keys : row.id = Stored(object[k]).keyID
  /\ belongs[Stored(object[k]).keyID] = id

KeyBelongsToOwner ==
  Stored(user[Owner]).life = "live" =>
    \A k \in Keys :
      Stored(object[k]).life = "live" /\ Stored(object[k]).keyID # 0
        => InForceFor(k, Stored(user[Owner]).userID)

\* An object that is gone has taken the key it recorded along, in whatever
\* order the two deletions, the server's and the garbage collector's come
\* (handleDeletion).
KeyGoneWithObject ==
  \A k \in Keys, row \in keys :
    Stored(object[k]).life = "gone" => row.id # Stored(object[k]).keyID

-----------------------------------------------------------------------------
(* Liveness.                                                               *)

\* Deleting the user deletes its keys ("should cascade delete PreAuthKey when
\* User is deleted", test/e2e/e2e_test.go): every object that refers to it,
\* Secrets included, though the server may have removed the keys first and the
\* object may be in the middle of a pass that sets the owner reference.
CascadeCompletes ==
  <>[](Stored(user[Owner]).life = "gone" =>
         \A k \in Keys :
           Stored(object[k]).owner # 0 \/ Stored(object[k]).keyID # 0
             => /\ Stored(object[k]).life = "gone"
                /\ Stored(secret[SecretName[k]]).key = 0)

-----------------------------------------------------------------------------
(* A claim of the repository that the code does not keep.                  *)

\* "Uses blockOwnerDeletion to ensure PreAuthKey finalizer runs before
\* HeadscaleUser is fully deleted" (ensureHeadscaleUserOwnerReference).
FinalizerRunsFirst ==
  [][Stored(user[Owner]).life # "gone" /\ Stored(user[Owner])'.life = "gone"
       => \A k \in Keys : Stored(object[k]).owner # 0
                            => Stored(object[k]).life = "gone"]_vars
=============================================================================
