------------------------ MODULE HeadscaleAutoApprover ------------------------
(***************************************************************************)
(* The HeadscaleAutoApprover reconciler, internal/controller/              *)
(* headscaleautoapprover_controller.go, one action per call that reads or  *)
(* changes something outside the reconciler's memory.                      *)
(*                                                                         *)
(* Each object contributes entries to the policy of the Headscale it       *)
(* targets.  Every pass renders the whole policy from the cached objects   *)
(* and the cached Headscale, and replaces the one the server has.  Most    *)
(* events are filtered out, resyncs included, so what a pass leaves undone *)
(* stays undone until the next edit.                                       *)
(*                                                                         *)
(* Simplifications: a policy is the generation of the Headscale spec it    *)
(* has its base from, and the objects, with their generations, that it has *)
(* entries of; how the document is merged is left out.                     *)
(***************************************************************************)
EXTENDS KubeObject, FiniteSets

CONSTANTS
  Approvers,    \* HeadscaleAutoApprover objects
  NoApprover,   \* not an object
  Headscales,   \* Headscale objects of the namespace
  NoHeadscale,  \* not a Headscale
  MaxLag,       \* the worker starts only on an object at most this stale
  Bounds        \* how many objects, failures, edits and changes by hand may meet

ASSUME NamesAssumption == NoApprover \notin Approvers /\ NoHeadscale \notin Headscales
ASSUME BoundsAssumption ==
  /\ MaxLag \in Nat
  /\ Bounds \subseteq [objects : Nat, faults : Nat, edits : Nat, admin : Nat]

VARIABLES
  approver,   \* versions of each HeadscaleAutoApprover
  headscale,  \* versions of each Headscale object
  policy,     \* the active policy of each Headscale
  queue,      \* objects in the work queue
  pc,         \* the call the worker is about to make
  cur,        \* the object it is processing
  obj,        \* its in-memory copy
  fresh,      \* that copy carries the latest resourceVersion
  view,       \* its copy of the Headscale
  doc,        \* the policy it has rendered
  cond,       \* the Ready condition it is about to write
  lost,       \* ghost: Headscales whose policy was replaced by hand
  missed,     \* ghost: Headscales an event of which was dropped
  left,       \* ghost: <<h, a>> when a may leave entries behind in h
  faults,     \* failed calls and restarts so far
  edits,      \* writes to the objects by third parties so far
  admin       \* changes to the Headscales and their policies so far

kube == <<approver, headscale>>
worker == <<pc, cur, obj, fresh, view, doc, cond>>
ghosts == <<lost, missed, left>>
budget == <<faults, edits, admin>>
vars == <<approver, headscale, policy, queue, pc, cur, obj, fresh, view, doc, cond,
          lost, missed, left, faults, edits, admin>>

-----------------------------------------------------------------------------
(* Values.                                                                 *)

\* An object that is gone has been "finalized", or else it was deleted before
\* it had the finalizer ("gone").
Lives == {"none", "live", "deleting", "finalized", "gone"}

FailureReasons == {"HeadscaleNotFound", "PolicyModeUnsupported", "PolicyPushFailed"}
Reasons == {"Unset", "PolicyApplied"} \cup FailureReasons

\* gen stands for the generation and for the spec that has it; seen is the
\* condition's observedGeneration.
Object == [life : Lives, finalizer : BOOLEAN, gen : Nat,
           ref : Headscales \cup {NoHeadscale}, ready : Reasons, seen : Nat]
Absent == [life |-> "none", finalizer |-> FALSE, gen |-> 0, ref |-> NoHeadscale,
           ready |-> "Unset", seen |-> 0]

\* The spec is in file mode, in database mode, or in database mode with an
\* inline policy that does not parse.
Specs == {"file", "database", "invalid"}
Headscale == [exists : BOOLEAN, gen : Nat, spec : Specs]
NoView == [exists |-> FALSE, gen |-> 0, spec |-> "file"]

Entry == [by : Approvers, gen : Nat]
Policy == [base : Nat, entries : SUBSET Entry]
NoPolicy == [base |-> 0, entries |-> {}]

Pcs == {"idle", "addFinalizer", "getHeadscale", "collect", "push", "patch",
        "removeFinalizer"}

Exists(o) == o.life \in {"live", "deleting"}

TypeOK ==
  /\ approver \in [Approvers -> History(Object)]
  /\ headscale \in [Headscales -> History(Headscale)]
  /\ policy \in [Headscales -> Policy]
  /\ queue \subseteq Approvers
  /\ pc \in Pcs
  /\ cur \in Approvers \cup {NoApprover}
  /\ obj \in Object
  /\ fresh \in BOOLEAN
  /\ view \in Headscale
  /\ doc \in Policy
  /\ cond \in Reasons
  /\ lost \subseteq Headscales /\ missed \subseteq Headscales
  /\ left \subseteq Headscales \X Approvers
  /\ faults \in Nat /\ edits \in Nat /\ admin \in Nat
  /\ pc # "idle" => cur \in Approvers /\ obj.ref \in Headscales

Init ==
  /\ approver = [a \in Approvers |-> <<Absent>>]
  /\ headscale = [h \in Headscales |-> <<[exists |-> TRUE, gen |-> 1, spec |-> "database"]>>]
  /\ policy = [h \in Headscales |-> NoPolicy]
  /\ queue = {}
  /\ pc = "idle" /\ cur = NoApprover /\ obj = Absent /\ fresh = FALSE
  /\ view = NoView /\ doc = NoPolicy /\ cond = "Unset"
  /\ lost = {} /\ missed = {} /\ left = {}
  /\ faults = 0 /\ edits = 0 /\ admin = 0

-----------------------------------------------------------------------------
(* Steps the actions are built from.                                       *)

Forget == /\ pc' = "idle" /\ cur' = NoApprover /\ obj' = Absent /\ fresh' = FALSE
          /\ view' = NoView /\ doc' = NoPolicy /\ cond' = "Unset"
Finish == Forget /\ UNCHANGED queue

\* A slip: the key is forgotten before it is put back.
RequeueForgotten == Forget /\ queue' = queue \cup {cur'}

\* An error is returned: the key comes back.
Requeue == Forget /\ queue' = queue \cup {cur}

Goto(label) == pc' = label /\ UNCHANGED <<cur, fresh, cond, queue>>
Report(reason) == pc' = "patch" /\ cond' = reason /\ UNCHANGED <<cur, fresh, queue>>

Within(o, f, e, a) ==
  \E b \in Bounds : o <= b.objects /\ f <= b.faults /\ e <= b.edits /\ a <= b.admin

\* The objects created so far.
Created == Cardinality({a \in Approvers : Stored(approver[a]).life # "none"})

Fault == Within(Created, faults + 1, edits, admin) /\ faults' = faults + 1

Store(a, o) == approver' = [approver EXCEPT ![a] = Written(@, o)]

UpdateAccepted(o) == fresh /\ Store(cur, o)

\* A conflict, a refused call, or one that took effect and whose answer was
\* lost.
UpdateFailed(o) ==
  \/ ~fresh /\ UNCHANGED <<approver, faults>>
  \/ fresh /\ Fault /\ (UNCHANGED approver \/ Store(cur, o))

WithFinalizer(o) == [o EXCEPT !.finalizer = TRUE]
WithReady(o, reason, gen) == [o EXCEPT !.ready = reason, !.seen = gen]
Removed(o, life) == [o EXCEPT !.life = life, !.finalizer = FALSE]

Deleting == obj.life = "deleting"

-----------------------------------------------------------------------------
(* The reconciler.                                                         *)

\* Reconcile starts.  handleDeletion and the live branch both begin by looking
\* for the Headscale.
FirstCall(o) ==
  IF o.life = "deleting" THEN IF o.finalizer THEN "getHeadscale" ELSE "idle"
  ELSE IF o.finalizer THEN "getHeadscale" ELSE "addFinalizer"

Reconcile(a) ==
  /\ pc = "idle" /\ a \in queue /\ Lag(approver[a]) <= MaxLag
  /\ queue' = queue \ {a}
  /\ LET o == Observed(approver[a]) IN
     IF Exists(o) /\ FirstCall(o) # "idle"
     THEN /\ pc' = FirstCall(o) /\ cur' = a /\ obj' = o
          /\ fresh' = InSync(approver[a]) /\ UNCHANGED <<view, doc, cond>>
     ELSE UNCHANGED worker
  /\ UNCHANGED <<kube, policy, ghosts, budget>>

AddFinalizer ==
  /\ pc = "addFinalizer"
  /\ UpdateAccepted(WithFinalizer(obj))
  /\ obj' = WithFinalizer(obj)
  /\ Goto("getHeadscale")
  /\ UNCHANGED <<headscale, policy, view, doc, ghosts, budget>>

AddFinalizerFails ==
  /\ pc = "addFinalizer"
  /\ UpdateFailed(WithFinalizer(obj))
  /\ Requeue
  /\ UNCHANGED <<headscale, policy, ghosts, edits, admin>>

\* Without a push a live object is given the reason, while deletion goes on
\* and may leave entries behind.
WithoutPush(reason) ==
  /\ IF Deleting
     THEN Goto("removeFinalizer") /\ left' = left \cup {<<obj.ref, cur>>}
     ELSE Report(reason) /\ UNCHANGED left
  /\ UNCHANGED <<obj, view, doc, lost, missed>>

GetHeadscale ==
  /\ pc = "getHeadscale"
  /\ LET v == Observed(headscale[obj.ref]) IN
     \/ ~v.exists /\ WithoutPush("HeadscaleNotFound")
     \/ v.exists /\ v.spec = "file" /\ WithoutPush("PolicyModeUnsupported")
     \/ /\ v.exists /\ v.spec # "file"
        /\ view' = v
        /\ Goto("collect") /\ UNCHANGED <<obj, doc, ghosts>>
  /\ UNCHANGED <<kube, policy, budget>>

GetHeadscaleFails ==
  /\ pc = "getHeadscale" /\ Fault
  /\ IF Deleting THEN WithoutPush("Unset") ELSE Requeue /\ UNCHANGED ghosts
  /\ UNCHANGED <<kube, policy, edits, admin>>

\* A slip: collectApprovers takes in the objects that are being deleted.
ContributesWhileDeleting(o) == Exists(o) /\ o.ref = obj.ref

\* collectApprovers: what the cache lists, but for the objects in deletion.
Contributes(o) == Exists(o) /\ o.ref = obj.ref /\ o.life # "deleting"

Rendered ==
  [base |-> view.gen,
   entries |-> {[by |-> a, gen |-> Observed(approver[a]).gen] :
                  a \in {b \in Approvers : Contributes(Observed(approver[b]))}}]

\* A slip: the error is dropped.
AfterPushErrorDropped == WithoutPush("PolicyApplied")

\* A slip: the error keeps the finalizer.
AfterPushErrorRetry == Requeue /\ UNCHANGED ghosts

\* Any error of renderAndPush: reported, or in deletion logged.
AfterPushError == WithoutPush("PolicyPushFailed")

\* buildPolicyDocument refuses an inline policy that does not parse.
Collect ==
  /\ pc = "collect"
  /\ IF view.spec = "invalid" THEN AfterPushError
     ELSE doc' = Rendered /\ Goto("push") /\ UNCHANGED <<obj, view, ghosts>>
  /\ UNCHANGED <<kube, policy, budget>>

CollectFails ==
  /\ pc = "collect" /\ Fault
  /\ AfterPushError
  /\ UNCHANGED <<kube, policy, edits, admin>>

\* SetPolicy replaces the whole policy: a replacement by hand is made good,
\* and entries left behind are gone, if they are not in the document.
SetPolicy == policy' = [policy EXCEPT ![obj.ref] = doc]
Contributors == {e.by : e \in doc.entries}

\* The cache shows, or will show, the object as one that targets this Headscale.
ComesBack(a) == \E i \in DOMAIN approver[a] : Contributes(approver[a][i])

Push ==
  /\ pc = "push"
  /\ SetPolicy
  /\ lost' = lost \ {obj.ref}
  /\ left' = {p \in left : p[1] = obj.ref => p[2] \in Contributors \/ ComesBack(p[2])}
  /\ IF Deleting THEN Goto("removeFinalizer") ELSE Report("PolicyApplied")
  /\ UNCHANGED <<kube, obj, view, doc, missed, budget>>

\* No API key, no connection, a refusal, a lost answer, or the server has gone
\* with its Headscale.
PushFails ==
  /\ pc = "push"
  /\ \/ Fault /\ (SetPolicy \/ UNCHANGED policy)
     \/ ~Stored(headscale[obj.ref]).exists /\ UNCHANGED <<policy, faults>>
  /\ AfterPushError
  /\ UNCHANGED <<kube, edits, admin>>

\* A slip: a condition that is there is never replaced.
NeedsPatchOnce == obj.ready = "Unset"

\* setCondition: no call when the copy has the condition already; otherwise a
\* patch of the stored object, whatever its version.
NeedsPatch == obj.ready # cond \/ obj.seen # obj.gen
PatchAccepted ==
  /\ Exists(Stored(approver[cur]))
  /\ Store(cur, WithReady(Stored(approver[cur]), cond, obj.gen))

\* Only a failed push is an error; for the rest an event has to come.
AfterReport == IF cond = "PolicyPushFailed" THEN Requeue ELSE Finish

SetCondition ==
  /\ pc = "patch"
  /\ IF NeedsPatch THEN PatchAccepted ELSE UNCHANGED approver
  /\ AfterReport
  /\ UNCHANGED <<headscale, policy, ghosts, budget>>

SetConditionFails ==
  /\ pc = "patch" /\ NeedsPatch
  /\ \/ ~Exists(Stored(approver[cur])) /\ UNCHANGED <<approver, faults>>
     \/ Fault /\ (PatchAccepted \/ UNCHANGED approver)
  /\ Requeue
  /\ UNCHANGED <<headscale, policy, ghosts, edits, admin>>

RemoveFinalizer ==
  /\ pc = "removeFinalizer"
  /\ UpdateAccepted(Removed(obj, "finalized"))
  /\ Finish
  /\ UNCHANGED <<headscale, policy, ghosts, budget>>

RemoveFinalizerFails ==
  /\ pc = "removeFinalizer"
  /\ UpdateFailed(Removed(obj, "finalized"))
  /\ Requeue
  /\ UNCHANGED <<headscale, policy, ghosts, edits, admin>>

Step ==
  \/ AddFinalizer \/ AddFinalizerFails
  \/ GetHeadscale \/ GetHeadscaleFails
  \/ Collect \/ CollectFails \/ Push \/ PushFails
  \/ SetCondition \/ SetConditionFails
  \/ RemoveFinalizer \/ RemoveFinalizerFails

-----------------------------------------------------------------------------
(* Events.                                                                 *)

\* A slip: the predicate compares deletion timestamps only.
TriggersOnDeletion(old, new) == Exists(old) # Exists(new) \/ old.life # new.life

\* reconcilableUpdates; creations and removals always pass.
Triggers(old, new) ==
  \/ Exists(old) # Exists(new) \/ old.life # new.life
  \/ old.gen # new.gen

Deliver(a) ==
  /\ Lag(approver[a]) > 0
  /\ approver' = [approver EXCEPT ![a] = Delivered(@)]
  /\ queue' = IF Triggers(approver[a][1], approver[a][2]) THEN queue \cup {a} ELSE queue
  /\ UNCHANGED <<headscale, policy, worker, ghosts, budget>>

\* requeueApproversForHeadscale: the objects the cache lists for it, those in
\* deletion included.
Targeting(h) == {a \in Approvers : /\ Exists(Observed(approver[a]))
                                   /\ Observed(approver[a]).ref = h}

\* Every version of a Headscale here has a new generation, or is a creation or
\* a removal: it passes GenerationChangedPredicate.
DeliverHeadscale(h) ==
  /\ Lag(headscale[h]) > 0
  /\ headscale' = [headscale EXCEPT ![h] = Delivered(@)]
  /\ queue' = queue \cup Targeting(h)
  /\ UNCHANGED <<approver, policy, worker, ghosts, budget>>

\* When the list fails the event is dropped for good.
DeliverHeadscaleFails(h) ==
  /\ Lag(headscale[h]) > 0 /\ Fault
  /\ headscale' = [headscale EXCEPT ![h] = Delivered(@)]
  /\ missed' = missed \cup {h}
  /\ UNCHANGED <<approver, policy, queue, worker, lost, left, edits, admin>>

-----------------------------------------------------------------------------
(* The surroundings.                                                       *)

Outdate(a) == /\ fresh' = (fresh /\ cur # a)
              /\ UNCHANGED <<pc, cur, obj, view, doc, cond>>

CreateObject(a) ==
  /\ Stored(approver[a]).life = "none"
  /\ Within(Created + 1, faults, edits, admin)
  /\ \E h \in Headscales :
       Store(a, [Absent EXCEPT !.life = "live", !.gen = 1, !.ref = h])
  /\ UNCHANGED <<headscale, policy, queue, worker, ghosts, budget>>

Edit == Within(Created, faults, edits + 1, admin) /\ edits' = edits + 1

\* The spec changes; an object that moves to another Headscale leaves its
\* entries in the old one.
EditSpec(a, h) ==
  /\ Edit
  /\ LET o == Stored(approver[a]) IN
     /\ Exists(o)
     /\ Store(a, [o EXCEPT !.gen = @ + 1, !.ref = h])
     /\ left' = IF h # o.ref THEN left \cup {<<o.ref, a>>} ELSE left
  /\ Outdate(a)
  /\ UNCHANGED <<headscale, policy, queue, lost, missed, faults, admin>>

EditMetadata(a) ==
  /\ Edit
  /\ Exists(Stored(approver[a]))
  /\ Store(a, Stored(approver[a]))
  /\ Outdate(a)
  /\ UNCHANGED <<headscale, policy, queue, ghosts, faults, admin>>

DeleteObject(a) ==
  /\ Stored(approver[a]).life = "live"
  /\ Store(a, IF Stored(approver[a]).finalizer
              THEN [Stored(approver[a]) EXCEPT !.life = "deleting"]
              ELSE Removed(Stored(approver[a]), "gone"))
  /\ Outdate(a)
  /\ UNCHANGED <<headscale, policy, queue, ghosts, budget>>

\* A new manager lists the objects: each is a creation to it.
Crash ==
  /\ Fault
  /\ approver' = [a \in Approvers |-> Relisted(approver[a])]
  /\ headscale' = [h \in Headscales |-> Relisted(headscale[h])]
  /\ queue' = {a \in Approvers : Exists(Stored(approver[a]))}
  /\ Forget
  /\ UNCHANGED <<policy, ghosts, edits, admin>>

AdminStep == Within(Created, faults, edits, admin + 1) /\ admin' = admin + 1

\* A Headscale is created again, edited (to the same mode too: its base policy
\* changes), or deleted.  Generations go on counting.
ChangeHeadscale(h, exists, spec) ==
  /\ AdminStep
  /\ exists \/ Stored(headscale[h]).exists
  /\ headscale' = [headscale EXCEPT ![h] = Written(@,
       [exists |-> exists, gen |-> Stored(@).gen + 1, spec |-> spec])]
  /\ UNCHANGED <<approver, policy, queue, worker, ghosts, faults, edits>>

\* The policy is set with the headscale command line, or lost with its volume.
LosePolicy(h) ==
  /\ AdminStep
  /\ policy' = [policy EXCEPT ![h] = NoPolicy]
  /\ lost' = lost \cup {h}
  /\ UNCHANGED <<kube, queue, worker, missed, left, faults, edits>>

Environment ==
  \/ \E a \in Approvers :
       \/ CreateObject(a) \/ EditMetadata(a) \/ DeleteObject(a)
       \/ \E h \in Headscales : EditSpec(a, h)
  \/ \E h \in Headscales :
       \/ \E spec \in Specs : ChangeHeadscale(h, TRUE, spec)
       \/ ChangeHeadscale(h, FALSE, Stored(headscale[h]).spec)
       \/ LosePolicy(h)

Next ==
  \/ \E a \in Approvers : Reconcile(a) \/ Deliver(a)
  \/ \E h \in Headscales : DeliverHeadscale(h) \/ DeliverHeadscaleFails(h)
  \/ Step
  \/ Crash
  \/ Environment

\* An event reaches one of the two caches.
Event == \/ \E a \in Approvers : Deliver(a)
         \/ \E h \in Headscales : DeliverHeadscale(h)

\* The worker runs, a queued object is eventually taken, and watch events
\* arrive.  A resync brings nothing: its events are filtered out.
Fairness ==
  /\ WF_vars(Step)
  /\ \A a \in Approvers : SF_vars(Reconcile(a))
  /\ WF_vars(Event)

Spec == Init /\ [][Next]_vars /\ Fairness

-----------------------------------------------------------------------------
(* Safety.                                                                 *)

\* "PolicyApplied" for the current generation is true: the active policy has
\* the entries of that very generation, whatever its siblings, an outdated
\* cache or a restart have pushed since (renderAndPush, setCondition).
ReadyMeansApplied ==
  \A a \in Approvers :
    LET o == Stored(approver[a]) IN
    o.life = "live" /\ o.ready = "PolicyApplied" /\ o.seen = o.gen /\ o.ref \notin lost
      => [by |-> a, gen |-> o.gen] \in policy[o.ref].entries

\* The entries of an object that went through handleDeletion are out of every
\* policy and no sibling brings them back, but where handleDeletion gave up on
\* the push or the object had moved; there the next push of a sibling removes
\* them ("they are cleaned up the next time any sibling approver reconciles"),
\* the next one that is rendered from a cache that has seen the object move.
FinalizedLeavesNoEntries ==
  \A h \in Headscales, a \in Approvers :
    /\ Stored(approver[a]).life = "finalized"
    /\ \E e \in policy[h].entries : e.by = a
    => <<h, a>> \in left

-----------------------------------------------------------------------------
(* Liveness.                                                               *)

\* "Blocking would risk leaving the CR stuck Terminating forever": neither a
\* server that is away nor a policy that never parses blocks a deletion (the one
\* way out of "deleting" is "finalized").
DeletionCompletes ==
  <>[](\A a \in Approvers : Stored(approver[a]).life # "deleting")

\* When changes and failures stop, the policy of a Headscale has the latest
\* base and the latest entries of every object that targets it, although the
\* events of the objects and of the Headscale come in any order and most are
\* filtered out.
Served(h) == /\ Stored(headscale[h]).exists
             /\ Stored(headscale[h]).spec = "database"

PolicyConverges ==
  <>[](\A a \in Approvers :
         LET o == Stored(approver[a]) IN
         o.life = "live" /\ Served(o.ref) /\ o.ref \notin lost \cup missed
           => /\ policy[o.ref].base = Stored(headscale[o.ref]).gen
              /\ [by |-> a, gen |-> o.gen] \in policy[o.ref].entries)

\* And the Ready condition of a live object says whether it does ("Ready": the
\* entries from this resource have been merged into the active policy,
\* headscaleautoapprover_types.go).  With a cache that has seen the object's
\* last condition when a pass begins; without, a pass may find the condition
\* it wants in its outdated copy and leave the failure of the previous pass in
\* place, with no event to come.
StatusConverges ==
  <>[](\A a \in Approvers :
         LET o == Stored(approver[a]) IN
         o.life = "live" /\ o.ref \notin missed
           => (o.ready = "PolicyApplied" /\ o.seen = o.gen <=> Served(o.ref)))
=============================================================================
