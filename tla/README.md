# TLA+ specifications of headscale-operator

The operator keeps [Headscale](https://github.com/juanfont/headscale) servers
running in Kubernetes and lets users describe what lives inside them (users,
pre-auth keys, the API key, the access policy) as custom resources. Its hard
part is that every reconciler changes two systems, the Kubernetes API and the
Headscale database, in several calls, from reads that may be outdated, and may
stop between any two of them. The specifications here model that part: each
call is an action of its own, each read goes through a cache that lags, and each
call may fail, or take effect and still be reported as failed.

Contents: [the system](#the-system), [the modules](#the-modules),
[the environment](#what-is-assumed-of-the-environment), [the runs](#the-runs),
[the proofs](#the-proofs), [what the code does not keep](#what-the-code-does-not-keep),
[what is not modelled](#what-is-not-modelled), [plan](#plan).

## The system

Paths are relative to the repository's root.

| Component | Source | State it keeps | Operations |
|---|---|---|---|
| HeadscaleUser reconciler | `internal/controller/headscaleuser_controller.go` | `status.userId`, the Ready condition and the finalizer of each HeadscaleUser | ensure the finalizer; create the user and record its ID; verify by name and clear the ID; delete the user by ID; set the condition |
| HeadscalePreAuthKey reconciler | `internal/controller/headscalepreauthkey_controller.go` | `status.keyId`, Ready, finalizer and owner reference of each HeadscalePreAuthKey, the Secret with the key | resolve the user; mint; write the Secret; record the ID; delete the key and the Secret |
| HeadscaleAutoApprover reconciler | `internal/controller/headscaleautoapprover_controller.go` | Ready and finalizer of each HeadscaleAutoApprover, the active policy of the Headscale | collect the approvers of a Headscale; build the policy document; push it; set the condition |
| API key sidecar | `internal/apikey/`, `cmd/apikey-manager/main.go` | the API key Secret with its annotations; the timer of the loop | ensure, mint, publish, rotate, expire, sleep |
| Headscale gRPC client | `pkg/headscale/client.go` | none (the database it calls has users, pre-auth keys, API keys, the policy) | CreateUser, DeleteUser, GetUserByName, CreatePreAuthKey, DeletePreAuthKey, CreateAPIKey, ExpireAPIKey, GetPolicy, SetPolicy |
| Headscale workload reconciler | `internal/controller/headscale_controller.go`, `status.go`, `config.go` | ConfigMap, RBAC objects, Services and StatefulSet of each Headscale; conditions; finalizer | apply each in order, derive Ready from the StatefulSet and its pods, delete the API key Secret |
| Operator entry point and helpers | `cmd/main.go`, `internal/controller/utils.go`, `constants.go` | none | wiring; address and Secret helpers |

How they interact:

- The **workload reconciler** starts the StatefulSet whose pods run Headscale and
  the **sidecar**. The sidecar mints an API key through Headscale's socket and
  publishes it in a Secret.
- The three **object reconcilers** read that Secret, open a connection with the
  key, and call the server. They share nothing in memory; each has a queue of
  its own and one worker.
- A **HeadscalePreAuthKey** refers to a **HeadscaleUser**, reads its
  `status.userId`, and makes it its owner, so that garbage collection deletes
  the key object after the user object.
- A **HeadscaleAutoApprover** contributes to a policy rendered from all its
  siblings and from the Headscale's `acl_policy`; changes of the Headscale are
  mapped to all its approvers.

What is hard, and what makes each component correct:

| Component | Hard behaviour | Correct when |
|---|---|---|
| HeadscaleUser | reads from a cache behind its own writes; CreateUser and the status update are two calls; a patch without a resourceVersion; two objects with one username | no user is created for an object that could vanish without clean-up; a recorded ID is the object's own; deletion removes its own user, and never blocks; the ID is forgotten only when the user is gone; no wake-up is lost; Ready converges to the truth |
| HeadscalePreAuthKey | mint, Secret and status are three calls; two caches; retries mint again; Secrets are shared by name | nothing is minted without the finalizer; deletion removes only the object's key; recorded key and Secret agree; leaked keys are bounded by the incidents; the Secret goes with the object |
| HeadscaleAutoApprover | the policy is rendered from old reads and replaces the whole; most events are filtered, resyncs included; a status comparison with an old copy | "PolicyApplied" is true of the policy in force; entries of a cleaned-up object stay away; policy and condition converge; deletion never blocks |
| Policy document | one CIDR claimed twice, repeated and unsorted tags, absent sections | the union per CIDR, sorted, each once, independent of the listing order; untouched keys pass through |
| API key sidecar | several pods over one Secret; the expiry follows the write; lost answers; restarts; the buffer against the retry delay | the published key is never a revoked one, does not lapse, and keys are minted no faster than they are rotated; its readers see one accepted key replaced by another in one step |
| Headscale workload reconciler | up to seven applies in a row, any of which may fail or be overtaken by an edit; the pod reads its config when it starts; pods are not watched; Ready comes from a cache | nothing is applied for an object that could vanish; the template is never ahead of the ConfigMap; the status speaks of applied children; children, server and status converge to the last spec; the right Secret is deleted, and no other |
| Users and keys together | two workers, one cache, one server; the user of a key is deleted while the key is minted; the garbage collector | a recorded key works and belongs to the user its owner records; deleting the user ends with its keys, their Secrets and their database rows gone |

`PROJECT.json` lists the hazards line by line, with the properties aimed at each.

## The modules

| Module | Models |
|---|---|
| `KubeObject` | one Kubernetes object as a reconciler sees it: the versions from the one the informer cache holds to the one the API server stores |
| `HeadscaleUser` | the HeadscaleUser reconciler, its objects and the users table |
| `HeadscalePreAuthKey` | the HeadscalePreAuthKey reconciler, its objects and Secrets, the pre-auth keys table; the HeadscaleUser it refers to is a variable that somebody else changes |
| `HeadscaleAutoApprover` | the HeadscaleAutoApprover reconciler with its event filters and map function, and the active policies |
| `PolicyDocument` | `buildPolicyDocument` as a function, over the edits that make its inputs |
| `ApiKeyManager` | the sidecars of one StatefulSet, the Secret, the clock |
| `PublishedKey` | what the sidecars promise to the readers of the Secret; `ApiKeyManager` implements it |
| `Headscale` | the workload reconciler with `status.go` and `config.go`, its children, one pod, and the controllers of the cluster it counts on |
| `Accounts` | `HeadscaleUser` and `HeadscalePreAuthKey` composed: one user object, its keys, one server, one manager process, the garbage collector |
| `ApiKeyManagerProofs`, `HeadscaleUserProofs`, `HeadscalePreAuthKeyProofs`, `HeadscaleProofs`, `HeadscaleAutoApproverProofs`, `AccountsProofs`, `PolicyDocumentProofs` | theorems |
| `KubeObjectProofs` | lemmas about versions of an object, for the proofs about the reconcilers |
| `MC...` | small instances for TLC |

**Reconcilers.** `pc` is the call the worker is about to make, `cur` the key it
processes, `obj` the copy it read, `fresh` whether that copy has the latest
resourceVersion, `cond` the reason `updateStatusCondition` (`setCondition`) will
write. Each call is an action; an action ending in `Fails` is the same call with
an error, which may or may not have had its effect. Code between two calls
belongs to the call before it. `Finish`, `Requeue`, `RetryError` and
`RequeueAfter` are the ways Reconcile returns. Where the code ignores an error
(logs it) the failing action continues like the other; where it treats several
errors alike there is one action for them: in `HeadscaleUser`, `getAPIKey` and
the dial are part of the call that needs them.

**A condition** is its reason; status, message and time follow from it. In
`HeadscaleAutoApprover` it has an `observedGeneration` besides (`seen`), because
there it decides what is written.

**Ghosts.** `by` in a row of a table is who had it created (nobody, for an
administrator); `lost`, `missed` and `left` in `HeadscaleAutoApprover` remember
a policy replaced by hand, a dropped Headscale event, and where an object may
have left entries. No action reads them.

**Policy.** In `HeadscaleAutoApprover` a policy is the generation of the
Headscale spec its base comes from and the pairs of object and generation it has
entries of; this is what tells an old policy from a new one. What the merge does
with the entries is the subject of `PolicyDocument`, where tags are numbers in
the order of the strings.

**ApiKeyManager.** `db` is the set of keys nobody has expired. `base` is what a
manager's Get found (no Secret, the current one, or one written since), which
decides whether its Create or Update is refused. `started` are the managers
whose server has come up, which is when WaitForHeadscale returns. Time is discrete, and passes
only when every manager sleeps or has just failed: calls take no time, failures
take one tick, sleeps take what they say. A manager expires the key it has replaced
by a prefix, for which it takes the key's first eight characters. Whether these
name a key is up to the server's format of keys, and is the constant
`PrefixNames`: always, never, or now this and now that. Where they do not,
`Revoke` leaves the database as it is, and since the error is only logged the
rotation goes on as if it had succeeded.

`PublishedKey` has only what a reader of the Secret can tell: the keys the server
accepts, and what the Secret says. Its steps are to issue a key, to publish one
that is in force, to revoke one that is not published, and what others may do to
a Secret (delete it, garble the annotation). `ApiKeyManager!Promise` maps `db`,
the Secret and `nextId` to it; minting is Issue, an accepted write of the Secret
is Publish (or a stutter, when a lost answer is repeated), ExpireAPIKey is Revoke,
and everything else stutters.

**Headscale.** The spec is a record of what the properties tell apart:
`manage` (auto_manage), `secret` (the name from apiKeySecretNameFor), `config`
(one of three as the server sees it) and `policy` (the inline policy parses).
`specs` remembers it by generation. A child is the generation it was last
applied from, 0 when it is missing; `Content` says which parts of the spec a kind
depends on, so that an apply that changes nothing makes no event, as with
server-side apply. `Steps` is the order of the applies, and each is an action
`Apply(k)`. The StatefulSet has versions like the object, because Ready is
computed from its cached copy; the other children are never read. The pod
records the generation of its template and the one of the ConfigMap when its
container started. Events of children arrive at once (but for the StatefulSet's),
since nothing depends on when.

**Accounts** instantiates the two reconcilers (through their proof modules, whose
lemmas are then those of its parts) and adds no behaviour of theirs: each of its
steps is a step of one of them, but for a refused mint and a joint restart. What
it ties together: the `hsUser` of `HeadscalePreAuthKey` is not a variable here but `OwnerSeen`, what
the cache shows of the user object; `belongs` is the user each key was minted
for; a mint for a user the server does not have is refused (`KeyRefused`); a
deletion of the server's user may take its keys along (`ServerRemovesKeys`, both
ways, as the code relies on neither); the garbage collector deletes keys whose
owner is gone; a restart hits both workers.

**Slips.** An operator commented "A slip:" is a mistake that could be made in
the definition below it (a dropped guard, a forgotten reset, a swapped order).
No specification uses it. Each property was tried against the specification with
such an operator in place of the right one, and refuted; `PROJECT.json` pairs
them up under "mutants".

## What is assumed of the environment

Not in the repository, but relied upon by its code:

- **Reads** by `r.Get` and `r.List` come from the informer cache
  (`mgr.GetClient()`), which receives the versions of an object one at a time and
  in order; it may be arbitrarily far behind, and different objects are behind
  by different amounts. The sidecar uses a client without a cache.
- **Writes.** Update and Status().Update are refused when the copy is not the
  latest version. Status().Patch with MergeFrom carries no resourceVersion: it
  applies to whatever is stored, if the object still exists.
- **Deletion** marks an object that has a finalizer, and removes it at once when
  it has none. A Secret whose controller has gone is garbage-collected.
- **The queue** holds a key once and is worked off first in, first out by one
  worker (no controller sets MaxConcurrentReconciles). A key that is added while
  it is processed comes back afterwards.
- **The CRDs' validation rules** make `spec.username` immutable and refuse the
  pre-auth key specs that would be reported as InvalidSpec.
- **The Headscale database** has unique usernames and never reuses an ID, and a
  deletion of an unknown row is an error. Accordingly the `Found`, `Insert` and
  `Delete` operators are models of a service outside the repository.

Third parties act in every model: objects are created, edited and deleted, a
Headscale comes and goes, an administrator uses the command line, the manager or
the sidecar is killed.

### Fairness

`WF(Step)`: a worker with a call to make makes it (a call that hangs is cut off
by its context and is then a failing one). `SF(Reconcile(k))`: the queue is
first in, first out, so a key that keeps coming back to it is taken; weak
fairness would not do, because the guard is false while the worker is busy.
`WF(Deliver)`: watch events arrive. `WF(Timer)`: a RequeueAfter ends.
`WF(Resync)`, for users and keys: the informer's resync enqueues every object
now and then, since these two controllers have no predicate.
`HeadscaleAutoApprover` has **no** fair resync: its predicates drop updates that
change neither the generation nor the deletion timestamp, which is what a resync
looks like, and its liveness must come from events alone. `Headscale` has a
single key, so weak fairness of `Worker` is enough; it needs no resync either,
but the controllers of the cluster run (`WF(Surroundings)`). `Accounts` has
the fairness of both reconcilers without the resyncs, and of the garbage
collector. Nothing is assumed of users, administrators, crashes or failures, and
`ApiKeyManager` claims no liveness at all.

### Bounds

`Bounds` is a set of records, boxes: a step is allowed as long as the counters
stay inside one of them. So one run covers, say, one object with several
incidents and two objects with one, without the product of both.

| In `Bounds` | Meaning |
|---|---|
| `objects` | custom resources created in a behaviour |
| `faults` | failed calls, lost answers and restarts (in `Headscale`, exits of the container too) |
| `edits` | third-party writes to the objects (deletions are free: once per object) |
| `admin` | changes of Headscale, its policy, its tables, the HeadscaleUser, or the children, by hand |
| `lag` | by how many versions the caches of `HeadscalePreAuthKey` may be behind when a pass begins |
| `gens` | generations of the spec of a Headscale |
| `managers`, `time` | sidecars that come up; the last instant of `ApiKeyManager` |

`MaxLag` bounds the same staleness in `HeadscaleUser` and `HeadscaleAutoApprover`,
and in `Accounts` that of the user's worker; in `Headscale` it bounds the events on their way at any time. `MaxEntries` and
`MaxTags` bound the input of `PolicyDocument`.

One or two incidents of each kind are enough to reach every error path, and the
interesting cases (an incident between two calls, an incident while a retry is
under way) need no more. Staleness is bounded at the *start* of a pass only;
during a pass the cache may fall behind by any number of versions. One or two
versions of lag suffice to show the reconciler its object before its last one or
two writes, and it writes at most three times per pass. Where a property or a
run is restricted to caches in step, it states the weaker claim "if the cache
has caught up when a pass begins" on purpose: the same property without it is
refuted, by another run. In `HeadscalePreAuthKey` the delays of 10 s and 30 s and
the resync are assumed to be long for a watch event (`CaughtUp`).

## The runs

Each is a `.cfg` for the MC module named in `PROJECT.json`. Deadlock is not
checked, because in all models everything may have happened that the bounds
allow: all objects deleted, or (the sidecar) the last instant reached.

| Run | Instance | Shows |
|---|---|---|
| `user` | lag 1; one object with a fault, an edit and two changes by hand, or two objects of one username with a fault or a change | `FinalizerBeforeCreate`, `RecordedIdOwned`, `DeletesOnlyOwnUser`, `ClearedOnlyIfMissing`: nobody takes, clears or deletes another's user. `UnsettledHasWork`: the returns without a requeue lose no wake-up. `LeftBehindPaidFor`: without a failure, a restart or a change by hand, an object whose ID was recorded takes its user along, whatever old copies, conflicts, edits and rivals there are. `Converges`: deletions complete, and once things are quiet, Ready says just whether Headscale is there and has the user; `ReadyWhenUndisturbed`: an object left alone gets its user for good, despite passes that act on copies older than the last write |
| `user_edit_race` | one object, lag 2, one metadata edit | **violated**: `EventuallyReady` |
| `key` | one object in step with a fault, an edit and a change by hand; one behind by a version with a fault or an edit; two of one Secret, in step, with a fault | `FinalizerBeforeMint`; `DeletesOnlyOwnKey`, also when a pass sees an object from before its key was recorded; `RecordedKeyInSecret`; `LeaksBounded` (each leaked key is paid for by a failure, an edit, a deletion, or a shared Secret that was collected); `DeletionCompletes`, the Secret included (removed by handleDeletion or through its controller reference); `StatusConverges` |
| `key_minted_twice` | one object, lag 2, no incident at all | **violated**: `ReadyKeyInSecret` |
| `apikey` | keys that their prefix names or not, as it happens; one sidecar over several rotations with three faults; two that race up to and through the first rotation, with two faults | `PublishedKeyNotRevoked`, through races, crashes, lost answers, a deleted or garbled Secret; `KeyNeverLapses` as long as the failures cost less than the buffer (each costs at most an attempt and a retry delay: 3 x 2 < 7); `MintsPaced`: one key per rotation and at most one more per fault, so that restarts, conflicts and retries do not mint in a burst; `KeepsPromise`: the refinement of `PublishedKey` |
| `apikey_old_keys` | one sidecar, no incident, prefixes that name no key | **violated**: `OldKeysExpired` |
| `approver` | the object itself in step, siblings and Headscales at any lag; one approver that may move between two Headscales, with any two incidents; two approvers with one | `ReadyMeansApplied`, `FinalizedLeavesNoEntries`, `DeletionCompletes`, `PolicyConverges`, `StatusConverges`, without resyncs |
| `approver_stuck` | one approver, lag 1, one fault, one change by hand | **violated**: `StatusConverges` |
| `policy_document` | two CIDRs, two tags, up to two entries, every inline policy | `Merged`: per CIDR the union of the tags, and the exit node tags, sorted and each once, the other keys of the inline policy untouched, against set definitions; `OrderIndependent` |
| `headscale_workload` | three specs that differ in Secret, management, config and policy; lag 1; one edit and one fault, or one change by hand | `RunsHashedConfig`; `StatusAfterChildren`; `SecretDeleted`; `DeletesOnlyManagedSecret`; `ChildrenConverge` (the children of the last spec, or none after a deletion, which does not hang), from events and returned errors alone; `StatusConverges`, for a crashing container too; `RunsLastConfig`: a fix reaches a crashing pod, which its StatefulSet would not replace, through the ConfigMap, and a healthy one through the config hash |
| `accounts` | one user object, one key, one fault, caches in step | `KeyBelongsToOwner`: the recorded key works and is the recorded user's; `KeyGoneWithObject`; `CascadeCompletes`. (The two invariants hold of `MaxLag = 2` as well, at seven times the states, and are proved for any lag; the liveness is checked in step only, because of its cost) |
| `accounts_order` | the same, no incident at all | **violated**: `FinalizerRunsFirst` |

The run with symmetry (`apikey`) checks no liveness.

## The proofs

TLAPS proves the following for **every** value of the constants: any number of
objects, names, Headscales or sidecars, any specs, any lag, any number of
incidents. The proofs assume the `ASSUME`s of the modules: that `Username` and
`SecretName` are functions into the names, that `NoUser` and `NoKey` are no
objects, that the pre-auth key objects are finitely many (they are counted),
that tags and bounds, the lags among them, are natural numbers, that a prefix
names its key or does not (`PrefixNames`), and that the rotation buffer is smaller
than a key's lifetime (which `NewManager` enforces). One theorem has a hypothesis
besides, `Affordable`; the run `apikey` evaluates it of its own constants.

| Module | Theorem | Statement |
|---|---|---|
| `ApiKeyManagerProofs` | `TypeCorrect` | `Spec => []TypeOK` |
| | `RotationSafe` | `Spec => []PublishedKeyNotRevoked` |
| | `AnnotationTrue` | `Spec => []AnnotationMatchesKey` |
| | `RotationInTime` | `Affordable => (Spec => []KeyNeverLapses)` |
| | `MintsSafe` | `Spec => []MintsPaced` |
| | `Refines` | `Spec => KeepsPromise`: `ApiKeyManager` implements `PublishedKey` |
| `HeadscaleUserProofs` | `TypeCorrect`, `FinalizerSafe` | `[]TypeOK`, `[]FinalizerBeforeCreate` |
| | `RecordedSafe`, `DeletionSafe`, `ClearingSafe` | `[]RecordedIdOwned`, `DeletesOnlyOwnUser`, `ClearedOnlyIfMissing` |
| | `NothingLeftBehind`, `WakeUpSafe` | `[]LeftBehindPaidFor`, `[]UnsettledHasWork` |
| `HeadscalePreAuthKeyProofs` | `TypeCorrect`, `FinalizerSafe`, `DeletionSafe` | `[]TypeOK`, `[]FinalizerBeforeMint`, `DeletesOnlyOwnKey` |
| | `RecordedSafe`, `LeaksSafe` | `[]RecordedKeyInSecret`, `[]LeaksBounded` |
| `HeadscaleProofs` | `TypeCorrect`, `HashSafe`, `StatusSafe` | `[]TypeOK`, `[]RunsHashedConfig`, `[]StatusAfterChildren` |
| | `DeletionSafe`, `ManagedSafe` | `[]SecretDeleted`, `DeletesOnlyManagedSecret` |
| `HeadscaleAutoApproverProofs` | `TypeCorrect`, `ReadySafe`, `FinalizedSafe` | `[]TypeOK`, `[]ReadyMeansApplied`, `[]FinalizedLeavesNoEntries` |
| `AccountsProofs` | `KeyBelongsSafe`, `KeyGoneSafe` | `[]KeyBelongsToOwner`, `[]KeyGoneWithObject` |
| | `FinalizersSafe` | `[](U!FinalizerBeforeCreate /\ K!FinalizerBeforeMint)` |
| `PolicyDocumentProofs` | `TypeCorrect`, `MergeSafe`, `OrderSafe` | `[]PolicyInv` (its types, and no approver without an entry), `[]Merged`, `[]OrderIndependent` |

Every invariant was checked by TLC before it was proved. Two properties changed
when their proofs were attempted: `LeaksBounded` did not count a Secret that two
objects share and that is collected with one of them while the worker is about to
write it for the other (`Bereaving`), and is false without that; and
`LeftBehindPaidFor` paid each user left behind by an incident of its own, which
is false for two names (one Headscale that goes away leaves all its users behind);
it now says that without incidents nothing is left behind.

### Reconcilers: an old copy and what is stored

All proofs about reconcilers have the same shape, because the difficulty is the
same: the worker decides on a copy that may be older than what is stored by any
number of versions. A first group of lemmas says what a step may do to the
versions of an object (`Evolution`, with `NewVersion` for what the worker or
anybody else may write) and to the pass of the worker (`PassEvolution`: begins,
goes on, ends). `KubeObjectProofs` then says what a write, a watch event and a
relist do to the set and the order of the versions, and what is `Lasting`: true
of all versions after the first it is true of. So the invariants are about all
versions in flight, and each needs a case per kind of step and not per action.

**FinalizerSafe** (of users, and likewise of keys). `HistoryInv`: after a version
that is being deleted none is live (`VersionsOrdered`), a finalizer on a live
version is still stored (`FinalizerStays`), and only an existing object has one
(`FinalizerExists`). `WorkerInv` carries that through a pass: in the deletion
branch all versions left are past the deletion, and from `getHeadscale` on the
copy and the stored object hold the finalizer. The heart is `RemoveFinalizer`: it
needs a fresh copy that is being deleted, so it cannot take the finalizer from an
object the worker will again see as live.

**RecordedSafe and DeletionSafe** (of users and keys). `OwnershipInv`: the rows
of the table have IDs below `nextId`, and an ID in any version or in the worker's
copy is `Owned`: issued, and if a row has it, that row was created for the object.
`ClearingSafe` adds that a copy that is fresh enough to be written still has the
stored ID (`CopyInv`), so that what `verifyUser` has found missing is what is
cleared; nobody can get that ID back in between.

**NothingLeftBehind.** In runs without incidents (`Quiet`) an ID in any version
or copy is `Kept`: its row is there, or the object is `Finished`, that is, past
its deletion in all versions, with no pass under way that could create, and
without a row. `RowInv` (a row bears the name of the object it was created for;
an ID on a live version implies the finalizer) makes this inductive.

**WakeUpSafe.** A pass that ends without a requeue leaves the object settled or
`Awaited` (queued, or with an event on its way). For the stored object that
follows from the copy: `CopyTrue` says that the copy is what is stored, or an
event is under way, and `CopySettled` that a condition is patched to a Ready
reason only of a copy that is settled.

**RecordedSafe and LeaksSafe** of keys hold while the caches are in step when a
pass begins (`lag = 0`; `key_minted_twice` shows why). `SecretInv`: the copy has
the stored ID, so nothing is minted for an object with a key; and between the
write of the Secret and the record of the ID nobody writes an unshared Secret.
`LeaksPaid` is an accounting: the leaked keys, and one more if the minted key is
`Doomed` (the pass can no longer record it), are at most the incidents so far.
Each step is shown to leak only what it pays for or what was doomed.

**Headscale.** Types depend on where generations come from, so `BaseInv` has both.
`SeenInv`: generations only grow in the cache, and no child, pod or status is of
a generation the worker has not seen; hence an apply never goes back.
`OrderInv`: when the worker is about to make a call, each child before it in
`Steps` is as new as the copy or has been deleted since; this gives
`StatusSafe`, and with `HashInv` (a ConfigMap that exists is as new as the
template and the pod) `HashSafe`. `DeletionInv` and `SecretInv` (`RetiredInv`)
are about the finalizer, as above: without it nothing was applied and nothing
runs, and when it is about to be removed the managed Secret is gone or was
written late.

**HeadscaleAutoApprover.** `BaseInv`: each generation has one spec, generations
only grow, a deletion lasts (`Numbered`). `ReadyInv`: the condition is true only
of a generation the cache has shown, so that a pass of a sibling which is about
to push has rendered every object that reports PolicyApplied there, and its own;
thus no push of an old document takes an entry away. `LeftInv`: an entry in a
policy, in a document about to be pushed or due from a cached version is
`Accounted` for: its object is still there and refers to this Headscale, or it
is known to be left. None of it needs the caches to be in step.

### Users and keys together: one invariant from two

`Accounts` instantiates the two proof modules with the two reconcilers, so their
lemmas about a step (`U!RowStep`, `K!OwnershipStep`, and what a step may do to
versions, pass and table) hold of the steps of the composition. Their theorems do
not: they are about behaviours in which nobody else acts. `StepKinds` sorts the steps of
`Accounts` into those of the user's reconciler (`UserSide`), those of the keys'
(`KeySide`), and the two that neither has alone: a mint the server refuses, and a
restart of both. A step of one side leaves the invariant of the other
(`UserUntouched`, `KeysUntouched`): it writes no variable that this is about, except
for the rows the server removes with their user, the counters of incidents, and
what the keys' side sees of the user object, which the invariant does not
depend on beyond their types.

What relates the two is `LinkInv`, with two facts about the user (`UserInv`). The
server creates one user in all (`OneUser`): after the deletion pass has removed it
all versions are past the deletion and no pass creates another. And an ID that is
recorded lasts (`IdLasts`): to clear it, `verifyUser` would have to find a user
missing that only the deletion pass removes. So what `resolveUserID` has returned
to a pass is the user's ID still (`ResolvedInv`) when the key is minted, each key is
minted for that user (`BelongsInv`), and a key that is recorded, or about to be, is
`Kept`: its row is there, or its object is past its deletion, or the user was
removed. `KeyBelongsSafe` follows. For `KeyGoneSafe`, `KeysProtected`: a live
object that records a key has the finalizer, so it goes through handleDeletion;
and when that comes to the finalizer its key has been deleted (`KeyDeleted`),
whether by it or by the server.

TLC checked this invariant with one key and a fault before the proof, and with two
keys of one Secret as far as it got (five million states).

### The sidecar: who can know a key, and when

**RotationSafe and AnnotationTrue.** `PublishedKeyNotRevoked` is not inductive:
a manager about to publish a key that another is about to expire satisfies it.
`RevocationInv` excludes that state by who can know a key: IDs remembered or
stored were handed out (`IdsIssued`), a minted key is in force with the expiry
its minter knows (`MintedInForce`, `MintedExpiry`), until it is published no
Secret and no other manager knows it (`MintedUnknown`, `MintedOnce`), and a
manager that is about to expire a key has replaced it (`OldReplaced`). One case
per call a manager makes; the cases that only touch the database or only forget
are lemmas of their own (`ForgetKeys`, `ReturnForgets`, `PublishKeepsKeys`).

**Refines.** Under `RevocationInv` each step maps to a step of `PublishedKey` or
to a stutter: a mint issues the next ID (`IssueStep`); a write of the Secret
publishes a key that is in force, with its own expiry (`PublishStep`, from
`MintedInForce` and `MintedExpiry`); an expiry withdraws a key that is not in
the Secret (`RevokeStep`, from `OldReplaced`). What a reader does not see is
`Unseen`, and stutters.

**RotationInTime.** `Punctual` bounds, for every place a manager can be in, when
it will have replaced the published key: one that sleeps wakes by then, one that
has failed has a tick left, and a RetryDelay more if it cannot read the annotation.
The bound, `Due`, is the buffer before the expiry and later by what the failures
so far have cost; each failure moves it by as much as it can delay (`MoveInTime`,
`DamageInTime`), a write of the Secret starts it anew (`FreshInTime`), and the
clock cannot pass it, since a manager that runs is at work, has failed, or
sleeps no longer than that (`TickInTime`). `Affordable` says that all failures
together cost less than the buffer. It is a condition on the environment, and
cannot be dropped: a buffer below the retry delay of one hour does let the key lapse.

**MintsSafe.** `MintsPaced` is not inductive: it says nothing of when the next key
will be minted. `Paced` does, of a manager that is the only one (`Sole`). `Extra`
counts the keys beyond the first and one per failure, and `Pace(n)` is the time
that n rotations take, `Expiration - Buffer` each. `Pace(Extra)` has passed; where
the manager may mint (`MayMint`: the Secret cannot be read, a rotation has begun,
or the key it has minted is about to be dropped) so has `Pace(Extra + 1)`; and a
published key was minted, `Expiration` before it expires, after `Pace(Extra)`, so
that when it is due for rotation there is time for one more. One lemma each for
the keys (`PacedStep`) and for who can mint (`MintersStep`, `OnlyManager`). What
the server does with the old key plays no part in it.

### The policy document: folds by induction

What `buildPolicyDocument` computes for lists of any length is an induction over
its loops. The library's induction theorems take an operator as a parameter,
which no prover here can instantiate, so `SetInduction` is stated with a set of
numbers in its place, and proved from the well-foundedness of `<`. From it
follows that the recursion of a fold has a solution (`FoldExists`, for a step
that is a function); for each loop a lemma then turns `FoldLeft` into the values
after each pass (`MergeTagsFold`, `SortedFold`, `CompactFold`, `AddRoutesFold`,
`MergedRoutesFold`), and a lemma about the loop shows what every pass keeps:
`SortedKeeps` (the same elements, in order, nothing repeated that was not),
`CompactKeeps`, `MergeTagsKeeps` (the union, nothing repeated), and
`MergedRoutesKeeps` (`Merging`: per CIDR the tags claimed so far, as a set).

**MergeSafe** follows from these and `PolicyInv`: an approver always has an
entry, so approvers make a section. **OrderSafe** needs one fact more: an
increasing list is determined by its elements (`IncreasingUnique`). The sections
are increasing lists whose elements are a function of what the approvers claim
as a set, which a rearrangement does not change. Sorting is what makes this true:
without it `MergeSafe`'s sets would hold and the lists would differ.

To be reasoned about, the model writes its maps as functions and sorts by
insertion, instead of with the operators of the TLC module, which the provers
do not know.

### Only model-checked

- All liveness, under fairness.

All invariants and action properties of the passing runs are proved; so is the
refinement `KeepsPromise`. The other way round, `PolicyDocumentProofs!TypeCorrect`
and `AnnotationTrue` are proved and not listed in a run.

## What the code does not keep

Five claims of the repository that a run refutes. They are stated as properties
and kept as runs that must find the violation.

- `user_edit_race`. CreateUser takes effect before the Status().Update that
  records the ID (`headscaleuser_controller.go:250`). If anybody writes to the
  object in between (a label is enough), the update conflicts, only the
  condition is patched, and each retry calls CreateUser again and is refused
  because the name is taken: `status.userId` stays empty for good.
- `key_minted_twice`. The check of `status.keyId` reads the cache
  (`headscalepreauthkey_controller.go:102`). A pass that begins before the last
  status update has arrived there mints again and overwrites the Secret, and
  only then meets the conflict: the status names the first key, the Secret holds
  the second, and deletion removes the first.
- `apikey_old_keys`. `rotateAPIKey` sends the first eight characters of the old key
  to ExpireAPIKey (`internal/apikey/manager.go:184`). The keys of the server it is
  built against (headscale v0.29.4 in `go.mod`; the server's code is not part of
  the repository) are `hskey-api-<prefix>-<secret>`: those characters are the same
  in all of them and name none. The call fails, the error is logged, and each
  replaced key works until it expires by itself, while
  `cmd/apikey-manager/README.md:215` says that it is expired at once. With
  `PrefixNames = {TRUE}`, keys that begin with their prefix, the claim holds as
  long as nothing fails.
- `approver_stuck`. `setCondition` compares with the cached copy
  (`headscaleautoapprover_controller.go:283`). A push fails and is retried; if the
  retry reads a copy from before the failure was reported it finds PolicyApplied
  there, patches nothing, and PolicyPushFailed stays in the stored object, with
  no event and no resync to bring it back.
- `accounts_order`. The comment at `headscalepreauthkey_controller.go:328` says that
  blockOwnerDeletion makes the key's finalizer run before the HeadscaleUser is
  gone. That holds for a deletion in the foreground only. With the default the
  user goes first, and `accounts` shows that the cascade completes all the same.

Weaker than one might expect, without a run of their own:

- The pod template always sets `serviceAccountName`
  (`headscale_controller.go:587`), but the ServiceAccount is applied only if
  `api_key.auto_manage` is on (`:141`). A Headscale that had it off from the start
  gets a StatefulSet whose pods are not admitted, although README.md:116 calls
  the API key management optional. (One that turned it off later runs: the
  ServiceAccount is not removed.) `RunsLastConfig` is therefore stated of a
  Headscale that has its ServiceAccount.
- An object deleted between CreateUser (or the mint) and the record of the ID
  leaves its user (or key) in Headscale: deletion goes by the recorded ID.
- `verifyUser` goes by name and ignores the ID. A user removed and created again
  by hand passes, and the recorded ID is unknown to the server. This is why
  `RecordedIdOwned` speaks of IDs the database knows.
- Two HeadscalePreAuthKeys with one `secretName` overwrite each other's key.
- When `ExpireAPIKey` fails for another reason the old key stays in force too until
  it expires; nobody tries again. Keys that were minted and not stored are like
  that as well. `MintsPaced` bounds how many there can be.
- The retry delay of the sidecar is one hour, whatever the buffer: a buffer
  below it lets the published key lapse after one failure.
- The created-at annotation of the Secret survives rotations.
- An approver deleted before it had its finalizer leaves what a sibling has
  pushed for it; an approver that moves leaves its entries in the old policy;
  both until the next push there.
- A dropped Headscale event (the map function's list failed) is not made up for.

## What is not modelled

- **Of the workload reconciler**: ports, probes, images, volumes and image pull
  secrets, which are copied from the spec; more than one replica; the text of
  conditions and the events. The ConfigInvalid branch
  (`headscale_controller.go:131-138`) is out of reach: the CRD admits only JSON
  objects as `spec.config`, and those render.
- **A sidecar after the deletion of its Secret.** handleDeletion deletes the
  Secret while the pod still runs, and the sidecar may write it again; nothing
  deletes that one. `Headscale` has the step (`SidecarPublishes`), and `SecretDeleted`
  excuses it, in plain sight. Minting and rotation stay in `ApiKeyManager`.
- **Two Headscales of one user or key.** A `headscaleRef` that is changed on a
  live HeadscaleUser, or that differs between a key and its user, would need two
  databases; no document says what should happen. (Approvers do move, in
  `HeadscaleAutoApprover`.)
- **In `Accounts`**: a Headscale that goes away, users and keys removed by hand,
  metadata edits and resyncs, all of which the modules of the two reconcilers
  have; deletion in the foreground. Its properties are therefore not about a
  user that disappears from under the operator.
- **A `spec.secretName` that is edited** on a live HeadscalePreAuthKey: the name is
  a constant of the object. The Secret of the old name would stay until its owner
  goes.
- **Users renamed in Headscale.** A name in the users table is changed only by
  removing the user and creating another.
- **Applies that are refused for good**, such as a change of an immutable field of
  the StatefulSet: a failed apply is a fault, of which there are finitely many.
- **A pre-auth key's** expiry, tags and flags, and the branches on recorded IDs
  that are not numbers: the operator writes only numbers.
- **The sidecar's** reaction to a Secret without the `api-key` entry, and the end on
  a signal. (A key shorter than eight characters is not sent at all; it is one
  that its prefix does not name.)
- **The parsing of HuJSON.** An inline policy parses or does not. The JSON
  `null` parses to a nil map, to which `buildPolicyDocument` assigns; that panic
  is listed under the hazards.
- **GetPolicy, ListAPIKeys** change nothing.
- **Operator entry point** (`cmd/main.go`): flags, wiring, health endpoints.
  Generated code, manifests, the Helm chart and dashboards.

## Plan

Written so far, in order of importance: `KubeObject`, `HeadscaleUser`,
`ApiKeyManager`, `HeadscalePreAuthKey`, `HeadscaleAutoApprover`,
`PolicyDocument`, the first proofs, `Headscale`, `PublishedKey` with its
refinement, `Accounts`, and the theorems about the reconcilers, the sidecar, `Accounts` and `PolicyDocument`. Next:

1. A second Headscale, for references that change or differ.
2. Foreground deletion in `Accounts`.

To run: `tlc -config user.cfg MCHeadscaleUser`, and so on for each row of
the table above; `tlapm HeadscaleUserProofs.tla`, and so on for each module with
theorems. Each takes a few minutes at most.
