---------------------------- MODULE ApiKeyManager ----------------------------
(***************************************************************************)
(* The API key sidecar: internal/apikey/manager.go, secret_manager.go and  *)
(* the loop of cmd/apikey-manager/main.go.                                 *)
(*                                                                         *)
(* Each pod of a Headscale StatefulSet runs one manager.  Together they    *)
(* keep one API key published in one Secret, from which the operator reads *)
(* it: a manager mints a key, writes it to the Secret and expires the key  *)
(* it replaces.  They share the database and the Secret and nothing else.  *)
(* PublishedKey states what this is to promise whoever reads the Secret.   *)
(*                                                                         *)
(* Time is discrete.  An attempt that fails takes until the next tick;     *)
(* all else a manager does between two sleeps takes no time.               *)
(***************************************************************************)
EXTENDS Integers, FiniteSets

CONSTANTS
  Managers,    \* the sidecars
  Expiration,  \* lifetime of a key
  Buffer,      \* a key is rotated this long before it expires
  RetryDelay,  \* sleep when the next rotation cannot be computed (1 hour)
  PrefixNames, \* whether the first 8 characters of a key name it to the server
  Bounds       \* how many managers and failures may meet, and until when

\* NewManager refuses a buffer that is not smaller than the lifetime.
ASSUME BufferAssumption ==
  /\ {Expiration, Buffer, RetryDelay} \subseteq Nat
  /\ Buffer < Expiration
\* They do or do not, as the server's format of keys has it; where both are
\* possible, one key may be named and another not.
ASSUME PrefixAssumption == PrefixNames \in (SUBSET BOOLEAN) \ {{}}
ASSUME BoundsAssumption == Bounds \subseteq [managers : Nat, faults : Nat, time : Nat]

VARIABLES
  now,      \* the time
  db,       \* API keys in the Headscale database that nobody has expired
  nextId,   \* the next key the database hands out
  secret,   \* the Secret
  started,  \* managers whose Headscale has answered once
  pc,       \* the call each manager is about to make
  booted,   \* it is past the first EnsureAPIKey, in the main loop
  old,      \* the key it will expire, 0 for none
  new,      \* the key it has minted
  base,     \* its copy of the Secret: none there, the current one, an old one
  wake,     \* when it wakes up
  stalled,  \* its last attempt failed in this tick
  faults    \* failed calls, crashes and damage to the Secret so far

memory == <<pc, booted, old, new, base, wake, stalled>>
vars == <<now, db, nextId, secret, started, pc, booted, old, new, base, wake, stalled,
          faults>>

-----------------------------------------------------------------------------
(* Values.                                                                 *)

Key == [id : Nat, expires : Nat]
NoKey == [id |-> 0, expires |-> 0]

\* The Secret's key and its expiration annotation; key is 0 when there is no
\* Secret, expires when the annotation cannot be read.
Secret == [key : Nat, expires : Nat]
NoSecret == [key |-> 0, expires |-> 0]

Pcs == {"wait", "ensure", "getOld", "mint", "readSecret", "writeSecret",
        "expireOld", "plan", "sleep"}

TypeOK ==
  /\ now \in Nat
  /\ db \subseteq Key
  /\ nextId \in Nat \ {0}
  /\ secret \in Secret
  /\ started \subseteq Managers
  /\ pc \in [Managers -> Pcs]
  /\ booted \in [Managers -> BOOLEAN]
  /\ old \in [Managers -> Nat]
  /\ new \in [Managers -> Key]
  /\ base \in [Managers -> {"absent", "current", "outdated"}]
  /\ wake \in [Managers -> Nat]
  /\ stalled \in [Managers -> BOOLEAN]
  /\ faults \in Nat

Init ==
  /\ now = 0 /\ db = {} /\ nextId = 1 /\ secret = NoSecret /\ faults = 0
  /\ started = {}
  /\ pc = [m \in Managers |-> "wait"]
  /\ booted = [m \in Managers |-> FALSE]
  /\ old = [m \in Managers |-> 0]
  /\ new = [m \in Managers |-> NoKey]
  /\ base = [m \in Managers |-> "absent"]
  /\ wake = [m \in Managers |-> 0]
  /\ stalled = [m \in Managers |-> FALSE]

-----------------------------------------------------------------------------
(* Steps the actions are built from.                                       *)

At(m, label) == pc[m] = label /\ ~stalled[m]
Goto(m, label) == pc' = [pc EXCEPT ![m] = label]

Within(managers, f, time) ==
  \E b \in Bounds :
    Cardinality(managers) <= b.managers /\ f <= b.faults /\ time <= b.time

Fault == Within(started, faults + 1, now) /\ faults' = faults + 1

\* EnsureAPIKey returns without an error.
Ensured(m) ==
  /\ Goto(m, "plan")
  /\ booted' = [booted EXCEPT ![m] = TRUE]
  /\ old' = [old EXCEPT ![m] = 0] /\ new' = [new EXCEPT ![m] = NoKey]
  /\ base' = [base EXCEPT ![m] = "absent"]
  /\ UNCHANGED <<wake, stalled>>

\* EnsureAPIKey returns an error: at startup the process exits and the
\* container is restarted, in the main loop it is logged.
Failed(m) ==
  /\ Goto(m, IF booted[m] THEN "plan" ELSE "wait")
  /\ stalled' = [stalled EXCEPT ![m] = TRUE]
  /\ old' = [old EXCEPT ![m] = 0] /\ new' = [new EXCEPT ![m] = NoKey]
  /\ UNCHANGED <<booted, wake>>

\* A write to the Secret outdates the copies that others hold.
Outdated(m) == IF base[m] = "current" THEN "outdated" ELSE base[m]

-----------------------------------------------------------------------------
(* WaitForHeadscale.                                                       *)

\* The server of its pod answers.
HeadscaleReady(m) ==
  /\ At(m, "wait")
  /\ Within(started \cup {m}, faults, now)
  /\ started' = started \cup {m}
  /\ Goto(m, "ensure")
  /\ UNCHANGED <<now, db, nextId, secret, booted, old, new, base, wake, stalled, faults>>

\* It does not within the retries: the process exits and is restarted.
HeadscaleNotReady(m) ==
  /\ At(m, "wait") /\ m \in started /\ Fault
  /\ Failed(m)
  /\ UNCHANGED <<now, db, nextId, secret, started, base>>

-----------------------------------------------------------------------------
(* EnsureAPIKey.                                                           *)

\* The Secret is there and its expiration annotation parses.
Readable == secret.expires # 0

\* time.Now().After: the clock has moved past the instant the timer was set
\* to when it fires.
ShouldRotate == now >= secret.expires - Buffer

Ensure(m) ==
  /\ At(m, "ensure")
  /\ \/ /\ ~Readable
        /\ Goto(m, "mint") /\ UNCHANGED <<booted, old, new, base, wake, stalled>>
     \/ /\ Readable /\ ShouldRotate
        /\ Goto(m, "getOld") /\ UNCHANGED <<booted, old, new, base, wake, stalled>>
     \/ /\ Readable /\ ~ShouldRotate
        /\ Ensured(m)
  /\ UNCHANGED <<now, db, nextId, secret, started, faults>>

EnsureFails(m) ==
  /\ At(m, "ensure") /\ Fault
  /\ Failed(m)
  /\ UNCHANGED <<now, db, nextId, secret, started, base>>

\* rotateAPIKey reads the Secret again to learn the key it replaces.
GetOld(m) ==
  /\ At(m, "getOld")
  /\ old' = [old EXCEPT ![m] = secret.key]
  /\ Goto(m, "mint")
  /\ UNCHANGED <<now, db, nextId, secret, started, booted, new, base, wake, stalled, faults>>

\* When it cannot, it goes on and will expire nothing.
GetOldFails(m) ==
  /\ At(m, "getOld") /\ Fault
  /\ Goto(m, "mint")
  /\ UNCHANGED <<now, db, nextId, secret, started, booted, old, new, base, wake, stalled>>

Issue(key) == db' = db \cup {key} /\ nextId' = nextId + 1

\* A slip: the lifetime is subtracted.
NewKeyExpired == [id |-> nextId, expires |-> now - Expiration]

NewKey == [id |-> nextId, expires |-> now + Expiration]

Mint(m) ==
  /\ At(m, "mint")
  /\ Issue(NewKey)
  /\ new' = [new EXCEPT ![m] = NewKey]
  /\ Goto(m, "readSecret")
  /\ UNCHANGED <<now, secret, started, booted, old, base, wake, stalled, faults>>

MintFails(m) ==
  /\ At(m, "mint") /\ Fault
  /\ Issue(NewKey) \/ UNCHANGED <<db, nextId>>
  /\ Failed(m)
  /\ UNCHANGED <<now, secret, started, base>>

\* CreateOrUpdateSecret: a Get, then a Create or an Update of what it found.
ReadSecret(m) ==
  /\ At(m, "readSecret")
  /\ base' = [base EXCEPT ![m] = IF secret.key = 0 THEN "absent" ELSE "current"]
  /\ Goto(m, "writeSecret")
  /\ UNCHANGED <<now, db, nextId, secret, started, booted, old, new, wake, stalled, faults>>

ReadSecretFails(m) ==
  /\ At(m, "readSecret") /\ Fault
  /\ Failed(m)
  /\ UNCHANGED <<now, db, nextId, secret, started, base>>

\* AlreadyExists, NotFound and Conflict are refusals.
Acceptable(m) == base[m] = "current" \/ (base[m] = "absent" /\ secret.key = 0)

\* A slip: an update keeps the expiration annotation too.
PublishKeyOnly(m) ==
  /\ secret' = IF secret.key = 0
               THEN [key |-> new[m].id, expires |-> new[m].expires]
               ELSE [secret EXCEPT !.key = new[m].id]
  /\ base' = [n \in Managers |-> Outdated(n)]

\* The key and its expiration annotation are written as one; the created-at
\* annotation is left out.
Publish(m) ==
  /\ secret' = [key |-> new[m].id, expires |-> new[m].expires]
  /\ base' = [n \in Managers |-> Outdated(n)]

\* What follows a write that worked.
AfterPublish(m) == Goto(m, "expireOld") /\ UNCHANGED <<booted, old, new, wake, stalled>>

WriteSecret(m) ==
  /\ At(m, "writeSecret") /\ Acceptable(m)
  /\ Publish(m)
  /\ AfterPublish(m)
  /\ UNCHANGED <<now, db, nextId, started, faults>>

\* The new key is dropped; nobody will expire it.
WriteSecretFails(m) ==
  /\ At(m, "writeSecret")
  /\ \/ ~Acceptable(m) /\ UNCHANGED <<secret, base, faults>>
     \/ Fault /\ UNCHANGED <<secret, base>>
     \/ Fault /\ Acceptable(m) /\ Publish(m)
  /\ Failed(m)
  /\ UNCHANGED <<now, db, nextId, started>>

\* A slip: the key that is in the Secret by now is expired.
RevokePublished(m) == db' = {k \in db : k.id # secret.key}

\* The keys ExpireAPIKey leaves in force.  It is sent the first 8 characters of
\* the old key for a prefix; a prefix that names no key is an error, and an
\* error is logged and forgotten.
Revoke(m) ==
  \E named \in PrefixNames : db' = IF named THEN {k \in db : k.id # old[m]} ELSE db

ExpireOld(m) ==
  /\ At(m, "expireOld")
  /\ Revoke(m)
  /\ Ensured(m)
  /\ UNCHANGED <<now, nextId, secret, started, faults>>

\* No answer: the rotation counts as complete too.
ExpireOldFails(m) ==
  /\ At(m, "expireOld") /\ old[m] # 0 /\ Fault
  /\ Revoke(m) \/ UNCHANGED db
  /\ Ensured(m)
  /\ UNCHANGED <<now, nextId, secret, started>>

-----------------------------------------------------------------------------
(* The main loop.                                                          *)

SleepUntil(m, time) ==
  /\ Goto(m, "sleep") /\ wake' = [wake EXCEPT ![m] = time]
  /\ UNCHANGED <<booted, old, new, base, stalled>>

\* A slip: the buffer is forgotten.
RotationTimeAtExpiry == IF secret.expires > now THEN secret.expires ELSE now

\* CalculateNextRotation.
RotationTime == IF secret.expires - Buffer > now THEN secret.expires - Buffer ELSE now

Plan(m) ==
  /\ At(m, "plan")
  /\ SleepUntil(m, IF Readable THEN RotationTime ELSE now + RetryDelay)
  /\ UNCHANGED <<now, db, nextId, secret, started, faults>>

PlanFails(m) ==
  /\ At(m, "plan") /\ Fault
  /\ SleepUntil(m, now + RetryDelay)
  /\ UNCHANGED <<now, db, nextId, secret, started>>

Wake(m) ==
  /\ At(m, "sleep") /\ now >= wake[m]
  /\ Goto(m, "ensure")
  /\ UNCHANGED <<now, db, nextId, secret, started, booted, old, new, base, wake, stalled, faults>>

-----------------------------------------------------------------------------
(* The surroundings.                                                       *)

\* The container dies and is restarted.
Crash(m) ==
  /\ m \in started /\ Fault
  /\ Goto(m, "wait")
  /\ booted' = [booted EXCEPT ![m] = FALSE]
  /\ old' = [old EXCEPT ![m] = 0] /\ new' = [new EXCEPT ![m] = NoKey]
  /\ base' = [base EXCEPT ![m] = "absent"]
  /\ stalled' = [stalled EXCEPT ![m] = TRUE]
  /\ UNCHANGED <<now, db, nextId, secret, started, wake>>

\* The operator deletes the Secret with the Headscale object, or a user does.
DeleteSecret ==
  /\ Fault
  /\ secret.key # 0 /\ secret' = NoSecret
  /\ base' = [n \in Managers |-> Outdated(n)]
  /\ UNCHANGED <<now, db, nextId, started, pc, booted, old, new, wake, stalled>>

\* Somebody removes or garbles the expiration annotation.
SpoilAnnotation ==
  /\ Fault
  /\ Readable /\ secret' = [secret EXCEPT !.expires = 0]
  /\ base' = [n \in Managers |-> Outdated(n)]
  /\ UNCHANGED <<now, db, nextId, started, pc, booted, old, new, wake, stalled>>

Waiting(m) ==
  m \notin started \/ stalled[m] \/ (pc[m] = "sleep" /\ wake[m] > now)

Tick ==
  /\ Within(started, faults, now + 1)
  /\ \A m \in Managers : Waiting(m)
  /\ now' = now + 1
  /\ stalled' = [m \in Managers |-> FALSE]
  /\ UNCHANGED <<db, nextId, secret, started, pc, booted, old, new, base, wake, faults>>

Manager(m) ==
  \/ HeadscaleReady(m) \/ HeadscaleNotReady(m)
  \/ Ensure(m) \/ EnsureFails(m)
  \/ GetOld(m) \/ GetOldFails(m)
  \/ Mint(m) \/ MintFails(m)
  \/ ReadSecret(m) \/ ReadSecretFails(m)
  \/ WriteSecret(m) \/ WriteSecretFails(m)
  \/ ExpireOld(m) \/ ExpireOldFails(m)
  \/ Plan(m) \/ PlanFails(m) \/ Wake(m)
  \/ Crash(m)

Next == (\E m \in Managers : Manager(m)) \/ DeleteSecret \/ SpoilAnnotation \/ Tick

Spec == Init /\ [][Next]_vars

-----------------------------------------------------------------------------
(* Safety.                                                                 *)

\* The key the operator reads from the Secret is never one that a rotation has
\* expired, whatever the managers' races, crashes and lost answers: a manager
\* expires the key it replaced only after its own write succeeded.
PublishedKeyNotRevoked == secret.key # 0 => \E k \in db : k.id = secret.key

\* A failure costs at most an attempt and a RetryDelay; the failures there may be
\* cost less than the buffer.
Cost(f) == f * (RetryDelay + 1)
Affordable == \A b \in Bounds : \A f \in 0..b.faults : Cost(f) < Buffer

\* Rotation is in time: as long as the failures are Affordable, the published key
\* has not expired (ShouldRotate and CalculateNextRotation).
KeyNeverLapses ==
  secret.key # 0 => \E k \in db : k.id = secret.key /\ now < k.expires

\* The annotation tells the truth about the key, also after a write whose
\* answer was lost and a race of two managers.
AnnotationMatchesKey ==
  \A k \in db : k.id = secret.key => secret.expires \in {0, k.expires}

\* A key is minted when the one before it is due for rotation, and otherwise only
\* because of a failure, one for each: retries, restarts and conflicts do not
\* mint in a burst (EnsureAPIKey).  The keys that have not expired by themselves
\* are bounded by this even if no rotation expires any.  (One manager.)
MintsPaced ==
  Cardinality(started) <= 1 =>
    (nextId - 2 - faults) * (Expiration - Buffer) <= now

-----------------------------------------------------------------------------
(* The abstract specification.                                             *)

Promise ==
  INSTANCE PublishedKey WITH
    inForce <- db,
    published <- [id |-> secret.key, expires |-> secret.expires],
    next <- nextId

\* The managers keep the promise of PublishedKey, step by step: none of their
\* races, crashes and lost answers shows the operator a key that the server
\* has been told to expire, or an expiration that is not the key's
\* (rotateAPIKey: create, store, and only then expire).
KeepsPromise == Promise!Spec

-----------------------------------------------------------------------------
(* A claim of the repository that the code does not keep.                  *)

\* "Old API keys are immediately expired when rotation occurs"
\* (cmd/apikey-manager/README.md): when all managers sleep, the only key that
\* works is the published one.  It is stated of runs without a failure
\* (rotateAPIKey).
OldKeysExpired ==
  (\A m \in started : pc[m] = "sleep") =>
    \A k \in db : now < k.expires => k.id = secret.key
=============================================================================
