------------------------- MODULE ApiKeyManagerProofs -------------------------
(***************************************************************************)
(* For any number of API key managers, any lifetime and buffer, and any    *)
(* number of failures: ApiKeyManager is type-correct, the key in the       *)
(* Secret is never one that a rotation has expired, and the managers       *)
(* implement PublishedKey.  If the failures cost less than the buffer, the *)
(* key in the Secret has not expired by itself either.  One manager mints  *)
(* no faster than it rotates.                                              *)
(***************************************************************************)
EXTENDS ApiKeyManager, FiniteSetTheorems, TLAPS

-----------------------------------------------------------------------------
(* Type correctness.                                                       *)

\* The parts of TypeOK that a manager's own memory makes up.
MemoryOK ==
  /\ pc \in [Managers -> Pcs]
  /\ booted \in [Managers -> BOOLEAN]
  /\ old \in [Managers -> Nat]
  /\ new \in [Managers -> Key]
  /\ base \in [Managers -> {"absent", "current", "outdated"}]
  /\ wake \in [Managers -> Nat]
  /\ stalled \in [Managers -> BOOLEAN]

\* A failed call spends one of the failures the model allows, whatever call it
\* is that EnsureAPIKey or the main loop makes.
LEMMA FaultType == ASSUME TypeOK, Fault PROVE faults' \in Nat
  BY DEF TypeOK, Fault

\* Returning from EnsureAPIKey, with or without an error, leaves a manager in
\* one of its states.
LEMMA ReturnType ==
  ASSUME TypeOK, NEW m \in Managers, Ensured(m) \/ (Failed(m) /\ UNCHANGED base)
  PROVE  MemoryOK'
<1>1. CASE Ensured(m)
  BY <1>1 DEF TypeOK, MemoryOK, Ensured, Goto, Pcs, Key, NoKey
<1>2. CASE Failed(m) /\ UNCHANGED base
  BY <1>2 DEF TypeOK, MemoryOK, Failed, Goto, Pcs, Key, NoKey
<1> QED BY <1>1, <1>2

\* A write to the Secret that the API server accepts stores a well-formed
\* Secret and outdates the copies of the others (CreateOrUpdateSecret).
LEMMA PublishType ==
  ASSUME TypeOK, NEW m \in Managers, Publish(m)
  PROVE  secret' \in Secret
         /\ base' \in [Managers -> {"absent", "current", "outdated"}]
  BY DEF TypeOK, Publish, Outdated, Secret, Key

\* Every step of every manager, of the clock and of the surroundings keeps the
\* types of all variables.
LEMMA TypeStep == TypeOK /\ [Next]_vars => TypeOK'
<1> SUFFICES ASSUME TypeOK, [Next]_vars PROVE TypeOK' OBVIOUS
<1>1. ASSUME NEW m \in Managers, Ensure(m) PROVE TypeOK'
  <2>1. MemoryOK'
    BY <1>1, ReturnType DEF Ensure, TypeOK, MemoryOK, Goto, Pcs
  <2> QED BY <1>1, <2>1 DEF Ensure, TypeOK, MemoryOK
<1>2. ASSUME NEW m \in Managers, EnsureFails(m) PROVE TypeOK'
  BY <1>2, FaultType, ReturnType DEF EnsureFails, TypeOK, MemoryOK
<1>3. ASSUME NEW m \in Managers, GetOld(m) PROVE TypeOK'
  BY <1>3 DEF GetOld, TypeOK, Goto, Pcs, Secret
<1>4. ASSUME NEW m \in Managers, GetOldFails(m) PROVE TypeOK'
  BY <1>4, FaultType DEF GetOldFails, TypeOK, Goto, Pcs
<1>5. ASSUME NEW m \in Managers, Mint(m) PROVE TypeOK'
  <2>1. NewKey \in Key
    BY BufferAssumption DEF TypeOK, NewKey, Key
  <2> QED BY <1>5, <2>1 DEF Mint, Issue, TypeOK, Goto, Pcs
<1>6. ASSUME NEW m \in Managers, MintFails(m) PROVE TypeOK'
  <2>1. NewKey \in Key
    BY BufferAssumption DEF TypeOK, NewKey, Key
  <2>2. db' \subseteq Key /\ nextId' \in Nat \ {0}
    BY <1>6, <2>1 DEF MintFails, Issue, TypeOK
  <2>3. MemoryOK' /\ faults' \in Nat
    BY <1>6, FaultType, ReturnType DEF MintFails
  <2> QED BY <1>6, <2>2, <2>3 DEF MintFails, TypeOK, MemoryOK
<1>7. ASSUME NEW m \in Managers, ReadSecret(m) PROVE TypeOK'
  BY <1>7 DEF ReadSecret, TypeOK, Goto, Pcs
<1>8. ASSUME NEW m \in Managers, ReadSecretFails(m) PROVE TypeOK'
  BY <1>8, FaultType, ReturnType DEF ReadSecretFails, TypeOK, MemoryOK
<1>9. ASSUME NEW m \in Managers, WriteSecret(m) PROVE TypeOK'
  BY <1>9, PublishType DEF WriteSecret, AfterPublish, TypeOK, Goto, Pcs
<1>10. ASSUME NEW m \in Managers, WriteSecretFails(m) PROVE TypeOK'
  <2>1. /\ secret' \in Secret /\ faults' \in Nat
        /\ base' \in [Managers -> {"absent", "current", "outdated"}]
    <3>1. CASE UNCHANGED <<secret, base, faults>>
      BY <3>1 DEF TypeOK
    <3>2. CASE Fault /\ UNCHANGED <<secret, base>>
      BY <3>2, FaultType DEF TypeOK
    <3>3. CASE Fault /\ Publish(m)
      BY <3>3, FaultType, PublishType
    <3> QED BY <1>10, <3>1, <3>2, <3>3 DEF WriteSecretFails
  <2> QED BY <1>10, <2>1 DEF WriteSecretFails, Failed, TypeOK, Goto, Pcs, Key, NoKey
<1>11. ASSUME NEW m \in Managers, ExpireOld(m) PROVE TypeOK'
  BY <1>11, ReturnType DEF ExpireOld, Revoke, TypeOK, MemoryOK
<1>12. ASSUME NEW m \in Managers, ExpireOldFails(m) PROVE TypeOK'
  <2>1. db' \subseteq Key
    BY <1>12 DEF ExpireOldFails, Revoke, TypeOK
  <2> QED BY <1>12, <2>1, FaultType, ReturnType DEF ExpireOldFails, TypeOK, MemoryOK
<1>13. ASSUME NEW m \in Managers, Plan(m) PROVE TypeOK'
  <2>1. now + RetryDelay \in Nat /\ RotationTime \in Nat
    BY BufferAssumption DEF TypeOK, RotationTime, Secret
  <2> QED BY <1>13, <2>1 DEF Plan, SleepUntil, TypeOK, Goto, Pcs
<1>14. ASSUME NEW m \in Managers, PlanFails(m) PROVE TypeOK'
  <2>1. now + RetryDelay \in Nat
    BY BufferAssumption DEF TypeOK
  <2> QED BY <1>14, <2>1, FaultType DEF PlanFails, SleepUntil, TypeOK, Goto, Pcs
<1>15. ASSUME NEW m \in Managers, Wake(m) PROVE TypeOK'
  BY <1>15 DEF Wake, TypeOK, Goto, Pcs
<1>16. ASSUME NEW m \in Managers, Crash(m) PROVE TypeOK'
  BY <1>16, FaultType DEF Crash, TypeOK, Goto, Pcs, Key, NoKey
<1>17. CASE DeleteSecret
  BY <1>17, FaultType DEF DeleteSecret, TypeOK, Secret, NoSecret, Outdated
<1>18. CASE SpoilAnnotation
  BY <1>18, FaultType DEF SpoilAnnotation, TypeOK, Secret, Outdated
<1>19. CASE Tick
  BY <1>19, BufferAssumption DEF Tick, TypeOK
<1>20. CASE UNCHANGED vars
  BY <1>20 DEF vars, TypeOK
<1>21. ASSUME NEW m \in Managers, HeadscaleReady(m) PROVE TypeOK'
  BY <1>21 DEF HeadscaleReady, TypeOK, Goto, Pcs
<1>22. ASSUME NEW m \in Managers, HeadscaleNotReady(m) PROVE TypeOK'
  BY <1>22, FaultType, ReturnType DEF HeadscaleNotReady, TypeOK, MemoryOK
<1> QED
  BY <1>1, <1>2, <1>3, <1>4, <1>5, <1>6, <1>7, <1>8, <1>9, <1>10, <1>11, <1>12,
     <1>13, <1>14, <1>15, <1>16, <1>17, <1>18, <1>19, <1>20, <1>21, <1>22
  DEF Next, Manager

\* All managers start at their first EnsureAPIKey, with an empty database and
\* no Secret.
LEMMA InitType == Init => TypeOK
  BY DEF Init, TypeOK, Key, NoKey, Secret, NoSecret, Pcs

\* The database, the Secret and each manager's memory stay in their types,
\* for every number of sidecars of a StatefulSet.
THEOREM TypeCorrect == Spec => []TypeOK
  BY InitType, TypeStep, PTL DEF Spec

-----------------------------------------------------------------------------
(* The published key is in force.                                          *)
(*                                                                         *)
(* PublishedKeyNotRevoked is not inductive: a state in which a manager is  *)
(* about to publish a key that another is about to expire satisfies it,    *)
(* and the next two steps break it.  What excludes such states is that a   *)
(* key id is handed out once, so that a key which is minted but not yet    *)
(* published is known to its minter alone.                                 *)

Minted(m) == pc[m] \in {"readSecret", "writeSecret"}

\* No id that a manager remembers is one the database will still hand out.
IdsIssued ==
  /\ secret.key < nextId
  /\ \A k \in db : 0 < k.id /\ k.id < nextId
  /\ \A m \in Managers : new[m].id < nextId /\ old[m] < nextId

\* A key on its way to the Secret is in force.
MintedInForce == \A m \in Managers : Minted(m) => \E k \in db : k.id = new[m].id

\* Its minter knows when it expires.
MintedExpiry ==
  \A m \in Managers : Minted(m) =>
    \A k \in db : k.id = new[m].id => k.expires = new[m].expires

\* It is neither published yet nor the key that any manager is going to expire.
MintedUnknown ==
  \A m, n \in Managers :
    Minted(m) => new[m].id # 0 /\ new[m].id # secret.key /\ new[m].id # old[n]

MintedOnce ==
  \A m, n \in Managers : Minted(m) /\ Minted(n) /\ m # n => new[m].id # new[n].id

\* A manager that reached the call of ExpireAPIKey expires a key the Secret no
\* longer holds.
OldReplaced ==
  \A m \in Managers : pc[m] = "expireOld" /\ old[m] # 0 => old[m] # secret.key

KeyInv ==
  /\ IdsIssued /\ MintedInForce /\ MintedExpiry /\ MintedUnknown /\ MintedOnce
  /\ OldReplaced /\ PublishedKeyNotRevoked /\ AnnotationMatchesKey

RevocationInv == TypeOK /\ KeyInv

\* What a step without a write to the Secret may do to the database: nothing,
\* hand out a key (CreateAPIKey), or expire the key a manager replaced.
DatabaseStep(m) ==
  /\ UNCHANGED secret
  /\ \/ UNCHANGED <<db, nextId>>
     \/ Issue(NewKey)
     \/ Revoke(m) /\ pc[m] = "expireOld" /\ UNCHANGED nextId

\* The managers other than m keep what they know about keys.
OthersKeep(m) == \A n \in Managers \ {m} : UNCHANGED <<pc[n], new[n], old[n]>>

\* m ends outside of a mint, a write or an expiry, and knows no more than before.
Forgets(m) ==
  /\ ~Minted(m)' /\ pc'[m] # "expireOld"
  /\ new'[m] \in {NoKey, new[m]} /\ old'[m] \in {0, old[m]}

\* A manager that returns from EnsureAPIKey, crashes, sleeps or wakes forgets
\* keys and learns none, whether or not its last call reached the database.
LEMMA ForgetKeys ==
  ASSUME RevocationInv, TypeOK', NEW m \in Managers,
         DatabaseStep(m), OthersKeep(m), Forgets(m)
  PROVE  KeyInv'
<1> USE DEF RevocationInv, KeyInv
<1>0. /\ old \in [Managers -> Nat] /\ new \in [Managers -> Key]
      /\ old' \in [Managers -> Nat] /\ new' \in [Managers -> Key]
      /\ nextId \in Nat \ {0} /\ secret.key \in Nat /\ secret' = secret
      /\ db \subseteq Key
  BY DEF TypeOK, DatabaseStep, Secret
<1>f. /\ \A n \in Managers : Minted(n)' => Minted(n) /\ new'[n] = new[n]
      /\ \A n \in Managers : old'[n] \in {0, old[n]}
      /\ \A n \in Managers : new'[n] \in {NoKey, new[n]}
      /\ \A n \in Managers : pc'[n] = "expireOld" => pc[n] = "expireOld" /\ old'[n] = old[n]
  BY DEF OthersKeep, Forgets, Minted
<1>1. CASE UNCHANGED <<db, nextId>>
  <2>1. IdsIssued'
    BY <1>0, <1>1, <1>f DEF IdsIssued, NoKey, Key
  <2>2. MintedInForce' /\ MintedExpiry' /\ MintedUnknown' /\ MintedOnce' /\ OldReplaced'
    BY <1>0, <1>1, <1>f
       DEF MintedInForce, MintedExpiry, MintedUnknown, MintedOnce, OldReplaced
  <2>3. PublishedKeyNotRevoked' /\ AnnotationMatchesKey'
    BY <1>0, <1>1 DEF PublishedKeyNotRevoked, AnnotationMatchesKey
  <2> QED BY <2>1, <2>2, <2>3
<1>2. CASE Issue(NewKey)
  <2>0. nextId' = nextId + 1 /\ db' = db \cup {NewKey} /\ NewKey.id = nextId
    BY <1>2 DEF Issue, NewKey
  <2>1. IdsIssued'
    BY <1>0, <2>0, <1>f DEF IdsIssued, NoKey, Key
  <2>2. MintedInForce' /\ MintedUnknown' /\ MintedOnce' /\ OldReplaced'
    BY <1>0, <2>0, <1>f DEF MintedInForce, MintedUnknown, MintedOnce, OldReplaced
  <2>3. MintedExpiry'
    BY <1>0, <2>0, <1>f DEF MintedExpiry, IdsIssued, Key
  <2>4. PublishedKeyNotRevoked' /\ AnnotationMatchesKey'
    BY <1>0, <2>0 DEF PublishedKeyNotRevoked, AnnotationMatchesKey, IdsIssued
  <2> QED BY <2>1, <2>2, <2>3, <2>4
<1>3. CASE Revoke(m) /\ pc[m] = "expireOld" /\ UNCHANGED nextId
  <2> SUFFICES ASSUME db' = {k \in db : k.id # old[m]} PROVE KeyInv'
    BY <1>1, <1>3 DEF Revoke
  <2>0. db' = {k \in db : k.id # old[m]} /\ nextId' = nextId
    BY <1>3
  <2>1. IdsIssued'
    BY <1>0, <2>0, <1>f DEF IdsIssued, NoKey, Key
  <2>2. MintedExpiry' /\ MintedUnknown' /\ MintedOnce' /\ OldReplaced'
    BY <1>0, <2>0, <1>f DEF MintedExpiry, MintedUnknown, MintedOnce, OldReplaced
  <2>3. MintedInForce'
    BY <1>0, <2>0, <1>f DEF MintedInForce, MintedUnknown
  <2>4. PublishedKeyNotRevoked' /\ AnnotationMatchesKey'
    BY <1>0, <1>3, <2>0 DEF PublishedKeyNotRevoked, AnnotationMatchesKey, OldReplaced, IdsIssued
  <2> QED BY <2>1, <2>2, <2>3, <2>4
<1> QED BY <1>1, <1>2, <1>3 DEF DatabaseStep

\* The two ways out of EnsureAPIKey and the death of the container forget.
LEMMA ReturnForgets ==
  ASSUME TypeOK, NEW m \in Managers, Ensured(m) \/ Failed(m) \/ Crash(m)
  PROVE  OthersKeep(m) /\ Forgets(m)
  BY DEF TypeOK, Ensured, Failed, Crash, Goto, Minted, OthersKeep, Forgets

\* A manager that publishes the key it minted stays able to expire the one it
\* replaced (CreateOrUpdateSecret inside rotateAPIKey); its answer may be lost.
LEMMA PublishKeepsKeys ==
  ASSUME RevocationInv, TypeOK', NEW m \in Managers, pc[m] = "writeSecret",
         Publish(m), UNCHANGED <<db, nextId>>, OthersKeep(m), ~Minted(m)',
         pc'[m] = "expireOld" => UNCHANGED old[m],
         new'[m] \in {NoKey, new[m]}, old'[m] \in {0, old[m]}
  PROVE  KeyInv'
<1> USE DEF RevocationInv, KeyInv
<1>0. /\ old \in [Managers -> Nat] /\ new \in [Managers -> Key]
      /\ old' \in [Managers -> Nat] /\ new' \in [Managers -> Key]
      /\ nextId \in Nat \ {0} /\ secret.key \in Nat /\ db \subseteq Key
  BY DEF TypeOK, Secret
<1>f. /\ \A n \in Managers : Minted(n)' => n # m /\ Minted(n) /\ new'[n] = new[n]
      /\ \A n \in Managers : old'[n] \in {0, old[n]}
      /\ \A n \in Managers : new'[n] \in {NoKey, new[n]}
      /\ \A n \in Managers : pc'[n] = "expireOld" => old'[n] = old[n]
  BY DEF OthersKeep, Minted
<1>s. secret'.key = new[m].id /\ secret'.expires = new[m].expires /\ Minted(m)
  BY DEF Publish, Minted
<1>1. IdsIssued'
  BY <1>0, <1>f, <1>s DEF IdsIssued, NoKey, Key
<1>2. MintedInForce' /\ MintedExpiry'
  BY <1>f DEF MintedInForce, MintedExpiry
<1>3. MintedUnknown'
  BY <1>f, <1>s DEF MintedUnknown, MintedOnce
<1>4. MintedOnce'
  BY <1>f DEF MintedOnce
<1>5. OldReplaced'
  BY <1>f, <1>s DEF OldReplaced, MintedUnknown
<1>6. PublishedKeyNotRevoked' /\ AnnotationMatchesKey'
  BY <1>s DEF PublishedKeyNotRevoked, AnnotationMatchesKey, MintedInForce, MintedExpiry
<1> QED BY <1>1, <1>2, <1>3, <1>4, <1>5, <1>6

\* No step of a manager, of the clock or of the surroundings breaks the
\* invariant: one case per call a manager makes.
LEMMA RevocationStep == RevocationInv /\ [Next]_vars => RevocationInv'
<1> SUFFICES ASSUME RevocationInv, [Next]_vars PROVE KeyInv'
  BY TypeStep DEF RevocationInv
<1>t. TypeOK /\ TypeOK'
  BY TypeStep DEF RevocationInv
\* Steps by which a manager learns no key.
<1>1. ASSUME NEW m \in Managers,
             Ensure(m) \/ EnsureFails(m) \/ GetOldFails(m) \/ MintFails(m)
             \/ ReadSecretFails(m) \/ ExpireOld(m) \/ ExpireOldFails(m)
             \/ Plan(m) \/ PlanFails(m) \/ Wake(m) \/ Crash(m)
             \/ HeadscaleReady(m) \/ HeadscaleNotReady(m)
      PROVE  KeyInv'
  <2>1. DatabaseStep(m)
    BY <1>1 DEF DatabaseStep, Ensure, EnsureFails, GetOldFails, MintFails,
       ReadSecretFails, ExpireOld, ExpireOldFails, Plan, PlanFails, Wake, Crash, At,
       HeadscaleReady, HeadscaleNotReady
  <2>2. OthersKeep(m) /\ Forgets(m)
    <3>1. CASE Ensured(m) \/ Failed(m) \/ Crash(m)
      BY <1>t, <3>1, ReturnForgets
    <3>2. CASE Ensure(m) /\ ~Ensured(m)
      BY <1>t, <3>2 DEF Ensure, Goto, TypeOK, OthersKeep, Forgets, Minted
    <3>3. CASE GetOldFails(m) \/ Plan(m) \/ PlanFails(m) \/ Wake(m) \/ HeadscaleReady(m)
      BY <1>t, <3>3 DEF GetOldFails, HeadscaleReady, Plan, PlanFails, Wake, SleepUntil, Goto, TypeOK,
         OthersKeep, Forgets, Minted
    <3> QED BY <1>1, <3>1, <3>2, <3>3
            DEF EnsureFails, MintFails, ReadSecretFails, ExpireOld, ExpireOldFails,
                HeadscaleNotReady
  <2> QED BY <1>t, <2>1, <2>2, ForgetKeys
\* rotateAPIKey learns the key that is published, which no manager has minted
\* and not published.
<1>2. ASSUME NEW m \in Managers, GetOld(m) PROVE KeyInv'
  <2>0. /\ old \in [Managers -> Nat] /\ pc \in [Managers -> Pcs] /\ secret.key \in Nat
        /\ old' = [old EXCEPT ![m] = secret.key] /\ pc' = [pc EXCEPT ![m] = "mint"]
        /\ UNCHANGED <<db, nextId, secret, new>>
    BY <1>t, <1>2 DEF GetOld, Goto, TypeOK, Secret
  <2>1. \A n \in Managers : Minted(n)' => Minted(n)
    BY <2>0 DEF Minted
  <2>2. IdsIssued' /\ MintedUnknown'
    BY <2>0, <2>1 DEF RevocationInv, KeyInv, IdsIssued, MintedUnknown
  <2>3. MintedInForce' /\ MintedExpiry' /\ MintedOnce' /\ OldReplaced'
    BY <2>0, <2>1
       DEF RevocationInv, KeyInv, MintedInForce, MintedExpiry, MintedOnce, OldReplaced
  <2>4. PublishedKeyNotRevoked' /\ AnnotationMatchesKey'
    BY <2>0 DEF RevocationInv, KeyInv, PublishedKeyNotRevoked, AnnotationMatchesKey
  <2> QED BY <2>2, <2>3, <2>4 DEF KeyInv
\* createNewAPIKey and rotateAPIKey learn a key that nobody has heard of.
<1>3. ASSUME NEW m \in Managers, Mint(m) PROVE KeyInv'
  <2> USE DEF RevocationInv, KeyInv
  <2>0. /\ old \in [Managers -> Nat] /\ pc \in [Managers -> Pcs]
        /\ new \in [Managers -> Key] /\ secret.key \in Nat /\ nextId \in Nat \ {0}
        /\ db \subseteq Key /\ nextId' = nextId + 1 /\ db' = db \cup {NewKey}
        /\ NewKey.id = nextId /\ new' = [new EXCEPT ![m] = NewKey]
        /\ pc' = [pc EXCEPT ![m] = "readSecret"] /\ UNCHANGED <<secret, old>>
    BY <1>t, <1>3 DEF Mint, Issue, NewKey, Goto, TypeOK, Secret
  <2>1. \A n \in Managers : n # m => UNCHANGED <<pc[n], new[n]>>
    BY <2>0
  <2>2. IdsIssued'
    BY <2>0 DEF IdsIssued, Key
  <2>3. MintedInForce'
    BY <2>0, <2>1 DEF MintedInForce, Minted
  <2>4. MintedExpiry'
    BY <2>0, <2>1 DEF MintedExpiry, Minted, IdsIssued, Key
  <2>5. MintedUnknown' /\ MintedOnce'
    BY <2>0, <2>1 DEF MintedUnknown, MintedOnce, Minted, IdsIssued
  <2>6. OldReplaced'
    BY <2>0 DEF OldReplaced
  <2>7. PublishedKeyNotRevoked' /\ AnnotationMatchesKey'
    BY <2>0 DEF PublishedKeyNotRevoked, AnnotationMatchesKey, IdsIssued
  <2> QED BY <2>2, <2>3, <2>4, <2>5, <2>6, <2>7
<1>4. ASSUME NEW m \in Managers, ReadSecret(m) PROVE KeyInv'
  <2>1. UNCHANGED <<db, nextId, secret, old, new>>
    BY <1>4 DEF ReadSecret
  <2>2. \A n \in Managers : /\ Minted(n)' => Minted(n)
                            /\ pc'[n] = "expireOld" => pc[n] = "expireOld"
    BY <1>t, <1>4 DEF ReadSecret, At, Goto, TypeOK, Minted
  <2> QED BY <2>1, <2>2 DEF RevocationInv, KeyInv, IdsIssued, MintedInForce,
             MintedExpiry, MintedUnknown, MintedOnce, OldReplaced,
             PublishedKeyNotRevoked, AnnotationMatchesKey
<1>5. ASSUME NEW m \in Managers, WriteSecret(m) PROVE KeyInv'
  <2>1. /\ pc[m] = "writeSecret" /\ Publish(m) /\ UNCHANGED <<db, nextId, old, new>>
        /\ pc' = [pc EXCEPT ![m] = "expireOld"]
    BY <1>5 DEF WriteSecret, AfterPublish, At, Goto
  <2>2. OthersKeep(m) /\ ~Minted(m)'
    BY <1>t, <2>1 DEF OthersKeep, Minted, TypeOK
  <2> QED BY <1>t, <2>1, <2>2, PublishKeepsKeys
\* The write may have taken effect before the call failed.
<1>6. ASSUME NEW m \in Managers, WriteSecretFails(m) PROVE KeyInv'
  <2>1. pc[m] = "writeSecret" /\ Failed(m) /\ UNCHANGED <<db, nextId>>
    BY <1>6 DEF WriteSecretFails, At
  <2>2. OthersKeep(m) /\ Forgets(m)
    BY <1>t, <2>1, ReturnForgets
  <2>3. CASE Publish(m)
    BY <1>t, <2>1, <2>2, <2>3, PublishKeepsKeys DEF Forgets
  <2>4. CASE UNCHANGED secret
    BY <1>t, <2>1, <2>2, <2>4, ForgetKeys DEF DatabaseStep
  <2> QED BY <1>6, <2>3, <2>4 DEF WriteSecretFails
<1>7. CASE DeleteSecret
  <2>1. secret' = NoSecret /\ UNCHANGED <<db, nextId, pc, old, new>>
    BY <1>7 DEF DeleteSecret
  <2>2. nextId \in Nat \ {0} /\ db \subseteq Key /\ old \in [Managers -> Nat]
    BY <1>t DEF TypeOK
  <2>3. IdsIssued' /\ MintedInForce' /\ MintedExpiry' /\ MintedOnce'
    BY <2>1, <2>2 DEF RevocationInv, KeyInv, IdsIssued, MintedInForce, MintedExpiry,
       MintedOnce, Minted, NoSecret
  <2>4. MintedUnknown' /\ OldReplaced'
    BY <2>1, <2>2 DEF RevocationInv, KeyInv, MintedUnknown, OldReplaced, Minted, NoSecret
  <2>5. PublishedKeyNotRevoked' /\ AnnotationMatchesKey'
    BY <2>1, <2>2 DEF RevocationInv, KeyInv, PublishedKeyNotRevoked,
       AnnotationMatchesKey, IdsIssued, NoSecret
  <2> QED BY <2>3, <2>4, <2>5 DEF KeyInv
<1>8. CASE SpoilAnnotation
  <2>1. /\ secret'.key = secret.key /\ secret'.expires = 0
        /\ UNCHANGED <<db, nextId, pc, old, new>>
    BY <1>t, <1>8 DEF SpoilAnnotation, TypeOK, Secret
  <2> QED BY <2>1 DEF RevocationInv, KeyInv, IdsIssued, MintedInForce, MintedExpiry,
             MintedUnknown, MintedOnce, OldReplaced, PublishedKeyNotRevoked,
             AnnotationMatchesKey, Minted
<1>9. CASE Tick \/ UNCHANGED vars
  <2>1. UNCHANGED <<db, nextId, secret, pc, old, new>>
    BY <1>9 DEF Tick, vars
  <2> QED BY <2>1 DEF RevocationInv, KeyInv, IdsIssued, MintedInForce, MintedExpiry,
             MintedUnknown, MintedOnce, OldReplaced, PublishedKeyNotRevoked,
             AnnotationMatchesKey, Minted
<1> QED BY <1>1, <1>2, <1>3, <1>4, <1>5, <1>6, <1>7, <1>8, <1>9 DEF Next, Manager

\* Before the first mint there is no key to lose.
LEMMA InitRevocation == Init => RevocationInv
<1> SUFFICES ASSUME Init PROVE RevocationInv OBVIOUS
<1>1. IdsIssued
  BY DEF Init, IdsIssued, NoKey, NoSecret
<1>2. MintedInForce /\ MintedExpiry /\ MintedUnknown /\ MintedOnce /\ OldReplaced
  BY DEF Init, MintedInForce, MintedExpiry, MintedUnknown, MintedOnce, OldReplaced, Minted
<1>3. PublishedKeyNotRevoked /\ AnnotationMatchesKey
  BY DEF Init, PublishedKeyNotRevoked, AnnotationMatchesKey, NoSecret
<1> QED BY <1>1, <1>2, <1>3, InitType DEF RevocationInv, KeyInv

\* The key the operator reads from the Secret is never one that a rotation has
\* expired: rotateAPIKey expires the old key after its write, and only then.
THEOREM RotationSafe == Spec => []PublishedKeyNotRevoked
<1>1. Spec => []RevocationInv
  BY InitRevocation, RevocationStep, PTL DEF Spec
<1>2. RevocationInv => PublishedKeyNotRevoked
  BY DEF RevocationInv, KeyInv
<1> QED BY <1>1, <1>2, PTL

\* The expiration annotation is that of the key next to it, whoever wrote the
\* Secret last (CreateOrUpdateSecret writes both in one call).
THEOREM AnnotationTrue == Spec => []AnnotationMatchesKey
<1>1. Spec => []RevocationInv
  BY InitRevocation, RevocationStep, PTL DEF Spec
<1>2. RevocationInv => AnnotationMatchesKey
  BY DEF RevocationInv, KeyInv
<1> QED BY <1>1, <1>2, PTL

-----------------------------------------------------------------------------
(* The managers implement PublishedKey.                                    *)

\* What the Secret says, as the abstract specification sees it.
Says == [id |-> secret.key, expires |-> secret.expires]

\* Hypotheses under which a step leaves the abstract state alone.
Unseen == UNCHANGED <<db, secret, nextId>>

\* The calls that neither hand out nor expire a key nor write the Secret are
\* not seen by its readers.
LEMMA UnseenStutters == ASSUME Unseen PROVE UNCHANGED Promise!vars
  BY DEF Unseen, Promise!vars

\* CreateAPIKey, answered or not.
LEMMA IssueStep ==
  ASSUME RevocationInv, Issue(NewKey), UNCHANGED secret
  PROVE  Promise!Issue
<1>1. NewKey.id = nextId /\ NewKey \notin db
  BY DEF NewKey, RevocationInv, KeyInv, IdsIssued, TypeOK, Key
<1>2. NewKey \in db' \ db /\ db' = db \cup {NewKey} /\ nextId' = nextId + 1
  BY <1>1 DEF Issue
<1> QED BY <1>1, <1>2 DEF Promise!Issue

\* CreateOrUpdateSecret: the key it stores is in force, with the expiration it
\* stores next to it.
LEMMA PublishStep ==
  ASSUME RevocationInv, NEW m \in Managers, pc[m] = "writeSecret", Publish(m),
         UNCHANGED <<db, nextId>>
  PROVE  Promise!Publish
<1>1. PICK k \in db : k.id = new[m].id
  BY DEF RevocationInv, KeyInv, MintedInForce, Minted
<1>2. k.expires = new[m].expires
  BY <1>1 DEF RevocationInv, KeyInv, MintedExpiry, Minted
<1>3. k = [id |-> new[m].id, expires |-> new[m].expires]
  BY <1>1, <1>2 DEF RevocationInv, TypeOK, Key
<1>4. secret'.key = new[m].id /\ secret'.expires = new[m].expires
  BY DEF Publish
<1> QED BY <1>3, <1>4 DEF Promise!Publish

\* ExpireAPIKey: the key is no longer the published one.
LEMMA RevokeStep ==
  ASSUME RevocationInv, NEW m \in Managers, pc[m] = "expireOld", Revoke(m),
         UNCHANGED <<secret, nextId>>
  PROVE  Promise!Revoke \/ UNCHANGED Promise!vars
<1> SUFFICES ASSUME db' = {k \in db : k.id # old[m]}
             PROVE  Promise!Revoke \/ UNCHANGED Promise!vars
  BY DEF Revoke, Promise!vars
<1>1. CASE \E k \in db : k.id = old[m]
  <2>1. PICK k \in db : k.id = old[m]
    BY <1>1
  <2>2. k.id # secret.key
    BY <2>1 DEF RevocationInv, KeyInv, OldReplaced, IdsIssued, TypeOK, Key
  <2> QED BY <2>1, <2>2 DEF Promise!Revoke
<1>2. CASE \A k \in db : k.id # old[m]
  BY <1>2 DEF Promise!vars
<1> QED BY <1>1, <1>2

\* Each step of a manager, of the clock and of the surroundings is a step of
\* PublishedKey, or unseen.
LEMMA PromiseStep == RevocationInv /\ [Next]_vars => [Promise!Next]_Promise!vars
<1> SUFFICES ASSUME RevocationInv, [Next]_vars
             PROVE  Promise!Next \/ UNCHANGED Promise!vars
  OBVIOUS
<1>1. ASSUME NEW m \in Managers,
             Ensure(m) \/ EnsureFails(m) \/ GetOld(m) \/ GetOldFails(m)
             \/ ReadSecret(m) \/ ReadSecretFails(m) \/ Plan(m) \/ PlanFails(m)
             \/ Wake(m) \/ Crash(m) \/ HeadscaleReady(m) \/ HeadscaleNotReady(m)
      PROVE  Unseen
  BY <1>1 DEF Unseen, Ensure, EnsureFails, GetOld, GetOldFails, ReadSecret,
     ReadSecretFails, Plan, PlanFails, Wake, Crash, HeadscaleReady, HeadscaleNotReady
<1>2. ASSUME NEW m \in Managers, Mint(m) \/ MintFails(m)
      PROVE  Promise!Issue \/ Unseen
  BY <1>2, IssueStep DEF Mint, MintFails, Unseen
<1>3. ASSUME NEW m \in Managers, WriteSecret(m) \/ WriteSecretFails(m)
      PROVE  Promise!Publish \/ Unseen
  BY <1>3, PublishStep DEF WriteSecret, WriteSecretFails, At, Unseen
<1>4. ASSUME NEW m \in Managers, ExpireOld(m) \/ ExpireOldFails(m)
      PROVE  Promise!Revoke \/ UNCHANGED Promise!vars
  <2>1. CASE Revoke(m)
    BY <1>4, <2>1, RevokeStep DEF ExpireOld, ExpireOldFails, At
  <2>2. CASE UNCHANGED db
    BY <1>4, <2>2, UnseenStutters DEF ExpireOld, ExpireOldFails, Unseen
  <2> QED BY <1>4, <2>1, <2>2 DEF ExpireOld, ExpireOldFails
<1>5. CASE DeleteSecret
  BY <1>5 DEF DeleteSecret, NoSecret, Promise!Withdraw, Promise!Nothing, Promise!Next
<1>6. CASE SpoilAnnotation
  <2>1. secret' = [secret EXCEPT !.expires = 0] /\ UNCHANGED <<db, nextId>>
    BY <1>6 DEF SpoilAnnotation
  <2>2. secret'.key = secret.key /\ secret'.expires = 0
    BY <2>1 DEF RevocationInv, TypeOK, Secret
  <2> QED BY <2>1, <2>2 DEF Promise!Spoil, Promise!Next
<1>7. CASE Tick \/ UNCHANGED vars
  BY <1>7, UnseenStutters DEF Tick, vars, Unseen
<1> QED
  BY <1>1, <1>2, <1>3, <1>4, <1>5, <1>6, <1>7, UnseenStutters
     DEF Next, Manager, Promise!Next

\* Any number of managers over one Secret, with any failures, implement
\* PublishedKey: what the operator reads in the Secret is in force, and it
\* goes from one key in force to the next in one step.
THEOREM Refines == Spec => KeepsPromise
<1>1. Init => Promise!Init
  BY DEF Init, NoSecret, Promise!Init, Promise!Nothing
<1>2. Spec => []RevocationInv
  BY InitRevocation, RevocationStep, PTL DEF Spec
<1> QED BY <1>1, <1>2, PromiseStep, PTL DEF Spec, KeepsPromise, Promise!Spec

-----------------------------------------------------------------------------
(* The published key does not lapse.                                       *)
(*                                                                         *)
(* Its rotation is due Buffer before it expires, and every failure may     *)
(* delay it by the rest of the tick and one RetryDelay.  KeyNeverLapses    *)
(* says nothing of a manager that sleeps too long or has to try again.     *)
(* Its strengthening bounds, for each place a manager can be in, what may  *)
(* yet pass before it has replaced the key: Punctual.                      *)

\* The latest that a key with this expiry may be replaced.
Due(expires) == expires - Buffer + Cost(faults)

\* Who runs, and where; the failures stay in bounds.
Phases ==
  /\ \A m \in Managers :
       /\ pc[m] # "wait" => m \in started
       /\ pc[m] \in {"plan", "sleep"} => booted[m]
       /\ stalled[m] => m \in started /\ pc[m] \in {"wait", "plan"}
  /\ secret.key # 0 => started # {}
  /\ started # {} => \E b \in Bounds : faults <= b.faults

\* A key is written to the Secret in the instant in which it is minted; nothing is
\* planned for later than the rotation of a key minted now, or a retry.
Dates ==
  /\ \A m \in Managers : Minted(m) => new[m].expires = now + Expiration
  /\ \A k \in db : k.expires <= now + Expiration
  /\ secret.expires <= now + Expiration
  /\ \A m \in Managers :
       pc[m] = "sleep" => wake[m] <= now + Expiration - Buffer + Cost(faults)
  /\ secret.key = 0 => ~Readable
  /\ ~Readable /\ (\E m \in Managers : booted[m] \/ pc[m] = "expireOld") => faults > 0

\* Every manager is in time for the rotation of a key that expires then, also when
\* it has yet to wait for a retry.
Punctual(expires) ==
  /\ now <= Due(expires)
  /\ \A m \in Managers :
       /\ pc[m] = "sleep" => wake[m] <= Due(expires)
       /\ stalled[m] \/ (pc[m] = "writeSecret" /\ ~Acceptable(m)) =>
            /\ now + 1 <= Due(expires)
            /\ ~Readable => now + 1 + RetryDelay <= Due(expires)
       /\ pc[m] \in {"plan", "expireOld"} /\ ~Readable =>
            now + RetryDelay <= Due(expires)

InTime == \A k \in db : k.id = secret.key => Punctual(k.expires)

TimingInv == RevocationInv /\ Phases /\ Dates /\ InTime

\* Failures cost, and not less than one RetryDelay.
LEMMA Costs ==
  ASSUME NEW f \in Nat
  PROVE  /\ Cost(f) \in Nat /\ RetryDelay \in Nat
         /\ Cost(f + 1) = Cost(f) + RetryDelay + 1
         /\ f > 0 => Cost(f) >= RetryDelay + 1
<1>1. RetryDelay \in Nat
  BY BufferAssumption
<1>2. Cost(f) \in Nat
  BY <1>1 DEF Cost
<1>3. Cost(f + 1) = Cost(f) + RetryDelay + 1
  BY <1>1 DEF Cost
<1>4. ASSUME f > 0 PROVE Cost(f) >= RetryDelay + 1
  <2>1. PICK g \in Nat : f = g + 1
    BY <1>4
  <2>2. Cost(f) = g * (RetryDelay + 1) + RetryDelay + 1 /\ g * (RetryDelay + 1) \in Nat
    BY <1>1, <2>1 DEF Cost
  <2> QED BY <1>1, <2>2
<1> QED BY <1>1, <1>2, <1>3, <1>4

-----------------------------------------------------------------------------
(* What a step of a manager is, as far as time is concerned.               *)

\* The Secret is as it was, and so are the copies that the others hold.
Unwritten(m) == UNCHANGED secret /\ \A n \in Managers \ {m} : UNCHANGED base[n]

\* The time and the others stand still; a failure is one that may yet happen.
Alone(m) ==
  /\ \A n \in Managers \ {m} :
       UNCHANGED <<pc[n], booted[n], new[n], wake[n], stalled[n]>>
  /\ UNCHANGED now
  /\ started \subseteq started' /\ m \in started'
  /\ UNCHANGED faults \/ Fault
  /\ UNCHANGED started \/ (\E b \in Bounds : faults <= b.faults)

\* It loses time to a failure, which may hide that the Secret was written.
Delayed(m) ==
  /\ Fault /\ pc'[m] \in {"wait", "plan"}
  /\ booted'[m] => booted[m]
  /\ pc'[m] = "plan" => booted'[m]
  /\ Unwritten(m) \/ (pc[m] = "writeSecret" /\ Publish(m))

\* It loses time because somebody else has changed the Secret.
Refused(m) ==
  /\ pc[m] = "writeSecret" /\ ~Acceptable(m) /\ Unwritten(m)
  /\ pc'[m] \in {"wait", "plan"}
  /\ booted'[m] = booted[m]
  /\ pc'[m] = "plan" => booted'[m]

Publishes(m) ==
  /\ pc[m] = "writeSecret" /\ Publish(m)
  /\ pc'[m] = "expireOld" /\ ~stalled'[m] /\ booted'[m] = booted[m]

\* It is through with EnsureAPIKey.
Done(m) ==
  /\ pc[m] = "expireOld" \/ Readable
  /\ pc'[m] = "plan" /\ ~stalled'[m] /\ booted'[m]
  /\ Unwritten(m)

Sleeps(m) ==
  /\ pc[m] = "plan" /\ pc'[m] = "sleep" /\ ~stalled'[m] /\ booted'[m] = booted[m]
  /\ \/ Readable /\ wake'[m] = RotationTime
     \/ ~Readable /\ wake'[m] = now + RetryDelay
     \/ Fault /\ wake'[m] = now + RetryDelay
  /\ Unwritten(m)

\* It goes on to its next call.
Works(m) ==
  /\ pc'[m] \in {"ensure", "getOld", "mint", "readSecret", "writeSecret"}
  /\ ~stalled'[m] /\ booted'[m] = booted[m]
  /\ Minted(m)' => new'[m] = NewKey \/ (Minted(m) /\ new'[m] = new[m])
  /\ pc'[m] = "writeSecret" => Acceptable(m)'
  /\ Unwritten(m)

Moves(m) ==
  /\ Alone(m)
  /\ Delayed(m) \/ Refused(m) \/ Publishes(m) \/ Done(m) \/ Sleeps(m) \/ Works(m)

\* Every call a manager makes, answered or not, is one of these.
LEMMA ManagerMoves ==
  ASSUME TypeOK, Phases, NEW m \in Managers, Manager(m)
  PROVE  Moves(m)
<1>t. /\ pc \in [Managers -> Pcs] /\ stalled \in [Managers -> BOOLEAN]
      /\ booted \in [Managers -> BOOLEAN] /\ new \in [Managers -> Key]
      /\ wake \in [Managers -> Nat]
      /\ base \in [Managers -> {"absent", "current", "outdated"}]
      /\ pc[m] # "wait" => m \in started
      /\ pc[m] = "plan" => booted[m]
  BY DEF TypeOK, Phases
\* A call that fails, and the end of the container.
<1>1. ASSUME Failed(m), Fault, m \in started, UNCHANGED <<secret, base, now, started>>
      PROVE  Moves(m)
  BY <1>t, <1>1 DEF Moves, Failed, Goto, Alone, Delayed, Unwritten
<1>2. CASE EnsureFails(m) \/ MintFails(m) \/ ReadSecretFails(m) \/ HeadscaleNotReady(m)
  BY <1>t, <1>1, <1>2
     DEF EnsureFails, MintFails, ReadSecretFails, HeadscaleNotReady, At
<1>3. CASE WriteSecretFails(m)
  <2>1. /\ pc[m] = "writeSecret" /\ Failed(m) /\ UNCHANGED <<now, started>>
        /\ m \in started
    BY <1>t, <1>3 DEF WriteSecretFails, At
  <2>2. CASE ~Acceptable(m) /\ UNCHANGED <<secret, base, faults>>
    BY <1>t, <2>1, <2>2 DEF Moves, Failed, Goto, Alone, Refused, Unwritten
  <2>3. CASE Fault /\ UNCHANGED <<secret, base>>
    BY <1>1, <2>1, <2>3
  <2>4. CASE Fault /\ Publish(m)
    BY <1>t, <2>1, <2>4 DEF Moves, Failed, Goto, Alone, Delayed
  <2> QED BY <1>3, <2>2, <2>3, <2>4 DEF WriteSecretFails
<1>4. CASE Crash(m)
  BY <1>t, <1>4 DEF Crash, Moves, Goto, Alone, Delayed, Unwritten
\* A return from EnsureAPIKey.
<1>5. ASSUME Ensured(m), m \in started, ~stalled[m], pc[m] = "expireOld" \/ Readable,
             UNCHANGED <<secret, now, started>>, UNCHANGED faults \/ Fault
      PROVE  Moves(m)
  BY <1>t, <1>5 DEF Moves, Ensured, Goto, Alone, Done, Unwritten
<1>6. CASE ExpireOld(m) \/ ExpireOldFails(m)
  BY <1>t, <1>5, <1>6 DEF ExpireOld, ExpireOldFails, At
<1>7. CASE Ensure(m)
  <2>1. /\ ~stalled[m] /\ m \in started
        /\ UNCHANGED <<now, secret, started, faults>>
    BY <1>t, <1>7 DEF Ensure, At
  <2>2. CASE Readable /\ Ensured(m)
    BY <1>5, <2>1, <2>2
  <2>3. CASE /\ Goto(m, "mint") \/ Goto(m, "getOld")
             /\ UNCHANGED <<booted, old, new, base, wake, stalled>>
    BY <1>t, <2>1, <2>3 DEF Moves, Goto, Alone, Works, Minted, Unwritten
  <2> QED BY <1>7, <2>2, <2>3 DEF Ensure
\* A plan.
<1>8. CASE Plan(m) \/ PlanFails(m)
  BY <1>t, <1>8 DEF Plan, PlanFails, SleepUntil, At, Moves, Goto, Alone, Sleeps, Unwritten
\* A call that is followed by the next one.
<1>9. CASE Wake(m) \/ HeadscaleReady(m)
  BY <1>t, <1>9 DEF Wake, HeadscaleReady, Within, At, Moves, Goto, Alone, Works, Minted,
     Unwritten
<1>10. CASE GetOld(m) \/ GetOldFails(m)
  BY <1>t, <1>10 DEF GetOld, GetOldFails, At, Moves, Goto, Alone, Works, Minted, Unwritten
<1>11. CASE Mint(m)
  BY <1>t, <1>11 DEF Mint, At, Moves, Goto, Alone, Works, Minted, Unwritten
<1>12. CASE ReadSecret(m)
  <2>1. Acceptable(m)' /\ Minted(m)
    BY <1>t, <1>12 DEF ReadSecret, At, Acceptable, Minted
  <2> QED BY <1>t, <1>12, <2>1
          DEF ReadSecret, At, Moves, Goto, Alone, Works, Unwritten
<1>13. CASE WriteSecret(m)
  BY <1>t, <1>13 DEF WriteSecret, AfterPublish, At, Moves, Goto, Alone, Publishes
<1> QED BY <1>2, <1>3, <1>4, <1>6, <1>7, <1>8, <1>9, <1>10, <1>11, <1>12, <1>13
        DEF Manager

-----------------------------------------------------------------------------
(* Every step keeps the timing.                                            *)

\* Damage to the Secret from outside.
Damaged ==
  /\ Fault
  /\ UNCHANGED <<now, db, nextId, started, pc, booted, old, new, wake, stalled>>
  /\ secret'.expires = 0 /\ secret'.key \in {0, secret.key}

\* Deleting the Secret and spoiling its annotation both take the expiration away.
LEMMA DamageStep ==
  ASSUME TypeOK, DeleteSecret \/ SpoilAnnotation PROVE Damaged
<1>1. CASE DeleteSecret
  BY <1>1 DEF DeleteSecret, Damaged, NoSecret
<1>2. CASE SpoilAnnotation
  BY <1>2 DEF SpoilAnnotation, Damaged, TypeOK, Secret
<1> QED BY <1>1, <1>2

\* A failure is one more than so far, and in bounds.
LEMMA FaultCounts ==
  ASSUME TypeOK, Fault
  PROVE  faults' = faults + 1 /\ \E b \in Bounds : faults' <= b.faults
  BY DEF TypeOK, Fault, Within

\* Publishing stores the key that was minted last, with its expiry.
LEMMA PublishDates ==
  ASSUME RevocationInv, Dates, NEW m \in Managers, pc[m] = "writeSecret", Publish(m)
  PROVE  /\ secret'.key = new[m].id /\ secret'.key \in Nat \ {0}
         /\ secret'.expires = now + Expiration /\ now + Expiration > Buffer
         /\ Readable'
<1>1. Minted(m) /\ new[m] \in Key /\ new[m].id # 0 /\ new[m].expires = now + Expiration
  BY DEF Minted, RevocationInv, TypeOK, KeyInv, MintedUnknown, Dates
<1>2. secret'.key = new[m].id /\ secret'.expires = new[m].expires
  BY DEF Publish
<1>3. now + Expiration > Buffer /\ Buffer >= 0
  BY BufferAssumption DEF RevocationInv, TypeOK
<1> QED BY <1>1, <1>2, <1>3, BufferAssumption DEF Key, Readable

\* Where the managers are, and that the failures stay in bounds.
LEMMA PhasesStep == TimingInv /\ [Next]_vars => Phases'
<1> SUFFICES ASSUME TimingInv, [Next]_vars PROVE Phases'
  OBVIOUS
<1>t. TypeOK /\ TypeOK' /\ Phases
  BY TypeStep DEF TimingInv, RevocationInv
<1>1. ASSUME NEW m \in Managers, Moves(m) PROVE Phases'
  <2>1. \A n \in Managers \ {m} :
          UNCHANGED <<pc[n], booted[n], stalled[n]>> /\ (n \in started => n \in started')
    BY <1>1 DEF Moves, Alone
  <2>2. m \in started' /\ (stalled'[m] => pc'[m] \in {"wait", "plan"})
    BY <1>1 DEF Moves, Alone, Delayed, Refused, Publishes, Done, Sleeps, Works
  <2>3. pc'[m] \in {"plan", "sleep"} => booted'[m]
    BY <1>t, <1>1 DEF Phases, Moves, Delayed, Refused, Publishes, Done, Sleeps, Works
  <2>4. secret'.key # 0 => started' # {}
    BY <2>2
  <2>5. \E b \in Bounds : faults' <= b.faults
    <3>1. CASE Fault
      BY <1>t, <3>1, FaultCounts
    <3>2. CASE UNCHANGED faults /\ UNCHANGED started
      BY <1>t, <2>2, <3>2 DEF Phases
    <3>3. CASE UNCHANGED faults /\ \E b \in Bounds : faults <= b.faults
      BY <3>3
    <3> QED BY <1>1, <3>1, <3>2, <3>3 DEF Moves, Alone
  <2> QED BY <1>t, <2>1, <2>2, <2>3, <2>4, <2>5 DEF Phases
<1>2. CASE Damaged
  BY <1>t, <1>2, FaultCounts DEF Damaged, Phases
<1>3. CASE Tick
  BY <1>t, <1>3 DEF Tick, Phases
<1>4. CASE UNCHANGED vars
  BY <1>t, <1>4 DEF vars, Phases
<1> QED BY <1>t, <1>1, <1>2, <1>3, <1>4, ManagerMoves, DamageStep DEF Next

\* A manager that is minting or writing does not let time pass.
LEMMA TickFindsNoMint ==
  ASSUME Phases, Tick, NEW m \in Managers
  PROVE  /\ ~Minted(m) /\ pc[m] # "expireOld"
         /\ pc[m] = "plan" => stalled[m]
  BY DEF Phases, Tick, Waiting, Minted

\* No key and no plan reaches further than a key minted now.
LEMMA DatesStep == TimingInv /\ [Next]_vars => Dates'
<1> SUFFICES ASSUME TimingInv, [Next]_vars PROVE Dates'
  OBVIOUS
<1>t. TypeOK /\ TypeOK' /\ Phases /\ Dates /\ RevocationInv
  BY TypeStep DEF TimingInv, RevocationInv
<1>n. /\ {now, now', faults, faults', Expiration, Buffer, RetryDelay} \subseteq Nat
      /\ Buffer < Expiration
      /\ secret \in Secret /\ secret' \in Secret /\ db \subseteq Key /\ db' \subseteq Key
      /\ wake \in [Managers -> Nat] /\ wake' \in [Managers -> Nat]
      /\ new \in [Managers -> Key] /\ new' \in [Managers -> Key]
      /\ pc \in [Managers -> Pcs]
  BY <1>t, BufferAssumption DEF TypeOK
<1>c. Cost(faults) \in Nat /\ Cost(faults') \in Nat
  BY <1>n, Costs
<1>g. \A k \in db' : k \in db \/ k.expires = now + Expiration
  <2>1. ASSUME NEW m \in Managers, Manager(m), NEW k \in db'
        PROVE  k \in db \/ k.expires = now + Expiration
    BY <2>1 DEF Manager, HeadscaleReady, HeadscaleNotReady, Ensure, EnsureFails, GetOld,
       GetOldFails, Mint, MintFails, Issue, NewKey, ReadSecret, ReadSecretFails,
       WriteSecret, WriteSecretFails, ExpireOld, ExpireOldFails, Revoke, Plan, PlanFails,
       Wake, Crash
  <2> QED BY <2>1 DEF Next, DeleteSecret, SpoilAnnotation, Tick, vars
<1>1. ASSUME NEW m \in Managers, Moves(m) PROVE Dates'
  <2>0. now' = now /\ (UNCHANGED faults \/ Fault)
    BY <1>1 DEF Moves, Alone
  <2>f. Cost(faults') >= Cost(faults) /\ faults' >= faults
    <3>1. CASE Fault
      BY <1>t, <1>n, <3>1, FaultCounts, Costs
    <3> QED BY <2>0, <3>1, <1>c, <1>n
  <2>1. \A n \in Managers : Minted(n)' => new'[n].expires = now + Expiration
    <3>1. ASSUME NEW n \in Managers, n # m, Minted(n)'
          PROVE  new'[n].expires = now + Expiration
      BY <1>t, <1>1, <3>1 DEF Moves, Alone, Dates, Minted
    <3>2. ASSUME Minted(m)' PROVE new'[m].expires = now + Expiration
      <4>1. Works(m)
        BY <1>1, <3>2 DEF Moves, Minted, Delayed, Refused, Publishes, Done, Sleeps
      <4> QED BY <1>t, <3>2, <4>1 DEF Works, NewKey, Dates
    <3> QED BY <3>1, <3>2
  <2>2. \A k \in db' : k.expires <= now + Expiration
    BY <1>t, <1>g, <1>n DEF Dates
  <2>3. /\ secret'.expires <= now + Expiration
        /\ secret'.key = 0 => ~Readable'
        /\ Readable => Readable'
    <3>1. CASE Unwritten(m)
      BY <1>t, <3>1 DEF Unwritten, Dates, Readable
    <3>2. CASE pc[m] = "writeSecret" /\ Publish(m)
      BY <1>t, <1>n, <3>2, PublishDates
    <3> QED BY <1>1, <3>1, <3>2
            DEF Moves, Delayed, Refused, Publishes, Done, Sleeps, Works
  <2>4. \A n \in Managers :
          pc'[n] = "sleep" => wake'[n] <= now + Expiration - Buffer + Cost(faults')
    <3>1. ASSUME NEW n \in Managers, n # m, pc'[n] = "sleep"
          PROVE  wake'[n] <= now + Expiration - Buffer + Cost(faults')
      <4>1. pc[n] = "sleep" /\ wake'[n] = wake[n]
        BY <1>1, <3>1 DEF Moves, Alone
      <4> QED BY <1>t, <1>n, <1>c, <2>f, <4>1 DEF Dates
    <3>2. ASSUME pc'[m] = "sleep"
          PROVE  wake'[m] <= now + Expiration - Buffer + Cost(faults')
      <4>1. Sleeps(m)
        BY <1>1, <3>2 DEF Moves, Delayed, Refused, Publishes, Done, Works
      <4>2. CASE Readable /\ wake'[m] = RotationTime
        BY <1>t, <1>n, <1>c, <4>2 DEF RotationTime, Dates, Secret
      <4>3. CASE wake'[m] = now + RetryDelay /\ faults' > 0
        BY <1>n, <4>3, Costs
      <4>4. CASE ~Readable /\ wake'[m] = now + RetryDelay
        <5>1. faults > 0
          BY <1>t, <4>1, <4>4 DEF Sleeps, Dates, Phases
        <5> QED BY <1>n, <2>f, <4>3, <4>4, <5>1
      <4>5. CASE Fault /\ wake'[m] = now + RetryDelay
        BY <1>t, <1>n, <4>3, <4>5, FaultCounts
      <4> QED BY <4>1, <4>2, <4>4, <4>5 DEF Sleeps
    <3> QED BY <3>1, <3>2
  <2>5. ~Readable' /\ (\E n \in Managers : booted'[n] \/ pc'[n] = "expireOld") => faults' > 0
    <3>1. CASE Fault
      BY <1>t, <1>n, <3>1, FaultCounts
    <3>2. CASE UNCHANGED faults /\ ~Fault
      <4> SUFFICES ASSUME ~Readable', NEW n \in Managers,
                          booted'[n] \/ pc'[n] = "expireOld"
                   PROVE  faults > 0
        BY <3>2
      <4>1. CASE n # m
        BY <1>t, <1>1, <2>3, <4>1 DEF Moves, Alone, Dates
      <4>2. CASE n = m
        <5>1. ~Publishes(m)
          BY <1>t, PublishDates DEF Publishes
        <5>2. booted'[m]
          BY <1>1, <3>2, <4>2, <5>1 DEF Moves, Delayed, Refused, Done, Sleeps, Works
        <5>3. booted[m] \/ pc[m] = "expireOld" \/ Readable
          BY <1>1, <3>2, <5>1, <5>2 DEF Moves, Delayed, Refused, Done, Sleeps, Works
        <5> QED BY <1>t, <2>3, <5>3 DEF Dates
      <4> QED BY <4>1, <4>2
    <3> QED BY <2>0, <3>1, <3>2
  <2> QED BY <2>0, <2>1, <2>2, <2>3, <2>4, <2>5 DEF Dates
<1>2. CASE Damaged
  <2>1. faults' = faults + 1 /\ faults' > 0 /\ Cost(faults') >= Cost(faults)
    BY <1>t, <1>n, <1>2, FaultCounts, Costs DEF Damaged
  <2>2. ~Readable' /\ secret'.expires <= now + Expiration
    BY <1>n, <1>2 DEF Damaged, Readable
  <2>3. \A n \in Managers :
          pc[n] = "sleep" => wake[n] <= now + Expiration - Buffer + Cost(faults')
    BY <1>t, <1>n, <1>c, <2>1 DEF Dates
  <2> QED BY <1>t, <1>2, <2>1, <2>2, <2>3 DEF Damaged, Dates, Minted
<1>3. CASE Tick
  <2>1. now' = now + 1 /\ UNCHANGED <<db, secret, pc, booted, new, wake, faults>>
    BY <1>3 DEF Tick
  <2>2. \A m \in Managers : ~Minted(m)'
    BY <1>t, <1>3, <2>1, TickFindsNoMint DEF Minted
  <2>3. /\ \A k \in db : k.expires <= now + 1 + Expiration
        /\ secret.expires <= now + 1 + Expiration
        /\ \A m \in Managers :
             pc[m] = "sleep" => wake[m] <= now + 1 + Expiration - Buffer + Cost(faults)
    BY <1>t, <1>n, <1>c DEF Dates, Secret, Key
  <2> QED BY <1>t, <2>1, <2>2, <2>3 DEF Dates, Readable
<1>4. CASE UNCHANGED vars
  BY <1>t, <1>4 DEF vars, Dates, Minted, Readable
<1> QED BY <1>t, <1>1, <1>2, <1>3, <1>4, ManagerMoves, DamageStep DEF Next


\* A step of a manager hands out no key that is published already.
LEMMA PublishedKeyStays ==
  ASSUME RevocationInv, NEW m \in Managers, Manager(m), UNCHANGED secret,
         NEW k \in db', k.id = secret.key
  PROVE  k \in db
<1>1. db' \subseteq db \cup {NewKey}
  BY DEF Manager, HeadscaleReady, HeadscaleNotReady, Ensure, EnsureFails, GetOld,
     GetOldFails, Mint, MintFails, Issue, ReadSecret, ReadSecretFails,
     WriteSecret, WriteSecretFails, ExpireOld, ExpireOldFails, Revoke, Plan, PlanFails,
     Wake, Crash
<1>2. NewKey.id # secret.key
  BY DEF NewKey, RevocationInv, KeyInv, IdsIssued, TypeOK, Secret
<1> QED BY <1>1, <1>2

\* Everybody is in time for a key that was minted now.
LEMMA FreshInTime ==
  ASSUME TimingInv, TypeOK', Dates', Readable', now' = now,
         NEW m \in Managers, Moves(m), NEW k \in db', k.expires = now + Expiration
  PROVE  Punctual(k.expires)'
<1>n. /\ {now, faults', Expiration, Buffer, RetryDelay} \subseteq Nat
      /\ Buffer < Expiration /\ Cost(faults') \in Nat
  BY BufferAssumption, Costs DEF TypeOK
<1> QED BY <1>n DEF Punctual, Due, Dates

\* A step of a manager that leaves the Secret alone costs it no more than the
\* failure that it was, and the others nothing.
LEMMA MoveInTime ==
  ASSUME TimingInv, TypeOK', NEW m \in Managers, Moves(m), Unwritten(m),
         NEW k \in db, k.id = secret.key
  PROVE  Punctual(k.expires)'
<1>t. /\ TypeOK /\ Punctual(k.expires) /\ Phases
      /\ Readable => secret.expires = k.expires
  BY DEF TimingInv, RevocationInv, KeyInv, InTime, AnnotationMatchesKey, Readable
<1>n. /\ {now, faults, faults', Expiration, Buffer, RetryDelay, k.expires} \subseteq Nat
      /\ Cost(faults) \in Nat /\ Cost(faults') \in Nat
      /\ wake \in [Managers -> Nat] /\ wake' \in [Managers -> Nat]
  BY <1>t, BufferAssumption, Costs DEF TypeOK, Key
<1>s. now' = now /\ secret' = secret /\ (UNCHANGED faults \/ Fault)
  BY DEF Moves, Alone, Unwritten
<1>d. ASSUME Fault PROVE Due(k.expires)' = Due(k.expires) + RetryDelay + 1
  BY <1>t, <1>n, <1>d, FaultCounts, Costs DEF Due
<1>e. /\ Due(k.expires)' >= Due(k.expires)
      /\ Due(k.expires) \in Int /\ Due(k.expires)' \in Int
  BY <1>n, <1>s, <1>d DEF Due
<1>r. Readable' = Readable
  BY <1>s DEF Readable
<1>1. now <= Due(k.expires)'
  BY <1>t, <1>n, <1>e DEF Punctual
\* The others.
<1>2. ASSUME NEW n \in Managers, n # m
      PROVE  /\ pc'[n] = "sleep" => wake'[n] <= Due(k.expires)'
             /\ stalled'[n] \/ (pc'[n] = "writeSecret" /\ ~Acceptable(n)') =>
                  /\ now + 1 <= Due(k.expires)'
                  /\ ~Readable' => now + 1 + RetryDelay <= Due(k.expires)'
             /\ pc'[n] \in {"plan", "expireOld"} /\ ~Readable' =>
                  now + RetryDelay <= Due(k.expires)'
  <2>1. UNCHANGED <<pc[n], wake[n], stalled[n], base[n]>>
    BY <1>2 DEF Moves, Alone, Unwritten
  <2>2. Acceptable(n)' = Acceptable(n)
    BY <1>s, <2>1 DEF Acceptable
  <2>3. /\ pc[n] = "sleep" => wake[n] <= Due(k.expires)
        /\ stalled[n] \/ (pc[n] = "writeSecret" /\ ~Acceptable(n)) =>
             /\ now + 1 <= Due(k.expires)
             /\ ~Readable => now + 1 + RetryDelay <= Due(k.expires)
        /\ pc[n] \in {"plan", "expireOld"} /\ ~Readable =>
             now + RetryDelay <= Due(k.expires)
    BY <1>t DEF Punctual
  <2> QED BY <1>n, <1>e, <1>r, <2>1, <2>2, <2>3
\* The manager itself.
<1>3. /\ pc'[m] = "sleep" => wake'[m] <= Due(k.expires)'
      /\ stalled'[m] \/ (pc'[m] = "writeSecret" /\ ~Acceptable(m)') =>
           /\ now + 1 <= Due(k.expires)'
           /\ ~Readable' => now + 1 + RetryDelay <= Due(k.expires)'
      /\ pc'[m] \in {"plan", "expireOld"} /\ ~Readable' =>
           now + RetryDelay <= Due(k.expires)'
  <2>0. /\ now <= Due(k.expires)
        /\ pc[m] = "writeSecret" /\ ~Acceptable(m) =>
             /\ now + 1 <= Due(k.expires)
             /\ ~Readable => now + 1 + RetryDelay <= Due(k.expires)
        /\ pc[m] \in {"plan", "expireOld"} /\ ~Readable =>
             now + RetryDelay <= Due(k.expires)
    BY <1>t DEF Punctual
  <2>1. CASE Delayed(m)
    BY <1>n, <1>d, <1>e, <2>0, <2>1 DEF Delayed
  <2>2. CASE Refused(m)
    BY <1>n, <1>e, <1>r, <2>0, <2>2 DEF Refused
  <2>3. CASE Done(m)
    BY <1>n, <1>e, <1>r, <2>0, <2>3 DEF Done
  <2>4. CASE Sleeps(m)
    <3>1. Readable => RotationTime <= Due(k.expires)
      BY <1>t, <1>n, <2>0 DEF RotationTime, Due
    <3>2. wake'[m] <= Due(k.expires)'
      BY <1>n, <1>d, <1>e, <2>0, <2>4, <3>1 DEF Sleeps
    <3> QED BY <2>4, <3>2 DEF Sleeps
  <2>5. CASE Works(m)
    BY <2>5 DEF Works
  <2>6. CASE Publishes(m)
    BY <2>6, <1>n, <1>e, <2>0, <1>r, PublishDates DEF Publishes, TimingInv
  <2> QED BY <2>1, <2>2, <2>3, <2>4, <2>5, <2>6 DEF Moves
<1> QED BY <1>s, <1>1, <1>2, <1>3 DEF Punctual

\* While a key is published somebody is at work or will be in time, so that the
\* clock does not pass the instant in which its rotation is due.
LEMMA TickInTime ==
  ASSUME TimingInv, TypeOK', Tick, NEW k \in db, k.id = secret.key
  PROVE  Punctual(k.expires)'
<1>t. TypeOK /\ Phases /\ Punctual(k.expires)
  BY DEF TimingInv, RevocationInv, InTime
<1>n. /\ {now, faults, Expiration, Buffer, RetryDelay, k.expires} \subseteq Nat
      /\ Cost(faults) \in Nat /\ wake \in [Managers -> Nat]
      /\ secret.key # 0 /\ started \subseteq Managers
  BY <1>t, BufferAssumption, Costs DEF TypeOK, Key, TimingInv, RevocationInv, KeyInv, IdsIssued
<1>s. /\ now' = now + 1 /\ stalled' = [m \in Managers |-> FALSE]
      /\ UNCHANGED <<secret, pc, wake, faults>>
      /\ \A m \in Managers : Waiting(m)
  BY DEF Tick
<1>e. /\ Due(k.expires)' = Due(k.expires) /\ Due(k.expires) \in Int
      /\ Readable' = Readable
  BY <1>n, <1>s DEF Due, Readable
<1>1. now + 1 <= Due(k.expires)
  <2>1. PICK m \in Managers : m \in started
    BY <1>t, <1>n DEF Phases
  <2>2. CASE stalled[m]
    BY <1>t, <2>2 DEF Punctual
  <2>3. CASE pc[m] = "sleep" /\ wake[m] > now
    BY <1>t, <1>n, <1>e, <2>3 DEF Punctual
  <2> QED BY <1>s, <2>1, <2>2, <2>3 DEF Waiting
<1>2. ASSUME NEW m \in Managers
      PROVE  /\ pc[m] = "sleep" => wake[m] <= Due(k.expires)
             /\ pc[m] \notin {"writeSecret", "expireOld"}
             /\ pc[m] = "plan" /\ ~Readable => now + 1 + RetryDelay <= Due(k.expires)
  BY <1>t, TickFindsNoMint DEF Punctual, Minted
<1> QED BY <1>s, <1>e, <1>1, <1>2 DEF Punctual

\* Damage delays the rotation by no more than one failure is worth.
LEMMA DamageInTime ==
  ASSUME TimingInv, Damaged, NEW k \in db, k.id = secret.key, UNCHANGED secret.key
  PROVE  Punctual(k.expires)'
<1>t. TypeOK /\ Punctual(k.expires)
  BY DEF TimingInv, RevocationInv, InTime
<1>n. /\ {now, faults, Expiration, Buffer, RetryDelay, k.expires} \subseteq Nat
      /\ Cost(faults) \in Nat /\ wake \in [Managers -> Nat]
  BY <1>t, BufferAssumption, Costs DEF TypeOK, Key
<1>s. UNCHANGED <<now, pc, wake, stalled>>
  BY DEF Damaged
<1>d. Due(k.expires)' = Due(k.expires) + RetryDelay + 1 /\ Due(k.expires) \in Int
  BY <1>t, <1>n, FaultCounts, Costs DEF Due, Damaged
<1> QED BY <1>t, <1>n, <1>s, <1>d DEF Punctual


\* The timing survives every step: one case per kind of step.
LEMMA InTimeStep == TimingInv /\ [Next]_vars => InTime'
<1> SUFFICES ASSUME TimingInv, [Next]_vars, NEW k \in db', k.id = secret'.key
             PROVE  Punctual(k.expires)'
  BY DEF InTime
<1>t. /\ RevocationInv /\ RevocationInv' /\ TypeOK /\ TypeOK' /\ Phases /\ Dates /\ Dates'
      /\ InTime
  BY RevocationStep, DatesStep DEF TimingInv, RevocationInv
<1>1. ASSUME NEW m \in Managers, Manager(m) PROVE Punctual(k.expires)'
  <2>0. Moves(m)
    BY <1>t, <1>1, ManagerMoves
  <2>1. CASE Unwritten(m)
    <3>1. k \in db /\ k.id = secret.key
      BY <1>t, <1>1, <2>1, PublishedKeyStays DEF Unwritten
    <3> QED BY <1>t, <2>0, <2>1, <3>1, MoveInTime
  <2>2. CASE pc[m] = "writeSecret" /\ Publish(m)
    <3>1. secret'.expires = now + Expiration /\ Readable'
      BY <1>t, <2>2, PublishDates
    <3>2. k.expires = now + Expiration
      BY <1>t, <3>1 DEF RevocationInv, KeyInv, AnnotationMatchesKey, Readable
    <3>3. now' = now
      BY <2>0 DEF Moves, Alone
    <3> QED BY <1>t, <2>0, <3>1, <3>2, <3>3, FreshInTime
  <2> QED BY <2>0, <2>1, <2>2
          DEF Moves, Delayed, Refused, Publishes, Done, Sleeps, Works
<1>2. CASE Damaged
  <2>1. k \in db /\ secret'.key # 0
    BY <1>t, <1>2 DEF Damaged, RevocationInv, KeyInv, IdsIssued, TypeOK, Key
  <2>2. UNCHANGED secret.key
    BY <1>2, <2>1 DEF Damaged
  <2> QED BY <1>2, <2>1, <2>2, DamageInTime
<1>3. CASE Tick
  <2>1. UNCHANGED <<db, secret>>
    BY <1>3 DEF Tick
  <2> QED BY <1>t, <1>3, <2>1, TickInTime
<1>4. CASE UNCHANGED vars
  BY <1>t, <1>4 DEF vars, InTime, Punctual, Due, Acceptable, Readable
<1> QED BY <1>t, <1>1, <1>2, <1>3, <1>4, DamageStep DEF Next

\* Nothing is published and nobody runs.
LEMMA InitTiming == Init => TimingInv
<1> SUFFICES ASSUME Init PROVE TimingInv
  OBVIOUS
<1>1. Phases
  BY DEF Init, Phases, NoSecret
<1>2. Dates
  BY BufferAssumption DEF Init, Dates, Minted, Readable, NoSecret
<1>3. InTime
  BY DEF Init, InTime
<1> QED BY <1>1, <1>2, <1>3, InitRevocation DEF TimingInv

\* A key that is replaced in time is replaced before it expires.
LEMMA InTimeSuffices == ASSUME Affordable, TimingInv PROVE KeyNeverLapses
<1> SUFFICES ASSUME secret.key # 0
             PROVE  \E k \in db : k.id = secret.key /\ now < k.expires
  BY DEF KeyNeverLapses
<1>1. PICK k \in db : k.id = secret.key
  BY DEF TimingInv, RevocationInv, KeyInv, PublishedKeyNotRevoked
<1>2. /\ {now, faults, Buffer, k.expires} \subseteq Nat /\ Cost(faults) \in Nat
  BY BufferAssumption, Costs DEF TimingInv, RevocationInv, TypeOK, Key
<1>3. now <= k.expires - Buffer + Cost(faults)
  BY <1>1 DEF TimingInv, InTime, Punctual, Due
<1>4. Cost(faults) < Buffer
  <2>1. PICK b \in Bounds : faults <= b.faults
    BY DEF TimingInv, Phases
  <2>2. b.faults \in Nat /\ faults \in 0..b.faults
    BY <1>2, <2>1, BoundsAssumption
  <2> QED BY <2>1, <2>2 DEF Affordable
<1> QED BY <1>1, <1>2, <1>3, <1>4

\* As long as the failures there may be cost less than the buffer, the key in
\* the Secret has not expired: ShouldRotate and CalculateNextRotation rotate it
\* in time, for any number of managers that race, crash or wait for a retry.
THEOREM RotationInTime == Affordable => (Spec => []KeyNeverLapses)
<1> SUFFICES ASSUME Affordable PROVE Spec => []KeyNeverLapses
  OBVIOUS
<1>1. TimingInv /\ [Next]_vars => TimingInv'
  BY RevocationStep, PhasesStep, DatesStep, InTimeStep DEF TimingInv
<1>2. TimingInv => KeyNeverLapses
  BY InTimeSuffices
<1> QED BY <1>1, <1>2, InitTiming, PTL DEF Spec


-----------------------------------------------------------------------------
(* Keys are minted at a pace.                                              *)
(*                                                                         *)
(* MintsPaced says nothing of when the published key was minted, which is  *)
(* what the next rotation is timed by.  Paced adds, for each place the     *)
(* manager can be in, how many keys may have been handed out by then.      *)

Sole(m) == started \subseteq {m}

\* Keys handed out beyond the first and one for each failure.
Extra == nextId - 2 - faults

\* The time that so many rotations take.
Pace(n) == n * (Expiration - Buffer)

\* The manager may mint a key, now or when it gets there: the Secret cannot be
\* read, a rotation is due, or the key it has minted is going to be dropped.
MayMint(m) ==
  \/ ~Readable /\ ~Minted(m)
  \/ pc[m] \in {"getOld", "mint"}
  \/ pc[m] = "writeSecret" /\ ~Acceptable(m)

\* It may do so within the pace.  Between rotations the pace is kept by the
\* published key, which was minted Expiration before it expires.
Paced(m) ==
  /\ Pace(Extra) <= now
  /\ MayMint(m) => Pace(Extra + 1) <= now
  /\ Readable =>
       /\ Pace(IF Minted(m) THEN Extra - 1 ELSE Extra) <= secret.expires - Expiration
       /\ pc[m] = "writeSecret" => Acceptable(m)

\* Only a manager mints.
Minters == IsFiniteSet(started) /\ (started = {} => nextId = 1)

PaceInv == TimingInv /\ Minters /\ \A m \in Managers : Sole(m) => Paced(m)

\* A rotation takes some time (NewManager: the buffer is less than the lifetime).
LEMMA Paces ==
  ASSUME NEW n \in Int
  PROVE  /\ Pace(n) \in Int /\ Expiration - Buffer \in Nat \ {0}
         /\ Pace(n + 1) = Pace(n) + (Expiration - Buffer)
         /\ Pace(n - 1) = Pace(n) - (Expiration - Buffer)
         /\ n <= 0 => Pace(n) <= 0
<1>1. Expiration - Buffer \in Nat \ {0}
  BY BufferAssumption
<1> DEFINE I == Expiration - Buffer
<1>2. \A i \in Nat \ {0} :
        /\ n * i \in Int /\ (n + 1) * i = n * i + i /\ (n - 1) * i = n * i - i
        /\ n <= 0 => n * i <= 0
  OBVIOUS
<1>3. /\ n * I \in Int /\ (n + 1) * I = n * I + I /\ (n - 1) * I = n * I - I
      /\ n <= 0 => n * I <= 0
  <2> HIDE DEF I
  <2> QED BY <1>1, <1>2 DEF I
<1> QED BY <1>1, <1>3 DEF Pace

\* Every step of the only manager there is, and everything that happens to it, keeps
\* the pace: one case per kind of call.
LEMMA PacedStep ==
  ASSUME PaceInv, TypeOK', [Next]_vars, NEW m \in Managers, Sole(m)'
  PROVE  Paced(m)'
<1>t. /\ TypeOK /\ Phases /\ TimingInv
      /\ pc \in [Managers -> Pcs] /\ base \in [Managers -> {"absent", "current", "outdated"}]
      /\ nextId \in Nat /\ nextId' \in Nat /\ faults \in Nat /\ faults' \in Nat
      /\ now \in Nat /\ now' \in Nat /\ {Expiration, Buffer} \subseteq Nat
      /\ secret.expires \in Nat /\ secret'.expires \in Nat
  BY BufferAssumption DEF PaceInv, TimingInv, RevocationInv, TypeOK, Secret
<1>0. Paced(m)
  <2>1. started \subseteq started'
    BY DEF Next, Manager, HeadscaleReady, HeadscaleNotReady, Ensure, EnsureFails, GetOld,
       GetOldFails, Mint, MintFails, ReadSecret, ReadSecretFails, WriteSecret,
       WriteSecretFails, ExpireOld, ExpireOldFails, Plan, PlanFails, Wake, Crash,
       DeleteSecret, SpoilAnnotation, Tick, vars
  <2> QED BY <2>1 DEF PaceInv, Sole
<1>p. /\ Extra \in Int /\ Extra - 1 \in Int /\ Extra + 1 \in Int /\ Extra' \in Int
      /\ Pace(Extra) \in Int /\ Expiration - Buffer \in Nat \ {0}
      /\ Pace(Extra + 1) = Pace(Extra) + (Expiration - Buffer)
      /\ Pace(Extra - 1) = Pace(Extra) - (Expiration - Buffer)
      /\ (Extra - 1) + 1 = Extra
      /\ Pace((Extra - 1) - 1) = Pace(Extra - 1) - (Expiration - Buffer)
      /\ Pace(Extra - 1) \in Int /\ (Extra + 1) - 1 = Extra
  <2>1. Extra \in Int /\ Extra' \in Int
    BY <1>t DEF Extra
  <2> QED BY <2>1, Paces
<1>f. /\ Fault => faults' = faults + 1
      /\ Fault /\ UNCHANGED nextId => Extra' = Extra - 1
      /\ UNCHANGED <<nextId, faults>> => Extra' = Extra
  <2>1. Fault => faults' = faults + 1
    BY <1>t, FaultCounts
  <2>2. faults' = faults + 1 /\ UNCHANGED nextId => Extra' = Extra - 1
    BY <1>t DEF Extra
  <2> QED BY <2>1, <2>2 DEF Extra
<1>m. ASSUME NEW n \in Managers, Manager(n) PROVE n = m
  <2>1. n \in started'
    BY <1>t, <1>m, ManagerMoves DEF Moves, Alone
  <2> QED BY <2>1 DEF Sole
\* A step after which it neither holds a key nor is about to mint one: it gives up
\* none that it held, or it is a failure.
<1>1. ASSUME ~Minted(m)', pc'[m] \notin {"getOld", "mint"}, UNCHANGED <<now, secret>>,
             (Extra' = Extra /\ ~Minted(m)) \/ Extra' = Extra - 1
      PROVE  Paced(m)'
  <2>1. Readable' = Readable /\ pc'[m] # "writeSecret"
    BY <1>1 DEF Readable, Minted
  <2>2. CASE Extra' = Extra /\ ~Minted(m)
    BY <1>0, <1>1, <2>1, <2>2 DEF Paced, MayMint
  <2>3. CASE Extra' = Extra - 1
    BY <1>0, <1>1, <1>p, <1>t, <2>1, <2>3 DEF Paced, MayMint
  <2> QED BY <1>1, <2>2, <2>3
<1>2. CASE EnsureFails(m) \/ ReadSecretFails(m) \/ HeadscaleNotReady(m)
  <2>1. /\ Fault /\ UNCHANGED nextId /\ UNCHANGED <<now, secret>>
        /\ ~Minted(m)' /\ pc'[m] \in {"plan", "wait"}
    BY <1>t, <1>2
       DEF EnsureFails, ReadSecretFails, HeadscaleNotReady, Failed, Goto, Minted
  <2> QED BY <1>1, <1>f, <2>1
<1>3. CASE Crash(m) \/ ExpireOldFails(m) \/ PlanFails(m)
  <2>1. /\ Fault /\ UNCHANGED nextId /\ UNCHANGED <<now, secret>>
        /\ ~Minted(m)' /\ pc'[m] \in {"plan", "wait", "sleep"}
    BY <1>t, <1>3
       DEF Crash, ExpireOldFails, PlanFails, SleepUntil, Ensured, Goto, Minted
  <2> QED BY <1>1, <1>f, <2>1
<1>4. CASE ExpireOld(m) \/ Plan(m) \/ Wake(m) \/ HeadscaleReady(m)
  <2>1. /\ UNCHANGED <<nextId, faults>> /\ UNCHANGED <<now, secret>> /\ ~Minted(m)
        /\ ~Minted(m)' /\ pc'[m] \in {"plan", "sleep", "ensure"}
    BY <1>t, <1>4 DEF ExpireOld, Plan, Wake, HeadscaleReady, SleepUntil, Ensured, At,
       Goto, Minted
  <2> QED BY <1>1, <1>f, <2>1
\* A key is due when there is none to be read, or the rotation is.
<1>5. CASE Ensure(m)
  <2>1. /\ UNCHANGED <<nextId, faults>> /\ UNCHANGED <<now, secret>>
        /\ ~Minted(m) /\ ~Minted(m)'
    BY <1>t, <1>5 DEF Ensure, Ensured, At, Goto, Minted
  <2>2. CASE pc'[m] \notin {"getOld", "mint"}
    BY <1>1, <1>f, <2>1, <2>2
  <2>3. CASE pc'[m] \in {"getOld", "mint"}
    <3>1. ~Readable \/ (Readable /\ ShouldRotate)
      BY <1>t, <1>5, <2>3 DEF Ensure, Ensured, Goto
    <3>2. Pace(Extra + 1) <= now
      <4>1. CASE ~Readable
        BY <1>0, <2>1, <4>1 DEF Paced, MayMint
      <4>2. CASE Readable /\ ShouldRotate
        <5>1. Pace(Extra) <= secret.expires - Expiration /\ now >= secret.expires - Buffer
          BY <1>0, <2>1, <4>2 DEF Paced, MayMint, ShouldRotate
        <5> QED BY <1>t, <1>p, <5>1
      <4> QED BY <3>1, <4>1, <4>2
    <3>3. Readable' = Readable /\ pc'[m] # "writeSecret" /\ Extra' = Extra
      BY <1>f, <2>1 DEF Readable, Minted
    <3> QED BY <1>0, <2>1, <3>2, <3>3 DEF Paced, MayMint
  <2> QED BY <2>2, <2>3
<1>6. CASE GetOld(m) \/ GetOldFails(m)
  <2>1. /\ UNCHANGED <<now, secret, nextId>> /\ (UNCHANGED faults \/ Fault)
        /\ pc[m] = "getOld" /\ pc'[m] = "mint"
    BY <1>t, <1>6 DEF GetOld, GetOldFails, At, Goto
  <2>2. Readable' = Readable /\ ~Minted(m) /\ ~Minted(m)' /\ Extra' \in {Extra, Extra - 1}
    BY <1>f, <2>1 DEF Readable, Minted
  <2> QED BY <1>0, <1>p, <1>t, <2>1, <2>2 DEF Paced, MayMint
\* It uses up what was due.
<1>7. CASE Mint(m)
  <2>1. /\ UNCHANGED <<now, secret>> /\ pc[m] = "mint" /\ pc'[m] = "readSecret"
        /\ nextId' = nextId + 1 /\ UNCHANGED faults
    BY <1>t, <1>7 DEF Mint, Issue, At, Goto
  <2>2. Readable' = Readable /\ ~Minted(m) /\ Minted(m)' /\ Extra' = Extra + 1
    BY <1>t, <2>1 DEF Readable, Minted, Extra
  <2> QED BY <1>0, <1>p, <2>1, <2>2 DEF Paced, MayMint
<1>8. CASE MintFails(m)
  <2>1. /\ UNCHANGED <<now, secret>> /\ pc[m] = "mint" /\ pc'[m] \in {"plan", "wait"}
        /\ Fault /\ nextId' \in {nextId, nextId + 1}
    BY <1>t, <1>8 DEF MintFails, Issue, At, Failed, Goto
  <2>2. ~Minted(m) /\ ~Minted(m)'
    BY <2>1 DEF Minted
  <2>3. Extra' = Extra \/ Extra' = Extra - 1
    <3>1. CASE UNCHANGED nextId
      BY <1>f, <2>1, <3>1
    <3>2. CASE nextId' = nextId + 1
      <4>1. faults' = faults + 1 /\ {nextId, faults} \subseteq Nat
        BY <1>f, <1>t, <2>1
      <4> QED BY <3>2, <4>1 DEF Extra
    <3> QED BY <2>1, <3>1, <3>2
  <2> QED BY <1>1, <2>1, <2>2, <2>3
<1>9. CASE ReadSecret(m)
  <2>1. /\ UNCHANGED <<now, secret, nextId, faults>> /\ pc[m] = "readSecret"
        /\ pc'[m] = "writeSecret" /\ Acceptable(m)'
    BY <1>t, <1>9 DEF ReadSecret, At, Goto, Acceptable
  <2>2. Readable' = Readable /\ Minted(m) /\ Minted(m)' /\ Extra' = Extra
    BY <1>f, <2>1 DEF Readable, Minted
  <2> QED BY <1>0, <2>1, <2>2 DEF Paced, MayMint
\* The key that is published now was minted now.
<1>10. ASSUME pc[m] = "writeSecret", Publish(m), ~Minted(m)', UNCHANGED <<now, nextId>>,
              pc'[m] \in {"expireOld", "plan", "wait"}, UNCHANGED faults \/ Fault
       PROVE  Paced(m)'
  <2>1. Readable' /\ secret'.expires = now + Expiration
    BY <1>t, <1>10, PublishDates DEF TimingInv
  <2>2. Extra' \in {Extra, Extra - 1}
    BY <1>f, <1>10
  <2> QED BY <1>0, <1>p, <1>t, <1>10, <2>1, <2>2 DEF Paced, MayMint
<1>11. CASE WriteSecret(m)
  <2>1. /\ pc[m] = "writeSecret" /\ Publish(m) /\ UNCHANGED <<now, nextId, faults>>
        /\ pc'[m] = "expireOld"
    BY <1>t, <1>11 DEF WriteSecret, AfterPublish, At, Goto
  <2> QED BY <1>10, <2>1 DEF Minted
\* A refusal drops a key; what was in its way has been paid for.
<1>12. CASE WriteSecretFails(m)
  <2>1. /\ pc[m] = "writeSecret" /\ UNCHANGED <<now, nextId>>
        /\ pc'[m] \in {"plan", "wait"} /\ ~Minted(m)'
    BY <1>t, <1>12 DEF WriteSecretFails, At, Failed, Goto, Minted
  <2>2. CASE ~Acceptable(m) /\ UNCHANGED <<secret, base, faults>>
    <3>1. ~Readable /\ ~Readable' /\ Pace(Extra + 1) <= now /\ Extra' = Extra
      BY <1>0, <1>f, <2>1, <2>2 DEF Paced, MayMint, Readable
    <3> QED BY <1>0, <2>1, <3>1 DEF Paced, MayMint
  <2>3. CASE Fault /\ UNCHANGED <<secret, base>>
    BY <1>1, <1>f, <2>1, <2>3
  <2>4. CASE Fault /\ Publish(m)
    BY <1>10, <2>1, <2>4
  <2> QED BY <1>12, <2>2, <2>3, <2>4 DEF WriteSecretFails
<1>13. CASE Damaged
  <2>1. UNCHANGED <<now, pc>> /\ Extra' = Extra - 1 /\ ~Readable'
    BY <1>13, <1>f DEF Damaged, Readable
  <2> QED BY <1>0, <1>p, <1>t, <2>1 DEF Paced, MayMint
<1>14. CASE Tick \/ UNCHANGED vars
  <2>1. /\ UNCHANGED <<secret, pc, base>> /\ Extra' = Extra /\ now' >= now
    BY <1>14, <1>f, <1>t DEF Tick, vars
  <2>2. /\ Readable' = Readable /\ Minted(m)' = Minted(m)
        /\ Acceptable(m)' = Acceptable(m)
    BY <2>1 DEF Readable, Minted, Acceptable
  <2> QED BY <1>0, <1>p, <1>t, <2>1, <2>2 DEF Paced, MayMint
<1> QED BY <1>m, <1>t, <1>2, <1>3, <1>4, <1>5, <1>6, <1>7, <1>8, <1>9, <1>11, <1>12,
           <1>13, <1>14, DamageStep DEF Next, Manager

\* A manager that mints, or does anything else, has been started.
LEMMA MintersStep == PaceInv /\ [Next]_vars => Minters'
<1> SUFFICES ASSUME PaceInv, [Next]_vars PROVE Minters'
  OBVIOUS
<1>1. ASSUME NEW m \in Managers, Manager(m) PROVE Minters'
  <2>1. m \in started'
    BY <1>1, ManagerMoves DEF PaceInv, TimingInv, RevocationInv, Moves, Alone
  <2>2. started' \subseteq started \cup {m}
    BY <1>1 DEF Manager, HeadscaleReady, HeadscaleNotReady, Ensure, EnsureFails, GetOld,
       GetOldFails, Mint, MintFails, ReadSecret, ReadSecretFails, WriteSecret,
       WriteSecretFails, ExpireOld, ExpireOldFails, Plan, PlanFails, Wake, Crash
  <2>3. IsFiniteSet(started \cup {m})
    BY FS_AddElement DEF PaceInv, Minters
  <2>4. IsFiniteSet(started')
    BY <2>2, <2>3, FS_Subset
  <2> QED BY <2>1, <2>4 DEF Minters
<1>2. CASE DeleteSecret \/ SpoilAnnotation \/ Tick \/ UNCHANGED vars
  BY <1>2 DEF DeleteSecret, SpoilAnnotation, Tick, vars, PaceInv, Minters
<1> QED BY <1>1, <1>2 DEF Next

LEMMA PaceStep == PaceInv /\ [Next]_vars => PaceInv'
<1> SUFFICES ASSUME PaceInv, [Next]_vars PROVE PaceInv'
  OBVIOUS
<1>1. TimingInv' /\ Minters'
  BY MintersStep, RevocationStep, PhasesStep, DatesStep, InTimeStep
     DEF PaceInv, TimingInv
<1>2. \A m \in Managers : Sole(m)' => Paced(m)'
  BY <1>1, PacedStep DEF TimingInv, RevocationInv
<1> QED BY <1>1, <1>2 DEF PaceInv

\* Nothing has been minted.
LEMMA InitPace == Init => PaceInv
<1> SUFFICES ASSUME Init PROVE PaceInv
  OBVIOUS
<1>1. Minters
  BY FS_EmptySet DEF Init, Minters
<1>2. ASSUME NEW m \in Managers PROVE Paced(m)
  <2>1. /\ Extra = -1 /\ Extra + 1 = 0 /\ now = 0 /\ ~Readable /\ pc[m] = "wait"
    BY DEF Init, Extra, Readable, NoSecret
  <2>2. Pace(Extra) <= 0 /\ Pace(Extra + 1) <= 0
    BY <2>1, Paces
  <2> QED BY <2>1, <2>2 DEF Paced, MayMint
<1> QED BY <1>1, <1>2, InitTiming DEF PaceInv

\* The one manager that there is, or none.
LEMMA OnlyManager ==
  ASSUME TypeOK, Minters, Cardinality(started) <= 1
  PROVE  started = {} \/ \E m \in Managers : Sole(m)
<1> SUFFICES ASSUME started # {} PROVE \E m \in Managers : Sole(m)
  OBVIOUS
<1>1. PICK m \in Managers : m \in started
  BY DEF TypeOK
<1>2. IsFiniteSet(started) /\ Cardinality(started) \in Nat
  BY FS_CardinalityType DEF Minters
<1>3. IsFiniteSet(started \ {m}) /\ Cardinality(started \ {m}) = Cardinality(started) - 1
  BY <1>1, <1>2, FS_RemoveElement
<1>4. Cardinality(started \ {m}) = 0
  <2>1. Cardinality(started \ {m}) \in Nat
    BY <1>3, FS_CardinalityType
  <2> QED BY <1>2, <1>3, <2>1
<1>5. started \ {m} = {}
  BY <1>3, <1>4, FS_EmptySet
<1> QED BY <1>5 DEF Sole

\* A single manager mints a key per rotation interval and one more per failure, for
\* any lifetime and buffer and any failures, damage and restarts, and whether
\* or not its rotations expire anything (EnsureAPIKey).
THEOREM MintsSafe == Spec => []MintsPaced
<1>1. PaceInv => MintsPaced
  <2> SUFFICES ASSUME PaceInv, Cardinality(started) <= 1
               PROVE  (nextId - 2 - faults) * (Expiration - Buffer) <= now
    BY DEF MintsPaced
  <2>1. TypeOK /\ Minters /\ now \in Nat /\ faults \in Nat /\ Extra \in Int
    BY DEF PaceInv, TimingInv, RevocationInv, TypeOK, Extra
  <2>2. Pace(Extra) <= now
    <3>1. CASE started = {}
      <4>1. Extra <= 0
        BY <2>1, <3>1 DEF Minters, Extra
      <4> QED BY <2>1, <4>1, Paces
    <3>2. CASE \E m \in Managers : Sole(m)
      BY <3>2 DEF PaceInv, Paced
    <3> QED BY <2>1, <3>1, <3>2, OnlyManager
  <2> QED BY <2>2 DEF Pace, Extra
<1> QED BY <1>1, InitPace, PaceStep, PTL DEF Spec
=============================================================================
