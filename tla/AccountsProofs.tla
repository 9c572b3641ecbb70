---------------------------- MODULE AccountsProofs ----------------------------
(***************************************************************************)
(* Theorems about Accounts, for any set of keys and Secrets, any lag of    *)
(* the caches and any bounds.                                              *)
(*                                                                         *)
(* The invariants of the two reconcilers hold of their composition; what   *)
(* is added here relates the two.                                          *)
(***************************************************************************)
EXTENDS Accounts, SequenceTheorems, TLAPS

\* The stored versions.
OwnerNow == U!Stored(user[Owner])
KeyNow(k) == K!Stored(object[k])

-----------------------------------------------------------------------------
(* The invariant.                                                          *)

\* The worker has removed the user.
UserRemoved == nextUser = 2 /\ users[Name].id = 0

\* The server creates one user in all: once it is there only the deletion pass
\* takes it away, and after that no pass creates one.
OneUser ==
  /\ nextUser \in {1, 2} /\ users[Name].id \in {0, nextUser - 1}
  /\ UserRemoved => U!AllPast(Owner) /\ upc \notin U!LivePcs

\* An ID that is recorded stays recorded.
Identified == {o \in U!Object : o.userID = 1}
IdLasts == U!Lasting(user[Owner], Identified)

\* The keys' worker mints only with the ID of that user, which was recorded in
\* the version it read and is recorded since.
MintingPcs == {"addOwner"} \cup K!MintPcs

ResolvedInv ==
  /\ resolved \in {0, 1}
  /\ kpc \in MintingPcs => resolved = 1
  /\ resolved = 1 \/ nextKey # 1 => U!Versions(user[Owner]) \subseteq Identified

BelongsInv == belongs \in Seq({1}) /\ Len(belongs) = nextKey - 1

\* A minted key is in force until the deletion of its object has begun, or its
\* user has been removed.
HasRow(id) == \E row \in keys : row.id = id
KeyPast(k) == K!Versions(object[k]) \subseteq K!PastObjects
Kept(k, id) == id # 0 => HasRow(id) \/ KeyPast(k) \/ UserRemoved

KeysKept ==
  /\ \A k \in Keys : Kept(k, KeyNow(k).keyID)
  /\ minted # 0 => Kept(kcur, minted)

\* An object that records a key is protected until its deletion.
KeysProtected ==
  \A k \in Keys :
    KeyNow(k).life = "live" /\ KeyNow(k).keyID # 0 => KeyNow(k).finalizer

\* The finalizer is removed after the key.
KeyDeleted == kpc \in {"deleteSecret", "removeFinalizer"} => ~HasRow(kobj.keyID)

GoneClean ==
  \A k \in Keys : KeyNow(k).life = "gone" => ~HasRow(KeyNow(k).keyID)

\* The parts that are about the user, and the rest.
UserInv == U!RowInv /\ OneUser /\ IdLasts

LinkInv ==
  /\ ResolvedInv /\ BelongsInv
  /\ KeysKept /\ KeysProtected /\ KeyDeleted /\ GoneClean

AccountsInv == UserInv /\ K!OwnershipInv /\ LinkInv /\ headscale

-----------------------------------------------------------------------------
(* The theorems of the two reconcilers.                                    *)

\* Their assumptions about the constants.
LEMMA KeyConstants ==
  /\ K!IsFiniteSet(Keys) /\ Keys \subseteq Keys /\ NoKey \notin Keys
  /\ SecretName \in [Keys -> Secrets]
  /\ Bounds \subseteq [objects : Nat, lag : Nat, faults : Nat, edits : Nat, admin : Nat]
  BY KeysAssumption, SecretNameAssumption, BoundsAssumption
     DEF IsFiniteSet, K!IsFiniteSet

\* The same of the user's reconciler, which has one object and one name here.
LEMMA UserConstants ==
  /\ [u \in {Owner} |-> Name] \in [{Owner} -> {Name}]
  /\ NoUser \notin {Owner}
  /\ MaxLag \in Nat
  /\ {[objects |-> b.objects, faults |-> b.faults, edits |-> b.edits,
       admin |-> b.admin] : b \in Bounds}
       \subseteq [objects : Nat, faults : Nat, edits : Nat, admin : Nat]
<1>1. NoUser \notin {Owner}
  BY NoUserAssumption
<1>2. ASSUME NEW b \in Bounds
      PROVE  [objects |-> b.objects, faults |-> b.faults, edits |-> b.edits,
              admin |-> b.admin]
               \in [objects : Nat, faults : Nat, edits : Nat, admin : Nat]
  BY BoundsAssumption
<1> QED BY <1>1, <1>2, MaxLagAssumption

\* A step of the keys' reconciler, when the composition takes one.
LEMMA KeyFacts ==
  ASSUME K!OwnershipInv, [K!Next]_K!vars
  PROVE  /\ K!OwnershipInv' /\ K!ServerEvolves
         /\ (\E k \in Keys : K!Begins(k)) \/ K!Ends \/ K!GoesOn \/ K!Outside
         /\ \A k \in Keys :
              /\ KeyNow(k)' \in K!Object
              /\ K!Past(KeyNow(k)) => K!Past(KeyNow(k)')
              /\ KeyNow(k).life = "gone" => KeyNow(k)' = KeyNow(k)
              /\ K!Evolves(k)
         /\ \A k \in Keys : \A o \in K!Versions(object'[k]) :
              \/ o \in K!Versions(object[k])
              \/ o \in K!Object /\ K!NewVersion(k, o)
<1>1. K!FinalizerInv /\ K!TypeOK
  BY DEF K!OwnershipInv, K!FinalizerInv
<1>2. K!OwnershipInv' /\ K!ServerEvolves
  BY K!OwnershipStep, K!ServerEvolution, KeyConstants
<1>3. (\E k \in Keys : K!Begins(k)) \/ K!Ends \/ K!GoesOn \/ K!Outside
  BY <1>1, K!PassEvolution, KeyConstants
<1>4. ASSUME NEW k \in Keys
      PROVE  /\ KeyNow(k)' \in K!Object
             /\ K!Past(KeyNow(k)) => K!Past(KeyNow(k)')
             /\ KeyNow(k).life = "gone" => KeyNow(k)' = KeyNow(k)
  BY <1>1, K!StoredKeeps, K!GoneStays, KeyConstants DEF KeyNow, K!Stored
<1>5. \A k \in Keys : K!Evolves(k)
  BY <1>1, K!Evolution, KeyConstants
<1>6. ASSUME NEW k \in Keys, NEW o \in K!Versions(object'[k])
      PROVE  o \in K!Versions(object[k]) \/ (o \in K!Object /\ K!NewVersion(k, o))
  BY <1>1, K!SeenVersions, KeyConstants
<1> QED BY <1>2, <1>3, <1>4, <1>5, <1>6

\* A step of the user's reconciler.
LEMMA UserFacts ==
  ASSUME U!RowInv, [U!Next]_U!vars
  PROVE  /\ U!RowInv' /\ U!ServerEvolves /\ U!CopyEvolves /\ U!Evolves(Owner)
         /\ upc # "idle" /\ upc' # "idle" => /\ ucur' = ucur
                                             /\ upc' \in U!LivePcs => upc \in U!LivePcs
         /\ U!AllPast(Owner) => U!AllPast(Owner)'
         /\ user[Owner] \in U!History(U!Object)
<1>1. U!RowInv'
  BY U!RowStep, UserConstants
<1>2. U!TypeOK /\ U!ServerEvolves
  BY U!RowFacts, U!ServerEvolution, UserConstants
<1>3. U!CopyEvolves /\ U!Evolves(Owner)
  BY <1>2, U!CopyEvolution, U!Evolution, UserConstants
<1>4. upc # "idle" /\ upc' # "idle" => /\ ucur' = ucur
                                       /\ upc' \in U!LivePcs => upc \in U!LivePcs
  BY <1>2, U!PlaceEvolution, UserConstants
<1>5. U!AllPast(Owner) => U!AllPast(Owner)'
  BY U!PastLasts, UserConstants
<1> QED BY <1>1, <1>2, <1>3, <1>4, <1>5 DEF U!TypeOK

\* What its invariant says of the one object.
LEMMA OwnerFacts ==
  ASSUME U!RowInv
  PROVE  /\ users \in [{Name} -> U!Row] /\ nextUser \in Nat \ {0}
         /\ user[Owner] \in U!History(U!Object)
         /\ OwnerNow \in U!Versions(user[Owner]) /\ OwnerNow \in U!Object
         /\ U!Observed(user[Owner]) \in U!Versions(user[Owner])
         /\ \A o \in U!Versions(user[Owner]) : o \in U!Object /\ o.userID < nextUser
         /\ upc # "idle" => /\ ucur = Owner /\ uobj \in U!Object
                            /\ uobj.userID < nextUser
         /\ upc \in U!DeletionPcs => U!AllPast(Owner)
         /\ faults \in Nat /\ edits \in Nat /\ admin \in Nat
<1>1. /\ U!TypeOK /\ U!FinalizerInv /\ U!OwnershipInv /\ users \in [{Name} -> U!Row]
      /\ OwnerNow \in U!Versions(user[Owner])
      /\ U!Observed(user[Owner]) \in U!Versions(user[Owner])
      /\ \A o \in U!Versions(user[Owner]) : o \in U!Object /\ U!Owned(Owner, o.userID)
      /\ upc # "idle" => ucur = Owner /\ uobj \in U!Object /\ U!Owned(ucur, uobj.userID)
  BY U!RowFacts, UserConstants DEF OwnerNow
<1>2. upc \in U!DeletionPcs => U!AllPast(Owner)
  <2> SUFFICES ASSUME upc \in U!DeletionPcs PROVE U!AllPast(Owner)
    OBVIOUS
  <2>1. ucur = Owner
    BY <1>1 DEF U!DeletionPcs
  <2> QED BY <1>1, <2>1 DEF U!FinalizerInv, U!WorkerInv, U!AllPast, U!Versions
<1> QED BY <1>1, <1>2 DEF U!TypeOK, U!Owned

-----------------------------------------------------------------------------
(* The user's side.                                                        *)

\* There is one user, and its ID is not cleared: nobody but the deletion pass
\* removes it.
LEMMA UserStep ==
  ASSUME UserInv, [U!Next]_U!vars, admin' = admin
  PROVE  /\ UserInv'
         /\ U!Versions(user[Owner]) \subseteq Identified
              => U!Versions(user'[Owner]) \subseteq Identified
         /\ UserRemoved => UserRemoved'
         /\ users[Name].id # 0 /\ users'[Name].id = 0 => UserRemoved'
         /\ OwnerNow \in Identified => OwnerNow' \in Identified
<1>1. U!RowInv'
  BY UserFacts DEF UserInv
<1>2. /\ OneUser' /\ (UserRemoved => UserRemoved')
      /\ (users[Name].id # 0 /\ users'[Name].id = 0 => UserRemoved')
  <2>0. /\ users \in [{Name} -> U!Row] /\ nextUser \in {1, 2}
        /\ users[Name].id \in {0, nextUser - 1} /\ admin' # admin + 1
    BY OwnerFacts DEF UserInv, OneUser
  <2>1. UserRemoved => U!AllPast(Owner)' /\ upc' \notin U!LivePcs
    <3> SUFFICES ASSUME UserRemoved PROVE U!AllPast(Owner)' /\ upc' \notin U!LivePcs
      OBVIOUS
    <3>1. U!AllPast(Owner) /\ U!AllPast(Owner)' /\ upc \notin U!LivePcs
      BY UserFacts DEF UserInv, OneUser
    <3>2. CASE upc # "idle" \/ upc' = "idle"
      BY <3>1, <3>2, UserFacts DEF UserInv, U!LivePcs
    <3>3. CASE upc = "idle" /\ upc' # "idle"
      <4>1. /\ uobj' = U!Observed(user[Owner]) /\ U!Exists(uobj')
            /\ upc' = U!FirstCall(uobj')
        BY <3>3, UserFacts DEF UserInv, U!CopyEvolves, U!AddFinalizer, U!CreateUser
      <4>2. U!Past(uobj')
        BY <4>1, <3>1, OwnerFacts DEF UserInv, U!AllPast
      <4> QED BY <3>1, <4>1, <4>2 DEF U!Past, U!Exists, U!FirstCall, U!LivePcs
    <3> QED BY <3>1, <3>2, <3>3
  <2>2. CASE UNCHANGED U!server
    <3>1. users' = users /\ nextUser' = nextUser
      BY <2>2 DEF U!server
    <3> QED BY <3>1, <2>0, <2>1 DEF OneUser, UserRemoved
  <2>3. CASE upc = "create" /\ U!Insert([u \in {Owner} |-> Name][ucur], ucur)
    <3>1. ucur = Owner
      BY <2>3, OwnerFacts DEF UserInv
    <3>2. /\ users[Name].id = 0 /\ users'[Name].id = nextUser
          /\ nextUser' = nextUser + 1
      BY <2>3, <3>1, <2>0 DEF U!Insert
    <3>3. ~UserRemoved
      BY <2>3 DEF UserInv, OneUser, U!LivePcs
    <3> QED BY <3>2, <3>3, <2>0 DEF OneUser, UserRemoved
  <2>4. CASE upc = "deleteUser" /\ U!Delete
    <3>1. users'[Name].id \in {0, users[Name].id} /\ nextUser' = nextUser
      BY <2>4, <2>0 DEF U!Delete, U!NoRow
    <3>2. U!AllPast(Owner) /\ upc \notin U!LivePcs /\ upc # "idle"
      BY <2>4, OwnerFacts DEF UserInv, U!DeletionPcs, U!LivePcs
    <3>3. U!AllPast(Owner)' /\ upc' \notin U!LivePcs
      BY <3>2, UserFacts DEF UserInv, U!LivePcs
    <3> QED BY <3>1, <3>3, <2>0 DEF OneUser, UserRemoved
  <2> QED BY <2>0, <2>2, <2>3, <2>4, UserFacts DEF UserInv, U!ServerEvolves
<1>3. ASSUME NEW o \in U!Object, U!NewVersion(Owner, o), OwnerNow \in Identified
      PROVE  o \in Identified
  <2>0. /\ OwnerNow.userID = 1 /\ OwnerNow \in U!Versions(user[Owner])
        /\ nextUser \in {1, 2} /\ users[Name].id \in {0, nextUser - 1}
        /\ upc # "idle" => /\ ucur = Owner /\ uobj \in U!Object
                           /\ uobj.userID < nextUser
    BY <1>3, OwnerFacts DEF UserInv, OneUser, Identified
  <2>1. CASE upc # "idle" /\ ufresh /\ U!Writable(o)
    <3>1. uobj.userID \in Nat /\ uobj \in U!Object /\ upc # "patch"
      BY <2>0, <2>1 DEF U!Object, U!Writable
    <3>2. upc # "recordUserID" => uobj.userID = 1
      BY <2>0, <2>1, <3>1
         DEF UserInv, U!RowInv, U!CopyInv, U!FreshCopy, OwnerNow
    <3>3. upc = "recordUserID" => uobj.userID = 1
      BY <2>0, <3>1 DEF UserInv, U!RowInv, U!CopyInv, U!IdRecorded
    <3>4. upc # "clearUserID"
      <4> SUFFICES ASSUME upc = "clearUserID" PROVE FALSE
        OBVIOUS
      <4>1. users[Name].id # 1
        BY <3>2 DEF UserInv, U!RowInv, U!CopyInv, U!UserMissing
      <4>2. UserRemoved
        BY <4>1, <3>2, <2>0 DEF UserRemoved
      <4> QED BY <4>2 DEF UserInv, OneUser, U!LivePcs
    <3> QED BY <2>1, <3>1, <3>2, <3>3, <3>4
            DEF Identified, U!Writable, U!WithFinalizer, U!Removed, U!Object
  <2>2. CASE o.userID = OwnerNow.userID
    BY <2>2, <2>0 DEF Identified
  <2>3. OwnerNow.life # "none"
    BY <2>0 DEF UserInv, U!RowInv, U!CopyInv, U!NoneUnrecorded
  <2> QED BY <2>1, <2>2, <2>3, <1>3 DEF U!NewVersion, OwnerNow
<1>4. U!Lasting(user'[Owner], Identified)
  <2>1. user[Owner] \in U!History(U!Object) /\ U!Lasting(user[Owner], Identified)
    BY OwnerFacts DEF UserInv, IdLasts
  <2>2. CASE user'[Owner] = user[Owner]
    BY <2>1, <2>2
  <2>3. CASE U!Lag(user[Owner]) > 0 /\ user'[Owner] = U!Delivered(user[Owner])
    BY <2>1, <2>3, U!DeliveredLasting, UserConstants
  <2>4. CASE user'[Owner] = U!Relisted(user[Owner])
    BY <2>1, <2>4, U!RelistedLasting, UserConstants
  <2>5. ASSUME NEW o \in U!Object, user'[Owner] = U!Written(user[Owner], o),
               U!NewVersion(Owner, o)
        PROVE  U!Lasting(user'[Owner], Identified)
    BY <2>1, <2>5, <1>3, U!WrittenLasting, UserConstants DEF OwnerNow
  <2> QED BY <2>2, <2>3, <2>4, <2>5, UserFacts DEF UserInv, U!Evolves
<1>5. ASSUME U!Versions(user[Owner]) \subseteq Identified,
             NEW o \in U!Versions(user'[Owner])
      PROVE  o \in Identified
  <2>1. OwnerNow \in Identified /\ U!TypeOK
    BY <1>5, OwnerFacts, U!RowFacts, UserConstants DEF UserInv
  <2>2. o \in U!Versions(user[Owner]) \/ (o \in U!Object /\ U!NewVersion(Owner, o))
    BY <2>1, <1>5, U!SeenVersions, UserConstants
  <2> QED BY <2>1, <2>2, <1>3, <1>5
<1>6. OwnerNow \in Identified => OwnerNow' \in Identified
  <2> SUFFICES ASSUME OwnerNow \in Identified PROVE OwnerNow' \in Identified
    OBVIOUS
  <2>1. U!TypeOK /\ U!Evolves(Owner)
    BY U!RowFacts, UserFacts, UserConstants DEF UserInv
  <2>2. OwnerNow' = OwnerNow \/ (OwnerNow' \in U!Object /\ U!NewVersion(Owner, OwnerNow'))
    BY <2>1, U!StoredEvolves, UserConstants DEF OwnerNow, U!Stored
  <2> QED BY <2>2, <1>3
<1> QED BY <1>1, <1>2, <1>4, <1>5, <1>6
        DEF UserInv, IdLasts, Identified, U!Object, U!Lasting

-----------------------------------------------------------------------------
(* The keys' side.                                                         *)

\* What the invariant of the keys' reconciler says of the objects and of the copy.
LEMMA KeyView ==
  ASSUME K!OwnershipInv
  PROVE  /\ K!FinalizerInv /\ K!TypeOK /\ nextKey \in Nat \ {0} /\ keys \subseteq K!Row
         /\ \A row \in keys : row.id \in Nat /\ 0 < row.id /\ row.id < nextKey
         /\ \A k \in Keys :
              /\ object[k] \in K!History(K!Object)
              /\ KeyNow(k) \in K!Object /\ KeyNow(k) \in K!Versions(object[k])
              /\ KeyNow(k).keyID \in Nat /\ K!Owned(k, KeyNow(k).keyID)
              /\ KeyNow(k).keyID < nextKey
         /\ kpc # "idle" => /\ kcur \in Keys /\ kobj \in K!Object
                            /\ kobj.keyID \in Nat /\ K!Owned(kcur, kobj.keyID)
                            /\ minted \in Nat /\ K!Owned(kcur, minted)
                            /\ kobj.keyID < nextKey
         /\ kpc = "idle" => minted = 0
         /\ kpc \in K!DeletionPcs => KeyPast(kcur)
<1>1. K!FinalizerInv /\ K!TypeOK
  BY DEF K!OwnershipInv, K!FinalizerInv
<1>2. ASSUME NEW k \in Keys
      PROVE  /\ object[k] \in K!History(K!Object)
             /\ KeyNow(k) \in K!Object /\ KeyNow(k) \in K!Versions(object[k])
             /\ KeyNow(k).keyID \in Nat /\ K!Owned(k, KeyNow(k).keyID)
  <2>1. /\ object[k] \in K!History(K!Object)
        /\ KeyNow(k) \in K!Object /\ KeyNow(k) \in K!Versions(object[k])
    BY <1>1, K!Sight, KeyConstants DEF KeyNow
  <2> QED BY <2>1 DEF K!OwnershipInv, K!VersionsOwned, K!Object
<1>3. kpc # "idle" => /\ kcur \in Keys /\ kobj \in K!Object
                      /\ kobj.keyID \in Nat /\ K!Owned(kcur, kobj.keyID)
                      /\ minted \in Nat /\ K!Owned(kcur, minted)
  BY <1>1 DEF K!OwnershipInv, K!CopyOwned, K!TypeOK, K!Object
<1>4. kpc = "idle" => minted = 0
  BY DEF K!OwnershipInv, K!CopyOwned
<1>5. kpc \in K!DeletionPcs => KeyPast(kcur)
  BY <1>1 DEF K!FinalizerInv, K!WorkerInv, KeyPast
<1>6. /\ nextKey \in Nat \ {0} /\ keys \subseteq K!Row
      /\ \A row \in keys : row.id \in Nat /\ 0 < row.id /\ row.id < nextKey
  BY <1>1 DEF K!TypeOK, K!OwnershipInv, K!RowsIssued, K!Row
<1>7. \A k, id : K!Owned(k, id) => id < nextKey
  BY DEF K!Owned
<1> QED BY <1>1, <1>2, <1>3, <1>4, <1>5, <1>6, <1>7

\* An object in deletion does not come back.
LEMMA KeyPastLasts ==
  ASSUME K!OwnershipInv, [K!Next]_K!vars, NEW k \in Keys, KeyPast(k)
  PROVE  KeyPast(k)'
<1> SUFFICES ASSUME NEW o \in K!Versions(object'[k]) PROVE o \in K!PastObjects
  BY DEF KeyPast, K!Versions, K!PastObjects, K!Past, K!Object, K!Lives, K!Reasons,
         K!ReadyReasons, K!FailureReasons
<1>1. CASE o \in K!Versions(object[k])
  BY <1>1 DEF KeyPast
<1>2. CASE o \in K!Object /\ K!NewVersion(k, o)
  <2>1. K!FinalizerInv /\ K!Past(K!Stored(object[k]))
    BY KeyView DEF KeyPast, K!PastObjects, KeyNow
  <2>2. K!Past(o)
    BY <2>1, <1>2, K!NewVersionKeeps, KeyConstants
  <2> QED BY <1>2, <2>2 DEF K!PastObjects
<1> QED BY <1>1, <1>2, KeyFacts

\* The table changes by the worker only: it adds the key it mints, and removes the
\* one that its object records.
KeysEvolve ==
  \/ keys' = keys /\ nextKey' = nextKey
  \/ /\ kpc = "mint" /\ kpc' # "mint" /\ nextKey' = nextKey + 1
     /\ keys' = keys \cup {[id |-> nextKey, by |-> kcur]}
  \/ /\ kpc = "deleteKey" /\ nextKey' = nextKey
     /\ keys' = {row \in keys : row.id # kobj.keyID}

\* So it does, as long as nobody changes it by hand.
LEMMA KeysEvolution ==
  ASSUME K!OwnershipInv, [K!Next]_K!vars, admin' = admin
  PROVE  KeysEvolve
<1>1. admin' # admin + 1
  BY KeyView DEF K!TypeOK
<1>2. CASE K!Insert /\ (K!Mint \/ K!MintFails)
  BY <1>2 DEF K!Insert, K!Mint, K!MintFails, K!Goto, K!CreationFailed, K!Report,
              KeysEvolve
<1>3. CASE kpc = "deleteKey" /\ K!Delete
  BY <1>3 DEF K!Delete, K!Matches, KeysEvolve
<1>4. CASE UNCHANGED K!server
  BY <1>4 DEF K!server, KeysEvolve
<1> QED BY <1>1, <1>2, <1>3, <1>4, KeyFacts DEF K!ServerEvolves

\* A key that is in force stays so until its object is deleted.
LEMMA KeptLasts ==
  ASSUME K!OwnershipInv, [K!Next]_K!vars, admin' = admin, UNCHANGED <<users, nextUser>>,
         NEW k \in Keys, NEW id \in Nat, K!Owned(k, id), Kept(k, id)
  PROVE  Kept(k, id)'
<1>1. CASE id = 0
  BY <1>1 DEF Kept
<1>2. CASE UserRemoved
  BY <1>2 DEF Kept, UserRemoved
<1>3. CASE KeyPast(k)
  BY <1>3, KeyPastLasts DEF Kept
<1>4. CASE HasRow(id)
  <2>1. PICK row \in keys : row.id = id
    BY <1>4 DEF HasRow
  <2>2. CASE row \in keys'
    BY <2>1, <2>2 DEF Kept, HasRow
  <2>3. CASE row \notin keys'
    <3>1. kpc = "deleteKey" /\ kobj.keyID = id
      BY <2>1, <2>3, KeysEvolution DEF KeysEvolve
    <3>2. row.by = k /\ row.by = kcur
      BY <2>1, <3>1, KeyView DEF K!Owned
    <3>3. KeyPast(k)
      BY <3>1, <3>2, KeyView DEF K!DeletionPcs
    <3> QED BY <3>3, KeyPastLasts DEF Kept
  <2> QED BY <2>2, <2>3
<1> QED BY <1>1, <1>2, <1>3, <1>4 DEF Kept

\* What the composition makes of a step of that reconciler.
KeySide ==
  /\ [K!Next]_K!vars /\ UNCHANGED <<userVars, headscale, admin>>
  /\ \/ KeyCall
     \/ /\ UNCHANGED links /\ nextKey' = nextKey
        /\ kpc' \in MintingPcs => kpc' = kpc

\* Each call has its place.
LEMMA CallPlace ==
  ASSUME K!Step
  PROVE  /\ kpc # "idle"
         /\ kpc = "getHeadscale" => K!GetHeadscale \/ K!GetFails
         /\ kpc = "getUser" => K!GetUser \/ K!GetFails
         /\ kpc = "finalize" => K!Finalize \/ K!GetFails
         /\ kpc = "deleteKey" => K!DeleteKey \/ K!DeleteKeyNotFound \/ K!DeleteKeyFails
  BY DEF K!Step, K!AddFinalizer, K!AddFinalizerFails, K!GetHeadscale, K!GetFails,
     K!GetUser, K!AddOwner, K!AddOwnerFails, K!Mint, K!MintFails, K!CreateSecret,
     K!CreateSecretExists, K!CreateSecretFails, K!GetSecret, K!UpdateSecret,
     K!UpdateSecretFails, K!RecordKeyID, K!RecordKeyIDFails, K!PatchCondition,
     K!PatchConditionFails, K!Finalize, K!DeleteKey, K!DeleteKeyNotFound,
     K!DeleteKeyFails, K!DeleteSecret, K!DeleteSecretFails, K!RemoveFinalizer,
     K!RemoveFinalizerFails

\* A call comes to the minting of a key through resolveUserID only: all objects
\* name their user.
LEMMA MintingEvolution ==
  ASSUME K!OwnershipInv, K!Step, kpc' \in MintingPcs
  PROVE  \/ kpc \in MintingPcs
         \/ kpc = "getUser" /\ OwnerSeen.state = "ready"
<1>1. kpc # "idle"
  BY CallPlace
<1>2. K!OwnershipInv /\ [K!Next]_K!vars /\ K!FinalizerInv
  BY KeyView DEF K!Next
<1>3. kpc' # "idle" /\ kpc' # "patch"
  BY DEF MintingPcs, K!MintPcs
<1>4. CASE K!GoesOn
  <2>1. \/ kpc \in MintingPcs
        \/ kpc = "getUser" /\ kpc' \in {"addOwner", "mint"}
        \/ kpc = "getHeadscale" /\ kpc' = "mint"
    BY <1>3, <1>4 DEF K!GoesOn, K!Moves, MintingPcs, K!MintPcs
  <2>2. kpc = "getHeadscale" => kpc' # "mint"
    <3> SUFFICES ASSUME kpc = "getHeadscale" PROVE kpc' # "mint"
      OBVIOUS
    <3>1. kcur \in Keys
      BY <1>1, KeyView
    <3>2. K!GetHeadscale \/ K!GetFails
      BY CallPlace
    <3> QED BY <3>1, <3>2
            DEF K!GetHeadscale, K!GetFails, K!Goto, K!Report, K!RetryError, K!Forget
  <2>3. kpc = "getUser" /\ kpc' \in {"addOwner", "mint"} => OwnerSeen.state = "ready"
    <3> SUFFICES ASSUME kpc = "getUser", kpc' \in {"addOwner", "mint"}
                 PROVE  OwnerSeen.state = "ready"
      OBVIOUS
    <3>1. K!GetUser \/ K!GetFails
      BY CallPlace
    <3>2. OwnerSeen.state \in {"absent", "pending", "ready"}
      BY DEF OwnerSeen
    <3> QED BY <3>1, <3>2 DEF K!GetUser, K!GetFails, K!Report, K!RetryError, K!Forget
  <2> QED BY <2>1, <2>2, <2>3
<1>5. CASE K!Outside
  BY <1>2, <1>5, K!OutsideStays, KeyConstants
<1> QED BY <1>1, <1>2, <1>3, <1>4, <1>5, KeyFacts DEF K!Begins, K!Ends

\* The ID that resolveUserID has returned stays the user's.
LEMMA ResolvedStep ==
  ASSUME UserInv, K!OwnershipInv, ResolvedInv, BelongsInv, KeySide
  PROVE  ResolvedInv' /\ BelongsInv'
<1>1. /\ nextKey \in Nat \ {0} /\ nextKey' \in {nextKey, nextKey + 1} /\ user' = user
      /\ nextKey' # nextKey => kpc = "mint"
  BY KeyView, KeysEvolution DEF KeysEvolve, KeySide, userVars
<1>2. nextKey' # nextKey => resolved = 1
  BY <1>1 DEF ResolvedInv, MintingPcs, K!MintPcs
<1>3. CASE UNCHANGED links /\ nextKey' = nextKey /\ (kpc' \in MintingPcs => kpc' = kpc)
  BY <1>1, <1>3 DEF links, ResolvedInv, BelongsInv
<1>4. CASE KeyCall
  <2>1. /\ Observed(user[Owner]) = U!Observed(user[Owner])
        /\ Observed(user[Owner]) \in U!Versions(user[Owner])
        /\ Observed(user[Owner]).userID \in {0, 1}
        /\ Observed(user[Owner]) \in U!Object
    <3>1. Observed(user[Owner]) = U!Observed(user[Owner])
      BY DEF Observed, U!Observed
    <3>2. /\ U!Observed(user[Owner]) \in U!Versions(user[Owner])
          /\ U!Observed(user[Owner]) \in U!Object
          /\ U!Observed(user[Owner]).userID < nextUser /\ nextUser \in {1, 2}
      BY OwnerFacts DEF UserInv, OneUser
    <3> QED BY <3>1, <3>2 DEF U!Object
  <2>2. Observed(user[Owner]).userID = 1 => U!Versions(user[Owner]) \subseteq Identified
    <3> SUFFICES ASSUME Observed(user[Owner]).userID = 1
                 PROVE  U!Versions(user[Owner]) \subseteq Identified
      OBVIOUS
    <3>1. user[Owner] \in U!History(U!Object) /\ U!Observed(user[Owner]) \in Identified
      BY <2>1, OwnerFacts DEF UserInv, Identified
    <3> QED BY <3>1, U!LastingObserved, UserConstants DEF UserInv, IdLasts
  <2>3. resolved' \in {0, resolved}
          \/ (kpc = "getUser" /\ resolved' = Observed(user[Owner]).userID)
    BY <1>4 DEF KeyCall, Resolve
  <2>4. kpc' \in MintingPcs => resolved' = 1
    <3> SUFFICES ASSUME kpc' \in MintingPcs PROVE resolved' = 1
      OBVIOUS
    <3>1. kpc' # "idle" /\ K!Step
      BY <1>4 DEF MintingPcs, K!MintPcs, KeyCall
    <3>2. CASE kpc \in MintingPcs
      <4>1. kpc # "getUser"
        BY <3>2 DEF MintingPcs, K!MintPcs
      <4> QED BY <1>4, <3>1, <3>2, <4>1 DEF KeyCall, Resolve, ResolvedInv
    <3>3. CASE kpc = "getUser" /\ OwnerSeen.state = "ready"
      <4>1. Observed(user[Owner]).userID # 0
        BY <3>3 DEF OwnerSeen
      <4> QED BY <1>4, <3>1, <3>3, <4>1, <2>1 DEF KeyCall, Resolve
    <3> QED BY <3>1, <3>2, <3>3, MintingEvolution
  <2>5. ResolvedInv'
    BY <1>1, <1>2, <2>1, <2>2, <2>3, <2>4 DEF ResolvedInv
  <2>6. BelongsInv'
    <3>1. \/ nextKey' = nextKey /\ belongs' = belongs
          \/ nextKey' = nextKey + 1 /\ belongs' = Append(belongs, 1)
      BY <1>1, <1>2, <1>4 DEF KeyCall
    <3>2. belongs \in Seq({1}) /\ Len(belongs) = nextKey - 1
      BY DEF BelongsInv
    <3>3. /\ Append(belongs, 1) \in Seq({1})
          /\ Len(Append(belongs, 1)) = Len(belongs) + 1
      BY <3>2, AppendProperties
    <3> DEFINE longer == Append(belongs, 1)
    <3> HIDE DEF longer
    <3>4. CASE nextKey' = nextKey /\ belongs' = belongs
      BY <3>2, <3>4 DEF BelongsInv
    <3>5. CASE nextKey' = nextKey + 1 /\ belongs' = longer
      <4>1. Len(longer) = Len(belongs) + 1 /\ longer \in Seq({1})
        BY <3>3 DEF longer
      <4> QED BY <3>2, <3>5, <4>1, <1>1 DEF BelongsInv
    <3> QED BY <3>1, <3>4, <3>5 DEF longer
  <2> QED BY <2>5, <2>6
<1> QED BY <1>3, <1>4 DEF KeySide

\* The keys that are recorded, or about to be, stay in force.
LEMMA KeysKeptStep ==
  ASSUME K!OwnershipInv, KeysKept, KeySide
  PROVE  KeysKept'
<1>1. /\ [K!Next]_K!vars /\ admin' = admin /\ UNCHANGED <<users, nextUser>>
      /\ K!FinalizerInv
  BY KeyView DEF KeySide, userVars
<1>2. ASSUME NEW k \in Keys, NEW id \in Nat, K!Owned(k, id), Kept(k, id)
      PROVE  Kept(k, id)'
  BY <1>1, <1>2, KeptLasts
<1>3. ASSUME NEW k \in Keys, NEW id, id = KeyNow(k)'.keyID
      PROVE  Kept(k, id)'
  <2>1. id = KeyNow(k).keyID \/ (k = kcur /\ kpc = "recordKeyID" /\ id = minted)
    BY <1>1, <1>3, K!StoredKeeps, KeyConstants DEF KeyNow, K!Stored
  <2>2. CASE id = KeyNow(k).keyID
    BY <2>2, <1>2, KeyView DEF KeysKept
  <2>3. CASE k = kcur /\ kpc = "recordKeyID" /\ id = minted
    <3>1. id \in Nat /\ K!Owned(k, id) /\ Kept(k, id)
      BY <2>3, KeyView DEF KeysKept, Kept
    <3> QED BY <3>1, <1>2
  <2> QED BY <2>1, <2>2, <2>3
<1>4. ASSUME NEW k, k = kcur', NEW id, id = minted', id # 0
      PROVE  Kept(k, id)'
  <2>1. CASE kpc # "idle" /\ k = kcur /\ id = minted
    <3>1. k \in Keys /\ id \in Nat /\ K!Owned(k, id) /\ Kept(k, id)
      BY <2>1, <1>4, KeyView DEF KeysKept
    <3> QED BY <3>1, <1>2
  <2>2. CASE K!Mint
    <3>1. id = nextKey /\ [id |-> nextKey, by |-> kcur] \in keys'
      BY <2>2, <1>4 DEF K!Mint, K!Insert
    <3> QED BY <3>1 DEF Kept, HasRow
  <2>3. CASE kpc = "idle" /\ minted' = minted
    BY <2>3, <1>4, KeyView
  <2>4. CASE K!Outside
    BY <2>1, <2>3, <2>4, <1>1, <1>4, K!OutsideStays, KeyConstants
  <2> QED BY <2>1, <2>2, <2>3, <2>4, <1>1, <1>4, KeyFacts
          DEF K!Begins, K!Ends, K!GoesOn
<1> QED BY <1>3, <1>4 DEF KeysKept, Kept, HasRow, KeyPast, UserRemoved, K!Versions

\* The step from one stored version to the next.
LEMMA KeyNext ==
  ASSUME K!OwnershipInv, [K!Next]_K!vars, NEW k \in Keys
  PROVE  \/ KeyNow(k)' = KeyNow(k)
         \/ KeyNow(k)' \in K!Object /\ K!NewVersion(k, KeyNow(k)')
<1>1. K!TypeOK
  BY KeyView
<1> QED BY <1>1, K!StoredEvolves, KeyConstants DEF KeyNow, K!Stored

\* A key is recorded on an object that holds the finalizer, and the finalizer of a
\* live object stays.
LEMMA KeysProtectedStep ==
  ASSUME K!OwnershipInv, KeysProtected, [K!Next]_K!vars
  PROVE  KeysProtected'
<1> SUFFICES ASSUME NEW k \in Keys, KeyNow(k)'.life = "live", KeyNow(k)'.keyID # 0
             PROVE  KeyNow(k)'.finalizer
  BY DEF KeysProtected
<1> DEFINE s == KeyNow(k)
           o == KeyNow(k)'
<1>0. /\ K!FinalizerInv /\ s \in K!Object /\ s \in K!Versions(object[k])
  BY KeyView
<1>1. CASE o = s
  BY <1>1 DEF KeysProtected
<1>2. CASE o \in K!Object /\ K!NewVersion(k, o)
  <2>1. /\ K!Past(s) => K!Past(o)
        /\ \/ s.finalizer => o.finalizer
           \/ k = kcur /\ kpc = "removeFinalizer"
        /\ \/ o.keyID = s.keyID
           \/ k = kcur /\ kpc = "recordKeyID"
    BY <1>0, <1>2, K!NewVersionKeeps, KeyConstants DEF KeyNow
  <2>2. s.life \in {"none", "live"}
    BY <1>0, <2>1 DEF K!Past, K!Object, K!Lives
  <2>3. s.life = "none" => s.keyID = 0
    BY <1>0 DEF K!FinalizerInv, K!HistoryInv, K!FinalizerExists
  <2>4. ~(k = kcur /\ kpc = "removeFinalizer")
    BY <1>0, <2>2, KeyView DEF K!DeletionPcs, KeyPast, K!PastObjects, K!Past
  <2>5. k = kcur /\ kpc = "recordKeyID" => s.finalizer
    BY <1>0 DEF K!FinalizerInv, K!WorkerInv, K!Holding, K!LivePcs, K!MintPcs, KeyNow
  <2> QED BY <2>1, <2>2, <2>3, <2>4, <2>5 DEF KeysProtected
<1> QED BY <1>1, <1>2, KeyNext

\* Between two calls of a deletion the worker has deleted the key.
LEMMA DeletionPlace ==
  ASSUME K!OwnershipInv, [K!Next]_K!vars, kpc' # kpc, kpc' # "idle"
  PROVE  /\ kpc = "finalize" => K!Finalize
         /\ kpc = "deleteKey" => K!DeleteKey \/ K!DeleteKeyNotFound
<1>1. CASE K!Outside
  <2>1. K!FinalizerInv
    BY KeyView
  <2> QED BY <1>1, <2>1, K!OutsideStays, KeyConstants
<1>2. CASE K!Step
  BY <1>2, CallPlace DEF K!GetFails, K!DeleteKeyFails, K!RetryError, K!Forget
<1>3. CASE \E k \in Keys : K!Reconcile(k)
  BY <1>3 DEF K!Reconcile
<1>4. CASE K!Crash
  BY <1>4 DEF K!Crash, K!Restart, K!Forget
<1> QED BY <1>1, <1>2, <1>3, <1>4 DEF K!Next, K!Environment, K!Outside

\* What comes after the deletion of the key finds it gone, and IDs do not come back.
LEMMA KeyDeletedStep ==
  ASSUME K!OwnershipInv, KeyDeleted, headscale, [K!Next]_K!vars, admin' = admin
  PROVE  KeyDeleted'
<1> SUFFICES ASSUME kpc' \in {"deleteSecret", "removeFinalizer"}
             PROVE  \A row \in keys' : row.id # kobj'.keyID
  BY DEF KeyDeleted, HasRow
<1>0. K!FinalizerInv
  BY KeyView
<1>1. ASSUME kpc # "idle", kobj' = kobj, \A row \in keys : row.id # kobj.keyID
      PROVE  \A row \in keys' : row.id # kobj'.keyID
  BY <1>1, KeyView, KeysEvolution DEF KeysEvolve
<1>2. CASE K!GoesOn
  <2>1. /\ kpc # "idle" /\ kpc \in {"finalize", "deleteKey", "deleteSecret"}
        /\ kpc' # kpc
    BY <1>2 DEF K!GoesOn, K!Moves
  <2>2. kobj' = kobj
    BY <1>2, <2>1 DEF K!GoesOn, K!AddFinalizer, K!GetUser
  <2>3. CASE kpc = "deleteSecret"
    BY <1>1, <2>1, <2>2, <2>3 DEF KeyDeleted, HasRow
  <2>4. CASE kpc = "finalize"
    <3>1. kobj.keyID = 0
      BY <2>1, <2>4, DeletionPlace DEF K!Finalize, K!Continue, K!Goto
    <3> QED BY <1>1, <2>1, <2>2, <3>1, KeyView
  <2>5. CASE kpc = "deleteKey"
    <3>1. CASE K!DeleteKey
      BY <3>1, <2>2 DEF K!DeleteKey, K!Delete, K!Matches
    <3>2. CASE K!DeleteKeyNotFound
      BY <3>2, <2>2 DEF K!DeleteKeyNotFound, K!Matches, K!server
    <3> QED BY <2>1, <2>5, <3>1, <3>2, DeletionPlace
  <2> QED BY <2>1, <2>3, <2>4, <2>5
<1>3. CASE K!Outside
  <2>1. kpc' = kpc /\ kobj' = kobj
    BY <1>0, <1>3, K!OutsideStays, KeyConstants
  <2> QED BY <1>1, <2>1 DEF KeyDeleted, HasRow
<1>4. ASSUME NEW k \in Keys, K!Begins(k) PROVE FALSE
  BY <1>4 DEF K!Begins, K!FirstCall
<1> QED BY <1>2, <1>3, <1>4, KeyFacts DEF K!Ends

\* Only an object without a key, or whose key has been deleted, goes.
LEMMA GoneCleanStep ==
  ASSUME K!OwnershipInv, KeysProtected, KeyDeleted, GoneClean, [K!Next]_K!vars,
         admin' = admin
  PROVE  GoneClean'
<1> SUFFICES ASSUME NEW k \in Keys, KeyNow(k)'.life = "gone", NEW row \in keys'
             PROVE  row.id # KeyNow(k)'.keyID
  BY DEF GoneClean, HasRow
<1> DEFINE s == KeyNow(k)
           o == KeyNow(k)'
<1>0. /\ K!FinalizerInv /\ s \in K!Object /\ s.keyID < nextKey /\ s.keyID \in Nat
      /\ nextKey \in Nat
  BY KeyView
<1>1. row \in keys \/ (row.id = nextKey /\ kpc = "mint")
  BY KeysEvolution DEF KeysEvolve
<1>2. CASE s.life = "gone"
  <2>1. o = s
    BY <1>2, KeyFacts
  <2> QED BY <1>0, <1>1, <1>2, <2>1 DEF GoneClean, HasRow
<1>3. CASE s.life # "gone" /\ K!NewVersion(k, o)
  <2>1. CASE k = kcur /\ kpc # "idle" /\ K!Writable(o)
    <3>1. kobj \in K!Object /\ kobj.life \in {"live", "deleting"}
      BY <1>0, <2>1, K!Sight, KeyConstants
    <3>2. kpc = "removeFinalizer" /\ o = K!Removed(kobj)
      BY <2>1, <3>1 DEF K!Writable, K!WithFinalizer, K!WithKeyID, K!Object
    <3>3. o.keyID = kobj.keyID
      BY <3>1, <3>2 DEF K!Removed, K!Object
    <3> QED BY <1>1, <3>2, <3>3 DEF KeyDeleted, HasRow
  <2>2. CASE /\ s.life = "live" /\ o.keyID = s.keyID
             /\ o.finalizer = s.finalizer /\ ~o.finalizer
    <3>1. s.keyID = 0
      BY <2>2 DEF KeysProtected
    <3> QED BY <1>0, <1>1, <2>2, <3>1, KeyView
  <2> QED BY <1>3, <2>1, <2>2 DEF K!NewVersion, KeyNow, K!Exists, K!Absent
<1> QED BY <1>2, <1>3, KeyNext

-----------------------------------------------------------------------------
(* The two together.                                                       *)

\* A step of the keys' reconciler leaves the user alone.
LEMMA UserUntouched ==
  ASSUME UserInv, UNCHANGED <<userVars, headscale>>,
         faults' \in Nat, edits' \in Nat, admin' \in Nat
  PROVE  UserInv'
<1> USE DEF userVars
<1>1. U!FinalizerInv'
  BY DEF UserInv, U!RowInv, U!CopyInv, U!FinalizerInv, U!TypeOK, U!HistoryInv,
         U!VersionsOrdered, U!FinalizerStays, U!FinalizerExists, U!WorkerInv
<1>2. U!OwnershipInv'
  BY <1>1 DEF UserInv, U!RowInv, U!CopyInv, U!FinalizerInv, U!OwnershipInv,
              U!RowsIssued, U!VersionsOwned, U!CopyOwned, U!Owned, U!Versions
<1>3. /\ U!FreshCopy' /\ U!IdRecorded' /\ U!UserMissing' /\ U!NoneUnrecorded'
      /\ U!RowsNamed' /\ U!IdProtected'
  BY DEF UserInv, U!RowInv, U!CopyInv, U!FreshCopy, U!IdRecorded, U!UserMissing,
         U!NoneUnrecorded, U!RowsNamed, U!IdProtected, U!Versions, U!Stored
<1>4. OneUser' /\ IdLasts'
  BY DEF UserInv, OneUser, UserRemoved, IdLasts, U!AllPast, U!Versions
<1> QED BY <1>1, <1>2, <1>3, <1>4 DEF UserInv, U!RowInv, U!CopyInv

\* A step of the user's reconciler leaves the keys alone, but for those that the
\* server removes with the user.
LEMMA KeysUntouched ==
  ASSUME K!OwnershipInv, UNCHANGED <<keyVars, headscale>>, keys' \subseteq keys,
         OwnerSeen' \in K!HsUser, faults' \in Nat, edits' \in Nat, admin' \in Nat
  PROVE  K!OwnershipInv'
<1> USE DEF keyVars
<1>1. K!TypeOK'
  BY DEF K!OwnershipInv, K!FinalizerInv, K!TypeOK
<1>2. K!HistoryInv' /\ K!FreshCopy' /\ K!WorkerInv'
  BY DEF K!OwnershipInv, K!FinalizerInv, K!HistoryInv, K!VersionsOrdered,
         K!FinalizerStays, K!FinalizerExists, K!FreshCopy, K!WorkerInv, K!Versions,
         K!Stored
<1>3. K!RowsIssued' /\ K!VersionsOwned' /\ K!CopyOwned'
  BY DEF K!OwnershipInv, K!RowsIssued, K!VersionsOwned, K!CopyOwned, K!Owned, K!Versions
<1> QED BY <1>1, <1>2, <1>3 DEF K!OwnershipInv, K!FinalizerInv

\* Nothing is lost by a step that writes no key's object and goes on to no call that
\* mints or deletes, while keys are removed with their user only.
LEMMA LinksLast ==
  ASSUME LinkInv,
         U!Versions(user[Owner]) \subseteq Identified
           => U!Versions(user'[Owner]) \subseteq Identified,
         UserRemoved => UserRemoved',
         keys' = keys \/ (keys' \subseteq keys /\ UserRemoved'),
         nextKey' = nextKey, belongs' = belongs,
         \A k \in Keys : /\ KeyNow(k)' = KeyNow(k)
                         /\ K!Versions(object'[k]) \subseteq K!Versions(object[k]),
         minted # 0 => kcur \in Keys,
         minted' = 0 \/ (minted' = minted /\ kcur' = kcur),
         resolved' = 0 \/ resolved' = resolved,
         kpc' \in MintingPcs => kpc' = kpc /\ resolved' = resolved,
         kpc' \in {"deleteSecret", "removeFinalizer"} => kpc' = kpc /\ kobj' = kobj
  PROVE  LinkInv'
<1> USE DEF LinkInv
<1>1. ResolvedInv' /\ BelongsInv'
  BY DEF ResolvedInv, BelongsInv, Identified, U!Object, U!Versions
<1>2. ASSUME NEW k \in Keys, NEW id, Kept(k, id) PROVE Kept(k, id)'
  BY <1>2 DEF Kept, HasRow, KeyPast, K!Versions, K!PastObjects, K!Past, K!Object
<1>3. KeysKept'
  <2>1. ASSUME NEW k \in Keys, NEW id, id = KeyNow(k)'.keyID PROVE Kept(k, id)'
    BY <1>2, <2>1 DEF KeysKept
  <2>2. ASSUME NEW k, k = kcur', NEW id, id = minted', id # 0 PROVE Kept(k, id)'
    BY <1>2, <2>2 DEF KeysKept
  <2> QED BY <2>1, <2>2 DEF KeysKept, Kept, HasRow, KeyPast, UserRemoved, K!Versions
<1>4. KeysProtected' /\ KeyDeleted' /\ GoneClean'
  BY DEF KeysProtected, KeyDeleted, GoneClean, HasRow
<1> QED BY <1>1, <1>3, <1>4

-----------------------------------------------------------------------------
(* The steps of the composition.                                           *)

\* What the composition makes of a step of the user's reconciler.
UserSide ==
  /\ [U!Next]_U!vars /\ UNCHANGED <<keyVars, links, headscale, admin>>
  /\ keys' = keys \/ (keys' \subseteq keys /\ users[Name].id # 0 /\ users'[Name].id = 0)

\* No call of a worker touches the Headscale object.
LEMMA UserCalls == U!Step => UNCHANGED <<headscale, admin>>
  BY DEF U!Step, U!AddFinalizer, U!AddFinalizerFails, U!GetHeadscale,
     U!GetHeadscaleFails, U!VerifyUser, U!VerifyUserFails, U!ClearUserID,
     U!ClearUserIDFails, U!CreateUser, U!CreateUserNameTaken, U!CreateUserFails,
     U!RecordUserID, U!RecordUserIDFails, U!PatchCondition, U!PatchConditionFails,
     U!Finalize, U!DeleteUser, U!DeleteUserUnknown, U!DeleteUserFails,
     U!RemoveFinalizer, U!RemoveFinalizerFails, U!kube, U!budget

\* Those of the other worker neither.
LEMMA KeyCalls == K!Step => UNCHANGED <<headscale, admin>>
  BY DEF K!Step, K!AddFinalizer, K!AddFinalizerFails, K!GetHeadscale, K!GetFails,
     K!GetUser, K!AddOwner, K!AddOwnerFails, K!Mint, K!MintFails, K!CreateSecret,
     K!CreateSecretExists, K!CreateSecretFails, K!GetSecret, K!UpdateSecret,
     K!UpdateSecretFails, K!RecordKeyID, K!RecordKeyIDFails, K!PatchCondition,
     K!PatchConditionFails, K!Finalize, K!DeleteKey, K!DeleteKeyNotFound,
     K!DeleteKeyFails, K!DeleteSecret, K!DeleteSecretFails, K!RemoveFinalizer,
     K!RemoveFinalizerFails, K!kube, K!budget

\* Every step is one of the user's side, one of the keys' side, or one of the two
\* that neither reconciler has alone.
LEMMA StepKinds == [Next]_vars => UserSide \/ KeySide \/ KeyRefused \/ Crash
<1> SUFFICES ASSUME [Next]_vars PROVE UserSide \/ KeySide \/ KeyRefused \/ Crash
  OBVIOUS
<1>1. CASE UserWorker
  BY <1>1, UserCalls DEF UserWorker, ServerRemovesKeys, UserSide, U!Next
<1>2. CASE UserStarts
  BY <1>2 DEF UserStarts, UserSide, U!Next, U!Reconcile, U!kube, U!budget
<1>3. CASE UserEvent
  BY <1>3 DEF UserEvent, UserSide, U!Next, U!Deliver, U!budget
<1>4. CASE UserPeople
  BY <1>4 DEF UserPeople, UserSide, U!Next, U!Environment, U!CreateObject,
              U!DeleteObject, U!budget
<1>5. CASE KeyCall
  BY <1>5, KeyCalls DEF KeyCall, KeySide, K!Next
<1>6. ASSUME NEW k \in Keys, KeyStarts(k) PROVE KeySide
  <2>1. /\ UNCHANGED <<headscale, admin, nextKey>>
        /\ kpc' \in MintingPcs => kpc' = kpc
    BY <1>6 DEF KeyStarts, K!Reconcile, K!FirstCall, K!kube, K!server, K!worker,
                MintingPcs, K!MintPcs
  <2> QED BY <1>6, <2>1 DEF KeyStarts, KeySide, K!Next
<1>7. CASE KeyEvent
  <2>1. UNCHANGED <<headscale, admin, nextKey, kpc>>
    BY <1>7 DEF KeyEvent, K!Arrive, K!Deliver, K!DeliverSecret, K!CollectSecret,
                K!server, K!worker, K!budget
  <2> QED BY <1>7, <2>1 DEF KeyEvent, K!Arrive, KeySide, K!Next
<1>8. ASSUME NEW k \in Keys, KeyReturns(k) PROVE KeySide
  <2>1. UNCHANGED <<headscale, admin, nextKey, kpc>>
    BY <1>8 DEF KeyReturns, K!Timer, K!kube, K!server, K!worker, K!budget
  <2> QED BY <1>8, <2>1 DEF KeyReturns, KeySide, K!Next
<1>9. CASE KeyPeople
  <2>1. UNCHANGED <<headscale, admin, nextKey, kpc>>
    BY <1>9 DEF KeyPeople, K!CreateObject, K!DeleteObject, K!server, K!worker,
                K!budget
  <2> QED BY <1>9, <2>1 DEF KeyPeople, KeySide, K!Next, K!Environment
<1>10. ASSUME NEW k \in Keys, Collect(k) PROVE KeySide
  <2>1. UNCHANGED <<headscale, admin, nextKey, kpc>>
    BY <1>10 DEF Collect, K!DeleteObject, K!server, K!budget
  <2> QED BY <1>10, <2>1 DEF Collect, KeySide, K!Next, K!Environment
<1>11. CASE UNCHANGED vars
  BY <1>11 DEF vars, UserSide, U!vars, keyVars, links
<1> QED BY <1>1, <1>2, <1>3, <1>4, <1>5, <1>6, <1>7, <1>8, <1>9, <1>10, <1>11
        DEF Next, KeyWorker

\* The invariant survives a step of each kind.  On the user's side the keys that the
\* server removes are those of a user removed for good.
LEMMA UserSideStep == AccountsInv /\ UserSide => AccountsInv'
<1> SUFFICES ASSUME AccountsInv, UserSide PROVE AccountsInv'
  OBVIOUS
<1> USE DEF AccountsInv, UserSide
<1>1. /\ UserInv'
      /\ U!Versions(user[Owner]) \subseteq Identified
           => U!Versions(user'[Owner]) \subseteq Identified
      /\ UserRemoved => UserRemoved'
      /\ users[Name].id # 0 /\ users'[Name].id = 0 => UserRemoved'
  BY UserStep
<1>2. faults' \in Nat /\ edits' \in Nat /\ admin' \in Nat
  BY <1>1 DEF UserInv, U!RowInv, U!CopyInv, U!FinalizerInv, U!TypeOK
<1>3. OwnerSeen' \in K!HsUser
  BY DEF OwnerSeen, K!HsUser
<1>4. K!OwnershipInv'
  BY <1>2, <1>3, KeysUntouched
<1>5. \A k \in Keys : /\ KeyNow(k)' = KeyNow(k)
                      /\ K!Versions(object'[k]) \subseteq K!Versions(object[k])
  BY DEF keyVars, KeyNow, K!Stored
<1>6. minted # 0 => kcur \in Keys
  BY KeyView
<1>7. LinkInv'
  BY <1>1, <1>5, <1>6, LinksLast DEF keyVars, links
<1> QED BY <1>1, <1>4, <1>7

\* On the keys' side each part of the invariant has had its lemma.
LEMMA KeySideStep == AccountsInv /\ KeySide => AccountsInv'
<1> SUFFICES ASSUME AccountsInv, KeySide PROVE AccountsInv'
  OBVIOUS
<1> USE DEF AccountsInv
<1>1. [K!Next]_K!vars /\ UNCHANGED <<userVars, headscale, admin>>
  BY DEF KeySide
<1>2. K!OwnershipInv'
  BY <1>1, KeyFacts
<1>3. faults' \in Nat /\ edits' \in Nat /\ admin' \in Nat
  BY <1>2 DEF K!OwnershipInv, K!FinalizerInv, K!TypeOK
<1>4. UserInv'
  BY <1>1, <1>3, UserUntouched
<1>5. ResolvedInv' /\ BelongsInv'
  BY ResolvedStep DEF LinkInv
<1>6. KeysKept'
  BY KeysKeptStep DEF LinkInv
<1>7. KeysProtected' /\ KeyDeleted'
  BY <1>1, KeysProtectedStep, KeyDeletedStep DEF LinkInv
<1>8. GoneClean'
  BY <1>1, GoneCleanStep DEF LinkInv
<1> QED BY <1>1, <1>2, <1>4, <1>5, <1>6, <1>7, <1>8 DEF LinkInv

\* The server refuses a key for a user it does not have: nothing but the worker's
\* place changes.
LEMMA RefusedStep == AccountsInv /\ KeyRefused => AccountsInv'
<1> SUFFICES ASSUME AccountsInv, KeyRefused PROVE AccountsInv'
  OBVIOUS
<1> USE DEF AccountsInv
<1>1. /\ kpc = "mint" /\ kpc' = "patch" /\ kcond' = "PreAuthKeyCreationFailed"
      /\ UNCHANGED <<userVars, object, secret, headscale, keys, nextKey, kqueue, later,
                     kcur, kobj, kfresh, minted, secFresh, lag, faults, edits, admin,
                     resolved, belongs>>
  BY DEF KeyRefused, K!CreationFailed, K!Report, K!queues, links
<1>2. K!FinalizerInv /\ K!TypeOK /\ OwnerSeen' = OwnerSeen
  BY <1>1, KeyView DEF userVars, OwnerSeen, Observed
<1>3. K!TypeOK'
  BY <1>1, <1>2 DEF K!TypeOK, K!Pcs, K!Reasons, K!FailureReasons
<1>4. K!HistoryInv' /\ K!FreshCopy' /\ K!WorkerInv'
  BY <1>1, <1>2 DEF K!FinalizerInv, K!HistoryInv, K!VersionsOrdered,
     K!FinalizerStays, K!FinalizerExists, K!FreshCopy, K!WorkerInv, K!Versions,
     K!Stored, K!DeletionPcs, K!Holding, K!LivePcs, K!MintPcs
<1>5. K!RowsIssued' /\ K!VersionsOwned' /\ K!CopyOwned'
  BY <1>1 DEF K!OwnershipInv, K!RowsIssued, K!VersionsOwned, K!CopyOwned, K!Owned,
              K!Versions
<1>6. K!OwnershipInv'
  BY <1>3, <1>4, <1>5 DEF K!OwnershipInv, K!FinalizerInv
<1>7. UserInv'
  BY <1>1, <1>2, UserUntouched DEF K!TypeOK
<1>8. \A k \in Keys : /\ KeyNow(k)' = KeyNow(k)
                      /\ K!Versions(object'[k]) \subseteq K!Versions(object[k])
  BY <1>1 DEF KeyNow, K!Stored
<1>9. minted # 0 => kcur \in Keys
  BY KeyView
<1>10. UserRemoved => UserRemoved'
  BY <1>1 DEF userVars, UserRemoved
<1>11. LinkInv'
  BY <1>1, <1>8, <1>9, <1>10, LinksLast DEF userVars, MintingPcs, K!MintPcs
<1> QED BY <1>1, <1>6, <1>7, <1>11

\* A restart keeps what is stored and forgets the rest.
LEMMA CrashStep == AccountsInv /\ Crash => AccountsInv'
<1> SUFFICES ASSUME AccountsInv, Crash PROVE AccountsInv'
  OBVIOUS
<1> USE DEF AccountsInv
<1>1. /\ [U!Next]_U!vars /\ UNCHANGED <<headscale, users, nextUser, admin>>
  BY DEF Crash, U!Crash, U!Next, U!server
<1>2. /\ object' = [k \in Keys |-> K!Relisted(object[k])]
      /\ secret' = [s \in Secrets |-> K!Relisted(secret[s])]
      /\ UNCHANGED <<keys, nextKey, lag, edits>> /\ faults' = faults + 1
      /\ kqueue' \subseteq Keys /\ later' = {}
      /\ kpc' = "idle" /\ kcur' = NoKey /\ kobj' = K!Absent
      /\ ~kfresh' /\ kfresh' \in BOOLEAN
      /\ minted' = 0 /\ secFresh' = FALSE /\ kcond' = "Unset"
      /\ resolved' = 0 /\ belongs' = belongs
  BY DEF Crash, K!Restart, K!Fault, K!Forget, K!server
<1>3. UserInv' /\ (UserRemoved => UserRemoved')
      /\ (U!Versions(user[Owner]) \subseteq Identified
            => U!Versions(user'[Owner]) \subseteq Identified)
  BY <1>1, UserStep
<1>4. K!FinalizerInv /\ K!TypeOK
  BY KeyView
<1>5. ASSUME NEW k \in Keys
      PROVE  /\ object[k] \in K!History(K!Object)
             /\ KeyNow(k) \in K!Versions(object[k])
             /\ object'[k] \in K!History(K!Object)
             /\ K!Versions(object'[k]) = {KeyNow(k)}
             /\ KeyNow(k)' = KeyNow(k) /\ K!Stored(object'[k]) = KeyNow(k)
             /\ K!Lasting(object'[k], K!PastObjects)
             /\ K!Lasting(object'[k], K!MadeObjects)
  <2>1. object[k] \in K!History(K!Object) /\ KeyNow(k) \in K!Versions(object[k])
    BY KeyView
  <2>2. object'[k] = K!Relisted(object[k])
    BY <1>2
  <2> QED BY <2>1, <2>2, K!RelistedVersions, K!RelistedLasting, KeyConstants
          DEF KeyNow, K!Stored
<1>6. K!TypeOK'
  <2>1. object' \in [Keys -> K!History(K!Object)]
    BY <1>2, <1>5
  <2>2. secret' \in [Secrets -> K!History(K!Secret)]
    <3>1. \A s \in Secrets : K!Relisted(secret[s]) \in K!History(K!Secret)
      BY <1>4, K!RelistedVersions, KeyConstants DEF K!TypeOK
    <3> QED BY <1>2, <3>1
  <2>3. OwnerSeen' \in K!HsUser
    BY DEF OwnerSeen, K!HsUser
  <2>4. headscale' \in BOOLEAN /\ kfresh' \in BOOLEAN /\ secFresh' \in BOOLEAN
    BY <1>1, <1>2, <1>4, Zenon DEF K!TypeOK
  <2>5. kobj' \in K!Object /\ kcond' \in K!Reasons /\ kpc' \in K!Pcs
    BY <1>2 DEF K!Pcs, K!Reasons, K!Object, K!Absent, K!Lives
  <2>6. /\ keys' \subseteq K!Row /\ nextKey' \in Nat \ {0} /\ kqueue' \subseteq Keys
        /\ later' \subseteq Keys /\ kcur' \in Keys \cup {NoKey} /\ minted' \in Nat
        /\ lag' \in Nat /\ faults' \in Nat /\ edits' \in Nat /\ admin' \in Nat
    BY <1>1, <1>2, <1>4 DEF K!TypeOK
  <2> QED BY <1>2, <2>1, <2>2, <2>3, <2>4, <2>5, <2>6 DEF K!TypeOK
<1>7. K!HistoryInv'
  <2>1. K!VersionsOrdered'
    BY <1>5 DEF K!VersionsOrdered, K!Lasting, K!PastObjects, K!MadeObjects, K!Past
  <2>2. K!FinalizerStays'
    BY <1>5 DEF K!FinalizerStays, K!Versions, K!Stored
  <2>3. K!FinalizerExists'
    BY <1>4, <1>5 DEF K!FinalizerInv, K!HistoryInv, K!FinalizerExists, K!Versions
  <2> QED BY <2>1, <2>2, <2>3 DEF K!HistoryInv
<1>8. K!FreshCopy' /\ K!WorkerInv'
  BY <1>2 DEF K!FreshCopy, K!WorkerInv, K!DeletionPcs, K!Holding, K!LivePcs, K!MintPcs
<1>9. K!RowsIssued' /\ K!VersionsOwned' /\ K!CopyOwned'
  <2>1. K!RowsIssued' /\ K!CopyOwned'
    BY <1>2 DEF K!OwnershipInv, K!RowsIssued, K!CopyOwned
  <2>2. \A k \in Keys : K!Owned(k, KeyNow(k).keyID)
    BY KeyView
  <2>3. ASSUME NEW k \in Keys, NEW o \in K!Versions(object'[k])
        PROVE  K!Owned(k, o.keyID)'
    BY <1>2, <1>5, <2>2, <2>3 DEF K!Owned
  <2> QED BY <2>1, <2>3 DEF K!VersionsOwned, K!Versions
<1>10. K!OwnershipInv'
  BY <1>6, <1>7, <1>8, <1>9 DEF K!OwnershipInv, K!FinalizerInv
<1>11. LinkInv'
  <2>1. \A k \in Keys : /\ KeyNow(k)' = KeyNow(k)
                        /\ K!Versions(object'[k]) \subseteq K!Versions(object[k])
    BY <1>5
  <2>2. minted # 0 => kcur \in Keys
    BY KeyView
  <2> QED BY <1>2, <1>3, <2>1, <2>2, LinksLast DEF MintingPcs, K!MintPcs
<1> QED BY <1>1, <1>3, <1>10, <1>11

\* At the start there is no object, no user and no key.
LEMMA InitAccounts == Init => AccountsInv
<1> SUFFICES ASSUME Init PROVE AccountsInv
  OBVIOUS
<1>1. U!Init /\ K!InitKeys /\ resolved = 0 /\ belongs = <<>>
  BY DEF Init
<1>2. UserInv
  <2>1. U!RowInv
    BY <1>1, U!InitCompletion, UserConstants DEF U!CompletionInv
  <2>2. nextUser = 1 /\ users[Name].id = 0 /\ user[Owner] = <<U!Absent>>
    BY <1>1 DEF U!Init, U!NoRow
  <2> QED BY <2>1, <2>2 DEF UserInv, OneUser, UserRemoved, IdLasts, U!Lasting
<1>3. /\ \A k \in Keys : object[k] = <<K!Absent>>
      /\ keys = {} /\ nextKey = 1 /\ kpc = "idle" /\ minted = 0 /\ ~kfresh
  BY <1>1 DEF K!InitKeys
<1>4. ASSUME NEW k \in Keys
      PROVE  /\ K!Versions(object[k]) = {K!Absent}
             /\ K!Stored(object[k]) = K!Absent /\ KeyNow(k) = K!Absent
             /\ Len(object[k]) = 1
  <2> DEFINE h == <<K!Absent>>
  <2>1. Len(h) = 1 /\ h[1] = K!Absent /\ object[k] = h
    BY <1>3
  <2> HIDE DEF h
  <2> QED BY <2>1 DEF K!Versions, K!Stored, KeyNow
<1>5. /\ ~K!Absent.finalizer /\ K!Absent.life = "none" /\ K!Absent.keyID = 0
      /\ K!Absent \in K!Object
  BY DEF K!Absent, K!Object, K!Lives, K!Reasons
<1>6. K!OwnershipInv
  <2>1. K!TypeOK
    <3>1. object \in [Keys -> K!History(K!Object)]
      BY <1>1, <1>5 DEF K!InitKeys, K!History
    <3>2. secret \in [Secrets -> K!History(K!Secret)]
      BY <1>1 DEF K!InitKeys, K!History, K!Secret, K!NoSecret
    <3>3. OwnerSeen \in K!HsUser
      BY DEF OwnerSeen, K!HsUser
    <3>4. headscale \in BOOLEAN /\ kfresh \in BOOLEAN /\ secFresh \in BOOLEAN
      BY <1>1, Zenon DEF K!InitKeys
    <3> QED BY <1>1, <1>5, <3>1, <3>2, <3>3, <3>4
            DEF K!InitKeys, K!TypeOK, K!Pcs, K!Reasons
  <2>2. K!HistoryInv
    <3>1. ASSUME NEW k \in Keys, NEW P PROVE K!Lasting(object[k], P)
      BY <1>4 DEF K!Lasting
    <3>2. K!FinalizerStays /\ K!FinalizerExists
      BY <1>4, <1>5 DEF K!FinalizerStays, K!FinalizerExists
    <3> QED BY <3>1, <3>2 DEF K!HistoryInv, K!VersionsOrdered
  <2>3. K!FreshCopy /\ K!WorkerInv
    BY <1>3 DEF K!FreshCopy, K!WorkerInv, K!DeletionPcs, K!Holding, K!LivePcs, K!MintPcs
  <2>4. K!RowsIssued /\ K!VersionsOwned /\ K!CopyOwned
    BY <1>3, <1>4, <1>5 DEF K!RowsIssued, K!VersionsOwned, K!CopyOwned, K!Owned
  <2> QED BY <2>1, <2>2, <2>3, <2>4 DEF K!OwnershipInv, K!FinalizerInv
<1>7. LinkInv
  BY <1>1, <1>3, <1>4, <1>5
     DEF LinkInv, ResolvedInv, BelongsInv, KeysKept, Kept, KeysProtected, KeyDeleted,
         GoneClean, MintingPcs, K!MintPcs
<1> QED BY <1>1, <1>2, <1>6, <1>7 DEF AccountsInv, U!Init

\* The invariants of the two reconcilers, and what relates them, hold throughout.
LEMMA AccountsAlways == Spec => []AccountsInv
<1>1. AccountsInv /\ [Next]_vars => AccountsInv'
  BY StepKinds, UserSideStep, KeySideStep, RefusedStep, CrashStep
<1> QED BY <1>1, InitAccounts, PTL DEF Spec

\* Together, neither reconciler loses what it keeps alone: a user and a key are made
\* only for an object whose stored version holds the finalizer, whatever the other
\* worker, the garbage collector and the server do in between.
THEOREM FinalizersSafe == Spec => [](U!FinalizerBeforeCreate /\ K!FinalizerBeforeMint)
<1>1. AccountsInv => U!FinalizerBeforeCreate /\ K!FinalizerBeforeMint
  BY DEF AccountsInv, UserInv, U!RowInv, U!CopyInv, U!FinalizerInv, U!WorkerInv,
     U!Holding, U!FinalizerBeforeCreate, K!OwnershipInv, K!FinalizerInv, K!WorkerInv,
     K!Holding, K!LivePcs, K!MintPcs, K!FinalizerBeforeMint
<1> QED BY <1>1, AccountsAlways, PTL

\* The key that a live object records is in force and belongs to the user that the
\* live HeadscaleUser records, however old the ID was that resolveUserID returned.
THEOREM KeyBelongsSafe == Spec => []KeyBelongsToOwner
<1>1. AccountsInv => KeyBelongsToOwner
  <2> SUFFICES ASSUME AccountsInv, Stored(user[Owner]).life = "live",
                      NEW k \in Keys, Stored(object[k]).life = "live",
                      Stored(object[k]).keyID # 0
               PROVE  InForceFor(k, Stored(user[Owner]).userID)
    BY DEF KeyBelongsToOwner
  <2> USE DEF AccountsInv
  <2>1. Stored(user[Owner]) = OwnerNow /\ Stored(object[k]) = KeyNow(k)
    BY DEF OwnerNow, KeyNow, Stored, U!Stored, K!Stored
  <2> DEFINE id == KeyNow(k).keyID
  <2>2. /\ OwnerNow \in U!Versions(user[Owner])
        /\ KeyNow(k) \in K!Versions(object[k]) /\ id \in Nat /\ id < nextKey
        /\ nextKey \in Nat \ {0}
    BY KeyView, OwnerFacts DEF UserInv
  <2>3. ~UserRemoved
    BY <2>1, <2>2 DEF UserInv, OneUser, U!AllPast, U!Past
  <2>4. ~KeyPast(k)
    BY <2>1, <2>2 DEF KeyPast, K!PastObjects, K!Past
  <2>5. HasRow(id)
    BY <2>1, <2>3, <2>4 DEF LinkInv, KeysKept, Kept
  <2>6. belongs[id] = 1
    <3>1. belongs \in Seq({1}) /\ id \in 1..Len(belongs)
      BY <2>1, <2>2 DEF LinkInv, BelongsInv
    <3> QED BY <3>1
  <2>7. OwnerNow.userID = 1
    BY <2>1, <2>2 DEF LinkInv, ResolvedInv, Identified
  <2> QED BY <2>1, <2>5, <2>6, <2>7 DEF InForceFor, HasRow
<1> QED BY <1>1, AccountsAlways, PTL

\* An object that is gone leaves no key of its own behind, in whatever order the
\* deletions of the two objects, the server's and the garbage collector's come
\* (handleDeletion).
THEOREM KeyGoneSafe == Spec => []KeyGoneWithObject
<1>1. AccountsInv => KeyGoneWithObject
  BY DEF AccountsInv, LinkInv, GoneClean, HasRow, KeyNow, Stored, K!Stored,
         KeyGoneWithObject
<1> QED BY <1>1, AccountsAlways, PTL
=============================================================================
