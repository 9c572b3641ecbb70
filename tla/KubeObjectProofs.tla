--------------------------- MODULE KubeObjectProofs ---------------------------
(***************************************************************************)
(* What a write, a watch event and a relist do to the versions of an       *)
(* object, for the proofs about the reconcilers.                           *)
(***************************************************************************)
EXTENDS KubeObject, SequenceTheorems, TLAPS

\* The versions between the cache and the server, both included.
Versions(h) == {h[i] : i \in 1..Len(h)}

\* Once a version is in P, every later one is.
Lasting(h, P) == \A i, j \in 1..Len(h) : i <= j /\ h[i] \in P => h[j] \in P

-----------------------------------------------------------------------------
(* By position.                                                            *)

\* A write keeps the versions there are and becomes the stored one.
LEMMA WrittenHistory ==
  ASSUME NEW S, NEW h \in History(S), NEW o \in S
  PROVE  /\ Written(h, o) \in History(S)
         /\ Len(h) \in Nat \ {0}
         /\ Len(Written(h, o)) = Len(h) + 1
         /\ Stored(Written(h, o)) = o
         /\ \A i \in 1..Len(h) : Written(h, o)[i] = h[i]
         /\ Written(h, o)[Len(h) + 1] = o
         /\ Stored(h) \in S /\ Observed(h) \in S
  BY DEF History, Written, Stored, Observed

\* A watch event takes the oldest version away and nothing else.
LEMMA DeliveredHistory ==
  ASSUME NEW S, NEW h \in History(S), Lag(h) > 0
  PROVE  /\ Delivered(h) \in History(S)
         /\ Len(Delivered(h)) = Len(h) - 1 /\ Len(h) \in Nat \ {0, 1}
         /\ Stored(Delivered(h)) = Stored(h)
         /\ \A i \in 1..(Len(h) - 1) : Delivered(h)[i] = h[i + 1]
<1>1. h \in Seq(S) /\ Len(h) \in Nat /\ Len(h) > 1
  BY DEF History, Lag
<1>2. /\ Tail(h) \in Seq(S) /\ Len(Tail(h)) = Len(h) - 1
      /\ \A i \in 1..(Len(h) - 1) : Tail(h)[i] = h[i + 1]
  BY <1>1, HeadTailProperties DEF History
<1>3. Tail(h) # <<>>
  <2>1. Len(Tail(h)) # Len(<<>>)
    BY <1>1, <1>2
  <2> QED BY <2>1, Zenon
<1> QED BY <1>1, <1>2, <1>3 DEF History, Delivered, Stored

\* A relist leaves the stored version alone in sight.
LEMMA RelistedHistory ==
  ASSUME NEW S, NEW h \in History(S)
  PROVE  /\ Relisted(h) \in History(S)
         /\ Len(Relisted(h)) = 1 /\ Len(h) \in Nat \ {0}
         /\ Stored(Relisted(h)) = Stored(h)
         /\ Relisted(h)[1] = h[Len(h)]
  BY DEF History, Relisted, Stored

-----------------------------------------------------------------------------
(* As a set.                                                               *)

\* The cache and the server hold two of the versions, and the same one when no
\* watch event is on its way.
LEMMA EndVersions ==
  ASSUME NEW S, NEW h \in History(S)
  PROVE  /\ Stored(h) \in Versions(h) /\ Observed(h) \in Versions(h)
         /\ Versions(h) \subseteq S
         /\ InSync(h) => Versions(h) = {Stored(h)} /\ Observed(h) = Stored(h)
         /\ Lag(h) \in Nat /\ (Lag(h) = 0 <=> InSync(h))
<1>1. h \in Seq(S) /\ Len(h) \in Nat \ {0}
  BY DEF History
<1> QED BY <1>1 DEF Versions, Stored, Observed, InSync, Lag

\* A write adds one version, the last, and an event for the cache.
LEMMA WrittenVersions ==
  ASSUME NEW S, NEW h \in History(S), NEW o \in S
  PROVE  /\ Written(h, o) \in History(S)
         /\ Versions(Written(h, o)) = Versions(h) \cup {o}
         /\ Stored(Written(h, o)) = o /\ Observed(Written(h, o)) = Observed(h)
         /\ Lag(Written(h, o)) > 0 /\ Lag(Written(h, o)) = Lag(h) + 1
<1> DEFINE w == Written(h, o)
<1>1. /\ w \in History(S) /\ Len(h) \in Nat \ {0} /\ Len(w) = Len(h) + 1
      /\ Stored(w) = o /\ w[Len(h) + 1] = o
      /\ \A i \in 1..Len(h) : w[i] = h[i]
  BY WrittenHistory
<1> HIDE DEF w
<1>2. Versions(w) = Versions(h) \cup {o}
  BY <1>1 DEF Versions
<1>3. Observed(w) = Observed(h) /\ Lag(w) > 0 /\ Lag(w) = Lag(h) + 1
  BY <1>1 DEF Observed, Lag
<1> QED BY <1>1, <1>2, <1>3 DEF w

\* A watch event adds no version and does not touch the stored one.
LEMMA DeliveredVersions ==
  ASSUME NEW S, NEW h \in History(S), Lag(h) > 0
  PROVE  /\ Delivered(h) \in History(S)
         /\ Versions(Delivered(h)) \subseteq Versions(h)
         /\ Stored(Delivered(h)) = Stored(h)
         /\ Lag(Delivered(h)) = Lag(h) - 1
         /\ Observed(Delivered(h)) = h[2] /\ 2 \in 1..Len(h)
<1> DEFINE d == Delivered(h)
<1>1. /\ d \in History(S) /\ Len(d) = Len(h) - 1 /\ Len(h) \in Nat \ {0, 1}
      /\ Stored(d) = Stored(h)
      /\ \A i \in 1..(Len(h) - 1) : d[i] = h[i + 1]
  BY DeliveredHistory
<1> HIDE DEF d
<1>2. Versions(d) \subseteq Versions(h)
  BY <1>1 DEF Versions
<1>3. Lag(d) = Lag(h) - 1 /\ Observed(d) = h[2] /\ 2 \in 1..Len(h)
  BY <1>1 DEF Lag, Observed
<1> QED BY <1>1, <1>2, <1>3 DEF d

\* A relist leaves the stored version.
LEMMA RelistedVersions ==
  ASSUME NEW S, NEW h \in History(S)
  PROVE  /\ Relisted(h) \in History(S)
         /\ Versions(Relisted(h)) = {Stored(h)}
         /\ Stored(Relisted(h)) = Stored(h) /\ Observed(Relisted(h)) = Stored(h)
         /\ InSync(Relisted(h)) /\ Lag(Relisted(h)) = 0
<1> DEFINE r == Relisted(h)
<1>1. r \in History(S) /\ Len(r) = 1 /\ r[1] = Stored(h) /\ Stored(r) = Stored(h)
  BY RelistedHistory DEF Stored
<1> HIDE DEF r
<1> QED BY <1>1 DEF Versions, Observed, InSync, Lag, r

-----------------------------------------------------------------------------
(* What lasts.                                                             *)

\* What lasts and is cached holds of every version in sight.
LEMMA LastingObserved ==
  ASSUME NEW S, NEW h \in History(S), NEW P, Lasting(h, P), Observed(h) \in P
  PROVE  Versions(h) \subseteq P
<1>1. Len(h) \in Nat \ {0}
  BY DEF History
<1> QED BY <1>1 DEF Lasting, Observed, Versions

\* A version that has what the stored one had for good keeps it so.
LEMMA WrittenLasting ==
  ASSUME NEW S, NEW h \in History(S), NEW o \in S, NEW P, Lasting(h, P),
         Stored(h) \in P => o \in P
  PROVE  Lasting(Written(h, o), P)
<1> DEFINE w == Written(h, o)
<1>1. /\ Len(h) \in Nat \ {0} /\ Len(w) = Len(h) + 1
      /\ w[Len(h) + 1] = o
      /\ \A i \in 1..Len(h) : w[i] = h[i]
  BY WrittenHistory
<1> HIDE DEF w
<1>2. ASSUME NEW i \in 1..Len(h), h[i] \in P PROVE o \in P
  BY <1>1, <1>2 DEF Lasting, Stored
<1>3. Lasting(w, P)
  <2> SUFFICES ASSUME NEW i \in 1..Len(w), NEW j \in 1..Len(w), i <= j, w[i] \in P
               PROVE  w[j] \in P
    BY DEF Lasting
  <2>1. CASE j \in 1..Len(h)
    BY <2>1, <1>1 DEF Lasting
  <2>2. CASE j = Len(h) + 1 /\ i \in 1..Len(h)
    BY <2>2, <1>1, <1>2
  <2>3. CASE i = Len(h) + 1
    BY <2>3, <1>1
  <2> QED BY <2>1, <2>2, <2>3, <1>1
<1> QED BY <1>3 DEF w

\* A watch event forgets a version only.
LEMMA DeliveredLasting ==
  ASSUME NEW S, NEW h \in History(S), Lag(h) > 0, NEW P, Lasting(h, P)
  PROVE  Lasting(Delivered(h), P)
<1> DEFINE d == Delivered(h)
<1>1. /\ Len(d) = Len(h) - 1 /\ Len(h) \in Nat \ {0, 1}
      /\ \A i \in 1..(Len(h) - 1) : d[i] = h[i + 1]
  BY DeliveredHistory
<1> HIDE DEF d
<1>2. Lasting(d, P)
  <2> SUFFICES ASSUME NEW i \in 1..Len(d), NEW j \in 1..Len(d), i <= j, d[i] \in P
               PROVE  d[j] \in P
    BY DEF Lasting
  <2>1. /\ i + 1 \in 1..Len(h) /\ j + 1 \in 1..Len(h) /\ i + 1 <= j + 1
        /\ d[i] = h[i + 1] /\ d[j] = h[j + 1]
    BY <1>1
  <2> QED BY <2>1 DEF Lasting
<1> QED BY <1>2 DEF d

\* One version is left after a relist.
LEMMA RelistedLasting ==
  ASSUME NEW S, NEW h \in History(S), NEW P
  PROVE  Lasting(Relisted(h), P)
<1>1. Len(Relisted(h)) = 1
  BY RelistedHistory
<1> QED BY <1>1 DEF Lasting
=============================================================================
