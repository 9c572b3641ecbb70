-------------------------- MODULE PolicyDocumentProofs --------------------------
(***************************************************************************)
(* Theorems about PolicyDocument, for any sets of CIDRs and tags and any   *)
(* number of approvers and entries.                                        *)
(*                                                                         *)
(* The loops of buildPolicyDocument are folds.  What a fold computes is    *)
(* shown once for each of them, from one lemma about folds of a function   *)
(* (FoldExists); what the loops keep follows by induction on how far they  *)
(* have come, in the form of a set of numbers (SetInduction).              *)
(***************************************************************************)
EXTENDS PolicyDocument, TLAPS, WellFoundedInduction, FiniteSetTheorems, SequenceTheorems

-----------------------------------------------------------------------------
(* Induction and folds.                                                    *)

\* Induction up to n, with a set for the numbers reached.
LEMMA SetInduction ==
  ASSUME NEW n \in Nat, NEW P, 0 \in P, \A k \in 0 .. n - 1 : k \in P => k + 1 \in P
  PROVE  \A k \in 0 .. n : k \in P
<1>. DEFINE bad == {k \in 0 .. n : k \notin P}
<1>. DEFINE R == {ss \in Nat \X Nat : ss[1] < ss[2]}
<1>1. IsWellFoundedOn(R, Nat)
  BY NatLessThanWellFounded DEF OpToRel
<1>2. SUFFICES ASSUME bad # {} PROVE FALSE
  OBVIOUS
<1>3. bad \subseteq Nat
  OBVIOUS
<1>. HIDE DEF R
<1>4. PICK k \in bad : \A j \in bad : ~ (<<j, k>> \in R)
  BY <1>1, <1>2, <1>3, WFMin
<1>5. k # 0 /\ k - 1 \in 0 .. n - 1
  OBVIOUS
<1>6. k - 1 \notin bad
  <2>1. <<k - 1, k>> \in R
    BY <1>5 DEF R
  <2> QED BY <1>4, <2>1
<1> QED BY <1>5, <1>6

\* A set of indices has a greatest element, which FoldLeft takes first.
LEMMA MaxIn ==
  ASSUME NEW n \in Nat, NEW S \in SUBSET (1 .. n), S # {}
  PROVE  Max(S) \in S /\ \A x \in S : x <= Max(S)
<1>. DEFINE Has(m) == \A T \in SUBSET (1 .. m) : T # {} => \E x \in T : \A y \in T : x >= y
            P == {m \in 0 .. n : Has(m)}
<1>1. 0 \in P
  <2>1. ASSUME NEW T \in SUBSET (1 .. 0), NEW x \in T PROVE FALSE
    OBVIOUS
  <2>2. Has(0)
    BY <2>1
  <2>. HIDE DEF Has
  <2> QED BY <2>2
<1>2. ASSUME NEW m \in 0 .. n - 1, m \in P PROVE m + 1 \in P
  <2>. SUFFICES ASSUME NEW T \in SUBSET (1 .. (m + 1)), T # {}
                PROVE  \E x \in T : \A y \in T : x >= y
    OBVIOUS
  <2>1. CASE m + 1 \in T
    BY <2>1
  <2>2. CASE m + 1 \notin T
    <3>1. T \in SUBSET (1 .. m)
      BY <2>2
    <3> QED BY <3>1, <1>2
  <2> QED BY <2>1, <2>2
<1>3. n \in P
  <2>. HIDE DEF P
  <2> QED BY <1>1, <1>2, SetInduction
<1>4. \E x \in S : \A y \in S : x >= y
  BY <1>3
<1> QED BY <1>4 DEF Max

\* In order, repetitions allowed.
Ordered(list) == \A i, j \in DOMAIN list : i < j => list[i] <= list[j]

\* What the first elements of a list are.
Taken(list, k) == {list[i] : i \in 1 .. k}

\* f[s] is the fold over the indices in s, lowest first.
IsFold(f, n, base, step) ==
  \A s \in SUBSET (1 .. n) :
    f[s] = IF s = {} THEN base ELSE step[<<Max(s), f[s \ {Max(s)}]>>]

\* The recursion of MapThenFoldSet, for a step that is a function, has a solution.
LEMMA FoldExists ==
  ASSUME NEW n \in Nat, NEW D, NEW base \in D, NEW step \in [(1 .. n) \X D -> D]
  PROVE  \E f \in [SUBSET (1 .. n) -> D] : IsFold(f, n, base, step)
<1>. DEFINE Folds(m, f) ==
              \A s \in SUBSET (1 .. m) :
                f[s] = IF s = {} THEN base ELSE step[<<Max(s), f[s \ {Max(s)}]>>]
            P == {m \in 0 .. n : \E f \in [SUBSET (1 .. m) -> D] : Folds(m, f)}
<1>1. 0 \in P
  <2>. DEFINE f == [s \in SUBSET (1 .. 0) |-> base]
  <2>1. SUBSET (1 .. 0) = {{}}
    OBVIOUS
  <2>2. f \in [SUBSET (1 .. 0) -> D] /\ Folds(0, f)
    BY <2>1
  <2>. HIDE DEF f, Folds
  <2>3. \E h \in [SUBSET (1 .. 0) -> D] : Folds(0, h)
    BY <2>2
  <2>4. 0 \in 0 .. n
    OBVIOUS
  <2> QED BY <2>3, <2>4, Zenon
<1>2. ASSUME NEW m \in 0 .. n - 1, m \in P PROVE m + 1 \in P
  <2>1. PICK f \in [SUBSET (1 .. m) -> D] : Folds(m, f)
    BY <1>2
  <2>. DEFINE g == [s \in SUBSET (1 .. (m + 1)) |->
                      IF m + 1 \in s THEN step[<<m + 1, f[s \ {m + 1}]>>] ELSE f[s]]
  <2>2. \A s \in SUBSET (1 .. (m + 1)) :
          /\ m + 1 \in s => s \ {m + 1} \in SUBSET (1 .. m)
          /\ m + 1 \notin s => s \in SUBSET (1 .. m)
    OBVIOUS
  <2>3. g \in [SUBSET (1 .. (m + 1)) -> D]
    BY <2>2
  <2>4. ASSUME NEW s \in SUBSET (1 .. (m + 1)), s # {}
        PROVE  g[s] = step[<<Max(s), g[s \ {Max(s)}]>>]
    <3>1. m + 1 \in Nat /\ Max(s) \in s /\ (\A x \in s : x <= Max(s)) /\ Max(s) \in 1 .. m + 1
      <4>1. m + 1 \in Nat
        OBVIOUS
      <4> QED BY <2>4, <4>1, MaxIn
    <3>. DEFINE top == Max(s)
    <3>. HIDE DEF top
    <3>2. s \ {top} \in SUBSET (1 .. m)
      <4>1. CASE m + 1 \in s
        <5>1. top = m + 1
          BY <3>1, <4>1 DEF top
        <5> QED BY <2>2, <4>1, <5>1
      <4> QED BY <2>2, <4>1
    <3>3. g[s \ {top}] = f[s \ {top}]
      <4>1. m + 1 \notin s \ {top} /\ s \ {top} \in SUBSET (1 .. (m + 1))
        BY <3>2
      <4> QED BY <4>1
    <3>4. CASE m + 1 \in s
      <4>1. top = m + 1
        BY <3>1, <3>4 DEF top
      <4>2. g[s] = step[<<m + 1, f[s \ {m + 1}]>>]
        BY <3>4
      <4> QED BY <4>1, <4>2, <3>3 DEF top
    <3>5. CASE m + 1 \notin s
      <4>1. s \in SUBSET (1 .. m) /\ g[s] = f[s]
        BY <2>2, <3>5
      <4>2. f[s] = step[<<top, f[s \ {top}]>>]
        BY <2>1, <2>4, <4>1 DEF top
      <4> QED BY <3>3, <4>1, <4>2 DEF top
    <3> QED BY <3>4, <3>5
  <2>5. g[{}] = base
    BY <2>1
  <2>6. Folds(m + 1, g)
    BY <2>4, <2>5
  <2>. HIDE DEF g, Folds
  <2>7. \E h \in [SUBSET (1 .. (m + 1)) -> D] : Folds(m + 1, h)
    BY <2>3, <2>6
  <2> QED BY <2>7
<1>3. n \in P
  <2>. HIDE DEF P
  <2> QED BY <1>1, <1>2, SetInduction
<1> QED BY <1>3 DEF IsFold

\* The folded function on the first elements of a list.
LEMMA MaxOfPrefix ==
  ASSUME NEW n \in Nat, NEW k \in 0 .. n - 1
  PROVE  /\ 1 .. k + 1 \in SUBSET (1 .. n) /\ 1 .. k + 1 # {}
         /\ Max(1 .. k + 1) = k + 1 /\ (1 .. k + 1) \ {k + 1} = 1 .. k
<1>1. k + 1 \in Nat /\ 1 .. k + 1 # {} /\ k + 1 \in 1 .. k + 1
  OBVIOUS
<1>2. 1 .. k + 1 \in SUBSET (1 .. n)
  OBVIOUS
<1>3. (1 .. k + 1) \ {k + 1} = 1 .. k
  OBVIOUS
<1>4. Max(1 .. k + 1) \in 1 .. k + 1 /\ \A x \in 1 .. k + 1 : x <= Max(1 .. k + 1)
  BY <1>1, MaxIn
<1>5. Max(1 .. k + 1) = k + 1
  BY <1>1, <1>4
<1> QED BY <1>1, <1>2, <1>3, <1>5

-----------------------------------------------------------------------------
(* The loops, one fold each.                                               *)

\* What AddTag returns is a list of numbers.
LEMMA AddTagType ==
  ASSUME NEW list \in Seq(Nat), NEW tag \in Nat
  PROVE  AddTag(list, tag) \in Seq(Nat)
BY DEF AddTag

\* So is what AppendNew returns.
LEMMA AppendNewType ==
  ASSUME NEW list \in Seq(Nat), NEW x \in Nat
  PROVE  AppendNew(list, x) \in Seq(Nat)
BY DEF AppendNew

\* A set of numbers has a least element.
LEMMA MinIn ==
  ASSUME NEW S \in SUBSET Nat, S # {}
  PROVE  Min(S) \in S /\ \A x \in S : Min(S) <= x
<1>. DEFINE R == {ss \in Nat \X Nat : ss[1] < ss[2]}
<1>1. IsWellFoundedOn(R, Nat)
  BY NatLessThanWellFounded DEF OpToRel
<1>2. \E x \in S : \A y \in S : ~ (<<y, x>> \in R)
  <2>. HIDE DEF R
  <2> QED BY <1>1, WFMin
<1>3. \E x \in S : \A y \in S : x <= y
  <2>1. PICK x \in S : \A y \in S : ~ (<<y, x>> \in R)
    BY <1>2
  <2>2. \A y \in S : ~ (y < x) /\ x \in Nat /\ y \in Nat
    BY <2>1
  <2> QED BY <2>2
<1> QED BY <1>3 DEF Min

\* The place of a new element: what is not greater comes before it.
LEMMA InsertForm ==
  ASSUME NEW list \in Seq(Nat), NEW x \in Nat, Ordered(list)
  PROVE  \E p \in 1 .. Len(list) + 1 :
           /\ Insert(list, x) = [i \in 1 .. Len(list) + 1 |->
                                   IF i < p THEN list[i] ELSE IF i = p THEN x ELSE list[i - 1]]
           /\ \A i \in 1 .. Len(list) : (i < p => list[i] <= x) /\ (i >= p => x < list[i])
<1>. DEFINE S == {i \in DOMAIN list : x < list[i]} \cup {Len(list) + 1}
            p == Min(S)
<1>1. DOMAIN list = 1 .. Len(list) /\ Len(list) \in Nat
  OBVIOUS
<1>2. S \in SUBSET Nat /\ S # {} /\ S \subseteq 1 .. Len(list) + 1
  BY <1>1
<1>3. p \in S /\ \A i \in S : p <= i
  <2>. HIDE DEF S
  <2> QED BY <1>2, MinIn
<1>4. p \in 1 .. Len(list) + 1
  BY <1>2, <1>3
<1>. HIDE DEF p
<1>5. \A i \in 1 .. Len(list) : i < p => list[i] <= x
  BY <1>1, <1>3, <1>4
<1>6. \A i \in 1 .. Len(list) : i >= p => x < list[i]
  BY <1>1, <1>3, <1>4 DEF Ordered
<1>7. Insert(list, x) = SubSeq(list, 1, p - 1) \o <<x>> \o SubSeq(list, p, Len(list))
  BY DEF Insert, InsertAt, p
<1>8. SubSeq(list, 1, p - 1) \o <<x>> \o SubSeq(list, p, Len(list))
        = [i \in 1 .. Len(list) + 1 |->
             IF i < p THEN list[i] ELSE IF i = p THEN x ELSE list[i - 1]]
  <2>. DEFINE below == SubSeq(list, 1, p - 1)
              above == SubSeq(list, p, Len(list))
  <2>1. /\ below \in Seq(Nat) /\ Len(below) = p - 1
        /\ \A i \in 1 .. p - 1 : below[i] = list[i]
    BY <1>1, <1>4
  <2>2. /\ above \in Seq(Nat) /\ Len(above) = Len(list) - p + 1
        /\ \A i \in 1 .. Len(list) - p + 1 : above[i] = list[p + i - 1]
    BY <1>1, <1>4
  <2>. HIDE DEF below, above
  <2>. DEFINE upto == below \o <<x>>
  <2>3. upto \in Seq(Nat) /\ Len(upto) = p
    BY <1>4, <2>1
  <2>4. \A i \in 1 .. p : upto[i] = IF i < p THEN list[i] ELSE x
    BY <1>4, <2>1
  <2>. HIDE DEF upto
  <2>. DEFINE joined == upto \o above
  <2>5. /\ joined \in Seq(Nat) /\ Len(joined) = p + (Len(list) - p + 1)
        /\ \A i \in 1 .. p + (Len(list) - p + 1) :
             joined[i] = IF i <= p THEN upto[i] ELSE above[i - p]
    <3>1. /\ joined \in Seq(Nat) /\ Len(joined) = Len(upto) + Len(above)
          /\ \A i \in 1 .. Len(upto) + Len(above) :
               joined[i] = IF i <= Len(upto) THEN upto[i] ELSE above[i - Len(upto)]
      BY <2>2, <2>3, ConcatProperties
    <3>. HIDE DEF joined
    <3> QED BY <2>2, <2>3, <3>1
  <2>. HIDE DEF joined
  <2>6. p + (Len(list) - p + 1) = Len(list) + 1
    BY <1>1, <1>4
  <2>7. ASSUME NEW i \in 1 .. Len(list) + 1
        PROVE  joined[i] = IF i < p THEN list[i] ELSE IF i = p THEN x ELSE list[i - 1]
    <3>1. CASE i <= p
      <4>1. joined[i] = upto[i]
        BY <2>5, <2>6, <3>1
      <4> QED BY <1>4, <2>4, <3>1, <4>1
    <3>2. CASE i > p
      <4>1. joined[i] = above[i - p]
        BY <1>4, <2>5, <2>6, <3>2
      <4>2. i - p \in 1 .. Len(list) - p + 1 /\ p + (i - p) - 1 = i - 1
        BY <1>1, <1>4, <3>2
      <4>3. above[i - p] = list[i - 1]
        BY <2>2, <4>2
      <4> QED BY <1>4, <3>2, <4>1, <4>3
    <3> QED BY <1>4, <3>1, <3>2
  <2>8. joined = [i \in 1 .. Len(list) + 1 |-> joined[i]]
    BY <2>5, <2>6
  <2>9. joined = [i \in 1 .. Len(list) + 1 |->
                   IF i < p THEN list[i] ELSE IF i = p THEN x ELSE list[i - 1]]
    BY <2>7, <2>8
  <2> QED BY <2>9 DEF joined, upto, below, above
<1> QED BY <1>4, <1>5, <1>6, <1>7, <1>8

\* What Insert returns is a list of numbers.
LEMMA InsertType ==
  ASSUME NEW list \in Seq(Nat), NEW x \in Nat
  PROVE  Insert(list, x) \in Seq(Nat)
<1>. DEFINE S == {i \in DOMAIN list : x < list[i]} \cup {Len(list) + 1}
<1>1. S \in SUBSET Nat /\ S # {} /\ S \subseteq 1 .. Len(list) + 1
  OBVIOUS
<1>2. Min(S) \in 1 .. Len(list) + 1
  <2>. HIDE DEF S
  <2> QED BY <1>1, MinIn
<1>. DEFINE p == Min(S)
<1>3. SubSeq(list, 1, p - 1) \in Seq(Nat) /\ SubSeq(list, p, Len(list)) \in Seq(Nat)
  <2>. HIDE DEF p
  <2>1. p \in 1 .. Len(list) + 1
    BY <1>2 DEF p
  <2> QED BY <2>1
<1>4. Insert(list, x) = SubSeq(list, 1, p - 1) \o <<x>> \o SubSeq(list, p, Len(list))
  BY DEF Insert, InsertAt
<1>. HIDE DEF p
<1> QED BY <1>3, <1>4

\* MergeTags adds the tags one by one.
LEMMA MergeTagsFold ==
  ASSUME NEW existing \in Seq(Nat), NEW tags \in Seq(Nat)
  PROVE  \E f : /\ f[0] = existing
                /\ f[Len(tags)] = MergeTags(existing, tags)
                /\ \A k \in 0 .. Len(tags) - 1 : f[k + 1] = AddTag(f[k], tags[k + 1])
<1>. DEFINE n == Len(tags)
            D == Seq(Nat)
            step == [p \in (1 .. n) \X D |-> AddTag(p[2], tags[p[1]])]
            Folds(f) == f = [s \in SUBSET (1 .. n) |->
                               IF s = {} THEN existing
                               ELSE AddTag(f[s \ {Max(s)}], tags[Max(s)])]
            iter == CHOOSE f : Folds(f)
<1>1. n \in Nat /\ DOMAIN tags = 1 .. n
  OBVIOUS
<1>2. step \in [(1 .. n) \X D -> D]
  <2>1. ASSUME NEW p \in (1 .. n) \X D PROVE AddTag(p[2], tags[p[1]]) \in D
    <3>1. tags[p[1]] \in Nat /\ p[2] \in D
      BY <1>1
    <3> QED BY <3>1, AddTagType
  <2> QED BY <2>1
<1>3. \E f : Folds(f)
  <2>. HIDE DEF step
  <2>1. PICK f \in [SUBSET (1 .. n) -> D] : IsFold(f, n, existing, step)
    <3>1. existing \in D
      OBVIOUS
    <3>. HIDE DEF D, n
    <3> QED BY <1>1, <1>2, <3>1, FoldExists
  <2>2. ASSUME NEW s \in SUBSET (1 .. n), s # {}
        PROVE  f[s] = AddTag(f[s \ {Max(s)}], tags[Max(s)])
    <3>1. Max(s) \in 1 .. n
      BY <1>1, <2>2, MaxIn
    <3>2. f[s \ {Max(s)}] \in D
      OBVIOUS
    <3>3. step[<<Max(s), f[s \ {Max(s)}]>>] = AddTag(f[s \ {Max(s)}], tags[Max(s)])
      BY <3>1, <3>2 DEF step
    <3> QED BY <2>1, <2>2, <3>3 DEF IsFold
  <2>3. Folds(f)
    BY <2>1, <2>2 DEF IsFold
  <2> QED BY <2>3
<1>4. Folds(iter)
  <2>. HIDE DEF Folds
  <2> QED BY <1>3
<1>5. MergeTags(existing, tags) = iter[1 .. n]
  BY <1>1 DEF MergeTags, FoldLeft, MapThenFoldSet
<1>. HIDE DEF iter
<1>. DEFINE f == [k \in 0 .. n |-> iter[1 .. k]]
<1>6. f[0] = existing /\ f[n] = MergeTags(existing, tags)
  <2>1. 1 .. 0 = {} /\ {} \in SUBSET (1 .. n)
    OBVIOUS
  <2>2. iter[{}] = existing
    BY <1>4, <2>1
  <2> QED BY <1>1, <1>5, <2>1, <2>2
<1>7. ASSUME NEW k \in 0 .. n - 1 PROVE f[k + 1] = AddTag(f[k], tags[k + 1])
  <2>1. /\ 1 .. k + 1 \in SUBSET (1 .. n) /\ 1 .. k + 1 # {}
        /\ Max(1 .. k + 1) = k + 1 /\ (1 .. k + 1) \ {k + 1} = 1 .. k
    BY <1>1, MaxOfPrefix
  <2>2. iter[1 .. k + 1] = AddTag(iter[1 .. k], tags[k + 1])
    BY <1>4, <2>1
  <2> QED BY <1>1, <2>2
<1> QED BY <1>6, <1>7

\* Sorted inserts the elements one by one.
LEMMA SortedFold ==
  ASSUME NEW list \in Seq(Nat)
  PROVE  \E f : /\ f[0] = <<>>
                /\ f[Len(list)] = Sorted(list)
                /\ \A k \in 0 .. Len(list) - 1 : f[k + 1] = Insert(f[k], list[k + 1])
<1>. DEFINE n == Len(list)
            D == Seq(Nat)
            step == [p \in (1 .. n) \X D |-> Insert(p[2], list[p[1]])]
            Folds(f) == f = [s \in SUBSET (1 .. n) |->
                               IF s = {} THEN <<>>
                               ELSE Insert(f[s \ {Max(s)}], list[Max(s)])]
            iter == CHOOSE f : Folds(f)
<1>1. n \in Nat /\ DOMAIN list = 1 .. n
  OBVIOUS
<1>2. step \in [(1 .. n) \X D -> D]
  <2>1. ASSUME NEW p \in (1 .. n) \X D PROVE Insert(p[2], list[p[1]]) \in D
    <3>1. list[p[1]] \in Nat /\ p[2] \in D
      BY <1>1
    <3> QED BY <3>1, InsertType
  <2> QED BY <2>1
<1>3. \E f : Folds(f)
  <2>. HIDE DEF step
  <2>1. PICK f \in [SUBSET (1 .. n) -> D] : IsFold(f, n, <<>>, step)
    <3>1. <<>> \in D
      OBVIOUS
    <3>. HIDE DEF D, n
    <3> QED BY <1>1, <1>2, <3>1, FoldExists
  <2>2. ASSUME NEW s \in SUBSET (1 .. n), s # {}
        PROVE  f[s] = Insert(f[s \ {Max(s)}], list[Max(s)])
    <3>1. Max(s) \in 1 .. n
      BY <1>1, <2>2, MaxIn
    <3>2. f[s \ {Max(s)}] \in D
      OBVIOUS
    <3>3. step[<<Max(s), f[s \ {Max(s)}]>>] = Insert(f[s \ {Max(s)}], list[Max(s)])
      BY <3>1, <3>2 DEF step
    <3> QED BY <2>1, <2>2, <3>3 DEF IsFold
  <2>3. Folds(f)
    BY <2>1, <2>2 DEF IsFold
  <2> QED BY <2>3
<1>4. Folds(iter)
  <2>. HIDE DEF Folds
  <2> QED BY <1>3
<1>5. Sorted(list) = iter[1 .. n]
  BY <1>1 DEF Sorted, FoldLeft, MapThenFoldSet
<1>. HIDE DEF iter
<1>. DEFINE f == [k \in 0 .. n |-> iter[1 .. k]]
<1>6. f[0] = <<>> /\ f[n] = Sorted(list)
  <2>1. 1 .. 0 = {} /\ {} \in SUBSET (1 .. n)
    OBVIOUS
  <2>2. iter[{}] = <<>>
    BY <1>4, <2>1
  <2> QED BY <1>1, <1>5, <2>1, <2>2
<1>7. ASSUME NEW k \in 0 .. n - 1 PROVE f[k + 1] = Insert(f[k], list[k + 1])
  <2>1. /\ 1 .. k + 1 \in SUBSET (1 .. n) /\ 1 .. k + 1 # {}
        /\ Max(1 .. k + 1) = k + 1 /\ (1 .. k + 1) \ {k + 1} = 1 .. k
    BY <1>1, MaxOfPrefix
  <2>2. iter[1 .. k + 1] = Insert(iter[1 .. k], list[k + 1])
    BY <1>4, <2>1
  <2> QED BY <1>1, <2>2
<1> QED BY <1>6, <1>7

\* Compact appends the elements one by one.
LEMMA CompactFold ==
  ASSUME NEW list \in Seq(Nat)
  PROVE  \E f : /\ f[0] = <<>>
                /\ f[Len(list)] = Compact(list)
                /\ \A k \in 0 .. Len(list) - 1 : f[k + 1] = AppendNew(f[k], list[k + 1])
<1>. DEFINE n == Len(list)
            D == Seq(Nat)
            step == [p \in (1 .. n) \X D |-> AppendNew(p[2], list[p[1]])]
            Folds(f) == f = [s \in SUBSET (1 .. n) |->
                               IF s = {} THEN <<>>
                               ELSE AppendNew(f[s \ {Max(s)}], list[Max(s)])]
            iter == CHOOSE f : Folds(f)
<1>1. n \in Nat /\ DOMAIN list = 1 .. n
  OBVIOUS
<1>2. step \in [(1 .. n) \X D -> D]
  <2>1. ASSUME NEW p \in (1 .. n) \X D PROVE AppendNew(p[2], list[p[1]]) \in D
    <3>1. list[p[1]] \in Nat /\ p[2] \in D
      BY <1>1
    <3> QED BY <3>1, AppendNewType
  <2> QED BY <2>1
<1>3. \E f : Folds(f)
  <2>. HIDE DEF step
  <2>1. PICK f \in [SUBSET (1 .. n) -> D] : IsFold(f, n, <<>>, step)
    <3>1. <<>> \in D
      OBVIOUS
    <3>. HIDE DEF D, n
    <3> QED BY <1>1, <1>2, <3>1, FoldExists
  <2>2. ASSUME NEW s \in SUBSET (1 .. n), s # {}
        PROVE  f[s] = AppendNew(f[s \ {Max(s)}], list[Max(s)])
    <3>1. Max(s) \in 1 .. n
      BY <1>1, <2>2, MaxIn
    <3>2. f[s \ {Max(s)}] \in D
      OBVIOUS
    <3>3. step[<<Max(s), f[s \ {Max(s)}]>>] = AppendNew(f[s \ {Max(s)}], list[Max(s)])
      BY <3>1, <3>2 DEF step
    <3> QED BY <2>1, <2>2, <3>3 DEF IsFold
  <2>3. Folds(f)
    BY <2>1, <2>2 DEF IsFold
  <2> QED BY <2>3
<1>4. Folds(iter)
  <2>. HIDE DEF Folds
  <2> QED BY <1>3
<1>5. Compact(list) = iter[1 .. n]
  BY <1>1 DEF Compact, FoldLeft, MapThenFoldSet
<1>. HIDE DEF iter
<1>. DEFINE f == [k \in 0 .. n |-> iter[1 .. k]]
<1>6. f[0] = <<>> /\ f[n] = Compact(list)
  <2>1. 1 .. 0 = {} /\ {} \in SUBSET (1 .. n)
    OBVIOUS
  <2>2. iter[{}] = <<>>
    BY <1>4, <2>1
  <2> QED BY <1>1, <1>5, <2>1, <2>2
<1>7. ASSUME NEW k \in 0 .. n - 1 PROVE f[k + 1] = AppendNew(f[k], list[k + 1])
  <2>1. /\ 1 .. k + 1 \in SUBSET (1 .. n) /\ 1 .. k + 1 # {}
        /\ Max(1 .. k + 1) = k + 1 /\ (1 .. k + 1) \ {k + 1} = 1 .. k
    BY <1>1, MaxOfPrefix
  <2>2. iter[1 .. k + 1] = AppendNew(iter[1 .. k], list[k + 1])
    BY <1>4, <2>1
  <2> QED BY <1>1, <2>2
<1> QED BY <1>6, <1>7

-----------------------------------------------------------------------------
(* Lists: sorting, compacting, merging tags.                               *)

\* Insert keeps a list in order, adds the element and nothing else, and repeats
\* nothing that was not repeated.
LEMMA InsertKeeps ==
  ASSUME NEW list \in Seq(Nat), NEW x \in Nat, Ordered(list)
  PROVE  /\ Ordered(Insert(list, x))
         /\ ToSet(Insert(list, x)) = ToSet(list) \cup {x}
         /\ IsInjective(list) /\ x \notin ToSet(list) => IsInjective(Insert(list, x))
<1>. DEFINE n == Len(list)
<1>1. n \in Nat /\ DOMAIN list = 1 .. n /\ \A i \in 1 .. n : list[i] \in Nat
  OBVIOUS
<1>2. PICK p \in 1 .. n + 1 :
        /\ Insert(list, x) = [i \in 1 .. n + 1 |->
                                IF i < p THEN list[i] ELSE IF i = p THEN x ELSE list[i - 1]]
        /\ \A i \in 1 .. n : (i < p => list[i] <= x) /\ (i >= p => x < list[i])
  BY InsertForm
<1>. DEFINE new == Insert(list, x)
<1>. HIDE DEF n, new
<1>3. /\ DOMAIN new = 1 .. n + 1
      /\ \A i \in 1 .. n + 1 : /\ i < p => new[i] = list[i]
                               /\ i = p => new[i] = x
                               /\ i > p => new[i] = list[i - 1]
  BY <1>2 DEF new
<1>4. Ordered(new)
  <2>. SUFFICES ASSUME NEW i \in 1 .. n + 1, NEW j \in 1 .. n + 1, i < j
                PROVE  new[i] <= new[j]
    BY <1>3 DEF Ordered
  <2>1. i < p => i \in 1 .. n /\ (j < p => j \in 1 .. n)
    BY <1>1
  <2>2. j > p => j - 1 \in 1 .. n
    BY <1>1
  <2>3. i > p => i - 1 \in 1 .. n /\ i - 1 < j - 1
    BY <1>1
  <2>4. CASE i < p /\ j < p
    BY <1>1, <1>3, <2>1, <2>4 DEF Ordered
  <2>5. CASE i < p /\ j = p
    BY <1>1, <1>2, <1>3, <2>1, <2>5
  <2>6. CASE i < p /\ j > p
    <3>1. list[i] <= x /\ x < list[j - 1] /\ list[i] \in Nat /\ list[j - 1] \in Nat
      BY <1>1, <1>2, <2>1, <2>2, <2>6
    <3> QED BY <1>3, <2>6, <3>1
  <2>7. CASE i = p
    <3>1. x < list[j - 1] /\ list[j - 1] \in Nat
      BY <1>1, <1>2, <2>2, <2>7
    <3> QED BY <1>3, <2>7, <3>1
  <2>8. CASE i > p
    <3>1. list[i - 1] <= list[j - 1]
      BY <1>1, <2>2, <2>3, <2>8 DEF Ordered
    <3> QED BY <1>3, <2>8, <3>1
  <2> QED BY <2>4, <2>5, <2>6, <2>7, <2>8
<1>5. ToSet(new) = ToSet(list) \cup {x}
  <2>1. ASSUME NEW i \in 1 .. n + 1 PROVE new[i] \in ToSet(list) \cup {x}
    <3>1. i < p => i \in 1 .. n
      BY <1>1
    <3>2. i > p => i - 1 \in 1 .. n
      BY <1>1
    <3>3. \A j \in 1 .. n : list[j] \in ToSet(list)
      BY <1>1 DEF ToSet
    <3> QED BY <1>3, <3>1, <3>2, <3>3
  <2>2. x \in ToSet(new)
    BY <1>3 DEF ToSet
  <2>3. ASSUME NEW i \in 1 .. n PROVE list[i] \in ToSet(new)
    <3>1. CASE i < p
      <4>1. i \in 1 .. n + 1 /\ new[i] = list[i]
        BY <1>1, <1>3, <3>1
      <4> QED BY <1>3, <4>1 DEF ToSet
    <3>2. CASE i >= p
      <4>1. i + 1 \in 1 .. n + 1 /\ i + 1 > p /\ (i + 1) - 1 = i
        BY <1>1, <3>2
      <4>2. new[i + 1] = list[i]
        BY <1>3, <4>1
      <4> QED BY <1>3, <4>1, <4>2 DEF ToSet
    <3> QED BY <3>1, <3>2
  <2> QED BY <1>1, <1>3, <2>1, <2>2, <2>3 DEF ToSet
<1>6. ASSUME IsInjective(list), x \notin ToSet(list) PROVE IsInjective(new)
  <2>. SUFFICES ASSUME NEW i \in 1 .. n + 1, NEW j \in 1 .. n + 1, i < j
                PROVE  new[i] # new[j]
    BY <1>1, <1>3 DEF IsInjective
  <2>1. \A k \in 1 .. n : list[k] # x
    BY <1>1, <1>6 DEF ToSet
  <2>2. \A k, l \in 1 .. n : k # l => list[k] # list[l]
    BY <1>1, <1>6 DEF IsInjective
  <2>3. i < p => i \in 1 .. n /\ (j < p => j \in 1 .. n)
    BY <1>1
  <2>4. j > p => j - 1 \in 1 .. n /\ (i < p => i # j - 1)
    BY <1>1
  <2>5. i > p => i - 1 \in 1 .. n /\ i - 1 # j - 1
    BY <1>1
  <2>6. CASE i < p /\ j < p
    BY <1>3, <2>2, <2>3, <2>6
  <2>7. CASE i < p /\ j = p
    BY <1>3, <2>1, <2>3, <2>7
  <2>8. CASE i < p /\ j > p
    BY <1>3, <2>2, <2>3, <2>4, <2>8
  <2>9. CASE i = p
    BY <1>3, <2>1, <2>4, <2>9
  <2>10. CASE i > p
    BY <1>3, <2>2, <2>4, <2>5, <2>10
  <2> QED BY <2>6, <2>7, <2>8, <2>9, <2>10
<1> QED BY <1>4, <1>5, <1>6 DEF new

\* The elements of the beginnings of a list.
LEMMA SetOfPrefix ==
  ASSUME NEW S, NEW list \in Seq(S)
  PROVE  /\ Taken(list, 0) = {}
         /\ Taken(list, Len(list)) = ToSet(list)
         /\ \A k \in 0 .. Len(list) - 1 : Taken(list, k + 1) = Taken(list, k) \cup {list[k + 1]}
<1>1. Taken(list, 0) = {}
  BY DEF Taken
<1>2. Taken(list, Len(list)) = ToSet(list)
  BY DEF Taken, ToSet
<1>3. ASSUME NEW k \in 0 .. Len(list) - 1
      PROVE  Taken(list, k + 1) = Taken(list, k) \cup {list[k + 1]}
  <2>1. 1 .. k + 1 = (1 .. k) \cup {k + 1}
    OBVIOUS
  <2> QED BY <2>1 DEF Taken
<1> QED BY <1>1, <1>2, <1>3

\* slices.Sort: the same elements, in order.
LEMMA SortedKeeps ==
  ASSUME NEW list \in Seq(Nat)
  PROVE  /\ Sorted(list) \in Seq(Nat) /\ Ordered(Sorted(list))
         /\ ToSet(Sorted(list)) = ToSet(list)
         /\ IsInjective(list) => IsInjective(Sorted(list))
<1>. DEFINE n == Len(list)
<1>1. PICK f : /\ f[0] = <<>> /\ f[n] = Sorted(list)
               /\ \A k \in 0 .. n - 1 : f[k + 1] = Insert(f[k], list[k + 1])
  BY SortedFold
<1>2. n \in Nat /\ DOMAIN list = 1 .. n /\ \A i \in 1 .. n : list[i] \in Nat
  OBVIOUS
<1>. DEFINE Good(k) == /\ f[k] \in Seq(Nat) /\ Ordered(f[k])
                       /\ ToSet(f[k]) = Taken(list, k)
                       /\ IsInjective(list) => IsInjective(f[k])
            P == {k \in 0 .. n : Good(k)}
<1>3. 0 \in P
  <2>1. Ordered(<<>>) /\ ToSet(<<>>) = {} /\ IsInjective(<<>>) /\ <<>> \in Seq(Nat)
    BY DEF Ordered, ToSet, IsInjective
  <2>2. Good(0)
    BY <1>1, <2>1, SetOfPrefix
  <2>. HIDE DEF Good
  <2> QED BY <1>2, <2>2
<1>4. ASSUME NEW k \in 0 .. n - 1, k \in P PROVE k + 1 \in P
  <2>1. Good(k)
    BY <1>4
  <2>2. list[k + 1] \in Nat /\ f[k + 1] = Insert(f[k], list[k + 1])
    BY <1>1, <1>2
  <2>3. IsInjective(list) => list[k + 1] \notin Taken(list, k)
    <3>1. \A i \in 1 .. k : i \in 1 .. n /\ k + 1 \in 1 .. n /\ i # k + 1
      BY <1>2
    <3> QED BY <1>2, <3>1 DEF IsInjective, Taken
  <2>4. f[k + 1] \in Seq(Nat)
    BY <2>1, <2>2, InsertType
  <2>5. /\ Ordered(f[k + 1])
        /\ ToSet(f[k + 1]) = ToSet(f[k]) \cup {list[k + 1]}
        /\ IsInjective(f[k]) /\ list[k + 1] \notin ToSet(f[k]) => IsInjective(f[k + 1])
    BY <2>1, <2>2, InsertKeeps
  <2>6. Taken(list, k + 1) = Taken(list, k) \cup {list[k + 1]}
    BY SetOfPrefix
  <2>7. Good(k + 1)
    BY <2>1, <2>3, <2>4, <2>5, <2>6
  <2>8. k + 1 \in 0 .. n
    BY <1>2
  <2>. HIDE DEF Good
  <2> QED BY <2>7, <2>8, Zenon
<1>5. n \in P
  <2>1. n \in Nat /\ n \in 0 .. n
    BY <1>2
  <2>. HIDE DEF P, n
  <2>2. \A k \in 0 .. n : k \in P
    BY <1>3, <1>4, <2>1, SetInduction
  <2> QED BY <2>1, <2>2
<1> QED BY <1>1, <1>5, SetOfPrefix

\* A list in order that repeats nothing is increasing.
LEMMA OrderedIncreasing ==
  ASSUME NEW list \in Seq(Nat), Ordered(list), IsInjective(list)
  PROVE  Increasing(list)
<1>. SUFFICES ASSUME NEW i \in DOMAIN list, NEW j \in DOMAIN list, i < j
              PROVE  list[i] < list[j]
  BY DEF Increasing
<1>1. list[i] <= list[j] /\ list[i] # list[j] /\ list[i] \in Nat /\ list[j] \in Nat
  BY DEF Ordered, IsInjective
<1> QED BY <1>1

\* An element at the end of a list.
LEMMA AppendKeeps ==
  ASSUME NEW list \in Seq(Nat), NEW x \in Nat
  PROVE  /\ ToSet(Append(list, x)) = ToSet(list) \cup {x}
         /\ IsInjective(list) /\ x \notin ToSet(list) => IsInjective(Append(list, x))
         /\ Increasing(list) /\ (\A y \in ToSet(list) : y < x) => Increasing(Append(list, x))
<1>. DEFINE n == Len(list)
            new == Append(list, x)
<1>1. /\ DOMAIN new = 1 .. n + 1 /\ DOMAIN list = 1 .. n /\ n \in Nat
      /\ \A i \in 1 .. n : new[i] = list[i]
      /\ new[n + 1] = x
  OBVIOUS
<1>. HIDE DEF new, n
<1>2. 1 .. n + 1 = (1 .. n) \cup {n + 1}
  BY <1>1
<1>3. \A i \in 1 .. n : list[i] \in ToSet(list)
  BY <1>1 DEF ToSet
<1>4. ToSet(new) = ToSet(list) \cup {x}
  <2>1. ToSet(new) = {new[i] : i \in (1 .. n) \cup {n + 1}}
    BY <1>1, <1>2 DEF ToSet
  <2>2. ToSet(list) = {new[i] : i \in 1 .. n}
    BY <1>1 DEF ToSet
  <2> QED BY <1>1, <2>1, <2>2
<1>5. ASSUME IsInjective(list), x \notin ToSet(list) PROVE IsInjective(new)
  <2>. SUFFICES ASSUME NEW i \in (1 .. n) \cup {n + 1}, NEW j \in (1 .. n) \cup {n + 1},
                       new[i] = new[j]
                PROVE  i = j
    BY <1>1, <1>2 DEF IsInjective
  <2>1. i \in 1 .. n => new[i] # x
    BY <1>1, <1>3, <1>5
  <2>2. j \in 1 .. n => new[j] # x
    BY <1>1, <1>3, <1>5
  <2>3. CASE i \in 1 .. n /\ j \in 1 .. n
    BY <1>1, <1>5, <2>3 DEF IsInjective
  <2>4. CASE i = n + 1 \/ j = n + 1
    BY <1>1, <2>1, <2>2, <2>4
  <2> QED BY <2>3, <2>4
<1>6. ASSUME Increasing(list), \A y \in ToSet(list) : y < x PROVE Increasing(new)
  <2>. SUFFICES ASSUME NEW i \in 1 .. n + 1, NEW j \in 1 .. n + 1, i < j
                PROVE  new[i] < new[j]
    BY <1>1 DEF Increasing
  <2>1. i \in 1 .. n /\ (j \in 1 .. n \/ j = n + 1)
    BY <1>1
  <2>2. CASE j \in 1 .. n
    BY <1>1, <1>6, <2>1, <2>2 DEF Increasing
  <2>3. CASE j = n + 1
    BY <1>1, <1>3, <1>6, <2>1, <2>3
  <2> QED BY <2>1, <2>2, <2>3
<1> QED BY <1>4, <1>5, <1>6 DEF new

\* slices.Compact of a list in order: the same elements, each once.
LEMMA CompactKeeps ==
  ASSUME NEW list \in Seq(Nat), Ordered(list)
  PROVE  /\ Compact(list) \in Seq(Nat) /\ Increasing(Compact(list))
         /\ ToSet(Compact(list)) = ToSet(list)
<1>. DEFINE n == Len(list)
<1>1. PICK f : /\ f[0] = <<>> /\ f[n] = Compact(list)
               /\ \A k \in 0 .. n - 1 : f[k + 1] = AppendNew(f[k], list[k + 1])
  BY CompactFold
<1>2. n \in Nat /\ DOMAIN list = 1 .. n /\ \A i \in 1 .. n : list[i] \in Nat
  OBVIOUS
<1>. DEFINE Good(k) == /\ f[k] \in Seq(Nat) /\ Increasing(f[k])
                       /\ ToSet(f[k]) = Taken(list, k)
            P == {k \in 0 .. n : Good(k)}
<1>3. 0 \in P
  <2>1. Increasing(<<>>) /\ ToSet(<<>>) = {} /\ <<>> \in Seq(Nat)
    BY DEF Increasing, ToSet
  <2>2. Good(0)
    BY <1>1, <2>1, SetOfPrefix
  <2>. HIDE DEF Good
  <2> QED BY <1>2, <2>2
<1>4. ASSUME NEW k \in 0 .. n - 1, k \in P PROVE k + 1 \in P
  <2>1. Good(k)
    BY <1>4
  <2>. DEFINE out == f[k]
              x == list[k + 1]
  <2>2. x \in Nat /\ f[k + 1] = AppendNew(out, x)
    BY <1>1, <1>2
  <2>3. Taken(list, k + 1) = Taken(list, k) \cup {x}
    BY SetOfPrefix
  <2>4. \A y \in Taken(list, k) : y <= x /\ y \in Nat
    <3>1. \A i \in 1 .. k : i \in 1 .. n /\ k + 1 \in 1 .. n /\ i < k + 1
      BY <1>2
    <3> QED BY <1>2, <3>1 DEF Ordered, Taken
  <2>5. /\ out \in Seq(Nat) /\ Increasing(out) /\ ToSet(out) = Taken(list, k)
        /\ DOMAIN out = 1 .. Len(out) /\ Len(out) \in Nat
    BY <2>1
  <2>. HIDE DEF out, x
  <2>6. ASSUME out # <<>> /\ Last(out) = x PROVE Good(k + 1)
    <3>1. Len(out) \in DOMAIN out
      BY <2>5, <2>6
    <3>2. x \in Taken(list, k)
      BY <2>5, <2>6, <3>1 DEF Last, ToSet
    <3>3. f[k + 1] = out
      BY <2>2, <2>6 DEF AppendNew
    <3> QED BY <2>3, <2>5, <3>2, <3>3
  <2>7. ASSUME ~ (out # <<>> /\ Last(out) = x) PROVE Good(k + 1)
    <3>1. f[k + 1] = Append(out, x)
      BY <2>2, <2>7 DEF AppendNew
    <3>2. \A i \in DOMAIN out : out[i] <= x /\ out[i] \in Nat
      BY <2>4, <2>5 DEF ToSet
    <3>3. \A i \in DOMAIN out : out[i] < x
      <4>. SUFFICES ASSUME NEW i \in DOMAIN out, out[i] = x PROVE FALSE
        BY <2>2, <3>2
      <4>1. Len(out) \in DOMAIN out /\ out # <<>>
        BY <2>5
      <4>2. out[Len(out)] # x
        BY <2>7, <4>1 DEF Last
      <4>3. i < Len(out)
        BY <2>5, <4>2
      <4>4. out[i] < out[Len(out)] /\ out[Len(out)] <= x /\ out[Len(out)] \in Nat
        BY <2>5, <3>2, <4>1, <4>3 DEF Increasing
      <4> QED BY <2>2, <4>4
    <3>4. \A y \in ToSet(out) : y < x
      BY <3>3 DEF ToSet
    <3>5. Append(out, x) \in Seq(Nat)
      BY <2>2, <2>5
    <3> QED BY <2>2, <2>3, <2>5, <3>1, <3>4, <3>5, AppendKeeps
  <2>8. Good(k + 1)
    BY <2>6, <2>7
  <2>9. k + 1 \in 0 .. n
    BY <1>2
  <2>. HIDE DEF Good
  <2> QED BY <2>8, <2>9, Zenon
<1>5. n \in P
  <2>1. n \in Nat /\ n \in 0 .. n
    BY <1>2
  <2>. HIDE DEF P, n
  <2>2. \A k \in 0 .. n : k \in P
    BY <1>3, <1>4, <2>1, SetInduction
  <2> QED BY <2>1, <2>2
<1> QED BY <1>1, <1>5, SetOfPrefix

\* A list made canonical: the principals the user listed, in order, each once.
LEMMA CanonicalKeeps ==
  ASSUME NEW list \in Seq(Nat)
  PROVE  /\ Canonical(list) \in Seq(Nat) /\ Increasing(Canonical(list))
         /\ ToSet(Canonical(list)) = ToSet(list)
<1>1. Sorted(list) \in Seq(Nat) /\ Ordered(Sorted(list)) /\ ToSet(Sorted(list)) = ToSet(list)
  BY SortedKeeps
<1>2. /\ Compact(Sorted(list)) \in Seq(Nat) /\ Increasing(Compact(Sorted(list)))
      /\ ToSet(Compact(Sorted(list))) = ToSet(Sorted(list))
  BY <1>1, CompactKeeps
<1> QED BY <1>1, <1>2 DEF Canonical

\* A route's tags are merged as sets, and none is repeated.
LEMMA MergeTagsKeeps ==
  ASSUME NEW existing \in Seq(Nat), NEW tags \in Seq(Nat), IsInjective(existing)
  PROVE  /\ MergeTags(existing, tags) \in Seq(Nat)
         /\ IsInjective(MergeTags(existing, tags))
         /\ ToSet(MergeTags(existing, tags)) = ToSet(existing) \cup ToSet(tags)
<1>. DEFINE n == Len(tags)
<1>1. PICK f : /\ f[0] = existing /\ f[n] = MergeTags(existing, tags)
               /\ \A k \in 0 .. n - 1 : f[k + 1] = AddTag(f[k], tags[k + 1])
  BY MergeTagsFold
<1>2. n \in Nat /\ DOMAIN tags = 1 .. n /\ \A i \in 1 .. n : tags[i] \in Nat
  OBVIOUS
<1>. DEFINE Good(k) == /\ f[k] \in Seq(Nat) /\ IsInjective(f[k])
                       /\ ToSet(f[k]) = ToSet(existing) \cup Taken(tags, k)
            P == {k \in 0 .. n : Good(k)}
<1>3. 0 \in P
  <2>1. Good(0)
    BY <1>1, SetOfPrefix
  <2>. HIDE DEF Good
  <2> QED BY <1>2, <2>1
<1>4. ASSUME NEW k \in 0 .. n - 1, k \in P PROVE k + 1 \in P
  <2>1. Good(k)
    BY <1>4
  <2>. DEFINE out == f[k]
              x == tags[k + 1]
  <2>2. x \in Nat /\ f[k + 1] = AddTag(out, x)
    BY <1>1, <1>2
  <2>3. Taken(tags, k + 1) = Taken(tags, k) \cup {x}
    BY SetOfPrefix
  <2>4. /\ out \in Seq(Nat) /\ IsInjective(out)
        /\ ToSet(out) = ToSet(existing) \cup Taken(tags, k)
        /\ DOMAIN out = 1 .. Len(out) /\ Len(out) \in Nat
    BY <2>1
  <2>. HIDE DEF out, x
  <2>5. ASSUME Contains(out, x) PROVE Good(k + 1)
    <3>1. x \in ToSet(out)
      BY <2>4, <2>5 DEF Contains, ToSet
    <3>2. f[k + 1] = out
      BY <2>2, <2>5 DEF AddTag
    <3> QED BY <2>3, <2>4, <3>1, <3>2
  <2>6. ASSUME ~ Contains(out, x) PROVE Good(k + 1)
    <3>1. f[k + 1] = Append(out, x)
      BY <2>2, <2>6 DEF AddTag
    <3>2. x \notin ToSet(out)
      BY <2>4, <2>6 DEF Contains, ToSet
    <3>3. Append(out, x) \in Seq(Nat)
      BY <2>2, <2>4
    <3> QED BY <2>2, <2>3, <2>4, <3>1, <3>2, <3>3, AppendKeeps
  <2>7. Good(k + 1)
    BY <2>5, <2>6
  <2>8. k + 1 \in 0 .. n
    BY <1>2
  <2>. HIDE DEF Good
  <2> QED BY <2>7, <2>8, Zenon
<1>5. n \in P
  <2>1. n \in Nat /\ n \in 0 .. n
    BY <1>2
  <2>. HIDE DEF P, n
  <2>2. \A k \in 0 .. n : k \in P
    BY <1>3, <1>4, <2>1, SetInduction
  <2> QED BY <2>1, <2>2
<1> QED BY <1>1, <1>5, SetOfPrefix

-----------------------------------------------------------------------------
(* Routes and exit nodes.                                                  *)

\* The type of the merged routes while approvers are merged.
DistinctLists == {list \in Seq(Nat) : IsInjective(list)}
RouteMaps == UNION {[C -> DistinctLists] : C \in SUBSET Cidrs}
Routes == [cidr : Cidrs, tags : Seq(Nat)]
Specs == [routes : Seq(Routes), exitNodeTags : Seq(Nat)]

\* The merged routes say what has been claimed, as sets.
Merging(routes, claims) ==
  /\ DOMAIN routes = {r.cidr : r \in claims}
  /\ \A cidr \in DOMAIN routes : ToSet(routes[cidr]) = TagsOf(claims, cidr)

\* The merged routes as a function.
LEMMA RouteMapsHave ==
  ASSUME NEW routes \in RouteMaps
  PROVE  /\ DOMAIN routes \subseteq Cidrs
         /\ routes = [cidr \in DOMAIN routes |-> routes[cidr]]
         /\ \A cidr \in DOMAIN routes : routes[cidr] \in DistinctLists
BY DEF RouteMaps

\* The route with its CIDR's tags; those are <<>> for a CIDR not seen before.
LEMMA AddRouteForm ==
  ASSUME NEW routes \in RouteMaps, NEW route \in Routes
  PROVE  \E existing \in DistinctLists :
           /\ route.cidr \in DOMAIN routes => existing = routes[route.cidr]
           /\ route.cidr \notin DOMAIN routes => existing = <<>>
           /\ MergeTags(existing, route.tags) \in DistinctLists
           /\ ToSet(MergeTags(existing, route.tags)) = ToSet(existing) \cup ToSet(route.tags)
           /\ AddRoute(routes, route)
                = [cidr \in DOMAIN routes \cup {route.cidr} |->
                     IF cidr = route.cidr THEN MergeTags(existing, route.tags)
                     ELSE routes[cidr]]
<1>. DEFINE existing == IF route.cidr \in DOMAIN routes THEN routes[route.cidr] ELSE <<>>
<1>1. existing \in DistinctLists
  <2>1. <<>> \in DistinctLists
    BY DEF DistinctLists, IsInjective
  <2> QED BY <2>1, RouteMapsHave
<1>2. AddRoute(routes, route)
        = [cidr \in DOMAIN routes \cup {route.cidr} |->
             IF cidr = route.cidr THEN MergeTags(existing, route.tags) ELSE routes[cidr]]
  BY DEF AddRoute
<1>3. /\ route.cidr \in DOMAIN routes => existing = routes[route.cidr]
      /\ route.cidr \notin DOMAIN routes => existing = <<>>
  OBVIOUS
<1>. HIDE DEF existing
<1>4. /\ MergeTags(existing, route.tags) \in DistinctLists
      /\ ToSet(MergeTags(existing, route.tags)) = ToSet(existing) \cup ToSet(route.tags)
  <2>1. route.tags \in Seq(Nat) /\ existing \in Seq(Nat) /\ IsInjective(existing)
    BY <1>1 DEF Routes, DistinctLists
  <2> QED BY <2>1, MergeTagsKeeps DEF DistinctLists
<1> QED BY <1>1, <1>2, <1>3, <1>4

\* AddRoute keeps the type of the merged routes.
LEMMA AddRouteType ==
  ASSUME NEW routes \in RouteMaps, NEW route \in Routes
  PROVE  AddRoute(routes, route) \in RouteMaps
<1>1. PICK existing \in DistinctLists :
        /\ MergeTags(existing, route.tags) \in DistinctLists
        /\ AddRoute(routes, route)
             = [cidr \in DOMAIN routes \cup {route.cidr} |->
                  IF cidr = route.cidr THEN MergeTags(existing, route.tags)
                  ELSE routes[cidr]]
  BY AddRouteForm
<1>2. DOMAIN routes \cup {route.cidr} \in SUBSET Cidrs
  BY RouteMapsHave DEF Routes
<1>3. AddRoute(routes, route) \in [DOMAIN routes \cup {route.cidr} -> DistinctLists]
  BY <1>1, RouteMapsHave
<1> QED BY <1>2, <1>3 DEF RouteMaps

\* A route is merged: its tags are added to what was claimed for its CIDR.
LEMMA AddRouteKeeps ==
  ASSUME NEW routes \in RouteMaps, NEW route \in Routes, NEW claims \in SUBSET Routes,
         Merging(routes, claims)
  PROVE  Merging(AddRoute(routes, route), claims \cup {route})
<1>1. PICK existing \in DistinctLists :
        /\ route.cidr \in DOMAIN routes => existing = routes[route.cidr]
        /\ route.cidr \notin DOMAIN routes => existing = <<>>
        /\ ToSet(MergeTags(existing, route.tags)) = ToSet(existing) \cup ToSet(route.tags)
        /\ AddRoute(routes, route)
             = [cidr \in DOMAIN routes \cup {route.cidr} |->
                  IF cidr = route.cidr THEN MergeTags(existing, route.tags)
                  ELSE routes[cidr]]
  BY AddRouteForm
<1>. DEFINE new == AddRoute(routes, route)
            more == claims \cup {route}
<1>2. /\ DOMAIN new = DOMAIN routes \cup {route.cidr}
      /\ \A cidr \in DOMAIN new :
           new[cidr] = IF cidr = route.cidr THEN MergeTags(existing, route.tags)
                       ELSE routes[cidr]
  BY <1>1
<1>. HIDE DEF new
<1>3. DOMAIN new = {r.cidr : r \in more}
  BY <1>2 DEF Merging
<1>4. ASSUME NEW cidr \in DOMAIN new, cidr # route.cidr
      PROVE  ToSet(new[cidr]) = TagsOf(more, cidr)
  <2>1. cidr \in DOMAIN routes /\ new[cidr] = routes[cidr]
    BY <1>2, <1>4
  <2>2. {c \in more : c.cidr = cidr} = {c \in claims : c.cidr = cidr}
    BY <1>4
  <2> QED BY <2>1, <2>2 DEF Merging, TagsOf
<1>5. ToSet(new[route.cidr]) = TagsOf(more, route.cidr)
  <2>1. ToSet(existing) = TagsOf(claims, route.cidr)
    <3>1. CASE route.cidr \in DOMAIN routes
      BY <1>1, <3>1 DEF Merging
    <3>2. CASE route.cidr \notin DOMAIN routes
      <4>1. {c \in claims : c.cidr = route.cidr} = {}
        BY <3>2 DEF Merging
      <4>2. existing = <<>> /\ ToSet(<<>>) = {}
        BY <1>1, <3>2 DEF ToSet
      <4> QED BY <4>1, <4>2 DEF TagsOf
    <3> QED BY <3>1, <3>2
  <2>2. {c \in more : c.cidr = route.cidr} = {c \in claims : c.cidr = route.cidr} \cup {route}
    OBVIOUS
  <2>3. TagsOf(more, route.cidr) = TagsOf(claims, route.cidr) \cup ToSet(route.tags)
    BY <2>2 DEF TagsOf
  <2>4. new[route.cidr] = MergeTags(existing, route.tags)
    BY <1>2
  <2> QED BY <1>1, <2>1, <2>3, <2>4
<1> QED BY <1>3, <1>4, <1>5 DEF Merging, new

\* AddRoutes merges the routes of an approver one by one.
LEMMA AddRoutesFold ==
  ASSUME NEW routes \in RouteMaps, NEW spec \in Specs
  PROVE  \E f : /\ f[0] = routes
                /\ f[Len(spec.routes)] = AddRoutes(routes, spec)
                /\ \A k \in 0 .. Len(spec.routes) - 1 : f[k + 1] = AddRoute(f[k], spec.routes[k + 1])
<1>. DEFINE n == Len(spec.routes)
            D == RouteMaps
            step == [p \in (1 .. n) \X D |-> AddRoute(p[2], spec.routes[p[1]])]
            Folds(f) == f = [s \in SUBSET (1 .. n) |->
                               IF s = {} THEN routes
                               ELSE AddRoute(f[s \ {Max(s)}], spec.routes[Max(s)])]
            iter == CHOOSE f : Folds(f)
<1>1. n \in Nat /\ DOMAIN spec.routes = 1 .. n
  BY DEF Specs
<1>2. step \in [(1 .. n) \X D -> D]
  <2>1. ASSUME NEW p \in (1 .. n) \X D PROVE AddRoute(p[2], spec.routes[p[1]]) \in D
    <3>1. spec.routes[p[1]] \in Routes /\ p[2] \in D
      BY <1>1 DEF Specs
    <3> QED BY <3>1, AddRouteType
  <2> QED BY <2>1
<1>3. \E f : Folds(f)
  <2>. HIDE DEF step
  <2>1. PICK f \in [SUBSET (1 .. n) -> D] : IsFold(f, n, routes, step)
    <3>1. routes \in D
      OBVIOUS
    <3>. HIDE DEF D, n
    <3> QED BY <1>1, <1>2, <3>1, FoldExists
  <2>2. ASSUME NEW s \in SUBSET (1 .. n), s # {}
        PROVE  f[s] = AddRoute(f[s \ {Max(s)}], spec.routes[Max(s)])
    <3>1. Max(s) \in 1 .. n
      BY <1>1, <2>2, MaxIn
    <3>2. f[s \ {Max(s)}] \in D
      OBVIOUS
    <3>3. step[<<Max(s), f[s \ {Max(s)}]>>] = AddRoute(f[s \ {Max(s)}], spec.routes[Max(s)])
      BY <3>1, <3>2 DEF step
    <3> QED BY <2>1, <2>2, <3>3 DEF IsFold
  <2>3. Folds(f)
    BY <2>1, <2>2 DEF IsFold
  <2> QED BY <2>3
<1>4. Folds(iter)
  <2>. HIDE DEF Folds
  <2> QED BY <1>3
<1>5. AddRoutes(routes, spec) = iter[1 .. n]
  BY <1>1 DEF AddRoutes, FoldLeft, MapThenFoldSet
<1>. HIDE DEF iter
<1>. DEFINE f == [k \in 0 .. n |-> iter[1 .. k]]
<1>6. f[0] = routes /\ f[n] = AddRoutes(routes, spec)
  <2>1. 1 .. 0 = {} /\ {} \in SUBSET (1 .. n)
    OBVIOUS
  <2>2. iter[{}] = routes
    BY <1>4, <2>1
  <2> QED BY <1>1, <1>5, <2>1, <2>2
<1>7. ASSUME NEW k \in 0 .. n - 1 PROVE f[k + 1] = AddRoute(f[k], spec.routes[k + 1])
  <2>1. /\ 1 .. k + 1 \in SUBSET (1 .. n) /\ 1 .. k + 1 # {}
        /\ Max(1 .. k + 1) = k + 1 /\ (1 .. k + 1) \ {k + 1} = 1 .. k
    BY <1>1, MaxOfPrefix
  <2>2. iter[1 .. k + 1] = AddRoute(iter[1 .. k], spec.routes[k + 1])
    BY <1>4, <2>1
  <2> QED BY <1>1, <2>2
<1> QED BY <1>6, <1>7

\* An approver is merged: all its routes are claimed.
LEMMA AddRoutesKeeps ==
  ASSUME NEW routes \in RouteMaps, NEW spec \in Specs, NEW claims \in SUBSET Routes,
         Merging(routes, claims)
  PROVE  /\ AddRoutes(routes, spec) \in RouteMaps
         /\ Merging(AddRoutes(routes, spec), claims \cup ToSet(spec.routes))
<1>. DEFINE list == spec.routes
            n == Len(list)
<1>1. PICK f : /\ f[0] = routes /\ f[n] = AddRoutes(routes, spec)
               /\ \A k \in 0 .. n - 1 : f[k + 1] = AddRoute(f[k], list[k + 1])
  BY AddRoutesFold
<1>2. list \in Seq(Routes) /\ n \in Nat /\ \A k \in 0 .. n - 1 : list[k + 1] \in Routes
  BY DEF Specs
<1>3. \A k \in 0 .. n : Taken(list, k) \in SUBSET Routes
  BY <1>2 DEF Taken
<1>. DEFINE Good(k) == f[k] \in RouteMaps /\ Merging(f[k], claims \cup Taken(list, k))
            P == {k \in 0 .. n : Good(k)}
<1>. HIDE DEF list
<1>4. 0 \in P
  <2>1. Taken(list, 0) = {}
    BY <1>2, SetOfPrefix
  <2>2. Good(0)
    BY <1>1, <2>1
  <2>. HIDE DEF Good
  <2> QED BY <1>2, <2>2
<1>5. ASSUME NEW k \in 0 .. n - 1, k \in P PROVE k + 1 \in P
  <2>1. Good(k) /\ Taken(list, k) \in SUBSET Routes
    BY <1>2, <1>3, <1>5
  <2>2. Taken(list, k + 1) = Taken(list, k) \cup {list[k + 1]}
    BY <1>2, SetOfPrefix
  <2>3. f[k + 1] \in RouteMaps
    BY <1>1, <1>2, <2>1, AddRouteType
  <2>4. Merging(f[k + 1], (claims \cup Taken(list, k)) \cup {list[k + 1]})
    BY <1>1, <1>2, <2>1, AddRouteKeeps
  <2>5. (claims \cup Taken(list, k)) \cup {list[k + 1]} = claims \cup Taken(list, k + 1)
    BY <2>2
  <2>6. Good(k + 1)
    BY <2>3, <2>4, <2>5
  <2>7. k + 1 \in 0 .. n
    BY <1>2
  <2>. HIDE DEF Good
  <2> QED BY <2>6, <2>7, Zenon
<1>6. n \in P
  <2>1. n \in Nat /\ n \in 0 .. n
    BY <1>2
  <2>. HIDE DEF P, n
  <2>2. \A k \in 0 .. n : k \in P
    BY <1>4, <1>5, <2>1, SetInduction
  <2> QED BY <2>1, <2>2
<1>7. Taken(list, n) = ToSet(list)
  BY <1>2, SetOfPrefix
<1> QED BY <1>1, <1>6, <1>7 DEF list

\* AddRoutes keeps the type of the merged routes.
LEMMA AddRoutesType ==
  ASSUME NEW routes \in RouteMaps, NEW spec \in Specs
  PROVE  AddRoutes(routes, spec) \in RouteMaps
<1>. DEFINE list == spec.routes
            n == Len(list)
<1>1. PICK f : /\ f[0] = routes /\ f[n] = AddRoutes(routes, spec)
               /\ \A k \in 0 .. n - 1 : f[k + 1] = AddRoute(f[k], list[k + 1])
  BY AddRoutesFold
<1>2. n \in Nat /\ \A k \in 0 .. n - 1 : list[k + 1] \in Routes
  BY DEF Specs
<1>. DEFINE P == {k \in 0 .. n : f[k] \in RouteMaps}
<1>. HIDE DEF list
<1>3. 0 \in P
  BY <1>1, <1>2
<1>4. ASSUME NEW k \in 0 .. n - 1, k \in P PROVE k + 1 \in P
  <2>1. f[k + 1] \in RouteMaps
    BY <1>1, <1>2, <1>4, AddRouteType
  <2>2. k + 1 \in 0 .. n
    BY <1>2
  <2> QED BY <2>1, <2>2
<1>5. n \in P
  <2>1. n \in Nat /\ n \in 0 .. n
    BY <1>2
  <2>. HIDE DEF P, n
  <2>2. \A k \in 0 .. n : k \in P
    BY <1>3, <1>4, <2>1, SetInduction
  <2> QED BY <2>1, <2>2
<1> QED BY <1>1, <1>5

\* Before the first approver nothing is merged.
LEMMA NothingType == Nothing \in RouteMaps /\ DOMAIN Nothing = {}
<1>1. DOMAIN Nothing = {} /\ Nothing \in [{} -> DistinctLists]
  BY DEF Nothing
<1> QED BY <1>1 DEF RouteMaps

\* MergedRoutes merges the approvers one by one.
LEMMA MergedRoutesFold ==
  ASSUME NEW specs \in Seq(Specs)
  PROVE  \E f : /\ f[0] = Nothing
                /\ f[Len(specs)] = MergedRoutes(specs)
                /\ \A k \in 0 .. Len(specs) - 1 : f[k + 1] = AddRoutes(f[k], specs[k + 1])
<1>. DEFINE n == Len(specs)
            D == RouteMaps
            step == [p \in (1 .. n) \X D |-> AddRoutes(p[2], specs[p[1]])]
            Folds(f) == f = [s \in SUBSET (1 .. n) |->
                               IF s = {} THEN Nothing
                               ELSE AddRoutes(f[s \ {Max(s)}], specs[Max(s)])]
            iter == CHOOSE f : Folds(f)
<1>1. n \in Nat /\ DOMAIN specs = 1 .. n
  OBVIOUS
<1>2. step \in [(1 .. n) \X D -> D]
  <2>1. ASSUME NEW p \in (1 .. n) \X D PROVE AddRoutes(p[2], specs[p[1]]) \in D
    <3>1. specs[p[1]] \in Specs /\ p[2] \in D
      BY <1>1
    <3> QED BY <3>1, AddRoutesType
  <2> QED BY <2>1
<1>3. \E f : Folds(f)
  <2>. HIDE DEF step
  <2>1. PICK f \in [SUBSET (1 .. n) -> D] : IsFold(f, n, Nothing, step)
    <3>1. Nothing \in D
      BY NothingType
    <3>. HIDE DEF D, n
    <3> QED BY <1>1, <1>2, <3>1, FoldExists
  <2>2. ASSUME NEW s \in SUBSET (1 .. n), s # {}
        PROVE  f[s] = AddRoutes(f[s \ {Max(s)}], specs[Max(s)])
    <3>1. Max(s) \in 1 .. n
      BY <1>1, <2>2, MaxIn
    <3>2. f[s \ {Max(s)}] \in D
      OBVIOUS
    <3>3. step[<<Max(s), f[s \ {Max(s)}]>>] = AddRoutes(f[s \ {Max(s)}], specs[Max(s)])
      BY <3>1, <3>2 DEF step
    <3> QED BY <2>1, <2>2, <3>3 DEF IsFold
  <2>3. Folds(f)
    BY <2>1, <2>2 DEF IsFold
  <2> QED BY <2>3
<1>4. Folds(iter)
  <2>. HIDE DEF Folds
  <2> QED BY <1>3
<1>5. MergedRoutes(specs) = iter[1 .. n]
  BY <1>1 DEF MergedRoutes, FoldLeft, MapThenFoldSet
<1>. HIDE DEF iter
<1>. DEFINE f == [k \in 0 .. n |-> iter[1 .. k]]
<1>6. f[0] = Nothing /\ f[n] = MergedRoutes(specs)
  <2>1. 1 .. 0 = {} /\ {} \in SUBSET (1 .. n)
    OBVIOUS
  <2>2. iter[{}] = Nothing
    BY <1>4, <2>1
  <2> QED BY <1>1, <1>5, <2>1, <2>2
<1>7. ASSUME NEW k \in 0 .. n - 1 PROVE f[k + 1] = AddRoutes(f[k], specs[k + 1])
  <2>1. /\ 1 .. k + 1 \in SUBSET (1 .. n) /\ 1 .. k + 1 # {}
        /\ Max(1 .. k + 1) = k + 1 /\ (1 .. k + 1) \ {k + 1} = 1 .. k
    BY <1>1, MaxOfPrefix
  <2>2. iter[1 .. k + 1] = AddRoutes(iter[1 .. k], specs[k + 1])
    BY <1>4, <2>1
  <2> QED BY <1>1, <2>2
<1> QED BY <1>6, <1>7

\* All approvers merged: per CIDR the tags that any of them claims.
LEMMA MergedRoutesKeeps ==
  ASSUME NEW specs \in Seq(Specs)
  PROVE  /\ MergedRoutes(specs) \in RouteMaps
         /\ Merging(MergedRoutes(specs), Claims(specs))
<1>. DEFINE n == Len(specs)
            Claimed(k) == UNION {ToSet(specs[i].routes) : i \in 1 .. k}
<1>1. PICK f : /\ f[0] = Nothing /\ f[n] = MergedRoutes(specs)
               /\ \A k \in 0 .. n - 1 : f[k + 1] = AddRoutes(f[k], specs[k + 1])
  BY MergedRoutesFold
<1>2. /\ n \in Nat /\ DOMAIN specs = 1 .. n
      /\ \A i \in 1 .. n : specs[i] \in Specs /\ ToSet(specs[i].routes) \in SUBSET Routes
  <2>1. n \in Nat /\ DOMAIN specs = 1 .. n /\ \A i \in 1 .. n : specs[i] \in Specs
    OBVIOUS
  <2>2. ASSUME NEW spec \in Specs PROVE ToSet(spec.routes) \in SUBSET Routes
    <3>1. spec.routes \in Seq(Routes)
      BY DEF Specs
    <3> QED BY <3>1 DEF ToSet
  <2> QED BY <2>1, <2>2
<1>3. ASSUME NEW k \in 0 .. n PROVE Claimed(k) \in SUBSET Routes
  BY <1>2
<1>. DEFINE Good(k) == f[k] \in RouteMaps /\ Merging(f[k], Claimed(k))
            P == {k \in 0 .. n : Good(k)}
<1>4. 0 \in P
  <2>1. Claimed(0) = {}
    OBVIOUS
  <2>2. Merging(Nothing, {})
    BY NothingType DEF Merging
  <2>3. Good(0)
    BY <1>1, <2>1, <2>2, NothingType
  <2>. HIDE DEF Good
  <2> QED BY <1>2, <2>3
<1>5. ASSUME NEW k \in 0 .. n - 1, k \in P PROVE k + 1 \in P
  <2>1. Good(k) /\ Claimed(k) \in SUBSET Routes /\ specs[k + 1] \in Specs
    BY <1>2, <1>3, <1>5
  <2>2. Claimed(k + 1) = Claimed(k) \cup ToSet(specs[k + 1].routes)
    <3>1. 1 .. k + 1 = (1 .. k) \cup {k + 1}
      OBVIOUS
    <3> QED BY <3>1
  <2>. HIDE DEF Claimed
  <2>3. /\ f[k + 1] \in RouteMaps
        /\ Merging(f[k + 1], Claimed(k) \cup ToSet(specs[k + 1].routes))
    BY <1>1, <2>1, AddRoutesKeeps
  <2>4. Good(k + 1)
    BY <2>2, <2>3
  <2>5. k + 1 \in 0 .. n
    BY <1>2
  <2>. HIDE DEF Good
  <2> QED BY <2>4, <2>5, Zenon
<1>6. n \in P
  <2>1. n \in Nat /\ n \in 0 .. n
    BY <1>2
  <2>. HIDE DEF P, n
  <2>2. \A k \in 0 .. n : k \in P
    BY <1>4, <1>5, <2>1, SetInduction
  <2> QED BY <2>1, <2>2
<1>7. Claimed(n) = Claims(specs)
  BY <1>2 DEF Claims
<1> QED BY <1>1, <1>6, <1>7

\* Two lists in increasing order of the same elements are the same list.
LEMMA IncreasingUnique ==
  ASSUME NEW s \in Seq(Nat), NEW t \in Seq(Nat),
         Increasing(s), Increasing(t), ToSet(s) = ToSet(t)
  PROVE  s = t
<1>1. /\ DOMAIN s = 1 .. Len(s) /\ Len(s) \in Nat /\ \A i \in 1 .. Len(s) : s[i] \in Nat
      /\ DOMAIN t = 1 .. Len(t) /\ Len(t) \in Nat /\ \A i \in 1 .. Len(t) : t[i] \in Nat
  OBVIOUS
<1>2. \A i \in 1 .. Len(s) : \E j \in 1 .. Len(t) : s[i] = t[j]
  <2>1. \A i \in 1 .. Len(s) : s[i] \in ToSet(t)
    BY <1>1 DEF ToSet
  <2> QED BY <1>1, <2>1 DEF ToSet
<1>3. \A j \in 1 .. Len(t) : \E i \in 1 .. Len(s) : s[i] = t[j]
  <2>1. \A j \in 1 .. Len(t) : t[j] \in ToSet(s)
    BY <1>1 DEF ToSet
  <2> QED BY <1>1, <2>1 DEF ToSet
<1>. DEFINE Same(k) == /\ k <= Len(s) <=> k <= Len(t)
                       /\ k <= Len(s) => s[k] = t[k]
            n == Len(s) + Len(t) + 1
            P == {k \in 0 .. n : \A i \in 1 .. k : Same(i)}
<1>4. 0 \in P
  BY <1>1
<1>5. ASSUME NEW k \in 0 .. n - 1, k \in P PROVE k + 1 \in P
  <2>1. \A i \in 1 .. k : Same(i)
    BY <1>5
  <2>2. ASSUME k + 1 <= Len(s) PROVE k + 1 <= Len(t) /\ t[k + 1] <= s[k + 1]
    <3>1. PICK j \in 1 .. Len(t) : s[k + 1] = t[j]
      BY <1>1, <1>2, <2>2
    <3>2. j >= k + 1
      <4>. SUFFICES ASSUME j \in 1 .. k PROVE FALSE
        BY <1>1
      <4>1. j \in 1 .. Len(s) /\ k + 1 \in 1 .. Len(s) /\ j < k + 1
        BY <1>1, <2>2
      <4>2. s[j] = t[j]
        BY <2>1, <4>1
      <4>3. s[j] < s[k + 1]
        BY <1>1, <4>1 DEF Increasing
      <4> QED BY <1>1, <3>1, <4>1, <4>2, <4>3
    <3>3. k + 1 \in 1 .. Len(t)
      BY <1>1, <3>2
    <3>4. CASE j = k + 1
      BY <1>1, <3>1, <3>3, <3>4
    <3>5. CASE j > k + 1
      <4>1. t[k + 1] < t[j]
        BY <1>1, <3>3, <3>5 DEF Increasing
      <4> QED BY <1>1, <3>1, <3>3, <4>1
    <3> QED BY <3>2, <3>4, <3>5, <1>1
  <2>3. ASSUME k + 1 <= Len(t) PROVE k + 1 <= Len(s) /\ s[k + 1] <= t[k + 1]
    <3>1. PICK j \in 1 .. Len(s) : t[k + 1] = s[j]
      BY <1>1, <1>3, <2>3
    <3>2. j >= k + 1
      <4>. SUFFICES ASSUME j \in 1 .. k PROVE FALSE
        BY <1>1
      <4>1. j \in 1 .. Len(t) /\ k + 1 \in 1 .. Len(t) /\ j < k + 1
        BY <1>1, <2>3
      <4>2. s[j] = t[j]
        BY <2>1, <4>1
      <4>3. t[j] < t[k + 1]
        BY <1>1, <4>1 DEF Increasing
      <4> QED BY <1>1, <3>1, <4>1, <4>2, <4>3
    <3>3. k + 1 \in 1 .. Len(s)
      BY <1>1, <3>2
    <3>4. CASE j = k + 1
      BY <1>1, <3>1, <3>3, <3>4
    <3>5. CASE j > k + 1
      <4>1. s[k + 1] < s[j]
        BY <1>1, <3>3, <3>5 DEF Increasing
      <4> QED BY <1>1, <3>1, <3>3, <4>1
    <3> QED BY <3>2, <3>4, <3>5, <1>1
  <2>4. Same(k + 1)
    <3>1. CASE k + 1 <= Len(s)
      <4>1. s[k + 1] \in Nat /\ t[k + 1] \in Nat /\ k + 1 <= Len(t)
        BY <1>1, <2>2, <3>1
      <4> QED BY <2>2, <2>3, <3>1, <4>1
    <3>2. CASE ~ (k + 1 <= Len(s))
      BY <2>3, <3>2
    <3> QED BY <3>1, <3>2
  <2>5. \A i \in 1 .. k + 1 : i \in 1 .. k \/ i = k + 1
    OBVIOUS
  <2>. HIDE DEF Same
  <2> QED BY <1>1, <2>1, <2>4, <2>5
<1>6. n \in P
  <2>1. n \in Nat /\ n \in 0 .. n
    BY <1>1
  <2>. HIDE DEF P, n
  <2>2. \A k \in 0 .. n : k \in P
    BY <1>4, <1>5, <2>1, SetInduction
  <2> QED BY <2>1, <2>2
<1>7. \A k \in 1 .. Len(s) + Len(t) + 1 : Same(k)
  BY <1>6
<1>8. Len(s) = Len(t)
  <2>1. Same(Len(s) + 1) /\ Same(Len(t) + 1)
    <3>1. Len(s) + 1 \in 1 .. n /\ Len(t) + 1 \in 1 .. n
      BY <1>1
    <3>. HIDE DEF Same
    <3> QED BY <1>7, <3>1
  <2>2. ~ (Len(s) + 1 <= Len(t)) /\ ~ (Len(t) + 1 <= Len(s))
    <3>. DEFINE l == Len(s)
                m == Len(t)
    <3>1. l \in Nat /\ m \in Nat
      BY <1>1
    <3>2. /\ l + 1 <= l <=> l + 1 <= m
          /\ m + 1 <= l <=> m + 1 <= m
      BY <2>1
    <3>. HIDE DEF l, m
    <3>3. ~ (l + 1 <= m) /\ ~ (m + 1 <= l)
      BY <3>1, <3>2
    <3> QED BY <3>3 DEF l, m
  <2>3. Len(s) \in Nat /\ Len(t) \in Nat
    BY <1>1
  <2> QED BY <2>2, <2>3
<1>9. \A k \in 1 .. Len(s) : s[k] = t[k]
  BY <1>1, <1>7
<1> QED BY <1>8, <1>9, <1>1

\* A list has finitely many elements.
LEMMA ListFinite ==
  ASSUME NEW list \in Seq(Nat)
  PROVE  IsFiniteSet(ToSet(list))
<1>. DEFINE n == Len(list)
            P == {k \in 0 .. n : IsFiniteSet(Taken(list, k))}
<1>1. n \in Nat
  OBVIOUS
<1>2. 0 \in P
  BY <1>1, SetOfPrefix, FS_EmptySet
<1>3. ASSUME NEW k \in 0 .. n - 1, k \in P PROVE k + 1 \in P
  <2>1. Taken(list, k + 1) = Taken(list, k) \cup {list[k + 1]}
    BY SetOfPrefix
  <2>2. IsFiniteSet(Taken(list, k + 1))
    BY <1>3, <2>1, FS_AddElement
  <2>3. k + 1 \in 0 .. n
    BY <1>1
  <2> QED BY <2>2, <2>3
<1>4. n \in P
  <2>1. n \in Nat /\ n \in 0 .. n
    BY <1>1
  <2>. HIDE DEF P, n
  <2>2. \A k \in 0 .. n : k \in P
    BY <1>2, <1>3, <2>1, SetInduction
  <2> QED BY <2>1, <2>2
<1> QED BY <1>4, SetOfPrefix

\* The exit node tags are finitely many.
LEMMA ExitTagsFinite ==
  ASSUME NEW specs \in Seq(Specs)
  PROVE  ExitTags(specs) \in SUBSET Nat /\ IsFiniteSet(ExitTags(specs))
<1>. DEFINE n == Len(specs)
            Listed(k) == UNION {ToSet(specs[i].exitNodeTags) : i \in 1 .. k}
            P == {k \in 0 .. n : IsFiniteSet(Listed(k))}
<1>1. /\ n \in Nat /\ DOMAIN specs = 1 .. n
      /\ \A i \in 1 .. n : /\ ToSet(specs[i].exitNodeTags) \in SUBSET Nat
                           /\ IsFiniteSet(ToSet(specs[i].exitNodeTags))
  <2>1. n \in Nat /\ DOMAIN specs = 1 .. n /\ \A i \in 1 .. n : specs[i] \in Specs
    OBVIOUS
  <2>2. ASSUME NEW spec \in Specs
        PROVE  ToSet(spec.exitNodeTags) \in SUBSET Nat /\ IsFiniteSet(ToSet(spec.exitNodeTags))
    <3>1. spec.exitNodeTags \in Seq(Nat)
      BY DEF Specs
    <3>2. ToSet(spec.exitNodeTags) \in SUBSET Nat
      BY <3>1 DEF ToSet
    <3> QED BY <3>1, <3>2, ListFinite
  <2> QED BY <2>1, <2>2
<1>2. 0 \in P
  <2>1. Listed(0) = {}
    OBVIOUS
  <2>. HIDE DEF Listed
  <2>2. IsFiniteSet(Listed(0))
    BY <2>1, FS_EmptySet
  <2>3. 0 \in 0 .. n
    BY <1>1
  <2> QED BY <2>2, <2>3
<1>3. ASSUME NEW k \in 0 .. n - 1, k \in P PROVE k + 1 \in P
  <2>1. Listed(k + 1) = Listed(k) \cup ToSet(specs[k + 1].exitNodeTags)
    <3>1. 1 .. k + 1 = (1 .. k) \cup {k + 1}
      OBVIOUS
    <3> QED BY <3>1
  <2>2. IsFiniteSet(Listed(k)) /\ IsFiniteSet(ToSet(specs[k + 1].exitNodeTags))
    BY <1>1, <1>3
  <2>. HIDE DEF Listed
  <2>. DEFINE before == Listed(k)
              next == ToSet(specs[k + 1].exitNodeTags)
  <2>3. IsFiniteSet(Listed(k + 1))
    <3>1. IsFiniteSet(before) /\ IsFiniteSet(next) /\ Listed(k + 1) = before \cup next
      BY <2>1, <2>2
    <3>. HIDE DEF before, next
    <3>2. IsFiniteSet(before \cup next)
      BY <3>1, FS_Union, Zenon
    <3> QED BY <3>1, <3>2
  <2>4. k + 1 \in 0 .. n
    BY <1>1
  <2> QED BY <2>3, <2>4
<1>4. n \in P
  <2>1. n \in Nat /\ n \in 0 .. n
    BY <1>1
  <2>. HIDE DEF P, n
  <2>2. \A k \in 0 .. n : k \in P
    BY <1>2, <1>3, <2>1, SetInduction
  <2> QED BY <2>1, <2>2
<1>5. ExitTags(specs) = Listed(n)
  BY <1>1 DEF ExitTags
<1>6. Listed(n) \in SUBSET Nat
  BY <1>1
<1> QED BY <1>4, <1>5, <1>6

\* The exit node tags, collected in a set, in order.
ExitNodeSection(specs) == Sorted(SetToSeq(ExitTags(specs)))

\* The exit nodes of the document: the listed tags, in order, each once.
LEMMA ExitNodeSectionKeeps ==
  ASSUME NEW specs \in Seq(Specs)
  PROVE  /\ ExitNodeSection(specs) \in Seq(Nat) /\ Increasing(ExitNodeSection(specs))
         /\ ToSet(ExitNodeSection(specs)) = ExitTags(specs)
<1>. DEFINE S == ExitTags(specs)
            n == Cardinality(S)
            list == SetToSeq(S)
<1>1. S \in SUBSET Nat /\ IsFiniteSet(S)
  BY ExitTagsFinite
<1>. HIDE DEF S
<1>2. n \in Nat /\ \E f : f \in Bijection(1 .. n, S)
  BY <1>1, FS_CardinalityType DEF ExistsBijection
<1>3. \E f \in [1 .. n -> S] : IsInjective(f)
  BY <1>2 DEF Bijection, Injection
<1>4. list \in [1 .. n -> S] /\ IsInjective(list)
  BY <1>3 DEF SetToSeq
<1>. HIDE DEF list
<1>5. \A y \in S : \E i \in 1 .. n : list[i] = y
  <2>1. list \in Injection(1 .. n, S)
    BY <1>4 DEF Injection
  <2>2. IsFiniteSet(1 .. n) /\ Cardinality(1 .. n) = n
    BY <1>2, FS_Interval
  <2>3. list \in Surjection(1 .. n, S)
    BY <1>1, <2>1, <2>2, FS_Injection
  <2> QED BY <1>4, <2>3 DEF Surjection
<1>6. list \in Seq(Nat) /\ ToSet(list) = S
  <2>1. list \in [1 .. n -> Nat]
    BY <1>1, <1>4
  <2>2. list \in Seq(Nat)
    BY <1>2, <2>1
  <2>3. ToSet(list) = S
    BY <1>4, <1>5 DEF ToSet
  <2> QED BY <2>2, <2>3
<1>7. /\ Sorted(list) \in Seq(Nat) /\ Ordered(Sorted(list)) /\ ToSet(Sorted(list)) = S
      /\ IsInjective(Sorted(list))
  BY <1>4, <1>6, SortedKeeps
<1> QED BY <1>7, OrderedIncreasing DEF ExitNodeSection, list, S

-----------------------------------------------------------------------------
(* The document.                                                           *)

\* The routes of the document: per CIDR the claimed tags, in order, each once.
LEMMA RoutesSectionKeeps ==
  ASSUME NEW specs \in Seq(Specs)
  PROVE  /\ RoutesSection(specs) = [cidr \in {r.cidr : r \in Claims(specs)} |->
                                      RoutesSection(specs)[cidr]]
         /\ \A cidr \in {r.cidr : r \in Claims(specs)} :
              /\ RoutesSection(specs)[cidr] \in Seq(Nat)
              /\ Increasing(RoutesSection(specs)[cidr])
              /\ ToSet(RoutesSection(specs)[cidr]) = TagsOf(Claims(specs), cidr)
<1>. DEFINE merged == MergedRoutes(specs)
<1>1. merged \in RouteMaps /\ Merging(merged, Claims(specs))
  BY MergedRoutesKeeps
<1>2. RoutesSection(specs) = [cidr \in DOMAIN merged |-> Sorted(merged[cidr])]
  BY DEF RoutesSection
<1>. HIDE DEF merged
<1>3. DOMAIN merged = {r.cidr : r \in Claims(specs)}
  BY <1>1 DEF Merging
<1>4. ASSUME NEW cidr \in DOMAIN merged
      PROVE  /\ Sorted(merged[cidr]) \in Seq(Nat) /\ Increasing(Sorted(merged[cidr]))
             /\ ToSet(Sorted(merged[cidr])) = TagsOf(Claims(specs), cidr)
  <2>1. merged[cidr] \in Seq(Nat) /\ IsInjective(merged[cidr])
    BY <1>1, RouteMapsHave DEF DistinctLists
  <2>2. /\ Sorted(merged[cidr]) \in Seq(Nat) /\ Ordered(Sorted(merged[cidr]))
        /\ ToSet(Sorted(merged[cidr])) = ToSet(merged[cidr])
        /\ IsInjective(Sorted(merged[cidr]))
    BY <2>1, SortedKeeps
  <2> QED BY <1>1, <2>2, OrderedIncreasing DEF Merging
<1> QED BY <1>2, <1>3, <1>4

\* A key of the section is there if there is something to put there.
LEMMA AutoApproversForm ==
  ASSUME NEW specs \in Seq(Specs)
  PROVE  /\ DOMAIN AutoApprovers(specs) = {key \in {"routes", "exitNode"} :
                                             \/ key = "routes" /\ Claims(specs) # {}
                                             \/ key = "exitNode" /\ ExitTags(specs) # {}}
         /\ AutoApprovers(specs) = [key \in DOMAIN AutoApprovers(specs) |->
                                      IF key = "routes" THEN RoutesSection(specs)
                                      ELSE ExitNodeSection(specs)]
<1>. DEFINE routes == RoutesSection(specs)
            exitNode == ExitNodeSection(specs)
            section == [routes |-> routes, exitNode |-> exitNode]
<1>1. AutoApprovers(specs) = [key \in Written(section) |-> section[key]]
  BY DEF AutoApprovers, Restrict, ExitNodeSection
<1>2. DOMAIN routes # {} <=> Claims(specs) # {}
  <2>1. DOMAIN routes = {r.cidr : r \in Claims(specs)}
    BY RoutesSectionKeeps
  <2> QED BY <2>1
<1>3. DOMAIN exitNode # {} <=> ExitTags(specs) # {}
  <2>1. ToSet(exitNode) = ExitTags(specs)
    BY ExitNodeSectionKeeps
  <2>. HIDE DEF exitNode
  <2> QED BY <2>1 DEF ToSet
<1>. HIDE DEF routes, exitNode
<1>4. Written(section) = {key \in {"routes", "exitNode"} :
                            \/ key = "routes" /\ DOMAIN routes # {}
                            \/ key = "exitNode" /\ DOMAIN exitNode # {}}
  BY DEF Written
<1>5. \A key \in Written(section) : section[key] = IF key = "routes" THEN routes ELSE exitNode
  BY <1>4
<1>. HIDE DEF section
<1>6. AutoApprovers(specs) = [key \in Written(section) |->
                                IF key = "routes" THEN routes ELSE exitNode]
  BY <1>1, <1>5
<1> QED BY <1>2, <1>3, <1>4, <1>6 DEF routes, exitNode

\* The document in full.
LEMMA DocumentForm ==
  ASSUME NEW specs
  PROVE  LET operatorHas == {key \in {"tagOwners", "autoApprovers"} :
                               \/ key = "tagOwners" /\ DOMAIN owners # {}
                               \/ key = "autoApprovers" /\ DOMAIN AutoApprovers(specs) # {}}
         IN  BuildPolicyDocument(specs)
               = [key \in inline \cup operatorHas |->
                    IF key \in operatorHas
                    THEN [by |-> "operator",
                          value |-> IF key = "tagOwners" THEN TagOwners
                                    ELSE AutoApprovers(specs)]
                    ELSE [by |-> "inline"]]
<1>. DEFINE routes == AutoApprovers(specs)
            operator == [tagOwners |-> TagOwners, autoApprovers |-> routes]
            operatorHas == {key \in {"tagOwners", "autoApprovers"} :
                              \/ key = "tagOwners" /\ DOMAIN owners # {}
                              \/ key = "autoApprovers" /\ DOMAIN routes # {}}
<1>1. BuildPolicyDocument(specs)
        = [key \in inline \cup Written(operator) |->
             IF key \in Written(operator)
             THEN [by |-> "operator", value |-> operator[key]]
             ELSE [by |-> "inline"]]
  BY DEF BuildPolicyDocument
<1>2. DOMAIN TagOwners = DOMAIN owners
  BY DEF TagOwners
<1>. HIDE DEF routes
<1>3. Written(operator) = operatorHas
  BY <1>2 DEF Written
<1>4. \A key \in Written(operator) :
        operator[key] = IF key = "tagOwners" THEN TagOwners ELSE routes
  BY <1>3
<1>. HIDE DEF operator, operatorHas
<1>5. BuildPolicyDocument(specs)
        = [key \in inline \cup operatorHas |->
             IF key \in operatorHas
             THEN [by |-> "operator", value |-> IF key = "tagOwners" THEN TagOwners ELSE routes]
             ELSE [by |-> "inline"]]
  BY <1>1, <1>3, <1>4
<1> QED BY <1>5 DEF operatorHas, routes

-----------------------------------------------------------------------------
(* The inductive invariant.                                                *)

\* The type invariant: the edits make lists.
PolicyTypeOK ==
  /\ inline \in SUBSET Keys
  /\ DOMAIN owners \subseteq Tags /\ owners \in [DOMAIN owners -> Seq(Nat)]
  /\ approvers \in Seq(Specs)

\* The CRD asks for an entry, and no edit takes one away.
HasEntries(spec) == spec.routes # <<>> \/ spec.exitNodeTags # <<>>

\* The inductive invariant: every approver has an entry, so it makes a section.
PolicyInv == PolicyTypeOK /\ \A i \in DOMAIN approvers : HasEntries(approvers[i])

\* The tags that an edit may list.
LEMMA TagListType ==
  ASSUME NEW n \in Nat
  PROVE  SeqOf(Tags, n) \subseteq Seq(Nat)
<1>. SUFFICES ASSUME NEW m \in 0 .. n, NEW list \in [1 .. m -> Tags] PROVE list \in Seq(Nat)
  BY DEF SeqOf
<1>1. list \in [1 .. m -> Nat]
  BY TagsAssumption
<1> QED BY <1>1

\* The edits keep the invariant, case by case.
LEMMA PolicyStep == PolicyInv /\ [Next]_vars => PolicyInv'
<1>. SUFFICES ASSUME PolicyInv, [Next]_vars PROVE PolicyInv'
  OBVIOUS
<1>. USE DEF PolicyInv, PolicyTypeOK
<1>1. MaxTags \in Nat /\ MaxTags + 1 \in Nat
  BY TagsAssumption
<1>2. Route \subseteq Routes /\ Tags \subseteq Nat
  BY <1>1, TagListType, TagsAssumption DEF Route, Routes, TagLists
<1>3. CASE CreateApprover
  <2>1. PICK spec \in {[NoSpec EXCEPT !.routes = <<r>>] : r \in Route}
                        \cup {[NoSpec EXCEPT !.exitNodeTags = <<t>>] : t \in Tags} :
          approvers' = Append(approvers, spec)
    BY <1>3 DEF CreateApprover
  <2>2. spec \in Specs /\ HasEntries(spec)
    <3>1. ASSUME NEW r \in Route, spec = [NoSpec EXCEPT !.routes = <<r>>]
          PROVE  spec \in Specs /\ HasEntries(spec)
      <4>1. <<r>> \in Seq(Routes) /\ <<r>> # <<>> /\ <<>> \in Seq(Nat)
        BY <1>2
      <4> QED BY <3>1, <4>1 DEF NoSpec, Specs, HasEntries
    <3>2. ASSUME NEW t \in Tags, spec = [NoSpec EXCEPT !.exitNodeTags = <<t>>]
          PROVE  spec \in Specs /\ HasEntries(spec)
      <4>1. <<t>> \in Seq(Nat) /\ <<t>> # <<>> /\ <<>> \in Seq(Routes)
        BY <1>2
      <4> QED BY <3>2, <4>1 DEF NoSpec, Specs, HasEntries
    <3> QED BY <3>1, <3>2
  <2>. HIDE DEF HasEntries
  <2>3. approvers' \in Seq(Specs) /\ \A i \in DOMAIN approvers' : HasEntries(approvers'[i])
    BY <2>1, <2>2
  <2> QED BY <1>3, <2>3 DEF CreateApprover, HasEntries
<1>4. CASE ExtendApprover
  <2>. DEFINE last == Len(approvers)
  <2>1. last \in DOMAIN approvers /\ approvers[last] \in Specs
    BY <1>4 DEF ExtendApprover
  <2>2. PICK spec \in Specs : HasEntries(spec) /\ approvers' = [approvers EXCEPT ![last] = spec]
    <3>1. CASE \E r \in Route : approvers' = [approvers EXCEPT ![last].routes = Append(@, r)]
      <4>1. PICK r \in Route : approvers' = [approvers EXCEPT ![last].routes = Append(@, r)]
        BY <3>1
      <4>. DEFINE old == approvers[last]
                  spec == [old EXCEPT !.routes = Append(@, r)]
      <4>2. approvers' = [approvers EXCEPT ![last] = spec]
        BY <2>1, <4>1
      <4>. HIDE DEF old
      <4>3. old \in Specs /\ Append(old.routes, r) \in Seq(Routes) /\ Append(old.routes, r) # <<>>
        <5>1. old \in Specs /\ r \in Routes
          BY <1>2, <2>1 DEF old
        <5>2. old.routes \in Seq(Routes)
          BY <5>1 DEF Specs
        <5> QED BY <5>1, <5>2
      <4>4. spec \in Specs /\ HasEntries(spec)
        BY <4>3 DEF Specs, HasEntries
      <4> QED BY <4>2, <4>4
    <3>2. CASE \E t \in Tags :
                 approvers' = [approvers EXCEPT ![last].exitNodeTags = Append(@, t)]
      <4>1. PICK t \in Tags :
              approvers' = [approvers EXCEPT ![last].exitNodeTags = Append(@, t)]
        BY <3>2
      <4>. DEFINE old == approvers[last]
                  spec == [old EXCEPT !.exitNodeTags = Append(@, t)]
      <4>2. approvers' = [approvers EXCEPT ![last] = spec]
        BY <2>1, <4>1
      <4>. HIDE DEF old
      <4>3. /\ old \in Specs /\ Append(old.exitNodeTags, t) \in Seq(Nat)
            /\ Append(old.exitNodeTags, t) # <<>>
        <5>1. old \in Specs /\ t \in Nat
          BY <1>2, <2>1 DEF old
        <5>2. old.exitNodeTags \in Seq(Nat)
          BY <5>1 DEF Specs
        <5> QED BY <5>1, <5>2
      <4>4. spec \in Specs /\ HasEntries(spec)
        BY <4>3 DEF Specs, HasEntries
      <4> QED BY <4>2, <4>4
    <3> QED BY <1>4, <3>1, <3>2 DEF ExtendApprover
  <2>. HIDE DEF last
  <2>3. approvers' \in Seq(Specs) /\ \A i \in DOMAIN approvers' : HasEntries(approvers'[i])
    BY <2>1, <2>2
  <2> QED BY <1>4, <2>3 DEF ExtendApprover, HasEntries
<1>5. CASE SetTagOwners
  <2>1. PICK tag \in Tags, principals \in SeqOf(Tags, MaxTags + 1) :
          owners' = [t \in {tag} |-> principals]
    BY <1>5 DEF SetTagOwners
  <2>2. principals \in Seq(Nat)
    BY <1>1, TagListType
  <2>3. owners' \in [{tag} -> Seq(Nat)] /\ {tag} \in SUBSET Tags
    BY <2>1, <2>2
  <2> QED BY <1>5, <2>3 DEF SetTagOwners, HasEntries
<1>6. CASE SetInline
  BY <1>6 DEF SetInline, HasEntries
<1>7. CASE UNCHANGED vars
  BY <1>7 DEF vars, HasEntries
<1> QED BY <1>3, <1>4, <1>5, <1>6, <1>7 DEF Next

\* At first there is no policy, no tag owner and no approver.
LEMMA PolicyInit == Init => PolicyInv
<1>. SUFFICES ASSUME Init PROVE PolicyInv
  OBVIOUS
<1>1. owners \in [{} -> Seq(Nat)] /\ {} \in SUBSET Tags
  BY DEF Init, Nothing
<1>2. approvers \in Seq(Specs) /\ DOMAIN approvers = {}
  BY DEF Init
<1> QED BY <1>1, <1>2 DEF Init, PolicyInv, PolicyTypeOK

-----------------------------------------------------------------------------
(* What holds of the documents of such states.                             *)

\* There is something to put into the section if there is an approver.
LEMMA ApproversClaim ==
  ASSUME PolicyInv
  PROVE  DOMAIN AutoApprovers(approvers) # {} <=> approvers # <<>>
<1>1. approvers \in Seq(Specs) /\ \A i \in DOMAIN approvers : HasEntries(approvers[i])
  BY DEF PolicyInv, PolicyTypeOK
<1>2. DOMAIN AutoApprovers(approvers) # {}
        <=> Claims(approvers) # {} \/ ExitTags(approvers) # {}
  BY <1>1, AutoApproversForm
<1>3. ASSUME approvers # <<>> PROVE Claims(approvers) # {} \/ ExitTags(approvers) # {}
  <2>. DEFINE spec == approvers[1]
  <2>1. 1 \in DOMAIN approvers /\ spec \in Specs /\ HasEntries(spec)
    BY <1>1, <1>3
  <2>. HIDE DEF spec
  <2>2. spec.routes \in Seq(Routes) /\ spec.exitNodeTags \in Seq(Nat)
    BY <2>1 DEF Specs
  <2>3. CASE spec.routes # <<>>
    <3>1. spec.routes[1] \in ToSet(spec.routes)
      BY <2>2, <2>3 DEF ToSet
    <3> QED BY <2>1, <3>1 DEF Claims, spec
  <2>4. CASE spec.exitNodeTags # <<>>
    <3>1. spec.exitNodeTags[1] \in ToSet(spec.exitNodeTags)
      BY <2>2, <2>4 DEF ToSet
    <3> QED BY <2>1, <3>1 DEF ExitTags, spec
  <2> QED BY <2>1, <2>3, <2>4 DEF HasEntries
<1>4. ASSUME approvers = <<>> PROVE Claims(approvers) = {} /\ ExitTags(approvers) = {}
  BY <1>4 DEF Claims, ExitTags
<1> QED BY <1>2, <1>3, <1>4

\* The tag owners as a function.
LEMMA OwnersType ==
  ASSUME PolicyInv
  PROVE  /\ DOMAIN owners # {} <=> owners # Nothing
         /\ \A tag \in DOMAIN owners : owners[tag] \in Seq(Nat)
<1>1. owners \in [DOMAIN owners -> Seq(Nat)]
  BY DEF PolicyInv, PolicyTypeOK
<1>2. DOMAIN owners = {} => owners = Nothing
  BY <1>1 DEF Nothing
<1>3. DOMAIN Nothing = {}
  BY DEF Nothing
<1> QED BY <1>1, <1>2, <1>3

\* The document of a state in which the invariant holds is the merge.
LEMMA MergedHolds ==
  ASSUME PolicyInv
  PROVE  Merged
<1>. DEFINE operatorHas == {key \in {"tagOwners", "autoApprovers"} :
                              \/ key = "tagOwners" /\ DOMAIN owners # {}
                              \/ key = "autoApprovers" /\ DOMAIN AutoApprovers(approvers) # {}}
<1>1. approvers \in Seq(Specs) /\ inline \in SUBSET Keys
  BY DEF PolicyInv, PolicyTypeOK
<1>2. Document = [key \in inline \cup operatorHas |->
                    IF key \in operatorHas
                    THEN [by |-> "operator",
                          value |-> IF key = "tagOwners" THEN TagOwners
                                    ELSE AutoApprovers(approvers)]
                    ELSE [by |-> "inline"]]
  BY DocumentForm DEF Document
<1>3. operatorHas = {key \in Keys : OperatorHas(key)}
  BY ApproversClaim, OwnersType DEF OperatorHas, Keys
<1>4. "autoApprovers" \in operatorHas => Document["autoApprovers"].value = AutoApprovers(approvers)
  BY <1>2
<1>5. "tagOwners" \in operatorHas => Document["tagOwners"].value = TagOwners
  BY <1>2
<1>6. DOMAIN AutoApprovers(approvers) # {} => "autoApprovers" \in operatorHas
  OBVIOUS
<1>7. DOMAIN owners # {} => "tagOwners" \in operatorHas
  OBVIOUS
<1>. HIDE DEF operatorHas
<1>8. RoutesMerged
  <2>. SUFFICES ASSUME Claims(approvers) # {}
                PROVE  /\ DOMAIN Section("routes") = {r.cidr : r \in Claims(approvers)}
                       /\ \A cidr \in DOMAIN Section("routes") :
                            /\ ToSet(Section("routes")[cidr]) = TagsOf(Claims(approvers), cidr)
                            /\ Increasing(Section("routes")[cidr])
    BY DEF RoutesMerged
  <2>1. "routes" \in DOMAIN AutoApprovers(approvers)
    BY <1>1, AutoApproversForm
  <2>2. AutoApprovers(approvers)["routes"] = RoutesSection(approvers)
    BY <1>1, <2>1, AutoApproversForm
  <2>3. Section("routes") = RoutesSection(approvers)
    BY <1>4, <1>6, <2>1, <2>2 DEF Section
  <2>4. DOMAIN RoutesSection(approvers) = {r.cidr : r \in Claims(approvers)}
    BY <1>1, RoutesSectionKeeps
  <2> QED BY <1>1, <2>3, <2>4, RoutesSectionKeeps
<1>9. ExitNodesMerged
  <2>. SUFFICES ASSUME ExitTags(approvers) # {}
                PROVE  /\ ToSet(Section("exitNode")) = ExitTags(approvers)
                       /\ Increasing(Section("exitNode"))
    BY DEF ExitNodesMerged
  <2>1. "exitNode" \in DOMAIN AutoApprovers(approvers)
    BY <1>1, AutoApproversForm
  <2>2. AutoApprovers(approvers)["exitNode"] = ExitNodeSection(approvers)
    BY <1>1, <2>1, AutoApproversForm
  <2>3. Section("exitNode") = ExitNodeSection(approvers)
    BY <1>4, <1>6, <2>1, <2>2 DEF Section
  <2> QED BY <1>1, <2>3, ExitNodeSectionKeeps
<1>10. OwnersCanonical
  <2>. SUFFICES ASSUME owners # Nothing, NEW tag \in DOMAIN owners
                PROVE  /\ ToSet(Document["tagOwners"].value[tag]) = ToSet(owners[tag])
                       /\ Increasing(Document["tagOwners"].value[tag])
    BY DEF OwnersCanonical
  <2>1. Document["tagOwners"].value = TagOwners
    BY <1>5, <1>7, OwnersType
  <2>2. TagOwners[tag] = Canonical(owners[tag])
    BY DEF TagOwners
  <2> QED BY <2>1, <2>2, OwnersType, CanonicalKeeps
<1>11. DOMAIN Document = inline \cup {key \in Keys : OperatorHas(key)}
  BY <1>2, <1>3
<1>12. \A key \in inline : Document[key].by = "inline" <=> ~ OperatorHas(key)
  <2>. SUFFICES ASSUME NEW key \in inline
                PROVE  Document[key].by = "inline" <=> ~ OperatorHas(key)
    OBVIOUS
  <2>1. key \in operatorHas <=> OperatorHas(key)
    BY <1>1, <1>3
  <2>2. CASE key \in operatorHas
    <3>1. Document[key].by = "operator"
      BY <1>2, <2>2
    <3> QED BY <2>1, <2>2, <3>1
  <2>3. CASE key \notin operatorHas
    <3>1. Document[key].by = "inline"
      BY <1>2, <2>3
    <3> QED BY <2>1, <2>3, <3>1
  <2> QED BY <2>2, <2>3
<1> QED BY <1>8, <1>9, <1>10, <1>11, <1>12 DEF Merged

\* The document depends on the approvers only through what they claim, as sets.
LEMMA SectionOfClaims ==
  ASSUME NEW specs \in Seq(Specs), NEW others \in Seq(Specs),
         Claims(specs) = Claims(others), ExitTags(specs) = ExitTags(others)
  PROVE  AutoApprovers(specs) = AutoApprovers(others)
<1>1. RoutesSection(specs) = RoutesSection(others)
  <2>. DEFINE C == {r.cidr : r \in Claims(specs)}
  <2>1. \A cidr \in C : RoutesSection(specs)[cidr] = RoutesSection(others)[cidr]
    <3>. SUFFICES ASSUME NEW cidr \in C
                  PROVE  RoutesSection(specs)[cidr] = RoutesSection(others)[cidr]
      OBVIOUS
    <3>1. /\ RoutesSection(specs)[cidr] \in Seq(Nat)
          /\ Increasing(RoutesSection(specs)[cidr])
          /\ ToSet(RoutesSection(specs)[cidr]) = TagsOf(Claims(specs), cidr)
      BY RoutesSectionKeeps
    <3>2. /\ RoutesSection(others)[cidr] \in Seq(Nat)
          /\ Increasing(RoutesSection(others)[cidr])
          /\ ToSet(RoutesSection(others)[cidr]) = TagsOf(Claims(specs), cidr)
      BY RoutesSectionKeeps
    <3> QED BY <3>1, <3>2, IncreasingUnique
  <2>2. RoutesSection(specs) = [cidr \in C |-> RoutesSection(specs)[cidr]]
    BY RoutesSectionKeeps
  <2>3. RoutesSection(others) = [cidr \in C |-> RoutesSection(others)[cidr]]
    BY RoutesSectionKeeps
  <2>. HIDE DEF C
  <2>4. [cidr \in C |-> RoutesSection(specs)[cidr]] = [cidr \in C |-> RoutesSection(others)[cidr]]
    BY <2>1
  <2> QED BY <2>2, <2>3, <2>4
<1>2. ExitNodeSection(specs) = ExitNodeSection(others)
  BY DEF ExitNodeSection
<1>3. DOMAIN AutoApprovers(specs) = DOMAIN AutoApprovers(others)
  BY AutoApproversForm
<1>. DEFINE K == DOMAIN AutoApprovers(specs)
<1>4. AutoApprovers(specs) = [key \in K |-> IF key = "routes" THEN RoutesSection(specs)
                                            ELSE ExitNodeSection(specs)]
  BY AutoApproversForm
<1>5. AutoApprovers(others) = [key \in K |-> IF key = "routes" THEN RoutesSection(others)
                                             ELSE ExitNodeSection(others)]
  BY <1>3, AutoApproversForm
<1> QED BY <1>1, <1>2, <1>4, <1>5

\* A rearrangement of the approvers has the same claims, so the same document.
LEMMA OrderHolds ==
  ASSUME PolicyInv
  PROVE  OrderIndependent
<1>1. approvers \in Seq(Specs)
  BY DEF PolicyInv, PolicyTypeOK
<1>. SUFFICES ASSUME NEW p \in Bijection(DOMAIN approvers, DOMAIN approvers)
              PROVE  BuildPolicyDocument([i \in DOMAIN approvers |-> approvers[p[i]]]) = Document
  BY DEF OrderIndependent
<1>. DEFINE D == DOMAIN approvers
            others == [i \in D |-> approvers[p[i]]]
<1>2. p \in [D -> D] /\ \A j \in D : \E i \in D : p[i] = j
  BY DEF Bijection, Injection, Surjection
<1>3. D = 1 .. Len(approvers) /\ Len(approvers) \in Nat
  BY <1>1
<1>4. others \in [1 .. Len(approvers) -> Specs]
  BY <1>1, <1>2, <1>3
<1>5. others \in Seq(Specs)
  BY <1>3, <1>4
<1>6. DOMAIN others = D /\ (\A i \in D : others[i] = approvers[p[i]])
  OBVIOUS
<1>. HIDE DEF D, others
<1>7. Claims(others) = Claims(approvers)
  BY <1>2, <1>6 DEF Claims, D
<1>8. ExitTags(others) = ExitTags(approvers)
  BY <1>2, <1>6 DEF ExitTags, D
<1>9. AutoApprovers(others) = AutoApprovers(approvers)
  BY <1>1, <1>5, <1>7, <1>8, SectionOfClaims
<1> QED BY <1>9 DEF Document, BuildPolicyDocument, others, D

-----------------------------------------------------------------------------
(* The theorems.                                                           *)

\* The types of the policy's parts, and that no approver is without an entry.
THEOREM TypeCorrect == Spec => []PolicyInv
BY PolicyInit, PolicyStep, PTL DEF Spec

\* The document says what the inline policy, the tag owners and the approvers
\* say, as sets, every list in order and without repetition (buildPolicyDocument),
\* for any number of approvers, routes, tags and principals.
THEOREM MergeSafe == Spec => []Merged
<1>1. PolicyInv => Merged
  BY MergedHolds
<1> QED BY <1>1, TypeCorrect, PTL

\* The order in which the approvers are listed does not show in the document
\* (buildPolicyDocument, SetPolicy): the same entries make the same document.
THEOREM OrderSafe == Spec => []OrderIndependent
<1>1. PolicyInv => OrderIndependent
  BY OrderHolds
<1> QED BY <1>1, TypeCorrect, PTL
=============================================================================
