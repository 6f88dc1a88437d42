--------------------------- MODULE SMTModelProofs ---------------------------
(***************************************************************************)
(* Theorems about SMTModel: what the solutions of the text say of the      *)
(* graph, and what the operations say of the solutions, for every graph,   *)
(* configuration and bound.                                                *)
(*                                                                         *)
(* First the operators the encoding is built from.  They are folds and      *)
(* recursive functions over lists; each lemma follows the list by          *)
(* AllNaturals, a form of induction that takes a set and no operator.  Then *)
(* SMTInv, the inductive invariant, step by step, and what follows from it. *)
(***************************************************************************)
EXTENDS SMTModel, FiniteSetTheorems, SequenceTheorems, WellFoundedInduction, TLAPS
-------------------------------------------------------------------------------
(* Lists and groups of consecutive serial numbers *)

\* A set of naturals that holds 0 and the successor of each of its members
\* holds them all.
LEMMA AllNaturals ==
  ASSUME NEW S, 0 \in S, \A n \in Nat : n \in S => n + 1 \in S
  PROVE  Nat \subseteq S
<1> SUFFICES ASSUME Nat \ S # {} PROVE FALSE
  OBVIOUS
<1> DEFINE T == Nat \ S
<1>1. PICK n \in T : \A m \in T : ~(m < n)
  <2>1. T \subseteq Nat /\ T # {}
    OBVIOUS
  <2>2. PICK n \in T : \A m \in T : ~(<<m, n>> \in OpToRel(<, Nat))
    <3> HIDE DEF T
    <3> QED
      BY <2>1, NatLessThanWellFounded, WFMin
  <2> QED
    BY <2>1, <2>2 DEF OpToRel
<1>2. n \in Nat /\ n # 0 /\ n - 1 \in Nat /\ n - 1 < n
  OBVIOUS
<1>3. n - 1 \in S
  BY <1>1, <1>2
<1>4. (n - 1) + 1 \in S /\ (n - 1) + 1 = n
  BY <1>2, <1>3
<1> QED
  BY <1>4

\* What the fold of GroupVersions does with the next version.
Grown(groups, v, step) ==
  IF groups # << >> /\ v = Last(groups)[2] + step
  THEN Append(Front(groups), <<Last(groups)[1], v>>)
  ELSE Append(groups, <<v, v>>)

Top(s) == CHOOSE x \in s : \A y \in s : x >= y

\* The greatest number of an interval that starts at 1 is its end.
LEMMA TopOfInterval ==
  ASSUME NEW n \in Nat, NEW s \in SUBSET (1 .. n + 1), n + 1 \in s
  PROVE  Top(s) = n + 1
<1>1. n + 1 \in s /\ \A y \in s : n + 1 >= y
  OBVIOUS
<1>2. \A x \in s : (\A y \in s : x >= y) => x = n + 1
  BY <1>1
<1> QED
  BY <1>1, <1>2 DEF Top

\* The fold obeys its recursion.
LEMMA FoldOfGroups ==
  ASSUME NEW versions \in Seq(Int), NEW step \in {1, -1}
  PROVE  \E folded :
           /\ GroupVersions(versions, step) = folded[1 .. Len(versions)]
           /\ folded[1 .. 0] = << >>
           /\ \A n \in 0 .. Len(versions) - 1 :
                folded[1 .. n + 1] = Grown(folded[1 .. n], versions[n + 1], step)
<1> DEFINE Body(g, s) == IF s = {} THEN << >>
                         ELSE Grown(g[s \ {Top(s)}], versions[Top(s)], step)
           Upto(k) == \E g : g = [s \in SUBSET (1 .. k) |-> Body(g, s)]
           S == {k \in Nat : k <= Len(versions) => Upto(k)}
           iter[s \in SUBSET DOMAIN versions] ==
             IF s = {} THEN << >> ELSE Grown(iter[s \ {Top(s)}], versions[Top(s)], step)
<1> Len(versions) \in Nat /\ DOMAIN versions = 1 .. Len(versions)
  OBVIOUS
<1>1. 0 \in S
  <2> DEFINE g == [s \in {{}} |-> << >>]
  <2>1. SUBSET (1 .. 0) = {{}}
    OBVIOUS
  <2>2. g = [s \in SUBSET (1 .. 0) |-> Body(g, s)]
    BY <2>1
  <2> QED
    BY <2>2
<1>2. ASSUME NEW k \in Nat, k \in S PROVE k + 1 \in S
  <2> SUFFICES ASSUME k + 1 <= Len(versions) PROVE Upto(k + 1)
    <3> HIDE DEF Upto
    <3> QED
      OBVIOUS
  <2>1. PICK g : g = [s \in SUBSET (1 .. k) |-> Body(g, s)]
    <3>1. Upto(k)
      <4> HIDE DEF Upto
      <4> QED
        BY <1>2
    <3> QED
      BY <3>1
  <2> DEFINE h == [s \in SUBSET (1 .. k + 1) |->
                     IF k + 1 \in s THEN Grown(g[s \ {k + 1}], versions[k + 1], step)
                     ELSE g[s]]
  <2>2. ASSUME NEW s \in SUBSET (1 .. k + 1) PROVE h[s] = Body(h, s)
    <3>1. CASE k + 1 \in s
      <4>1. Top(s) = k + 1
        BY <3>1, TopOfInterval
      <4>2. s \ {k + 1} \in SUBSET (1 .. k + 1) /\ k + 1 \notin s \ {k + 1}
        OBVIOUS
      <4>3. h[s \ {k + 1}] = g[s \ {k + 1}]
        BY <4>2
      <4> QED
        BY <3>1, <4>1, <4>3
    <3>2. CASE k + 1 \notin s
      <4>1. s \in SUBSET (1 .. k)
        BY <3>2
      <4>2. g[s] = Body(g, s)
        BY <2>1, <4>1
      <4>3. s \ {Top(s)} \in SUBSET (1 .. k + 1) /\ k + 1 \notin s \ {Top(s)}
        BY <3>2
      <4>4. h[s \ {Top(s)}] = g[s \ {Top(s)}]
        BY <4>3
      <4> QED
        BY <3>2, <4>2, <4>4
    <3> QED
      BY <3>1, <3>2
  <2>3. h = [s \in SUBSET (1 .. k + 1) |-> Body(h, s)]
    BY <2>2
  <2> QED
    BY <2>3
<1>3. Upto(Len(versions))
  <2>1. \A n \in Nat : n \in S => n + 1 \in S
    BY <1>2
  <2> HIDE DEF S
  <2>2. Nat \subseteq S
    BY <1>1, <2>1, AllNaturals
  <2> HIDE DEF Upto
  <2> QED
    BY <2>2 DEF S
<1>4. iter = [s \in SUBSET DOMAIN versions |-> Body(iter, s)]
  <2>1. \E g : g = [s \in SUBSET DOMAIN versions |-> Body(g, s)]
    BY <1>3
  <2> QED
    BY <2>1
<1>5. GroupVersions(versions, step) = iter[DOMAIN versions]
  BY DEF GroupVersions, FoldLeft, MapThenFoldSet, Grown, Max, Top
<1>6. ASSUME NEW s \in SUBSET (1 .. Len(versions)) PROVE iter[s] = Body(iter, s)
  BY <1>4
<1> HIDE DEF iter
<1>7. iter[1 .. 0] = << >>
  <2>1. 1 .. 0 = {} /\ 1 .. 0 \in SUBSET (1 .. Len(versions))
    OBVIOUS
  <2> QED
    BY <1>6, <2>1
<1>8. ASSUME NEW n \in 0 .. Len(versions) - 1
      PROVE  iter[1 .. n + 1] = Grown(iter[1 .. n], versions[n + 1], step)
  <2>1. Top(1 .. n + 1) = n + 1
    BY TopOfInterval
  <2>2. (1 .. n + 1) \ {n + 1} = 1 .. n
    OBVIOUS
  <2>3. n + 1 \in 1 .. n + 1 /\ 1 .. n + 1 \in SUBSET (1 .. Len(versions))
    OBVIOUS
  <2> QED
    BY <1>6, <2>1, <2>2, <2>3
<1> QED
  BY <1>5, <1>7, <1>8

Within(value, g, step) ==
  value \in (IF step = 1 THEN g[1] .. g[2] ELSE g[2] .. g[1])

Ordered(g, step) == IF step = 1 THEN g[1] <= g[2] ELSE g[2] <= g[1]

Covers(groups, step, values) ==
  /\ groups \in Seq(Int \X Int)
  /\ \A i \in 1 .. Len(groups) : Ordered(groups[i], step)
  /\ \A x \in Int : (\E i \in 1 .. Len(groups) : Within(x, groups[i], step)) <=> x \in values

\* One value more is one value more that the groups cover.
LEMMA GrownCovers ==
  ASSUME NEW groups, NEW step \in {1, -1}, NEW values, NEW v \in Int,
         Covers(groups, step, values)
  PROVE  Covers(Grown(groups, v, step), step, values \cup {v})
<1> DEFINE n == Len(groups)
           grown == Grown(groups, v, step)
<1>1. groups \in Seq(Int \X Int) /\ n \in Nat
  BY DEF Covers
<1>2. \A i \in 1 .. n : groups[i] \in Int \X Int
  BY <1>1
<1>3. CASE groups # << >> /\ v = Last(groups)[2] + step
  <2>1. n >= 1 /\ Last(groups) = groups[n]
    BY <1>1, <1>3 DEF Last
  <2> DEFINE pair == <<groups[n][1], v>>
  <2>2. pair \in Int \X Int /\ groups[n] \in Int \X Int
    BY <1>2, <2>1
  <2>3. /\ Front(groups) \in Seq(Int \X Int) /\ Len(Front(groups)) = n - 1
        /\ \A i \in 1 .. n - 1 : Front(groups)[i] = groups[i]
    <3>1. Front(groups) = SubSeq(groups, 1, n - 1)
      BY DEF Front
    <3>2. n - 1 \in Int /\ \A i \in 1 .. n - 1 : groups[i] \in Int \X Int
      BY <1>1, <1>2
    <3> HIDE DEF n
    <3>3. /\ SubSeq(groups, 1, n - 1) \in Seq(Int \X Int)
          /\ Len(SubSeq(groups, 1, n - 1)) = IF 1 <= n - 1 THEN n - 1 - 1 + 1 ELSE 0
          /\ \A i \in 1 .. n - 1 - 1 + 1 :
               SubSeq(groups, 1, n - 1)[i] = groups[1 + i - 1]
      BY <3>2, SubSeqProperties
    <3>4. n - 1 - 1 + 1 = n - 1 /\ \A i \in 1 .. n - 1 : 1 + i - 1 = i
      BY <1>1
    <3> QED
      BY <1>1, <2>1, <3>1, <3>3, <3>4
  <2>4. grown = Append(Front(groups), pair)
    BY <1>3, <2>1 DEF Grown
  <2>5. /\ grown \in Seq(Int \X Int) /\ Len(grown) = n
        /\ \A i \in 1 .. n - 1 : grown[i] = groups[i]
        /\ grown[n] = pair
    <3> HIDE DEF grown, n, pair
    <3>1. /\ Append(Front(groups), pair) \in Seq(Int \X Int)
          /\ Len(Append(Front(groups), pair)) = Len(Front(groups)) + 1
          /\ \A i \in 1 .. Len(Front(groups)) :
               Append(Front(groups), pair)[i] = Front(groups)[i]
          /\ Append(Front(groups), pair)[Len(Front(groups)) + 1] = pair
      BY <2>2, <2>3, AppendProperties
    <3>2. n - 1 + 1 = n
      BY <1>1
    <3> QED
      BY <2>3, <2>4, <3>1, <3>2
  <2> HIDE DEF grown, n
  <2>6. Ordered(groups[n], step) /\ v = groups[n][2] + step
    BY <1>3, <2>1 DEF Covers, n
  <2>7. Ordered(pair, step)
        /\ \A x \in Int : Within(x, pair, step) <=> Within(x, groups[n], step) \/ x = v
    BY <2>2, <2>6 DEF Ordered, Within
  <2>8. \A i \in 1 .. n : Ordered(grown[i], step)
    <3> TAKE i \in 1 .. n
    <3>1. i = n \/ i \in 1 .. n - 1
      BY <1>1
    <3> QED
      BY <2>5, <2>7, <3>1 DEF Covers, n
  <2>9. ASSUME NEW x \in Int
        PROVE  (\E i \in 1 .. n : Within(x, grown[i], step)) <=> x \in values \cup {v}
    <3>1. (\E i \in 1 .. n : Within(x, grown[i], step))
            <=> (\E i \in 1 .. n - 1 : Within(x, groups[i], step)) \/ Within(x, pair, step)
      <4>1. 1 .. n = (1 .. n - 1) \cup {n}
        BY <1>1, <2>1
      <4> QED
        BY <2>5, <4>1
    <3>2. (\E i \in 1 .. n : Within(x, groups[i], step))
            <=> (\E i \in 1 .. n - 1 : Within(x, groups[i], step)) \/ Within(x, groups[n], step)
      <4>1. 1 .. n = (1 .. n - 1) \cup {n}
        BY <1>1, <2>1
      <4> QED
        BY <4>1
    <3>3. (\E i \in 1 .. n : Within(x, groups[i], step)) <=> x \in values
      BY DEF Covers, n
    <3> QED
      BY <2>7, <3>1, <3>2, <3>3
  <2> QED
    BY <2>5, <2>8, <2>9 DEF Covers, grown
<1>4. CASE ~(groups # << >> /\ v = Last(groups)[2] + step)
  <2> DEFINE pair == <<v, v>>
  <2>1. grown = Append(groups, pair)
    BY <1>4 DEF Grown
  <2>2. /\ grown \in Seq(Int \X Int) /\ Len(grown) = n + 1
        /\ \A i \in 1 .. n : grown[i] = groups[i]
        /\ grown[n + 1] = pair
    BY <1>1, <2>1
  <2> HIDE DEF grown, n
  <2>3. Ordered(pair, step) /\ \A x \in Int : Within(x, pair, step) <=> x = v
    BY DEF Ordered, Within
  <2>4. 1 .. n + 1 = (1 .. n) \cup {n + 1}
    BY <1>1
  <2>5. \A i \in 1 .. n + 1 : Ordered(grown[i], step)
    BY <2>2, <2>3, <2>4 DEF Covers, n
  <2>6. ASSUME NEW x \in Int
        PROVE  (\E i \in 1 .. n + 1 : Within(x, grown[i], step)) <=> x \in values \cup {v}
    <3>1. (\E i \in 1 .. n + 1 : Within(x, grown[i], step))
            <=> (\E i \in 1 .. n : Within(x, groups[i], step)) \/ Within(x, pair, step)
      BY <2>2, <2>4
    <3>2. (\E i \in 1 .. n : Within(x, groups[i], step)) <=> x \in values
      BY DEF Covers, n
    <3> QED
      BY <2>3, <3>1, <3>2
  <2> QED
    BY <2>2, <2>5, <2>6 DEF Covers, grown
<1> QED
  BY <1>3, <1>4

\* Grouping loses and adds no version.
LEMMA GroupsMean ==
  ASSUME NEW versions \in Seq(Int), NEW step \in {1, -1}
  PROVE  /\ GroupVersions(versions, step) \in Seq(Int \X Int)
         /\ \A value \in Int : InGroups(value, GroupVersions(versions, step), step)
                               <=> value \in Range(versions)
<1> DEFINE L == Len(versions)
           Seen(n) == {versions[i] : i \in 1 .. n}
<1>0. L \in Nat /\ DOMAIN versions = 1 .. L /\ \A i \in 1 .. L : versions[i] \in Int
  OBVIOUS
<1>1. PICK folded :
        /\ GroupVersions(versions, step) = folded[1 .. L]
        /\ folded[1 .. 0] = << >>
        /\ \A n \in 0 .. L - 1 :
             folded[1 .. n + 1] = Grown(folded[1 .. n], versions[n + 1], step)
  BY FoldOfGroups
<1> DEFINE S == {n \in Nat : n <= L => Covers(folded[1 .. n], step, Seen(n))}
<1>2. 0 \in S
  <2>1. Seen(0) = {}
    OBVIOUS
  <2>2. Covers(<< >>, step, {})
    BY DEF Covers
  <2> QED
    BY <1>1, <2>1, <2>2
<1>3. ASSUME NEW n \in Nat, n \in S PROVE n + 1 \in S
  <2> SUFFICES ASSUME n + 1 <= L PROVE Covers(folded[1 .. n + 1], step, Seen(n + 1))
    OBVIOUS
  <2>1. Covers(folded[1 .. n], step, Seen(n))
    BY <1>0, <1>3
  <2>2. n + 1 \in 1 .. L /\ n \in 0 .. L - 1 /\ versions[n + 1] \in Int
    BY <1>0
  <2>3. Seen(n + 1) = Seen(n) \cup {versions[n + 1]}
    <3>1. 1 .. n + 1 = (1 .. n) \cup {n + 1}
      OBVIOUS
    <3> QED
      BY <3>1
  <2> HIDE DEF Seen
  <2>4. Covers(Grown(folded[1 .. n], versions[n + 1], step), step, Seen(n) \cup {versions[n + 1]})
    BY <2>1, <2>2, GrownCovers
  <2> QED
    BY <1>1, <2>2, <2>3, <2>4
<1>4. Covers(folded[1 .. L], step, Seen(L))
  <2>1. \A n \in Nat : n \in S => n + 1 \in S
    BY <1>3
  <2>2. L \in S
    <3> HIDE DEF S
    <3> QED
      BY <1>0, <1>2, <2>1, AllNaturals
  <2>3. Covers(folded[1 .. L], step, Seen(L))
    <3> HIDE DEF Seen
    <3> QED
      BY <1>0, <2>2
  <2> QED
    BY <2>3
<1>5. Seen(L) = Range(versions)
  BY <1>0 DEF Range
<1> DEFINE groups == folded[1 .. L]
<1>6. Range(groups) = {groups[i] : i \in 1 .. Len(groups)}
  BY <1>4 DEF Range, Covers
<1>7. \A value : InGroups(value, groups, step) <=> \E i \in 1 .. Len(groups) : Within(value, groups[i], step)
  BY <1>6 DEF InGroups, Within
<1> QED
  BY <1>1, <1>4, <1>5, <1>7 DEF Covers

\* A finite set of integers can be listed in ascending order.
LEMMA AscendingList ==
  ASSUME NEW S, S \subseteq Int, IsFiniteSet(S)
  PROVE  \E list \in SetToSeqs(S) : \A i, j \in DOMAIN list : i < j => list[i] < list[j]
<1> DEFINE n == Cardinality(S)
           Upto(x) == {y \in S : y <= x}
           rank == [x \in S |-> Cardinality(Upto(x))]
<1>1. n \in Nat /\ IsFiniteSet(1 .. n) /\ Cardinality(1 .. n) = n
  BY FS_CardinalityType, FS_Interval
<1>2. ASSUME NEW x \in S
      PROVE  IsFiniteSet(Upto(x)) /\ Cardinality(Upto(x)) \in 1 .. n
  <2>1. IsFiniteSet(Upto(x)) /\ Cardinality(Upto(x)) <= n
    BY FS_Subset
  <2>2. Cardinality(Upto(x)) \in Nat
    BY <2>1, FS_CardinalityType
  <2>3. Upto(x) # {}
    OBVIOUS
  <2>4. Cardinality(Upto(x)) # 0
    <3> HIDE DEF Upto
    <3> QED
      BY <2>1, <2>3, FS_EmptySet
  <2> HIDE DEF Upto
  <2> QED
    BY <1>1, <2>1, <2>2, <2>4
<1>3. ASSUME NEW x \in S, NEW y \in S, x < y PROVE rank[x] < rank[y]
  <2>1. Upto(x) \in SUBSET Upto(y) /\ y \in Upto(y) /\ y \notin Upto(x)
    <3>1. x \in Int /\ y \in Int /\ \A z \in S : z \in Int
      OBVIOUS
    <3>2. \A z \in S : z <= x => z <= y
      BY <1>3, <3>1
    <3>3. ~(y <= x) /\ y <= y
      BY <1>3, <3>1
    <3> QED
      BY <3>2, <3>3
  <2>2. IsFiniteSet(Upto(y)) /\ Cardinality(Upto(x)) \in Nat /\ Cardinality(Upto(y)) \in Nat
    BY <1>2
  <2>3. rank[x] = Cardinality(Upto(x)) /\ rank[y] = Cardinality(Upto(y))
    OBVIOUS
  <2> HIDE DEF Upto, rank
  <2>4. Cardinality(Upto(x)) <= Cardinality(Upto(y))
        /\ Cardinality(Upto(x)) # Cardinality(Upto(y))
    BY <2>1, <2>2, FS_Subset
  <2> QED
    BY <2>2, <2>3, <2>4
<1>4. rank \in [S -> 1 .. n] /\ \A x, y \in S : rank[x] = rank[y] => x = y
  <2>1. rank \in [S -> 1 .. n]
    <3> HIDE DEF n, Upto
    <3> QED
      BY <1>2
  <2>2. ASSUME NEW x \in S, NEW y \in S, rank[x] = rank[y] PROVE x = y
    <3> HIDE DEF rank
    <3>1. rank[x] \in Int /\ rank[y] \in Int
      BY <2>1
    <3> QED
      BY <1>3, <2>2, <3>1
  <2> QED
    BY <2>1, <2>2
<1> HIDE DEF n, rank
<1>5. rank \in Surjection(S, 1 .. n)
  <2>1. rank \in Injection(S, 1 .. n)
    BY <1>4 DEF Injection, IsInjective
  <2> QED
    BY <1>1, <2>1, FS_Injection DEF n
<1>6. \A i \in 1 .. n : \E x \in S : rank[x] = i
  BY <1>5 DEF Surjection
<1> DEFINE list == [i \in 1 .. n |-> CHOOSE x \in S : rank[x] = i]
<1>7. \A i \in 1 .. n : list[i] \in S /\ rank[list[i]] = i
  BY <1>6
<1>8. list \in [1 .. n -> S]
  BY <1>7
<1> HIDE DEF list
<1>9. ASSUME NEW i \in 1 .. n, NEW j \in 1 .. n, i < j PROVE list[i] < list[j]
  <2>1. list[i] \in Int /\ list[j] \in Int /\ rank[list[i]] = i /\ rank[list[j]] = j
    BY <1>7
  <2> QED
    BY <1>3, <1>7, <1>9, <2>1
<1>10. list \in SetToSeqs(S)
  <2>1. \A i, j \in 1 .. n : i # j => list[i] # list[j]
    BY <1>7
  <2> QED
    BY <1>8, <2>1 DEF SetToSeqs, n
<1>11. DOMAIN list = 1 .. n
  BY <1>8
<1> QED
  BY <1>9, <1>10, <1>11

\* A listing of a set has its members.
LEMMA ListingHasAll ==
  ASSUME NEW S, IsFiniteSet(S), NEW list \in SetToSeqs(S)
  PROVE  list \in Seq(S) /\ Range(list) = S
<1> DEFINE n == Cardinality(S)
<1>1. n \in Nat /\ IsFiniteSet(1 .. n) /\ Cardinality(1 .. n) = n
  BY FS_CardinalityType, FS_Interval
<1>2. list \in [1 .. n -> S] /\ \A i, j \in 1 .. n : i # j => list[i] # list[j]
  BY DEF SetToSeqs
<1>3. list \in Injection(1 .. n, S)
  BY <1>2 DEF Injection, IsInjective
<1>4. list \in Surjection(1 .. n, S)
  BY <1>1, <1>3, FS_Injection
<1> QED
  BY <1>1, <1>2, <1>4 DEF Surjection, Range

\* AsList lists the members of a set of serial numbers.
LEMMA AsListHasAll ==
  ASSUME NEW S, S \subseteq Int, IsFiniteSet(S)
  PROVE  AsList(S) \in Seq(Int) /\ Range(AsList(S)) = S
<1> DEFINE T == S \ {Absent}
           there == CHOOSE list \in SetToSeqs(T) :
                      \A i, j \in DOMAIN list : i < j => list[i] < list[j]
<1>1. T \subseteq Int /\ IsFiniteSet(T)
  BY FS_RemoveElement
<1>2. there \in SetToSeqs(T)
  <2> HIDE DEF T
  <2> QED
    BY <1>1, AscendingList
<1> HIDE DEF there
<1>3. there \in Seq(T) /\ Range(there) = T
  BY <1>1, <1>2, ListingHasAll
<1>4. there \in Seq(Int)
  BY <1>1, <1>3
<1>5. CASE Absent \in S
  <2>1. AsList(S) = Append(there, Absent)
    BY <1>5 DEF AsList, there
  <2>2. Absent \in Int
    BY DEF Absent
  <2>3. /\ Append(there, Absent) \in Seq(Int)
        /\ Len(Append(there, Absent)) = Len(there) + 1
        /\ \A i \in 1 .. Len(there) : Append(there, Absent)[i] = there[i]
        /\ Append(there, Absent)[Len(there) + 1] = Absent
    BY <1>4, <2>2, AppendProperties
  <2>4. Range(AsList(S)) = Range(there) \cup {Absent}
    BY <1>4, <2>1, <2>3 DEF Range
  <2> QED
    BY <1>3, <1>5, <2>1, <2>3, <2>4
<1>6. CASE Absent \notin S
  <2>1. AsList(S) = there /\ T = S
    BY <1>6 DEF AsList, there
  <2> QED
    BY <1>3, <1>4, <2>1
<1> QED
  BY <1>5, <1>6

\* The sum of integers over a finite set is an integer.
LEMMA SumIsInteger ==
  ASSUME NEW S, IsFiniteSet(S), NEW fun, \A x \in S : fun[x] \in Int
  PROVE  SumFunctionOnSet(fun, S) \in Int
<1> DEFINE Some(s) == CHOOSE x \in s : TRUE
           Body(g, s) == IF s = {} THEN 0 ELSE fun[Some(s)] + g[s \ {Some(s)}]
           Small(k) == {s \in SUBSET S : Cardinality(s) <= k}
           Summed(k) == \E g \in [Small(k) -> Int] : \A s \in Small(k) : g[s] = Body(g, s)
           K == {k \in Nat : Summed(k)}
           iter[s \in SUBSET S] ==
             IF s = {} THEN 0 ELSE fun[Some(s)] + iter[s \ {Some(s)}]
<1>1. ASSUME NEW s \in SUBSET S
      PROVE  /\ IsFiniteSet(s) /\ Cardinality(s) \in Nat
             /\ Cardinality(s) <= Cardinality(S)
             /\ Cardinality(s) = 0 <=> s = {}
  BY FS_Subset, FS_CardinalityType, FS_EmptySet
<1>2. ASSUME NEW s \in SUBSET S, s # {}
      PROVE  /\ Some(s) \in S /\ fun[Some(s)] \in Int
             /\ s \ {Some(s)} \in SUBSET S
             /\ Cardinality(s \ {Some(s)}) = Cardinality(s) - 1
  <2>1. Some(s) \in s
    BY <1>2
  <2> HIDE DEF Some
  <2>2. Cardinality(s \ {Some(s)}) = Cardinality(s) - 1
    BY <1>1, <2>1, FS_RemoveElement
  <2> QED
    BY <2>1, <2>2
<1>3. 0 \in K
  <2> DEFINE g == [s \in Small(0) |-> 0]
  <2>1. \A s \in Small(0) : s = {}
    BY <1>1
  <2>2. g \in [Small(0) -> Int] /\ \A s \in Small(0) : g[s] = Body(g, s)
    BY <2>1
  <2> QED
    BY <2>2
<1>4. ASSUME NEW k \in Nat, k \in K PROVE k + 1 \in K
  <2>1. PICK g \in [Small(k) -> Int] : \A s \in Small(k) : g[s] = Body(g, s)
    BY <1>4
  <2> DEFINE h == [s \in Small(k + 1) |-> Body(g, s)]
  <2>2. ASSUME NEW s \in Small(k + 1), s # {}
        PROVE  s \ {Some(s)} \in Small(k) /\ fun[Some(s)] \in Int
    <3>1. /\ s \in SUBSET S /\ Cardinality(s) <= k + 1 /\ Cardinality(s) \in Nat
          /\ s \ {Some(s)} \in SUBSET S /\ fun[Some(s)] \in Int
          /\ Cardinality(s \ {Some(s)}) = Cardinality(s) - 1
      <4>1. s \in SUBSET S /\ Cardinality(s) <= k + 1
        OBVIOUS
      <4> HIDE DEF Some, Small
      <4> QED
        BY <1>1, <1>2, <2>2, <4>1
    <3> HIDE DEF Some
    <3>2. Cardinality(s \ {Some(s)}) <= k
      BY <3>1
    <3> QED
      BY <3>1, <3>2
  <2>3. \A s \in Small(k) : s \in Small(k + 1)
    <3> TAKE s \in Small(k)
    <3>1. s \in SUBSET S /\ Cardinality(s) <= k /\ Cardinality(s) \in Nat
      BY <1>1
    <3> QED
      BY <3>1
  <2> HIDE DEF Some, Small
  <2>4. \A s \in Small(k) : h[s] = g[s]
    BY <2>1, <2>3
  <2>5. h \in [Small(k + 1) -> Int]
    <3> SUFFICES ASSUME NEW s \in Small(k + 1) PROVE Body(g, s) \in Int
      OBVIOUS
    <3>1. CASE s = {}
      BY <3>1
    <3>2. CASE s # {}
      <4>1. g[s \ {Some(s)}] \in Int /\ fun[Some(s)] \in Int
        BY <2>1, <2>2, <3>2
      <4> QED
        BY <3>2, <4>1
    <3> QED
      BY <3>1, <3>2
  <2>6. ASSUME NEW s \in Small(k + 1) PROVE h[s] = Body(h, s)
    <3>1. CASE s = {}
      BY <3>1
    <3>2. CASE s # {}
      <4>1. h[s \ {Some(s)}] = g[s \ {Some(s)}]
        BY <2>2, <2>4, <3>2
      <4> QED
        BY <3>2, <4>1
    <3> QED
      BY <3>1, <3>2
  <2> HIDE DEF h
  <2>7. Summed(k + 1)
    BY <2>5, <2>6
  <2> HIDE DEF Summed
  <2> QED
    BY <2>7
<1>5. Cardinality(S) \in Nat
  BY <1>1
<1>6. Summed(Cardinality(S))
  <2>1. \A k \in Nat : k \in K => k + 1 \in K
    BY <1>4
  <2>2. Cardinality(S) \in K
    <3> HIDE DEF K
    <3> QED
      BY <1>3, <1>5, <2>1, AllNaturals
  <2> HIDE DEF Summed
  <2> QED
    BY <2>2
<1>7. Small(Cardinality(S)) = SUBSET S
  BY <1>1
<1>8. iter = [s \in SUBSET S |-> Body(iter, s)]
  <2>1. PICK g \in [SUBSET S -> Int] : \A s \in SUBSET S : g[s] = Body(g, s)
    <3> HIDE DEF Small
    <3> QED
      BY <1>6, <1>7
  <2>2. g = [s \in SUBSET S |-> Body(g, s)]
    BY <2>1
  <2>3. \E f : f = [s \in SUBSET S |-> Body(f, s)]
    BY <2>2
  <2> QED
    BY <2>3
<1>9. SumFunctionOnSet(fun, S) = iter[S]
  BY DEF SumFunctionOnSet, FoldFunctionOnSet, MapThenFoldSet
<1>10. ASSUME NEW s \in SUBSET S PROVE iter[s] = Body(iter, s)
  BY <1>8
<1> HIDE DEF iter, Some
<1> DEFINE T == {k \in Nat : \A s \in SUBSET S : Cardinality(s) = k => iter[s] \in Int}
<1>11. 0 \in T
  BY <1>1, <1>10
<1>12. ASSUME NEW k \in Nat, k \in T PROVE k + 1 \in T
  <2> SUFFICES ASSUME NEW s \in SUBSET S, Cardinality(s) = k + 1 PROVE iter[s] \in Int
    OBVIOUS
  <2>1. s # {}
    BY <1>1
  <2>2. /\ fun[Some(s)] \in Int /\ s \ {Some(s)} \in SUBSET S
        /\ Cardinality(s \ {Some(s)}) = k
    BY <1>2, <2>1
  <2>3. iter[s \ {Some(s)}] \in Int
    BY <1>12, <2>2
  <2>4. iter[s] = fun[Some(s)] + iter[s \ {Some(s)}]
    BY <1>10, <2>1
  <2> QED
    BY <2>2, <2>3, <2>4
<1>13. Cardinality(S) \in T
  <2>1. \A k \in Nat : k \in T => k + 1 \in T
    BY <1>12
  <2> HIDE DEF T
  <2> QED
    BY <1>5, <1>11, <2>1, AllNaturals
<1> QED
  BY <1>9, <1>13

\* The versions of a package that a constraint admits are those filtered.
LEMMA FilterKeeps ==
  ASSUME NEW S, NEW versions \in Seq(S), NEW constraint
  PROVE  /\ FilterVersions(versions, constraint) \in Seq(S)
         /\ \A v : v \in Range(FilterVersions(versions, constraint)) <=>
              v \in Range(versions) /\ (constraint.parses => v \in constraint.admits)
<1> DEFINE L == Len(versions)
           After(list, n) ==
             IF versions[n] \in constraint.admits THEN Append(list, versions[n]) ELSE list
           Loop(f, n) == IF n = 0 THEN << >> ELSE After(f[n - 1], n)
           Upto(k) == \E f : f = [n \in 0 .. k |-> Loop(f, n)]
           K == {k \in Nat : Upto(k)}
           kept[n \in 0 .. L] == IF n = 0 THEN << >> ELSE After(kept[n - 1], n)
<1>1. L \in Nat /\ DOMAIN versions = 1 .. L /\ \A n \in 1 .. L : versions[n] \in S
  OBVIOUS
<1>2. 0 \in K
  <2> DEFINE f == [n \in 0 .. 0 |-> << >>]
  <2>1. \A n \in 0 .. 0 : n = 0
    OBVIOUS
  <2>2. f = [n \in 0 .. 0 |-> Loop(f, n)]
    BY <2>1
  <2> QED
    BY <2>2
<1>3. ASSUME NEW k \in Nat, k \in K PROVE k + 1 \in K
  <2>1. PICK f : f = [n \in 0 .. k |-> Loop(f, n)]
    BY <1>3
  <2> DEFINE g == [n \in 0 .. k + 1 |-> IF n = k + 1 THEN After(f[k], n) ELSE f[n]]
  <2> HIDE DEF After
  <2>2. ASSUME NEW n \in 0 .. k + 1 PROVE g[n] = Loop(g, n)
    <3>1. CASE n = k + 1
      <4>1. n # 0 /\ n - 1 = k /\ k \in 0 .. k + 1 /\ k # k + 1
        BY <3>1
      <4>2. g[n - 1] = f[k] /\ g[n] = After(f[k], n)
        BY <3>1, <4>1
      <4> QED
        BY <4>1, <4>2
    <3>2. CASE n \in 1 .. k
      <4>1. n - 1 \in 0 .. k + 1 /\ n - 1 # k + 1 /\ n # k + 1 /\ n \in 0 .. k /\ n # 0
        BY <3>2
      <4>2. g[n - 1] = f[n - 1] /\ g[n] = f[n]
        BY <4>1
      <4>3. f[n] = Loop(f, n)
        BY <2>1, <4>1
      <4> QED
        BY <4>1, <4>2, <4>3
    <3>3. CASE n = 0
      <4>1. 0 \in 0 .. k /\ 0 # k + 1 /\ 0 \in 0 .. k + 1
        OBVIOUS
      <4>2. f[0] = << >>
        BY <2>1, <4>1
      <4> QED
        BY <3>3, <4>1, <4>2
    <3> QED
      BY <3>1, <3>2, <3>3
  <2>3. g = [n \in 0 .. k + 1 |-> Loop(g, n)]
    BY <2>2
  <2> HIDE DEF g, Loop
  <2>4. Upto(k + 1)
    BY <2>3
  <2> HIDE DEF Upto
  <2> QED
    BY <2>4
<1>4. Upto(L)
  <2>1. \A k \in Nat : k \in K => k + 1 \in K
    BY <1>3
  <2>2. L \in K
    <3> HIDE DEF K
    <3> QED
      BY <1>1, <1>2, <2>1, AllNaturals
  <2> HIDE DEF Upto
  <2> QED
    BY <2>2
<1>5. kept = [n \in 0 .. L |-> Loop(kept, n)]
  <2>1. \E f : f = [n \in 0 .. L |-> Loop(f, n)]
    BY <1>4
  <2> QED
    BY <2>1
<1>6. FilterVersions(versions, constraint) = IF constraint.parses THEN kept[L] ELSE versions
  BY DEF FilterVersions
<1>7. ASSUME NEW n \in 0 .. L PROVE kept[n] = Loop(kept, n)
  BY <1>5
<1> HIDE DEF kept
<1> DEFINE Right(list, n) ==
             /\ list \in Seq(S)
             /\ \A v : v \in Range(list) <=>
                  v \in constraint.admits /\ \E i \in 1 .. n : versions[i] = v
           R == {n \in Nat : n <= L => Right(kept[n], n)}
<1>8. 0 \in R
  <2>1. kept[0] = << >>
    BY <1>1, <1>7
  <2>2. << >> \in Seq(S) /\ Range(<< >>) = {} /\ 1 .. 0 = {}
    BY DEF Range
  <2> QED
    BY <2>1, <2>2
<1>9. ASSUME NEW n \in Nat, n \in R PROVE n + 1 \in R
  <2> SUFFICES ASSUME n + 1 <= L PROVE Right(kept[n + 1], n + 1)
    <3> HIDE DEF Right
    <3> QED
      OBVIOUS
  <2> DEFINE list == kept[n]
  <2>1. Right(list, n) /\ versions[n + 1] \in S
    <3>1. n <= L /\ n + 1 \in 1 .. L
      BY <1>1
    <3> HIDE DEF Right
    <3> QED
      BY <1>1, <1>9, <3>1
  <2>2. kept[n + 1] = After(list, n + 1)
    <3>1. n + 1 \in 0 .. L /\ n + 1 # 0 /\ n + 1 - 1 = n
      BY <1>1
    <3> QED
      BY <1>7, <3>1
  <2>3. \A v : (\E i \in 1 .. n + 1 : versions[i] = v)
                  <=> (\E i \in 1 .. n : versions[i] = v) \/ versions[n + 1] = v
    <3>1. 1 .. n + 1 = (1 .. n) \cup {n + 1}
      OBVIOUS
    <3> QED
      BY <3>1
  <2> HIDE DEF list
  <2>4. CASE versions[n + 1] \in constraint.admits
    <3>1. kept[n + 1] = Append(list, versions[n + 1])
      BY <2>2, <2>4
    <3>2. /\ Append(list, versions[n + 1]) \in Seq(S)
          /\ Len(Append(list, versions[n + 1])) = Len(list) + 1
          /\ \A i \in 1 .. Len(list) : Append(list, versions[n + 1])[i] = list[i]
          /\ Append(list, versions[n + 1])[Len(list) + 1] = versions[n + 1]
      BY <2>1, AppendProperties
    <3>3. \A v : v \in Range(Append(list, versions[n + 1]))
                   <=> v \in Range(list) \/ v = versions[n + 1]
      <4>1. Len(list) \in Nat /\ DOMAIN list = 1 .. Len(list)
        BY <2>1
      <4>2. DOMAIN Append(list, versions[n + 1]) = (1 .. Len(list)) \cup {Len(list) + 1}
        BY <3>2, <4>1
      <4> QED
        BY <3>2, <4>1, <4>2 DEF Range
    <3> QED
      BY <2>1, <2>3, <2>4, <3>1, <3>2, <3>3
  <2>5. CASE versions[n + 1] \notin constraint.admits
    BY <2>1, <2>2, <2>3, <2>5
  <2> QED
    BY <2>4, <2>5
<1>10. Right(kept[L], L)
  <2>1. \A n \in Nat : n \in R => n + 1 \in R
    BY <1>9
  <2>2. L \in R
    <3> HIDE DEF R
    <3> QED
      BY <1>1, <1>8, <2>1, AllNaturals
  <2> HIDE DEF Right
  <2> QED
    BY <1>1, <2>2
<1>11. \A v : v \in Range(versions) <=> \E i \in 1 .. L : versions[i] = v
  BY <1>1 DEF Range
<1> QED
  BY <1>6, <1>10, <1>11
-------------------------------------------------------------------------------
(* Requirements and the fields they fill in *)

\* An indirect requirement is told from a direct one by its fields.
LEMMA KindsApart ==
  /\ \A r \in Direct : ~IsIndirect(r)
  /\ \A r \in Indirect : IsIndirect(r)
<1>1. ASSUME NEW r \in Direct PROVE DOMAIN r = {"package", "constraint"}
  BY DEF Direct
<1>2. ASSUME NEW r \in Indirect PROVE DOMAIN r = {"package", "constraint", "parent", "serial"}
  BY DEF Indirect
<1> QED
  BY <1>1, <1>2 DEF IsIndirect

Requires == [package : Packages, groups : Seq(Int \X Int)]
Implies == [child : Packages, groups : Seq(Int \X Int), parent : Packages, serial : Serials]
Excludes == [child : Packages, parent : Packages, serial : Serials]
Impacts == [package : Packages, impact : Reals, version : Serials \cup {Absent}]
Filters == UNION {[D -> Seq(Serials)] : D \in SUBSET Packages}

Models ==
  [directs : SUBSET {Quoted(p) : p \in Packages},
   filtered : Filters, required : SUBSET Requires,
   childs : SUBSET Implies, parents : SUBSET Excludes, ctcs : SUBSET Impacts,
   impacts : SUBSET Packages, indirectVars : SUBSET Packages]

SourceInv == source \in Graphs /\ todo \subseteq Requirements

\* What a graph is made of.
LEMMA SourceParts ==
  ASSUME SourceInv
  PROVE  /\ source.have \in [Packages -> Seq(Serials)]
         /\ source.impact \in [Packages -> [Serials -> Reals \cup {None}]]
         /\ source.direct \subseteq Direct
         /\ source.indirect \subseteq {r \in Indirect : r.package # r.parent}
BY GraphsAssumption DEF SourceInv

\* What a requirement of the graph, and its candidates, are made of.
LEMMA RequirementParts ==
  ASSUME SourceInv, NEW r \in Requirements
  PROVE  /\ r.package \in Packages /\ r.constraint \in Constraint
         /\ Candidates(r) \in Seq(Serials) /\ Candidates(r) \in Seq(Int)
         /\ r \in source.direct <=> ~IsIndirect(r)
         /\ r \in source.indirect <=> IsIndirect(r)
         /\ IsIndirect(r) =>
              r \in Indirect /\ r.package # r.parent /\ r.parent \in Packages /\ r.serial \in Serials
<1>1. /\ source.have \in [Packages -> Seq(Serials)]
      /\ source.direct \subseteq Direct
      /\ source.indirect \subseteq {q \in Indirect : q.package # q.parent}
  BY SourceParts
<1>2. r \in Direct \/ r \in Indirect
  BY <1>1 DEF Requirements
<1>3. r.package \in Packages /\ r.constraint \in Constraint
  BY <1>2 DEF Direct, Indirect
<1>4. source.have[r.package] \in Seq(Serials)
  BY <1>1, <1>3
<1>5. Candidates(r) \in Seq(Serials)
  BY <1>4, FilterKeeps DEF Candidates
<1>6. Candidates(r) \in Seq(Int)
  BY <1>5, SerialsAssumption DEF Serials
<1>7. /\ r \in source.direct <=> ~IsIndirect(r)
      /\ r \in source.indirect <=> IsIndirect(r)
  BY <1>1, KindsApart DEF Requirements
<1>8. ASSUME IsIndirect(r)
      PROVE  r \in Indirect /\ r.package # r.parent /\ r.parent \in Packages /\ r.serial \in Serials
  <2>1. r \in Indirect /\ r.package # r.parent
    BY <1>1, <1>7, <1>8
  <2> QED
    BY <2>1 DEF Indirect
<1> QED
  BY <1>3, <1>5, <1>6, <1>7, <1>8

\* The impact a solution is to have for a package at a version.
ImpactAt(p, v) == IF v = Absent THEN 0 ELSE Impact(p, v)
ImpactEntry(p, v) == [package |-> p, impact |-> ImpactAt(p, v), version |-> v]
ImpactEntries(r) == {ImpactEntry(r.package, v) : v \in Range(Candidates(r))}

ChildEntry(r) ==
  [child |-> r.package, groups |-> GroupVersions(Candidates(r), -1),
   parent |-> r.parent, serial |-> r.serial]
ParentEntry(r) == [child |-> r.package, parent |-> r.parent, serial |-> r.serial]

\* The entry of an impact is one, null impacts being taken for 0.
LEMMA ImpactEntryType ==
  ASSUME SourceInv, NEW p \in Packages, NEW v \in Serials \cup {Absent}
  PROVE  ImpactAt(p, v) \in Reals /\ ImpactEntry(p, v) \in Impacts
<1>1. ImpactAt(p, v) \in Reals
  <2>1. CASE v = Absent
    BY <2>1, RealsAssumption DEF ImpactAt
  <2>2. CASE v \in Serials /\ v # Absent
    <3>1. source.impact[p][v] \in Reals \cup {None}
      BY <2>2, SourceParts
    <3> QED
      BY <2>2, <3>1, RealsAssumption DEF ImpactAt, Impact
  <2> QED
    BY <2>1, <2>2
<1> QED
  BY <1>1 DEF ImpactEntry, Impacts

\* Absent is no serial number, and there are finitely many of these.
LEMMA SerialsAreNot ==
  /\ Absent \notin Serials /\ Serials \subseteq Int /\ Absent \in Int
  /\ IsFiniteSet(Serials)
BY SerialsAssumption, FS_Interval DEF Serials, Absent

\* What the entries of a requirement's versions are in the code.
LEMMA ImpactEntriesOf ==
  ASSUME SourceInv, NEW r \in Requirements
  PROVE  ImpactEntries(r) =
           {[package |-> r.package, impact |-> Impact(r.package, v), version |-> v]
              : v \in Range(Candidates(r))}
<1>1. \A v \in Range(Candidates(r)) : v \in Serials
  BY RequirementParts DEF Range
<1>2. \A v \in Range(Candidates(r)) :
        ImpactEntry(r.package, v)
          = [package |-> r.package, impact |-> Impact(r.package, v), version |-> v]
  BY <1>1, SerialsAreNot DEF ImpactEntry, ImpactAt
<1> QED
  BY <1>2 DEF ImpactEntries

\* The fields after a direct requirement.
LEMMA DirectFields ==
  ASSUME SourceInv, model \in Models, NEW r \in todo, TransformDirectPackage(r)
  PROVE  /\ r \in Requirements /\ r \in source.direct
         /\ model'.directs = model.directs \cup {Quoted(r.package)}
         /\ model'.filtered = [p \in DOMAIN model.filtered \cup {r.package} |->
              IF p = r.package THEN Candidates(r) ELSE model.filtered[p]]
         /\ model'.required =
              model.required \cup {DirectConstraint(r.package, Candidates(r))}
         /\ model'.childs = model.childs /\ model'.parents = model.parents
         /\ model'.ctcs = model.ctcs \cup ImpactEntries(r)
         /\ model'.impacts = model.impacts \cup {r.package}
         /\ model'.indirectVars = model.indirectVars
         /\ DOMAIN model' = DOMAIN model
         /\ model' = [f \in DOMAIN model' |-> model'[f]]
<1> DEFINE versions == Candidates(r)
           with == [model EXCEPT
                     !.directs = @ \cup {Quoted(r.package)},
                     !.required = @ \cup {DirectConstraint(r.package, versions)}]
           filtered == Filtered(with, r, versions)
<1>1. /\ ~IsIndirect(r) /\ r \in Requirements
      /\ model' = TransformVersions(filtered, r, versions)
  BY DEF TransformDirectPackage, SourceInv
<1>2. DOMAIN model = {"directs", "filtered", "required", "childs", "parents", "ctcs", "impacts", "indirectVars"}
      /\ model = [f \in DOMAIN model |-> model[f]]
  BY DEF Models
<1> HIDE DEF versions
<1>3. /\ with.directs = model.directs \cup {Quoted(r.package)}
      /\ with.required = model.required \cup {DirectConstraint(r.package, versions)}
      /\ with.filtered = model.filtered /\ with.childs = model.childs
      /\ with.parents = model.parents /\ with.ctcs = model.ctcs
      /\ with.impacts = model.impacts /\ with.indirectVars = model.indirectVars
      /\ DOMAIN with = DOMAIN model
  BY <1>2
<1> HIDE DEF with
<1>4. /\ filtered.filtered = [p \in DOMAIN model.filtered \cup {r.package} |->
           IF p = r.package THEN versions ELSE model.filtered[p]]
      /\ filtered.directs = with.directs /\ filtered.required = with.required
      /\ filtered.childs = with.childs /\ filtered.parents = with.parents
      /\ filtered.ctcs = with.ctcs
      /\ filtered.impacts = with.impacts /\ filtered.indirectVars = with.indirectVars
      /\ DOMAIN filtered = DOMAIN model
  BY <1>2, <1>3 DEF Filtered
<1> HIDE DEF filtered
<1>5. ImpactBase(filtered, r, versions) = {}
  BY <1>1 DEF ImpactBase
<1>6. model' = [filtered EXCEPT
                  !.impacts = @ \cup {r.package},
                  !.indirectVars = @,
                  !.ctcs = @ \cup ImpactEntries(r)]
  BY <1>1, <1>2, <1>4, <1>5, ImpactEntriesOf DEF TransformVersions, versions
<1>7. /\ model'.directs = filtered.directs /\ model'.filtered = filtered.filtered
      /\ model'.required = filtered.required /\ model'.childs = filtered.childs
      /\ model'.parents = filtered.parents
      /\ model'.ctcs = filtered.ctcs \cup ImpactEntries(r)
      /\ model'.impacts = filtered.impacts \cup {r.package}
      /\ model'.indirectVars = filtered.indirectVars
      /\ DOMAIN model' = DOMAIN model
      /\ model' = [f \in DOMAIN model' |-> model'[f]]
  BY <1>2, <1>4, <1>6
<1>8. r \in source.direct
  BY <1>1, RequirementParts
<1> QED
  BY <1>1, <1>3, <1>4, <1>7, <1>8 DEF versions

\* A variable is no quoted one, whatever the package.
LEMMA NotQuoted == \A p : \A q : Key(p) # Quoted(q)
BY DEF Key, Quoted, Name, Purl

\* The fields after an indirect requirement, which counts when the package
\* it belongs to has its version.
LEMMA IndirectFields ==
  ASSUME SourceInv, model \in Models, NEW r \in todo, TransformIndirectPackage(r)
  PROVE  /\ r \in Requirements /\ r \in source.indirect
         /\ \A q \in todo : q \in source.indirect /\ q.serial <= r.serial
         /\ model'.directs = model.directs /\ model'.required = model.required
         /\ model'.filtered = [p \in DOMAIN model.filtered \cup {r.package} |->
              IF p = r.package THEN Candidates(r) ELSE model.filtered[p]]
         /\ DOMAIN model' = DOMAIN model
         /\ model' = [f \in DOMAIN model' |-> model'[f]]
         /\ InFiltered(model, r) =>
              /\ model'.childs = IF Unsatisfiable(r) THEN model.childs
                                 ELSE model.childs \cup {ChildEntry(r)}
              /\ model'.parents = IF Unsatisfiable(r) THEN model.parents
                                  ELSE model.parents \cup {ParentEntry(r)}
              /\ model'.ctcs = model.ctcs \cup ImpactBase(model, r, Candidates(r))
                                 \cup ImpactEntries(r)
              /\ model'.impacts = model.impacts \cup {r.package}
              /\ model'.indirectVars = model.indirectVars \cup {r.package, r.parent}
         /\ ~InFiltered(model, r) =>
              /\ model'.childs = model.childs /\ model'.parents = model.parents
              /\ model'.ctcs = model.ctcs /\ model'.impacts = model.impacts
              /\ model'.indirectVars = model.indirectVars
<1> DEFINE versions == Candidates(r)
           with == AppendIndirectConstraint(model, r, versions)
           filtered == Filtered(with, r, versions)
<1>1. /\ IsIndirect(r) /\ r \in Requirements
      /\ \A q \in todo : IsIndirect(q) /\ q.serial <= r.serial
      /\ model' = TransformVersions(filtered, r, versions)
  BY DEF TransformIndirectPackage, SourceInv
<1>2. DOMAIN model = {"directs", "filtered", "required", "childs", "parents", "ctcs", "impacts", "indirectVars"}
      /\ model = [f \in DOMAIN model |-> model[f]]
  BY DEF Models
<1>3. r \in source.indirect /\ r.package # r.parent
      /\ \A q \in todo : q \in source.indirect /\ q.serial <= r.serial
  BY <1>1, RequirementParts DEF SourceInv
<1>4. (versions = << >>) <=> Unsatisfiable(r)
  BY DEF Unsatisfiable
<1> HIDE DEF versions
<1>5. /\ with.directs = model.directs /\ with.required = model.required
      /\ with.filtered = model.filtered /\ with.ctcs = model.ctcs
      /\ with.impacts = model.impacts /\ with.indirectVars = model.indirectVars
      /\ DOMAIN with = DOMAIN model
      /\ InFiltered(model, r) =>
           /\ with.childs = IF Unsatisfiable(r) THEN model.childs
                            ELSE model.childs \cup {ChildEntry(r)}
           /\ with.parents = IF Unsatisfiable(r) THEN model.parents
                             ELSE model.parents \cup {ParentEntry(r)}
      /\ ~InFiltered(model, r) =>
           with.childs = model.childs /\ with.parents = model.parents
  <2>0. Key(r.package) \notin model.directs
    BY NotQuoted DEF Models
  <2>1. CASE versions # << >> /\ InFiltered(model, r)
    <3>1. with = [model EXCEPT
             !.childs = @ \cup
               {[child |-> r.package, groups |-> GroupVersions(versions, -1),
                 parent |-> r.parent, serial |-> r.serial]},
             !.parents = @ \cup
               {[child |-> r.package, parent |-> r.parent, serial |-> r.serial]}]
      BY <2>1, <2>0 DEF AppendIndirectConstraint
    <3>2. [child |-> r.package, groups |-> GroupVersions(versions, -1),
           parent |-> r.parent, serial |-> r.serial] = ChildEntry(r)
          /\ [child |-> r.package, parent |-> r.parent, serial |-> r.serial] = ParentEntry(r)
      BY DEF ChildEntry, ParentEntry, versions
    <3> HIDE DEF with
    <3>3. with = [model EXCEPT
             !.childs = @ \cup {ChildEntry(r)},
             !.parents = @ \cup {ParentEntry(r)}]
      BY <3>1, <3>2
    <3> QED
      BY <1>2, <1>4, <2>1, <3>3
  <2>2. CASE ~(versions # << >> /\ InFiltered(model, r))
    <3>1. with = model
      BY <2>2 DEF AppendIndirectConstraint
    <3> HIDE DEF with
    <3> QED
      BY <1>4, <2>2, <3>1
  <2> QED
    BY <2>1, <2>2
<1> HIDE DEF with
<1>6. /\ filtered.filtered = [p \in DOMAIN model.filtered \cup {r.package} |->
           IF p = r.package THEN versions ELSE model.filtered[p]]
      /\ filtered.directs = with.directs /\ filtered.required = with.required
      /\ filtered.childs = with.childs /\ filtered.parents = with.parents
      /\ filtered.ctcs = with.ctcs
      /\ filtered.impacts = with.impacts /\ filtered.indirectVars = with.indirectVars
      /\ DOMAIN filtered = DOMAIN model
      /\ filtered = [f \in DOMAIN filtered |-> filtered[f]]
  BY <1>2, <1>5 DEF Filtered
<1> HIDE DEF filtered
<1>7. InFiltered(filtered, r) <=> InFiltered(model, r)
  BY <1>3, <1>6 DEF InFiltered
<1>8. ImpactBase(filtered, r, versions) = ImpactBase(model, r, versions)
  BY <1>5, <1>6 DEF ImpactBase
<1>9. CASE InFiltered(model, r)
  <2>1. model' = [filtered EXCEPT
                    !.impacts = @ \cup {r.package},
                    !.indirectVars = @ \cup {r.package, r.parent},
                    !.ctcs = @ \cup ImpactBase(model, r, versions) \cup ImpactEntries(r)]
    BY <1>1, <1>7, <1>8, <1>9, ImpactEntriesOf DEF TransformVersions, versions
  <2>2. /\ model'.directs = filtered.directs /\ model'.filtered = filtered.filtered
        /\ model'.required = filtered.required /\ model'.childs = filtered.childs
        /\ model'.parents = filtered.parents
        /\ model'.ctcs = filtered.ctcs \cup ImpactBase(model, r, versions)
                           \cup ImpactEntries(r)
        /\ model'.impacts = filtered.impacts \cup {r.package}
        /\ model'.indirectVars = filtered.indirectVars \cup {r.package, r.parent}
        /\ DOMAIN model' = DOMAIN model
        /\ model' = [f \in DOMAIN model' |-> model'[f]]
    BY <1>2, <1>6, <2>1
  <2> QED
    BY <1>1, <1>3, <1>5, <1>6, <1>9, <2>2 DEF versions
<1>10. CASE ~InFiltered(model, r)
  <2>1. model' = filtered
    BY <1>1, <1>7, <1>10 DEF TransformVersions
  <2> QED
    BY <1>1, <1>3, <1>5, <1>6, <1>10, <2>1 DEF versions
<1> QED
  BY <1>9, <1>10
-------------------------------------------------------------------------------
(* What transform keeps *)

Read == Requirements \ todo
DirectPackages == {d.package : d \in source.direct}

DirectsInv ==
  /\ model.required =
       {DirectConstraint(r.package, Candidates(r)) : r \in Read \cap source.direct}
  /\ \A r \in Read \cap source.direct : ImpactEntries(r) \subseteq model.ctcs

FilteredInv ==
  /\ \A r \in Read : r.package \in DOMAIN model.filtered
  /\ \A p \in DOMAIN model.filtered : \E r \in Read :
       r.package = p /\ model.filtered[p] = Candidates(r)

ChildsInv ==
  \A e \in model.childs : \E r \in Read \cap source.indirect : e = ChildEntry(r)

ParentsInv ==
  \A x \in model.parents : \E r \in Read \cap source.indirect :
    /\ x = ParentEntry(r) /\ ~Unsatisfiable(r) /\ ChildEntry(r) \in model.childs
    /\ ImpactEntries(r) \subseteq model.ctcs

SettledInv ==
  \A r \in Read \cap source.indirect :
    Settled(r) /\ ~Unsatisfiable(r) =>
      ChildEntry(r) \in model.childs /\ ParentEntry(r) \in model.parents

ImpactsInv ==
  /\ \A k \in model.ctcs :
       /\ k = ImpactEntry(k.package, k.version) /\ k.package \in model.impacts
       /\ k.package \notin DirectPackages => ImpactEntry(k.package, Absent) \in model.ctcs
  /\ \A p \in model.impacts :
       \/ p \in DirectPackages \/ \E x \in model.parents : x.child = p
       \/ \E r \in Requirements : r.package = p /\ Unsatisfiable(r)

TransformTypes == SourceInv /\ model \in Models /\ IsFiniteSet(model.impacts)

TransformInv ==
  /\ TransformTypes /\ DirectsInv /\ FilteredInv /\ ChildsInv /\ ParentsInv
  /\ SettledInv /\ ImpactsInv

\* What only depends on the graph stays while the graph does.
LEMMA SourceFrame ==
  ASSUME source' = source
  PROVE  /\ Requirements' = Requirements /\ DirectPackages' = DirectPackages
         /\ \A r : Candidates(r)' = Candidates(r)
         /\ \A r : Unsatisfiable(r)' = Unsatisfiable(r)
         /\ \A r : Settled(r)' = Settled(r)
         /\ \A r : ChildEntry(r)' = ChildEntry(r)
         /\ \A r : ParentEntry(r)' = ParentEntry(r)
         /\ \A r : ImpactEntries(r)' = ImpactEntries(r)
         /\ \A p, v : ImpactEntry(p, v)' = ImpactEntry(p, v)
<1>1. Requirements' = Requirements /\ DirectPackages' = DirectPackages
  BY DEF Requirements, DirectPackages
<1>2. \A r : Candidates(r)' = Candidates(r)
  BY DEF Candidates
<1>3. \A r : Unsatisfiable(r)' = Unsatisfiable(r)
  BY <1>2 DEF Unsatisfiable
<1>4. \A r : ChildEntry(r)' = ChildEntry(r) /\ ParentEntry(r)' = ParentEntry(r)
  BY <1>2 DEF ChildEntry, ParentEntry
<1>5. \A p, v : ImpactEntry(p, v)' = ImpactEntry(p, v)
  BY DEF ImpactEntry, ImpactAt, Impact
<1>6. \A r : ImpactEntries(r)' = ImpactEntries(r)
  BY <1>2, <1>5 DEF ImpactEntries
<1>7. \A r : Settled(r)' = Settled(r)
  BY <1>1, <1>2 DEF Settled, Fits
<1> QED
  BY <1>1, <1>2, <1>3, <1>4, <1>5, <1>6, <1>7

\* The entries of a requirement are entries of the fields.
LEMMA EntryTypes ==
  ASSUME SourceInv, NEW r \in Requirements
  PROVE  /\ ImpactEntries(r) \subseteq Impacts
         /\ IsIndirect(r) => ChildEntry(r) \in Implies /\ ParentEntry(r) \in Excludes
<1>1. r.package \in Packages /\ Candidates(r) \in Seq(Serials) /\ Candidates(r) \in Seq(Int)
  BY RequirementParts
<1>2. \A v \in Range(Candidates(r)) : v \in Serials
  BY <1>1 DEF Range
<1>3. ImpactEntries(r) \subseteq Impacts
  BY <1>1, <1>2, ImpactEntryType DEF ImpactEntries
<1>4. GroupVersions(Candidates(r), -1) \in Seq(Int \X Int)
  BY <1>1, GroupsMean
<1>5. ASSUME IsIndirect(r) PROVE ChildEntry(r) \in Implies /\ ParentEntry(r) \in Excludes
  <2>1. r.parent \in Packages /\ r.serial \in Serials
    BY <1>5, RequirementParts
  <2> QED
    BY <1>1, <1>4, <2>1 DEF ChildEntry, ParentEntry, Implies, Excludes
<1> QED
  BY <1>3, <1>5

\* One requirement more has been read.
LEMMA ReadStep ==
  ASSUME SourceInv, NEW r \in todo, source' = source, todo' = todo \ {r}
  PROVE  /\ Read' = Read \cup {r} /\ r \notin Read /\ Read \subseteq Requirements
         /\ SourceInv'
BY SourceFrame DEF Read, SourceInv

\* The lists that were filtered, with one more.
LEMMA FilteredStep ==
  ASSUME SourceInv, model \in Models, FilteredInv, NEW r \in todo,
         source' = source, todo' = todo \ {r},
         model'.filtered = [p \in DOMAIN model.filtered \cup {r.package} |->
              IF p = r.package THEN Candidates(r) ELSE model.filtered[p]]
  PROVE  FilteredInv' /\ model'.filtered \in Filters
<1>1. Read' = Read \cup {r} /\ \A q : Candidates(q)' = Candidates(q)
  BY ReadStep, SourceFrame
<1>2. FilteredInv'
  BY <1>1 DEF FilteredInv
<1>3. PICK D \in SUBSET Packages : model.filtered \in [D -> Seq(Serials)]
  BY DEF Models, Filters
<1>4. r.package \in Packages /\ Candidates(r) \in Seq(Serials)
  BY RequirementParts DEF SourceInv
<1>5. model'.filtered \in [D \cup {r.package} -> Seq(Serials)]
  BY <1>3, <1>4
<1> QED
  BY <1>2, <1>4, <1>5 DEF Filters

\* The constraint of a direct requirement is one.
LEMMA DirectConstraintType ==
  ASSUME SourceInv, NEW r \in Requirements
  PROVE  DirectConstraint(r.package, Candidates(r)) \in Requires
<1>1. r.package \in Packages /\ Candidates(r) \in Seq(Int)
  BY RequirementParts
<1>2. GroupVersions(Candidates(r), -1) \in Seq(Int \X Int)
  BY <1>1, GroupsMean
<1>3. << <<Absent, Absent>> >> \in Seq(Int \X Int)
  BY DEF Absent
<1> QED
  BY <1>1, <1>2, <1>3 DEF DirectConstraint, Requires

\* A step of transform leaves the fields of the model typed.
LEMMA ModelType ==
  ASSUME NEW m, m \in Models, NEW n, DOMAIN n = DOMAIN m,
         n = [f \in DOMAIN n |-> n[f]],
         n.directs \subseteq {Quoted(p) : p \in Packages}, n.filtered \in Filters,
         n.required \subseteq Requires, n.childs \subseteq Implies,
         n.parents \subseteq Excludes, n.ctcs \subseteq Impacts,
         n.impacts \subseteq Packages, n.indirectVars \subseteq Packages
  PROVE  n \in Models
BY DEF Models

\* A direct requirement keeps the invariant of transform.
LEMMA DirectStep ==
  ASSUME TransformInv, NEW r \in todo, TransformDirectPackage(r)
  PROVE  TransformInv'
<1> USE DEF TransformInv, TransformTypes
<1>1. source' = source /\ todo' = todo \ {r}
  BY DEF TransformDirectPackage
<1>2. Read' = Read \cup {r} /\ Read \subseteq Requirements /\ SourceInv'
  BY <1>1, ReadStep
<1>3. /\ r \in Requirements /\ r \in source.direct
      /\ model'.directs = model.directs \cup {Quoted(r.package)}
      /\ model'.filtered = [p \in DOMAIN model.filtered \cup {r.package} |->
           IF p = r.package THEN Candidates(r) ELSE model.filtered[p]]
      /\ model'.required =
           model.required \cup {DirectConstraint(r.package, Candidates(r))}
      /\ model'.childs = model.childs /\ model'.parents = model.parents
      /\ model'.ctcs = model.ctcs \cup ImpactEntries(r)
      /\ model'.impacts = model.impacts \cup {r.package}
      /\ model'.indirectVars = model.indirectVars
      /\ DOMAIN model' = DOMAIN model
      /\ model' = [f \in DOMAIN model' |-> model'[f]]
  BY DirectFields
<1>4. FilteredInv' /\ model'.filtered \in Filters
  BY <1>1, <1>3, FilteredStep
<1>5. r.package \in Packages /\ r \notin source.indirect
  BY <1>3, RequirementParts
<1>6. model' \in Models
  <2>1. /\ model.directs \subseteq {Quoted(p) : p \in Packages}
        /\ model.required \subseteq Requires
        /\ model.childs \subseteq Implies /\ model.parents \subseteq Excludes
        /\ model.ctcs \subseteq Impacts /\ model.impacts \subseteq Packages
        /\ model.indirectVars \subseteq Packages
    BY DEF Models
  <2>2. ImpactEntries(r) \subseteq Impacts
        /\ DirectConstraint(r.package, Candidates(r)) \in Requires
    BY <1>3, EntryTypes, DirectConstraintType
  <2> QED
    BY <1>3, <1>4, <1>5, <2>1, <2>2, ModelType
<1>7. IsFiniteSet(model'.impacts)
  BY <1>3, FS_AddElement
<1>8. DirectsInv'
  <2>1. Read' \cap source'.direct = (Read \cap source.direct) \cup {r}
    BY <1>1, <1>2, <1>3
  <2>2. \A q : Candidates(q)' = Candidates(q) /\ ImpactEntries(q)' = ImpactEntries(q)
    BY <1>1, SourceFrame
  <2> QED
    BY <1>3, <2>1, <2>2 DEF DirectsInv
<1>9. Read' \cap source'.indirect = Read \cap source.indirect
  BY <1>1, <1>2, <1>5
<1>10. /\ DirectPackages' = DirectPackages /\ Requirements' = Requirements
       /\ \A q : Unsatisfiable(q)' = Unsatisfiable(q) /\ Settled(q)' = Settled(q)
       /\ \A q : ChildEntry(q)' = ChildEntry(q) /\ ParentEntry(q)' = ParentEntry(q)
       /\ \A q : ImpactEntries(q)' = ImpactEntries(q)
       /\ \A p, v : ImpactEntry(p, v)' = ImpactEntry(p, v)
  BY <1>1, SourceFrame
<1>11. ChildsInv'
  BY <1>3, <1>9, <1>10 DEF ChildsInv
<1>12. ParentsInv'
  BY <1>3, <1>9, <1>10 DEF ParentsInv
<1>13. SettledInv'
  BY <1>3, <1>9, <1>10 DEF SettledInv
<1>14. ImpactsInv'
  <2>1. r.package \in DirectPackages
    BY <1>3 DEF DirectPackages
  <2>2. \A e \in ImpactEntries(r) :
          e = ImpactEntry(e.package, e.version) /\ e.package = r.package
    BY DEF ImpactEntries, ImpactEntry
  <2>3. \A e \in model'.ctcs :
          /\ e = ImpactEntry(e.package, e.version) /\ e.package \in model'.impacts
          /\ e.package \notin DirectPackages => ImpactEntry(e.package, Absent) \in model'.ctcs
    BY <1>3, <2>1, <2>2 DEF ImpactsInv
  <2>4. \A p \in model'.impacts :
          \/ p \in DirectPackages \/ \E x \in model'.parents : x.child = p
          \/ \E q \in Requirements : q.package = p /\ Unsatisfiable(q)
    BY <1>3, <2>1 DEF ImpactsInv
  <2> QED
    BY <1>10, <2>3, <2>4 DEF ImpactsInv
<1> QED
  BY <1>2, <1>4, <1>6, <1>7, <1>8, <1>11, <1>12, <1>13, <1>14

\* A requirement on a settled version finds it among those filtered.
LEMMA SettledReached ==
  ASSUME TransformInv, NEW r \in todo, IsIndirect(r), Settled(r),
         \A q \in todo : q \in source.indirect /\ q.serial <= r.serial
  PROVE  InFiltered(model, r)
<1> USE DEF TransformInv, TransformTypes
<1>1. r \in Requirements /\ r.serial \in Serials
  BY RequirementParts DEF SourceInv
<1>2. ASSUME NEW q \in Requirements, q.package = r.parent
      PROVE  q \in Read /\ Fits(q, r.serial)
  <2>1. Fits(q, r.serial) /\ (IsIndirect(q) => q.serial > r.serial)
    BY <1>2 DEF Settled
  <2>2. q \notin todo
    <3> SUFFICES ASSUME q \in todo PROVE FALSE
      OBVIOUS
    <3>1. q \in source.indirect /\ q.serial <= r.serial
      OBVIOUS
    <3>2. IsIndirect(q) /\ q.serial \in Serials
      BY <3>1, RequirementParts
    <3>3. q.serial \in Int /\ r.serial \in Int
      BY <1>1, <3>2, SerialsAreNot
    <3> QED
      BY <2>1, <3>1, <3>2, <3>3
  <2> QED
    BY <2>1, <2>2 DEF Read
<1>3. PICK q \in Requirements : q.package = r.parent
  BY DEF Settled
<1>4. r.parent \in DOMAIN model.filtered
  BY <1>2, <1>3 DEF FilteredInv
<1>5. PICK p \in Read : p.package = r.parent /\ model.filtered[r.parent] = Candidates(p)
  BY <1>4 DEF FilteredInv
<1>6. Fits(p, r.serial)
  BY <1>2, <1>5 DEF Read
<1> QED
  BY <1>4, <1>5, <1>6 DEF InFiltered, Fits

\* So does an indirect requirement.
LEMMA IndirectStep ==
  ASSUME TransformInv, NEW r \in todo, TransformIndirectPackage(r)
  PROVE  TransformInv'
<1> USE DEF TransformInv, TransformTypes
<1>1. source' = source /\ todo' = todo \ {r}
  BY DEF TransformIndirectPackage
<1>2. Read' = Read \cup {r} /\ Read \subseteq Requirements /\ r \notin Read /\ SourceInv'
  BY <1>1, ReadStep
<1> DEFINE reached == InFiltered(model, r)
           base == ImpactBase(model, r, Candidates(r))
<1>3. /\ r \in Requirements /\ r \in source.indirect
      /\ \A q \in todo : q \in source.indirect /\ q.serial <= r.serial
      /\ model'.directs = model.directs /\ model'.required = model.required
      /\ model'.filtered = [p \in DOMAIN model.filtered \cup {r.package} |->
           IF p = r.package THEN Candidates(r) ELSE model.filtered[p]]
      /\ DOMAIN model' = DOMAIN model
      /\ model' = [f \in DOMAIN model' |-> model'[f]]
  BY IndirectFields
<1>4. reached =>
        /\ model'.childs = IF Unsatisfiable(r) THEN model.childs
                           ELSE model.childs \cup {ChildEntry(r)}
        /\ model'.parents = IF Unsatisfiable(r) THEN model.parents
                            ELSE model.parents \cup {ParentEntry(r)}
        /\ model'.ctcs = model.ctcs \cup base \cup ImpactEntries(r)
        /\ model'.impacts = model.impacts \cup {r.package}
        /\ model'.indirectVars = model.indirectVars \cup {r.package, r.parent}
  BY IndirectFields
<1>5. ~reached =>
        /\ model'.childs = model.childs /\ model'.parents = model.parents
        /\ model'.ctcs = model.ctcs /\ model'.impacts = model.impacts
        /\ model'.indirectVars = model.indirectVars
  BY IndirectFields
<1>6. FilteredInv' /\ model'.filtered \in Filters
  BY <1>1, <1>3, FilteredStep
<1>7. r.package \in Packages /\ r.parent \in Packages /\ r \notin source.direct /\ IsIndirect(r)
  BY <1>3, RequirementParts
<1>8. base \subseteq {ImpactEntry(r.package, Absent)}
      /\ ImpactEntry(r.package, Absent) \in Impacts
      /\ ImpactEntry(r.package, Absent).package = r.package
      /\ ImpactEntry(r.package, Absent).version = Absent
      /\ (~Unsatisfiable(r) /\ (\A e \in model.ctcs : e.package # r.package)
            => base = {ImpactEntry(r.package, Absent)})
  <2>1. ImpactEntry(r.package, Absent) = [package |-> r.package, impact |-> 0, version |-> Absent]
    BY DEF ImpactEntry, ImpactAt
  <2>2. ImpactEntry(r.package, Absent) \in Impacts
    BY <1>2, <1>7, ImpactEntryType
  <2> QED
    BY <1>7, <2>1, <2>2 DEF ImpactBase, Unsatisfiable
<1> HIDE DEF reached, base
<1>9. model' \in Models
  <2>1. /\ model.directs \subseteq {Quoted(p) : p \in Packages}
        /\ model.required \subseteq Requires
        /\ model.childs \subseteq Implies /\ model.parents \subseteq Excludes
        /\ model.ctcs \subseteq Impacts /\ model.impacts \subseteq Packages
        /\ model.indirectVars \subseteq Packages
    BY DEF Models
  <2>2. ImpactEntries(r) \subseteq Impacts /\ ChildEntry(r) \in Implies
        /\ ParentEntry(r) \in Excludes /\ base \subseteq Impacts
    BY <1>3, <1>7, <1>8, EntryTypes
  <2>3. /\ model'.childs \subseteq Implies /\ model'.parents \subseteq Excludes
        /\ model'.ctcs \subseteq Impacts /\ model'.impacts \subseteq Packages
        /\ model'.indirectVars \subseteq Packages
    BY <1>4, <1>5, <1>7, <2>1, <2>2
  <2> QED
    BY <1>3, <1>6, <2>1, <2>3, ModelType
<1>10. IsFiniteSet(model'.impacts)
  BY <1>4, <1>5, FS_AddElement
<1>11. /\ DirectPackages' = DirectPackages /\ Requirements' = Requirements
       /\ \A q : Candidates(q)' = Candidates(q)
       /\ \A q : Unsatisfiable(q)' = Unsatisfiable(q) /\ Settled(q)' = Settled(q)
       /\ \A q : ChildEntry(q)' = ChildEntry(q) /\ ParentEntry(q)' = ParentEntry(q)
       /\ \A q : ImpactEntries(q)' = ImpactEntries(q)
       /\ \A p, v : ImpactEntry(p, v)' = ImpactEntry(p, v)
  BY <1>1, SourceFrame
<1>12. /\ model.childs \subseteq model'.childs /\ model.parents \subseteq model'.parents
       /\ model.ctcs \subseteq model'.ctcs /\ model.impacts \subseteq model'.impacts
  BY <1>4, <1>5
<1>13. DirectsInv'
  <2>1. Read' \cap source'.direct = Read \cap source.direct
    BY <1>1, <1>2, <1>7
  <2> QED
    BY <1>3, <1>11, <1>12, <2>1 DEF DirectsInv
<1>14. Read' \cap source'.indirect = (Read \cap source.indirect) \cup {r}
  BY <1>1, <1>2, <1>3
<1>15. ChildsInv'
  <2>1. \A e \in model'.childs : e \in model.childs \/ e = ChildEntry(r)
    BY <1>4, <1>5
  <2> QED
    BY <1>11, <1>14, <2>1 DEF ChildsInv
<1>16. ParentsInv'
  <2>1. \A x \in model'.parents : x \in model.parents \/
          /\ x = ParentEntry(r) /\ ~Unsatisfiable(r)
          /\ ChildEntry(r) \in model'.childs /\ ImpactEntries(r) \subseteq model'.ctcs
    BY <1>4, <1>5
  <2>2. \A x \in model.parents : \E q \in Read \cap source.indirect :
          /\ x = ParentEntry(q)
          /\ ~Unsatisfiable(q) /\ ChildEntry(q) \in model'.childs
          /\ ImpactEntries(q) \subseteq model'.ctcs
    BY <1>12 DEF ParentsInv
  <2> QED
    BY <1>11, <1>14, <2>1, <2>2 DEF ParentsInv
<1>17. SettledInv'
  <2>1. Settled(r) => reached
    BY <1>3, <1>7, SettledReached DEF reached
  <2>2. Settled(r) /\ ~Unsatisfiable(r) =>
          ChildEntry(r) \in model'.childs /\ ParentEntry(r) \in model'.parents
    BY <1>4, <2>1
  <2>3. \A q \in Read \cap source.indirect :
          Settled(q) /\ ~Unsatisfiable(q) =>
            ChildEntry(q) \in model'.childs /\ ParentEntry(q) \in model'.parents
    BY <1>12 DEF SettledInv
  <2> QED
    BY <1>11, <1>14, <2>2, <2>3 DEF SettledInv
<1>18. ImpactsInv'
  <2>1. \A e \in ImpactEntries(r) :
          e = ImpactEntry(e.package, e.version) /\ e.package = r.package /\ ~Unsatisfiable(r)
    BY DEF ImpactEntries, ImpactEntry, Unsatisfiable, Range
  <2>2. ASSUME NEW e \in model'.ctcs
        PROVE  /\ e = ImpactEntry(e.package, e.version) /\ e.package \in model'.impacts
               /\ e.package \notin DirectPackages
                    => ImpactEntry(e.package, Absent) \in model'.ctcs
    <3>1. CASE e \in model.ctcs
      BY <1>12, <3>1 DEF ImpactsInv
    <3>2. CASE e \in base /\ reached
      BY <1>4, <1>8, <3>2
    <3>3. CASE e \in ImpactEntries(r) /\ reached
      <4>1. e = ImpactEntry(e.package, e.version) /\ e.package = r.package /\ ~Unsatisfiable(r)
        BY <2>1, <3>3
      <4>2. CASE \A o \in model.ctcs : o.package # r.package
        BY <1>4, <1>8, <3>3, <4>1, <4>2
      <4>3. CASE \E o \in model.ctcs : o.package = r.package
        BY <1>4, <1>12, <3>3, <4>1, <4>3 DEF ImpactsInv
      <4> QED
        BY <4>2, <4>3
    <3> QED
      BY <1>4, <1>5, <3>1, <3>2, <3>3
  <2>3. ASSUME NEW p \in model'.impacts
        PROVE  \/ p \in DirectPackages \/ \E x \in model'.parents : x.child = p
               \/ \E q \in Requirements : q.package = p /\ Unsatisfiable(q)
    <3>1. CASE p \in model.impacts
      BY <1>12, <3>1 DEF ImpactsInv
    <3>2. CASE p = r.package /\ reached
      <4>1. ParentEntry(r).child = r.package
        BY DEF ParentEntry
      <4> QED
        BY <1>3, <1>4, <3>2, <4>1
    <3> QED
      BY <1>4, <1>5, <3>1, <3>2
  <2> QED
    BY <1>11, <2>2, <2>3 DEF ImpactsInv
<1> QED
  BY <1>2, <1>6, <1>9, <1>10, <1>13, <1>15, <1>16, <1>17, <1>18
-------------------------------------------------------------------------------
(* What the operations keep *)

\* Before transform nothing was read.
LEMMA InitTransform == Init => TransformInv
<1> SUFFICES ASSUME Init PROVE TransformInv
  OBVIOUS
<1> USE DEF Init
<1>1. SourceInv /\ Read = {}
  BY DEF SourceInv, Read, Requirements
<1>2. << >> \in Filters /\ DOMAIN << >> = {}
  <2>1. << >> \in [{} -> Seq(Serials)]
    OBVIOUS
  <2> QED
    BY <2>1 DEF Filters
<1>3. model \in Models /\ IsFiniteSet(model.impacts)
  BY <1>2, FS_EmptySet DEF Models
<1>4. DirectsInv /\ FilteredInv /\ ChildsInv /\ ParentsInv /\ SettledInv /\ ImpactsInv
  BY <1>1, <1>2 DEF DirectsInv, FilteredInv, ChildsInv, ParentsInv,
     SettledInv, ImpactsInv
<1> QED
  BY <1>1, <1>3, <1>4 DEF TransformInv, TransformTypes

\* A step that leaves the graph, what was read and the fields as they are.
LEMMA TransformUnchanged ==
  ASSUME TransformInv, source' = source, todo' = todo, model' = model
  PROVE  TransformInv'
<1>1. /\ DirectPackages' = DirectPackages /\ Requirements' = Requirements
      /\ \A q : Candidates(q)' = Candidates(q)
      /\ \A q : Unsatisfiable(q)' = Unsatisfiable(q) /\ Settled(q)' = Settled(q)
      /\ \A q : ChildEntry(q)' = ChildEntry(q) /\ ParentEntry(q)' = ParentEntry(q)
      /\ \A q : ImpactEntries(q)' = ImpactEntries(q)
      /\ \A p, v : ImpactEntry(p, v)' = ImpactEntry(p, v)
  BY SourceFrame
<1>2. Read' = Read
  BY <1>1 DEF Read
<1>3. TransformTypes'
  BY <1>1 DEF TransformInv, TransformTypes, SourceInv
<1>4. DirectsInv' /\ FilteredInv'
  BY <1>1, <1>2 DEF TransformInv, DirectsInv, FilteredInv
<1>5. ChildsInv' /\ ParentsInv'
  BY <1>1, <1>2 DEF TransformInv, ChildsInv, ParentsInv
<1>6. SettledInv'
  BY <1>1, <1>2 DEF TransformInv, SettledInv
<1>7. ImpactsInv'
  BY <1>1, <1>2 DEF TransformInv, ImpactsInv
<1> QED
  BY <1>3, <1>4, <1>5, <1>6, <1>7 DEF TransformInv

\* What an assignment that the text of the constraints admits is made of.
LEMMA SolutionParts ==
  ASSUME NEW m, m \in Models, IsFiniteSet(m.impacts), NEW s \in Solutions(m)
  PROVE  /\ s.version \in Versionings(m) /\ s.impact \in ImpactsOf(m, s.version)
         /\ s.version \in Versions /\ s.impact \in [Packages -> Reals] /\ s.risk \in Int
         /\ s = [version |-> s.version, impact |-> s.impact,
                 risk |-> SumFunctionOnSet(s.impact, m.impacts)]
<1>1. PICK v \in Versionings(m) : \E i \in ImpactsOf(m, v) :
        s = [version |-> v, impact |-> i, risk |-> SumFunctionOnSet(i, m.impacts)]
  BY DEF Solutions
<1>2. PICK i \in ImpactsOf(m, v) :
        s = [version |-> v, impact |-> i, risk |-> SumFunctionOnSet(i, m.impacts)]
  BY <1>1
<1>3. s.version = v /\ s.impact = i /\ s.risk = SumFunctionOnSet(i, m.impacts)
  BY <1>2
<1>4. v \in Versions /\ i \in [Packages -> Reals]
  BY DEF Versionings, ImpactsOf, Versions
<1>5. m.impacts \subseteq Packages
  BY DEF Models
<1>6. \A x \in m.impacts : i[x] \in Int
  BY <1>4, <1>5, RealsAssumption
<1>7. SumFunctionOnSet(i, m.impacts) \in Int
  BY <1>6, SumIsInteger
<1> QED
  BY <1>2, <1>3, <1>4, <1>7

\* What a request is made of.
LEMMA RequestParts ==
  ASSUME NEW q \in Requests
  PROVE  /\ q.op \in Enumerating \cup Single \cup Validating
         /\ q.op \in Enumerating => q.limit \in Nat \ {0}
         /\ q.op = "filter_configs" => q.min \in Int /\ q.max \in Int
         /\ q.op \in {"complete_config", "valid_config"} => q.config \in Configs
         /\ q.op = "config_by_impact" => q.impact \in Int
BY LimitsAssumption, RealsAssumption DEF Requests, Enumerating, Single,
   Validating

\* Every operation is of one kind.
LEMMA KindsOfRequest ==
  /\ Enumerating \cap Single = {} /\ Enumerating \cap Validating = {}
  /\ Single \cap Validating = {}
BY DEF Enumerating, Single, Validating

PhaseInv ==
  /\ phase \in {"transform", "ready", "solving", "done"}
  /\ phase \in {"transform", "ready"} => request = None /\ found = << >>
  /\ phase # "done" => outcome = None
  /\ phase \in {"solving", "done"} => request \in Requests
  /\ phase = "done" => outcome \in {"answered", "timeout", "valid", "invalid"}
  /\ IF phase = "transform" THEN domain = {}
     ELSE todo = {} /\ domain = Solutions(model)

\* What has been found is what was asked for, without repetition.
FoundInv ==
  /\ found \in Seq(domain)
  /\ found # << >> => request \in Requests
  /\ \A n \in 1 .. Len(found) : Asked(request, found[n])
  /\ \A m, n \in 1 .. Len(found) : m # n => found[m] # found[n]
  /\ phase = "solving" /\ request.op \in Single => found = << >>
  /\ outcome = "valid" => \E s \in domain : Asked(request, s)

SMTInv == TransformInv /\ PhaseInv /\ FoundInv

\* The invariant holds at first.
LEMMA InitInv == Init => SMTInv
<1> SUFFICES ASSUME Init PROVE SMTInv
  OBVIOUS
<1>1. PhaseInv
  BY DEF Init, PhaseInv
<1>2. FoundInv
  BY NoneAssumption DEF Init, FoundInv
<1> QED
  BY <1>1, <1>2, InitTransform DEF SMTInv

\* The invariant holds after a requirement was read,
LEMMA TransformKeeps ==
  ASSUME SMTInv, NEW r \in todo, TransformDirectPackage(r) \/ TransformIndirectPackage(r)
  PROVE  SMTInv'
<1>1. TransformInv'
  BY DirectStep, IndirectStep DEF SMTInv
<1>2. /\ phase = "transform" /\ domain' = domain /\ phase' = phase /\ request' = request
      /\ found' = found /\ outcome' = outcome
  BY DEF TransformDirectPackage, TransformIndirectPackage
<1>3. PhaseInv'
  BY <1>2 DEF SMTInv, PhaseInv
<1>4. FoundInv'
  BY <1>2, NoneAssumption DEF SMTInv, PhaseInv, FoundInv
<1> QED
  BY <1>1, <1>3, <1>4 DEF SMTInv

\* once all were read,
LEMMA TransformedKeeps == SMTInv /\ Transformed => SMTInv'
<1> SUFFICES ASSUME SMTInv, Transformed PROVE SMTInv'
  OBVIOUS
<1>1. TransformInv'
  BY TransformUnchanged DEF SMTInv, Transformed
<1>2. /\ phase = "transform" /\ phase' = "ready" /\ request' = request /\ todo' = todo /\ todo = {}
      /\ found' = found /\ outcome' = outcome /\ model' = model /\ domain' = Solutions(model)
  BY DEF Transformed
<1>3. PhaseInv'
  BY <1>2 DEF SMTInv, PhaseInv
<1>4. found' = << >> /\ outcome' = None
  BY <1>2 DEF SMTInv, PhaseInv
<1>5. FoundInv'
  BY <1>2, <1>4, NoneAssumption DEF FoundInv
<1> QED
  BY <1>1, <1>3, <1>5 DEF SMTInv

\* when a request comes in,
LEMMA ReceiveKeeps ==
  ASSUME SMTInv, NEW q \in Requests, Receive(q)
  PROVE  SMTInv'
<1>1. TransformInv'
  BY TransformUnchanged DEF SMTInv, Receive
<1>2. /\ phase = "ready" /\ phase' = "solving" /\ request' = q /\ todo' = todo
      /\ found' = found /\ outcome' = outcome /\ model' = model /\ domain' = domain
  BY DEF Receive
<1>3. PhaseInv'
  BY <1>2 DEF SMTInv, PhaseInv
<1>4. found' = << >> /\ outcome' = None
  BY <1>2 DEF SMTInv, PhaseInv
<1>5. FoundInv'
  BY <1>2, <1>4, NoneAssumption DEF FoundInv
<1> QED
  BY <1>1, <1>3, <1>5 DEF SMTInv

\* What a request asks of a solution only depends on the graph, the fields and
\* the request.
LEMMA AskedFrame ==
  ASSUME source' = source, model' = model, request' = request
  PROVE  \A s : Asked(request, s)' <=> Asked(request, s)
<1>1. \A c : ReadSerialNumbersByReleases(c)' = ReadSerialNumbersByReleases(c)
  BY DEF ReadSerialNumbersByReleases
<1>2. \A c, s : Agrees(c, s)' <=> Agrees(c, s)
  BY <1>1 DEF Agrees
<1> QED
  BY <1>2 DEF Asked

\* The best of what is left is a solution, asked for and not found before.
LEMMA BestParts ==
  ASSUME NEW s \in Best
  PROVE  s \in domain /\ Asked(request, s) /\ s \notin Range(found)
BY DEF Best, Allowed

\* One model more.
LEMMA FoundGrows ==
  ASSUME FoundInv, NEW s \in Best
  PROVE  /\ Append(found, s) \in Seq(domain)
         /\ Len(Append(found, s)) = Len(found) + 1
         /\ \A n \in 1 .. Len(found) : Append(found, s)[n] = found[n]
         /\ Append(found, s)[Len(found) + 1] = s
         /\ 1 .. Len(found) + 1 = (1 .. Len(found)) \cup {Len(found) + 1}
         /\ Len(found) \in Nat
         /\ \A n \in 1 .. Len(found) : found[n] # s
<1>1. found \in Seq(domain) /\ s \in domain /\ s \notin Range(found)
  BY BestParts DEF FoundInv
<1>2. /\ Append(found, s) \in Seq(domain)
      /\ Len(Append(found, s)) = Len(found) + 1
      /\ \A n \in 1 .. Len(found) : Append(found, s)[n] = found[n]
      /\ Append(found, s)[Len(found) + 1] = s
  BY <1>1, AppendProperties
<1>3. Len(found) \in Nat /\ DOMAIN found = 1 .. Len(found)
  BY <1>1
<1>4. 1 .. Len(found) + 1 = (1 .. Len(found)) \cup {Len(found) + 1}
  BY <1>3
<1>5. \A n \in 1 .. Len(found) : found[n] # s
  BY <1>1, <1>3 DEF Range
<1> QED
  BY <1>2, <1>3, <1>4, <1>5

\* when an operation found one more model,
LEMMA EnumerateKeeps ==
  ASSUME SMTInv, NEW s \in domain, Enumerate(s)
  PROVE  SMTInv'
<1>1. TransformInv'
  BY TransformUnchanged DEF SMTInv, Enumerate
<1>2. /\ phase = "solving" /\ phase' = phase /\ request' = request /\ todo' = todo
      /\ found' = Append(found, s) /\ outcome' = outcome /\ model' = model
      /\ domain' = domain /\ source' = source /\ s \in Best /\ request.op \in Enumerating
  BY DEF Enumerate
<1>3. PhaseInv'
  BY <1>2 DEF SMTInv, PhaseInv
<1>4. FoundInv'
  <2>1. FoundInv /\ request \in Requests
    BY <1>2 DEF SMTInv, PhaseInv
  <2>2. \A o : Asked(request, o)' <=> Asked(request, o)
    BY <1>2, AskedFrame
  <2>3. Asked(request, s)
    BY <1>2, BestParts
  <2>4. /\ found' \in Seq(domain') /\ Len(found') = Len(found) + 1
        /\ \A n \in 1 .. Len(found) : found'[n] = found[n] /\ found[n] # s
        /\ found'[Len(found) + 1] = s /\ Len(found) \in Nat
        /\ 1 .. Len(found') = (1 .. Len(found)) \cup {Len(found) + 1}
    BY <1>2, <2>1, FoundGrows
  <2>5. \A n \in 1 .. Len(found') : Asked(request, found'[n])
    BY <2>1, <2>3, <2>4 DEF FoundInv
  <2>6. \A m, n \in 1 .. Len(found') : m # n => found'[m] # found'[n]
    BY <2>1, <2>4 DEF FoundInv
  <2>7. request.op \notin Single
    BY <1>2, KindsOfRequest
  <2>8. outcome' # "valid"
    BY <1>2, NoneAssumption DEF SMTInv, PhaseInv
  <2> QED
    BY <1>2, <2>1, <2>2, <2>4, <2>5, <2>6, <2>7, <2>8 DEF FoundInv
<1> QED
  BY <1>1, <1>3, <1>4 DEF SMTInv

\* when it found the only one it looks for,
LEMMA TakeBestKeeps ==
  ASSUME SMTInv, NEW s \in domain, TakeBest(s)
  PROVE  SMTInv'
<1>1. TransformInv'
  BY TransformUnchanged DEF SMTInv, TakeBest
<1>2. /\ phase = "solving" /\ phase' = "done" /\ request' = request /\ todo' = todo
      /\ found' = <<s>> /\ outcome' = "answered" /\ model' = model
      /\ domain' = domain /\ source' = source /\ s \in Best
  BY DEF TakeBest
<1>3. PhaseInv'
  BY <1>2 DEF SMTInv, PhaseInv
<1>4. FoundInv'
  <2>1. request \in Requests
    BY <1>2 DEF SMTInv, PhaseInv
  <2>2. \A o : Asked(request, o)' <=> Asked(request, o)
    BY <1>2, AskedFrame
  <2>3. Asked(request, s)
    BY <1>2, BestParts
  <2>4. found' \in Seq(domain') /\ Len(found') = 1 /\ found'[1] = s
    BY <1>2
  <2>5. \A n \in 1 .. Len(found') : n = 1
    BY <2>4
  <2> QED
    BY <1>2, <2>1, <2>2, <2>3, <2>4, <2>5 DEF FoundInv
<1> QED
  BY <1>1, <1>3, <1>4 DEF SMTInv

\* An end that leaves what was found as it is.
LEMMA EndKeeps ==
  ASSUME SMTInv, phase = "solving", phase' = "done",
         UNCHANGED <<source, todo, model, domain, request, found>>,
         outcome' \in {"answered", "timeout", "valid", "invalid"},
         outcome' = "valid" => \E s \in domain : Asked(request, s)
  PROVE  SMTInv'
<1>1. TransformInv'
  BY TransformUnchanged DEF SMTInv
<1>2. PhaseInv'
  BY DEF SMTInv, PhaseInv
<1>3. FoundInv'
  <2>1. \A o : Asked(request, o)' <=> Asked(request, o)
    BY AskedFrame
  <2> QED
    BY <2>1 DEF SMTInv, FoundInv
<1> QED
  BY <1>1, <1>2, <1>3 DEF SMTInv

\* What the outcome of a validation says, when a check that is repeated answers
\* the same.
LEMMA ValidateMeans ==
  ASSUME Validate
  PROVE  /\ outcome' \in {"timeout", "valid", "invalid"}
         /\ outcome' = "valid" => Allowed # {}
         /\ ~Flaky /\ outcome' = "invalid" => Allowed = {}
<1>1. PICK first \in CheckResults : \E second \in Again(first) :
        outcome' = CASE first = "unknown" -> "timeout"
                     [] first # "unknown" /\ second = "sat" -> "valid"
                     [] OTHER -> "invalid"
  BY DEF Validate
<1>2. PICK second \in Again(first) :
        outcome' = CASE first = "unknown" -> "timeout"
                     [] first # "unknown" /\ second = "sat" -> "valid"
                     [] OTHER -> "invalid"
  BY <1>1
<1>3. second \in CheckResults /\ (~Flaky => second = first)
  BY <1>1 DEF Again
<1>4. \A r \in CheckResults : /\ r \in {"sat", "unsat", "unknown"}
                              /\ r = "sat" => Allowed # {}
                              /\ r = "unsat" => Allowed = {}
  BY DEF CheckResults
<1> QED
  BY <1>2, <1>3, <1>4

\* What giving up says, when a check that is repeated answers the same.
LEMMA GiveUpMeans ==
  ASSUME GiveUp
  PROVE  /\ outcome' \in {"timeout", "answered"}
         /\ ~Flaky /\ outcome' = "answered" => Allowed = {}
<1>1. PICK first \in CheckResults \ {"sat"} : \E second \in Again(first) :
        outcome' = IF second = "unknown" THEN "timeout" ELSE "answered"
  BY DEF GiveUp
<1>2. \A r \in CheckResults : r = "sat" \/ r = "unknown" \/ Allowed = {}
  BY DEF CheckResults
<1> QED
  BY <1>1, <1>2 DEF Again

\* when an operation ends with what it has,
LEMMA EndsKeep == SMTInv /\ (Enough \/ GiveUp \/ Validate) => SMTInv'
<1>1. ASSUME SMTInv, Enough PROVE SMTInv'
  <2>1. outcome' \in {"answered", "timeout"}
    BY <1>1 DEF Enough
  <2> QED
    BY <1>1, <2>1, EndKeeps DEF Enough
<1>2. ASSUME SMTInv, GiveUp PROVE SMTInv'
  BY <1>2, GiveUpMeans, EndKeeps DEF GiveUp
<1>3. ASSUME SMTInv, Validate PROVE SMTInv'
  <2>1. outcome' = "valid" => \E s \in domain : Asked(request, s)
    BY <1>3, ValidateMeans DEF Allowed
  <2> QED
    BY <1>3, <2>1, ValidateMeans, EndKeeps DEF Validate
<1> QED
  BY <1>1, <1>2, <1>3

\* and after a step that changes nothing.
LEMMA StutterKeeps == SMTInv /\ UNCHANGED vars => SMTInv'
<1> SUFFICES ASSUME SMTInv, UNCHANGED vars PROVE SMTInv'
  OBVIOUS
<1> USE DEF vars
<1>1. TransformInv'
  BY TransformUnchanged DEF SMTInv
<1>2. PhaseInv'
  BY DEF SMTInv, PhaseInv
<1>3. \A o : Asked(request, o)' <=> Asked(request, o)
  BY AskedFrame
<1>4. FoundInv'
  BY <1>3 DEF SMTInv, FoundInv
<1> QED
  BY <1>1, <1>2, <1>4 DEF SMTInv

\* Every state of the system satisfies the invariant.
LEMMA SMTInvariant == Spec => []SMTInv
<1>1. SMTInv /\ [Next]_vars => SMTInv'
  <2> SUFFICES ASSUME SMTInv, [Next]_vars PROVE SMTInv'
    OBVIOUS
  <2>1. CASE \E r \in todo : TransformDirectPackage(r) \/ TransformIndirectPackage(r)
    BY <2>1, TransformKeeps
  <2>2. CASE Transformed
    BY <2>2, TransformedKeeps
  <2>3. CASE \E q \in Requests : Receive(q)
    BY <2>3, ReceiveKeeps
  <2>4. CASE \E s \in domain : Enumerate(s) \/ TakeBest(s)
    BY <2>4, EnumerateKeeps, TakeBestKeeps
  <2>5. CASE Enough \/ GiveUp \/ Validate
    BY <2>5, EndsKeep
  <2>6. CASE UNCHANGED vars
    BY <2>6, StutterKeeps
  <2> QED
    BY <2>1, <2>2, <2>3, <2>4, <2>5, <2>6 DEF Next
<1> QED
  BY <1>1, InitInv, PTL DEF Spec
-------------------------------------------------------------------------------
(* What the invariant gives *)

\* The variables of the model are packages.
LEMMA MentionedPackages == TransformInv => Mentioned(model) \subseteq Packages
BY DEF TransformInv, TransformTypes, Models, Mentioned, Implies, Requires

\* Every member of the domain is a solution of the whole model.
LEMMA DomainParts ==
  ASSUME SMTInv, NEW s \in domain
  PROVE  /\ s.version \in Versionings(model) /\ s.impact \in ImpactsOf(model, s.version)
         /\ s.version \in Versions /\ s.impact \in [Packages -> Reals] /\ s.risk \in Int
         /\ s = [version |-> s.version, impact |-> s.impact,
                 risk |-> SumFunctionOnSet(s.impact, model.impacts)]
         /\ phase # "transform" /\ todo = {}
<1>1. s \in Solutions(model) /\ phase # "transform" /\ todo = {}
  BY DEF SMTInv, PhaseInv
<1>2. model \in Models /\ IsFiniteSet(model.impacts)
  BY DEF SMTInv, TransformInv, TransformTypes
<1> QED
  BY <1>1, <1>2, SolutionParts

\* Every model found is in the domain and was asked for.
LEMMA FoundIn ==
  ASSUME SMTInv
  PROVE  /\ found \in Seq(domain) /\ Len(found) \in Nat /\ DOMAIN found = 1 .. Len(found)
         /\ \A n \in DOMAIN found :
              found[n] \in domain /\ request \in Requests /\ Asked(request, found[n])
<1>1. found \in Seq(domain) /\ Len(found) \in Nat /\ DOMAIN found = 1 .. Len(found)
  BY DEF SMTInv, FoundInv
<1>2. ASSUME NEW n \in DOMAIN found
      PROVE  found[n] \in domain /\ request \in Requests /\ Asked(request, found[n])
  <2>1. found # << >>
    BY <1>2
  <2> QED
    BY <1>1, <2>1 DEF SMTInv, FoundInv
<1> QED
  BY <1>1, <1>2

\* The fields of SMTModel, the domain, the request and the answers are as typed.
THEOREM TypeCorrect == Spec => []TypeOK
<1>1. SMTInv => TypeOK
  <2> SUFFICES ASSUME SMTInv PROVE TypeOK
    OBVIOUS
  <2>1. todo \subseteq Direct \cup Indirect
    BY SourceParts DEF SMTInv, TransformInv, TransformTypes, SourceInv,
       Requirements
  <2>2. /\ model.directs \subseteq {Quoted(p) : p \in Packages}
        /\ model.impacts \subseteq Packages /\ model.indirectVars \subseteq Packages
        /\ \A p \in DOMAIN model.filtered : model.filtered[p] \in Seq(Serials)
        /\ model.parents \subseteq [child : Packages, parent : Packages, serial : Serials]
        /\ model.ctcs \subseteq
             [package : Packages, impact : Reals, version : Serials \cup {Absent}]
    BY DEF SMTInv, TransformInv, TransformTypes, Models, Filters, Excludes,
       Impacts
  <2>3. \A s \in domain : s.version \in Versions /\ s.impact \in [Packages -> Reals]
    BY DomainParts
  <2>4. Range(found) \subseteq domain
    BY FoundIn DEF Range
  <2>5. /\ phase \in {"transform", "ready", "solving", "done"}
        /\ request \in Requests \cup {None}
        /\ outcome \in {None, "answered", "timeout", "valid", "invalid"}
    BY DEF SMTInv, PhaseInv
  <2> QED
    BY <2>1, <2>2, <2>3, <2>4, <2>5 DEF TypeOK
<1> QED
  BY <1>1, SMTInvariant, PTL

\* What a configuration asks of a package without a purl reaches the solver.
LEMMA SerialRead ==
  ASSUME SMTInv, NEW config, NEW p \in Packages \ Identified, NEW n \in Serials,
         Name(p) \in DOMAIN config, config[Name(p)] = Release(n),
         n \in Range(source.have[p])
  PROVE  /\ Key(p) \in DOMAIN ReadSerialNumbersByReleases(config)
         /\ ReadSerialNumbersByReleases(config)[Key(p)] = n
<1> DEFINE Finds(key, serial) ==
             \E q \in Packages :
               key = Name(q) /\ config[key] = Release(serial)
                 /\ serial \in Range(source.have[q])
           keys == {k \in DOMAIN config : \E serial \in Serials : Finds(k, serial)}
<1>1. Key(p) = Name(p)
  BY DEF Key
<1>2. Finds(Name(p), n)
  OBVIOUS
<1>3. \A serial \in Serials : Finds(Name(p), serial) => serial = n
  BY DEF Release
<1>4. Name(p) \in keys
  BY <1>2
<1>5. (CHOOSE serial \in Serials : Finds(Name(p), serial)) = n
  <2> HIDE DEF Finds
  <2> QED
    BY <1>2, <1>3
<1>6. ReadSerialNumbersByReleases(config)
        = [key \in keys |-> CHOOSE serial \in Serials : Finds(key, serial)]
  BY DEF ReadSerialNumbersByReleases
<1> HIDE DEF keys, Finds
<1> QED
  BY <1>1, <1>4, <1>5, <1>6

\* What a client asks of a package without a purl is honoured
\* (read_serial_numbers_by_releases, add_config_to_solver): a completion has it,
\* and a configuration found valid has a solution with all of it.
THEOREM Honoured == Spec => []ConfigHonoured
<1>1. SMTInv => ConfigHonoured
  <2> SUFFICES ASSUME SMTInv PROVE ConfigHonoured
    OBVIOUS
  <2> DEFINE Meets(s) ==
        \A p \in Mentioned(model) \ Identified, n \in Serials :
          Name(p) \in DOMAIN request.config /\ request.config[Name(p)] = Release(n)
            /\ n \in Range(source.have[p]) => s.version[p] = n
  <2>1. ASSUME NEW s, Agrees(request.config, s) PROVE Meets(s)
    <3> SUFFICES ASSUME NEW p \in Mentioned(model) \ Identified, NEW n \in Serials,
                        Name(p) \in DOMAIN request.config,
                        request.config[Name(p)] = Release(n),
                        n \in Range(source.have[p])
                 PROVE  s.version[p] = n
      OBVIOUS
    <3>1. p \in Packages \ Identified
      BY MentionedPackages DEF SMTInv
    <3> QED
      BY <2>1, <3>1, SerialRead DEF Agrees
  <2>2. ASSUME request.op = "complete_config", NEW k \in DOMAIN found
        PROVE  Meets(found[k])
    BY <2>1, <2>2, FoundIn DEF Asked
  <2>3. ASSUME request.op = "valid_config", outcome = "valid"
        PROVE  \E s \in domain : Meets(s)
    <3>1. PICK s \in domain : Asked(request, s)
      BY <2>3 DEF SMTInv, FoundInv
    <3>2. Meets(s)
      BY <2>1, <2>3, <3>1 DEF Asked
    <3> HIDE DEF Meets
    <3> QED
      BY <3>2
  <2> QED
    BY <2>2, <2>3 DEF ConfigHonoured
<1> QED
  BY <1>1, SMTInvariant, PTL
-------------------------------------------------------------------------------
(* The order of the answers, and what a short answer means *)

\* What comes before s in the order of the request.
NotAfter(x, y) ==
  /\ request.op \in {"minimize_impact", "complete_config"} => x.risk <= y.risk
  /\ request.op = "maximize_impact" => x.risk >= y.risk
  /\ request.op = "config_by_impact" =>
       Distance(request.impact, x.risk) <= Distance(request.impact, y.risk)

\* No model the objective is better for is left.
LEMMA BestMeans ==
  ASSUME SMTInv, request \in Requests, NEW s \in Best, NEW o \in domain,
         Asked(request, o), o \notin Range(found)
  PROVE  NotAfter(s, o)
<1>1. s \in domain
  BY BestParts
<1>2. s.risk \in Int /\ o.risk \in Int
  BY <1>1, DomainParts
<1>3. Cost(request, s) <= Cost(request, o)
  BY DEF Best, Allowed
<1>4. CASE request.op \in {"minimize_impact", "complete_config"}
  BY <1>3, <1>4 DEF Cost, NotAfter
<1>5. CASE request.op = "maximize_impact"
  <2>1. -s.risk <= -o.risk
    BY <1>3, <1>5 DEF Cost
  <2> QED
    BY <1>2, <1>5, <2>1 DEF NotAfter
<1>6. CASE request.op = "config_by_impact"
  BY <1>3, <1>6 DEF Cost, NotAfter
<1>7. CASE request.op \notin {"minimize_impact", "complete_config", "maximize_impact", "config_by_impact"}
  BY <1>7 DEF NotAfter
<1> QED
  BY <1>4, <1>5, <1>6, <1>7

\* The order of the answers only depends on the request.
LEMMA OrderFrame ==
  ASSUME request' = request
  PROVE  \A x, y : NotAfter(x, y)' <=> NotAfter(x, y)
BY DEF NotAfter, Distance

OrderInv ==
  \A n \in DOMAIN found : \A s \in domain \ {found[k] : k \in 1 .. n - 1} :
    Asked(request, s) => NotAfter(found[n], s)

\* BestFirst in terms of that order.
LEMMA OrderMeans == OrderInv <=> BestFirst
BY DEF OrderInv, BestFirst, NotAfter

\* One more answer is in its place: the solver had the others blocked and found
\* the best of what was left.
LEMMA OrderEnumerate ==
  ASSUME SMTInv, OrderInv, NEW s \in domain, Enumerate(s)
  PROVE  OrderInv'
<1>1. /\ phase = "solving" /\ request' = request /\ found' = Append(found, s)
      /\ model' = model /\ domain' = domain /\ source' = source /\ s \in Best
  BY DEF Enumerate
<1>2. FoundInv /\ request \in Requests
  BY <1>1 DEF SMTInv, PhaseInv
<1>3. /\ \A o : Asked(request, o)' <=> Asked(request, o)
      /\ \A x, y : NotAfter(x, y)' <=> NotAfter(x, y)
  BY <1>1, AskedFrame, OrderFrame
<1>4. /\ Len(found) \in Nat /\ DOMAIN found = 1 .. Len(found)
      /\ DOMAIN found' = (1 .. Len(found)) \cup {Len(found) + 1}
      /\ \A n \in 1 .. Len(found) : found'[n] = found[n]
      /\ found'[Len(found) + 1] = s
  <2>1. /\ Append(found, s) \in Seq(domain) /\ Len(Append(found, s)) = Len(found) + 1
        /\ \A n \in 1 .. Len(found) : Append(found, s)[n] = found[n]
        /\ Append(found, s)[Len(found) + 1] = s
        /\ 1 .. Len(found) + 1 = (1 .. Len(found)) \cup {Len(found) + 1}
        /\ Len(found) \in Nat
    BY <1>1, <1>2, FoundGrows
  <2>2. DOMAIN Append(found, s) = 1 .. Len(found) + 1 /\ DOMAIN found = 1 .. Len(found)
    BY <1>2, <2>1 DEF FoundInv
  <2> QED
    BY <1>1, <2>1, <2>2
<1>5. \A n \in 1 .. Len(found) + 1 :
        {found'[k] : k \in 1 .. n - 1} = {found[k] : k \in 1 .. n - 1}
  BY <1>4
<1>6. ASSUME NEW n \in 1 .. Len(found), NEW o \in domain \ {found[k] : k \in 1 .. n - 1},
             Asked(request, o)
      PROVE  NotAfter(found[n], o)
  BY <1>4, <1>6 DEF OrderInv
<1>7. ASSUME NEW o \in domain \ {found[k] : k \in 1 .. Len(found)}, Asked(request, o)
      PROVE  NotAfter(s, o)
  <2>1. o \notin Range(found)
    BY <1>4 DEF Range
  <2> QED
    BY <1>1, <1>2, <1>7, <2>1, BestMeans
<1>8. ASSUME NEW n \in DOMAIN found',
             NEW o \in domain' \ {found'[k] : k \in 1 .. n - 1}, Asked(request, o)'
      PROVE  NotAfter(found'[n], o)
  <2>1. Asked(request, o) /\ o \in domain
    BY <1>1, <1>3, <1>8
  <2>2. CASE n \in 1 .. Len(found)
    <3>1. o \notin {found[k] : k \in 1 .. n - 1} /\ found'[n] = found[n]
      BY <1>4, <1>5, <2>2
    <3> QED
      BY <1>6, <2>1, <2>2, <3>1
  <2>3. CASE n = Len(found) + 1
    <3>1. n \in 1 .. Len(found) + 1 /\ n - 1 = Len(found) /\ found'[n] = s
      BY <1>4, <2>3
    <3>2. o \notin {found[k] : k \in 1 .. Len(found)}
      BY <1>5, <3>1
    <3> QED
      BY <1>7, <2>1, <3>1, <3>2
  <2> QED
    BY <1>4, <2>2, <2>3
<1> QED
  <2>1. \A n \in DOMAIN found' : \A o \in domain' \ {found'[k] : k \in 1 .. n - 1} :
          Asked(request, o)' => NotAfter(found'[n], o)
    BY <1>8
  <2>2. \A x, y : NotAfter(x, y)' <=> NotAfter(x, y)
    BY <1>3
  <2>3. \A n \in DOMAIN found' : \A o \in domain' \ {found'[k] : k \in 1 .. n - 1} :
          Asked(request, o)' => NotAfter(found[n], o)'
    BY <2>1, <1>1 DEF NotAfter
  <2> QED
    BY <2>3 DEF OrderInv

\* The only answer is in its place.
LEMMA OrderTakeBest ==
  ASSUME SMTInv, OrderInv, NEW s \in domain, TakeBest(s)
  PROVE  OrderInv'
<1>1. /\ phase = "solving" /\ request' = request /\ found' = <<s>>
      /\ model' = model /\ domain' = domain /\ source' = source /\ s \in Best
      /\ request \in Requests /\ found = << >>
  BY DEF TakeBest, SMTInv, PhaseInv, FoundInv
<1>2. \A o : Asked(request, o)' <=> Asked(request, o)
  BY <1>1, AskedFrame
<1>3. \A o \in domain : Asked(request, o) => NotAfter(s, o)
  BY <1>1, BestMeans DEF Range
<1>4. DOMAIN found' = {1} /\ found'[1] = s
  BY <1>1
<1>5. \A n \in DOMAIN found' : \A o \in domain' :
        Asked(request, o)' => NotAfter(found[n], o)'
  BY <1>1, <1>2, <1>3, <1>4 DEF NotAfter
<1> QED
  BY <1>5 DEF OrderInv

\* The answers stay in order while they stay.
LEMMA OrderKept ==
  ASSUME OrderInv, UNCHANGED <<source, model, request, domain, found>>
  PROVE  OrderInv'
<1>1. \A o : Asked(request, o)' <=> Asked(request, o)
  BY AskedFrame
<1> QED
  BY <1>1 DEF OrderInv, NotAfter

\* The answers of minimize_impact, maximize_impact, complete_config and
\* config_by_impact come best first, and nothing better was passed over.
THEOREM BestComesFirst == Spec => []BestFirst
<1>1. Init => OrderInv
  BY DEF Init, OrderInv
<1>2. SMTInv /\ OrderInv /\ [Next]_vars => OrderInv'
  <2> SUFFICES ASSUME SMTInv, OrderInv, [Next]_vars PROVE OrderInv'
    OBVIOUS
  <2>1. ASSUME NEW r \in todo, TransformDirectPackage(r) \/ TransformIndirectPackage(r)
        PROVE  OrderInv'
    <3>1. phase = "transform" /\ found' = found
      BY <2>1 DEF TransformDirectPackage, TransformIndirectPackage
    <3> QED
      BY <3>1 DEF SMTInv, PhaseInv, OrderInv
  <2>2. ASSUME Transformed PROVE OrderInv'
    BY <2>2 DEF Transformed, SMTInv, PhaseInv, OrderInv
  <2>3. ASSUME NEW q \in Requests, Receive(q) PROVE OrderInv'
    BY <2>3 DEF Receive, SMTInv, PhaseInv, OrderInv
  <2>4. ASSUME NEW s \in domain, Enumerate(s) \/ TakeBest(s) PROVE OrderInv'
    BY <2>4, OrderEnumerate, OrderTakeBest
  <2>5. CASE Enough \/ GiveUp \/ Validate
    BY <2>5, OrderKept DEF Enough, GiveUp, Validate
  <2>6. CASE UNCHANGED vars
    BY <2>6, OrderKept DEF vars
  <2> QED
    BY <2>1, <2>2, <2>3, <2>4, <2>5, <2>6 DEF Next
<1> QED
  BY <1>1, <1>2, OrderMeans, SMTInvariant, PTL DEF Spec

\* What is left to find only changes with the answers.
LEMMA WithheldFrame ==
  ASSUME UNCHANGED <<source, model, request, domain, found>>
  PROVE  Allowed' = Allowed
<1>1. \A o : Asked(request, o)' <=> Asked(request, o)
  BY AskedFrame
<1> QED
  BY <1>1 DEF Allowed

\* Unless a check that is repeated answers differently, an answer shorter than
\* asked means there is no more, and "invalid" that there is no solution.
THEOREM NothingIsWithheld == ASSUME ~Flaky PROVE Spec => []NothingWithheld
<1>1. Init => NothingWithheld
  BY NoneAssumption DEF Init, NothingWithheld
<1>2. SMTInv /\ NothingWithheld /\ [Next]_vars => NothingWithheld'
  <2> SUFFICES ASSUME SMTInv, NothingWithheld, [Next]_vars PROVE NothingWithheld'
    OBVIOUS
  <2>1. ASSUME outcome' = None PROVE NothingWithheld'
    BY <2>1, NoneAssumption DEF NothingWithheld
  <2>2. ASSUME phase # "done", outcome' = outcome PROVE NothingWithheld'
    BY <2>1, <2>2 DEF SMTInv, PhaseInv
  <2>3. CASE \E r \in todo : TransformDirectPackage(r) \/ TransformIndirectPackage(r)
    BY <2>2, <2>3 DEF TransformDirectPackage, TransformIndirectPackage
  <2>4. CASE Transformed
    BY <2>2, <2>4 DEF Transformed
  <2>5. CASE \E q \in Requests : Receive(q)
    BY <2>2, <2>5 DEF Receive
  <2>6. CASE \E s \in domain : Enumerate(s)
    BY <2>2, <2>6 DEF Enumerate
  <2>7. ASSUME NEW s \in domain, TakeBest(s) PROVE NothingWithheld'
    <3>1. /\ request' = request /\ request.op \in Single /\ found' = <<s>>
          /\ outcome' = "answered"
      BY <2>7 DEF TakeBest
    <3>2. request'.op \notin Enumerating /\ found' # << >>
      BY <3>1, KindsOfRequest
    <3> QED
      BY <3>1, <3>2 DEF NothingWithheld
  <2>8. CASE Enough
    <3>1. /\ request' = request /\ request.op \in Enumerating /\ found' = found
          /\ Len(found) = request.limit /\ outcome' \in {"timeout", "answered"}
          /\ phase = "solving"
      BY <2>8 DEF Enough
    <3>2. request'.op \notin Single
      BY <3>1, KindsOfRequest
    <3>3. request.limit \in Nat
      BY <3>1, RequestParts DEF SMTInv, PhaseInv
    <3> QED
      BY <3>1, <3>2, <3>3 DEF NothingWithheld
  <2>9. CASE GiveUp
    <3>1. Allowed' = Allowed
      BY <2>9, WithheldFrame DEF GiveUp
    <3> QED
      BY <2>9, <3>1, GiveUpMeans DEF NothingWithheld
  <2>10. CASE Validate
    <3>1. Allowed' = Allowed
      BY <2>10, WithheldFrame DEF Validate
    <3> QED
      BY <2>10, <3>1, ValidateMeans DEF NothingWithheld
  <2>11. CASE UNCHANGED vars
    <3>1. Allowed' = Allowed /\ request' = request /\ found' = found /\ outcome' = outcome
      BY <2>11, WithheldFrame DEF vars
    <3> QED
      BY <3>1 DEF NothingWithheld
  <2> QED
    BY <2>3, <2>4, <2>5, <2>6, <2>7, <2>8, <2>9, <2>10, <2>11 DEF Next
<1> QED
  BY <1>1, <1>2, SMTInvariant, PTL DEF Spec
-------------------------------------------------------------------------------
(* What a solution does about the requirements *)

\* The groups of the serials under a key hold these serials.
LEMMA SerialsMean ==
  ASSUME NEW entries, NEW e \in entries,
         entries \subseteq Implies \/ entries \subseteq Excludes
  PROVE  /\ e.serial \in SerialsOf(entries, e)
         /\ \A n \in Int :
              InGroups(n, GroupVersions(AsList(SerialsOf(entries, e)), 1), 1)
                <=> n \in SerialsOf(entries, e)
         /\ \A n \in SerialsOf(entries, e) : \E o \in entries :
              /\ o.serial = n /\ o.child = e.child /\ o.parent = e.parent
              /\ entries \subseteq Implies => o.groups = e.groups
<1> DEFINE serials == SerialsOf(entries, e)
<1>1. \A o \in entries : o.serial \in Serials
  BY DEF Implies, Excludes
<1>2. [e EXCEPT !.serial = e.serial] = e
  BY DEF Implies, Excludes
<1>3. e.serial \in serials
  BY <1>2 DEF SerialsOf
<1>4. serials \subseteq Serials
  BY <1>1 DEF SerialsOf
<1>5. serials \subseteq Int /\ IsFiniteSet(serials)
  BY <1>4, SerialsAreNot, FS_Subset
<1>6. \A n \in serials : \E o \in entries :
        /\ o.serial = n /\ o.child = e.child /\ o.parent = e.parent
        /\ entries \subseteq Implies => o.groups = e.groups
  <2> SUFFICES ASSUME NEW o \in entries, [o EXCEPT !.serial = e.serial] = e
               PROVE  /\ o.child = e.child /\ o.parent = e.parent
                      /\ entries \subseteq Implies => o.groups = e.groups
    BY DEF SerialsOf
  <2>1. [o EXCEPT !.serial = e.serial].child = o.child
        /\ [o EXCEPT !.serial = e.serial].parent = o.parent
    BY DEF Implies, Excludes
  <2>2. entries \subseteq Implies => [o EXCEPT !.serial = e.serial].groups = o.groups
    BY DEF Implies
  <2> QED
    BY <2>1, <2>2
<1> HIDE DEF serials
<1>7. AsList(serials) \in Seq(Int) /\ Range(AsList(serials)) = serials
  BY <1>5, AsListHasAll
<1>8. \A n \in Int : InGroups(n, GroupVersions(AsList(serials), 1), 1) <=> n \in serials
  BY <1>7, GroupsMean
<1> QED
  BY <1>3, <1>6, <1>8 DEF serials

\* What a version satisfies that the text of the constraints admits.
LEMMA VersioningMeans ==
  ASSUME model \in Models, NEW v \in Versionings(model)
  PROVE  /\ v \in Versions
         /\ \A p \in Packages \ Mentioned(model) : v[p] = Absent
         /\ \A c \in model.required : InGroups(v[c.package], c.groups, -1)
         /\ \A e \in model.childs :
              v[e.parent] \in SerialsOf(model.childs, e)
                => InGroups(v[e.child], e.groups, -1)
         /\ \A x \in model.parents :
              v[x.parent] \notin SerialsOf(model.parents, x) => v[x.child] = Absent
<1> DEFINE When(entries, e) == GroupVersions(AsList(SerialsOf(entries, e)), 1)
           implied == {[entry |-> e, when |-> When(model.childs, e)] : e \in model.childs}
           excluded == {[entry |-> e, when |-> When(model.parents, e)] : e \in model.parents}
<1>1. /\ v \in Versions
      /\ \A p \in Packages \ Mentioned(model) : v[p] = Absent
      /\ \A c \in model.required : InGroups(v[c.package], c.groups, -1)
      /\ \A i \in implied :
           InGroups(v[i.entry.parent], i.when, 1)
             => InGroups(v[i.entry.child], i.entry.groups, -1)
      /\ \A x \in excluded :
           ~InGroups(v[x.entry.parent], x.when, 1) => v[x.entry.child] = Absent
  BY DEF Versionings, Versions
<1>2. model.childs \subseteq Implies /\ model.parents \subseteq Excludes
  BY DEF Models
<1>3. \A p \in Packages : v[p] \in Int
  BY <1>1, SerialsAreNot DEF Versions
<1>4. ASSUME NEW e \in model.childs, v[e.parent] \in SerialsOf(model.childs, e)
      PROVE  InGroups(v[e.child], e.groups, -1)
  <2>1. e.parent \in Packages
    BY <1>2 DEF Implies
  <2>2. InGroups(v[e.parent], When(model.childs, e), 1)
    BY <1>2, <1>3, <1>4, <2>1, SerialsMean
  <2>3. [entry |-> e, when |-> When(model.childs, e)] \in implied
    OBVIOUS
  <2> HIDE DEF implied, When
  <2> QED
    BY <1>1, <2>2, <2>3
<1>5. ASSUME NEW x \in model.parents, v[x.parent] \notin SerialsOf(model.parents, x)
      PROVE  v[x.child] = Absent
  <2>1. x.parent \in Packages
    BY <1>2 DEF Excludes
  <2>2. ~InGroups(v[x.parent], When(model.parents, x), 1)
    BY <1>2, <1>3, <1>5, <2>1, SerialsMean
  <2>3. [entry |-> x, when |-> When(model.parents, x)] \in excluded
    OBVIOUS
  <2> HIDE DEF excluded, When
  <2> QED
    BY <1>1, <2>2, <2>3
<1> QED
  BY <1>1, <1>4, <1>5

\* The groups of a requirement's versions admit these versions.
LEMMA CandidateGroups ==
  ASSUME SourceInv, NEW r \in Requirements, NEW n \in Int
  PROVE  /\ InGroups(n, GroupVersions(Candidates(r), -1), -1) <=> Fits(r, n)
         /\ InGroups(n, DirectConstraint(r.package, Candidates(r)).groups, -1)
              <=> IF Unsatisfiable(r) THEN n = Absent ELSE Fits(r, n)
<1>1. InGroups(n, GroupVersions(Candidates(r), -1), -1) <=> Fits(r, n)
  BY RequirementParts, GroupsMean DEF Fits
<1>2. InGroups(n, << <<Absent, Absent>> >>, -1) <=> n = Absent
  <2>1. Range(<< <<Absent, Absent>> >>) = {<<Absent, Absent>>}
    BY DEF Range
  <2> QED
    BY <2>1 DEF InGroups, Absent
<1> QED
  BY <1>1, <1>2 DEF DirectConstraint, Unsatisfiable

\* After transform every requirement was read.
LEMMA AllRead == SMTInv /\ phase # "transform" => Read = Requirements
BY DEF SMTInv, PhaseInv, Read

\* What a solution does about the direct requirements.
LEMMA DirectsMet ==
  ASSUME SMTInv, NEW s \in domain, NEW r \in source.direct
  PROVE  /\ r \in Requirements /\ ~IsIndirect(r) /\ r.package \in DirectPackages
         /\ r \in Demanded(s.version)
         /\ IF Unsatisfiable(r) THEN s.version[r.package] = Absent
            ELSE Fits(r, s.version[r.package])
<1>1. SourceInv /\ model \in Models /\ DirectsInv
  BY DEF SMTInv, TransformInv, TransformTypes
<1>2. r \in Requirements /\ ~IsIndirect(r) /\ r.package \in DirectPackages
  BY <1>1, RequirementParts DEF Requirements, DirectPackages
<1>3. r.package \in Packages /\ s.version \in Versionings(model) /\ s.version \in Versions
  BY <1>1, <1>2, RequirementParts, DomainParts
<1>4. r \in Read \cap source.direct
  BY <1>2, AllRead, DomainParts
<1>5. DirectConstraint(r.package, Candidates(r)) \in model.required
  BY <1>1, <1>4 DEF DirectsInv
<1>6. InGroups(s.version[r.package], DirectConstraint(r.package, Candidates(r)).groups, -1)
  BY <1>1, <1>3, <1>5, VersioningMeans DEF DirectConstraint
<1>7. s.version[r.package] \in Int
  BY <1>3, SerialsAreNot DEF Versions
<1> QED
  BY <1>1, <1>2, <1>6, <1>7, CandidateGroups DEF Demanded

\* What it does about an indirect requirement whose parent was settled.
LEMMA IndirectsMet ==
  ASSUME SMTInv, NEW s \in domain, NEW r \in source.indirect, Settled(r), ~Unsatisfiable(r)
  PROVE  /\ r \in Demanded(s.version) => Fits(r, s.version[r.package])
         /\ s.version[r.package] # Absent =>
              \E q \in Demanded(s.version) : q.package = r.package
<1>1. SourceInv /\ model \in Models /\ SettledInv /\ ParentsInv
  BY DEF SMTInv, TransformInv, TransformTypes
<1>2. r \in Requirements /\ IsIndirect(r) /\ r.package \in Packages /\ r.parent \in Packages
  BY <1>1, RequirementParts DEF Requirements
<1>3. r \in Read \cap source.indirect
  BY <1>2, AllRead, DomainParts
<1>4. s.version \in Versionings(model) /\ s.version \in Versions
  BY DomainParts
<1>5. ChildEntry(r) \in model.childs /\ ParentEntry(r) \in model.parents
  BY <1>1, <1>3 DEF SettledInv
<1>6. s.version[r.package] \in Int
  BY <1>2, <1>4, SerialsAreNot DEF Versions
<1>7. model.childs \subseteq Implies /\ model.parents \subseteq Excludes
  BY <1>1 DEF Models
<1>8. ASSUME r \in Demanded(s.version) PROVE Fits(r, s.version[r.package])
  <2>1. s.version[r.parent] = r.serial
    BY <1>2, <1>8 DEF Demanded
  <2>2. r.serial \in SerialsOf(model.childs, ChildEntry(r))
    BY <1>5, <1>7, SerialsMean DEF ChildEntry
  <2>3. InGroups(s.version[r.package], GroupVersions(Candidates(r), -1), -1)
    BY <1>1, <1>4, <1>5, <2>1, <2>2, VersioningMeans DEF ChildEntry
  <2> QED
    BY <1>1, <1>2, <1>6, <2>3, CandidateGroups
<1>9. ASSUME s.version[r.package] # Absent
      PROVE  \E q \in Demanded(s.version) : q.package = r.package
  <2> DEFINE x == ParentEntry(r)
  <2>1. x \in model.parents /\ x.child = r.package /\ x.parent = r.parent
    BY <1>5 DEF ParentEntry
  <2> HIDE DEF x
  <2>2. s.version[x.parent] \in SerialsOf(model.parents, x)
    BY <1>1, <1>4, <1>9, <2>1, VersioningMeans
  <2>3. PICK o \in model.parents :
          o.serial = s.version[x.parent] /\ o.child = x.child /\ o.parent = x.parent
    BY <1>7, <2>1, <2>2, SerialsMean
  <2>4. PICK q \in Read \cap source.indirect : o = ParentEntry(q)
    BY <1>1, <2>3 DEF ParentsInv
  <2>5. q.package = r.package /\ q.parent = r.parent /\ q.serial = s.version[q.parent]
    BY <2>1, <2>3, <2>4 DEF ParentEntry
  <2>6. q \in Demanded(s.version)
    BY <2>4, <2>5 DEF Demanded, Read
  <2> QED
    BY <2>5, <2>6
<1> QED
  BY <1>8, <1>9

\* No solution breaks a requirement of the file, nor one of a version whose
\* package was settled when transform read it, nor installs a package with such
\* a requirement that nobody needs.
THEOREM SolutionsDoResolve == Spec => []SolutionsResolve
<1>1. SMTInv => SolutionsResolve
  BY DirectsMet, IndirectsMet DEF SolutionsResolve
<1> QED
  BY <1>1, SMTInvariant, PTL
-------------------------------------------------------------------------------
(* What a solution says of the impacts *)

\* What the groups of an impact variable ask: that it has the impact of the
\* version that is installed.
LEMMA ImpactsMean ==
  ASSUME model \in Models, NEW v \in Versions, NEW i \in [Packages -> Reals]
  PROVE  i \in ImpactsOf(model, v) <=>
           /\ \A p \in Packages \ model.impacts : i[p] = 0
           /\ \A c \in model.ctcs : v[c.package] = c.version => i[c.package] = c.impact
<1> DEFINE Of(c) == {o.version : o \in {o \in model.ctcs :
                       o.package = c.package /\ o.impact = c.impact}}
           When(c) == GroupVersions(AsList(Of(c)), 1)
           groups == {[package |-> c.package, impact |-> c.impact, when |-> When(c)]
                        : c \in model.ctcs}
<1>1. model.ctcs \subseteq Impacts
  BY DEF Models
<1>2. ASSUME NEW c \in model.ctcs
      PROVE  InGroups(v[c.package], When(c), 1) <=> v[c.package] \in Of(c)
  <2>1. Of(c) \subseteq Serials \cup {Absent}
    BY <1>1 DEF Impacts
  <2>2. Of(c) \subseteq Int /\ IsFiniteSet(Of(c))
    <3>1. IsFiniteSet(Serials \cup {Absent})
      BY SerialsAreNot, FS_AddElement
    <3> QED
      BY <2>1, <3>1, SerialsAreNot, FS_Subset
  <2>3. v[c.package] \in Int
    BY <1>1, SerialsAreNot DEF Impacts, Versions
  <2> HIDE DEF Of
  <2>4. AsList(Of(c)) \in Seq(Int) /\ Range(AsList(Of(c))) = Of(c)
    BY <2>2, AsListHasAll
  <2> QED
    BY <2>3, <2>4, GroupsMean
<1>3. (\A g \in groups : InGroups(v[g.package], g.when, 1) => i[g.package] = g.impact)
        <=> \A c \in model.ctcs : v[c.package] \in Of(c) => i[c.package] = c.impact
  <2> HIDE DEF Of, When
  <2>1. \A g \in groups : \E c \in model.ctcs :
          g.package = c.package /\ g.impact = c.impact /\ g.when = When(c)
    OBVIOUS
  <2>2. \A c \in model.ctcs : \E g \in groups :
          g.package = c.package /\ g.impact = c.impact /\ g.when = When(c)
    <3> SUFFICES ASSUME NEW c \in model.ctcs
                 PROVE  \E g \in groups :
                          g.package = c.package /\ g.impact = c.impact /\ g.when = When(c)
      OBVIOUS
    <3> WITNESS [package |-> c.package, impact |-> c.impact, when |-> When(c)] \in groups
    <3> QED
      OBVIOUS
  <2> HIDE DEF groups
  <2> QED
    BY <1>2, <2>1, <2>2
<1>4. (\A c \in model.ctcs : v[c.package] \in Of(c) => i[c.package] = c.impact)
        <=> \A c \in model.ctcs : v[c.package] = c.version => i[c.package] = c.impact
  <2>1. \A c \in model.ctcs : c.version \in Of(c)
    OBVIOUS
  <2>2. \A c \in model.ctcs : \A n \in Of(c) : \E o \in model.ctcs :
          o.package = c.package /\ o.impact = c.impact /\ o.version = n
    OBVIOUS
  <2> HIDE DEF Of
  <2> QED
    BY <2>1, <2>2
<1>5. i \in ImpactsOf(model, v) <=>
        /\ \A p \in Packages \ model.impacts : i[p] = 0
        /\ \A g \in groups : InGroups(v[g.package], g.when, 1) => i[g.package] = g.impact
  BY DEF ImpactsOf
<1> QED
  BY <1>3, <1>4, <1>5

\* A package that only indirect requirements name is installed for one of
\* them, at a version that fits it.
LEMMA InstalledFor ==
  ASSUME SMTInv, NEW s \in domain, NEW x \in model.parents, s.version[x.child] # Absent
  PROVE  \E r \in Read \cap source.indirect :
           /\ r.package = x.child /\ r.parent = x.parent
           /\ s.version[r.parent] = r.serial /\ Fits(r, s.version[r.package])
           /\ ImpactEntries(r) \subseteq model.ctcs
<1>1. SourceInv /\ model \in Models /\ ParentsInv
  BY DEF SMTInv, TransformInv, TransformTypes
<1>2. s.version \in Versionings(model) /\ s.version \in Versions
  BY DomainParts
<1>3. model.parents \subseteq Excludes /\ model.childs \subseteq Implies
  BY <1>1 DEF Models
<1>4. s.version[x.parent] \in SerialsOf(model.parents, x)
  BY <1>1, <1>2, VersioningMeans
<1>5. PICK o \in model.parents :
        o.serial = s.version[x.parent] /\ o.child = x.child /\ o.parent = x.parent
  BY <1>3, <1>4, SerialsMean
<1>6. PICK r \in Read \cap source.indirect :
        /\ o = ParentEntry(r) /\ ChildEntry(r) \in model.childs
        /\ ImpactEntries(r) \subseteq model.ctcs
  BY <1>1, <1>5 DEF ParentsInv
<1>7. r.package = x.child /\ r.parent = x.parent /\ s.version[r.parent] = r.serial
  BY <1>5, <1>6 DEF ParentEntry
<1>8. r.serial \in SerialsOf(model.childs, ChildEntry(r))
  BY <1>3, <1>6, SerialsMean DEF ChildEntry
<1>9. InGroups(s.version[r.package], GroupVersions(Candidates(r), -1), -1)
  BY <1>1, <1>2, <1>6, <1>7, <1>8, VersioningMeans DEF ChildEntry
<1>10. r \in Requirements /\ r.package \in Packages /\ s.version[r.package] \in Int
  <2>1. r \in Requirements
    BY <1>6 DEF Read
  <2> QED
    BY <1>1, <1>2, <2>1, RequirementParts, SerialsAreNot DEF Versions
<1> QED
  BY <1>1, <1>6, <1>7, <1>9, <1>10, CandidateGroups

\* A solution has for a package the impact of the version it installs.
LEMMA ImpactIs ==
  ASSUME SMTInv, NEW s \in domain, NEW p \in model.impacts,
         \A r \in Requirements : r.package = p => ~Unsatisfiable(r)
  PROVE  s.impact[p] = ImpactAt(p, s.version[p])
<1>1. SourceInv /\ model \in Models /\ ParentsInv /\ DirectsInv /\ ImpactsInv
  BY DEF SMTInv, TransformInv, TransformTypes
<1>2. /\ s.version \in Versions /\ s.impact \in [Packages -> Reals]
      /\ s.impact \in ImpactsOf(model, s.version)
  BY DomainParts
<1>3. SUFFICES ImpactEntry(p, s.version[p]) \in model.ctcs
  <2>1. \A c \in model.ctcs : s.version[c.package] = c.version => s.impact[c.package] = c.impact
    BY <1>1, <1>2, ImpactsMean
  <2> QED
    BY <1>3, <2>1 DEF ImpactEntry
<1>4. CASE p \in DirectPackages
  <2>1. PICK r \in source.direct : r.package = p
    BY <1>4 DEF DirectPackages
  <2>2. r \in Requirements /\ Fits(r, s.version[p])
    BY <2>1, DirectsMet
  <2>3. r \in Read \cap source.direct
    BY <2>1, <2>2, AllRead, DomainParts
  <2> QED
    BY <1>1, <2>1, <2>2, <2>3 DEF DirectsInv, ImpactEntries, Fits
<1>5. CASE p \notin DirectPackages
  <2>1. PICK x \in model.parents : x.child = p
    BY <1>1, <1>5 DEF ImpactsInv
  <2>2. CASE s.version[p] = Absent
    <3>1. PICK r \in Read \cap source.indirect :
            /\ x = ParentEntry(r) /\ ~Unsatisfiable(r)
            /\ ImpactEntries(r) \subseteq model.ctcs
      BY <1>1, <2>1 DEF ParentsInv
    <3>2. r.package = p /\ r \in Requirements
      BY <2>1, <3>1 DEF ParentEntry, Read
    <3>3. Candidates(r) \in Seq(Serials) /\ Candidates(r) # << >>
      BY <1>1, <3>1, <3>2, RequirementParts DEF Unsatisfiable
    <3>4. Candidates(r)[1] \in Range(Candidates(r))
      BY <3>3 DEF Range
    <3>5. ImpactEntry(p, Candidates(r)[1]) \in model.ctcs
      BY <3>1, <3>2, <3>4 DEF ImpactEntries
    <3>6. ImpactEntry(p, Candidates(r)[1]).package = p
      BY DEF ImpactEntry
    <3> QED
      BY <1>1, <1>5, <2>2, <3>5, <3>6 DEF ImpactsInv
  <2>3. CASE s.version[p] # Absent
    BY <2>1, <2>3, InstalledFor DEF ImpactEntries, Fits
  <2> QED
    BY <2>2, <2>3
<1> QED
  BY <1>4, <1>5

\* No impact is left for the solver to choose, unless a requirement on the
\* package fits no version.
THEOREM ImpactIsDetermined == Spec => []ImpactDetermined
<1>1. SMTInv => ImpactDetermined
  BY ImpactIs DEF ImpactDetermined, ImpactAt
<1> QED
  BY <1>1, SMTInvariant, PTL

\* A key names one package.
LEMMA KeyTells ==
  \A p, q : /\ Key(p) = Key(q) => p = q
            /\ Key(p)[2] = p
BY DEF Key, Name, Purl

\* What the client sees of a solution tells the versions it installs.
LEMMA SanitizedTells ==
  ASSUME SMTInv, NEW s \in domain, NEW t \in domain, Sanitized(s) = Sanitized(t)
  PROVE  s.version = t.version
<1> DEFINE installed(u) == {p \in Mentioned(model) : u.version[p] # Absent}
           config(u) == [key \in {Key(p) : p \in installed(u)} |-> u.version[key[2]]]
<1>1. /\ s.version \in Versions /\ t.version \in Versions
      /\ s.version \in Versionings(model) /\ t.version \in Versionings(model)
      /\ model \in Models
  BY DomainParts DEF SMTInv, TransformInv, TransformTypes
<1>2. Sanitized(s) = ReadReleasesBySerialNumbers(config(s))
      /\ Sanitized(t) = ReadReleasesBySerialNumbers(config(t))
  BY DEF Sanitized
<1>3. ASSUME NEW u
      PROVE  /\ DOMAIN config(u) = {Key(p) : p \in installed(u)}
             /\ \A p \in installed(u) : config(u)[Key(p)] = u.version[p]
  BY KeyTells
<1>4. ASSUME NEW c
      PROVE  /\ DOMAIN ReadReleasesBySerialNumbers(c) = DOMAIN c
             /\ \A k \in DOMAIN c : ReadReleasesBySerialNumbers(c)[k]
                                      \in {Release(c[k]), Number(c[k])}
  BY DEF ReadReleasesBySerialNumbers
<1>5. \A x, y : {Release(x), Number(x)} \cap {Release(y), Number(y)} # {} => x = y
  BY DEF Release, Number
<1> HIDE DEF config
<1>6. DOMAIN config(s) = DOMAIN config(t)
  BY <1>2, <1>4
<1>7. installed(s) = installed(t)
  <2> HIDE DEF installed
  <2>1. \A u, p : Key(p) \in DOMAIN config(u) <=> p \in installed(u)
    <3> SUFFICES ASSUME NEW u, NEW p
                 PROVE  Key(p) \in DOMAIN config(u) <=> p \in installed(u)
      OBVIOUS
    <3>1. DOMAIN config(u) = {Key(q) : q \in installed(u)}
      BY <1>3
    <3> QED
      BY <3>1, KeyTells
  <2>2. \A p : p \in installed(s) <=> p \in installed(t)
    BY <1>6, <2>1
  <2> QED
    BY <2>2
<1>8. \A p \in installed(s) : s.version[p] = t.version[p]
  <2> HIDE DEF installed
  <2> SUFFICES ASSUME NEW p \in installed(s) PROVE s.version[p] = t.version[p]
    OBVIOUS
  <2>1. /\ Key(p) \in DOMAIN config(s) /\ Key(p) \in DOMAIN config(t)
        /\ config(s)[Key(p)] = s.version[p] /\ config(t)[Key(p)] = t.version[p]
    BY <1>3, <1>6, <1>7
  <2>2. /\ Sanitized(s)[Key(p)] \in {Release(s.version[p]), Number(s.version[p])}
        /\ Sanitized(t)[Key(p)] \in {Release(t.version[p]), Number(t.version[p])}
    BY <1>2, <1>4, <2>1
  <2> QED
    BY <1>5, <2>2
<1>9. \A p \in Packages \ Mentioned(model) : s.version[p] = Absent /\ t.version[p] = Absent
  BY <1>1, VersioningMeans
<1>10. \A p \in Packages : s.version[p] = t.version[p]
  BY <1>7, <1>8, <1>9
<1> QED
  BY <1>1, <1>10 DEF Versions

\* No configuration is answered twice, as ConfigSanitizer shows it, when every
\* requirement fits some version: what blocking a model excludes, the client
\* would have taken for the same.
THEOREM AnswersDoDiffer == Spec => []AnswersDiffer
<1>1. SMTInv => AnswersDiffer
  <2> SUFFICES ASSUME SMTInv, \A r \in Requirements : ~Unsatisfiable(r),
                      NEW m \in DOMAIN found, NEW n \in DOMAIN found, m # n,
                      Sanitized(found[m]) = Sanitized(found[n])
               PROVE  FALSE
    BY DEF AnswersDiffer
  <2> DEFINE s == found[m]
             t == found[n]
  <2>1. s \in domain /\ t \in domain /\ s # t
    BY FoundIn DEF SMTInv, FoundInv
  <2> HIDE DEF s, t
  <2>2. s.version = t.version
    BY <2>1, SanitizedTells DEF s, t
  <2>3. \A p \in model.impacts : s.impact[p] = t.impact[p]
    BY <2>1, <2>2, ImpactIs
  <2>4. /\ s.impact \in [Packages -> Reals] /\ t.impact \in [Packages -> Reals]
        /\ s.impact \in ImpactsOf(model, s.version) /\ t.impact \in ImpactsOf(model, t.version)
        /\ s = [version |-> s.version, impact |-> s.impact,
                risk |-> SumFunctionOnSet(s.impact, model.impacts)]
        /\ t = [version |-> t.version, impact |-> t.impact,
                risk |-> SumFunctionOnSet(t.impact, model.impacts)]
    BY <2>1, DomainParts
  <2>5. \A p \in Packages \ model.impacts : s.impact[p] = 0 /\ t.impact[p] = 0
    BY <2>4 DEF ImpactsOf
  <2>6. s.impact = t.impact
    BY <2>3, <2>4, <2>5
  <2> QED
    BY <2>1, <2>2, <2>4, <2>6
<1> QED
  BY <1>1, SMTInvariant, PTL
-------------------------------------------------------------------------------
(* What becomes of a resolution *)

\* The versions of a resolution, as far as the model has a variable for them.
AsModelled(v) == [p \in Packages |-> IF p \in Mentioned(model) THEN v[p] ELSE Absent]

\* No package is installed for a version that does not need it, nor needs
\* something that was read too early.
Even(v) ==
  /\ Resolution(v) /\ ~SharedUnevenly(v)
  /\ \A r \in Demanded(v) : IsIndirect(r) => Settled(r)

\* Such a resolution satisfies the constraints of the direct packages,
LEMMA EvenRequired ==
  ASSUME SMTInv, IsTransformed, NEW v \in Versions, Resolution(v), NEW c \in model.required
  PROVE  InGroups(AsModelled(v)[c.package], c.groups, -1)
<1>1. SourceInv /\ DirectsInv
  BY DEF SMTInv, TransformInv, TransformTypes
<1>2. PICK r \in Read \cap source.direct : c = DirectConstraint(r.package, Candidates(r))
  BY <1>1 DEF DirectsInv
<1>3. r \in Requirements /\ ~IsIndirect(r) /\ r.package \in Packages /\ c.package = r.package
  BY <1>1, <1>2, RequirementParts DEF Read, DirectConstraint
<1>4. AsModelled(v)[r.package] = v[r.package]
  BY <1>1, <1>2, <1>3 DEF AsModelled, Mentioned, DirectsInv
<1>5. r \in Demanded(v)
  BY <1>3 DEF Demanded
<1>6. IF Unsatisfiable(r) THEN v[r.package] = Absent ELSE Fits(r, v[r.package])
  BY <1>5 DEF Resolution, Unsatisfiable, Fits, Range
<1>7. v[r.package] \in Int
  BY <1>3, SerialsAreNot DEF Versions
<1> QED
  BY <1>1, <1>2, <1>3, <1>4, <1>6, <1>7, CandidateGroups

\* those that a version implies for what it depends on,
LEMMA EvenImplied ==
  ASSUME SMTInv, IsTransformed, NEW v \in Versions, Resolution(v), NEW e \in model.childs,
         AsModelled(v)[e.parent] \in SerialsOf(model.childs, e)
  PROVE  InGroups(AsModelled(v)[e.child], e.groups, -1)
<1>1. SourceInv /\ ChildsInv /\ model.childs \subseteq Implies
  BY DEF SMTInv, TransformInv, TransformTypes, Models
<1>2. AsModelled(v)[e.parent] = v[e.parent] /\ AsModelled(v)[e.child] = v[e.child]
  BY <1>1 DEF AsModelled, Mentioned, Implies
<1>3. PICK o \in model.childs : /\ o.serial = v[e.parent] /\ o.child = e.child
                                /\ o.parent = e.parent /\ o.groups = e.groups
  BY <1>1, <1>2, SerialsMean
<1>4. PICK q \in Read \cap source.indirect : o = ChildEntry(q)
  BY <1>1, <1>3 DEF ChildsInv
<1>5. q \in Requirements /\ IsIndirect(q) /\ q.package \in Packages
  BY <1>1, <1>4, RequirementParts DEF Read
<1>6. /\ q.package = e.child /\ v[q.parent] = q.serial
      /\ e.groups = GroupVersions(Candidates(q), -1)
  BY <1>3, <1>4 DEF ChildEntry
<1>7. q \in Demanded(v)
  BY <1>5, <1>6 DEF Demanded
<1>8. Fits(q, v[q.package])
  BY <1>5, <1>7 DEF Resolution
<1>9. v[q.package] \in Int
  BY <1>5, SerialsAreNot DEF Versions
<1> QED
  BY <1>1, <1>2, <1>5, <1>6, <1>8, <1>9, CandidateGroups

\* those that leave out what none of its parents needs,
LEMMA EvenExcluded ==
  ASSUME SMTInv, IsTransformed, NEW v \in Versions, Even(v), NEW x \in model.parents,
         AsModelled(v)[x.parent] \notin SerialsOf(model.parents, x)
  PROVE  AsModelled(v)[x.child] = Absent
<1>1. /\ SourceInv /\ ParentsInv /\ SettledInv
      /\ model.parents \subseteq Excludes /\ model.childs \subseteq Implies
  BY DEF SMTInv, TransformInv, TransformTypes, Models
<1>2. PICK r \in Read \cap source.indirect :
        /\ x = ParentEntry(r) /\ ~Unsatisfiable(r)
        /\ ChildEntry(r) \in model.childs
  BY <1>1 DEF ParentsInv
<1>3. x.child = r.package /\ x.parent = r.parent
  BY <1>2 DEF ParentEntry
<1>4. x.child \in Mentioned(model) /\ x.parent \in Mentioned(model)
  BY <1>2, <1>3 DEF Mentioned, ChildEntry
<1>5. x.child \in Packages /\ x.parent \in Packages
  BY <1>1 DEF Excludes
<1>6. AsModelled(v)[x.child] = v[x.child] /\ AsModelled(v)[x.parent] = v[x.parent]
  BY <1>4, <1>5 DEF AsModelled
<1>7. SUFFICES ASSUME v[x.child] # Absent PROVE FALSE
  BY <1>6
<1>8. PICK q \in source.indirect :
        q.package = r.package /\ q.parent = r.parent /\ v[q.parent] = q.serial
  BY <1>2, <1>3, <1>7 DEF Even, SharedUnevenly
<1>9. q \in Requirements /\ IsIndirect(q)
  BY <1>1, <1>8, RequirementParts DEF Requirements
<1>10. q \in Demanded(v)
  BY <1>8, <1>9 DEF Demanded
<1>11. Settled(q) /\ Fits(q, v[q.package])
  BY <1>9, <1>10 DEF Even, Resolution
<1>12. ~Unsatisfiable(q)
  BY <1>11 DEF Unsatisfiable, Fits, Range
<1>13. q \in Read \cap source.indirect
  BY <1>8, <1>9, AllRead DEF IsTransformed
<1>14. ParentEntry(q) \in model.parents
  BY <1>1, <1>2, <1>8, <1>11, <1>12, <1>13 DEF SettledInv
<1>15. [ParentEntry(q) EXCEPT !.serial = x.serial] = x
  BY <1>2, <1>8 DEF ParentEntry
<1>16. ParentEntry(q).serial \in SerialsOf(model.parents, x)
  BY <1>14, <1>15 DEF SerialsOf
<1> QED
  BY <1>3, <1>6, <1>8, <1>16 DEF ParentEntry

\* and so all the constraints on versions.
LEMMA EvenVersioned ==
  ASSUME SMTInv, IsTransformed, NEW v \in Versions, Even(v)
  PROVE  AsModelled(v) \in Versions /\ AsModelled(v) \in Versionings(model)
<1> DEFINE w == AsModelled(v)
           When(entries, e) == GroupVersions(AsList(SerialsOf(entries, e)), 1)
           implied == {[entry |-> e, when |-> When(model.childs, e)] : e \in model.childs}
           excluded == {[entry |-> e, when |-> When(model.parents, e)] : e \in model.parents}
<1>1. w \in Versions
  BY DEF AsModelled, Versions
<1>2. \A p \in Packages \ Mentioned(model) : w[p] = Absent
  BY DEF AsModelled
<1> HIDE DEF w
<1>3. model.childs \subseteq Implies /\ model.parents \subseteq Excludes
  BY DEF SMTInv, TransformInv, TransformTypes, Models
<1>4. \A p \in Packages : w[p] \in Int
  BY <1>1, SerialsAreNot DEF Versions
<1>5. \A c \in model.required : InGroups(w[c.package], c.groups, -1)
  BY EvenRequired DEF Even, w
<1>6. ASSUME NEW e \in model.childs, InGroups(w[e.parent], When(model.childs, e), 1)
      PROVE  InGroups(w[e.child], e.groups, -1)
  <2>1. w[e.parent] \in Int
    BY <1>3, <1>4 DEF Implies
  <2>2. w[e.parent] \in SerialsOf(model.childs, e)
    BY <1>3, <1>6, <2>1, SerialsMean
  <2> QED
    BY <2>2, EvenImplied DEF Even, w
<1>7. ASSUME NEW x \in model.parents, ~InGroups(w[x.parent], When(model.parents, x), 1)
      PROVE  w[x.child] = Absent
  <2>1. w[x.parent] \in Int
    BY <1>3, <1>4 DEF Excludes
  <2>2. w[x.parent] \notin SerialsOf(model.parents, x)
    BY <1>3, <1>7, <2>1, SerialsMean
  <2> QED
    BY <2>2, EvenExcluded DEF w
<1> HIDE DEF When
<1>8. \A i \in implied :
        InGroups(w[i.entry.parent], i.when, 1) => InGroups(w[i.entry.child], i.entry.groups, -1)
  BY <1>6
<1>9. \A y \in excluded :
        ~InGroups(w[y.entry.parent], y.when, 1) => w[y.entry.child] = Absent
  BY <1>7
<1>10. w \in Versionings(model)
  BY <1>1, <1>2, <1>5, <1>8, <1>9 DEF Versionings, Versions, When
<1> QED
  BY <1>1, <1>10 DEF w

\* Every version has an impact the text admits.
LEMMA SomeImpact ==
  ASSUME SMTInv, NEW w \in Versions
  PROVE  \E i \in [Packages -> Reals] : i \in ImpactsOf(model, w)
<1> DEFINE i == [p \in Packages |-> IF p \in model.impacts THEN ImpactAt(p, w[p]) ELSE 0]
<1>1. SourceInv /\ model \in Models /\ ImpactsInv
  BY DEF SMTInv, TransformInv, TransformTypes
<1>2. \A p \in Packages : w[p] \in Serials \cup {Absent}
  BY DEF Versions
<1>3. i \in [Packages -> Reals]
  BY <1>1, <1>2, ImpactEntryType, RealsAssumption
<1>4. \A c \in model.ctcs : c.package \in Packages /\ c.package \in model.impacts
                              /\ c.impact = ImpactAt(c.package, c.version)
  <2>1. \A p, n : ImpactEntry(p, n).impact = ImpactAt(p, n)
    BY DEF ImpactEntry
  <2>2. \A c \in model.ctcs : c = ImpactEntry(c.package, c.version) /\ c.package \in model.impacts
    BY <1>1 DEF ImpactsInv
  <2>3. model.impacts \subseteq Packages
    BY <1>1 DEF Models
  <2> QED
    BY <2>1, <2>2, <2>3
<1>5. \A c \in model.ctcs : w[c.package] = c.version => i[c.package] = c.impact
  BY <1>4
<1>6. \A p \in Packages \ model.impacts : i[p] = 0
  OBVIOUS
<1> HIDE DEF i
<1> QED
  BY <1>1, <1>3, <1>5, <1>6, ImpactsMean

\* A resolution of the graph is lost to the solver only when a shared dependency
\* is needed by the file or by one parent and not by another parent, or a
\* requirement was read before the package it belongs to was settled.
THEOREM ResolutionsKept == Spec => []NoResolutionLost
<1>1. SMTInv => NoResolutionLost
  <2> SUFFICES ASSUME SMTInv, IsTransformed, NEW v \in Versions, Even(v) PROVE Kept(v)
    BY DEF NoResolutionLost, Even
  <2> DEFINE w == AsModelled(v)
  <2>1. w \in Versions /\ w \in Versionings(model)
    BY EvenVersioned
  <2>2. \A p \in Mentioned(model) : w[p] = v[p]
    BY MentionedPackages DEF AsModelled, SMTInv
  <2> HIDE DEF w
  <2>3. PICK i \in ImpactsOf(model, w) : TRUE
    BY <2>1, SomeImpact
  <2> DEFINE s == [version |-> w, impact |-> i, risk |-> SumFunctionOnSet(i, model.impacts)]
  <2>4. s \in Solutions(model)
    BY <2>1, <2>3 DEF Solutions
  <2>5. s \in domain /\ s.version = w
    BY <2>4 DEF SMTInv, PhaseInv, IsTransformed
  <2> HIDE DEF s
  <2> QED
    BY <2>2, <2>5 DEF Kept
<1> QED
  BY <1>1, SMTInvariant, PTL
=============================================================================
