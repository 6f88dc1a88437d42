------------------------ MODULE RequirementFilesProofs ------------------------
(***************************************************************************)
(* What the conversion of Python specifiers does to their meaning, for all *)
(* releases of any length, what the analysis therefore stores, and what it *)
(* leaves in requirement_files, for every repository and every push.       *)
(***************************************************************************)
EXTENDS RequirementFiles, SequenceTheorems, WellFoundedInduction, TLAPS

Lower(P, Q, D) ==
  \E i \in D : P[i] < Q[i] /\ \A j \in 1..(i - 1) : P[j] = Q[j]

Begins(P, Q, l) == \A i \in 1..l : P[i] = Q[i]

\* U is Q with its last number, the one at l, replaced by a higher one.
Counted(Q, U, l, n) ==
  /\ n \in Nat /\ n > Q[l]
  /\ \A i \in Int : i \notin 1..l => Q[i] = 0
  /\ \A i \in Int : U[i] = IF i = l THEN n ELSE Q[i]

(* The same for functions on all positions: P begins with the first l numbers *)
(* of Q exactly when it is between Q and U, which is Q with its number at l    *)
(* counted up.                                                                *)
LEMMA SeriesOfNumbers ==
  ASSUME NEW P \in [Int -> Nat], NEW Q \in [Int -> Nat], NEW U \in [Int -> Nat],
         NEW l \in Nat \ {0}, NEW D, 1..l \subseteq D, D \subseteq Nat \ {0},
         NEW n, Counted(Q, U, l, n)
  PROVE  /\ Begins(P, Q, l) => ~Lower(P, Q, D) /\ Lower(P, U, D)
         /\ n = Q[l] + 1 /\ ~Lower(P, Q, D) /\ Lower(P, U, D) => Begins(P, Q, l)
         /\ Lower(P, Q, D) => Lower(P, U, D) /\ ~Begins(P, Q, l)
<1> DEFINE begins == \A i \in 1..l : P[i] = Q[i]
<1> USE DEF Counted
<1>1. ASSUME begins PROVE ~Lower(P, Q, D) /\ Lower(P, U, D)
  <2>1. ~Lower(P, Q, D)
    BY <1>1 DEF Lower
  <2>2. l \in D /\ P[l] < U[l] /\ \A j \in 1..(l - 1) : P[j] = U[j]
    BY <1>1
  <2> QED
    BY <2>1, <2>2 DEF Lower
<1>2. ASSUME n = Q[l] + 1, ~Lower(P, Q, D), Lower(P, U, D) PROVE begins
  <2>1. PICK i \in D : P[i] < U[i] /\ \A j \in 1..(i - 1) : P[j] = U[j]
    BY <1>2 DEF Lower
  <2>2. i \in 1..l
    BY <2>1
  <2>3. \A j \in 1..(i - 1) : P[j] = Q[j]
    BY <2>1, <2>2
  <2>4. P[i] >= Q[i]
    BY <2>2, <2>3, <1>2 DEF Lower
  <2>5. i = l
    BY <2>1, <2>2, <2>4
  <2>6. P[i] = Q[i]
    BY <2>1, <2>2, <2>4, <2>5, <1>2
  <2> QED
    BY <2>3, <2>5, <2>6
<1>3. ASSUME Lower(P, Q, D) PROVE Lower(P, U, D) /\ ~begins
  <2>1. PICK i \in D : P[i] < Q[i] /\ \A j \in 1..(i - 1) : P[j] = Q[j]
    BY <1>3 DEF Lower
  <2>2. i \in 1..l
    BY <2>1
  <2>3. P[i] < U[i] /\ \A j \in 1..(i - 1) : P[j] = U[j]
    BY <2>1, <2>2
  <2> QED
    BY <2>1, <2>2, <2>3 DEF Lower
<1> QED
  BY <1>1, <1>2, <1>3 DEF Begins

(* A release begins with r exactly when it is not before r and before the   *)
(* same release with its last number counted up.                           *)
LEMMA SeriesAsRange ==
  ASSUME NEW v \in Releases, NEW r \in Releases, r # <<>>,
         NEW l, l = Len(r), NEW n \in Nat, n > r[l],
         NEW w, w = WithLast(r, n)
  PROVE  /\ Within(v, r) => ~Before(v, r) /\ Before(v, w)
         /\ n = r[l] + 1 /\ ~Before(v, r) /\ Before(v, w) => Within(v, r)
         /\ Before(v, r) => Before(v, w) /\ ~Within(v, r)
<1>1. l \in Nat \ {0} /\ Len(v) \in Nat
  BY DEF Releases
<1>2. DOMAIN r = 1..l /\ DOMAIN v = 1..Len(v) /\ DOMAIN w = 1..l
  BY DEF Releases, WithLast
<1>3. (\A i \in 1..l : r[i] \in Nat) /\ (\A i \in 1..Len(v) : v[i] \in Nat)
  BY DEF Releases
<1>4. \A i \in 1..l : w[i] = IF i = l THEN n ELSE r[i]
  BY <1>2 DEF WithLast
<1>a. \A i \in Int : Part(v, i) \in Nat /\ Part(r, i) \in Nat /\ Part(w, i) \in Nat
  BY <1>2, <1>3, <1>4 DEF Part
<1>b. \A i \in 1..l : Part(r, i) = r[i] /\ Part(w, i) = IF i = l THEN n ELSE r[i]
  BY <1>2, <1>4 DEF Part
<1>c. \A i \in Int : i \notin 1..l => Part(r, i) = 0 /\ Part(w, i) = 0
  BY <1>2 DEF Part
<1> DEFINE P == [i \in Int |-> Part(v, i)]
           Q == [i \in Int |-> Part(r, i)]
           U == [i \in Int |-> Part(w, i)]
           D == 1..Len(v) \cup 1..l
<1>5. P \in [Int -> Nat] /\ Q \in [Int -> Nat] /\ U \in [Int -> Nat]
  BY <1>a
<1>6. l \in 1..l /\ Q[l] = r[l]
  BY <1>1, <1>b
<1>7. \A i \in Int : i \notin 1..l => Q[i] = 0
  BY <1>c
<1>8. \A i \in Int : U[i] = IF i = l THEN n ELSE Q[i]
  BY <1>b, <1>c, <1>6
<1>9. Before(v, r) <=> Lower(P, Q, D)
  BY <1>2 DEF Before, Lower
<1>10. Before(v, w) <=> Lower(P, U, D)
  BY <1>2 DEF Before, Lower
<1>11. Within(v, r) <=> Begins(P, Q, l)
  BY <1>2, <1>b DEF Within, Begins
<1> HIDE DEF P, Q, U
<1>12. Counted(Q, U, l, n)
  BY <1>6, <1>7, <1>8 DEF Counted
<1>13. /\ Begins(P, Q, l) => ~Lower(P, Q, D) /\ Lower(P, U, D)
       /\ n = Q[l] + 1 /\ ~Lower(P, Q, D) /\ Lower(P, U, D) => Begins(P, Q, l)
       /\ Lower(P, Q, D) => Lower(P, U, D) /\ ~Begins(P, Q, l)
  <2>1. l \in Nat \ {0} /\ n \in Nat
    BY <1>1
  <2>2. 1..l \subseteq D /\ D \subseteq Nat \ {0}
    BY <1>1
  <2> HIDE DEF D
  <2> QED
    BY ONLY <2>1, <2>2, <1>5, <1>12, SeriesOfNumbers
<1> QED
  BY <1>6, <1>9, <1>10, <1>11, <1>13

LEMMA UptoRelease ==
  ASSUME NEW r \in Releases, Len(r) > 1
  PROVE  /\ Upto(r) \in Releases /\ Upto(r) # <<>> /\ Len(Upto(r)) = Len(r) - 1
         /\ \A i \in 1..(Len(r) - 1) : Upto(r)[i] = r[i]
<1>1. Len(r) \in Nat /\ \A i \in 1..(Len(r) - 1) : r[i] \in Nat
  BY DEF Releases
<1>2. /\ SubSeq(r, 1, Len(r) - 1) \in Seq(Nat)
      /\ Len(SubSeq(r, 1, Len(r) - 1)) = Len(r) - 1
      /\ \A i \in 1..(Len(r) - 1) : SubSeq(r, 1, Len(r) - 1)[i] = r[i]
  BY <1>1, SubSeqProperties
<1>3. Upto(r) = SubSeq(r, 1, Len(r) - 1)
  BY DEF Upto
<1>4. Upto(r) \in Seq(Nat) /\ Len(Upto(r)) > 0
  BY <1>1, <1>2, <1>3
<1>5. Upto(r) # <<>>
  BY <1>4
<1>6. \A i \in 1..(Len(r) - 1) : Upto(r)[i] = r[i]
  BY <1>2, <1>3
<1> QED
  BY <1>2, <1>3, <1>4, <1>5, <1>6 DEF Releases

LEMMA WithLastRelease ==
  ASSUME NEW r \in Releases, r # <<>>, NEW n \in Nat
  PROVE  WithLast(r, n) \in Releases
<1>1. Len(r) \in 1..Len(r)
  BY DEF Releases
<1> QED
  BY <1>1 DEF WithLast, Releases

(* What is before the beginning of a release is before the release.         *)
LEMMA BeforeUpto ==
  ASSUME NEW v \in Releases, NEW r \in Releases, Len(r) > 1, Before(v, Upto(r))
  PROVE  Before(v, r)
<1> DEFINE u == Upto(r)
<1>1. u \in Releases /\ Len(u) = Len(r) - 1 /\ \A i \in 1..(Len(r) - 1) : u[i] = r[i]
  BY UptoRelease
<1>2. DOMAIN u = 1..(Len(r) - 1) /\ DOMAIN r = 1..Len(r) /\ DOMAIN v = 1..Len(v)
  BY <1>1 DEF Releases
<1>3. \A i \in 1..(Len(r) - 1) : Part(u, i) = Part(r, i)
  BY <1>1, <1>2 DEF Part, Releases
<1>4. \A i \in Int : Part(v, i) \in Nat /\ (i \notin 1..(Len(r) - 1) => Part(u, i) = 0)
  BY <1>2 DEF Part, Releases
<1> HIDE DEF u
<1>5. PICK i \in DOMAIN v \cup DOMAIN u :
        Part(v, i) < Part(u, i) /\ \A j \in 1..(i - 1) : Part(v, j) = Part(u, j)
  BY DEF Before, u
<1>6. i \in Int /\ Len(r) \in Nat
  BY <1>2, <1>5 DEF Releases
<1>7. i \in 1..(Len(r) - 1)
  BY <1>4, <1>5, <1>6
<1>8. i \in DOMAIN r /\ Part(v, i) < Part(r, i)
  BY <1>2, <1>3, <1>5, <1>6, <1>7
<1>9. \A j \in 1..(i - 1) : Part(v, j) = Part(r, j)
  BY <1>3, <1>5, <1>6, <1>7
<1> QED
  BY <1>8, <1>9 DEF Before

LEMMA BumpCounts ==
  ASSUME NEW n \in Nat
  PROVE  /\ Bump(n) \in Nat /\ Bump(n) > n
         /\ ~(n > 9 /\ n % 10 = 9) => Bump(n) = n + 1
BY DEF Bump

(* The end of a series: with its last number counted up.                    *)
LEMMA StarRange ==
  ASSUME NEW v \in Releases, NEW r \in Releases, r # <<>>
  PROVE  LET end == WithLast(r, Bump(r[Len(r)]))
             wrong == r[Len(r)] > 9 /\ r[Len(r)] % 10 = 9
         IN /\ end \in Releases
            /\ Within(v, r) => ~Before(v, r) /\ Before(v, end)
            /\ ~wrong /\ ~Before(v, r) /\ Before(v, end) => Within(v, r)
            /\ Before(v, r) => ~Within(v, r)
            /\ ~Before(v, end) => ~Within(v, r)
<1> DEFINE n == r[Len(r)]
           end == WithLast(r, Bump(n))
<1>1. n \in Nat
  BY DEF Releases
<1>2. Bump(n) \in Nat /\ Bump(n) > n /\ (~(n > 9 /\ n % 10 = 9) => Bump(n) = n + 1)
  BY <1>1, BumpCounts
<1>3. end \in Releases
  BY <1>2, WithLastRelease
<1>4. /\ Within(v, r) => ~Before(v, r) /\ Before(v, end)
      /\ Bump(n) = n + 1 /\ ~Before(v, r) /\ Before(v, end) => Within(v, r)
      /\ Before(v, r) => Before(v, end) /\ ~Within(v, r)
  <2> HIDE DEF end
  <2>1. end = WithLast(r, Bump(n))
    BY DEF end
  <2> QED
    BY <1>2, <2>1, SeriesAsRange
<1> QED
  BY <1>2, <1>3, <1>4

LEMMA CompatibleRange ==
  ASSUME NEW v \in Releases, NEW r \in Releases, Len(r) > 1
  PROVE  LET end == WithLast(Upto(r), r[Len(r) - 1] + 1)
         IN /\ end \in Releases
            /\ Within(v, Upto(r)) => Before(v, end)
            /\ ~Before(v, r) /\ Before(v, end) => Within(v, Upto(r))
<1> DEFINE u == Upto(r)
           l == Len(r) - 1
           end == WithLast(u, r[l] + 1)
<1>1. u \in Releases /\ u # <<>> /\ l = Len(u) /\ l \in 1..l /\ u[l] = r[l]
  BY UptoRelease DEF Releases
<1>r. r[l] \in Nat
  BY DEF Releases
<1>2. r[l] \in Nat /\ r[l] + 1 \in Nat /\ r[l] + 1 > u[l] /\ r[l] + 1 = u[l] + 1
  BY <1>1, <1>r
<1>3. end \in Releases
  BY <1>1, <1>2, WithLastRelease
<1>4. /\ Within(v, u) => Before(v, end)
      /\ ~Before(v, u) /\ Before(v, end) => Within(v, u)
  <2> DEFINE n == r[l] + 1
  <2>1. end = WithLast(u, n) /\ n \in Nat /\ n > u[l] /\ n = u[l] + 1
    BY <1>1, <1>2
  <2> HIDE DEF end, u, l, n
  <2> QED
    BY <1>1, <2>1, SeriesAsRange
<1>5. Before(v, u) => Before(v, r)
  BY BeforeUpto
<1> QED
  BY <1>3, <1>4, <1>5

LEMMA AdmitsClause ==
  ASSUME NEW r, NEW v
  PROVE  /\ Admits(Clause(">=", r), v) <=> ~Before(v, r)
         /\ Admits(Clause("<", r), v) <=> Before(v, r)
         /\ Admits(Clause("==", r), v) <=> Same(v, r)
BY DEF Admits, Clause

LEMMA ClauseInClauses ==
  ASSUME NEW op \in Operators, NEW r \in Releases
  PROVE  Clause(op, r) \in Clauses
BY DEF Clause, Clauses

LEMMA NotShort ==
  ASSUME NEW r \in Releases, r # <<>>, Len(r) # 1
  PROVE  Len(r) > 1
<1>1. r \in Seq(Nat) /\ Len(r) \in Nat
  BY DEF Releases
<1>2. Len(r) # 0
  BY <1>1
<1>3. \A l \in Nat : l # 0 /\ l # 1 => l > 1
  OBVIOUS
<1> QED
  BY <1>1, <1>2, <1>3, Zenon

(* What one specifier is converted to: it admits all that the specifier       *)
(* admits, and nothing else, with the exceptions the properties name.         *)
LEMMA ConvertKeeps ==
  ASSUME NEW c \in Clauses, ~GivesUp(c), NEW v \in Releases
  PROVE  /\ Convert(c) \subseteq Clauses
         /\ ~Emptied(c) /\ Admits(c, v) => \A d \in Convert(c) : Admits(d, v)
         /\ c.op # "===" /\ ~WrongBump(c) /\ (\A d \in Convert(c) : Admits(d, v)) =>
              Admits(c, v)
<1> DEFINE r == c.release
           end == WithLast(r, Bump(r[Len(r)]))
           next == WithLast(Upto(r), r[Len(r) - 1] + 1)
<1>1. r \in Releases /\ r # <<>> /\ c.op \in Operators /\ c.star \in BOOLEAN
  BY DEF Clauses, GivesUp
<1>2. /\ end \in Releases
      /\ Within(v, r) => ~Before(v, r) /\ Before(v, end)
      /\ ~WrongBump(c) /\ c.star /\ ~Before(v, r) /\ Before(v, end) => Within(v, r)
      /\ Before(v, r) => ~Within(v, r)
      /\ ~Before(v, end) => ~Within(v, r)
  BY <1>1, StarRange DEF WrongBump
<1> HIDE DEF end
<1>3. CASE c.star /\ c.op \in {"==", "==="}
  <2>1. Convert(c) = {Clause(">=", r), Clause("<", end)}
    BY <1>3 DEF Convert, end
  <2>2. c.op = "==" => (Admits(c, v) <=> Within(v, r))
    BY <1>3 DEF Admits
  <2>3. c.op = "===" => (Admits(c, v) => Within(v, r))
    BY <1>1, <1>3 DEF Admits, Within, Part
  <2>4. Convert(c) \subseteq Clauses
    BY <1>1, <1>2, <2>1, ClauseInClauses DEF Operators
  <2> QED
    BY <1>2, <1>3, <2>1, <2>2, <2>3, <2>4, AdmitsClause
<1>4. CASE ~c.star /\ c.op \in {"==", "==="}
  <2>1. Convert(c) = {Clause("==", r)}
    BY <1>4 DEF Convert
  <2>2. c.op = "==" => (Admits(c, v) <=> Same(v, r))
    BY <1>4 DEF Admits
  <2>3. c.op = "===" => (Admits(c, v) => Same(v, r))
    BY <1>4 DEF Admits, Same
  <2>4. Convert(c) \subseteq Clauses
    BY <1>1, <2>1, ClauseInClauses DEF Operators
  <2> QED
    BY <1>4, <2>1, <2>2, <2>3, <2>4, AdmitsClause
<1>5. CASE c.star /\ c.op = "!="
  <2>1. Convert(c) = {Clause("<", r), Clause(">=", end)}
    BY <1>5 DEF Convert, end
  <2>2. Admits(c, v) <=> ~Within(v, r)
    BY <1>5 DEF Admits
  <2>3. Convert(c) \subseteq Clauses
    BY <1>1, <1>2, <2>1, ClauseInClauses DEF Operators
  <2>4. Emptied(c)
    BY <1>5 DEF Emptied
  <2> QED
    BY <1>2, <2>1, <2>2, <2>3, <2>4, AdmitsClause
<1>6. CASE c.op = "~="
  <2>1. Convert(c) = {Clause(">=", r), Clause("<", next)}
    BY <1>6 DEF Convert
  <2>2. Admits(c, v) <=> ~Before(v, r) /\ Within(v, Upto(r))
    BY <1>6 DEF Admits
  <2>3. Len(r) > 1
    <3>1. Len(r) # 1
      BY <1>6 DEF GivesUp
    <3> QED
      BY <1>1, <3>1, NotShort
  <2>4. /\ next \in Releases
        /\ Within(v, Upto(r)) => Before(v, next)
        /\ ~Before(v, r) /\ Before(v, next) => Within(v, Upto(r))
    BY <1>1, <2>3, CompatibleRange
  <2> HIDE DEF next
  <2>5. Convert(c) \subseteq Clauses
    BY <1>1, <2>1, <2>4, ClauseInClauses DEF Operators
  <2> QED
    BY <2>1, <2>2, <2>4, <2>5, AdmitsClause
<1>7. CASE c.op \notin {"==", "===", "~="} /\ ~(c.star /\ c.op = "!=")
  <2>1. Convert(c) = {c}
    BY <1>7 DEF Convert
  <2> QED
    BY <2>1
<1> QED
  BY <1>3, <1>4, <1>5, <1>6, <1>7

(* Where a release is, compared with the version 3.m.                         *)
LEMMA AgainstPython ==
  ASSUME NEW r \in Releases, r # <<>>, NEW m \in Nat,
         NEW v, v = <<3, m>>, NEW x, x = Part(r, 1), NEW y, y = Part(r, 2)
  PROVE  /\ x \in Nat /\ y \in Nat /\ x = r[1]
         /\ Same(v, r) => x = 3 /\ y = m
         /\ Within(v, r) => x = 3 /\ (Len(r) # 1 => y = m)
         /\ v = r => x = 3
         /\ x < 3 => ~Before(v, r) /\ Before(r, v)
         /\ x = 3 /\ y <= m /\ ~(Len(r) > 2) => ~Before(v, r)
         /\ x = 3 /\ y >= m => ~Before(r, v)
<1>1. r \in Seq(Nat)
  BY DEF Releases
<1> DEFINE n == Len(r)
<1>2. n \in Nat /\ n # 0 /\ DOMAIN r = 1..n
  BY <1>1
<1>3. n >= 1
  BY <1>2
<1>4. DOMAIN v = 1..2
  OBVIOUS
<1>5. \A i \in 1..n : r[i] \in Nat
  BY <1>1
<1> HIDE DEF n
<1>6. \A i \in Int : Part(r, i) \in Nat
  BY <1>2, <1>5 DEF Part
<1>7. \A i \in 1..n : Part(r, i) = r[i]
  BY <1>2 DEF Part
<1>8. x = r[1] /\ x \in Nat /\ y \in Nat
  <2>1. 1 \in 1..n
    BY <1>2, <1>3
  <2>2. Part(r, 1) = r[1]
    BY <1>7, <2>1
  <2>3. Part(r, 1) \in Nat /\ Part(r, 2) \in Nat
    BY <1>6
  <2> QED
    BY <2>2, <2>3
<1>9. Part(v, 1) = 3 /\ Part(v, 2) = m /\ \A i \in Int : i \notin 1..2 => Part(v, i) = 0
  BY <1>4 DEF Part
<1>10. Same(v, r) => x = 3 /\ y = m
  <2>1. 1 \in DOMAIN v \cup DOMAIN r /\ 2 \in DOMAIN v \cup DOMAIN r
    BY <1>4
  <2> QED
    BY <1>9, <2>1 DEF Same
<1>11. Within(v, r) => x = 3 /\ (n # 1 => y = m)
  <2>1. 1 \in DOMAIN r /\ (n # 1 => 2 \in DOMAIN r)
    BY <1>2, <1>3
  <2>2. (1 \in DOMAIN r => Part(r, 1) = r[1]) /\ (2 \in DOMAIN r => Part(r, 2) = r[2])
    BY <1>2, <1>7
  <2> QED
    BY <1>9, <2>1, <2>2 DEF Within
<1>12. v = r => x = 3
  BY <1>8
<1>13. x < 3 => ~Before(v, r) /\ Before(r, v)
  <2>1. ASSUME x < 3, Before(v, r) PROVE FALSE
    <3>1. PICK i \in DOMAIN v \cup DOMAIN r :
            Part(v, i) < Part(r, i) /\ \A j \in 1..(i - 1) : Part(v, j) = Part(r, j)
      BY <2>1 DEF Before
    <3>2. i \in Nat /\ i # 0
      BY <1>2, <1>4
    <3>3. i # 1 => 1 \in 1..(i - 1)
      BY <3>2
    <3>4. Part(v, 1) = 3 /\ x = Part(r, 1)
      BY <1>9
    <3>5. i # 1
      BY <1>8, <2>1, <3>1, <3>4
    <3> QED
      BY <1>8, <2>1, <3>1, <3>3, <3>4, <3>5
  <2>2. x < 3 => Before(r, v)
    <3>1. 1 \in DOMAIN r /\ 1..(1 - 1) = {}
      BY <1>2, <1>3
    <3> QED
      BY <1>9, <3>1 DEF Before
  <2> QED
    BY <2>1, <2>2
<1>14. ASSUME x = 3, y <= m, ~(n > 2), Before(v, r) PROVE FALSE
  <2>1. PICK i \in DOMAIN v \cup DOMAIN r : Part(v, i) < Part(r, i)
    BY <1>14 DEF Before
  <2>2. i \in Int /\ i >= 1 /\ i <= 2
    BY <1>2, <1>4, <1>14
  <2>3. i = 1 \/ i = 2
    BY <2>2
  <2> QED
    BY <1>8, <1>9, <1>14, <2>1, <2>3
<1>15. ASSUME x = 3, y >= m, Before(r, v) PROVE FALSE
  <2>1. PICK i \in DOMAIN r \cup DOMAIN v : Part(r, i) < Part(v, i)
    BY <1>15 DEF Before
  <2>2. i \in Int
    BY <1>2, <1>4
  <2>3. i \notin 1..2 => Part(v, i) = 0 /\ Part(r, i) \in Nat
    BY <1>6, <1>9, <2>2
  <2>4. i \in 1..2
    BY <2>1, <2>3
  <2>5. i = 1 \/ i = 2
    BY <2>4
  <2> QED
    BY <1>8, <1>9, <1>15, <2>1, <2>5
<1> QED
  BY <1>8, <1>10, <1>11, <1>12, <1>13, <1>14, <1>15 DEF n

(* A comparison that is_compatible_python_version takes for false does not hold
   for the lowest Python supported, unless it is one that is misread. *)
LEMMA TestRead ==
  ASSUME NEW t \in Comparisons, Decides(t), ~Passes(t), ~MisreadTest(t)
  PROVE  ~Satisfied(t)
<1> DEFINE r == t.release
           v == <<3, MinMinor>>
<1>1. /\ r \in Releases /\ r # <<>> /\ t.op \in Operators
      /\ t.op = "~=" => Len(r) > 1
  BY DEF Comparisons, Clauses
<1>2. Minor(t) = Part(r, 2)
  BY DEF Minor
<1>3. Major(t) = Part(r, 1)
  <2>1. 1 \in DOMAIN r
    BY <1>1 DEF Releases
  <2> QED
    BY <2>1 DEF Major, Part
<1>4. /\ Major(t) \in Nat /\ Minor(t) \in Nat
      /\ Same(v, r) => Major(t) = 3 /\ Minor(t) = MinMinor
      /\ Within(v, r) => Major(t) = 3 /\ (Len(r) # 1 => Minor(t) = MinMinor)
      /\ v = r => Major(t) = 3
      /\ Major(t) < 3 => ~Before(v, r) /\ Before(r, v)
      /\ Major(t) = 3 /\ Minor(t) <= MinMinor /\ ~(Len(r) > 2) => ~Before(v, r)
      /\ Major(t) = 3 /\ Minor(t) >= MinMinor => ~Before(r, v)
  BY <1>1, <1>2, <1>3, AgainstPython, MinMinorAssumption
<1> DEFINE x == Major(t)
           y == Minor(t)
<1>5. Satisfied(t) <=> Admits(t, v)
  BY DEF Satisfied
<1>6. Decides(t) <=> (x < 3 /\ t.op \notin {">", ">="})
                       \/ (x = 3 /\ t.op \in {"==", "<", "<=", ">", ">="})
  BY DEF Decides
<1> HIDE DEF v, x, y
<1>7. CASE t.op = "=="
  <2>1. Admits(t, v) <=> IF t.star THEN Within(v, r) ELSE Same(v, r)
    BY <1>7 DEF Admits
  <2>2. ~(t.star /\ Len(r) = 1)
    BY <1>7 DEF MisreadTest
  <2>3. ~(x = 3 /\ y >= MinMinor)
    BY <1>7 DEF Passes, x, y
  <2>4. ~(x = 3 /\ y = MinMinor)
    BY <2>3, MinMinorAssumption
  <2> QED
    BY <1>4, <1>5, <2>1, <2>2, <2>4 DEF x, y
<1>8. CASE t.op = "==="
  <2>1. Admits(t, v) <=> v = r
    BY <1>8 DEF Admits
  <2>2. x < 3
    BY <1>6, <1>8
  <2>3. x # 3
    BY <2>2
  <2> QED
    BY <1>4, <1>5, <2>1, <2>3 DEF x
<1>9. CASE t.op = "!="
  BY <1>6, <1>9 DEF MisreadTest, x
<1>10. CASE t.op = "<"
  <2>1. Admits(t, v) <=> Before(v, r)
    BY <1>10 DEF Admits
  <2>2. ~(Len(r) > 2)
    BY <1>10 DEF MisreadTest
  <2>3. x < 3 \/ (x = 3 /\ y <= MinMinor)
    <3>1. ~(x = 3 /\ y > MinMinor)
      BY <1>10 DEF Passes, x, y
    <3>2. y \in Nat
      BY <1>4 DEF y
    <3> QED
      BY <1>6, <1>10, <3>1, <3>2, MinMinorAssumption
  <2> QED
    BY <1>4, <1>5, <2>1, <2>2, <2>3 DEF x, y
<1>11. CASE t.op = "<="
  <2>1. Admits(t, v) <=> ~Before(r, v)
    BY <1>11 DEF Admits
  <2>2. x # 3
    BY <1>11 DEF Passes, x
  <2> QED
    BY <1>4, <1>5, <1>6, <2>1, <2>2 DEF x
<1>12. CASE t.op = ">"
  <2>1. Admits(t, v) <=> Before(r, v)
    BY <1>12 DEF Admits
  <2>2. x = 3 /\ ~(y < MinMinor)
    BY <1>6, <1>12 DEF Passes, x, y
  <2>3. y >= MinMinor
    BY <1>4, <2>2, MinMinorAssumption DEF y
  <2> QED
    BY <1>4, <1>5, <2>1, <2>2, <2>3 DEF x, y
<1>13. CASE t.op = ">="
  BY <1>6, <1>13 DEF Passes, x
<1>14. CASE t.op = "~="
  <2>1. Admits(t, v) => Within(v, Upto(r))
    BY <1>14 DEF Admits
  <2>2. /\ Upto(r) \in Releases /\ Upto(r) # <<>>
        /\ \A i \in 1..(Len(r) - 1) : Upto(r)[i] = r[i]
    BY <1>1, <1>14, UptoRelease
  <2>3. Within(v, Upto(r)) => Upto(r)[1] = 3
    BY <2>2, AgainstPython, MinMinorAssumption DEF v
  <2>4. Upto(r)[1] = r[1]
    <3>1. Len(r) \in Nat
      BY <1>1 DEF Releases
    <3> QED
      BY <1>1, <1>14, <2>2, <3>1
  <2>5. x = r[1]
    BY DEF x, Major
  <2>6. x < 3
    BY <1>6, <1>14
  <2> QED
    BY <1>5, <2>1, <2>3, <2>4, <2>5, <2>6
<1> QED
  BY <1>1, <1>7, <1>8, <1>9, <1>10, <1>11, <1>12, <1>13, <1>14 DEF Operators

(* A Python requirement is skipped only for a marker that does not hold for   *)
(* the lowest Python supported, unless the marker is a disjunction, excludes  *)
(* a Python 2, names a series of a major version (== "3.*"), or compares with *)
(* a release that has a third number (< "3.14.5").                            *)
THEOREM MarkerRead ==
  ASSUME NEW m \in Markers, ~IsCompatible(m), ~Misread(m)
  PROVE  ~Holds(m)
<1>1. PICK i \in DOMAIN m.tests : Decides(m.tests[i]) /\ ~Passes(m.tests[i])
  BY DEF IsCompatible
<1>2. m.tests[i] \in Comparisons
  BY DEF Markers
<1>3. ~MisreadTest(m.tests[i]) /\ ~m.or
  BY DEF Misread
<1>4. ~Satisfied(m.tests[i])
  BY <1>1, <1>2, <1>3, TestRead
<1> QED
  BY <1>3, <1>4 DEF Holds

-----------------------------------------------------------------------------
(* The stored constraint of the specifiers of one requirement.               *)

LEMMA ParsedNotNarrower ==
  ASSUME NEW cs \in SUBSET Clauses, \A c \in cs : ~Emptied(c),
         NEW v \in Releases, \A c \in cs : Admits(c, v)
  PROVE  AllAdmit(ParseConstraints(cs), v)
<1>1. CASE \E c \in cs : GivesUp(c)
  BY <1>1 DEF ParseConstraints, AllAdmit
<1>2. CASE ~\E c \in cs : GivesUp(c)
  <2>1. ParseConstraints(cs) = UNION {Convert(c) : c \in cs}
    BY <1>2 DEF ParseConstraints
  <2>2. \A c \in cs : \A d \in Convert(c) : Admits(d, v)
    BY <1>2, ConvertKeeps
  <2> QED
    BY <2>1, <2>2 DEF AllAdmit
<1> QED
  BY <1>1, <1>2

LEMMA ParsedNotWider ==
  ASSUME NEW cs \in SUBSET Clauses,
         \A c \in cs : ~GivesUp(c) /\ c.op # "===" /\ ~WrongBump(c),
         NEW v \in Releases, AllAdmit(ParseConstraints(cs), v)
  PROVE  \A c \in cs : Admits(c, v)
<1>1. ParseConstraints(cs) = UNION {Convert(c) : c \in cs}
  BY DEF ParseConstraints
<1>2. \A c \in cs : \A d \in Convert(c) : Admits(d, v)
  BY <1>1 DEF AllAdmit
<1> QED
  BY <1>2, ConvertKeeps

LEMMA GreatestOf ==
  ASSUME NEW n \in Nat, NEW S \in SUBSET (1..n), S # {}
  PROVE  \E i \in S : \A j \in S : j <= i
<1> DEFINE T == {n - i : i \in S}
<1>1. T \in SUBSET Nat /\ T # {}
  <2>1. \A i \in S : n - i \in Nat
    OBVIOUS
  <2> QED
    BY <2>1
<1>2. PICK t \in T : \A u \in T : ~(u < t)
  <2>1. PICK t \in T : \A u \in T : ~(<<u, t>> \in OpToRel(<, Nat))
    <3> HIDE DEF T
    <3> QED
      BY <1>1, NatLessThanWellFounded, WFMin
  <2> QED
    BY <1>1, <2>1 DEF OpToRel
<1>3. PICK i \in S : t = n - i
  OBVIOUS
<1>4. \A j \in S : j <= i
  BY <1>2, <1>3
<1> QED
  BY <1>4

LEMMA LastKept ==
  ASSUME NEW f, NEW doc \in Documents, NEW k \in DOMAIN Packages(f, doc)
  PROVE  /\ Last(f, doc, k) \in Kept(f, doc)
         /\ doc.decls[Last(f, doc, k)] \in Declarations
<1> DEFINE S == {i \in Kept(f, doc) : KeyAt(f, doc, i) = k}
<1>1. doc.decls \in Seq(Declarations) /\ Len(doc.decls) \in Nat
  BY DEF Documents
<1>2. Kept(f, doc) \subseteq 1..Len(doc.decls)
  BY <1>1 DEF Kept
<1>3. S # {} /\ S \in SUBSET (1..Len(doc.decls))
  BY <1>2 DEF Packages
<1>4. \E i \in S : \A j \in S : j <= i
  BY <1>1, <1>3, GreatestOf
<1>5. Last(f, doc, k) \in Kept(f, doc)
  BY <1>4 DEF Last
<1> QED
  BY <1>1, <1>2, <1>5

-----------------------------------------------------------------------------
(* Every entry is what parsing gives for the file of its name, or the entry   *)
(* under a name that NormalizeFilename has changed.                           *)

OwnEntry(name) ==
  /\ name \in DOMAIN tree
  /\ requirement_files[name] = ParseFile(Format(name), name)
  /\ Format(name) \in Keys \/ requirement_files[name] # Nothing

Glued(name) == \E n \in DOMAIN tree : n.dir = "inner" /\ name = NormalizeFilename(n)

Entries ==
  /\ todo \subseteq DOMAIN tree
  /\ \A name \in DOMAIN tree : name.dir # "glued" /\ tree[name] \in Documents
  /\ \A name \in DOMAIN requirement_files : OwnEntry(name) \/ Glued(name)

LEMMA NormalizedName ==
  ASSUME Entries, NEW name \in DOMAIN tree
  PROVE  \/ name.dir = "inner" /\ Glued(NormalizeFilename(name))
         \/ NormalizeFilename(name) = name
BY DEF NormalizeFilename, Glued

LEMMA NewEntry ==
  ASSUME Entries, UNCHANGED tree, todo' \subseteq todo, NEW name \in DOMAIN tree, NEW packages,
         packages = ParseFile(Format(name), NormalizeFilename(name)),
         Format(name) \in Keys \/ packages # Nothing,
         requirement_files' = With(requirement_files, NormalizeFilename(name), packages)
  PROVE  Entries'
<1> DEFINE new == NormalizeFilename(name)
<1>1. /\ DOMAIN requirement_files' = DOMAIN requirement_files \cup {new}
      /\ \A n \in DOMAIN requirement_files' :
           requirement_files'[n] = IF n = new THEN packages ELSE requirement_files[n]
  BY DEF With
<1>2. \A n : Glued(n)' <=> Glued(n)
  BY DEF Glued, NormalizeFilename
<1>3. \A n : Format(n)' = Format(n) /\ ParseFile(Format(n), n)' = ParseFile(Format(n), n)
  BY DEF Format, ParseFile
<1>4. OwnEntry(new)' \/ Glued(new)'
  <2>1. CASE new = name
    BY <1>1, <1>3, <2>1 DEF OwnEntry
  <2>2. CASE new # name
    BY <1>2, <2>2, NormalizedName
  <2> QED
    BY <2>1, <2>2
<1>5. \A n \in DOMAIN requirement_files : n # new => OwnEntry(n)' \/ Glued(n)'
  <2> SUFFICES ASSUME NEW n \in DOMAIN requirement_files, n # new
               PROVE  OwnEntry(n)' \/ Glued(n)'
    OBVIOUS
  <2>1. CASE OwnEntry(n)
    BY <1>1, <1>3, <2>1 DEF OwnEntry
  <2>2. CASE Glued(n)
    BY <1>2, <2>2
  <2> QED
    BY <2>1, <2>2 DEF Entries
<1>6. todo' \subseteq DOMAIN tree' /\ \A n \in DOMAIN tree' : n.dir # "glued" /\ tree'[n] \in Documents
  BY DEF Entries
<1> HIDE DEF new
<1> QED
  BY <1>1, <1>4, <1>5, <1>6 DEF Entries

LEMMA WrittenDocument ==
  ASSUME NEW doc \in Documents, NEW d \in Declarations, NEW i \in 1..(Len(doc.decls) + 1)
  PROVE  Written(doc, i, d) \in Documents
<1>1. doc.decls \in Seq(Declarations)
  BY DEF Documents
<1>2. CASE i > Len(doc.decls)
  BY <1>1, <1>2 DEF Written, Documents
<1>3. CASE ~(i > Len(doc.decls))
  <2>1. i \in 1..Len(doc.decls)
    BY <1>1, <1>3
  <2>2. [doc.decls EXCEPT ![i] = d] \in Seq(Declarations)
    BY <1>1, <2>1, ExceptSeq
  <2> QED
    BY <1>3, <2>2 DEF Written, Documents
<1> QED
  BY <1>2, <1>3

LEMMA SameEntries ==
  ASSUME Entries, UNCHANGED <<tree, requirement_files>>, todo' \subseteq todo
  PROVE  Entries'
BY DEF Entries, OwnEntry, Glued, Format, ParseFile, NormalizeFilename

LEMMA EntriesStep ==
  ASSUME Entries, [Next]_vars
  PROVE  Entries'
<1>1. CASE ListFiles
  BY <1>1 DEF ListFiles, Entries, Nothing
<1>2. ASSUME NEW name \in todo, SkipFile(name) PROVE Entries'
  BY <1>2, SameEntries DEF SkipFile, Take
<1>3. ASSUME NEW name \in todo, Analyze(name) PROVE Entries'
  <2>1. name \in DOMAIN tree
    BY DEF Entries
  <2> QED
    BY <1>3, <2>1, NewEntry DEF Analyze, Take, Format
<1>4. ASSUME NEW name \in todo, AnalyzeSbom(name) PROVE Entries'
  <2> DEFINE packages == ParseFile(Format(name), NormalizeFilename(name))
  <2>1. name \in DOMAIN tree
    BY DEF Entries
  <2>2. UNCHANGED tree /\ todo' \subseteq todo
    BY <1>4 DEF AnalyzeSbom, Take
  <2>3. requirement_files' =
          IF packages = Nothing THEN requirement_files
          ELSE With(requirement_files, NormalizeFilename(name), packages)
    BY <1>4 DEF AnalyzeSbom, Format
  <2>4. CASE packages = Nothing
    BY <2>2, <2>3, <2>4, SameEntries
  <2>5. CASE packages # Nothing
    BY <2>1, <2>2, <2>3, <2>5, NewEntry
  <2> QED
    BY <2>4, <2>5
<1>5. CASE Return
  BY <1>5, SameEntries DEF Return
<1>6. ASSUME NEW name \in DOMAIN tree, NEW i \in 1..3, NEW d \in Edits, Push(name, i, d)
      PROVE  Entries'
  <2>1. tree[name] \in Documents /\ d \in Declarations
    BY EditsAssumption DEF Entries
  <2>2. i \in 1..(Len(tree[name].decls) + 1)
    BY <1>6 DEF Push
  <2>3. Written(tree[name], i, d) \in Documents
    BY <2>1, <2>2, WrittenDocument
  <2>4. /\ tree' = [tree EXCEPT ![name] = Written(tree[name], i, d)]
        /\ requirement_files' = Nothing /\ todo' = todo
    BY <1>6 DEF Push
  <2>5. DOMAIN tree' = DOMAIN tree /\ \A n \in DOMAIN tree : tree'[n] \in Documents
    BY <2>3, <2>4 DEF Entries
  <2> QED
    BY <2>4, <2>5 DEF Entries, Nothing
<1>7. CASE UNCHANGED vars
  BY <1>7, SameEntries DEF vars
<1> QED
  BY <1>1, <1>2, <1>3, <1>4, <1>5, <1>6, <1>7 DEF Next

LEMMA EntriesInit == Init => Entries
BY TreesAssumption DEF Init, Entries, Nothing

LEMMA EntriesAlways == Spec => []Entries
<1> QED
  BY EntriesInit, EntriesStep, PTL DEF Spec

(* An entry without packages is explained, for all trees and all pushes.      *)
THEOREM EmptyEntries == Spec => []EmptyExplained
<1>1. Entries => EmptyExplained
  <2> SUFFICES ASSUME Entries, NEW name \in DOMAIN requirement_files,
                      requirement_files[name] = Nothing, OwnEntry(name)
               PROVE  /\ name \in DOMAIN tree /\ Format(name) \in Keys
                      /\ \/ Raises(Format(name), tree[name])
                         \/ Format(name) = "go.mod" /\ name.dir # "root"
                         \/ Kept(Format(name), tree[name]) = {}
    BY DEF EmptyExplained, Entries, Glued
  <2>1. name \in DOMAIN tree /\ Format(name) \in Keys
    BY DEF OwnEntry
  <2>2. ASSUME Packages(Format(name), tree[name]) = Nothing
        PROVE  Kept(Format(name), tree[name]) = {}
    <3>1. DOMAIN Nothing = {}
      BY DEF Nothing
    <3>2. {KeyAt(Format(name), tree[name], i) : i \in Kept(Format(name), tree[name])} = {}
      BY <2>2, <3>1 DEF Packages
    <3> QED
      BY <3>2
  <2> QED
    BY <2>1, <2>2 DEF OwnEntry, ParseFile
<1> QED
  BY <1>1, EntriesAlways, PTL

(* What was stored for a Python requirement is ParseConstraints of a declared *)
(* set of specifiers.                                                         *)
LEMMA StoredConstraint ==
  ASSUME Entries, NEW name \in Read, NEW k \in Parsed(name)
  PROVE  /\ Source(name, k).clauses \in SUBSET Clauses
         /\ requirement_files[name][k].clauses = ParseConstraints(Source(name, k).clauses)
<1> DEFINE f == Format(name)
<1>1. OwnEntry(name) /\ tree[name] \in Documents
  BY DEF Read, Entries, Glued, NormalizeFilename
<1>2. k \in DOMAIN requirement_files[name] /\ requirement_files[name][k].how = "parsed"
  BY DEF Parsed
<1>3. requirement_files[name] = Packages(f, tree[name])
  BY <1>1, <1>2 DEF OwnEntry, ParseFile, Nothing
<1>4. /\ Source(name, k) \in Declarations
      /\ Source(name, k) = tree[name].decls[Last(f, tree[name], k)]
  BY <1>1, <1>2, <1>3, LastKept DEF Source
<1>5. requirement_files[name][k] = Constraint(f, Source(name, k))
  BY <1>2, <1>3, <1>4 DEF Packages
<1>6. requirement_files[name][k].clauses = ParseConstraints(Source(name, k).clauses)
  BY <1>2, <1>5 DEF Constraint
<1> QED
  BY <1>4, <1>6 DEF Declarations

(* The stored constraint admits all that the requirement admits.              *)
THEOREM StoredNotNarrower == Spec => []NeverNarrower
<1>1. Entries => NeverNarrower
  BY StoredConstraint, ParsedNotNarrower, VersionsAssumption DEF NeverNarrower
<1> QED
  BY <1>1, EntriesAlways, PTL

(* It admits nothing else, outside the cases that NeverWider excepts.         *)
THEOREM StoredNotWider == Spec => []NeverWider
<1>1. Entries => NeverWider
  BY StoredConstraint, ParsedNotWider, VersionsAssumption DEF NeverWider
<1> QED
  BY <1>1, EntriesAlways, PTL

-----------------------------------------------------------------------------
(* What each format may read of a declaration.                              *)

(* What AnalyzerRegistry chooses for a file is an analyzer for names or, from the
   content of a document that can be parsed, one of the two for SBOMs. *)
LEMMA KeyOrSbom ==
  ASSUME NEW name, NEW doc, GetAnalyzer(name, doc) # None
  PROVE  /\ GetAnalyzer(name, doc) \in Keys \cup Sboms
         /\ GetAnalyzer(name, doc) \in Sboms =>
              GetAnalyzer(name, doc) = doc.kind /\ ~doc.broken
<1>1. DetectSbomFormat(name.base, doc) # None =>
        /\ DetectSbomFormat(name.base, doc) \in Sboms
        /\ DetectSbomFormat(name.base, doc) = doc.kind /\ ~doc.broken
  BY DEF DetectSbomFormat
<1> DEFINE sbom == DetectSbomFormat(name.base, doc)
<1>2. Keys \cap Sboms = {}
  BY DEF Keys, Sboms
<1>3. {"requirements.txt", "Gemfile", "package.json", "package-lock.json"} \subseteq Keys
  BY DEF Keys
<1>4. GetAnalyzer(name, doc) \in Keys \cup {sbom}
  BY <1>3 DEF GetAnalyzer
<1> HIDE DEF sbom
<1> QED
  BY <1>1, <1>2, <1>4 DEF sbom

(* The choice looks at nothing of a document but what detect_sbom_format sees. *)
LEMMA SameAnalyzer ==
  ASSUME NEW name, NEW d, NEW e, d.broken = e.broken, d.kind = e.kind
  PROVE  GetAnalyzer(name, d) = GetAnalyzer(name, e)
BY DEF GetAnalyzer, DetectSbomFormat

Outcomes ==
  {"pinned", "written", "any", "null", "parsed", "ignored", "ends", "raises"}

(* Each format reads a declaration in one of eight ways; a Python requirement is
   parsed, and an SBOM reads no component whose type it does not know. *)
LEMMA ReadingsOf ==
  ASSUME NEW f \in Keys \cup Sboms, NEW form \in DOMAIN Readings(f)
  PROVE  /\ Readings(f)[form] \in Outcomes
         /\ form = "requirement" => Readings(f)[form] = "parsed"
         /\ f \in Sboms /\ Readings(f)[form] # "ignored" => form \in DOMAIN Purls
<1> DEFINE ok(r) == /\ r[form] \in Outcomes
                    /\ form = "requirement" => r[form] = "parsed"
<1>1. CASE f = "Cargo.lock"
  <2>1. Readings(f) = CargoLock
    BY <1>1 DEF Readings, Sboms
  <2> QED
    BY <1>1, <2>1 DEF CargoLock, Outcomes, Sboms
<1>2. CASE f = "Cargo.toml"
  <2>1. Readings(f) = CargoToml
    BY <1>2 DEF Readings, Sboms
  <2> QED
    BY <1>2, <2>1 DEF CargoToml, Outcomes, Sboms
<1>3. CASE f = "Gemfile"
  <2>1. Readings(f) = Gemfile
    BY <1>3 DEF Readings, Sboms
  <2> QED
    BY <1>3, <2>1 DEF Gemfile, Outcomes, Sboms
<1>4. CASE f = "Gemfile.lock"
  <2>1. Readings(f) = GemfileLock
    BY <1>4 DEF Readings, Sboms
  <2> QED
    BY <1>4, <2>1 DEF GemfileLock, Outcomes, Sboms
<1>5. CASE f = "package.json"
  <2>1. Readings(f) = PackageJson
    BY <1>5 DEF Readings, Sboms
  <2> QED
    BY <1>5, <2>1 DEF PackageJson, Outcomes, Sboms
<1>6. CASE f = "package-lock.json"
  <2>1. Readings(f) = PackageLock
    BY <1>6 DEF Readings, Sboms
  <2> QED
    BY <1>6, <2>1 DEF PackageLock, Outcomes, Sboms
<1>7. CASE f = "packages.config"
  <2>1. Readings(f) = PackagesConfig
    BY <1>7 DEF Readings, Sboms
  <2> QED
    BY <1>7, <2>1 DEF PackagesConfig, Outcomes, Sboms
<1>8. CASE f = "pom.xml"
  <2>1. Readings(f) = PomXml
    BY <1>8 DEF Readings, Sboms
  <2> QED
    BY <1>8, <2>1 DEF PomXml, Outcomes, Sboms
<1>9. CASE f = "go.mod"
  <2>1. Readings(f) = GoMod
    BY <1>9 DEF Readings, Sboms
  <2> QED
    BY <1>9, <2>1 DEF GoMod, Outcomes, Sboms
<1>10. CASE f = "requirements.txt"
  <2>1. Readings(f) = RequirementsTxt
    BY <1>10 DEF Readings, Sboms
  <2> QED
    BY <1>10, <2>1 DEF RequirementsTxt, Outcomes, Sboms
<1>11. CASE f = "setup.py"
  <2>1. Readings(f) = SetupPy
    BY <1>11 DEF Readings, Sboms
  <2> QED
    BY <1>11, <2>1 DEF SetupPy, Outcomes, Sboms
<1>12. CASE f = "setup.cfg"
  <2>1. Readings(f) = SetupCfg
    BY <1>12 DEF Readings, Sboms
  <2> QED
    BY <1>12, <2>1 DEF SetupCfg, Outcomes, Sboms
<1>13. CASE f = "pyproject.toml"
  <2>1. Readings(f) = PyProject
    BY <1>13 DEF Readings, Sboms
  <2> QED
    BY <1>13, <2>1 DEF PyProject, Outcomes, Sboms
<1>14. CASE f \in Sboms
  <2>1. Readings(f) = [g \in SbomForms |-> Component(g)]
    BY <1>14 DEF Readings, Sboms
  <2>2. form \in SbomForms /\ Readings(f)[form] = Component(form)
    BY <2>1
  <2>3. form # "requirement"
    BY <2>2 DEF SbomForms, Purls
  <2> QED
    BY <2>2, <2>3 DEF Component, Outcomes
<1> QED
  BY <1>1, <1>2, <1>3, <1>4, <1>5, <1>6, <1>7, <1>8, <1>9, <1>10, <1>11,
     <1>12, <1>13,
     <1>14 DEF Keys

-----------------------------------------------------------------------------
(* What the analysis of tree t makes of the file of a name, when it is done.  *)
Outcome(t, name) ==
  LET f == GetAnalyzer(name, t[name])
  IN IF \/ name.dir \in {"hidden", "inner"} \/ f = None \/ Raises(f, t[name])
        \/ f = "go.mod" /\ name.dir # "root"
     THEN Nothing
     ELSE Packages(f, t[name])

WellFormed(t) ==
  \A name \in DOMAIN t :
    /\ t[name].broken \/ GetAnalyzer(name, t[name]) \in {t[name].kind, None}
    /\ \A i \in DOMAIN t[name].decls :
         /\ t[name].decls[i].form \in DOMAIN Readings(t[name].kind)
         /\ Plain(t[name].decls[i])

(* How far the analysis is.                                                 *)
Progress ==
  /\ phase \in {"downloaded", "reading", "done"}
  /\ todo # {} => phase = "reading"
  /\ \A name \in todo : name.dir # "hidden"
  /\ phase = "downloaded" => requirement_files = Nothing
  /\ phase # "downloaded" => \A name \in DOMAIN tree :
       Found(requirement_files, name) = IF name \in todo THEN Nothing ELSE Outcome(tree, name)

(* What is left of the first analysis after a push.                           *)
History ==
  previous # None =>
    /\ DOMAIN previous.tree = DOMAIN tree
    /\ \A name \in DOMAIN tree :
         /\ previous.tree[name] \in Documents
         /\ previous.tree[name].broken = tree[name].broken
         /\ previous.tree[name].kind = tree[name].kind
         /\ Found(previous.files, name) = Outcome(previous.tree, name)

(* Entries under a name that no file has are empty.                          *)
Absent == \A name \in DOMAIN requirement_files \ DOMAIN tree : requirement_files[name] = Nothing

FilesInv == Entries /\ WellFormed(tree) /\ Progress /\ History /\ Absent

(* An analysis without entries has nothing for any file. *)
LEMMA NothingFound ==
  ASSUME NEW name PROVE Found(Nothing, name) = Nothing
BY DEF Found, Nothing

(* What parse_file makes of a file under its own name is the outcome for it. *)
LEMMA ParseOutcome ==
  ASSUME NEW name \in DOMAIN tree, name.dir \notin {"hidden", "inner"}, Format(name) # None
  PROVE  ParseFile(Format(name), name) = Outcome(tree, name)
BY DEF ParseFile, Outcome, Format

(* Reading one file of todo, with the entry it leaves, if any.                *)
LEMMA ReadStep ==
  ASSUME FilesInv, NEW name \in todo, phase = "reading",
         todo' = todo \ {name}, UNCHANGED <<tree, previous, phase>>,
         Absent', Entries',
         Found(requirement_files', name) = Outcome(tree, name),
         \A n \in DOMAIN tree : n # name =>
            Found(requirement_files', n) = Found(requirement_files, n)
  PROVE  FilesInv'
<1>1. WellFormed(tree)' /\ History'
  BY DEF FilesInv, WellFormed, History, Outcome, Found
<1>2. \A n \in DOMAIN tree : Outcome(tree, n)' = Outcome(tree, n)
  BY DEF Outcome
<1>3. \A n \in DOMAIN tree' :
        Found(requirement_files', n) = IF n \in todo' THEN Nothing ELSE Outcome(tree', n)
  BY <1>2 DEF FilesInv, Progress
<1> HIDE DEF Found, Outcome
<1>4. Progress'
  BY <1>3 DEF FilesInv, Progress
<1> QED
  BY <1>1, <1>4 DEF FilesInv

(* A new entry is found under its name, the others as before. *)
LEMMA FoundWith ==
  ASSUME NEW files, NEW new, NEW packages, NEW n
  PROVE  Found(With(files, new, packages), n) = IF n = new THEN packages ELSE Found(files, n)
BY DEF Found, With

(* A push leaves in a file the declarations it had and the one it writes. *)
LEMMA WrittenDecls ==
  ASSUME NEW doc \in Documents, NEW d, NEW i \in 1..(Len(doc.decls) + 1)
  PROVE  LET new == Written(doc, i, d)
         IN /\ new.broken = doc.broken /\ new.kind = doc.kind
            /\ \A j \in DOMAIN new.decls :
                 new.decls[j] = d \/ (j \in DOMAIN doc.decls /\ new.decls[j] = doc.decls[j])
<1>1. doc.decls \in Seq(Declarations) /\ Len(doc.decls) \in Nat
  BY DEF Documents
<1> DEFINE s == doc.decls
<1>2. DOMAIN s = 1..Len(s)
  BY <1>1
<1> HIDE DEF s
<1>3. \A j \in DOMAIN Append(s, d) : Append(s, d)[j] = d \/ (j \in DOMAIN s /\ Append(s, d)[j] = s[j])
  BY <1>1, <1>2 DEF s
<1>4. \A j \in DOMAIN [s EXCEPT ![i] = d] :
        [s EXCEPT ![i] = d][j] = d \/ (j \in DOMAIN s /\ [s EXCEPT ![i] = d][j] = s[j])
  OBVIOUS
<1> QED
  BY <1>3, <1>4 DEF Written, s

(* A push leaves every file in a form its analyzer knows, read by the same analyzer. *)
LEMMA WellFormedPush ==
  ASSUME Entries, WellFormed(tree), NEW name \in DOMAIN tree, NEW i \in 1..3, NEW d \in Edits,
         Push(name, i, d)
  PROVE  /\ WellFormed(tree)' /\ DOMAIN tree' = DOMAIN tree
         /\ \A n \in DOMAIN tree :
              tree'[n].broken = tree[n].broken /\ tree'[n].kind = tree[n].kind
<1> DEFINE new == Written(tree[name], i, d)
<1>1. tree[name] \in Documents /\ i \in 1..(Len(tree[name].decls) + 1)
  BY DEF Entries, Push
<1>2. /\ new.broken = tree[name].broken /\ new.kind = tree[name].kind
      /\ \A j \in DOMAIN new.decls :
           \/ new.decls[j] = d
           \/ j \in DOMAIN tree[name].decls /\ new.decls[j] = tree[name].decls[j]
  BY <1>1, WrittenDecls
<1>3. tree' = [tree EXCEPT ![name] = new] /\ d.form \in DOMAIN Readings(tree[name].kind)
  BY DEF Push
<1> HIDE DEF new
<1>4. /\ DOMAIN tree' = DOMAIN tree
      /\ \A n \in DOMAIN tree : tree'[n] = IF n = name THEN new ELSE tree[n]
  BY <1>3
<1>5. \A n \in DOMAIN tree : tree'[n].broken = tree[n].broken /\ tree'[n].kind = tree[n].kind
  BY <1>2, <1>4
<1>6. \A n \in DOMAIN tree : GetAnalyzer(n, tree'[n]) = GetAnalyzer(n, tree[n])
  BY <1>5, SameAnalyzer
<1>7. ASSUME NEW n \in DOMAIN tree, NEW j \in DOMAIN tree'[n].decls
      PROVE  /\ tree'[n].decls[j].form \in DOMAIN Readings(tree'[n].kind)
             /\ Plain(tree'[n].decls[j])
  <2>1. CASE n # name
    BY <1>4, <2>1 DEF WellFormed
  <2>2. CASE n = name
    <3>1. Plain(d)
      BY NamesAssumption
    <3>2. CASE new.decls[j] = d
      BY <1>2, <1>3, <1>4, <2>2, <3>1, <3>2
    <3>3. CASE j \in DOMAIN tree[name].decls /\ new.decls[j] = tree[name].decls[j]
      BY <1>2, <1>4, <2>2, <3>3 DEF WellFormed
    <3> QED
      BY <1>2, <1>4, <2>2, <3>2, <3>3
  <2> QED
    BY <2>1, <2>2
<1>8. WellFormed(tree')
  <2>1. \A n \in DOMAIN tree' :
          tree'[n].broken \/ GetAnalyzer(n, tree'[n]) \in {tree'[n].kind, None}
    BY <1>4, <1>5, <1>6 DEF WellFormed
  <2> QED
    BY <1>4, <1>7, <2>1 DEF WellFormed
<1> QED
  BY <1>4, <1>5, <1>8 DEF WellFormed

(* Reading a file leaves what is said of all files true. *)
LEMMA AnalyzeStep ==
  ASSUME FilesInv, Entries', NEW name \in todo, Analyze(name) \/ AnalyzeSbom(name)
  PROVE  FilesInv'
<1> DEFINE f == Format(name)
           new == NormalizeFilename(name)
           packages == ParseFile(f, new)
<1>1. /\ name \in DOMAIN tree /\ name.dir \notin {"hidden", "glued"}
      /\ \A n \in DOMAIN tree : n.dir # "glued"
  BY DEF FilesInv, Entries, Progress
<1>2. Take(name) /\ f \in Keys \cup Sboms
  BY DEF Analyze, AnalyzeSbom, Format
<1>3. f # None
  BY <1>2, NoneAssumption
<1>4. \/ requirement_files' = With(requirement_files, new, packages)
      \/ requirement_files' = requirement_files /\ packages = Nothing
  BY DEF Analyze, AnalyzeSbom, Format
<1>5. \/ name.dir # "inner" /\ new = name /\ packages = Outcome(tree, name)
      \/ name.dir = "inner" /\ new \notin DOMAIN tree /\ packages = Nothing
           /\ Outcome(tree, name) = Nothing
  <2>1. CASE name.dir # "inner"
    BY <1>1, <1>3, <2>1, ParseOutcome DEF NormalizeFilename
  <2>2. CASE name.dir = "inner"
    <3>1. new.dir = "glued"
      BY <2>2 DEF NormalizeFilename
    <3>2. new \notin DOMAIN tree
      BY <1>1, <3>1
    <3> QED
      BY <2>2, <3>2 DEF ParseFile, Outcome
  <2> QED
    BY <2>1, <2>2
<1>6. Found(requirement_files, name) = Nothing
  BY <1>1, <1>2 DEF FilesInv, Progress, Take
<1> HIDE DEF packages, new, f
<1>7. \A n : Found(requirement_files', n) = Found(requirement_files, n)
               \/ (n = new /\ Found(requirement_files', n) = packages)
  BY <1>4, FoundWith
<1>8. Found(requirement_files', name) = Outcome(tree, name)
  <2>1. CASE requirement_files' = With(requirement_files, new, packages)
    BY <1>1, <1>5, <1>6, <2>1, FoundWith
  <2>2. CASE requirement_files' = requirement_files /\ packages = Nothing
    BY <1>5, <1>6, <2>2
  <2> QED
    BY <1>4, <2>1, <2>2
<1>9. \A n \in DOMAIN tree : n # name =>
         Found(requirement_files', n) = Found(requirement_files, n)
  BY <1>5, <1>7
<1>10. Absent'
  <2>1. DOMAIN requirement_files' \subseteq DOMAIN requirement_files \cup {new}
    BY <1>4 DEF With
  <2>2. \A n \in DOMAIN requirement_files' : n \notin DOMAIN tree =>
           requirement_files'[n] = Nothing
    <3> SUFFICES ASSUME NEW n \in DOMAIN requirement_files', n \notin DOMAIN tree
                 PROVE  requirement_files'[n] = Nothing
      OBVIOUS
    <3>1. Absent
      BY DEF FilesInv
    <3>2. n = new => packages = Nothing
      BY <1>1, <1>5
    <3>3. Found(requirement_files', n) = requirement_files'[n]
      BY DEF Found
    <3>4. Found(requirement_files, n) = Nothing
      BY <3>1 DEF Absent, Found
    <3> QED
      BY <1>7, <3>2, <3>3, <3>4
  <2> QED
    BY <1>2, <2>2 DEF Absent, Take
<1> QED
  BY <1>2, <1>8, <1>9, <1>10, ReadStep DEF Take

(* Every step preserves the invariant. *)
LEMMA FilesStep ==
  ASSUME FilesInv, [Next]_vars
  PROVE  FilesInv'
<1>e. Entries'
  BY EntriesStep DEF FilesInv
<1>1. CASE ListFiles
  <2>1. UNCHANGED <<tree, previous>> /\ phase' = "reading" /\ requirement_files' = Nothing
        /\ todo' = {name \in DOMAIN tree : name.dir # "hidden"}
    BY <1>1 DEF ListFiles
  <2>2. WellFormed(tree)' /\ History'
    BY <2>1 DEF FilesInv, WellFormed, History, Found, Outcome
  <2>3. Absent'
    BY <2>1 DEF Absent, Nothing
  <2>4. \A n \in DOMAIN tree' :
          Found(requirement_files', n) = IF n \in todo' THEN Nothing ELSE Outcome(tree', n)
    BY <2>1, NothingFound DEF Outcome
  <2> HIDE DEF Found, Outcome
  <2>5. Progress'
    BY <2>1, <2>4 DEF Progress
  <2> QED
    BY <1>e, <2>2, <2>3, <2>5 DEF FilesInv
<1>2. ASSUME NEW name \in todo, SkipFile(name) PROVE FilesInv'
  <2>1. Take(name) /\ UNCHANGED requirement_files /\ GetAnalyzer(name, tree[name]) = None
    BY <1>2 DEF SkipFile
  <2>2. name \in DOMAIN tree
    BY DEF FilesInv, Entries
  <2>3. Found(requirement_files, name) = Nothing
    BY <2>1, <2>2 DEF FilesInv, Progress, Take
  <2>4. Outcome(tree, name) = Nothing
    BY <2>1 DEF Outcome
  <2>5. Absent'
    BY <2>1 DEF FilesInv, Absent, Take
  <2> QED
    BY <1>e, <2>1, <2>3, <2>4, <2>5, ReadStep DEF Take
<1>3. ASSUME NEW name \in todo, Analyze(name) \/ AnalyzeSbom(name) PROVE FilesInv'
  BY <1>e, <1>3, AnalyzeStep
<1>4. CASE Return
  <2>1. UNCHANGED <<tree, todo, requirement_files, previous>> /\ phase = "reading"
        /\ phase' = "done" /\ todo = {}
    BY <1>4 DEF Return
  <2>2. WellFormed(tree)' /\ History' /\ Absent'
    BY <2>1 DEF FilesInv, WellFormed, History, Found, Outcome, Absent
  <2>3. \A n \in DOMAIN tree' :
          Found(requirement_files', n) = IF n \in todo' THEN Nothing ELSE Outcome(tree', n)
    BY <2>1 DEF FilesInv, Progress
  <2>4. Progress'
    BY <2>1, <2>3 DEF Progress
  <2> QED
    BY <1>e, <2>2, <2>4 DEF FilesInv
<1>5. ASSUME NEW name \in DOMAIN tree, NEW i \in 1..3, NEW d \in Edits, Push(name, i, d)
      PROVE  FilesInv'
  <2>1. /\ WellFormed(tree)' /\ DOMAIN tree' = DOMAIN tree
        /\ \A n \in DOMAIN tree :
             tree'[n].broken = tree[n].broken /\ tree'[n].kind = tree[n].kind
    BY <1>5, WellFormedPush DEF FilesInv
  <2>2. /\ phase = "done" /\ phase' = "downloaded" /\ UNCHANGED todo
        /\ previous' = [tree |-> tree, files |-> requirement_files]
        /\ requirement_files' = Nothing
    BY <1>5 DEF Push
  <2>3. todo = {}
    BY <2>2 DEF FilesInv, Progress
  <2>4. Progress'
    BY <2>2, <2>3 DEF Progress
  <2>5. Absent'
    BY <2>2 DEF Absent, Nothing
  <2>6. \A n \in DOMAIN tree : tree[n] \in Documents
                                 /\ Found(requirement_files, n) = Outcome(tree, n)
    BY <2>2, <2>3 DEF FilesInv, Entries, Progress
  <2>7. previous'.tree = tree /\ previous'.files = requirement_files
    BY <2>2
  <2>8. History'
    BY <2>1, <2>6, <2>7 DEF History
  <2> QED
    BY <1>e, <2>1, <2>4, <2>5, <2>8 DEF FilesInv
<1>6. CASE UNCHANGED vars
  BY <1>6, <1>e DEF vars, FilesInv, WellFormed, History, Found, Outcome,
     Absent, Progress
<1> QED
  BY <1>1, <1>2, <1>3, <1>4, <1>5, <1>6 DEF Next

(* The invariant holds of a repository just downloaded. *)
LEMMA FilesInit == Init => FilesInv
<1> SUFFICES ASSUME Init PROVE FilesInv
  OBVIOUS
<1>1. /\ tree \in Trees /\ todo = {} /\ requirement_files = Nothing /\ previous = None
      /\ phase = "downloaded"
  BY DEF Init
<1>2. WellFormed(tree)
  BY <1>1, KindsAssumption, NamesAssumption DEF WellFormed
<1>3. Progress /\ History
  BY <1>1 DEF Progress, History
<1>4. Absent
  BY <1>1 DEF Absent, Nothing
<1> QED
  BY <1>2, <1>3, <1>4, EntriesInit DEF FilesInv

(* So it holds of every state. *)
LEMMA FilesAlways == Spec => []FilesInv
<1> QED
  BY FilesInit, FilesStep, PTL DEF Spec

(* A file read under its own name has the entry that parsing it gives.        *)
LEMMA OwnRead ==
  ASSUME FilesInv, NEW name \in Read
  PROVE  /\ requirement_files[name] = ParseFile(Format(name), name)
         /\ name \in DOMAIN tree /\ tree[name] \in Documents
         /\ Format(name) \in Keys \cup Sboms
         /\ \A i \in DOMAIN tree[name].decls : tree[name].decls[i] \in Declarations
<1>1. OwnEntry(name) /\ tree[name] \in Documents
  BY DEF Read, FilesInv, Entries, Glued, NormalizeFilename
<1>2. tree[name].decls \in Seq(Declarations)
  BY <1>1 DEF Documents
<1>3. \A i \in DOMAIN tree[name].decls : tree[name].decls[i] \in Declarations
  BY <1>2
<1>4. Format(name) \in Keys \cup Sboms
  <2>1. CASE requirement_files[name] = Nothing
    BY <1>1, <2>1 DEF OwnEntry
  <2>2. CASE requirement_files[name] # Nothing
    <3>1. name \in DOMAIN requirement_files /\ name \in DOMAIN tree
      BY DEF Read
    <3>2. phase # "downloaded"
      BY <3>1 DEF FilesInv, Progress, Nothing
    <3>3. requirement_files[name] \in {Nothing, Outcome(tree, name)}
      BY <3>1, <3>2 DEF FilesInv, Progress, Found
    <3>4. Format(name) # None
      BY <2>2, <3>3 DEF Outcome, Format
    <3> QED
      BY <3>4, KeyOrSbom DEF Format
  <2> QED
    BY <2>1, <2>2
<1> QED
  BY <1>1, <1>3, <1>4 DEF OwnEntry

(* What is known of a declaration of a file that is not broken.               *)
LEMMA FormKnown ==
  ASSUME WellFormed(tree), NEW name \in DOMAIN tree, Format(name) \in Keys \cup Sboms,
         ~tree[name].broken, NEW i \in DOMAIN tree[name].decls
  PROVE  tree[name].decls[i].form \in DOMAIN Readings(Format(name))
BY NoneAssumption DEF WellFormed, Format

-----------------------------------------------------------------------------
(* Types.                                                                    *)

(* parse_pypi_constraints makes specifiers of specifiers. *)
LEMMA ParsedInClauses ==
  ASSUME NEW cs \in SUBSET Clauses
  PROVE  ParseConstraints(cs) \in SUBSET Clauses
<1>1. <<>> \in Releases
  BY DEF Releases
<1>2. CASE \E c \in cs : GivesUp(c)
  BY <1>2 DEF ParseConstraints
<1>3. CASE ~\E c \in cs : GivesUp(c)
  <2>1. \A c \in cs : Convert(c) \subseteq Clauses
    BY <1>1, <1>3, ConvertKeeps
  <2>2. ParseConstraints(cs) = UNION {Convert(c) : c \in cs}
    BY <1>3 DEF ParseConstraints
  <2> QED
    BY <2>1, <2>2
<1> QED
  BY <1>2, <1>3

(* Every package read has one of the seven managers. *)
LEMMA ManagerKnown ==
  ASSUME NEW f \in Keys \cup Sboms, NEW d, f \in Sboms => d.form \in DOMAIN Purls
  PROVE  Manager(f, d) \in {Purls[t] : t \in DOMAIN Purls}
<1>1. {Purls[t] : t \in DOMAIN Purls} =
        {"PyPI", "NPM", "Maven", "NuGet", "Cargo", "RubyGems", "Go"}
  BY DEF Purls
<1>2. CASE f \in Sboms
  <2>1. Manager(f, d) = Purls[d.form]
    BY <1>2 DEF Manager, Sboms
  <2> QED
    BY <1>2, <2>1
<1>3. CASE f \in Keys
  BY <1>1, <1>3 DEF Manager, Keys, Sboms
<1> QED
  BY <1>2, <1>3

(* For every repository and every push, an entry of requirement_files maps packages
   of a known manager to a constraint of one of the five kinds that are stored. *)
THEOREM TypeCorrect == Spec => []TypeOK
<1>1. FilesInv => TypeOK
  <2> SUFFICES ASSUME FilesInv PROVE TypeOK
    OBVIOUS
  <2>1. /\ phase \in {"downloaded", "reading", "done"}
        /\ todo \subseteq DOMAIN tree /\ (todo # {} => phase = "reading")
        /\ previous # None => phase # "reading" \/ todo \subseteq DOMAIN previous.tree
    BY DEF FilesInv, Entries, Progress, History
  <2>2. ASSUME NEW name \in DOMAIN requirement_files, NEW k \in DOMAIN requirement_files[name]
        PROVE  /\ k.manager \in {Purls[t] : t \in DOMAIN Purls}
               /\ requirement_files[name][k] \in
                    [how : {"pinned", "written", "any", "null", "parsed"},
                     clauses : SUBSET Clauses]
    <3> DEFINE f == Format(name)
               doc == tree[name]
               last == Last(f, doc, k)
               d == doc.decls[last]
    <3>1. requirement_files[name] # Nothing
      BY <2>2 DEF Nothing
    <3>2. name \in Read
      BY <3>1 DEF FilesInv, Absent, Read
    <3>3. /\ requirement_files[name] = Packages(f, doc) /\ ~Raises(f, doc)
          /\ f \in Keys \cup Sboms
      BY <3>1, <3>2, OwnRead DEF ParseFile
    <3>4. name \in DOMAIN tree /\ doc \in Documents
      BY <3>2, OwnRead
    <3>5. last \in Kept(f, doc) /\ d \in Declarations /\ k \in DOMAIN Packages(f, doc)
      BY <2>2, <3>3, <3>4, LastKept
    <3>6. PICK i \in Kept(f, doc) : k = KeyAt(f, doc, i)
      BY <3>5 DEF Packages
    <3>7. ASSUME NEW j \in Kept(f, doc)
          PROVE  /\ j \in DOMAIN doc.decls /\ doc.decls[j].form \in DOMAIN Readings(f)
                 /\ Readings(f)[doc.decls[j].form] \in {"pinned", "written", "any", "null", "parsed"}
                 /\ f \in Sboms => doc.decls[j].form \in DOMAIN Purls
      <4>1. j \in DOMAIN doc.decls /\ Readings(f)[doc.decls[j].form] # "ignored"
              /\ ~Cut(f, doc, j)
        BY DEF Kept
      <4>2. j \in 1..j
        BY <3>4, <4>1 DEF Documents
      <4>3. Readings(f)[doc.decls[j].form] # "ends"
        BY <4>1, <4>2 DEF Cut
      <4>4. Readings(f)[doc.decls[j].form] # "raises" /\ ~doc.broken
        BY <3>3, <4>1 DEF Raises
      <4>5. doc.decls[j].form \in DOMAIN Readings(f)
        BY <3>3, <3>4, <4>1, <4>4, FormKnown DEF FilesInv
      <4> QED
        BY <3>3, <4>1, <4>3, <4>4, <4>5, ReadingsOf DEF Outcomes
    <3>8. k.manager \in {Purls[t] : t \in DOMAIN Purls}
      BY <3>3, <3>6, <3>7, ManagerKnown DEF KeyAt, Key
    <3>9. requirement_files[name][k] = Constraint(f, d)
      BY <3>3, <3>5 DEF Packages
    <3>10. Readings(f)[d.form] \in {"pinned", "written", "any", "null", "parsed"}
      BY <3>5, <3>7
    <3>11. ParseConstraints(d.clauses) \in SUBSET Clauses
      BY <3>5, ParsedInClauses DEF Declarations
    <3> QED
      BY <3>8, <3>9, <3>10, <3>11 DEF Constraint
  <2> QED
    BY <2>1, <2>2 DEF TypeOK
<1> QED
  BY <1>1, FilesAlways, PTL

-----------------------------------------------------------------------------
(* For every marker, a Python requirement without an entry is one whose marker does
   not hold for the lowest Python supported or is misread, or one of a setup.py that
   comes after the end of the list it was cut at or stands next to a bracket. *)
THEOREM SkippedFalse == Spec => []SkippedOnlyIfFalse
<1>1. FilesInv => SkippedOnlyIfFalse
  <2> SUFFICES ASSUME FilesInv, NEW name \in Read, NEW i \in DOMAIN tree[name].decls,
                      tree[name].decls[i].form = "requirement",
                      ~Raises(Format(name), tree[name]),
                      Key(Format(name), tree[name].decls[i])
                        \notin DOMAIN requirement_files[name],
                      ~Cut(Format(name), tree[name], i),
                      ~OnBracketLine(Format(name), tree[name], i),
                      ~Misread(tree[name].decls[i].marker)
               PROVE  ~Holds(tree[name].decls[i].marker)
    BY DEF SkippedOnlyIfFalse
  <2> DEFINE f == Format(name)
             doc == tree[name]
             d == doc.decls[i]
  <2>1. /\ requirement_files[name] = ParseFile(f, name) /\ name \in DOMAIN tree
        /\ d \in Declarations
    BY OwnRead
  <2>2. f \in Keys \cup Sboms
    BY OwnRead
  <2>3. ~doc.broken
    BY DEF Raises
  <2>4. d.form \in DOMAIN Readings(f)
    BY <2>1, <2>2, <2>3, FormKnown DEF FilesInv
  <2>5. f # "go.mod"
    <3>1. "requirement" \notin DOMAIN GoMod /\ "go.mod" \notin Sboms
      BY DEF GoMod, Sboms
    <3>2. f = "go.mod" => Readings(f) = GoMod
      BY <3>1 DEF Readings, Sboms
    <3> QED
      BY <2>4, <3>1, <3>2
  <2>6. requirement_files[name] = Packages(f, doc)
    BY <2>1, <2>5 DEF ParseFile
  <2>7. i \notin Kept(f, doc)
    BY <2>6 DEF Packages, KeyAt
  <2>8. Readings(f)[d.form] = "parsed"
    BY <2>2, <2>4, ReadingsOf
  <2>9. ~IsCompatible(d.marker)
    BY <2>7, <2>8 DEF Kept
  <2> QED
    BY <2>1, <2>9, MarkerRead DEF Declarations
<1> QED
  BY <1>1, FilesAlways, PTL

-----------------------------------------------------------------------------
(* What a push changes.                                                      *)

(* The declarations of a package that are read.                              *)
Of(f, doc, k) == {i \in Kept(f, doc) : KeyAt(f, doc, i) = k}

(* Last is the greatest place at which the package is declared.               *)
LEMMA LastGreatest ==
  ASSUME NEW f, NEW doc \in Documents, NEW k \in DOMAIN Packages(f, doc)
  PROVE  Last(f, doc, k) \in Of(f, doc, k) /\ \A j \in Of(f, doc, k) : j <= Last(f, doc, k)
<1>1. doc.decls \in Seq(Declarations) /\ Len(doc.decls) \in Nat
  BY DEF Documents
<1>2. Of(f, doc, k) # {} /\ Of(f, doc, k) \in SUBSET (1..Len(doc.decls))
  BY <1>1 DEF Packages, Of, Kept
<1>3. \E i \in Of(f, doc, k) : \A j \in Of(f, doc, k) : j <= i
  BY <1>1, <1>2, GreatestOf
<1>4. \E i \in Kept(f, doc) : /\ KeyAt(f, doc, i) = k
                              /\ \A j \in Kept(f, doc) : KeyAt(f, doc, j) = k => j <= i
  BY <1>3 DEF Of
<1> QED
  BY <1>4 DEF Last, Of

(* Does package k depend on none of the declarations changed, and is none of its
   own moved to or from the line of a bracket? *)
Unaffected(f, old, new, k) ==
  /\ \A d \in Changed(old.decls, new.decls) \cup Changed(new.decls, old.decls) :
       k # Key(f, d) /\ Readings(f)[d.form] # "ends"
  /\ \A i \in DOMAIN old.decls \cap DOMAIN new.decls :
       Key(f, new.decls[i]) = k => OnBracketLine(f, old, i) = OnBracketLine(f, new, i)

(* A package that depends on no declaration changed is read at the same places. *)
LEMMA SamePlaces ==
  ASSUME NEW f, NEW old \in Documents, NEW new \in Documents, NEW k,
         Unaffected(f, old, new, k), ~new.broken, NEW i \in Of(f, old, k)
  PROVE  i \in Of(f, new, k) /\ new.decls[i] = old.decls[i]
<1> DEFINE s == old.decls
           t == new.decls
<1>1. DOMAIN s = 1..Len(s) /\ DOMAIN t = 1..Len(t) /\ Len(s) \in Nat /\ Len(t) \in Nat
  BY DEF Documents
<1>2. i \in DOMAIN s /\ Key(f, s[i]) = k
  BY DEF Of, Kept, KeyAt
<1>3. i \in DOMAIN t /\ t[i] = s[i]
  <2>1. s[i] \notin Changed(s, t)
    BY <1>2 DEF Unaffected
  <2> QED
    BY <1>2, <2>1 DEF Changed
<1>4. ~Cut(f, new, i)
  <2> SUFFICES ASSUME NEW j \in 1..i, Readings(f)[t[j].form] = "ends" PROVE FALSE
    BY DEF Cut
  <2>1. j \in DOMAIN t
    BY <1>1, <1>3
  <2>2. t[j] \notin Changed(t, s)
    BY DEF Unaffected
  <2>3. j \in DOMAIN s /\ t[j] = s[j]
    BY <2>1, <2>2 DEF Changed
  <2>4. ~Cut(f, old, i)
    BY DEF Of, Kept
  <2> QED
    BY <2>3, <2>4 DEF Cut
<1>5. Readings(f)[s[i].form] # "ignored" /\ IsCompatible(s[i].marker)
  BY DEF Of, Kept
<1>6. ~OnBracketLine(f, new, i)
  <2>1. ~OnBracketLine(f, old, i)
    BY DEF Of, Kept
  <2>2. OnBracketLine(f, old, i) = OnBracketLine(f, new, i)
    BY <1>2, <1>3 DEF Unaffected
  <2> QED
    BY <2>1, <2>2
<1> QED
  BY <1>2, <1>3, <1>4, <1>5, <1>6 DEF Of, Kept, KeyAt

(* and therefore has the same constraint before and after. *)
LEMMA PackagesLocal ==
  ASSUME NEW f, NEW old \in Documents, NEW new \in Documents, NEW k,
         Unaffected(f, old, new, k), ~old.broken, ~new.broken
  PROVE  /\ k \in DOMAIN Packages(f, old) <=> k \in DOMAIN Packages(f, new)
         /\ k \in DOMAIN Packages(f, new) => Packages(f, new)[k] = Packages(f, old)[k]
<1>1. Unaffected(f, new, old, k)
  <2> SUFFICES ASSUME NEW i \in DOMAIN new.decls \cap DOMAIN old.decls,
                      Key(f, old.decls[i]) = k
               PROVE  OnBracketLine(f, new, i) = OnBracketLine(f, old, i)
    BY DEF Unaffected
  <2>1. old.decls[i] \notin Changed(old.decls, new.decls)
    BY DEF Unaffected
  <2>2. new.decls[i] = old.decls[i]
    BY <2>1 DEF Changed
  <2> QED
    BY <2>2 DEF Unaffected
<1>2. Of(f, old, k) = Of(f, new, k) /\ \A i \in Of(f, old, k) : new.decls[i] = old.decls[i]
  <2>1. \A i \in Of(f, old, k) : i \in Of(f, new, k) /\ new.decls[i] = old.decls[i]
    BY SamePlaces
  <2>2. \A i \in Of(f, new, k) : i \in Of(f, old, k)
    BY <1>1, SamePlaces
  <2> QED
    BY <2>1, <2>2
<1>3. \A doc : k \in DOMAIN Packages(f, doc) <=> Of(f, doc, k) # {}
  BY DEF Packages, Of
<1>4. ASSUME k \in DOMAIN Packages(f, new) PROVE Packages(f, new)[k] = Packages(f, old)[k]
  <2> DEFINE a == Last(f, old, k)
             b == Last(f, new, k)
  <2>1. k \in DOMAIN Packages(f, old)
    BY <1>2, <1>3, <1>4
  <2>2. a \in Of(f, old, k) /\ b \in Of(f, old, k) /\ a <= b /\ b <= a
    BY <1>2, <1>4, <2>1, LastGreatest
  <2>3. a \in Int /\ b \in Int
    <3>1. old.decls \in Seq(Declarations) /\ new.decls \in Seq(Declarations)
      BY DEF Documents
    <3> QED
      BY <2>2, <3>1 DEF Of, Kept
  <2>4. a = b
    BY <2>2, <2>3
  <2>5. new.decls[b] = old.decls[a]
    BY <1>2, <2>2, <2>4
  <2> HIDE DEF a, b
  <2>6. Packages(f, new)[k] = Constraint(f, new.decls[b])
    BY <1>4 DEF Packages, b
  <2>7. Packages(f, old)[k] = Constraint(f, old.decls[a])
    BY <2>1 DEF Packages, a
  <2> QED
    BY <2>5, <2>6, <2>7
<1> QED
  BY <1>2, <1>3, <1>4

(* However many declarations a push changes, and wherever, the second analysis finds
   the same of every package that none of them declares and whose own declarations it
   does not move to or from the brackets of a setup.py list. *)
THEOREM LocalEdits == Spec => []EditIsLocal
<1>1. FilesInv => EditIsLocal
  <2> SUFFICES ASSUME FilesInv, phase = "done", previous # None, NEW name \in DOMAIN tree,
                      Format(name) # None, ~Raises(Format(name), tree[name]),
                      ~Raises(Format(name), previous.tree[name]),
                      NEW k \in DOMAIN Found(previous.files, name)
                                  \cup DOMAIN Found(requirement_files, name),
                      ~\E d \in Edited(name) : k = Key(Format(name), d)
                                                 \/ Readings(Format(name))[d.form] = "ends",
                      ~Moved(Format(name), name, k)
               PROVE  LET before == Found(previous.files, name)
                          now == Found(requirement_files, name)
                      IN /\ k \in DOMAIN before <=> k \in DOMAIN now
                         /\ k \in DOMAIN now => now[k] = before[k]
    BY DEF EditIsLocal
  <2> DEFINE f == Format(name)
             old == previous.tree[name]
             new == tree[name]
  <2>1. /\ old \in Documents /\ new \in Documents
        /\ old.broken = new.broken /\ old.kind = new.kind
        /\ Found(previous.files, name) = Outcome(previous.tree, name)
    BY DEF FilesInv, Entries, History
  <2>2. Found(requirement_files, name) = Outcome(tree, name)
    BY DEF FilesInv, Progress
  <2>3. GetAnalyzer(name, old) = f
    BY <2>1, SameAnalyzer DEF Format
  <2>4. CASE name.dir \in {"hidden", "inner"} \/ (f = "go.mod" /\ name.dir # "root")
    <3>1. Outcome(previous.tree, name) = Nothing /\ Outcome(tree, name) = Nothing
      BY <2>3, <2>4 DEF Outcome, Format
    <3> QED
      BY <2>1, <2>2, <3>1
  <2>5. CASE ~(name.dir \in {"hidden", "inner"} \/ (f = "go.mod" /\ name.dir # "root"))
    <3>1. Found(previous.files, name) = Packages(f, old)
      BY <2>1, <2>3, <2>5 DEF Outcome
    <3>2. Found(requirement_files, name) = Packages(f, new)
      BY <2>2, <2>5 DEF Outcome, Format
    <3>3. Unaffected(f, old, new, k)
      BY DEF Unaffected, Edited, Moved
    <3>4. ~old.broken /\ ~new.broken
      BY DEF Raises
    <3> QED
      BY <2>1, <3>1, <3>2, <3>3, <3>4, PackagesLocal
  <2> QED
    BY <2>4, <2>5
<1> QED
  BY <1>1, FilesAlways, PTL

-----------------------------------------------------------------------------
(* Names.                                                                    *)

(* The name of a package read is stored whole, but for Go modules of an SBOM, and
   written in one way, but for the underscores of the Python formats. *)
LEMMA NameKept ==
  ASSUME FilesInv, NEW name \in Read, NEW i \in Kept(Format(name), tree[name]),
         tree[name].decls[i].form # "golang"
  PROVE  LET d == tree[name].decls[i]
         IN PackageName(Format(name), d) =
              [namespace |-> d.package.namespace, name |-> d.package.name,
               spelling |-> IF UnderscoreKept(Format(name), d)
                            THEN "underscore" ELSE "plain"]
<1> DEFINE f == Format(name)
           d == tree[name].decls[i]
           stored == IF f \in Sboms /\ d.form \notin {"maven", "npm", "cargo"}
                     THEN None ELSE d.package.namespace
           spelt == IF f \in Sboms \/ d.package.spelling = "capital"
                    THEN "plain" ELSE d.package.spelling
<1>1. /\ name \in DOMAIN tree /\ i \in DOMAIN tree[name].decls
      /\ f \in Keys \cup Sboms /\ d \in Declarations
  BY OwnRead DEF Kept
<1>2. stored = d.package.namespace
  <2>1. CASE f \in Sboms /\ d.form \notin {"maven", "npm", "cargo"}
    <3>1. d.form \in DOMAIN Readings(f) /\ Readings(f)[d.form] # "ignored"
      BY <1>1, <2>1, KeyOrSbom, NoneAssumption, FormKnown DEF FilesInv, Format,
         Kept
    <3>2. d.form \in DOMAIN Purls
      BY <1>1, <2>1, <3>1, ReadingsOf
    <3>3. d.form \in {"pypi", "nuget", "gem"}
      BY <2>1, <3>2 DEF Purls
    <3>4. d.package.namespace = None
      BY <1>1, <3>3 DEF FilesInv, WellFormed, Plain
    <3> QED
      BY <2>1, <3>4
  <2> QED
    BY <2>1
<1>3. d.package.spelling \in Spellings
  BY <1>1, NamesAssumption DEF Declarations
<1>4. spelt = IF UnderscoreKept(f, d) THEN "underscore" ELSE "plain"
  BY <1>3 DEF UnderscoreKept, Spellings
<1>5. PackageName(f, d) =
        [namespace |-> stored, name |-> d.package.name, spelling |-> spelt]
  BY DEF PackageName
<1> HIDE DEF stored, spelt
<1> QED
  BY <1>2, <1>4, <1>5

(* For any two files that are read, of any formats, two packages of one manager are
   given the same node exactly when they are the same, with the two exceptions that
   OneNamePerPackage states. *)
THEOREM OneName == Spec => []OneNamePerPackage
<1>1. FilesInv => OneNamePerPackage
  <2> SUFFICES ASSUME FilesInv, NEW m \in Read, NEW n \in Read,
                      NEW i \in Kept(Format(m), tree[m]),
                      NEW j \in Kept(Format(n), tree[n]),
                      Manager(Format(m), tree[m].decls[i]) = Manager(Format(n), tree[n].decls[j]),
                      "golang" \notin {tree[m].decls[i].form, tree[n].decls[j].form},
                      UnderscoreKept(Format(m), tree[m].decls[i])
                        <=> UnderscoreKept(Format(n), tree[n].decls[j])
               PROVE  SamePackage(tree[m].decls[i].package, tree[n].decls[j].package) <=>
                        Key(Format(m), tree[m].decls[i]) = Key(Format(n), tree[n].decls[j])
    BY DEF OneNamePerPackage
  <2> DEFINE p == tree[m].decls[i].package
             q == tree[n].decls[j].package
             f == Format(m)
             g == Format(n)
             d == tree[m].decls[i]
             e == tree[n].decls[j]
             one == IF UnderscoreKept(f, d) THEN "underscore" ELSE "plain"
             other == IF UnderscoreKept(g, e) THEN "underscore" ELSE "plain"
  <2>1. PackageName(f, d) = [namespace |-> p.namespace, name |-> p.name, spelling |-> one]
    BY NameKept
  <2>2. PackageName(g, e) = [namespace |-> q.namespace, name |-> q.name, spelling |-> other]
    BY NameKept
  <2>3. one = other
    OBVIOUS
  <2>4. Key(f, d) = Key(g, e) <=> PackageName(f, d) = PackageName(g, e)
    BY DEF Key
  <2> HIDE DEF one, other
  <2>5. PackageName(f, d) = PackageName(g, e) <=> p.namespace = q.namespace /\ p.name = q.name
    BY <2>1, <2>2, <2>3
  <2> QED
    BY <2>4, <2>5 DEF SamePackage
<1> QED
  BY <1>1, FilesAlways, PTL
=============================================================================
