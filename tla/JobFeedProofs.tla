------------------------------ MODULE JobFeedProofs ------------------------------
(****************************************************************************)
(* What holds of JobFeed for any jobs, times, tables, page size, number of  *)
(* requests and bounds.                                                     *)
(*                                                                          *)
(* The argument is about ranks: without ties a job's place in the mart's    *)
(* order is the number of jobs that are newer, so a page that is read is a  *)
(* stretch of ranks, and the list is always the first ranks without a gap   *)
(* (Ranked).  A page can only be added to a list that reaches up to it,     *)
(* and each request, late or asked for twice, has seen to that (Reach).     *)
(****************************************************************************)
EXTENDS JobFeed, FiniteSetTheorems, SequenceTheorems, TLAPS

USE PageSizeAssumption, BoundsAssumption

Count == Cardinality(mart)
Rank(j) == Cardinality(Newer(j))

(* No entry twice.                                                          *)
Distinct(s) == \A i, k \in DOMAIN s : s[i] = s[k] => i = k

--------------------------------------------------------------------------------
(* Whatever is counted is finite.                                           *)
LEMMA Finite ==
  ASSUME TypeOK
  PROVE  /\ mart \subseteq Jobs /\ IsFiniteSet(mart) /\ Count \in Nat
         /\ \A j : /\ IsFiniteSet(Newer(j)) /\ Rank(j) \in Nat
                   /\ IsFiniteSet(AsNew(j)) /\ Cardinality(AsNew(j)) \in Nat
         /\ \A j \in mart : created[j] \in Nat
<1>1. mart \subseteq Jobs /\ created \in [Jobs -> Nat]
  BY DEF TypeOK
<1>2. IsFiniteSet(mart) /\ Count \in Nat
  BY <1>1, FS_Subset, FS_CardinalityType DEF Count
<1>3. ASSUME NEW j
      PROVE  /\ IsFiniteSet(Newer(j)) /\ Rank(j) \in Nat
             /\ IsFiniteSet(AsNew(j)) /\ Cardinality(AsNew(j)) \in Nat
  <2>1. Newer(j) \in SUBSET mart /\ AsNew(j) \in SUBSET mart
    BY DEF Newer, AsNew
  <2>2. IsFiniteSet(Newer(j)) /\ IsFiniteSet(AsNew(j))
    BY <1>2, <2>1, FS_Subset
  <2> QED BY <2>2, FS_CardinalityType DEF Rank
<1> QED BY <1>1, <1>2, <1>3

(* The newer job has the smaller rank.                                      *)
LEMMA NewerFirst ==
  ASSUME TypeOK, NEW a \in mart, NEW b \in mart, created[a] > created[b]
  PROVE  Rank(a) < Rank(b)
<1>1. /\ created[a] \in Nat /\ created[b] \in Nat /\ \A i \in mart : created[i] \in Nat
      /\ IsFiniteSet(Newer(b)) /\ Rank(a) \in Nat /\ Rank(b) \in Nat
  BY Finite
<1>2. Newer(a) \in SUBSET Newer(b)
  BY <1>1 DEF Newer
<1>3. a \in Newer(b) /\ a \notin Newer(a)
  BY <1>1 DEF Newer
<1>4. Rank(a) <= Rank(b) /\ Rank(a) # Rank(b)
  BY <1>1, <1>2, <1>3, FS_Subset DEF Rank
<1> QED BY <1>1, <1>4

(* Without ties no two jobs have one rank.                                  *)
LEMMA OneRank ==
  ASSUME TypeOK, ~Ties, NEW a \in mart, NEW b \in mart, Rank(a) = Rank(b)
  PROVE  a = b
<1> SUFFICES ASSUME a # b PROVE FALSE
  OBVIOUS
<1>1. created[a] # created[b] /\ created[a] \in Nat /\ created[b] \in Nat
      /\ Rank(a) \in Nat
  BY Finite DEF Ties
<1>2. created[a] > created[b] \/ created[b] > created[a]
  BY <1>1
<1>3. Rank(a) < Rank(b) \/ Rank(b) < Rank(a)
  BY <1>2, NewerFirst
<1> QED BY <1>1, <1>3

(* There are as many ranks as jobs.                                         *)
LEMMA RankBound ==
  ASSUME TypeOK, NEW j \in mart
  PROVE  Rank(j) < Count
<1>1. IsFiniteSet(mart) /\ Count \in Nat /\ Rank(j) \in Nat /\ created[j] \in Nat
  BY Finite
<1>2. Newer(j) \in SUBSET mart /\ j \notin Newer(j)
  BY <1>1 DEF Newer
<1> QED BY <1>1, <1>2, FS_Subset DEF Rank, Count

(* Without ties a job is as new as itself and the newer ones only.          *)
LEMMA AsNewIs ==
  ASSUME TypeOK, ~Ties, NEW j \in mart
  PROVE  Cardinality(AsNew(j)) = Rank(j) + 1
<1>1. IsFiniteSet(Newer(j)) /\ \A i \in mart : created[i] \in Nat
  BY Finite
<1>2. AsNew(j) = Newer(j) \cup {j}
  BY <1>1 DEF AsNew, Newer, Ties
<1>3. j \notin Newer(j)
  BY <1>1 DEF Newer
<1> QED BY <1>1, <1>2, <1>3, FS_AddElement DEF Rank

(* How far page p reaches.                                                  *)
LEMMA PageLengthIs ==
  ASSUME TypeOK, NEW p \in Nat
  PROVE  /\ PageLength(p) \in Nat /\ p * PageSize \in Nat
         /\ p * PageSize >= Count => PageLength(p) = 0
         /\ p * PageSize < Count =>
              p * PageSize + PageLength(p) = Smaller((p + 1) * PageSize, Count)
         /\ (p + 1) * PageSize = p * PageSize + PageSize
<1>1. Count \in Nat /\ PageSize \in Nat
  BY Finite
<1>2. p * PageSize \in Nat /\ (p + 1) * PageSize = p * PageSize + PageSize
  BY <1>1
<1> DEFINE o == p * PageSize
<1>3. PageLength(p) = IF o < Count THEN Smaller(PageSize, Count - o) ELSE 0
  BY DEF PageLength, Count
<1>4. o \in Nat /\ (p + 1) * PageSize = o + PageSize
  BY <1>2
<1> HIDE DEF o
<1>5. /\ PageLength(p) \in Nat
      /\ o >= Count => PageLength(p) = 0
      /\ o < Count => o + PageLength(p) = Smaller(o + PageSize, Count)
  BY <1>1, <1>3, <1>4 DEF Smaller
<1> QED BY <1>4, <1>5 DEF o

(* A page brings as many jobs, each of the mart, and none twice.            *)
LEMMA FindJobsIs ==
  ASSUME TypeOK, NEW p \in Nat, NEW s \in FindJobs(p)
  PROVE  /\ s \in Seq(Jobs) /\ Distinct(s)
         /\ Len(s) = PageLength(p) /\ DOMAIN s = 1 .. PageLength(p)
         /\ \A i \in DOMAIN s : s[i] \in mart
<1>1. PageLength(p) \in Nat /\ mart \subseteq Jobs
  BY PageLengthIs, Finite
<1>2. s \in [1 .. PageLength(p) -> mart]
      /\ \A i, k \in 1 .. PageLength(p) : s[i] = s[k] => i = k
  BY DEF FindJobs, Injection, IsInjective
<1>3. s \in Seq(Jobs) /\ Len(s) = PageLength(p)
  BY <1>1, <1>2
<1> QED BY <1>1, <1>2, <1>3 DEF Distinct

(* Without ties each place of a page is a rank.                             *)
LEMMA PageRanks ==
  ASSUME TypeOK, ~Ties, NEW p \in Nat, NEW s \in FindJobs(p), NEW i \in DOMAIN s
  PROVE  Rank(s[i]) = p * PageSize + i - 1
<1>1. /\ i \in 1 .. PageLength(p) /\ PageLength(p) \in Nat /\ p * PageSize \in Nat
      /\ s[i] \in mart
  BY FindJobsIs, PageLengthIs
<1>2. Rank(s[i]) < p * PageSize + i /\ p * PageSize + i <= Cardinality(AsNew(s[i]))
  BY <1>1 DEF FindJobs, Rank
<1>3. Rank(s[i]) \in Nat /\ Cardinality(AsNew(s[i])) = Rank(s[i]) + 1
  BY <1>1, Finite, AsNewIs
<1> DEFINE o == p * PageSize
<1> HIDE DEF o
<1>4. o \in Nat /\ Rank(s[i]) < o + i /\ o + i <= Rank(s[i]) + 1 /\ i \in Nat
  BY <1>1, <1>2, <1>3 DEF o
<1>5. Rank(s[i]) = o + i - 1
  BY <1>3, <1>4
<1> QED BY <1>5 DEF o

(* The pages hold all there is.                                             *)
LEMMA PagesReach ==
  ASSUME NEW c \in Nat, NEW m \in Nat, m >= Pages(c)
  PROVE  m * PageSize >= c /\ Pages(c) \in Nat
<1> DEFINE q == (c + PageSize - 1) \div PageSize
           r == (c + PageSize - 1) % PageSize
<1>1. PageSize \in Nat /\ PageSize > 0 /\ c + PageSize - 1 \in Nat
  OBVIOUS
<1>2. q \in Nat /\ r \in 0 .. PageSize - 1 /\ c + PageSize - 1 = q * PageSize + r
  BY <1>1
<1> HIDE DEF q, r
<1>3. m - q \in Nat /\ m = q + (m - q)
  BY <1>2 DEF Pages, q
<1>4. m * PageSize = q * PageSize + (m - q) * PageSize
  BY <1>1, <1>2, <1>3
<1>5. (m - q) * PageSize \in Nat /\ q * PageSize \in Nat
  BY <1>1, <1>2, <1>3
<1>6. q * PageSize >= c
  BY <1>1, <1>2, <1>5
<1> QED BY <1>2, <1>4, <1>5, <1>6 DEF Pages, q

--------------------------------------------------------------------------------
(* What there is in items that is not listed, in its order.                 *)
New(items) == {i \in DOMAIN items : items[i] \notin Range(jobs)}

(* The rows a page adds are its new ones, in their order.                   *)
LEMMA FreshPlaces ==
  ASSUME NEW items \in Seq(Jobs), NEW add \in Fresh(items)
  PROVE  /\ IsFiniteSet(New(items)) /\ Cardinality(New(items)) \in Nat
         /\ \E at \in [1 .. Cardinality(New(items)) -> New(items)] :
              /\ \A k \in 1 .. Cardinality(New(items)) :
                   Cardinality({i \in New(items) : i < at[k]}) = k - 1
              /\ add = [k \in 1 .. Cardinality(New(items)) |-> items[at[k]]]
<1>1. DOMAIN items = 1 .. Len(items) /\ Len(items) \in Nat
  OBVIOUS
<1>2. IsFiniteSet(1 .. Len(items))
  BY <1>1, FS_Interval
<1>3. New(items) \in SUBSET (1 .. Len(items))
  BY <1>1 DEF New
<1>4. IsFiniteSet(New(items)) /\ Cardinality(New(items)) \in Nat
  BY <1>2, <1>3, FS_Subset, FS_CardinalityType
<1> DEFINE n == Cardinality(New(items))
           places == {at \in [1 .. n -> New(items)] :
                        \A k \in DOMAIN at :
                          Cardinality({i \in New(items) : i < at[k]}) = k - 1}
<1>5. Fresh(items) = {[k \in DOMAIN at |-> items[at[k]]] : at \in places}
  BY DEF Fresh, New
<1>6. PICK at \in places : add = [k \in DOMAIN at |-> items[at[k]]]
  BY <1>5
<1>7. DOMAIN at = 1 .. n
  BY <1>6
<1> QED BY <1>4, <1>6, <1>7

(* What is added is not listed, and not twice if it was not sent twice.     *)
LEMMA FreshIs ==
  ASSUME NEW items \in Seq(Jobs), NEW add \in Fresh(items)
  PROVE  /\ add \in Seq(Jobs) /\ Len(add) = Cardinality(New(items))
         /\ DOMAIN add = 1 .. Cardinality(New(items))
         /\ \A k \in DOMAIN add : add[k] \notin Range(jobs)
         /\ Distinct(items) => Distinct(add)
<1> DEFINE n == Cardinality(New(items))
<1>1. n \in Nat
  BY FreshPlaces
<1>2. PICK at \in [1 .. n -> New(items)] :
        /\ \A k \in 1 .. n : Cardinality({i \in New(items) : i < at[k]}) = k - 1
        /\ add = [k \in 1 .. n |-> items[at[k]]]
  BY FreshPlaces
<1> HIDE DEF n
<1>3. \A k \in 1 .. n : /\ at[k] \in DOMAIN items /\ items[at[k]] \in Jobs
                        /\ items[at[k]] \notin Range(jobs)
  <2>1. \A i \in New(items) : i \in DOMAIN items /\ items[i] \notin Range(jobs)
    BY DEF New
  <2>2. \A i \in DOMAIN items : items[i] \in Jobs
    OBVIOUS
  <2>3. \A k \in 1 .. n : at[k] \in New(items)
    BY <1>2
  <2> QED BY <2>1, <2>2, <2>3
<1>4. add \in [1 .. n -> Jobs]
  BY <1>2, <1>3
<1>5. add \in Seq(Jobs) /\ Len(add) = n /\ DOMAIN add = 1 .. n
  BY <1>1, <1>4
<1>6. \A k \in 1 .. n : add[k] \notin Range(jobs)
  BY <1>2, <1>3
<1>7. ASSUME Distinct(items) PROVE Distinct(add)
  <2> SUFFICES ASSUME NEW k \in 1 .. n, NEW l \in 1 .. n, add[k] = add[l] PROVE k = l
    BY <1>5 DEF Distinct
  <2>1. at[k] = at[l]
    BY <1>2, <1>3, <1>7 DEF Distinct
  <2>2. k - 1 = l - 1
    BY <1>2, <2>1
  <2> QED BY <1>1, <2>2
<1> QED BY <1>5, <1>6, <1>7 DEF n

(* The list stays without duplicates.                                       *)
LEMMA AddDistinct ==
  ASSUME jobs \in Seq(Jobs), Distinct(jobs), NEW items \in Seq(Jobs), Distinct(items),
         NEW add \in Fresh(items)
  PROVE  jobs \o add \in Seq(Jobs) /\ Distinct(jobs \o add)
<1> DEFINE new == jobs \o add
           m == Len(jobs)
           n == Len(add)
<1>1. /\ add \in Seq(Jobs) /\ Distinct(add) /\ DOMAIN add = 1 .. n
      /\ \A k \in 1 .. n : add[k] \notin Range(jobs)
  BY FreshIs
<1>2. /\ new \in Seq(Jobs) /\ Len(new) = m + n /\ m \in Nat /\ n \in Nat
      /\ \A i \in 1 .. m + n : new[i] = IF i <= m THEN jobs[i] ELSE add[i - m]
  BY <1>1, ConcatProperties
<1>3. DOMAIN new = 1 .. m + n /\ DOMAIN jobs = 1 .. m
  BY <1>2
<1>4. \A i \in 1 .. m : jobs[i] \in Range(jobs)
  BY <1>3 DEF Range
<1> HIDE DEF new, m, n
<1>5. Distinct(new)
  <2> SUFFICES ASSUME NEW i \in 1 .. m + n, NEW k \in 1 .. m + n, new[i] = new[k]
               PROVE  i = k
    BY <1>3 DEF Distinct
  <2>1. CASE i <= m /\ k <= m
    BY <1>2, <1>3, <2>1 DEF Distinct
  <2>2. CASE i > m /\ k > m
    <3>1. i - m \in 1 .. n /\ k - m \in 1 .. n /\ add[i - m] = add[k - m]
      BY <1>2, <2>2
    <3>2. i - m = k - m
      BY <1>1, <3>1 DEF Distinct
    <3> QED BY <1>2, <3>2
  <2>3. CASE i <= m /\ k > m
    <3>1. k - m \in 1 .. n /\ i \in 1 .. m /\ jobs[i] = add[k - m]
      BY <1>2, <2>3
    <3> QED BY <1>1, <1>4, <3>1
  <2>4. CASE k <= m /\ i > m
    <3>1. i - m \in 1 .. n /\ k \in 1 .. m /\ jobs[k] = add[i - m]
      BY <1>2, <2>4
    <3> QED BY <1>1, <1>4, <3>1
  <2> QED BY <1>2, <2>1, <2>2, <2>3, <2>4
<1> QED BY <1>2, <1>5 DEF new

(* The list is the first jobs by rank.                                      *)
InRank(s) == \A i \in DOMAIN s : s[i] \in mart /\ Rank(s[i]) = i - 1

(* The list reaches up to page q.                                           *)
Long(s, q) == Len(s) >= Smaller(q * PageSize, Count)

(* What page q adds to a list that reaches up to it are the next ranks.     *)
LEMMA AddRanks ==
  ASSUME TypeOK, ~Ties, InRank(jobs), NEW q \in Nat, Long(jobs, q),
         NEW items \in FindJobs(q), NEW add \in Fresh(items)
  PROVE  InRank(jobs \o add) /\ Long(jobs \o add, q + 1)
<1> DEFINE new == jobs \o add
           m == Len(jobs)
           L == PageLength(q)
           o == q * PageSize
           N == New(items)
<1>1. /\ items \in Seq(Jobs) /\ DOMAIN items = 1 .. L
      /\ \A i \in 1 .. L : items[i] \in mart /\ Rank(items[i]) = o + i - 1
  BY FindJobsIs, PageRanks
<1>2. /\ L \in Nat /\ o \in Nat /\ Count \in Nat
      /\ o >= Count => L = 0
      /\ o < Count => o + L = Smaller(o + PageSize, Count)
      /\ (q + 1) * PageSize = o + PageSize
  BY PageLengthIs, Finite
<1>3. jobs \in Seq(Jobs) /\ m \in Nat /\ DOMAIN jobs = 1 .. m
  BY DEF TypeOK
<1>4. m >= Smaller(o, Count)
  BY DEF Long
<1>5. /\ add \in Seq(Jobs) /\ Len(add) = Cardinality(N) /\ DOMAIN add = 1 .. Len(add)
      /\ Cardinality(N) \in Nat
  BY <1>1, FreshIs, FreshPlaces
<1>6. /\ new \in Seq(Jobs) /\ Len(new) = m + Len(add)
      /\ \A i \in 1 .. m + Len(add) : new[i] = IF i <= m THEN jobs[i] ELSE add[i - m]
  BY <1>3, <1>5, ConcatProperties
<1>7. DOMAIN new = 1 .. m + Len(add)
  BY <1>6
<1>8. PICK at \in [1 .. Len(add) -> N] :
        /\ \A k \in 1 .. Len(add) : Cardinality({i \in N : i < at[k]}) = k - 1
        /\ add = [k \in 1 .. Len(add) |-> items[at[k]]]
  <2> DEFINE c == Cardinality(New(items))
  <2>1. \E at \in [1 .. c -> New(items)] :
          /\ \A k \in 1 .. c : Cardinality({i \in New(items) : i < at[k]}) = k - 1
          /\ add = [k \in 1 .. c |-> items[at[k]]]
    BY <1>1, FreshPlaces
  <2>2. c = Len(add)
    BY <1>5
  <2> HIDE DEF c
  <2> QED BY <2>1, <2>2
<1> HIDE DEF new, m, L, o, N
<1>9. \A k \in 1 .. m : jobs[k] \in mart /\ Rank(jobs[k]) = k - 1
  BY <1>3 DEF InRank
<1>10. \A i \in 1 .. L : items[i] \in Range(jobs) <=> o + i <= m
  <2> SUFFICES ASSUME NEW i \in 1 .. L
               PROVE  items[i] \in Range(jobs) <=> o + i <= m
    OBVIOUS
  <2>1. ASSUME items[i] \in Range(jobs) PROVE o + i <= m
    <3>1. PICK k \in 1 .. m : jobs[k] = items[i]
      BY <1>3, <2>1 DEF Range
    <3>2. Rank(jobs[k]) = k - 1
      BY <1>3 DEF InRank
    <3>3. k - 1 = o + i - 1
      BY <1>1, <3>1, <3>2
    <3> QED BY <1>2, <1>3, <3>3
  <2>2. ASSUME o + i <= m PROVE items[i] \in Range(jobs)
    <3>1. PICK k \in 1 .. m : k = o + i
      BY <1>2, <1>3, <2>2
    <3>2. jobs[k] \in mart /\ Rank(jobs[k]) = k - 1
      BY <1>9
    <3>3. Rank(jobs[k]) = Rank(items[i]) /\ items[i] \in mart
      <4>1. items[i] \in mart /\ Rank(items[i]) = o + i - 1
        BY <1>1
      <4>2. k - 1 = o + i - 1
        BY <1>2, <3>1
      <4> QED BY <3>2, <4>1, <4>2
    <3>4. jobs[k] = items[i]
      BY <3>2, <3>3, OneRank
    <3> QED BY <1>3, <3>4 DEF Range
  <2> QED BY <2>1, <2>2
<1>11. N = {i \in 1 .. L : o + i > m}
  <2>1. N = {i \in 1 .. L : items[i] \notin Range(jobs)}
    BY <1>1 DEF N, New
  <2>2. \A i \in 1 .. L : o + i <= m \/ o + i > m
    BY <1>2, <1>3
  <2> QED BY <1>2, <1>3, <1>10, <2>1
<1>12. CASE o >= Count
  <2>1. N = {} /\ Cardinality(N) = 0
    BY <1>2, <1>11, <1>12, FS_EmptySet
  <2>2. InRank(new)
    BY <1>3, <1>5, <1>6, <1>7, <2>1 DEF InRank
  <2>3. Long(new, q + 1)
    BY <1>2, <1>3, <1>4, <1>5, <1>6, <1>12, <2>1 DEF Long, Smaller
  <2> QED BY <2>2, <2>3 DEF new
<1>13. CASE o < Count
  <2> DEFINE d == m - o
  <2>1. d \in Nat /\ m = o + d
    BY <1>2, <1>3, <1>4, <1>13 DEF Smaller
  <2> HIDE DEF d
  <2>2. N = (d + 1) .. L
    BY <1>2, <1>11, <2>1
  <2>3. Cardinality(N) = IF d + 1 > L THEN 0 ELSE L - (d + 1) + 1
    BY <1>2, <2>1, <2>2, FS_Interval
  <2>4. ASSUME NEW k \in 1 .. Len(add) PROVE add[k] = items[d + k] /\ d + k \in 1 .. L
    <3>1. at[k] \in (d + 1) .. L
      BY <1>8, <2>2
    <3>2. {i \in N : i < at[k]} = (d + 1) .. (at[k] - 1)
      BY <1>2, <2>1, <2>2, <3>1
    <3>3. Cardinality((d + 1) .. (at[k] - 1)) = at[k] - 1 - d
      <4>1. d + 1 \in Int /\ at[k] - 1 \in Int /\ at[k] \in Int /\ at[k] >= d + 1
        BY <1>2, <2>1, <3>1
      <4>2. Cardinality((d + 1) .. (at[k] - 1)) =
              IF d + 1 > at[k] - 1 THEN 0 ELSE (at[k] - 1) - (d + 1) + 1
        BY <4>1, FS_Interval
      <4> QED BY <4>1, <4>2, <2>1
    <3>4. at[k] - 1 - d = k - 1
      BY <1>8, <3>2, <3>3
    <3>5. at[k] = d + k
      BY <1>2, <2>1, <3>1, <3>4
    <3> QED BY <1>2, <1>8, <2>1, <3>1, <3>5
  <2>5. InRank(new)
    <3> SUFFICES ASSUME NEW i \in 1 .. m + Len(add)
                 PROVE  new[i] \in mart /\ Rank(new[i]) = i - 1
      BY <1>7 DEF InRank
    <3>1. CASE i <= m
      <4>1. i \in 1 .. m
        BY <1>3, <1>5, <3>1
      <4>2. new[i] = jobs[i]
        BY <1>3, <1>6, <4>1
      <4>3. jobs[i] \in mart /\ Rank(jobs[i]) = i - 1
        BY <1>3, <4>1 DEF InRank
      <4> QED BY <4>2, <4>3
    <3>2. CASE i > m
      <4>1. i - m \in 1 .. Len(add) /\ i - m \in Nat
        BY <1>3, <1>5, <3>2
      <4>2. new[i] = items[d + (i - m)] /\ d + (i - m) \in 1 .. L
        <5>1. new[i] = add[i - m]
          BY <1>3, <1>6, <3>2
        <5>2. \A k \in 1 .. Len(add) : add[k] = items[d + k] /\ d + k \in 1 .. L
          BY <2>4
        <5> QED BY <4>1, <5>1, <5>2
      <4>3. new[i] \in mart /\ Rank(new[i]) = o + (d + (i - m)) - 1
        BY <1>1, <4>2
      <4>4. o + (d + (i - m)) - 1 = i - 1
        BY <1>2, <1>3, <2>1, <4>1
      <4> QED BY <4>3, <4>4
    <3> QED BY <1>3, <3>1, <3>2
  <2>6. Long(new, q + 1)
    <3>1. Len(new) >= o + L
      BY <1>2, <1>3, <1>5, <1>6, <2>1, <2>3
    <3> QED BY <1>2, <1>13, <3>1 DEF Long
  <2> QED BY <2>5, <2>6 DEF new
<1> QED BY <1>2, <1>12, <1>13

--------------------------------------------------------------------------------
(* No list and no answer holds a job twice.                                 *)
NoneTwice ==
  /\ Distinct(jobs) /\ Distinct(visit.items)
  /\ \A r \in Requests : Distinct(request[r].items)

(* A feed that is not there has asked for nothing.                          *)
Bare == ~mounted => \A r \in Requests : request[r] = NoRequest

(* While calm, the pages are counted and read on the mart of now.           *)
CountKnown ==
  calm => /\ visit.at = "arrived" => visit.pages = Pages(Count)
          /\ mounted => totalPages = Pages(Count)

OnPage ==
  calm => /\ ~mounted /\ visit.at \in {"count", "arrived"} => visit.items \in FindJobs(0)
          /\ \A r \in Requests :
               request[r].at = "answered" => request[r].items \in FindJobs(request[r].page)

Ranked == calm /\ mounted /\ ~Ties => InRank(jobs)

(* The list reaches up to every page that may still be added.               *)
Reach ==
  calm /\ mounted /\ ~Ties =>
    /\ Long(jobs, page + 1) /\ Long(jobs, rendered.page + 1)
    /\ \A r \in Requests : request[r].at # "none" => Long(jobs, request[r].page)

IInv == /\ TypeOK /\ NoneTwice /\ Bare
        /\ CountKnown /\ OnPage /\ Ranked /\ Reach

(* Nothing, and nobody asked.                                               *)
LEMMA NoneIs ==
  /\ NoVisit \in Visit /\ NoVisit.at = "over" /\ NoVisit.items = <<>>
  /\ NoRequest \in Request /\ NoRequest.at = "none" /\ NoRequest.items = <<>>
  /\ NoRequest.page = 0
  /\ Distinct(<<>>)
<1>1. <<>> \in Seq(Jobs) /\ Distinct(<<>>)
  BY DEF Distinct
<1> QED BY <1>1 DEF NoVisit, Visit, NoRequest, Request

(* What is left to happen, when one thing has.                              *)
Left == [swaps : 0 .. MaxSwaps, visits : 0 .. MaxVisits, failures : 0 .. MaxFailures]

(* Spending one of the bounds leaves bounds.                                *)
LEMMA LessLeft ==
  ASSUME left \in Left
  PROVE  /\ left.swaps > 0 => [left EXCEPT !.swaps = @ - 1] \in Left
         /\ left.visits > 0 => [left EXCEPT !.visits = @ - 1] \in Left
         /\ left.failures > 0 => [left EXCEPT !.failures = @ - 1] \in Left
<1>1. PICK l \in Left : l = left
  OBVIOUS
<1>2. /\ l.swaps \in 0 .. MaxSwaps /\ l.visits \in 0 .. MaxVisits
      /\ l.failures \in 0 .. MaxFailures
  BY DEF Left
<1>3. ASSUME l.swaps > 0 PROVE [l EXCEPT !.swaps = @ - 1] \in Left
  <2>1. l.swaps - 1 \in 0 .. MaxSwaps
    BY <1>2, <1>3, BoundsAssumption
  <2> QED BY <2>1 DEF Left
<1>4. ASSUME l.visits > 0 PROVE [l EXCEPT !.visits = @ - 1] \in Left
  <2>1. l.visits - 1 \in 0 .. MaxVisits
    BY <1>2, <1>4, BoundsAssumption
  <2> QED BY <2>1 DEF Left
<1>5. ASSUME l.failures > 0 PROVE [l EXCEPT !.failures = @ - 1] \in Left
  <2>1. l.failures - 1 \in 0 .. MaxFailures
    BY <1>2, <1>5, BoundsAssumption
  <2> QED BY <2>1 DEF Left
<1> QED BY <1>1, <1>3, <1>4, <1>5

(* A feed as it is before its first page.                                   *)
LEMMA BareTyped ==
  /\ <<>> \in Seq(Jobs)
  /\ [page |-> 0, isLoading |-> FALSE, totalPages |-> 0]
       \in [page : Nat, isLoading : BOOLEAN, totalPages : Nat]
  /\ [r \in Requests |-> NoRequest] \in [Requests -> Request]
<1>1. NoRequest \in Request
  BY NoneIs
<1> QED BY <1>1

(* A request of which some fields change is a request with those fields.    *)
LEMMA RequestSets ==
  ASSUME request \in [Requests -> Request], NEW r \in Requests,
         NEW a \in {"answered", "failed"}, NEW s \in Seq(Jobs)
  PROVE  /\ [request EXCEPT ![r].at = a, ![r].items = s]
              = [request EXCEPT ![r] = [at |-> a, page |-> request[r].page, items |-> s]]
         /\ [request EXCEPT ![r].at = a]
              = [request EXCEPT ![r] =
                   [at |-> a, page |-> request[r].page, items |-> request[r].items]]
<1>1. PICK m \in Request : m = request[r]
  OBVIOUS
<1>2. [m EXCEPT !.at = a] = [at |-> a, page |-> m.page, items |-> m.items]
  <2>1. m = [at |-> m.at, page |-> m.page, items |-> m.items]
    BY DEF Request
  <2>2. [[at |-> m.at, page |-> m.page, items |-> m.items] EXCEPT !.at = a]
          = [at |-> a, page |-> m.page, items |-> m.items]
    OBVIOUS
  <2> QED BY <2>1, <2>2
<1>3. [request EXCEPT ![r].at = a]
        = [request EXCEPT ![r] =
             [at |-> a, page |-> request[r].page, items |-> request[r].items]]
  BY <1>1, <1>2
<1>4. [request EXCEPT ![r].at = a, ![r].items = s]
        = [request EXCEPT ![r] = [at |-> a, page |-> request[r].page, items |-> s]]
  <2> DEFINE n == [at |-> a, page |-> m.page, items |-> m.items]
             q == [at |-> a, page |-> m.page, items |-> s]
             f == [request EXCEPT ![r] = n]
  <2>1. f[r] = n /\ [n EXCEPT !.items = s] = q
    OBVIOUS
  <2>2. [request EXCEPT ![r].at = a, ![r].items = s] = [f EXCEPT ![r].items = s]
    BY <1>1, <1>3
  <2>3. [f EXCEPT ![r].items = s] = [f EXCEPT ![r] = q]
    BY <2>1
  <2> HIDE DEF n, q
  <2>4. [f EXCEPT ![r] = q] = [request EXCEPT ![r] = q]
    OBVIOUS
  <2> QED BY <1>1, <2>2, <2>3, <2>4 DEF q
<1> QED BY <1>3, <1>4

(* The order of the jobs is that of the mart and of their times.            *)
LEMMA SameOrder ==
  ASSUME UNCHANGED <<created, mart>>
  PROVE  /\ Count' = Count /\ Ties' = Ties
         /\ \A q : FindJobs(q)' = FindJobs(q)
         /\ \A j : Rank(j)' = Rank(j)
<1>1. Count' = Count /\ Ties' = Ties
  BY DEF Count, Ties
<1>2. \A j : Newer(j)' = Newer(j) /\ AsNew(j)' = AsNew(j)
  BY DEF Newer, AsNew
<1>3. \A j : Rank(j)' = Rank(j)
  BY <1>2 DEF Rank
<1>4. ASSUME NEW q PROVE FindJobs(q)' = FindJobs(q)
  <2>1. PageLength(q)' = PageLength(q)
    BY DEF PageLength
  <2> QED BY <1>2, <2>1 DEF FindJobs
<1> QED BY <1>1, <1>3, <1>4

(* What happens beside the list leaves it in rank, and reaching as far.     *)
LEMMA ListKept ==
  ASSUME IInv, UNCHANGED <<created, mart, mounted, calm, jobs, page>>,
         rendered'.page \in {page, rendered.page},
         \A r \in Requests :
           request'[r].at # "none" =>
             \/ request[r].at # "none" /\ request'[r].page = request[r].page
             \/ request'[r].page = rendered.page + 1
  PROVE  Ranked' /\ Reach'
<1>1. Ranked'
  BY SameOrder DEF IInv, Ranked, InRank
<1>2. Reach'
  BY SameOrder DEF IInv, Reach, Long
<1> QED BY <1>1, <1>2

(* Nothing is listed before the page mounts.                                *)
LEMMA InitInv == Init => IInv
<1> SUFFICES ASSUME Init PROVE IInv
  OBVIOUS
<1>1. TypeOK
  <2>1. left \in Left
    BY BoundsAssumption DEF Init, Left
  <2> QED BY <2>1, NoneIs, BareTyped DEF Init, TypeOK, Left
<1>2. NoneTwice /\ Bare
  BY NoneIs DEF Init, NoneTwice, Bare
<1>3. CountKnown /\ OnPage /\ Ranked /\ Reach
  BY DEF Init, CountKnown, OnPage, Ranked, Reach
<1> QED BY <1>1, <1>2, <1>3 DEF IInv

(* A feed that leaves the page leaves nothing behind.                       *)
LEMMA UnmountInv ==
  ASSUME IInv, Unmount, UNCHANGED <<created, mart>>, visit' \in Visit, visit'.items = <<>>,
         left' \in Left
  PROVE  IInv'
<1>1. TypeOK'
  BY BareTyped DEF Unmount, IInv, TypeOK, Left
<1>2. NoneTwice' /\ Bare'
  BY NoneIs DEF Unmount, NoneTwice, Bare
<1>3. CountKnown' /\ OnPage' /\ Ranked' /\ Reach'
  BY DEF Unmount, CountKnown, OnPage, Ranked, Reach
<1> QED BY <1>1, <1>2, <1>3 DEF IInv

(* A publish changes the order under the list, and ends the calm.           *)
LEMMA MartSwapInv == ASSUME IInv, MartSwap PROVE IInv'
<1>1. left' \in Left
  BY LessLeft DEF MartSwap, IInv, TypeOK, Left
<1>2. UNCHANGED <<created, visit, mounted, totalPages, jobs, page, isLoading, rendered, request>>
      /\ calm' = FALSE /\ mart' \in Marts
  BY DEF MartSwap, feed
<1>3. TypeOK'
  BY <1>1, <1>2 DEF IInv, TypeOK, Left
<1>4. NoneTwice' /\ Bare'
  BY <1>2 DEF IInv, NoneTwice, Bare
<1>5. CountKnown' /\ OnPage' /\ Ranked' /\ Reach'
  BY <1>2 DEF CountKnown, OnPage, Ranked, Reach
<1> QED BY <1>3, <1>4, <1>5 DEF IInv

(* A visit starts an empty list.                                            *)
LEMMA OpenInv == ASSUME IInv, NEW drop \in BOOLEAN, Open(drop) PROVE IInv'
<1> DEFINE v == [at |-> "items", items |-> <<>>, pages |-> 0]
<1>1. /\ left' \in Left
      /\ UNCHANGED <<created, mart>>
  BY LessLeft DEF Open, IInv, TypeOK, Left
<1>2. visit' = v /\ v \in Visit /\ v.items = <<>> /\ v.at = "items"
  <2>1. <<>> \in Seq(Jobs)
    OBVIOUS
  <2> QED BY <2>1 DEF Open, NoVisit, Visit
<1> HIDE DEF v
<1>3. CASE Unmount
  BY <1>1, <1>2, <1>3, UnmountInv
<1>4. CASE UNCHANGED <<mounted, totalPages, feed, request, calm>> /\ mounted
  <2>1. UNCHANGED <<mounted, totalPages, jobs, page, isLoading, rendered, request, calm>>
    BY <1>4 DEF feed
  <2>2. TypeOK'
    BY <1>1, <1>2, <2>1 DEF IInv, TypeOK, Left
  <2>3. NoneTwice' /\ Bare'
    BY <1>2, <2>1, NoneIs DEF IInv, NoneTwice, Bare
  <2>4. CountKnown' /\ OnPage'
    BY <1>1, <1>2, <2>1, SameOrder DEF IInv, CountKnown, OnPage, Pages
  <2>5. Ranked' /\ Reach'
    BY <1>1, <2>1, ListKept
  <2> QED BY <2>2, <2>3, <2>4, <2>5 DEF IInv
<1> QED BY <1>3, <1>4 DEF Open

(* The first page is read on the mart of now, and then the number of pages. *)
LEMMA ReadItemsInv == ASSUME IInv, ReadItems PROVE IInv'
<1>1. UNCHANGED <<created, mart, mounted, totalPages, jobs, page, isLoading, rendered, request,
                  left>>
      /\ calm' = (calm \/ ~mounted) /\ calm' \in BOOLEAN
  BY DEF ReadItems, feed, IInv, TypeOK
<1>2. PICK s \in FindJobs(0) :
        visit' = [visit EXCEPT !.at = "count", !.items = IF mounted THEN <<>> ELSE s]
  BY DEF ReadItems
<1>3. s \in Seq(Jobs) /\ Distinct(s)
  BY FindJobsIs DEF IInv
<1> DEFINE items == IF mounted THEN <<>> ELSE s
<1>4. items \in Seq(Jobs) /\ Distinct(items) /\ (~mounted => items = s)
  BY <1>3, NoneIs
<1>5. visit' = [visit EXCEPT !.at = "count", !.items = items]
  BY <1>2
<1> HIDE DEF items
<1>6. visit' \in Visit /\ visit'.at = "count" /\ visit'.items = items
  BY <1>4, <1>5 DEF IInv, TypeOK, Visit
<1>7. TypeOK'
  BY <1>1, <1>6 DEF IInv, TypeOK
<1>8. NoneTwice' /\ Bare'
  BY <1>1, <1>4, <1>6 DEF IInv, NoneTwice, Bare
<1>9. CountKnown'
  BY <1>1, <1>6, SameOrder DEF IInv, CountKnown, Pages
<1>10. OnPage'
  BY <1>1, <1>4, <1>6, SameOrder, NoneIs DEF IInv, OnPage, Bare
<1>11. Ranked' /\ Reach'
  <2>1. CASE mounted
    <3>1. UNCHANGED calm
      BY <1>1, <2>1 DEF IInv, TypeOK
    <3> QED BY <1>1, <3>1, ListKept
  <2>2. CASE ~mounted
    BY <1>1, <2>2 DEF Ranked, Reach
  <2> QED BY <2>1, <2>2
<1> QED BY <1>7, <1>8, <1>9, <1>10, <1>11 DEF IInv

(* The count is read after the rows, and lists none.                        *)
LEMMA ReadCountInv == ASSUME IInv, ReadCount PROVE IInv'
<1>1. UNCHANGED <<created, mart, mounted, totalPages, jobs, page, isLoading, rendered, request,
                  calm, left>> /\ visit.at = "count"
      /\ visit' = [visit EXCEPT !.at = "arrived", !.pages = Pages(Count)]
  BY DEF ReadCount, feed, Count
<1>2. Pages(Count) \in Nat
  <2>1. Count \in Nat
    BY Finite DEF IInv
  <2> QED BY <2>1 DEF Pages
<1>3. /\ visit' \in Visit /\ visit'.at = "arrived" /\ visit'.items = visit.items
      /\ visit'.pages = Pages(Count)
  BY <1>1, <1>2 DEF IInv, TypeOK, Visit
<1>4. TypeOK'
  BY <1>1, <1>3 DEF IInv, TypeOK
<1>5. NoneTwice' /\ Bare'
  BY <1>1, <1>3 DEF IInv, NoneTwice, Bare
<1>6. CountKnown' /\ OnPage'
  BY <1>1, <1>3, SameOrder DEF IInv, CountKnown, OnPage, Pages
<1>7. Ranked' /\ Reach'
  BY <1>1, ListKept
<1> QED BY <1>4, <1>5, <1>6, <1>7 DEF IInv

(* A failed visit lists nothing.                                            *)
LEMMA VisitFailsInv == ASSUME IInv, VisitFails PROVE IInv'
<1>1. left' \in Left
  BY LessLeft DEF VisitFails, IInv, TypeOK, Left
<1> QED BY <1>1, NoneIs, UnmountInv DEF VisitFails

(* A feed that starts has the ranks of the first page.                      *)
LEMMA ArriveInv == ASSUME IInv, Arrive PROVE IInv'
<1>1. /\ visit.at = "arrived" /\ visit' = NoVisit /\ UNCHANGED <<created, mart, left>>
      /\ visit \in Visit /\ TypeOK
      /\ left \in Left
  BY DEF Arrive, IInv, TypeOK, Left
<1>2. CASE Unmount
  BY <1>1, <1>2, NoneIs, UnmountInv
<1>3. CASE ~mounted /\ Mount
  <2>1. /\ mounted' = TRUE /\ jobs' = visit.items /\ page' = 0 /\ isLoading' = FALSE
        /\ totalPages' = visit.pages /\ UNCHANGED <<request, calm>>
        /\ rendered' = [page |-> 0, isLoading |-> FALSE, totalPages |-> visit.pages]
        /\ rendered'.page = 0
    BY <1>3 DEF Mount
  <2>2. visit.items \in Seq(Jobs) /\ visit.pages \in Nat
    BY <1>1 DEF Visit
  <2>3. TypeOK'
    BY <1>1, <2>1, <2>2, NoneIs DEF IInv, TypeOK
  <2>4. NoneTwice' /\ Bare'
    BY <1>1, <2>1, NoneIs DEF IInv, NoneTwice, Bare
  <2>5. CountKnown' /\ OnPage'
    BY <1>1, <1>3, <2>1, SameOrder, NoneIs DEF IInv, CountKnown, OnPage, Pages, Bare
  <2>6. \A r \in Requests : request'[r].at = "none"
    BY <1>3, <2>1, NoneIs DEF IInv, Bare
  <2>7. ASSUME calm, ~Ties PROVE InRank(jobs') /\ Long(jobs', 1)
    <3>1. visit.items \in FindJobs(0) /\ 0 \in Nat
      BY <1>1, <1>3, <2>7 DEF IInv, OnPage
    <3>2. \A i \in DOMAIN visit.items :
            visit.items[i] \in mart /\ Rank(visit.items[i]) = 0 * PageSize + i - 1
      BY <1>1, <2>7, <3>1, FindJobsIs, PageRanks
    <3>3. DOMAIN visit.items = 1 .. Len(visit.items) /\ 0 * PageSize = 0
      BY <2>2
    <3>4. InRank(jobs')
      BY <2>1, <3>2, <3>3 DEF InRank
    <3>5. /\ Len(visit.items) = PageLength(0) /\ Count \in Nat
          /\ 0 * PageSize >= Count => PageLength(0) = 0
          /\ 0 * PageSize < Count =>
               0 * PageSize + PageLength(0) = Smaller((0 + 1) * PageSize, Count)
          /\ PageLength(0) \in Nat
      BY <1>1, <3>1, FindJobsIs, PageLengthIs, Finite
    <3>6. (0 + 1) * PageSize = PageSize /\ 1 * PageSize = PageSize
      OBVIOUS
    <3>7. Long(jobs', 1)
      BY <2>1, <3>3, <3>5, <3>6 DEF Long, Smaller
    <3> QED BY <3>4, <3>7
  <2>8. Ranked' /\ Reach'
    BY <1>1, <2>1, <2>6, <2>7, SameOrder DEF Ranked, Reach, InRank, Long
  <2> QED BY <2>3, <2>4, <2>5, <2>8 DEF IInv
<1>4. CASE mounted /\ totalPages' = visit.pages /\ UNCHANGED <<mounted, feed, request, calm>>
  <2>1. UNCHANGED <<mounted, jobs, page, isLoading, rendered, request, calm>>
        /\ totalPages' = visit.pages /\ visit.pages \in Nat
    BY <1>1, <1>4 DEF feed, Visit
  <2>2. TypeOK'
    BY <1>1, <2>1, NoneIs DEF IInv, TypeOK
  <2>3. NoneTwice' /\ Bare'
    BY <1>1, <2>1, NoneIs DEF IInv, NoneTwice, Bare
  <2>4. CountKnown' /\ OnPage'
    BY <1>1, <1>4, <2>1, SameOrder, NoneIs DEF IInv, CountKnown, OnPage, Pages
  <2>5. Ranked' /\ Reach'
    BY <1>1, <2>1, ListKept
  <2> QED BY <2>2, <2>3, <2>4, <2>5 DEF IInv
<1> QED BY <1>2, <1>3, <1>4 DEF Arrive

(* Rendering shows the list and changes no row.                             *)
LEMMA RenderInv == ASSUME IInv, Render PROVE IInv'
<1>1. UNCHANGED <<created, mart, visit, mounted, totalPages, jobs, page, isLoading, request,
                  calm, left>>
      /\ rendered' = Now
  BY DEF Render
<1>2. rendered' \in [page : Nat, isLoading : BOOLEAN, totalPages : Nat] /\ rendered'.page = page
  BY <1>1 DEF Now, IInv, TypeOK
<1>3. TypeOK'
  BY <1>1, <1>2 DEF IInv, TypeOK
<1>4. NoneTwice' /\ Bare'
  BY <1>1 DEF IInv, NoneTwice, Bare
<1>5. CountKnown' /\ OnPage'
  BY <1>1, SameOrder DEF IInv, CountKnown, OnPage, Pages
<1>6. Ranked' /\ Reach'
  BY <1>1, <1>2, ListKept
<1> QED BY <1>3, <1>4, <1>5, <1>6 DEF IInv

(* What happens to a request before it is back in the feed.                 *)
LEMMA RequestInv ==
  ASSUME IInv, UNCHANGED <<created, mart, visit, mounted, totalPages, jobs, page, rendered, calm>>,
         isLoading' \in BOOLEAN,
         left' \in Left,
         mounted, NEW r \in Requests, NEW q \in Request, request' = [request EXCEPT ![r] = q],
         \/ q.at = "none"
         \/ request[r].at # "none" /\ q.page = request[r].page
         \/ q.page = rendered.page + 1,
         Distinct(q.items),
         q.at = "answered" => q.items \in FindJobs(q.page)
  PROVE  IInv'
<1>1. /\ request' \in [Requests -> Request] /\ request'[r] = q
      /\ \A s \in Requests \ {r} : request'[s] = request[s]
  BY DEF IInv, TypeOK
<1>2. TypeOK'
  BY <1>1 DEF IInv, TypeOK, Left
<1>3. NoneTwice' /\ Bare'
  BY <1>1 DEF IInv, NoneTwice, Bare
<1>4. CountKnown' /\ OnPage'
  BY <1>1, SameOrder DEF IInv, CountKnown, OnPage, Pages
<1>5. Ranked' /\ Reach'
  BY <1>1, ListKept
<1> QED BY <1>2, <1>3, <1>4, <1>5 DEF IInv

(* A request is for a page that the list reaches up to.                     *)
LEMMA LoadMoreInv == ASSUME IInv, NEW r \in Requests, LoadMore(r) PROVE IInv'
<1> DEFINE q == [at |-> "sent", page |-> rendered.page + 1, items |-> <<>>]
<1>1. q \in Request /\ q.at = "sent" /\ q.page = rendered.page + 1 /\ q.items = <<>>
  <2>1. rendered.page \in Nat /\ <<>> \in Seq(Jobs)
    BY DEF IInv, TypeOK
  <2> QED BY <2>1 DEF Request
<1>2. /\ UNCHANGED <<created, mart, visit, mounted, totalPages, jobs, page, rendered, calm, left>>
      /\ isLoading' = TRUE /\ mounted /\ request' = [request EXCEPT ![r] = q]
  BY DEF LoadMore
<1> HIDE DEF q
<1>3. left' \in Left
  BY <1>2 DEF IInv, TypeOK, Left
<1> QED BY <1>1, <1>2, <1>3, NoneIs, RequestInv

(* An answer in flight holds rows of the mart it was read from.             *)
LEMMA ServePageInv == ASSUME IInv, NEW r \in Requests, ServePage(r) PROVE IInv'
<1>1. request[r] \in Request /\ request[r].at = "sent"
  BY DEF ServePage, IInv, TypeOK
<1>2. request[r].page \in Nat
  BY <1>1 DEF Request
<1>3. PICK s \in FindJobs(request[r].page) :
        request' = [request EXCEPT ![r].at = "answered", ![r].items = s]
  BY DEF ServePage
<1>4. s \in Seq(Jobs) /\ Distinct(s)
  BY <1>2, FindJobsIs DEF IInv
<1> DEFINE q == [at |-> "answered", page |-> request[r].page, items |-> s]
<1>5. q \in Request /\ q.at = "answered" /\ q.page = request[r].page /\ q.items = s
  BY <1>2, <1>4 DEF Request
<1>6. request' = [request EXCEPT ![r] = q]
  BY <1>3, <1>4, RequestSets DEF IInv, TypeOK
<1> HIDE DEF q
<1>7. /\ UNCHANGED <<created, mart, visit, mounted, totalPages, jobs, page, isLoading, rendered,
                     calm, left>>
      /\ mounted
  BY <1>1, NoneIs DEF ServePage, feed, IInv, Bare
<1>8. /\ left' \in Left
      /\ isLoading' \in BOOLEAN
  BY <1>7 DEF IInv, TypeOK, Left
<1> QED BY <1>1, <1>4, <1>5, <1>6, <1>7, <1>8, RequestInv

(* A failed page lists nothing.                                             *)
LEMMA PageFailsInv == ASSUME IInv, NEW r \in Requests, PageFails(r) PROVE IInv'
<1>1. request[r] \in Request /\ request[r].at = "sent"
  BY DEF PageFails, IInv, TypeOK
<1> DEFINE q == [at |-> "failed", page |-> request[r].page, items |-> request[r].items]
<1>2. /\ q \in Request /\ q.at = "failed" /\ q.page = request[r].page
      /\ q.items = request[r].items
  BY <1>1 DEF Request
<1>3. request' = [request EXCEPT ![r] = q]
  BY RequestSets DEF PageFails, IInv, TypeOK
<1> HIDE DEF q
<1>4. /\ UNCHANGED <<created, mart, visit, mounted, totalPages, jobs, page, isLoading, rendered,
                     calm>>
      /\ mounted
  BY <1>1, NoneIs DEF PageFails, feed, IInv, Bare
<1>5. /\ left' \in Left
      /\ isLoading' \in BOOLEAN /\ Distinct(request[r].items)
  BY <1>4, LessLeft DEF PageFails, IInv, TypeOK, NoneTwice, Left
<1> QED BY <1>1, <1>2, <1>3, <1>4, <1>5, RequestInv

(* An answer, of whatever page, adds the ranks that come next.              *)
LEMMA SettleInv == ASSUME IInv, NEW r \in Requests, Settle(r) PROVE IInv'
<1> DEFINE q == request[r].page
           items == request[r].items
<1>1. /\ request[r] \in Request /\ request[r].at \in {"answered", "failed"}
      /\ q \in Nat /\ items \in Seq(Jobs) /\ Distinct(items) /\ mounted
      /\ isLoading' = FALSE /\ request' = [request EXCEPT ![r] = NoRequest]
      /\ UNCHANGED <<created, mart, visit, mounted, totalPages, rendered, calm, left>>
      /\ TypeOK /\ jobs \in Seq(Jobs) /\ Distinct(jobs)
  BY NoneIs DEF Settle, IInv, TypeOK, Request, NoneTwice, Bare
<1>2. left' \in Left
  BY <1>1 DEF TypeOK, Left
<1>3. CASE UNCHANGED <<jobs, page>>
  BY <1>1, <1>2, <1>3, NoneIs, RequestInv
<1>4. ASSUME request[r].at = "answered", NEW add \in Fresh(items), jobs' = jobs \o add,
             page' = q
      PROVE  IInv'
  <2>1. /\ request' \in [Requests -> Request] /\ request'[r] = NoRequest
        /\ \A s \in Requests \ {r} : request'[s] = request[s]
    BY <1>1, NoneIs DEF TypeOK
  <2>2. jobs' \in Seq(Jobs) /\ Distinct(jobs')
    BY <1>1, <1>4, AddDistinct
  <2>3. TypeOK'
    BY <1>1, <1>4, <2>1, <2>2 DEF TypeOK
  <2>4. NoneTwice' /\ Bare'
    <3>1. Distinct(jobs)' /\ Distinct(visit.items)'
      BY <1>1, <2>2 DEF IInv, NoneTwice, Distinct
    <3>2. \A s \in Requests : Distinct(request[s].items)'
      BY <2>1, NoneIs DEF IInv, NoneTwice, Distinct
    <3> QED BY <1>1, <3>1, <3>2 DEF NoneTwice, Bare
  <2>5. CountKnown' /\ OnPage'
    BY <1>1, <2>1, SameOrder, NoneIs DEF IInv, CountKnown, OnPage, Pages
  <2>6. ASSUME calm, ~Ties
        PROVE  InRank(jobs') /\ Long(jobs', q + 1) /\ Len(jobs') >= Len(jobs)
    <3>1. InRank(jobs) /\ Long(jobs, q) /\ items \in FindJobs(q)
      BY <1>1, <1>4, <2>6 DEF IInv, Ranked, Reach, OnPage
    <3>2. InRank(jobs \o add) /\ Long(jobs \o add, q + 1)
      BY <1>1, <1>4, <2>6, <3>1, AddRanks
    <3>3. Len(jobs \o add) = Len(jobs) + Len(add) /\ Len(add) \in Nat /\ Len(jobs) \in Nat
      BY <1>1, <1>4, FreshIs, ConcatProperties
    <3> QED BY <1>4, <3>2, <3>3
  <2>7. ASSUME calm, ~Ties, NEW n \in Nat, Long(jobs, n) PROVE Long(jobs', n)
    <3>1. Len(jobs') >= Len(jobs) /\ Len(jobs') \in Nat /\ Len(jobs) \in Nat
      BY <1>1, <2>2, <2>6, <2>7
    <3>2. Count \in Nat /\ n * PageSize \in Nat
      BY <1>1, Finite, PageLengthIs
    <3>3. Smaller(n * PageSize, Count) \in Nat
      BY <3>2 DEF Smaller
    <3> QED BY <2>7, <3>1, <3>3 DEF Long
  <2>8. Ranked'
    BY <1>1, <2>6, SameOrder DEF Ranked, InRank
  <2>9. ASSUME calm, ~Ties
        PROVE  /\ Long(jobs', q + 1) /\ Long(jobs', rendered.page + 1)
               /\ \A s \in Requests : request'[s].at # "none" => Long(jobs', request'[s].page)
    <3>1. rendered.page + 1 \in Nat /\ Long(jobs, rendered.page + 1)
      BY <1>1, <2>9 DEF IInv, TypeOK, Reach
    <3>2. \A s \in Requests :
            request'[s].at # "none" => request'[s].page \in Nat /\ Long(jobs, request'[s].page)
      BY <1>1, <2>1, <2>9, NoneIs DEF IInv, TypeOK, Request, Reach
    <3> QED BY <2>6, <2>7, <2>9, <3>1, <3>2
  <2>10. Reach'
    BY <1>1, <1>4, <2>9, SameOrder DEF Reach, Long
  <2> QED BY <2>3, <2>4, <2>5, <2>8, <2>10 DEF IInv
<1> QED BY <1>3, <1>4 DEF Settle

(* One step for every action of Next.                                       *)
LEMMA StepInv == IInv /\ [Next]_vars => IInv'
<1> SUFFICES ASSUME IInv, [Next]_vars PROVE IInv'
  OBVIOUS
<1>1. CASE MartSwap \/ \E drop \in BOOLEAN : Open(drop)
  BY <1>1, MartSwapInv, OpenInv
<1>2. CASE Rendering \/ VisitFails
  BY <1>2, ReadItemsInv, ReadCountInv, ArriveInv, RenderInv, VisitFailsInv DEF Rendering
<1>3. ASSUME NEW r \in Requests, LoadMore(r) \/ Fetching(r) \/ PageFails(r) PROVE IInv'
  BY <1>3, LoadMoreInv, ServePageInv, SettleInv, PageFailsInv DEF Fetching
<1>4. CASE UNCHANGED vars
  <2>1. UNCHANGED <<created, mart, visit, mounted, totalPages, jobs, page, isLoading, rendered,
                    request, calm, left>>
    BY <1>4 DEF vars, feed
  <2>2. TypeOK' /\ NoneTwice' /\ Bare'
    BY <2>1 DEF IInv, TypeOK, NoneTwice, Bare
  <2>3. CountKnown' /\ OnPage'
    BY <2>1, SameOrder DEF IInv, CountKnown, OnPage, Pages
  <2>4. Ranked' /\ Reach'
    BY <2>1, ListKept
  <2> QED BY <2>2, <2>3, <2>4 DEF IInv
<1> QED BY <1>1, <1>2, <1>3, <1>4 DEF Next

(* The inductive invariant holds throughout.                                *)
LEMMA InvHolds == Spec => []IInv
<1>1. QED
  BY InitInv, StepInv, PTL DEF Spec

--------------------------------------------------------------------------------
(* Every variable keeps its type: what is listed are jobs, and no page is   *)
(* asked for but with a number.                                             *)
THEOREM TypeCorrect == Spec => []TypeOK
<1>1. QED
  BY InvHolds, PTL DEF IInv

(* However publishes, ties and requests for one page fall, no job is listed *)
(* twice, so that its id is a key.                                          *)
THEOREM NeverListedTwice == Spec => []NoJobTwice
<1>1. IInv => NoJobTwice
  BY DEF IInv, NoneTwice, Distinct, NoJobTwice
<1>2. QED
  BY <1>1, InvHolds, PTL

(* The list is the newest jobs in order and without a gap, at least as long *)
(* as its pages say, and at its end it is all there is: for any size of     *)
(* page, any number of requests under way at once, and answers to them in   *)
(* any order.                                                               *)
THEOREM ListedNewestFirst == Spec => []NewestFirst
<1>1. IInv => NewestFirst
  <2> SUFFICES ASSUME IInv, mounted, calm, ~Ties
               PROVE  /\ \A i, k \in DOMAIN jobs : i < k => created[jobs[i]] > created[jobs[k]]
                      /\ \A i \in DOMAIN jobs, j \in mart :
                           created[j] > created[jobs[i]] => j \in Range(jobs)
                      /\ Len(jobs) >= Smaller((page + 1) * PageSize, Cardinality(mart))
                      /\ ~isLoading /\ ~HasMore(Now) => Range(jobs) = mart
    BY DEF NewestFirst
  <2>1. /\ TypeOK /\ jobs \in Seq(Jobs) /\ DOMAIN jobs = 1 .. Len(jobs) /\ Len(jobs) \in Nat
        /\ page \in Nat /\ Count \in Nat
    BY Finite DEF IInv, TypeOK
  <2>2. \A i \in DOMAIN jobs : jobs[i] \in mart /\ Rank(jobs[i]) = i - 1
    BY DEF IInv, Ranked, InRank
  <2>3. \A j \in mart : created[j] \in Nat /\ Rank(j) \in Nat
    BY <2>1, Finite
  <2>4. Len(jobs) >= Smaller((page + 1) * PageSize, Count)
    BY DEF IInv, Reach, Long
  <2>5. ASSUME NEW j \in mart, Rank(j) < Len(jobs) PROVE j \in Range(jobs)
    <3>1. PICK i \in DOMAIN jobs : i = Rank(j) + 1
      BY <2>1, <2>3, <2>5
    <3>2. Rank(jobs[i]) = Rank(j)
      BY <2>2, <2>3, <3>1
    <3>3. jobs[i] = j
      BY <2>1, <2>2, <3>2, OneRank
    <3> QED BY <3>3 DEF Range
  <2>6. ASSUME NEW i \in DOMAIN jobs, NEW k \in DOMAIN jobs, i < k
        PROVE  created[jobs[i]] > created[jobs[k]]
    <3>1. /\ jobs[i] \in mart /\ jobs[k] \in mart /\ Rank(jobs[i]) < Rank(jobs[k])
          /\ jobs[i] # jobs[k]
      BY <2>1, <2>2, <2>6
    <3>2. ~(created[jobs[k]] > created[jobs[i]])
      <4> SUFFICES ASSUME created[jobs[k]] > created[jobs[i]] PROVE FALSE
        OBVIOUS
      <4>1. Rank(jobs[k]) < Rank(jobs[i])
        BY <2>1, <3>1, NewerFirst
      <4> QED BY <2>3, <3>1, <4>1
    <3>3. created[jobs[i]] # created[jobs[k]]
      BY <3>1 DEF Ties
    <3> QED BY <2>3, <3>1, <3>2, <3>3
  <2>7. ASSUME NEW i \in DOMAIN jobs, NEW j \in mart, created[j] > created[jobs[i]]
        PROVE  j \in Range(jobs)
    <3>1. Rank(j) < Rank(jobs[i]) /\ Rank(jobs[i]) = i - 1
      BY <2>1, <2>2, <2>7, NewerFirst
    <3>2. Rank(j) < Len(jobs)
      BY <2>1, <2>3, <3>1
    <3> QED BY <2>5, <3>2
  <2>8. ASSUME ~HasMore(Now) PROVE Range(jobs) = mart
    <3>1. page + 1 >= totalPages /\ totalPages = Pages(Count) /\ totalPages \in Nat
      BY <2>1, <2>8 DEF HasMore, Now, IInv, CountKnown, TypeOK
    <3>2. (page + 1) * PageSize >= Count /\ (page + 1) * PageSize \in Nat
      BY <2>1, <3>1, PagesReach
    <3>3. Len(jobs) >= Count
      BY <2>1, <2>4, <3>2 DEF Smaller
    <3>4. mart \subseteq Range(jobs)
      BY <2>1, <2>3, <2>5, <3>3, RankBound
    <3>5. Range(jobs) \subseteq mart
      BY <2>2 DEF Range
    <3> QED BY <3>4, <3>5
  <2>9. QED
    BY <2>4, <2>6, <2>7, <2>8 DEF Count
<1>2. QED
  BY <1>1, InvHolds, PTL
================================================================================
