--------------------------- MODULE HeadersProofs ---------------------------
(***************************************************************************)
(* Proofs about Headers, for messages with any number of headers.          *)
(***************************************************************************)
EXTENDS Headers, Numbers, SequenceTheorems

(***************************************************************************)
(* The search.                                                             *)
(***************************************************************************)

HeaderType == [id : Nat, key : Keys, val : Seq(Int), values : Seq(Seq(Int))]

SortedByKey(hs) == \A i, j \in DOMAIN hs : i <= j => hs[i].key <= hs[j].key

Occurrences(hs, key) == {i \in DOMAIN hs : hs[i].key = key}

Middle(r) == r[1] + (r[2] - r[1]) \div 2

\* A step of the binary search from r[1] to r[2], where f has what the further
\* ones find.
Step(f, hs, key, r) ==
    LET lo == r[1]
        hi == r[2]
        mi == Middle(r)
    IN  IF lo > hi THEN {}
        ELSE IF key = hs[mi].key THEN {mi}
        ELSE IF key > hs[mi].key THEN f[<<mi + 1, hi>>]
        ELSE IF mi > 1 THEN f[<<lo, mi - 1>>]
        ELSE {}

Ranges(hs) == (1 .. Len(hs) + 1) \X (0 .. Len(hs))

Search(f, hs, key) == f = [r \in Ranges(hs) |-> Step(f, hs, key, r)]

\* The middle is between the ends, and the further ranges are smaller.
LEMMA MiddleFacts ==
    ASSUME NEW n \in Nat, NEW r \in (1 .. n + 1) \X (0 .. n), r[1] <= r[2]
    PROVE  /\ r[1] \in 1 .. n /\ r[2] \in 1 .. n
           /\ Middle(r) \in r[1] .. r[2]
           /\ Middle(r) \in 1 .. n
<1>1. r[1] \in 1 .. n + 1 /\ r[2] \in 0 .. n
  OBVIOUS
<1>2. r[1] \in 1 .. n /\ r[2] \in 1 .. n
  BY <1>1
<1>3. ASSUME NEW lo \in 1 .. n, NEW hi \in 1 .. n, lo <= hi
      PROVE  lo + (hi - lo) \div 2 \in lo .. hi
  <2>1. hi - lo \in Nat
    BY <1>3
  <2>2. \A d \in Nat : d \div 2 \in 0 .. d
    OBVIOUS
  <2>3. (hi - lo) \div 2 \in 0 .. hi - lo
    BY <2>1, <2>2
  <2> DEFINE k == (hi - lo) \div 2
  <2> HIDE DEF k
  <2>4. lo + k \in lo .. hi
    BY <1>3, <2>3 DEF k
  <2>5. QED
    BY <2>4 DEF k
<1>4. Middle(r) \in r[1] .. r[2]
  BY <1>2, <1>3 DEF Middle
<1>5. QED
  BY <1>2, <1>4

LEMMA SmallerRanges ==
    ASSUME NEW n \in Nat, NEW r \in (1 .. n + 1) \X (0 .. n), r[1] <= r[2],
           NEW d \in Nat \ {0}, r[2] - r[1] < d
    PROVE  /\ <<Middle(r) + 1, r[2]>> \in (1 .. n + 1) \X (0 .. n)
           /\ r[2] - (Middle(r) + 1) < d - 1
           /\ Middle(r) > 1 => /\ <<r[1], Middle(r) - 1>> \in (1 .. n + 1) \X (0 .. n)
                               /\ (Middle(r) - 1) - r[1] < d - 1
<1>1. PICK lo \in 1 .. n, hi \in 1 .. n, mi \in 1 .. n :
         lo = r[1] /\ hi = r[2] /\ mi = Middle(r) /\ lo <= mi /\ mi <= hi
  BY MiddleFacts
<1>2. mi + 1 \in 1 .. n + 1 /\ hi \in 0 .. n /\ hi - (mi + 1) < d - 1
  BY <1>1
<1>3. mi > 1 => lo \in 1 .. n + 1 /\ mi - 1 \in 0 .. n /\ (mi - 1) - lo < d - 1
  BY <1>1
<1>4. QED
  BY <1>1, <1>2, <1>3

\* The search ends.
LEMMA SearchExists ==
    ASSUME NEW hs \in Seq(HeaderType), NEW key \in Keys
    PROVE  \E f : Search(f, hs, key)
<1> DEFINE n == Len(hs)
           R == Ranges(hs)
           Good(d, f) == \A r \in R : r[2] - r[1] < d => f[r] = Step(f, hs, key, r)
           T == {d \in Nat : \E f : f = [r \in R |-> f[r]] /\ Good(d, f)}
<1>0. n \in Nat
  OBVIOUS
<1>1. 0 \in T
  <2> DEFINE f == [r \in R |-> {}]
  <2>1. ASSUME NEW r \in R, r[2] - r[1] < 0
        PROVE  f[r] = Step(f, hs, key, r)
    <3>1. r[1] \in 1 .. n + 1 /\ r[2] \in 0 .. n
      BY DEF Ranges
    <3>2. r[1] > r[2]
      BY <1>0, <2>1, <3>1
    <3>3. QED
      BY <3>2 DEF Step
  <2>2. f = [r \in R |-> f[r]] /\ Good(0, f)
    BY <2>1
  <2>3. QED
    BY <2>2
<1>2. ASSUME NEW d \in Nat \ {0}, d - 1 \in T
      PROVE  d \in T
  <2>1. PICK g : g = [r \in R |-> g[r]] /\ Good(d - 1, g)
    BY <1>2
  <2> DEFINE f == [r \in R |-> IF r[2] - r[1] < d - 1 THEN g[r]
                               ELSE Step(g, hs, key, r)]
  <2>2. ASSUME NEW r \in R, r[2] - r[1] < d
        PROVE  f[r] = Step(f, hs, key, r)
    <3>1. f[r] = Step(g, hs, key, r)
      BY <2>1
    <3>2. r[1] \in 1 .. n + 1 /\ r[2] \in 0 .. n
      BY DEF Ranges
    <3>3. CASE r[1] > r[2]
      BY <3>1, <3>3 DEF Step
    <3>4. CASE r[1] <= r[2]
      <4> DEFINE mi == Middle(r)
                 up == <<mi + 1, r[2]>>
                 down == <<r[1], mi - 1>>
      <4>1. /\ up \in R /\ up[2] - up[1] < d - 1
            /\ mi > 1 => down \in R /\ down[2] - down[1] < d - 1
        BY <1>0, <2>2, <3>4, SmallerRanges DEF Ranges
      <4>2. f[up] = g[up]
        BY <4>1
      <4>3. mi > 1 => f[down] = g[down]
        BY <4>1
      <4> HIDE DEF f
      <4>4. Step(g, hs, key, r) = Step(f, hs, key, r)
        BY <4>2, <4>3 DEF Step
      <4>5. QED
        BY <3>1, <4>4
    <3>5. QED
      BY <1>0, <3>2, <3>3, <3>4
  <2>3. f = [r \in R |-> f[r]]
    OBVIOUS
  <2> HIDE DEF f
  <2>4. QED
    BY <2>2, <2>3
<1>3. n + 1 \in T
  <2> HIDE DEF T
  <2>1. Nat \subseteq T
    BY <1>1, <1>2, Induction
  <2>2. QED
    BY <1>0, <2>1
<1>4. PICK f : f = [r \in R |-> f[r]] /\ Good(n + 1, f)
  BY <1>3
<1>5. \A r \in R : f[r] = Step(f, hs, key, r)
  <2>1. SUFFICES ASSUME NEW r \in R
                 PROVE  r[2] - r[1] < n + 1
    BY <1>4
  <2>2. r[1] \in 1 .. n + 1 /\ r[2] \in 0 .. n
    BY DEF Ranges
  <2>3. QED
    BY <1>0, <2>2
<1>6. Search(f, hs, key)
  BY <1>4, <1>5 DEF Search
<1>7. QED
  BY <1>6

\* What the search finds is a position of the name, one at most, and one if
\* there is any in the range and the vector is sorted.
LEMMA SearchFinds ==
    ASSUME NEW hs \in Seq(HeaderType), NEW key \in Keys, NEW f, Search(f, hs, key),
           NEW r \in Ranges(hs)
    PROVE  /\ f[r] \subseteq Occurrences(hs, key)
           /\ \A a, b \in f[r] : a = b
           /\ SortedByKey(hs) =>
                \A m \in r[1] .. r[2] : hs[m].key = key => f[r] # {}
<1> DEFINE n == Len(hs)
           R == Ranges(hs)
           Good(q) ==
                /\ f[q] \subseteq Occurrences(hs, key)
                /\ \A a, b \in f[q] : a = b
                /\ SortedByKey(hs) =>
                     \A m \in q[1] .. q[2] : hs[m].key = key => f[q] # {}
           T == {d \in Nat : \A q \in R : q[2] - q[1] < d => Good(q)}
<1>0. n \in Nat
  OBVIOUS
<1>1. \A q \in R : q[1] \in 1 .. n + 1 /\ q[2] \in 0 .. n
  BY DEF Ranges
<1>2. \A q \in R : f[q] = Step(f, hs, key, q)
  BY DEF Search
<1>3. \A q \in R : q[1] > q[2] => Good(q)
  <2>1. SUFFICES ASSUME NEW q \in R, q[1] > q[2]
                 PROVE  Good(q)
    OBVIOUS
  <2>2. f[q] = {}
    BY <1>2, <2>1 DEF Step
  <2>3. q[1] .. q[2] = {}
    BY <1>0, <1>1, <2>1
  <2>4. QED
    BY <2>2, <2>3
<1>4. 0 \in T
  <2>1. \A q \in R : q[2] - q[1] < 0 => q[1] > q[2]
    BY <1>0, <1>1
  <2> HIDE DEF Good
  <2>2. QED
    BY <1>3, <2>1
<1>5. ASSUME NEW d \in Nat \ {0}, d - 1 \in T
      PROVE  d \in T
  <2>1. SUFFICES ASSUME NEW q \in R, q[2] - q[1] < d, q[1] <= q[2]
                 PROVE  Good(q)
    <3>1. \A q \in R : q[1] <= q[2] \/ q[1] > q[2]
      BY <1>0, <1>1
    <3> HIDE DEF Good
    <3>2. QED
      BY <1>3, <2>1, <3>1
  <2> DEFINE lo == q[1]
             hi == q[2]
             mi == Middle(q)
             up == <<mi + 1, hi>>
             down == <<lo, mi - 1>>
  <2>2. /\ lo \in 1 .. n /\ hi \in 1 .. n
        /\ mi \in lo .. hi
        /\ mi \in 1 .. n
        /\ DOMAIN hs = 1 .. n
    BY <1>0, <2>1, MiddleFacts DEF Ranges
  <2>3. /\ up \in R /\ up[2] - up[1] < d - 1
        /\ mi > 1 => down \in R /\ down[2] - down[1] < d - 1
    BY <1>0, <2>1, SmallerRanges DEF Ranges
  <2>4. Good(up) /\ (mi > 1 => Good(down))
    <3> HIDE DEF Good, up, down
    <3>1. QED
      BY <1>5, <2>3
  <2>5. up[1] = mi + 1 /\ up[2] = hi /\ down[1] = lo /\ down[2] = mi - 1
    OBVIOUS
  <2>6. hs[mi].key \in Int /\ key \in Int /\ \A m \in 1 .. n : hs[m].key \in Int
    <3>1. \A m \in 1 .. n : hs[m] \in HeaderType
      OBVIOUS
    <3>2. \A m \in 1 .. n : hs[m].key \in Int
      BY HeadersAssumption, <3>1 DEF HeaderType
    <3>3. QED
      BY HeadersAssumption, <2>2, <3>2
  <2>7. f[q] = Step(f, hs, key, q)
    BY <1>2
  <2>8. CASE key = hs[mi].key
    <3>1. f[q] = {mi}
      BY <2>1, <2>2, <2>7, <2>8 DEF Step
    <3>2. QED
      BY <2>2, <2>8, <3>1 DEF Occurrences
  <2>9. CASE key > hs[mi].key
    <3>1. f[q] = f[up]
      BY <2>2, <2>6, <2>7, <2>9 DEF Step
    <3>2. ASSUME SortedByKey(hs), NEW m \in lo .. hi, hs[m].key = key
          PROVE  m \in mi + 1 .. hi
      <4>1. m \in 1 .. n
        BY <2>2
      <4>2. m <= mi => hs[m].key <= hs[mi].key
        BY <2>2, <3>2, <4>1 DEF SortedByKey
      <4>3. QED
        BY <2>2, <2>6, <2>9, <3>2, <4>1, <4>2
    <3>3. QED
      BY <2>4, <2>5, <3>1, <3>2
  <2>10. CASE key < hs[mi].key
    <3>1. ASSUME SortedByKey(hs), NEW m \in lo .. hi, hs[m].key = key
          PROVE  m \in lo .. mi - 1
      <4>1. m \in 1 .. n
        BY <2>2
      <4>2. mi <= m => hs[mi].key <= hs[m].key
        BY <2>2, <3>1, <4>1 DEF SortedByKey
      <4>3. QED
        BY <2>2, <2>6, <2>10, <3>1, <4>1, <4>2
    <3>2. CASE mi > 1
      <4>1. f[q] = f[down]
        BY <2>2, <2>6, <2>7, <2>10, <3>2 DEF Step
      <4>2. QED
        BY <2>4, <2>5, <3>1, <3>2, <4>1
    <3>3. CASE ~(mi > 1)
      <4>1. f[q] = {}
        BY <2>2, <2>6, <2>7, <2>10, <3>3 DEF Step
      <4>2. lo .. mi - 1 = {}
        BY <2>2, <3>3
      <4>3. QED
        BY <3>1, <4>1, <4>2
    <3>4. QED
      BY <3>2, <3>3
  <2>11. QED
    BY <2>6, <2>8, <2>9, <2>10
<1>6. Nat \subseteq T
  <2> HIDE DEF T
  <2>1. QED
    BY <1>4, <1>5, Induction
<1>7. r[2] - r[1] < n + 1 /\ n + 1 \in Nat
  BY <1>0, <1>1
<1>8. QED
  BY <1>6, <1>7

\* A set of positions without gaps.
LEMMA Interval ==
    ASSUME NEW n \in Nat, NEW S, S \subseteq 1 .. n, S # {},
           \A i, j \in S : i .. j \subseteq S
    PROVE  \E a, b \in 1 .. n : /\ a <= b /\ S = a .. b /\ First(S) = a
                                /\ Cardinality(S) = b - a + 1
<1>0. S \subseteq Nat
  OBVIOUS
<1>1. PICK a \in S : \A y \in S : a <= y
  BY <1>0, LeastNumber
<1>2. PICK b \in S : \A y \in S : y <= b
  <2> DEFINE U == {n - y : y \in S}
  <2>1. U \subseteq Nat /\ U # {}
    OBVIOUS
  <2> HIDE DEF U
  <2>2. PICK u \in U : \A y \in U : u <= y
    BY <2>1, LeastNumber
  <2>3. PICK b \in S : u = n - b
    BY <2>2 DEF U
  <2>4. ASSUME NEW y \in S
        PROVE  y <= b
    <3>1. n - y \in U
      BY DEF U
    <3>2. n - b <= n - y
      BY <2>2, <2>3, <3>1
    <3>3. QED
      BY <3>2
  <2>5. QED
    BY <2>4
<1>3. S = a .. b
  <2>1. a .. b \subseteq S /\ a \in Nat /\ b \in Nat
    BY <1>0
  <2>2. \A y \in S : y \in a .. b
    BY <1>0, <1>1, <1>2
  <2>3. QED
    BY <2>1, <2>2
<1>4. First(S) = a
  <2>1. \A i \in S : (\A j \in S : i <= j) => i = a
    BY <1>1
  <2>2. QED
    BY <1>1, <2>1 DEF First
<1>5. Cardinality(S) = b - a + 1
  BY <1>1, <1>3, FS_Interval
<1>6. QED
  BY <1>1, <1>2, <1>3, <1>4, <1>5

\* What is found has the name, without gaps; it is all there is if the vector is
\* sorted.
LEMMA SearchHeaderFacts ==
    ASSUME NEW hs \in Seq(HeaderType), NEW key \in Keys
    PROVE  LET found == SearchHeader(hs, key)
           IN  /\ found \subseteq Occurrences(hs, key)
               /\ SortedByKey(hs) => found = Occurrences(hs, key)
               /\ \/ found = {}
                  \/ \E a, b \in DOMAIN hs :
                        /\ a <= b /\ found = a .. b /\ First(found) = a
                        /\ Cardinality(found) = b - a + 1
<1> DEFINE n == Len(hs)
           found == SearchHeader(hs, key)
           run(i, j) == \A m \in i .. j : hs[m].key = key
<1>1. n \in Nat /\ DOMAIN hs = 1 .. n
  OBVIOUS
<1>2. CASE n = 0
  <2>1. found = {}
    BY <1>2 DEF SearchHeader
  <2>2. Occurrences(hs, key) = {}
    BY <1>1, <1>2 DEF Occurrences
  <2>3. QED
    BY <2>1, <2>2
<1>3. CASE n # 0
  <2> DEFINE f == CHOOSE f : Search(f, hs, key)
  <2>1. Search(f, hs, key)
    BY SearchExists
  <2>2. found = {j \in 1 .. n : \E i \in f[<<1, n>>] : run(i, j) /\ run(j, i)}
    BY <1>3 DEF SearchHeader, Search, Step, Middle, Ranges
  <2> HIDE DEF f, found
  <2>3. <<1, n>> \in Ranges(hs)
    BY <1>1, <1>3 DEF Ranges
  <2>4. /\ f[<<1, n>>] \subseteq Occurrences(hs, key)
        /\ \A a, b \in f[<<1, n>>] : a = b
        /\ SortedByKey(hs) => \A m \in 1 .. n : hs[m].key = key => f[<<1, n>>] # {}
    <3> DEFINE r == <<1, n>>
    <3>1. r[1] = 1 /\ r[2] = n /\ r \in Ranges(hs)
      BY <2>3
    <3> HIDE DEF r
    <3>2. /\ f[r] \subseteq Occurrences(hs, key)
          /\ \A a, b \in f[r] : a = b
          /\ SortedByKey(hs) => \A m \in 1 .. n : hs[m].key = key => f[r] # {}
      BY <2>1, <3>1, SearchFinds
    <3>3. QED
      BY <3>2 DEF r
  <2>5. found \subseteq Occurrences(hs, key)
    <3>1. SUFFICES ASSUME NEW j \in 1 .. n, NEW i \in f[<<1, n>>], run(i, j), run(j, i)
                   PROVE  hs[j].key = key
      BY <1>1, <2>2 DEF Occurrences
    <3>2. i \in 1 .. n
      BY <1>1, <2>4 DEF Occurrences
    <3>3. j \in i .. j \/ j \in j .. i
      BY <3>2
    <3>4. QED
      BY <3>1, <3>3
  <2>6. ASSUME SortedByKey(hs), NEW j \in Occurrences(hs, key)
        PROVE  j \in found
    <3>1. j \in 1 .. n /\ hs[j].key = key
      BY <1>1 DEF Occurrences
    <3>2. PICK i \in f[<<1, n>>] : TRUE
      BY <2>4, <2>6, <3>1
    <3>3. i \in 1 .. n /\ hs[i].key = key
      BY <1>1, <2>4 DEF Occurrences
    <3>4. ASSUME NEW x \in 1 .. n, NEW y \in 1 .. n, hs[x].key = key, hs[y].key = key,
                 NEW m \in x .. y
          PROVE  hs[m].key = key
      <4>1. m \in 1 .. n
        OBVIOUS
      <4>2. hs[x].key <= hs[m].key /\ hs[m].key <= hs[y].key
        BY <1>1, <2>6, <4>1 DEF SortedByKey
      <4>3. hs[m] \in HeaderType
        BY <4>1
      <4>4. hs[m].key \in Int /\ key \in Int
        BY HeadersAssumption, <4>3 DEF HeaderType
      <4>5. QED
        BY <3>4, <4>2, <4>4
    <3>5. run(i, j) /\ run(j, i)
      BY <3>1, <3>3, <3>4
    <3>6. QED
      BY <2>2, <3>1, <3>2, <3>5
  <2>7. CASE found # {}
    <3>1. ASSUME NEW x \in found, NEW y \in found, NEW m \in x .. y
          PROVE  m \in found
      <4>1. PICK i \in f[<<1, n>>] : run(i, x) /\ run(x, i) /\ run(i, y) /\ run(y, i)
        BY <2>2, <2>4
      <4>2. i \in 1 .. n /\ x \in 1 .. n /\ y \in 1 .. n /\ m \in 1 .. n
        <5>1. i \in 1 .. n
          BY <1>1, <2>4 DEF Occurrences
        <5>2. x \in 1 .. n /\ y \in 1 .. n
          BY <2>2
        <5>3. QED
          BY <1>1, <5>1, <5>2
      <4>3. run(i, m)
        BY <4>1, <4>2
      <4>4. run(m, i)
        BY <4>1, <4>2
      <4>5. QED
        BY <2>2, <4>2, <4>3, <4>4
    <3>2. found \subseteq 1 .. n
      BY <2>2
    <3>3. \A x, y \in found : x .. y \subseteq found
      BY <3>1
    <3>4. \E a, b \in 1 .. n : /\ a <= b /\ found = a .. b /\ First(found) = a
                              /\ Cardinality(found) = b - a + 1
      BY <1>1, <2>7, <3>2, <3>3, Interval
    <3>5. SortedByKey(hs) => found = Occurrences(hs, key)
      BY <2>5, <2>6
    <3>6. QED
      BY <1>1, <2>5, <3>4, <3>5 DEF found
  <2>8. QED
    BY <2>5, <2>6, <2>7 DEF found
<1>4. QED
  BY <1>2, <1>3

(***************************************************************************)
(* The values, and their cache.                                            *)
(***************************************************************************)

\* The values that the headers with a name have.
Vals(hs, key) == {hs[i].val : i \in Occurrences(hs, key)}

\* No two occurrences of a name have the same value.
Distinct(hs) ==
    \A i, j \in DOMAIN hs : i # j /\ hs[i].key = hs[j].key => hs[i].val # hs[j].val

\* A sequence of all the values of a name, each once.
AllOf(hs, key, got) ==
    Len(got) = Cardinality(Vals(hs, key)) /\ ToSet(got) = Vals(hs, key)

\* What is cached is what there is.
CacheIsCurrent(hs) ==
    \A i \in DOMAIN hs : hs[i].values # << >> => AllOf(hs, hs[i].key, hs[i].values)

LEMMA OccurrencesFinite ==
    ASSUME NEW hs \in Seq(HeaderType), NEW key
    PROVE  /\ IsFiniteSet(Occurrences(hs, key))
           /\ IsFiniteSet(Vals(hs, key))
           /\ Distinct(hs) =>
                Cardinality(Vals(hs, key)) = Cardinality(Occurrences(hs, key))
<1> DEFINE O == Occurrences(hs, key)
           f == [i \in O |-> hs[i].val]
<1>1. IsFiniteSet(O)
  <2>1. IsFiniteSet(1 .. Len(hs)) /\ O \in SUBSET (1 .. Len(hs))
    BY FS_Interval DEF Occurrences
  <2>2. QED
    BY <2>1, FS_Subset
<1>2. f \in Surjection(O, Vals(hs, key))
  BY DEF Surjection, Vals
<1>3. Distinct(hs) => f \in Injection(O, Vals(hs, key))
  <2>1. f \in [O -> Vals(hs, key)]
    BY DEF Vals
  <2>2. Distinct(hs) => \A i, j \in O : f[i] = f[j] => i = j
    BY DEF Distinct, Occurrences
  <2>3. QED
    BY <2>1, <2>2 DEF Injection, IsInjective
<1>4. QED
  BY <1>1, <1>2, <1>3, FS_Surjection

\* A look-up has the cached values, or those of what is found.
LEMMA ValuesFacts ==
    ASSUME NEW hs \in Seq(HeaderType), NEW key \in Keys
    PROVE  LET found == SearchHeader(hs, key)
               got == Values(hs, key)
           IN  /\ got \in Seq(Seq(Int))
               /\ found = {} => got = << >>
               /\ found # {} =>
                    /\ First(found) \in found
                    /\ IF hs[First(found)].values # << >>
                         THEN got = hs[First(found)].values
                         ELSE /\ Len(got) = Cardinality(found)
                              /\ ToSet(got) = {hs[i].val : i \in found}
<1> DEFINE found == SearchHeader(hs, key)
           got == Values(hs, key)
<1>1. CASE found = {}
  BY <1>1 DEF Values
<1>2. CASE found # {}
  <2> DEFINE i == First(found)
  <2>1. PICK a, b \in DOMAIN hs : /\ a <= b /\ found = a .. b /\ i = a
                                  /\ Cardinality(found) = b - a + 1
    BY <1>2, SearchHeaderFacts
  <2>2. hs[a] \in HeaderType /\ a \in Nat /\ b \in Nat /\ i \in found
    BY <2>1
  <2>3. CASE hs[i].values # << >>
    <3>1. got = hs[i].values
      BY <1>2, <2>3 DEF Values
    <3>2. hs[a].values \in Seq(Seq(Int))
      BY <2>2 DEF HeaderType
    <3>3. QED
      BY <1>2, <2>1, <2>2, <2>3, <3>1, <3>2
  <2>4. CASE hs[i].values = << >>
    <3>1. got = [j \in 1 .. b - a + 1 |-> hs[a + j - 1].val]
      BY <1>2, <2>1, <2>4 DEF Values
    <3>2. ASSUME NEW j \in 1 .. b - a + 1
          PROVE  hs[a + j - 1].val \in Seq(Int) /\ a + j - 1 \in a .. b
      <4>1. a + j - 1 \in DOMAIN hs /\ a + j - 1 \in a .. b
        BY <2>1
      <4>2. hs[a + j - 1] \in HeaderType
        BY <4>1
      <4>3. QED
        BY <4>1, <4>2 DEF HeaderType
    <3>3. got \in Seq(Seq(Int)) /\ Len(got) = b - a + 1 /\ DOMAIN got = 1 .. b - a + 1
      <4>1. b - a + 1 \in Nat
        BY <2>1, <2>2
      <4>2. got \in [1 .. b - a + 1 -> Seq(Int)]
        BY <3>1, <3>2
      <4>3. QED
        BY <4>1, <4>2
    <3>4. ToSet(got) = {hs[m].val : m \in found}
      <4>1. ASSUME NEW m \in found
            PROVE  hs[m].val \in ToSet(got)
        <5>1. m - a + 1 \in 1 .. b - a + 1 /\ a + (m - a + 1) - 1 = m
          BY <2>1, <2>2
        <5>2. got[m - a + 1] = hs[m].val
          BY <3>1, <5>1
        <5>3. QED
          BY <3>3, <5>1, <5>2 DEF ToSet
      <4>2. \A j \in 1 .. b - a + 1 : got[j] \in {hs[m].val : m \in found}
        BY <2>1, <3>1, <3>2
      <4>3. QED
        BY <3>3, <4>1, <4>2 DEF ToSet
    <3>5. QED
      BY <1>2, <2>1, <2>2, <2>4, <3>3, <3>4
  <2>5. QED
    BY <2>3, <2>4
<1>3. QED
  BY <1>1, <1>2

\* In a sorted vector a look-up has all values.
LEMMA ValuesAreAll ==
    ASSUME NEW hs \in Seq(HeaderType), NEW key \in Keys,
           SortedByKey(hs), Distinct(hs), CacheIsCurrent(hs)
    PROVE  AllOf(hs, key, Values(hs, key))
<1> DEFINE found == SearchHeader(hs, key)
           got == Values(hs, key)
<1>1. found = Occurrences(hs, key)
  BY SearchHeaderFacts
<1>2. Cardinality(Vals(hs, key)) = Cardinality(found)
  BY <1>1, OccurrencesFinite
<1>3. CASE found = {}
  <2>1. got = << >>
    BY <1>3, ValuesFacts
  <2>2. Vals(hs, key) = {} /\ Cardinality(Vals(hs, key)) = 0
    BY <1>1, <1>2, <1>3, FS_EmptySet DEF Vals
  <2>3. QED
    BY <2>1, <2>2 DEF AllOf, ToSet
<1>4. CASE found # {}
  <2>1. First(found) \in DOMAIN hs /\ hs[First(found)].key = key
    BY <1>1, <1>4, ValuesFacts DEF Occurrences
  <2>2. CASE hs[First(found)].values # << >>
    <3>1. got = hs[First(found)].values
      BY <1>4, <2>2, ValuesFacts
    <3>2. QED
      BY <2>1, <2>2, <3>1 DEF CacheIsCurrent
  <2>3. CASE hs[First(found)].values = << >>
    <3>1. Len(got) = Cardinality(found) /\ ToSet(got) = {hs[i].val : i \in found}
      BY <1>4, <2>3, ValuesFacts
    <3>2. QED
      BY <1>1, <1>2, <3>1 DEF AllOf, Vals
  <2>4. QED
    BY <2>2, <2>3
<1>5. QED
  BY <1>3, <1>4

(***************************************************************************)
(* The sort.                                                               *)
(***************************************************************************)

\* s has the headers of hs in another order.
Permuted(hs, s) ==
    /\ s \in Seq(HeaderType) /\ DOMAIN s = DOMAIN hs
    /\ \E p \in [DOMAIN hs -> DOMAIN hs] :
          /\ \A i, j \in DOMAIN hs : p[i] = p[j] => i = j
          /\ \A j \in DOMAIN hs : \E i \in DOMAIN hs : p[i] = j
          /\ \A i \in DOMAIN hs : s[i] = hs[p[i]]

\* The orders of n positions, f[m] those of the first m.
Extended(hs, field, P) ==
    UNION {{Append(p, i) :
               i \in {i \in DOMAIN hs \ ToSet(p) :
                         \A j \in DOMAIN hs \ ToSet(p) : hs[i][field] <= hs[j][field]}} :
              p \in P}

Orders(f, hs, field) ==
    f = [m \in 0 .. Len(hs) |-> IF m = 0 THEN {<< >>}
                                ELSE Extended(hs, field, f[m - 1])]

LEMMA OrdersExist ==
    ASSUME NEW hs \in Seq(HeaderType), NEW field
    PROVE  \E f : Orders(f, hs, field)
<1> DEFINE n == Len(hs)
           X == SUBSET Seq(1 .. n)
           G == [i \in 1 .. n |-> [P \in X |-> Extended(hs, field, P)]]
           none == {<< >>}
<1>0. n \in Nat /\ DOMAIN hs = 1 .. n
  OBVIOUS
<1>1. n \in Nat /\ none \in X
  OBVIOUS
<1>2. ASSUME NEW P \in X
      PROVE  Extended(hs, field, P) \in X
  <2>1. \A p \in Seq(1 .. n), i \in 1 .. n : Append(p, i) \in Seq(1 .. n)
    OBVIOUS
  <2>2. QED
    BY <1>1, <2>1, SMTT(30) DEF Extended
<1>3. G \in [1 .. n -> [X -> X]]
  BY <1>2
<1> HIDE DEF X, G
<1>4. PICK f \in [0 .. n -> X] :
         f[0] = none /\ \A i \in 1 .. n : f[i] = G[i][f[i - 1]]
  <2>1. \E f \in [0 .. n -> X] : Computed(f, none, n, G)
    BY <1>1, <1>3, Recursion
  <2>2. QED
    BY <2>1 DEF Computed
<1>5. ASSUME NEW m \in 0 .. n
      PROVE  f[m] = IF m = 0 THEN {<< >>} ELSE Extended(hs, field, f[m - 1])
  <2>1. CASE m = 0
    BY <1>4, <2>1
  <2>2. CASE m # 0
    <3>1. m \in 1 .. n /\ f[m - 1] \in X
      BY <1>1, <2>2
    <3>2. G[m][f[m - 1]] = Extended(hs, field, f[m - 1])
      BY <3>1 DEF G
    <3>3. QED
      BY <1>4, <2>2, <3>1, <3>2
  <2>3. QED
    BY <2>1, <2>2
<1>6. Orders(f, hs, field)
  BY <1>5 DEF Orders
<1>7. QED
  BY <1>6

\* A vector that is sorted has the same headers, in order.
LEMMA SortedFacts ==
    ASSUME NEW hs \in Seq(HeaderType), NEW field, NEW s \in Sorted(hs, field)
    PROVE  /\ Permuted(hs, s)
           /\ \A i, j \in DOMAIN s : i < j => s[i][field] <= s[j][field]
<1> DEFINE n == Len(hs)
           f == CHOOSE f : Orders(f, hs, field)
           Good(m, p) ==
                /\ p \in Seq(1 .. n) /\ Len(p) = m
                /\ \A i, j \in 1 .. m : p[i] = p[j] => i = j
                /\ \A i \in 1 .. m, j \in 1 .. n :
                      (\A l \in 1 .. i - 1 : p[l] # j) => hs[p[i]][field] <= hs[j][field]
           T == {m \in Nat : m <= n => \A p \in f[m] : Good(m, p)}
<1>1. n \in Nat /\ DOMAIN hs = 1 .. n
  OBVIOUS
<1>2. Orders(f, hs, field)
  BY OrdersExist
<1>3. Sorted(hs, field) = {[i \in DOMAIN hs |-> hs[p[i]]] : p \in f[n]}
  BY DEF Sorted, Orders, Extended
<1> HIDE DEF f
<1>4. f[0] = {<< >>} /\ \A m \in 1 .. n : f[m] = Extended(hs, field, f[m - 1])
  <2>1. \A m \in 0 .. n : f[m] = IF m = 0 THEN {<< >>}
                                 ELSE Extended(hs, field, f[m - 1])
    BY <1>2 DEF Orders
  <2>2. QED
    BY <1>1, <2>1
<1>5. 0 \in T
  <2>1. Good(0, << >>)
    OBVIOUS
  <2> HIDE DEF Good
  <2>2. QED
    BY <1>4, <2>1
<1>6. ASSUME NEW m \in Nat \ {0}, m - 1 \in T
      PROVE  m \in T
  <2>1. SUFFICES ASSUME m <= n, NEW q \in f[m]
                 PROVE  Good(m, q)
    OBVIOUS
  <2>2. m \in 1 .. n
    BY <1>1, <2>1
  <2>0. PICK p \in f[m - 1] : \E i \in DOMAIN hs \ ToSet(p) :
           /\ \A j \in DOMAIN hs \ ToSet(p) : hs[i][field] <= hs[j][field]
           /\ q = Append(p, i)
    <3>1. q \in Extended(hs, field, f[m - 1])
      BY <1>4, <2>1, <2>2
    <3> HIDE DEF n
    <3>2. QED
      BY <3>1 DEF Extended
  <2>3. PICK i \in DOMAIN hs \ ToSet(p) :
           /\ \A j \in DOMAIN hs \ ToSet(p) : hs[i][field] <= hs[j][field]
           /\ q = Append(p, i)
    BY <2>0
  <2>4. Good(m - 1, p)
    BY <1>6, <2>2
  <2>5. /\ q \in Seq(1 .. n) /\ Len(q) = m /\ q[m] = i
        /\ \A l \in 1 .. m - 1 : q[l] = p[l] /\ q[l] # i
    <3>1. p \in Seq(1 .. n) /\ Len(p) = m - 1 /\ i \in 1 .. n
      BY <1>1, <2>3, <2>4
    <3>2. \A l \in 1 .. m - 1 : p[l] \in ToSet(p)
      BY <3>1 DEF ToSet
    <3>3. \A l \in 1 .. m - 1 : p[l] # i
      BY <2>3, <3>2
    <3>4. QED
      BY <2>3, <3>1, <3>3
  <2>6. ASSUME NEW j \in 1 .. m, NEW l \in 1 .. m, q[j] = q[l]
        PROVE  j = l
    BY <2>4, <2>5, <2>6
  <2>7. ASSUME NEW j \in 1 .. m, NEW k \in 1 .. n, \A l \in 1 .. j - 1 : q[l] # k
        PROVE  hs[q[j]][field] <= hs[k][field]
    <3>1. CASE j = m
      <4>1. k \notin ToSet(p)
        BY <2>4, <2>5, <2>7, <3>1 DEF ToSet
      <4>2. QED
        BY <1>1, <2>3, <2>5, <3>1, <4>1
    <3>2. CASE j # m
      <4>1. j \in 1 .. m - 1 /\ q[j] = p[j] /\ \A l \in 1 .. j - 1 : p[l] = q[l]
        BY <2>5, <3>2
      <4>2. QED
        BY <2>4, <2>7, <4>1
    <3>3. QED
      BY <3>1, <3>2
  <2>8. QED
    BY <2>5, <2>6, <2>7
<1>7. PICK p \in f[n] : s = [i \in DOMAIN hs |-> hs[p[i]]]
  BY <1>3
<1>8. Good(n, p)
  <2>1. Nat \subseteq T
    <3> HIDE DEF T
    <3>1. QED
      BY <1>5, <1>6, Induction
  <2>2. QED
    BY <1>1, <2>1
<1>9. p \in [1 .. n -> 1 .. n] /\ \A i, j \in 1 .. n : p[i] = p[j] => i = j
  BY <1>1, <1>8
<1>10. \A j \in 1 .. n : \E i \in 1 .. n : p[i] = j
  <2>1. p \in Injection(1 .. n, 1 .. n)
    BY <1>9 DEF Injection, IsInjective
  <2>2. IsFiniteSet(1 .. n)
    BY FS_Interval
  <2>3. p \in Surjection(1 .. n, 1 .. n)
    BY <2>1, <2>2, FS_Injection
  <2>4. QED
    BY <2>3 DEF Surjection
<1>11. s \in Seq(HeaderType) /\ DOMAIN s = 1 .. n
  <2>1. \A i \in 1 .. n : hs[p[i]] \in HeaderType
    BY <1>1, <1>9
  <2>2. s \in [1 .. n -> HeaderType]
    BY <1>1, <1>7, <2>1
  <2>3. QED
    BY <1>1, <2>2
<1>12. Permuted(hs, s)
  BY <1>1, <1>7, <1>9, <1>10, <1>11 DEF Permuted
<1>13. ASSUME NEW i \in 1 .. n, NEW j \in 1 .. n, i < j
       PROVE  s[i][field] <= s[j][field]
  <2>1. \A l \in 1 .. i - 1 : p[l] # p[j]
    <3>1. SUFFICES ASSUME NEW l \in 1 .. i - 1, p[l] = p[j]
                   PROVE  FALSE
      OBVIOUS
    <3>2. l \in 1 .. n /\ l # j
      BY <1>13
    <3>3. QED
      BY <1>9, <3>1, <3>2
  <2>2. hs[p[i]][field] <= hs[p[j]][field]
    BY <1>8, <1>9, <2>1
  <2>3. QED
    BY <1>1, <1>7, <2>2
<1>14. QED
  BY <1>11, <1>12, <1>13

(***************************************************************************)
(* What the operations keep.                                               *)
(***************************************************************************)

\* The headers of one name: no two have the same value; what is cached is what
\* there is; a header as it was read has its position as value.
DistinctAt(hs, key) ==
    \A i, j \in Occurrences(hs, key) : i # j => hs[i].val # hs[j].val

CurrentAt(hs, key) ==
    \A i \in Occurrences(hs, key) :
        hs[i].values # << >> => AllOf(hs, key, hs[i].values)

AsRead(hs, key) == \A i \in Occurrences(hs, key) : hs[i].val = <<hs[i].id>>

\* s keeps what hs has of a name.
Keeps(hs, s, key) ==
    /\ Vals(s, key) = Vals(hs, key)
    /\ DistinctAt(hs, key) => DistinctAt(s, key)
    /\ CurrentAt(hs, key) => CurrentAt(s, key)
    /\ AsRead(hs, key) => AsRead(s, key)

LEMMA AllKeys ==
    ASSUME NEW hs \in Seq(HeaderType)
    PROVE  /\ Distinct(hs) <=> \A k \in Keys : DistinctAt(hs, k)
           /\ CacheIsCurrent(hs) <=> \A k \in Keys : CurrentAt(hs, k)
<1>1. \A i \in DOMAIN hs : hs[i].key \in Keys
  <2>1. \A i \in DOMAIN hs : hs[i] \in HeaderType
    OBVIOUS
  <2>2. QED
    BY <2>1 DEF HeaderType
<1>2. QED
  BY <1>1 DEF Distinct, CacheIsCurrent, DistinctAt, CurrentAt, Occurrences

\* Headers that are moved, none lost and none twice, are kept.
LEMMA MovedKeeps ==
    ASSUME NEW hs, NEW s, NEW key,
           NEW p \in [Occurrences(s, key) -> Occurrences(hs, key)],
           \A i, j \in Occurrences(s, key) : p[i] = p[j] => i = j,
           \A j \in Occurrences(hs, key) : \E i \in Occurrences(s, key) : p[i] = j,
           \A i \in Occurrences(s, key) : s[i] = hs[p[i]]
    PROVE  Keeps(hs, s, key)
<1>1. Vals(s, key) = Vals(hs, key)
  BY DEF Vals
<1>2. DistinctAt(hs, key) => DistinctAt(s, key)
  BY DEF DistinctAt
<1>3. CurrentAt(hs, key) => CurrentAt(s, key)
  BY <1>1 DEF CurrentAt, AllOf
<1>4. AsRead(hs, key) => AsRead(s, key)
  BY DEF AsRead
<1>5. QED
  BY <1>1, <1>2, <1>3, <1>4 DEF Keeps

LEMMA PermutedKeeps ==
    ASSUME NEW hs \in Seq(HeaderType), NEW s, Permuted(hs, s), NEW key
    PROVE  Keeps(hs, s, key)
<1>1. PICK q \in [DOMAIN hs -> DOMAIN hs] :
         /\ \A i, j \in DOMAIN hs : q[i] = q[j] => i = j
         /\ \A j \in DOMAIN hs : \E i \in DOMAIN hs : q[i] = j
         /\ \A i \in DOMAIN hs : s[i] = hs[q[i]]
  BY DEF Permuted
<1>2. DOMAIN s = DOMAIN hs
  BY DEF Permuted
<1> DEFINE p == [i \in Occurrences(s, key) |-> q[i]]
<1>3. p \in [Occurrences(s, key) -> Occurrences(hs, key)]
  BY <1>1, <1>2 DEF Occurrences
<1>4. \A i, j \in Occurrences(s, key) : p[i] = p[j] => i = j
  BY <1>1, <1>2 DEF Occurrences
<1>5. \A j \in Occurrences(hs, key) : \E i \in Occurrences(s, key) : p[i] = j
  BY <1>1, <1>2 DEF Occurrences
<1>6. \A i \in Occurrences(s, key) : s[i] = hs[p[i]]
  BY <1>1, <1>2 DEF Occurrences
<1>7. QED
  BY <1>3, <1>4, <1>5, <1>6, MovedKeeps

LEMMA KeepsTransitive ==
    ASSUME NEW a, NEW b, NEW c, NEW key, Keeps(a, b, key), Keeps(b, c, key)
    PROVE  Keeps(a, c, key)
BY DEF Keeps

LEMMA SortedIsSorted ==
    ASSUME NEW hs \in Seq(HeaderType), NEW s \in Sorted(hs, "key")
    PROVE  SortedByKey(s)
<1>1. s \in Seq(HeaderType) /\ \A i, j \in DOMAIN s : i < j => s[i].key <= s[j].key
  BY SortedFacts DEF Permuted
<1>2. \A i \in DOMAIN s : s[i].key \in Int /\ i \in Int
  <2>1. \A i \in DOMAIN s : s[i] \in HeaderType /\ i \in Int
    BY <1>1
  <2>2. QED
    BY <2>1, HeadersAssumption DEF HeaderType
<1>3. QED
  BY <1>1, <1>2 DEF SortedByKey


\* Caching the values of a name changes no header but for its cache.
LEMMA CachedFacts ==
    ASSUME NEW hs \in Seq(HeaderType), NEW key \in Keys
    PROVE  LET c == Cached(hs, key)
           IN  /\ c \in Seq(HeaderType) /\ DOMAIN c = DOMAIN hs
               /\ \A i \in DOMAIN hs :
                     /\ c[i].id = hs[i].id /\ c[i].key = hs[i].key
                     /\ c[i].val = hs[i].val
                     /\ \/ c[i].values = hs[i].values
                        \/ hs[i].key = key /\ c[i].values = Values(hs, key)
<1> DEFINE found == SearchHeader(hs, key)
           i == First(found)
           c == Cached(hs, key)
<1>1. CASE found = {}
  BY <1>1 DEF Cached
<1>2. CASE found # {}
  <2>1. i \in DOMAIN hs /\ hs[i].key = key
    BY <1>2, ValuesFacts, SearchHeaderFacts DEF Occurrences
  <2>2. c = [hs EXCEPT ![i].values = Values(hs, key)]
    BY <1>2 DEF Cached
  <2>3. Values(hs, key) \in Seq(Seq(Int))
    BY ValuesFacts
  <2>4. hs[i] \in HeaderType
    BY <2>1
  <2> HIDE DEF i, c
  <2>5. [hs[i] EXCEPT !.values = Values(hs, key)] \in HeaderType
    BY <2>3, <2>4 DEF HeaderType
  <2>6. c \in Seq(HeaderType) /\ DOMAIN c = DOMAIN hs
    BY <2>1, <2>2, <2>5
  <2>7. /\ \A j \in DOMAIN hs \ {i} : c[j] = hs[j]
        /\ c[i] = [hs[i] EXCEPT !.values = Values(hs, key)]
    BY <2>1, <2>2
  <2>8. /\ c[i].id = hs[i].id /\ c[i].key = hs[i].key /\ c[i].val = hs[i].val
        /\ c[i].values = Values(hs, key)
    BY <2>4, <2>7 DEF HeaderType
  <2>9. QED
    BY <2>1, <2>6, <2>7, <2>8 DEF c
<1>3. QED
  BY <1>1, <1>2

LEMMA CachedKeeps ==
    ASSUME NEW hs \in Seq(HeaderType), NEW key \in Keys
    PROVE  LET c == Cached(hs, key)
           IN  /\ \A k : Occurrences(c, k) = Occurrences(hs, k)
               /\ \A k : Vals(c, k) = Vals(hs, k)
               /\ \A k : AsRead(hs, k) => AsRead(c, k)
               /\ SortedByKey(hs) => SortedByKey(c)
               /\ Distinct(hs) => Distinct(c)
<1> DEFINE c == Cached(hs, key)
<1>1. /\ DOMAIN c = DOMAIN hs
      /\ \A i \in DOMAIN hs : c[i].id = hs[i].id /\ c[i].key = hs[i].key
                              /\ c[i].val = hs[i].val
  BY CachedFacts
<1> HIDE DEF c
<1>2. \A k : Occurrences(c, k) = Occurrences(hs, k)
  BY <1>1 DEF Occurrences
<1>3. ASSUME NEW k
      PROVE  Vals(c, k) = Vals(hs, k)
  <2>1. \A i \in Occurrences(hs, k) : c[i].val = hs[i].val
    BY <1>1 DEF Occurrences
  <2>2. QED
    BY <1>2, <2>1 DEF Vals
<1>4. \A k : AsRead(hs, k) => AsRead(c, k)
  BY <1>1, <1>2 DEF AsRead, Occurrences
<1>5. SortedByKey(hs) => SortedByKey(c)
  BY <1>1 DEF SortedByKey
<1>6. Distinct(hs) => Distinct(c)
  BY <1>1 DEF Distinct
<1>7. QED
  BY <1>2, <1>3, <1>4, <1>5, <1>6 DEF c

\* A cache that a look-up fills is current.
LEMMA CachedIsCurrent ==
    ASSUME NEW hs \in Seq(HeaderType), NEW key \in Keys,
           SortedByKey(hs), Distinct(hs), CacheIsCurrent(hs)
    PROVE  CacheIsCurrent(Cached(hs, key))
<1> DEFINE c == Cached(hs, key)
<1>1. /\ DOMAIN c = DOMAIN hs
      /\ \A i \in DOMAIN hs : /\ c[i].key = hs[i].key
                              /\ \/ c[i].values = hs[i].values
                                 \/ hs[i].key = key /\ c[i].values = Values(hs, key)
  BY CachedFacts
<1>2. \A k, got : AllOf(hs, k, got) => AllOf(c, k, got)
  BY CachedKeeps DEF AllOf
<1> HIDE DEF c
<1>3. ASSUME NEW i \in DOMAIN c, c[i].values # << >>
      PROVE  AllOf(hs, c[i].key, c[i].values)
  <2>1. CASE c[i].values = hs[i].values
    BY <1>1, <1>3, <2>1 DEF CacheIsCurrent
  <2>2. CASE hs[i].key = key /\ c[i].values = Values(hs, key)
    BY <1>1, <2>2, ValuesAreAll
  <2>3. QED
    BY <1>1, <1>3, <2>1, <2>2
<1>4. CacheIsCurrent(c)
  BY <1>2, <1>3 DEF CacheIsCurrent
<1>5. QED
  BY <1>4 DEF c

\* What a header is set to: the headers are sorted, the name has that value
\* once, no other name has changed.
IsSet(hs, s, key, val) ==
    /\ s \in Seq(HeaderType) /\ SortedByKey(s)
    /\ Vals(s, key) = {val}
    /\ DistinctAt(s, key) /\ CurrentAt(s, key)
    /\ \A k \in Keys \ {key} : Keeps(hs, s, k)

\* A name that occurs once, with nothing cached.
LEMMA OneOccurrence ==
    ASSUME NEW s, NEW key, NEW i, Occurrences(s, key) = {i}, s[i].values = << >>
    PROVE  /\ Vals(s, key) = {s[i].val}
           /\ DistinctAt(s, key) /\ CurrentAt(s, key)
BY DEF Vals, DistinctAt, CurrentAt

LEMMA AppendedIsSet ==
    ASSUME NEW hs \in Seq(HeaderType), NEW key \in Keys, NEW val \in Seq(Int),
           Occurrences(hs, key) = {},
           NEW s \in Sorted(Append(hs, Header(Len(hs) + 1, key, val)), "key")
    PROVE  IsSet(hs, s, key, val)
<1> DEFINE n == Len(hs)
           h == Header(n + 1, key, val)
           a == Append(hs, h)
<1>1. n \in Nat /\ DOMAIN hs = 1 .. n
  OBVIOUS
<1>2. h \in HeaderType /\ h.key = key /\ h.val = val /\ h.values = << >>
  <2>1. << >> \in Seq(Seq(Int))
    OBVIOUS
  <2>2. QED
    BY <1>1, <2>1 DEF Header, HeaderType
<1> HIDE DEF h
<1>3. /\ a \in Seq(HeaderType) /\ DOMAIN a = 1 .. n + 1
      /\ a[n + 1] = h /\ \A i \in 1 .. n : a[i] = hs[i]
  BY <1>1, <1>2
<1>4. s \in Sorted(a, "key")
  BY DEF h
<1> HIDE DEF a, n
<1>5. Permuted(a, s) /\ SortedByKey(s)
  BY <1>3, <1>4, SortedFacts, SortedIsSorted
<1>6. Occurrences(a, key) = {n + 1}
  <2>1. \A i \in 1 .. n : hs[i].key # key
    BY <1>1 DEF Occurrences
  <2>2. QED
    BY <1>1, <1>2, <1>3, <2>1 DEF Occurrences
<1>7. Vals(a, key) = {val} /\ DistinctAt(a, key) /\ CurrentAt(a, key)
  <2>1. a[n + 1].values = << >> /\ a[n + 1].val = val
    BY <1>2, <1>3
  <2>2. \A i : i = n + 1 => Occurrences(a, key) = {i} /\ a[i].values = << >>
    BY <1>6, <2>1
  <2>3. QED
    BY <2>1, <2>2, OneOccurrence, Zenon
<1>8. ASSUME NEW k \in Keys \ {key}
      PROVE  Keeps(hs, a, k)
  <2> DEFINE p == [i \in Occurrences(a, k) |-> i]
  <2>1. Occurrences(a, k) = Occurrences(hs, k)
    BY <1>1, <1>2, <1>3 DEF Occurrences
  <2>2. \A i \in Occurrences(a, k) : a[i] = hs[i]
    BY <1>1, <1>3, <2>1 DEF Occurrences
  <2>3. p \in [Occurrences(a, k) -> Occurrences(hs, k)]
    BY <2>1
  <2>4. /\ \A i, j \in Occurrences(a, k) : p[i] = p[j] => i = j
        /\ \A j \in Occurrences(hs, k) : \E i \in Occurrences(a, k) : p[i] = j
        /\ \A i \in Occurrences(a, k) : a[i] = hs[p[i]]
    BY <2>1, <2>2
  <2> HIDE DEF p
  <2>5. QED
    BY <2>3, <2>4, MovedKeeps
<1>9. \A k : Keeps(a, s, k)
  BY <1>3, <1>5, PermutedKeeps
<1>10. \A k \in Keys \ {key} : Keeps(hs, s, k)
  BY <1>8, <1>9, KeepsTransitive
<1>11. Vals(s, key) = {val} /\ DistinctAt(s, key) /\ CurrentAt(s, key)
  BY <1>7, <1>9 DEF Keeps
<1>12. QED
  BY <1>5, <1>10, <1>11 DEF IsSet, Permuted

\* The occurrences are those from a to b: the first is kept, with the value.
LEMMA ReplacedIsSet ==
    ASSUME NEW hs \in Seq(HeaderType), SortedByKey(hs),
           NEW key \in Keys, NEW val \in Seq(Int),
           NEW a \in DOMAIN hs, NEW b \in DOMAIN hs, a <= b,
           Occurrences(hs, key) = a .. b
    PROVE  IsSet(hs, SubSeq(hs, 1, a - 1)
                     \o <<[hs[a] EXCEPT !.val = val, !.values = << >>]>>
                     \o SubSeq(hs, a + (b - a + 1), Len(hs)), key, val)
<1> DEFINE n == Len(hs)
           h == [hs[a] EXCEPT !.val = val, !.values = << >>]
           s == SubSeq(hs, 1, a - 1) \o <<h>> \o SubSeq(hs, a + (b - a + 1), n)
           src(i) == IF i <= a THEN i ELSE i + (b - a)
<1>1. n \in Nat /\ DOMAIN hs = 1 .. n /\ a \in 1 .. n /\ b \in 1 .. n
  OBVIOUS
<1>2. \A i \in 1 .. n : hs[i] \in HeaderType /\ hs[i].key \in Int
  <2>1. \A i \in 1 .. n : hs[i] \in HeaderType
    OBVIOUS
  <2>2. QED
    BY <2>1, HeadersAssumption DEF HeaderType
<1>3. /\ h \in HeaderType /\ h.key = key /\ h.val = val /\ h.values = << >>
  <2>1. a \in Occurrences(hs, key)
    BY <1>1
  <2>2. hs[a].key = key
    BY <2>1 DEF Occurrences
  <2>3. << >> \in Seq(Seq(Int)) /\ hs[a] \in HeaderType
    BY <1>1, <1>2
  <2>4. QED
    BY <2>2, <2>3 DEF HeaderType
<1>4. /\ s \in Seq(HeaderType) /\ DOMAIN s = 1 .. n - (b - a)
      /\ s[a] = h
      /\ \A i \in DOMAIN s \ {a} : s[i] = hs[src(i)]
  <2> HIDE DEF h
  <2> DEFINE before == SubSeq(hs, 1, a - 1)
             after == SubSeq(hs, b + 1, n)
  <2>1. /\ before \in Seq(HeaderType) /\ Len(before) = a - 1
        /\ \A i \in 1 .. a - 1 : before[i] = hs[i]
    BY <1>1
  <2>2. /\ after \in Seq(HeaderType) /\ Len(after) = n - b
        /\ \A i \in 1 .. n - b : after[i] = hs[b + i]
    BY <1>1, SMTT(30)
  <2>3. s = before \o <<h>> \o after
    <3>1. a + (b - a + 1) = b + 1
      BY <1>1
    <3>2. QED
      BY <3>1
  <2> HIDE DEF before, after, s
  <2> DEFINE w == before \o <<h>>
  <2>4. /\ w \in Seq(HeaderType) /\ Len(w) = a
        /\ \A i \in 1 .. a - 1 : w[i] = hs[i]
        /\ w[a] = h
    BY <1>1, <1>3, <2>1
  <2>5. s = w \o after
    BY <2>3
  <2> HIDE DEF w
  <2>6. s \in Seq(HeaderType) /\ Len(s) = a + (n - b)
    BY <1>1, <2>2, <2>4, <2>5
  <2>7. \A i \in 1 .. a : s[i] = w[i]
    BY <1>1, <2>2, <2>4, <2>5
  <2>8. \A i \in a + 1 .. a + (n - b) : s[i] = after[i - a]
    BY <1>1, <2>2, <2>4, <2>5
  <2>9. \A i \in a + 1 .. a + (n - b) : s[i] = hs[i + (b - a)]
    <3>1. \A i \in a + 1 .. a + (n - b) : i - a \in 1 .. n - b /\ b + (i - a) = i + (b - a)
      BY <1>1
    <3>2. QED
      BY <2>2, <2>8, <3>1
  <2>10. DOMAIN s = 1 .. n - (b - a)
    BY <1>1, <2>6
  <2>11. \A i \in DOMAIN s \ {a} : i \in 1 .. a - 1 \/ i \in a + 1 .. a + (n - b)
    BY <1>1, <2>10
  <2>12. \A i \in DOMAIN s \ {a} : s[i] = hs[src(i)]
    BY <1>1, <2>4, <2>7, <2>9, <2>11
  <2>13. s[a] = h
    BY <1>1, <2>4, <2>7
  <2>14. QED
    BY <2>6, <2>10, <2>12, <2>13
<1> HIDE DEF h, s
<1>5. /\ a \in DOMAIN s
      /\ \A i \in DOMAIN s : /\ src(i) \in 1 .. n
                             /\ i # a => src(i) \notin a .. b
      /\ \A i, j \in DOMAIN s : i <= j => src(i) <= src(j)
      /\ \A i, j \in DOMAIN s : src(i) = src(j) => i = j
      /\ \A m \in 1 .. n \ (a .. b) : \E i \in DOMAIN s \ {a} : src(i) = m
  <2>1. a \in DOMAIN s
    BY <1>1, <1>4
  <2>2. \A i \in DOMAIN s : src(i) \in 1 .. n /\ (i # a => src(i) \notin a .. b)
    BY <1>1, <1>4
  <2>3. \A i, j \in DOMAIN s : i <= j => src(i) <= src(j)
    BY <1>1, <1>4
  <2>4. \A i, j \in DOMAIN s : src(i) = src(j) => i = j
    BY <1>1, <1>4
  <2>5. ASSUME NEW m \in (1 .. n) \ (a .. b)
        PROVE  \E i \in DOMAIN s \ {a} : src(i) = m
    <3>1. CASE m < a
      <4>1. m \in DOMAIN s \ {a} /\ src(m) = m
        BY <1>1, <1>4, <3>1
      <4>2. QED
        BY <4>1
    <3>2. CASE m > b
      <4>1. m - (b - a) \in DOMAIN s \ {a} /\ src(m - (b - a)) = m
        BY <1>1, <1>4, <3>2
      <4>2. QED
        BY <4>1
    <3>3. QED
      BY <1>1, <3>1, <3>2
  <2>6. QED
    BY <2>1, <2>2, <2>3, <2>4, <2>5
<1>6. \A i \in DOMAIN s : s[i].key = hs[src(i)].key
  <2>1. src(a) = a /\ a \in Occurrences(hs, key)
    BY <1>1
  <2>2. hs[src(a)].key = key
    BY <2>1 DEF Occurrences
  <2>3. QED
    BY <1>3, <1>4, <2>2
<1>7. SortedByKey(s)
  <2>1. SUFFICES ASSUME NEW i \in DOMAIN s, NEW j \in DOMAIN s, i <= j
                 PROVE  s[i].key <= s[j].key
    BY DEF SortedByKey
  <2>2. src(i) \in 1 .. n /\ src(j) \in 1 .. n /\ src(i) <= src(j)
    BY <1>5, <2>1
  <2> HIDE DEF src
  <2>3. hs[src(i)].key <= hs[src(j)].key
    BY <1>1, <2>2 DEF SortedByKey
  <2>4. QED
    BY <1>6, <2>3
<1>8. Occurrences(s, key) = {a}
  <2>1. s[a].key = key /\ a \in DOMAIN s
    BY <1>3, <1>4, <1>5
  <2>2. ASSUME NEW i \in DOMAIN s, i # a
        PROVE  s[i].key # key
    <3>1. src(i) \in 1 .. n /\ src(i) \notin Occurrences(hs, key)
      BY <1>5, <2>2
    <3>2. QED
      BY <1>1, <1>6, <3>1 DEF Occurrences
  <2>3. QED
    BY <2>1, <2>2 DEF Occurrences
<1>9. Vals(s, key) = {val} /\ DistinctAt(s, key) /\ CurrentAt(s, key)
  <2>1. s[a].values = << >> /\ s[a].val = val
    BY <1>3, <1>4
  <2>2. QED
    BY <1>8, <2>1, OneOccurrence, Zenon
<1>10. ASSUME NEW k \in Keys \ {key}
       PROVE  Keeps(hs, s, k)
  <2> DEFINE p == [i \in Occurrences(s, k) |-> src(i)]
  <2>1. \A i \in Occurrences(s, k) : i \in DOMAIN s \ {a}
    BY <1>3, <1>4 DEF Occurrences
  <2>2. \A i \in Occurrences(s, k) : src(i) \in Occurrences(hs, k) /\ s[i] = hs[src(i)]
    <3> HIDE DEF src
    <3>1. QED
      BY <1>1, <1>4, <1>5, <1>6, <2>1 DEF Occurrences
  <2>3. p \in [Occurrences(s, k) -> Occurrences(hs, k)]
    BY <2>2
  <2>4. \A i, j \in Occurrences(s, k) : p[i] = p[j] => i = j
    BY <1>5, <2>1
  <2>5. ASSUME NEW m \in Occurrences(hs, k)
        PROVE  \E i \in Occurrences(s, k) : p[i] = m
    <3>1. m \in 1 .. n /\ hs[m].key = k /\ m \notin a .. b
      BY <1>1 DEF Occurrences
    <3>2. PICK i \in DOMAIN s \ {a} : src(i) = m
      BY <1>5, <3>1
    <3>3. i \in Occurrences(s, k)
      BY <1>6, <3>1, <3>2 DEF Occurrences
    <3>4. QED
      BY <3>2, <3>3
  <2>6. \A i \in Occurrences(s, k) : s[i] = hs[p[i]]
    BY <2>2
  <2> HIDE DEF p
  <2>7. QED
    BY <2>3, <2>4, <2>5, <2>6, MovedKeeps
<1>11. IsSet(hs, s, key, val)
  BY <1>4, <1>7, <1>9, <1>10 DEF IsSet
<1>12. QED
  BY <1>11 DEF s, h

LEMMA SetHeaderFacts ==
    ASSUME NEW hs \in Seq(HeaderType), SortedByKey(hs),
           NEW key \in Keys, NEW val \in Seq(Int), NEW s \in SetHeader(hs, key, val)
    PROVE  IsSet(hs, s, key, val)
<1> DEFINE found == SearchHeader(hs, key)
<1>1. found = Occurrences(hs, key)
  BY SearchHeaderFacts
<1>2. CASE found = {}
  BY <1>1, <1>2, AppendedIsSet DEF SetHeader
<1>3. CASE found # {}
  <2>1. PICK a, b \in DOMAIN hs : /\ a <= b /\ found = a .. b /\ First(found) = a
                                  /\ Cardinality(found) = b - a + 1
    BY <1>3, SearchHeaderFacts
  <2>2. s = SubSeq(hs, 1, a - 1)
            \o <<[hs[a] EXCEPT !.val = val, !.values = << >>]>>
            \o SubSeq(hs, a + (b - a + 1), Len(hs))
    BY <1>3, <2>1 DEF SetHeader
  <2>3. QED
    BY <1>1, <2>1, <2>2, ReplacedIsSet
<1>4. QED
  BY <1>2, <1>3

(***************************************************************************)
(* The words of a label.                                                   *)
(***************************************************************************)

\* f[i] is the first i of the sequences, in one.
Flatten(f, seqs) ==
    f = [i \in 1 .. Len(seqs) |-> IF i = 1 THEN seqs[i] ELSE f[i - 1] \o seqs[i]]

LEMMA FlattenExists ==
    ASSUME NEW seqs \in Seq(Seq(Int))
    PROVE  \E f : Flatten(f, seqs)
<1> DEFINE n == Len(seqs)
           X == Seq(Int)
           G == [i \in 1 .. n |-> [w \in X |-> w \o seqs[i]]]
<1>0. \A i \in 1 .. n : seqs[i] \in X
  OBVIOUS
<1>1. n \in Nat /\ << >> \in X
  OBVIOUS
<1>2. G \in [1 .. n -> [X -> X]]
  BY <1>0
<1> HIDE DEF X, G
<1>3. PICK g \in [0 .. n -> X] :
         g[0] = << >> /\ \A i \in 1 .. n : g[i] = G[i][g[i - 1]]
  <2>1. \E g \in [0 .. n -> X] : Computed(g, << >>, n, G)
    BY <1>1, <1>2, Recursion
  <2>2. QED
    BY <2>1 DEF Computed
<1> DEFINE f == [i \in 1 .. n |-> g[i]]
<1>4. ASSUME NEW i \in 1 .. n
      PROVE  f[i] = IF i = 1 THEN seqs[i] ELSE f[i - 1] \o seqs[i]
  <2>1. f[i] = g[i - 1] \o seqs[i]
    <3>0. i - 1 \in 0 .. n
      BY <1>1
    <3>1. g[i - 1] \in X
      BY <1>3, <3>0
    <3>2. G[i][g[i - 1]] = g[i - 1] \o seqs[i]
      BY <3>1 DEF G
    <3>3. QED
      BY <1>3, <3>2
  <2>2. CASE i = 1
    <3>1. << >> \o seqs[i] = seqs[i]
      BY <1>0 DEF X
    <3>2. g[i - 1] = << >>
      BY <1>3, <2>2
    <3>3. QED
      BY <2>1, <2>2, <3>1, <3>2
  <2>3. CASE i # 1
    <3>1. i - 1 \in 1 .. n
      BY <1>1, <2>3
    <3>2. QED
      BY <2>1, <2>3, <3>1
  <2>4. QED
    BY <2>2, <2>3
<1>5. Flatten(f, seqs)
  <2>1. f = [i \in 1 .. n |-> f[i]]
    OBVIOUS
  <2> HIDE DEF f
  <2>2. QED
    BY <1>4, <2>1 DEF Flatten
<1>6. QED
  BY <1>5

\* A word more at the end.
LEMMA OneMoreWord ==
    ASSUME NEW s \in Seq(Int), NEW w \in Seq(Int), Len(w) = 1
    PROVE  /\ s \o w \in Seq(Int) /\ Len(s \o w) = Len(s) + 1
           /\ \A j \in 1 .. Len(s) : (s \o w)[j] = s[j]
           /\ (s \o w)[Len(s) + 1] = w[1]
<1>1. /\ s \o w \in Seq(Int) /\ Len(s \o w) = Len(s) + Len(w)
      /\ \A j \in 1 .. Len(s) + Len(w) :
            (s \o w)[j] = IF j <= Len(s) THEN s[j] ELSE w[j - Len(s)]
  BY ConcatProperties
<1>2. Len(s) \in Nat
  OBVIOUS
<1>3. QED
  BY <1>1, <1>2

\* Values of one word each make the sequence of these words; one value is the
\* value.
LEMMA FlattenFacts ==
    ASSUME NEW seqs \in Seq(Seq(Int))
    PROVE  /\ (\A i \in DOMAIN seqs : Len(seqs[i]) = 1) =>
                 /\ FlattenSeq(seqs) \in Seq(Int)
                 /\ Len(FlattenSeq(seqs)) = Len(seqs)
                 /\ \A j \in DOMAIN seqs : FlattenSeq(seqs)[j] = seqs[j][1]
           /\ Len(seqs) = 1 => FlattenSeq(seqs) = seqs[1]
<1> DEFINE n == Len(seqs)
           f == CHOOSE f : Flatten(f, seqs)
<1>1. n \in Nat /\ DOMAIN seqs = 1 .. n /\ \A i \in 1 .. n : seqs[i] \in Seq(Int)
  OBVIOUS
<1>2. Flatten(f, seqs)
  BY FlattenExists
<1>3. n # 0 => FlattenSeq(seqs) = f[n]
  BY DEF FlattenSeq, Flatten
<1>4. n = 0 => FlattenSeq(seqs) = << >>
  BY DEF FlattenSeq
<1> HIDE DEF f
<1>5. \A i \in 1 .. n : f[i] = IF i = 1 THEN seqs[i] ELSE f[i - 1] \o seqs[i]
  BY <1>2 DEF Flatten
<1>6. n = 1 => FlattenSeq(seqs) = seqs[1]
  BY <1>1, <1>3, <1>5
<1>7. ASSUME \A i \in DOMAIN seqs : Len(seqs[i]) = 1
      PROVE  /\ FlattenSeq(seqs) \in Seq(Int)
             /\ Len(FlattenSeq(seqs)) = n
             /\ \A j \in DOMAIN seqs : FlattenSeq(seqs)[j] = seqs[j][1]
  <2> DEFINE Good(k) == /\ f[k] \in Seq(Int) /\ Len(f[k]) = k
                        /\ \A j \in 1 .. k : f[k][j] = seqs[j][1]
             T == {k \in Nat : k \in 1 .. n => Good(k)}
  <2>1. 0 \in T
    OBVIOUS
  <2>2. ASSUME NEW k \in Nat \ {0}, k - 1 \in T
        PROVE  k \in T
    <3>1. SUFFICES ASSUME k \in 1 .. n
                   PROVE  Good(k)
      OBVIOUS
    <3>2. seqs[k] \in Seq(Int) /\ Len(seqs[k]) = 1
      BY <1>1, <1>7, <3>1
    <3>3. CASE k = 1
      BY <1>5, <3>1, <3>2, <3>3
    <3>4. CASE k # 1
      <4>1. f[k] = f[k - 1] \o seqs[k]
        BY <1>5, <3>1, <3>4
      <4>2. Good(k - 1)
        BY <1>1, <2>2, <3>1, <3>4
      <4>4. f[k - 1] \in Seq(Int) /\ Len(f[k - 1]) = k - 1
        BY <4>2
      <4> DEFINE before == f[k - 1]
                 word == seqs[k]
      <4>5. /\ f[k] \in Seq(Int) /\ Len(f[k]) = k - 1 + 1
            /\ \A j \in 1 .. k - 1 : f[k][j] = f[k - 1][j]
            /\ f[k][k - 1 + 1] = seqs[k][1]
        <5>1. before \in Seq(Int) /\ word \in Seq(Int) /\ Len(word) = 1
              /\ f[k] = before \o word /\ Len(before) = k - 1
          BY <3>2, <4>1, <4>4
        <5> HIDE DEF before, word
        <5>2. /\ before \o word \in Seq(Int) /\ Len(before \o word) = Len(before) + 1
              /\ \A j \in 1 .. Len(before) : (before \o word)[j] = before[j]
              /\ (before \o word)[Len(before) + 1] = word[1]
          BY <5>1, OneMoreWord
        <5>3. QED
          BY <5>1, <5>2 DEF before, word
      <4>6. \A j \in 1 .. k : j \in 1 .. k - 1 \/ j = k
        OBVIOUS
      <4>7. QED
        BY <4>2, <4>5, <4>6, SMTT(30)
    <3>5. QED
      BY <3>3, <3>4
  <2>3. Nat \subseteq T
    <3> HIDE DEF T
    <3>1. QED
      BY <2>1, <2>2, Induction
  <2>4. CASE n = 0
    <3>1. FlattenSeq(seqs) = << >>
      BY <1>4, <2>4
    <3> HIDE DEF n
    <3>2. QED
      BY <1>1, <2>4, <3>1
  <2>5. CASE n # 0
    <3>1. Good(n)
      BY <1>1, <2>3, <2>5
    <3>2. QED
      BY <1>1, <1>3, <2>5, <3>1
  <2>6. QED
    BY <2>4, <2>5
<1>8. QED
  BY <1>6, <1>7

(***************************************************************************)
(* The invariant.                                                          *)
(***************************************************************************)

\* What the headers of a name are, and what was asked of them: those of the
\* message as it was read, or one that has the words asked for.
AsAsked(hs, key) ==
    /\ IsFiniteSet(asked[key])
    /\ \A w \in asked[key] : w >= -sets
    /\ Untouched(key) =>
          /\ asked[key] = {o \in DOMAIN orig : orig[o] = key}
          /\ Vals(hs, key) = {<<o>> : o \in asked[key]}
          /\ AsRead(hs, key)
    /\ ~Untouched(key) =>
          \E v \in Vals(hs, key) :
                /\ Vals(hs, key) = {v}
                /\ Len(v) = Cardinality(asked[key])
                /\ ToSet(v) = asked[key]

TypeInv ==
    /\ orig \in Seq(Keys)
    /\ headers \in Seq(HeaderType)
    /\ sets \in Nat
    /\ asked \in [Keys -> SUBSET Int]

\* Between the calls of evaluation and interpolation the vector can be searched.
Searchable == SortedByKey(headers) /\ CacheIsCurrent(headers)

IInv ==
    /\ TypeInv
    /\ phase # "exec" => file = {}
    /\ file = {} => Searchable
    /\ Distinct(headers)
    /\ \A k \in Keys : AsAsked(headers, k)
    /\ WriteKeepsHeaders

\* The invariant says what the runs check.
LEMMA InvariantImpliesLookup ==
    ASSUME IInv
    PROVE  LookupIsCurrent
<1>1. SUFFICES ASSUME file = {}, NEW k \in Keys
               PROVE  /\ Len(Values(headers, k)) = Cardinality(Occurrences(headers, k))
                      /\ ToSet(Values(headers, k)) = Vals(headers, k)
  BY DEF LookupIsCurrent, Occurrences, Vals
<1>2. headers \in Seq(HeaderType) /\ Distinct(headers) /\ Searchable
  BY <1>1 DEF IInv, TypeInv
<1>3. QED
  BY <1>2, ValuesAreAll, OccurrencesFinite DEF Searchable, AllOf

\* As long as nothing was written, what changes no header but its cache keeps
\* the invariant.
LEMMA LookupKeeps ==
    ASSUME IInv, NEW key \in Keys, Lookup(key)
    PROVE  IInv'
<1>1. /\ headers \in Seq(HeaderType) /\ file = {} /\ Searchable /\ Distinct(headers)
      /\ headers' = Cached(headers, key)
      /\ UNCHANGED <<orig, phase, file, sets, asked>>
  BY DEF Lookup, IInv, TypeInv
<1>2. headers' \in Seq(HeaderType)
  BY <1>1, CachedFacts
<1>3. SortedByKey(headers') /\ Distinct(headers') /\ CacheIsCurrent(headers')
  BY <1>1, CachedKeeps, CachedIsCurrent DEF Searchable
<1>4. ASSUME NEW k \in Keys
      PROVE  AsAsked(headers, k)'
  BY <1>1, CachedKeeps DEF IInv, AsAsked, Untouched
<1>5. QED
  BY <1>1, <1>2, <1>3, <1>4 DEF IInv, TypeInv, Searchable, WriteKeepsHeaders

\* Nothing was asked of a name, and its headers are kept.
LEMMA KeptAsAsked ==
    ASSUME NEW k \in Keys, AsAsked(headers, k), Keeps(headers, headers', k),
           sets \in Nat, sets' \in {sets, sets + 1}, orig' = orig,
           asked \in [Keys -> SUBSET Int], asked'[k] = asked[k]
    PROVE  AsAsked(headers, k)'
<1>1. Untouched(k)' = Untouched(k)
  BY DEF Untouched
<1>2. \A w \in asked'[k] : w >= -sets'
  <2>1. \A w \in asked[k] : w \in Int /\ w >= -sets
    BY DEF AsAsked
  <2>2. QED
    BY <2>1
<1>3. IsFiniteSet(asked'[k])
  BY DEF AsAsked
<1>4. Vals(headers', k) = Vals(headers, k)
  BY DEF Keeps
<1>5. Untouched(k) => /\ asked'[k] = {o \in DOMAIN orig : orig[o] = k}
                      /\ Vals(headers', k) = {<<o>> : o \in asked'[k]}
                      /\ AsRead(headers', k)
  BY <1>4 DEF AsAsked, Keeps
<1>6. ~Untouched(k) => \E v \in Vals(headers', k) :
                          /\ Vals(headers', k) = {v}
                          /\ Len(v) = Cardinality(asked'[k])
                          /\ ToSet(v) = asked'[k]
  BY <1>4 DEF AsAsked
<1>7. QED
  BY <1>1, <1>2, <1>3, <1>5, <1>6 DEF AsAsked

LEMMA GetBodyKeeps ==
    ASSUME IInv, GetBody
    PROVE  IInv'
<1> DEFINE hs == Cached(headers, ContentType)
<1>1. /\ headers \in Seq(HeaderType) /\ Distinct(headers)
      /\ headers' = Cached(hs, Encoding)
      /\ UNCHANGED <<orig, phase, file, sets, asked>>
      /\ file = {} => Searchable
  BY DEF GetBody, IInv, TypeInv
<1>2. ContentType \in Keys /\ Encoding \in Keys
  BY HeadersAssumption
<1>3. hs \in Seq(HeaderType)
  BY <1>1, <1>2, CachedFacts
<1>4. /\ Distinct(hs)
      /\ SortedByKey(headers) => SortedByKey(hs)
      /\ \A k : Vals(hs, k) = Vals(headers, k)
      /\ \A k : AsRead(headers, k) => AsRead(hs, k)
  BY <1>1, <1>2, CachedKeeps
<1>5. Searchable => CacheIsCurrent(hs)
  BY <1>1, <1>2, CachedIsCurrent DEF Searchable
<1> HIDE DEF hs
<1>6. headers' \in Seq(HeaderType)
  BY <1>1, <1>2, <1>3, CachedFacts
<1>7. /\ Distinct(headers')
      /\ SortedByKey(hs) => SortedByKey(headers')
      /\ \A k : Vals(headers', k) = Vals(hs, k)
      /\ \A k : AsRead(hs, k) => AsRead(headers', k)
  BY <1>1, <1>2, <1>3, <1>4, CachedKeeps
<1>8. Searchable => Searchable'
  <2>1. SortedByKey(hs) /\ CacheIsCurrent(hs) => CacheIsCurrent(headers')
    BY <1>1, <1>2, <1>3, <1>4, CachedIsCurrent
  <2>2. QED
    BY <1>4, <1>5, <1>7, <2>1 DEF Searchable
<1>9. ASSUME NEW k \in Keys
      PROVE  AsAsked(headers, k)'
  <2>1. AsAsked(headers, k)
    BY DEF IInv
  <2>2. Vals(headers', k) = Vals(headers, k) /\ (AsRead(headers, k) => AsRead(headers', k))
    BY <1>4, <1>7
  <2>3. QED
    BY <1>1, <2>1, <2>2 DEF AsAsked, Untouched
<1>10. WriteKeepsHeaders'
  BY <1>1, SMTT(30) DEF IInv, WriteKeepsHeaders, Untouched
<1>11. QED
  BY <1>1, <1>6, <1>7, <1>8, <1>9, <1>10 DEF IInv, TypeInv

\* A header is set to the words asked for, the last one among them.
LEMMA SetKeeps ==
    ASSUME IInv, phase = "interpolate",
           NEW key \in Keys, NEW val \in Seq(Int), NEW hs,
           \A k \in Keys : Keeps(headers, hs, k),
           IsSet(hs, headers', key, val),
           NEW A \in SUBSET Int, IsFiniteSet(A), -(sets + 1) \in A,
           \A w \in A : w >= -(sets + 1),
           Len(val) = Cardinality(A), ToSet(val) = A,
           asked' = [asked EXCEPT ![key] = A], sets' = sets + 1,
           UNCHANGED <<orig, phase, file>>
    PROVE  IInv'
<1>1. TypeInv /\ file = {} /\ Searchable /\ Distinct(headers)
  BY DEF IInv
<1>2. headers' \in Seq(HeaderType) /\ SortedByKey(headers')
  BY DEF IsSet
<1>3. TypeInv'
  BY <1>1, <1>2 DEF TypeInv
<1>4. \A k \in Keys \ {key} : Keeps(headers, headers', k)
  BY KeepsTransitive DEF IsSet
<1>5. Distinct(headers') /\ CacheIsCurrent(headers')
  <2>1. \A k \in Keys : DistinctAt(headers, k) /\ CurrentAt(headers, k)
    BY <1>1, AllKeys DEF TypeInv, Searchable
  <2>2. ASSUME NEW k \in Keys
        PROVE  DistinctAt(headers', k) /\ CurrentAt(headers', k)
    <3>1. CASE k = key
      BY <3>1 DEF IsSet
    <3>2. CASE k # key
      BY <1>4, <2>1, <3>2 DEF Keeps
    <3>3. QED
      BY <3>1, <3>2
  <2>3. QED
    BY <1>2, <2>2, AllKeys
<1>6. ASSUME NEW k \in Keys
      PROVE  AsAsked(headers, k)'
  <2>1. CASE k = key
    <3>1. asked'[k] = A
      BY <1>1, <2>1 DEF TypeInv
    <3>2. ~Untouched(k)'
      <4>1. -(sets + 1) \in asked'[k] /\ ~(-(sets + 1) > 0)
        BY <1>1, <3>1 DEF TypeInv
      <4>2. QED
        BY <4>1 DEF Untouched
    <3>3. Vals(headers', k) = {val}
      BY <2>1 DEF IsSet
    <3>4. \A w \in asked'[k] : w >= -sets'
      BY <3>1
    <3>5. \E v \in Vals(headers', k) : /\ Vals(headers', k) = {v}
                                       /\ Len(v) = Cardinality(asked'[k])
                                       /\ ToSet(v) = asked'[k]
      BY <3>1, <3>3
    <3>6. QED
      BY <3>1, <3>2, <3>4, <3>5 DEF AsAsked
  <2>2. CASE k # key
    <3>1. asked'[k] = asked[k]
      BY <1>1, <2>2 DEF TypeInv
    <3>2. AsAsked(headers, k) /\ Keeps(headers, headers', k)
      BY <1>4, <2>2 DEF IInv
    <3>3. QED
      BY <1>1, <3>1, <3>2, KeptAsAsked DEF TypeInv
  <2>3. QED
    BY <2>1, <2>2
<1>7. WriteKeepsHeaders'
  BY <1>1 DEF WriteKeepsHeaders
<1>8. QED
  BY <1>1, <1>2, <1>3, <1>5, <1>6, <1>7 DEF IInv, Searchable

LEMMA AddHeaderKeeps ==
    ASSUME IInv, NEW key \in Keys, AddHeader(key)
    PROVE  IInv'
<1> DEFINE w == -(sets + 1)
           val == <<w>>
           A == {w}
<1>1. /\ phase = "interpolate" /\ file = {} /\ Searchable
      /\ headers \in Seq(HeaderType) /\ sets \in Nat
      /\ headers' \in SetHeader(headers, key, val)
      /\ asked' = [asked EXCEPT ![key] = A] /\ sets' = sets + 1
      /\ UNCHANGED <<orig, phase, file>>
  BY DEF AddHeader, IInv, TypeInv
<1>2. w \in Int /\ val \in Seq(Int) /\ Len(val) = 1 /\ ToSet(val) = A
  BY <1>1 DEF ToSet
<1>3. A \in SUBSET Int /\ IsFiniteSet(A) /\ Cardinality(A) = 1
  BY <1>2, FS_Singleton
<1>4. w >= w
  BY <1>2
<1>5. \A k \in Keys : Keeps(headers, headers, k)
  BY DEF Keeps
<1>6. IsSet(headers, headers', key, val)
  BY <1>1, <1>2, SetHeaderFacts DEF Searchable
<1> HIDE DEF val
<1>7. /\ -(sets + 1) \in A
      /\ \A x \in A : x >= -(sets + 1)
      /\ Len(val) = Cardinality(A)
  BY <1>2, <1>3, <1>4
<1> HIDE DEF A
<1>8. QED
  BY <1>1, <1>2, <1>3, <1>5, <1>6, <1>7, SetKeeps

\* The label has the words of X-Label, each once.
LEMMA LabelWords ==
    ASSUME IInv, file = {}
    PROVE  LET words == FlattenSeq(Values(headers, XLabel))
           IN  /\ words \in Seq(Int)
               /\ Len(words) = Cardinality(asked[XLabel])
               /\ ToSet(words) = asked[XLabel]
<1> DEFINE got == Values(headers, XLabel)
           words == FlattenSeq(got)
           V == Vals(headers, XLabel)
           A == asked[XLabel]
<1>1. XLabel \in Keys
  BY HeadersAssumption
<1>2. /\ headers \in Seq(HeaderType) /\ Searchable /\ Distinct(headers)
      /\ AsAsked(headers, XLabel)
  BY <1>1 DEF IInv, TypeInv
<1>3. got \in Seq(Seq(Int))
  BY <1>1, <1>2, ValuesFacts
<1>4. Len(got) = Cardinality(V) /\ ToSet(got) = V
  BY <1>1, <1>2, ValuesAreAll DEF Searchable, AllOf
<1> HIDE DEF got, words, V, A
<1>5. CASE Untouched(XLabel)
  <2>1. V = {<<o>> : o \in A} /\ IsFiniteSet(A) /\ A \subseteq Int
    BY <1>1, <1>2, <1>5 DEF AsAsked, V, A, IInv, TypeInv
  <2>2. Cardinality(V) = Cardinality(A)
    <3> DEFINE f == [o \in A |-> <<o>>]
    <3>1. f \in [A -> V]
      BY <2>1
    <3>2. \A a, b \in A : f[a] = f[b] => a = b
      BY <2>1
    <3>3. \A v \in V : \E a \in A : f[a] = v
      BY <2>1
    <3>4. f \in Bijection(A, V)
      BY <3>1, <3>2, <3>3 DEF Bijection, Injection, Surjection, IsInjective
    <3>5. QED
      BY <2>1, <3>4, FS_Bijection DEF ExistsBijection
  <2>3. DOMAIN got = 1 .. Len(got) /\ Len(got) \in Nat
    BY <1>3
  <2>4. \A j \in DOMAIN got : got[j] \in V
    BY <1>4 DEF ToSet
  <2>5. \A v \in V : Len(v) = 1 /\ v[1] \in A /\ v = <<v[1]>>
    BY <2>1
  <2>6. /\ words \in Seq(Int) /\ Len(words) = Len(got)
        /\ \A j \in DOMAIN got : words[j] = got[j][1]
    BY <1>3, <2>4, <2>5, FlattenFacts DEF words
  <2>7. DOMAIN words = DOMAIN got
    BY <2>3, <2>6
  <2>8. ASSUME NEW o \in A
        PROVE  o \in ToSet(words)
    <3>1. <<o>> \in V
      BY <2>1
    <3>2. PICK j \in DOMAIN got : got[j] = <<o>>
      BY <1>4, <3>1 DEF ToSet
    <3>3. words[j] = o
      BY <2>6, <3>2
    <3>4. QED
      BY <2>7, <3>3 DEF ToSet
  <2>9. \A j \in DOMAIN words : words[j] \in A
    BY <2>4, <2>5, <2>6, <2>7
  <2>10. ToSet(words) = A
    BY <2>8, <2>9 DEF ToSet
  <2>11. QED
    BY <1>4, <2>2, <2>6, <2>10 DEF words, got, A
<1>6. CASE ~Untouched(XLabel)
  <2>1. PICK v \in V : V = {v} /\ Len(v) = Cardinality(A) /\ ToSet(v) = A
    BY <1>2, <1>6 DEF AsAsked, V, A
  <2>2. Len(got) = 1
    BY <1>4, <2>1, FS_Singleton
  <2>3. 1 \in DOMAIN got /\ got[1] \in Seq(Int)
    <3>1. \A i \in 1 .. Len(got) : i \in DOMAIN got /\ got[i] \in Seq(Int)
      BY <1>3
    <3>2. 1 \in 1 .. Len(got)
      BY <2>2
    <3>3. QED
      BY <3>1, <3>2
  <2>4. got[1] = v
    BY <1>4, <2>1, <2>3 DEF ToSet
  <2>5. words = got[1]
    BY <1>3, <2>2, FlattenFacts DEF words
  <2>6. QED
    BY <2>1, <2>3, <2>4, <2>5 DEF words, got, A
<1>7. QED
  BY <1>5, <1>6

LEMMA AddLabelKeeps ==
    ASSUME IInv, AddLabel
    PROVE  IInv'
<1> DEFINE hs == Cached(headers, XLabel)
           words == FlattenSeq(Values(headers, XLabel))
           w == -(sets + 1)
           val == words \o <<w>>
           A == asked[XLabel] \cup {w}
<1>1. /\ phase = "interpolate" /\ file = {} /\ Searchable /\ Distinct(headers)
      /\ headers \in Seq(HeaderType) /\ sets \in Nat
      /\ headers' \in SetHeader(hs, XLabel, val)
      /\ asked' = [asked EXCEPT ![XLabel] = A] /\ sets' = sets + 1
      /\ UNCHANGED <<orig, phase, file>>
  BY DEF AddLabel, IInv, TypeInv
<1>2. XLabel \in Keys
  BY HeadersAssumption
<1>3. hs \in Seq(HeaderType) /\ SortedByKey(hs)
  BY <1>1, <1>2, CachedFacts, CachedKeeps DEF Searchable
<1>4. ASSUME NEW k \in Keys
      PROVE  Keeps(headers, hs, k)
  <2>1. Vals(hs, k) = Vals(headers, k) /\ (AsRead(headers, k) => AsRead(hs, k))
    BY <1>1, <1>2, CachedKeeps
  <2>2. Distinct(hs) /\ CacheIsCurrent(hs)
    BY <1>1, <1>2, CachedKeeps, CachedIsCurrent DEF Searchable
  <2>3. DistinctAt(hs, k) /\ CurrentAt(hs, k)
    BY <1>3, <2>2, AllKeys
  <2>4. QED
    BY <2>1, <2>3 DEF Keeps
<1>5. /\ words \in Seq(Int) /\ Len(words) = Cardinality(asked[XLabel])
      /\ ToSet(words) = asked[XLabel]
  BY <1>1, LabelWords
<1>6. /\ asked[XLabel] \in SUBSET Int /\ IsFiniteSet(asked[XLabel])
      /\ \A x \in asked[XLabel] : x >= -sets
  BY <1>2 DEF IInv, TypeInv, AsAsked
<1>7. w \in Int /\ w >= w /\ \A x \in Int : x >= -sets => x >= w /\ x # w
  BY <1>1
<1> HIDE DEF words, w, hs
<1>8. w \notin asked[XLabel] /\ \A x \in A : x >= w
  BY <1>6, <1>7
<1>9. A \in SUBSET Int /\ IsFiniteSet(A) /\ Cardinality(A) = Cardinality(asked[XLabel]) + 1
  BY <1>6, <1>7, <1>8, FS_AddElement
<1>10. val \in Seq(Int) /\ Len(val) = Cardinality(A) /\ ToSet(val) = A
  <2> DEFINE last == <<w>>
  <2>1. last \in Seq(Int) /\ Len(last) = 1 /\ last[1] = w
    BY <1>7
  <2>2. val = words \o last
    OBVIOUS
  <2> HIDE DEF last, val, A
  <2>3. /\ val \in Seq(Int) /\ Len(val) = Len(words) + 1
        /\ \A j \in 1 .. Len(words) : val[j] = words[j]
        /\ val[Len(words) + 1] = w
    BY <1>5, <2>1, <2>2, OneMoreWord
  <2>4. /\ DOMAIN words = 1 .. Len(words) /\ Len(words) \in Nat
        /\ DOMAIN val = 1 .. Len(words) + 1
    BY <1>5, <2>3
  <2>5. ToSet(val) = ToSet(words) \cup {w}
    BY <2>3, <2>4 DEF ToSet
  <2>6. QED
    BY <1>5, <1>9, <2>3, <2>5 DEF A
<1> HIDE DEF val
<1>11. IsSet(hs, headers', XLabel, val)
  BY <1>1, <1>2, <1>3, <1>10, SetHeaderFacts
<1>12. -(sets + 1) \in A /\ \A x \in A : x >= -(sets + 1)
  BY <1>8 DEF w
<1> HIDE DEF A
<1>13. QED
  BY <1>1, <1>2, <1>4, <1>9, <1>10, <1>11, <1>12, SetKeeps

\* What is written has the headers in the order they were read in.
LEMMA WriteKeeps ==
    ASSUME IInv, Write
    PROVE  IInv'
<1> DEFINE f == [i \in DOMAIN headers' |-> <<headers'[i].key, headers'[i].val>>]
<1>1. /\ TypeInv /\ phase = "exec" /\ Distinct(headers)
      /\ headers' \in Sorted(headers, "id")
      /\ file' = {f}
      /\ UNCHANGED <<orig, phase, sets, asked>>
  BY DEF Write, IInv
<1>2. Permuted(headers, headers')
  BY <1>1, SortedFacts DEF TypeInv
<1>3. headers' \in Seq(HeaderType)
  BY <1>2 DEF Permuted
<1>4. \A k \in Keys : Keeps(headers, headers', k)
  BY <1>1, <1>2, PermutedKeeps DEF TypeInv
<1>5. Distinct(headers')
  BY <1>1, <1>3, <1>4, AllKeys DEF TypeInv, Keeps
<1>6. \A k \in Keys : AsAsked(headers, k)'
  BY <1>1, <1>4, KeptAsAsked DEF IInv, TypeInv
<1>7. \A i, j \in DOMAIN headers' : i < j => headers'[i].id <= headers'[j].id
  <2>1. \A i, j \in DOMAIN headers' : i < j => headers'[i]["id"] <= headers'[j]["id"]
    BY <1>1, SortedFacts DEF TypeInv
  <2>2. QED
    BY <2>1
<1> DEFINE hs == headers'
<1>8. \A i \in DOMAIN hs : hs[i] \in HeaderType
  BY <1>3
<1>9. ASSUME NEW k \in Keys
      PROVE  /\ Untouched(k) =>
                   /\ Vals(hs, k) = {<<o>> : o \in {o \in DOMAIN orig : orig[o] = k}}
                   /\ AsRead(hs, k)
             /\ ~Untouched(k) =>
                   \E v : /\ Vals(hs, k) = {v}
                          /\ Len(v) = Cardinality(asked[k])
                          /\ ToSet(v) = asked[k]
  <2>1. AsAsked(headers, k)' /\ asked' = asked /\ orig' = orig
    BY <1>1, <1>6
  <2>2. Untouched(k)' <=> Untouched(k)
    BY <1>1 DEF Untouched
  <2>3. QED
    BY <2>1, <2>2 DEF AsAsked
<1>10. \A i \in DOMAIN f : f[i][1] = hs[i].key /\ f[i][2] = hs[i].val
  OBVIOUS
<1>11. ASSUME NEW k \in Keys
       PROVE  LET is == {i \in DOMAIN f : f[i][1] = k}
              IN  IF Untouched(k)
                    THEN {f[i][2] : i \in is} =
                            {<<o>> : o \in {o \in DOMAIN orig : orig[o] = k}}
                    ELSE /\ Cardinality(is) = 1
                         /\ \A i \in is : /\ Len(f[i][2]) = Cardinality(asked[k])
                                          /\ ToSet(f[i][2]) = asked[k]
  <2> DEFINE is == {i \in DOMAIN f : f[i][1] = k}
  <2>1. is = Occurrences(hs, k)
    BY <1>10 DEF Occurrences
  <2>2. {f[i][2] : i \in is} = Vals(hs, k)
    BY <1>10, <2>1 DEF Vals
  <2>4. CASE Untouched(k)
    BY <1>9, <2>2, <2>4
  <2>5. CASE ~Untouched(k)
    <3>1. PICK v : Vals(hs, k) = {v} /\ Len(v) = Cardinality(asked[k])
                   /\ ToSet(v) = asked[k]
      BY <1>9, <2>5
    <3>2. Cardinality(is) = 1
      <4>1. Cardinality(Vals(hs, k)) = Cardinality(Occurrences(hs, k))
        BY <1>3, <1>5, OccurrencesFinite
      <4>2. QED
        BY <2>1, <3>1, <4>1, FS_Singleton
    <3>3. \A i \in is : f[i][2] = v
      BY <2>2, <3>1
    <3>4. QED
      BY <2>5, <3>1, <3>2, <3>3
  <2>6. QED
    BY <2>4, <2>5
<1>12. ASSUME NEW i \in DOMAIN f, NEW j \in DOMAIN f, i < j,
              Untouched(f[i][1]), Untouched(f[j][1])
       PROVE  f[i][2][1] < f[j][2][1]
  <2> DEFINE ki == hs[i].key
             kj == hs[j].key
  <2>1. /\ ki \in Keys /\ kj \in Keys /\ i \in Occurrences(hs, ki)
        /\ j \in Occurrences(hs, kj) /\ hs[i].id \in Nat /\ hs[j].id \in Nat
    BY <1>8 DEF HeaderType, Occurrences
  <2>2. Untouched(ki) /\ Untouched(kj)
    BY <1>10, <1>12
  <2>3. hs[i].val = <<hs[i].id>> /\ hs[j].val = <<hs[j].id>>
    BY <1>9, <2>1, <2>2 DEF AsRead
  <2>4. hs[i].id <= hs[j].id
    BY <1>7, <1>12
  <2>5. hs[i].id # hs[j].id
    <3>1. SUFFICES ASSUME hs[i].id = hs[j].id PROVE FALSE
      OBVIOUS
    <3>2. /\ <<hs[i].id>> \in {<<o>> : o \in {o \in DOMAIN orig : orig[o] = ki}}
          /\ <<hs[j].id>> \in {<<o>> : o \in {o \in DOMAIN orig : orig[o] = kj}}
      <4>1. <<hs[i].id>> \in Vals(hs, ki) /\ <<hs[j].id>> \in Vals(hs, kj)
        BY <2>1, <2>3 DEF Vals
      <4>2. QED
        BY <1>9, <2>1, <2>2, <4>1
    <3>3. orig[hs[i].id] = ki /\ orig[hs[j].id] = kj
      BY <3>2
    <3>4. ki = kj /\ hs[i].val = hs[j].val
      BY <2>3, <3>1, <3>3
    <3>5. QED
      <4>1. i \in DOMAIN hs /\ j \in DOMAIN hs /\ i # j
        <5>1. i \in DOMAIN hs /\ j \in DOMAIN hs
          BY <2>1 DEF Occurrences
        <5>2. i \in Int /\ j \in Int
          BY <1>3, <5>1
        <5>3. QED
          BY <1>12, <5>1, <5>2
      <4>2. QED
        BY <1>5, <3>4, <4>1 DEF Distinct
  <2>6. f[i][2][1] = hs[i].id /\ f[j][2][1] = hs[j].id
    BY <1>10, <2>3
  <2>7. QED
    BY <2>1, <2>4, <2>5, <2>6
<1> HIDE DEF f
<1>13. WriteKeepsHeaders'
  BY <1>1, <1>11, <1>12, SMTT(30) DEF WriteKeepsHeaders, Untouched
<1>14. QED
  BY <1>1, <1>3, <1>5, <1>6, <1>13 DEF IInv, TypeInv

LEMMA InitInvariant ==
    ASSUME Init
    PROVE  IInv
<1> DEFINE n == Len(orig)
           read == [i \in DOMAIN orig |-> Header(i, orig[i], <<i>>)]
<1>1. orig \in Seq(Keys) /\ headers \in Sorted(read, "key") /\ phase = "eval"
      /\ file = {} /\ sets = 0
      /\ asked = [k \in Keys |-> {i \in DOMAIN orig : orig[i] = k}]
  BY HeadersAssumption DEF Init
<1>2. n \in Nat /\ DOMAIN orig = 1 .. n /\ \A i \in 1 .. n : orig[i] \in Keys
  BY <1>1
<1>3. /\ DOMAIN read = 1 .. n
      /\ \A i \in 1 .. n : /\ read[i].id = i /\ read[i].key = orig[i]
                           /\ read[i].val = <<i>> /\ read[i].values = << >>
                           /\ read[i] \in HeaderType
  <2>1. << >> \in Seq(Seq(Int))
    OBVIOUS
  <2>2. \A i \in 1 .. n : i \in Nat /\ <<i>> \in Seq(Int) /\ orig[i] \in Keys
    BY <1>2
  <2> HIDE DEF n
  <2>3. \A i \in 1 .. n : Header(i, orig[i], <<i>>) \in HeaderType
    BY <2>1, <2>2 DEF Header, HeaderType
  <2>4. QED
    BY <1>2, <2>3 DEF Header
<1>4. read \in Seq(HeaderType)
  <2>1. read \in [1 .. n -> HeaderType]
    BY <1>2, <1>3
  <2>2. QED
    BY <1>2, <2>1
<1> HIDE DEF read
<1>5. Permuted(read, headers) /\ SortedByKey(headers)
  BY <1>1, <1>4, SortedFacts, SortedIsSorted
<1>6. headers \in Seq(HeaderType)
  BY <1>5 DEF Permuted
<1>7. \A k \in Keys : Keeps(read, headers, k)
  BY <1>4, <1>5, PermutedKeeps
<1>8. \A k \in Keys : /\ DistinctAt(read, k) /\ CurrentAt(read, k)
                      /\ AsRead(read, k)
  BY <1>3 DEF DistinctAt, CurrentAt, AsRead, Occurrences
<1>9. Distinct(headers) /\ CacheIsCurrent(headers)
  BY <1>6, <1>7, <1>8, AllKeys DEF Keeps
<1>10. ASSUME NEW k \in Keys
       PROVE  AsAsked(headers, k)
  <2>1. asked[k] = {o \in DOMAIN orig : orig[o] = k}
    BY <1>1
  <2>2. Occurrences(read, k) = asked[k]
    BY <1>2, <1>3, <2>1 DEF Occurrences
  <2>3. Vals(read, k) = {<<o>> : o \in asked[k]}
    <3>1. \A o \in asked[k] : read[o].val = <<o>>
      BY <1>2, <1>3, <2>1
    <3>2. QED
      BY <2>2, <3>1 DEF Vals
  <2>4. IsFiniteSet(asked[k])
    BY <1>4, <2>2, OccurrencesFinite
  <2>5. \A w \in asked[k] : w > 0 /\ w >= -sets
    BY <1>1, <1>2, <2>1
  <2>6. Vals(headers, k) = Vals(read, k) /\ AsRead(headers, k)
    BY <1>7, <1>8 DEF Keeps
  <2>7. QED
    BY <2>1, <2>3, <2>4, <2>5, <2>6 DEF AsAsked, Untouched
<1>11. asked \in [Keys -> SUBSET Int]
  BY <1>1, <1>2
<1>12. QED
  BY <1>1, <1>5, <1>6, <1>9, <1>10, <1>11
     DEF IInv, TypeInv, Searchable, WriteKeepsHeaders

\* Whatever is asked of a message, in whatever order, its headers are sorted
\* until it is written, what is cached is current, and each name has what was
\* asked for.
THEOREM HeadersInvariant == Spec => []IInv
<1>1. Init => IInv
  BY InitInvariant
<1>2. IInv /\ [Next]_vars => IInv'
  <2>1. SUFFICES ASSUME IInv, [Next]_vars
                 PROVE  IInv'
    OBVIOUS
  <2>2. CASE UNCHANGED vars
    BY <2>1, <2>2 DEF vars, IInv, TypeInv, Searchable, AsAsked, Untouched,
                      WriteKeepsHeaders
  <2>3. ASSUME NEW key \in Keys, Lookup(key)
        PROVE  IInv'
    BY <2>1, <2>3, LookupKeeps
  <2>4. CASE GetBody
    BY <2>1, <2>4, GetBodyKeeps
  <2>5. CASE NextPhase
    BY <2>1, <2>5 DEF NextPhase, IInv, TypeInv, Searchable, AsAsked, Untouched,
                      WriteKeepsHeaders
  <2>6. ASSUME NEW key \in Keys, AddHeader(key)
        PROVE  IInv'
    BY <2>1, <2>6, AddHeaderKeeps
  <2>7. CASE AddLabel
    BY <2>1, <2>7, AddLabelKeeps
  <2>8. CASE Write
    BY <2>1, <2>8, WriteKeeps
  <2>9. CASE Done
    BY <2>2, <2>9 DEF Done
  <2>10. QED
    BY <2>1, <2>2, <2>3, <2>4, <2>5, <2>6, <2>7, <2>8, <2>9 DEF Next
<1>3. QED
  BY <1>1, <1>2, PTL DEF Spec

\* Until a message of any length is written, looking up a header by the binary
\* search finds all of its occurrences with the values they have now
\* (message_get_header), however many headers were looked up, set and labelled
\* before.
THEOREM LookupsAreCurrent == Spec => []LookupIsCurrent
<1>1. IInv => LookupIsCurrent
  BY InvariantImpliesLookup
<1>2. QED
  BY <1>1, HeadersInvariant, PTL

\* What message_write() writes of a message of any length has the headers no
\* action touched as they were and in their order, and every other one once with
\* the words that were asked for.
THEOREM WritesKeepHeaders == Spec => []WriteKeepsHeaders
<1>1. IInv => WriteKeepsHeaders
  BY DEF IInv
<1>2. QED
  BY <1>1, HeadersInvariant, PTL
=============================================================================
