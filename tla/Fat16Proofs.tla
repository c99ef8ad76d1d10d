----------------------------- MODULE Fat16Proofs -----------------------------
(***************************************************************************)
(* Proofs that the FAT16 driver keeps the FAT and the directories in       *)
(* order: a cluster belongs to one file or folder at most, chains end, and *)
(* no cluster is lost or given away, for every volume, as long as one task *)
(* changes it.                                                             *)
(*                                                                         *)
(* First what chains are, then what changes to the FAT do to them (Books), *)
(* then the invariant (Good), what each change does to it, and the steps.  *)
(***************************************************************************)
EXTENDS Fat16, FiniteSetTheorems, TLAPS, SequenceTheorems

-----------------------------------------------------------------------------
(* Induction, with sets for predicates.                                    *)

(* A set of natural numbers has a least one.                               *)
LEMMA Least ==
    ASSUME NEW T \in SUBSET Nat, NEW n \in T
    PROVE  \E m \in T : \A k \in T : m <= k
<1>. DEFINE D == {0 .. k : k \in T}
            R == StrictSubsetOrdering(Nat)
            F == FiniteSubsetsOf(Nat)
<1>1. IsWellFoundedOn(R, F)
  BY FS_StrictSubsetOrderingWellFounded
<1>2. D \subseteq F
  <2>1. ASSUME NEW k \in T PROVE 0 .. k \in F
    <3>1. IsFiniteSet(0 .. k)
      BY FS_Interval
    <3>. QED  BY <3>1 DEF FiniteSubsetsOf
  <2>. QED  BY <2>1
<1>3. D # {}
  OBVIOUS
<1>4. PICK d \in D : \A y \in D : ~ (<<y, d>> \in R)
  <2>. HIDE DEF D, R, F
  <2>. QED  BY <1>1, <1>2, <1>3, WFMin
<1>5. PICK m \in T : d = 0 .. m
  OBVIOUS
<1>6. ASSUME NEW k \in T, k < m PROVE FALSE
  <2>1. 0 .. k \subseteq 0 .. m /\ 0 .. k # 0 .. m /\ 0 .. k \in SUBSET Nat /\ 0 .. m \in SUBSET Nat
    <3>1. m \in 0 .. m /\ m \notin 0 .. k
      BY <1>6
    <3>2. 0 .. k \subseteq 0 .. m /\ 0 .. k \in SUBSET Nat /\ 0 .. m \in SUBSET Nat
      BY <1>6
    <3>. QED  BY <3>1, <3>2
  <2>2. <<0 .. k, 0 .. m>> \in R
    BY <2>1 DEF StrictSubsetOrdering
  <2>. QED  BY <2>2, <1>4, <1>5
<1>. QED  BY <1>6

(* A set that has 0, and with each number the next, has them all.          *)
LEMMA Induction ==
    ASSUME NEW S \in SUBSET Nat, 0 \in S, \A n \in S : n + 1 \in S
    PROVE  \A n \in Nat : n \in S
<1>. SUFFICES ASSUME NEW n \in Nat, n \notin S PROVE FALSE
  OBVIOUS
<1>. DEFINE T == Nat \ S
<1>1. PICK m \in T : \A k \in T : m <= k
  BY Least
<1>2. m # 0 /\ m - 1 \in Nat /\ m - 1 \notin T
  BY <1>1
<1>3. m - 1 \in S
  BY <1>2
<1>4. (m - 1) + 1 \in S
  BY <1>3
<1>. QED  BY <1>1, <1>4

-----------------------------------------------------------------------------
(* Walks along a chain.                                                    *)

(* The function that At defines, up to the i-th step.                      *)
Onward(table, p) == IF p \in Clusters THEN table[p] ELSE p
Walk(table, c, i, f) == f = [k \in 0 .. i |-> IF k = 0 THEN c ELSE Onward(table, f[k - 1])]
Walks(table, c, i) == \E f : Walk(table, c, i, f)

(* There is a walk of any length.                                          *)
LEMMA WalkExists ==
    ASSUME NEW table, NEW c, NEW i \in Nat
    PROVE  Walks(table, c, i)
<1>. DEFINE S == {n \in Nat : Walks(table, c, n)}
<1>1. 0 \in S
  <2>. DEFINE f == [k \in 0 .. 0 |-> c]
  <2>1. f = [k \in 0 .. 0 |-> IF k = 0 THEN c ELSE Onward(table, f[k - 1])]
    OBVIOUS
  <2>. QED  BY <2>1 DEF Walk, Walks
<1>2. ASSUME NEW n \in S PROVE n + 1 \in S
  <2>1. PICK f : Walk(table, c, n, f)
    BY <1>2 DEF Walks
  <2>. DEFINE g == [k \in 0 .. n + 1 |-> IF k = n + 1 THEN Onward(table, f[n]) ELSE f[k]]
  <2>2. ASSUME NEW k \in 0 .. n + 1
        PROVE  g[k] = IF k = 0 THEN c ELSE Onward(table, g[k - 1])
    <3>1. CASE k = n + 1
      BY <3>1
    <3>2. CASE k # n + 1
      <4>1. k \in 0 .. n /\ (k # 0 => k - 1 \in 0 .. n)
        BY <3>2
      <4>2. f[k] = IF k = 0 THEN c ELSE Onward(table, f[k - 1])
        BY <2>1, <4>1 DEF Walk
      <4>. QED  BY <3>2, <4>1, <4>2
    <3>. QED  BY <3>1, <3>2
  <2>3. g = [k \in 0 .. n + 1 |-> IF k = 0 THEN c ELSE Onward(table, g[k - 1])]
    BY <2>2
  <2>. HIDE DEF g
  <2>. QED  BY <2>3 DEF Walk, Walks
<1>3. \A n \in Nat : n \in S
  <2>1. S \in SUBSET Nat
    OBVIOUS
  <2>. HIDE DEF S
  <2>. QED  BY <1>1, <1>2, <2>1, Induction
<1>. QED  BY <1>3
(* Walks of different lengths agree.                                       *)
LEMMA WalksAgree ==
    ASSUME NEW table, NEW c, NEW i \in Nat, NEW j \in Nat, NEW f, NEW g,
           Walk(table, c, i, f), Walk(table, c, j, g)
    PROVE  \A k \in Nat : k <= i /\ k <= j => f[k] = g[k]
<1>. DEFINE S == {k \in Nat : k <= i /\ k <= j => f[k] = g[k]}
<1>0. S \in SUBSET Nat
  OBVIOUS
<1>1. 0 \in S
  BY DEF Walk
<1>2. ASSUME NEW k \in S PROVE k + 1 \in S
  <2>. SUFFICES ASSUME k + 1 <= i, k + 1 <= j PROVE f[k + 1] = g[k + 1]
    OBVIOUS
  <2>1. f[k] = g[k]
    OBVIOUS
  <2>2. f[k + 1] = Onward(table, f[k])
    <3>1. k + 1 \in 0 .. i /\ k + 1 # 0 /\ (k + 1) - 1 = k
      OBVIOUS
    <3>. QED  BY <3>1 DEF Walk
  <2>3. g[k + 1] = Onward(table, g[k])
    <3>1. k + 1 \in 0 .. j /\ k + 1 # 0 /\ (k + 1) - 1 = k
      OBVIOUS
    <3>. QED  BY <3>1 DEF Walk
  <2>. QED  BY <2>1, <2>2, <2>3
<1>3. \A k \in Nat : k \in S
  <2>. HIDE DEF S
  <2>. QED  BY <1>0, <1>1, <1>2, Induction
<1>. QED  BY <1>3

(* What At is.                                                             *)
LEMMA AtIs ==
    ASSUME NEW table, NEW c, NEW i \in Nat
    PROVE  \E f : Walk(table, c, i, f) /\ At(table, c, i) = f[i]
<1>. DEFINE step == CHOOSE f : Walk(table, c, i, f)
<1>1. Walk(table, c, i, step)
  BY WalkExists DEF Walks
<1>2. At(table, c, i) = step[i]
  BY DEF At, Walk, Onward
<1>. QED  BY <1>1, <1>2

(* At begins with the first cluster and goes on by the links.              *)
LEMMA AtSteps ==
    ASSUME NEW table, NEW c
    PROVE  /\ At(table, c, 0) = c
           /\ \A i \in Nat : At(table, c, i + 1) = Onward(table, At(table, c, i))
<1>1. At(table, c, 0) = c
  <2>1. PICK f : Walk(table, c, 0, f) /\ At(table, c, 0) = f[0]
    BY AtIs
  <2>2. f[0] = c
    BY <2>1 DEF Walk
  <2>. QED  BY <2>1, <2>2
<1>2. ASSUME NEW i \in Nat PROVE At(table, c, i + 1) = Onward(table, At(table, c, i))
  <2>1. PICK f : Walk(table, c, i, f) /\ At(table, c, i) = f[i]
    BY AtIs
  <2>2. PICK g : Walk(table, c, i + 1, g) /\ At(table, c, i + 1) = g[i + 1]
    BY AtIs
  <2>3. f[i] = g[i]
    BY <2>1, <2>2, WalksAgree
  <2>4. g[i + 1] = Onward(table, g[i])
    <3>1. i + 1 \in 0 .. i + 1 /\ i + 1 # 0 /\ (i + 1) - 1 = i
      OBVIOUS
    <3>. QED  BY <3>1, <2>2 DEF Walk
  <2>. QED  BY <2>1, <2>2, <2>3, <2>4
<1>. QED  BY <1>1, <1>2
(* Clusters are finitely many numbers, neither of which is a mark.         *)
LEMMA ClustersAre ==
    /\ IsFiniteSet(Clusters) /\ Cardinality(Clusters) \in Nat
    /\ Free \notin Clusters /\ EOC \notin Clusters /\ Free # EOC
    /\ \A c \in Clusters : c \in Nat
<1>1. IsFiniteSet(Clusters)
  BY Fat16Assumption
<1>2. Cardinality(Clusters) \in Nat
  BY <1>1, FS_CardinalityType
<1>. QED  BY <1>1, <1>2, Fat16Assumption DEF Free, EOC

(* A walk that has left the clusters stands still.                         *)
LEMMA WalkStays ==
    ASSUME NEW table, NEW c, NEW i \in Nat, At(table, c, i) \notin Clusters
    PROVE  \A d \in Nat : At(table, c, i + d) = At(table, c, i)
<1>. DEFINE S == {d \in Nat : At(table, c, i + d) = At(table, c, i)}
<1>0. S \in SUBSET Nat
  OBVIOUS
<1>1. 0 \in S
  OBVIOUS
<1>2. ASSUME NEW d \in S PROVE d + 1 \in S
  <2>1. i + d \in Nat /\ i + (d + 1) = (i + d) + 1
    OBVIOUS
  <2>2. At(table, c, (i + d) + 1) = Onward(table, At(table, c, i + d))
    BY <2>1, AtSteps, ZenonT(60)
  <2>. QED  BY <2>1, <2>2 DEF Onward
<1>3. \A d \in Nat : d \in S
  <2>. HIDE DEF S
  <2>. QED  BY <1>0, <1>1, <1>2, Induction
<1>. QED  BY <1>3

(* One that comes by a cluster again goes round.                           *)
LEMMA WalkCycles ==
    ASSUME NEW table, NEW c, NEW i \in Nat, NEW j \in Nat, At(table, c, i) = At(table, c, j)
    PROVE  \A d \in Nat : At(table, c, i + d) = At(table, c, j + d)
<1>. DEFINE S == {d \in Nat : At(table, c, i + d) = At(table, c, j + d)}
<1>0. S \in SUBSET Nat
  OBVIOUS
<1>1. 0 \in S
  OBVIOUS
<1>2. ASSUME NEW d \in S PROVE d + 1 \in S
  <2>1. At(table, c, (i + d) + 1) = Onward(table, At(table, c, i + d))
    BY AtSteps
  <2>2. At(table, c, (j + d) + 1) = Onward(table, At(table, c, j + d))
    BY AtSteps
  <2>3. i + (d + 1) = (i + d) + 1 /\ j + (d + 1) = (j + d) + 1
    OBVIOUS
  <2>. QED  BY <2>1, <2>2, <2>3
<1>3. \A d \in Nat : d \in S
  <2>. HIDE DEF S
  <2>. QED  BY <1>0, <1>1, <1>2, Induction
<1>. QED  BY <1>3

(* So whatever it comes by it comes by within as many steps as there are   *)
(* clusters.                                                               *)
LEMMA AtInChain ==
    ASSUME NEW table, NEW c, NEW i \in Nat, At(table, c, i) \in Clusters
    PROVE  At(table, c, i) \in Chain(table, c)
<1>. DEFINE N == Cardinality(Clusters)
            x == At(table, c, i)
            S == {k \in Nat : At(table, c, k) = x}
<1>1. PICK m \in S : \A k \in S : m <= k
  <2>1. S \in SUBSET Nat /\ i \in S
    OBVIOUS
  <2>. HIDE DEF S
  <2>. QED  BY <2>1, Least
<1>2. m \in Nat /\ At(table, c, m) = x
  OBVIOUS
<1>3. CASE m <= N
  <2>1. m \in 0 .. N
    BY <1>2, <1>3, ClustersAre
  <2>. QED  BY <1>2, <2>1 DEF Chain
<1>4. CASE m > N
  <2>1. ASSUME NEW k \in 0 .. N PROVE At(table, c, k) \in Clusters
    <3>1. CASE At(table, c, k) \notin Clusters
      <4>1. m - k \in Nat /\ k + (m - k) = m /\ k \in Nat
        BY <1>2, <1>4, ClustersAre
      <4>2. At(table, c, k + (m - k)) = At(table, c, k)
        BY <3>1, <4>1, WalkStays
      <4>. QED  BY <3>1, <4>1, <4>2, <1>2
    <3>. QED  BY <3>1
  <2>. DEFINE f == [k \in 0 .. N |-> At(table, c, k)]
  <2>2. f \in [0 .. N -> Clusters]
    BY <2>1
  <2>3. IsFiniteSet(0 .. N) /\ Cardinality(0 .. N) = N + 1
    BY FS_Interval, ClustersAre
  <2>4. PICK a \in 0 .. N, b \in 0 .. N : a # b /\ f[a] = f[b]
    <3>1. Cardinality(Clusters) < Cardinality(0 .. N)
      BY <2>3, ClustersAre
    <3>. HIDE DEF f
    <3>. QED  BY <2>2, <2>3, <3>1, ClustersAre, FS_PigeonHole
  <2>5. PICK p \in 0 .. N, q \in 0 .. N : p < q /\ At(table, c, p) = At(table, c, q)
    <3>1. a < b \/ b < a
      BY <2>4, ClustersAre
    <3>2. At(table, c, a) = At(table, c, b)
      BY <2>4
    <3>. QED  BY <3>1, <3>2
  <2>6. /\ m - q \in Nat /\ q + (m - q) = m /\ p + (m - q) < m /\ p + (m - q) \in Nat
        /\ p \in Nat /\ q \in Nat
    BY <1>2, <1>4, <2>5, ClustersAre
  <2>7. At(table, c, p + (m - q)) = At(table, c, q + (m - q))
    <3>1. \A d \in Nat : At(table, c, p + d) = At(table, c, q + d)
      BY <2>5, <2>6, WalkCycles
    <3>. QED  BY <2>6, <3>1
  <2>8. p + (m - q) \in S
    BY <2>6, <2>7, <1>2
  <2>. QED  BY <1>1, <2>6, <2>8
<1>. QED  BY <1>2, <1>3, <1>4, ClustersAre
-----------------------------------------------------------------------------
(* A chain is the least set with its first cluster and what that leads to. *)

Closed(table, S) == \A x \in S : table[x] \in Clusters => table[x] \in S

(* A chain has its first cluster,                                          *)
LEMMA ChainStart ==
    ASSUME NEW table, NEW c \in Clusters
    PROVE  c \in Chain(table, c)
<1>1. At(table, c, 0) = c
  BY AtSteps
<1>2. At(table, c, 0) \in Chain(table, c)
  BY <1>1, AtInChain
<1>. QED  BY <1>1, <1>2

(* with each cluster the one it links to,                                  *)
LEMMA ChainNext ==
    ASSUME NEW table, NEW c, NEW x \in Chain(table, c), table[x] \in Clusters
    PROVE  table[x] \in Chain(table, c)
<1>1. PICK i \in 0 .. Cardinality(Clusters) : x = At(table, c, i)
  BY DEF Chain
<1>2. i \in Nat /\ x \in Clusters
  BY ClustersAre DEF Chain
<1>3. At(table, c, i + 1) = table[x]
  BY <1>1, <1>2, AtSteps DEF Onward
<1>4. i + 1 \in Nat
  BY <1>2
<1>. QED  BY <1>3, <1>4, AtInChain

(* and nothing that a set with these two properties has not.               *)
LEMMA ChainLeast ==
    ASSUME NEW table, NEW c, NEW S, c \in Clusters => c \in S, Closed(table, S)
    PROVE  Chain(table, c) \subseteq S
<1>. DEFINE U == {i \in Nat : At(table, c, i) \in Clusters => At(table, c, i) \in S}
<1>0. U \in SUBSET Nat
  OBVIOUS
<1>1. 0 \in U
  BY AtSteps
<1>2. ASSUME NEW i \in U PROVE i + 1 \in U
  <2>1. i \in Nat /\ (At(table, c, i) \in Clusters => At(table, c, i) \in S)
    OBVIOUS
  <2>2. At(table, c, i + 1) = Onward(table, At(table, c, i))
    BY <2>1, AtSteps
  <2>3. At(table, c, i + 1) \in Clusters => At(table, c, i + 1) \in S
    BY <2>1, <2>2 DEF Onward, Closed
  <2>. QED  BY <2>1, <2>3
<1>3. \A i \in Nat : i \in U
  <2>. HIDE DEF U
  <2>. QED  BY <1>0, <1>1, <1>2, Induction
<1>4. ASSUME NEW x \in Chain(table, c) PROVE x \in S
  <2>1. PICK i \in 0 .. Cardinality(Clusters) : x = At(table, c, i)
    BY DEF Chain
  <2>2. i \in Nat /\ x \in Clusters
    BY ClustersAre DEF Chain
  <2>. QED  BY <2>1, <2>2, <1>3
<1>. QED  BY <1>4

(* Chains are of clusters.                                                 *)
LEMMA ChainWithin == \A table, c : Chain(table, c) \subseteq Clusters
BY DEF Chain

(* There is no chain from what is no cluster.                              *)
LEMMA NoChain ==
    ASSUME NEW table, NEW c, c \notin Clusters
    PROVE  Chain(table, c) = {}
<1>1. Closed(table, {})
  BY DEF Closed
<1>2. Chain(table, c) \subseteq {}
  BY <1>1, ChainLeast
<1>. QED  BY <1>2

(* What is on a chain is its first cluster or has one before it.           *)
LEMMA ChainFrom ==
    ASSUME NEW table, NEW c, NEW x \in Chain(table, c), x # c
    PROVE  \E y \in Chain(table, c) : table[y] = x
<1>. DEFINE S == {z \in Chain(table, c) : z = c \/ \E y \in Chain(table, c) : table[y] = z}
<1>1. c \in Clusters => c \in S
  BY ChainStart
<1>2. Closed(table, S)
  BY ChainNext DEF Closed
<1>3. Chain(table, c) \subseteq S
  <2>. HIDE DEF S
  <2>. QED  BY <1>1, <1>2, ChainLeast
<1>. QED  BY <1>3

(* It is the same in a table that says the same of it.                     *)
LEMMA ChainSame ==
    ASSUME NEW table, NEW other, NEW c, \A x \in Chain(table, c) : other[x] = table[x]
    PROVE  Chain(other, c) = Chain(table, c)
<1>1. Chain(other, c) \subseteq Chain(table, c)
  <2>1. c \in Clusters => c \in Chain(table, c)
    BY ChainStart
  <2>2. Closed(other, Chain(table, c))
    BY ChainNext DEF Closed
  <2>. QED  BY <2>1, <2>2, ChainLeast
<1>2. Chain(table, c) \subseteq Chain(other, c)
  <2>. DEFINE S == Chain(other, c) \cap Chain(table, c)
  <2>1. c \in Clusters => c \in S
    BY ChainStart
  <2>2. Closed(table, S)
    BY ChainNext DEF Closed
  <2>3. Chain(table, c) \subseteq S
    <3>. HIDE DEF S
    <3>. QED  BY <2>1, <2>2, ChainLeast
  <2>. QED  BY <2>3
<1>. QED  BY <1>1, <1>2

(* A cluster more at its end.                                              *)
LEMMA ChainGrows ==
    ASSUME NEW table, NEW other, NEW c, NEW last \in Chain(table, c), NEW f \in Clusters,
           table[last] = EOC, f \notin Chain(table, c), other[last] = f, other[f] = EOC,
           \A x \in Chain(table, c) \ {last} : other[x] = table[x]
    PROVE  Chain(other, c) = Chain(table, c) \cup {f}
<1>0. EOC \notin Clusters
  BY ClustersAre
<1>1. Chain(other, c) \subseteq Chain(table, c) \cup {f}
  <2>1. c \in Clusters => c \in Chain(table, c) \cup {f}
    BY ChainStart
  <2>2. Closed(other, Chain(table, c) \cup {f})
    BY <1>0, ChainNext DEF Closed
  <2>. QED  BY <2>1, <2>2, ChainLeast
<1>2. Chain(table, c) \subseteq Chain(other, c)
  <2>. DEFINE S == Chain(other, c) \cap Chain(table, c)
  <2>1. c \in Clusters => c \in S
    BY ChainStart
  <2>2. Closed(table, S)
    BY <1>0, ChainNext DEF Closed
  <2>3. Chain(table, c) \subseteq S
    <3>. HIDE DEF S
    <3>. QED  BY <2>1, <2>2, ChainLeast
  <2>. QED  BY <2>3
<1>3. f \in Chain(other, c)
  BY <1>2, ChainNext
<1>. QED  BY <1>1, <1>2, <1>3
-----------------------------------------------------------------------------
(* Chains that stay apart.                                                 *)

IsTable(table) == table \in [Clusters -> Clusters \cup {Free, EOC}]

(* Links lead to clusters in use, and no two to the same.                  *)
Linked(table) == \A x \in Clusters : table[x] \in Clusters => table[table[x]] # Free
OneWay(table) == \A x, y \in Clusters : table[x] = table[y] /\ table[x] \in Clusters => x = y

(* What a chain begins with: in use, and no link leads to it.              *)
Heads(table, c) == c \in Clusters /\ table[c] # Free /\ \A x \in Clusters : table[x] # c

Sane(table) == IsTable(table) /\ Linked(table) /\ OneWay(table)

(* Chains with different heads have nothing in common.                     *)
LEMMA HeadsApart ==
    ASSUME NEW table, OneWay(table), NEW c, NEW d, Heads(table, c), Heads(table, d), c # d
    PROVE  Chain(table, c) \cap Chain(table, d) = {}
<1>. DEFINE S == Chain(table, c) \ Chain(table, d)
<1>0. Chain(table, c) \subseteq Clusters /\ Chain(table, d) \subseteq Clusters
  BY ChainWithin
<1>1. c \in S
  <2>1. c \in Chain(table, c)
    BY ChainStart DEF Heads
  <2>2. c \notin Chain(table, d)
    BY <1>0, ChainFrom DEF Heads
  <2>. QED  BY <2>1, <2>2
<1>2. Closed(table, S)
  <2>. SUFFICES ASSUME NEW x \in S, table[x] \in Clusters PROVE table[x] \in S
    BY DEF Closed
  <2>1. table[x] \in Chain(table, c)
    BY ChainNext
  <2>2. ASSUME table[x] \in Chain(table, d) PROVE FALSE
    <3>1. table[x] # d
      BY <1>0 DEF Heads
    <3>2. PICK y \in Chain(table, d) : table[y] = table[x]
      BY <2>2, <3>1, ChainFrom
    <3>. QED  BY <1>0, <3>2 DEF OneWay
  <2>. QED  BY <2>1, <2>2
<1>3. Chain(table, c) \subseteq S
  <2>. HIDE DEF S
  <2>. QED  BY <1>1, <1>2, ChainLeast
<1>. QED  BY <1>3

(* All of a chain is in use.                                               *)
LEMMA ChainInUse ==
    ASSUME NEW table, Linked(table), NEW c, Heads(table, c)
    PROVE  \A x \in Chain(table, c) : table[x] # Free
<1>. DEFINE S == {x \in Clusters : table[x] # Free}
<1>1. c \in S
  BY DEF Heads
<1>2. Closed(table, S)
  BY DEF Closed, Linked
<1>3. Chain(table, c) \subseteq S
  <2>. HIDE DEF S
  <2>. QED  BY <1>1, <1>2, ChainLeast
<1>. QED  BY <1>3

(* It ends, and with the mark of the end.                                  *)
LEMMA ChainEnds ==
    ASSUME NEW table, Sane(table), NEW c, Heads(table, c)
    PROVE  /\ At(table, c, Cardinality(Clusters)) = EOC
           /\ \E x \in Chain(table, c) : table[x] = EOC
<1>. DEFINE N == Cardinality(Clusters)
<1>0. N \in Nat /\ 0 .. N \subseteq Nat
  BY ClustersAre
<1>1. ASSUME \A k \in 0 .. N : At(table, c, k) \in Clusters PROVE FALSE
  <2>. DEFINE f == [k \in 0 .. N |-> At(table, c, k)]
              S == {p \in 0 .. N : \E q \in 0 .. N : p < q /\ At(table, c, p) = At(table, c, q)}
  <2>1. f \in [0 .. N -> Clusters]
    BY <1>1
  <2>2. IsFiniteSet(0 .. N) /\ Cardinality(0 .. N) = N + 1
    BY FS_Interval, <1>0
  <2>3. PICK a \in 0 .. N, b \in 0 .. N : a # b /\ f[a] = f[b]
    <3>1. Cardinality(Clusters) < Cardinality(0 .. N)
      BY <2>2, <1>0
    <3>. HIDE DEF f
    <3>. QED  BY <2>1, <2>2, <3>1, ClustersAre, FS_PigeonHole
  <2>4. \E s \in S : TRUE
    <3>1. a < b \/ b < a
      BY <2>3, <1>0
    <3>2. At(table, c, a) = At(table, c, b)
      BY <2>3
    <3>. QED  BY <3>1, <3>2
  <2>5. PICK p \in S : \A k \in S : p <= k
    <3>1. S \in SUBSET Nat
      BY <1>0
    <3>. HIDE DEF S
    <3>. QED  BY <2>4, <3>1, Least
  <2>6. PICK q \in 0 .. N : p < q /\ At(table, c, p) = At(table, c, q)
    BY <2>5
  <2>7. p \in 0 .. N
    BY <2>5
  <2>8. q - 1 \in 0 .. N /\ (q - 1) + 1 = q /\ q - 1 \in Nat
    BY <2>6, <2>7, <1>0
  <2>9. At(table, c, q) = table[At(table, c, q - 1)]
    <3>1. At(table, c, (q - 1) + 1) = Onward(table, At(table, c, q - 1))
      BY <2>8, AtSteps
    <3>. QED  BY <1>1, <2>8, <3>1 DEF Onward
  <2>10. CASE p = 0
    <3>1. At(table, c, p) = c
      BY <2>10, AtSteps
    <3>. QED  BY <1>1, <2>6, <2>8, <2>9, <3>1 DEF Heads
  <2>11. CASE p # 0
    <3>1. p - 1 \in 0 .. N /\ (p - 1) + 1 = p /\ p - 1 \in Nat /\ p - 1 < q - 1
      BY <2>6, <2>7, <2>8, <2>11, <1>0
    <3>2. At(table, c, p) = table[At(table, c, p - 1)]
      <4>1. At(table, c, (p - 1) + 1) = Onward(table, At(table, c, p - 1))
        BY <3>1, AtSteps
      <4>. QED  BY <1>1, <3>1, <4>1 DEF Onward
    <3>3. At(table, c, p - 1) = At(table, c, q - 1)
      BY <1>1, <2>6, <2>7, <2>8, <2>9, <3>1, <3>2 DEF Sane, OneWay
    <3>4. p - 1 \in S
      BY <2>8, <3>1, <3>3
    <3>. QED  BY <2>5, <2>7, <3>1, <3>4
  <2>. QED  BY <2>10, <2>11
<1>. DEFINE U == {k \in 0 .. N : At(table, c, k) \notin Clusters}
<1>2. PICK k \in U : \A j \in U : k <= j
  <2>1. U \in SUBSET Nat /\ \E u \in U : TRUE
    BY <1>0, <1>1
  <2>. HIDE DEF U
  <2>. QED  BY <2>1, Least
<1>3. k \in 0 .. N /\ At(table, c, k) \notin Clusters
  BY <1>2
<1>4. k # 0
  BY <1>3, AtSteps DEF Heads
<1>5. k - 1 \in 0 .. N /\ (k - 1) + 1 = k /\ k - 1 \in Nat
  BY <1>3, <1>4, <1>0
<1>6. At(table, c, k - 1) \in Clusters
  BY <1>2, <1>5, <1>3
<1>7. At(table, c, k) = table[At(table, c, k - 1)]
  <2>1. At(table, c, (k - 1) + 1) = Onward(table, At(table, c, k - 1))
    BY <1>5, AtSteps
  <2>. QED  BY <1>5, <1>6, <2>1 DEF Onward
<1>8. At(table, c, k - 1) \in Chain(table, c)
  BY <1>5, <1>6, AtInChain
<1>9. At(table, c, k) = EOC
  <2>1. table[At(table, c, k - 1)] # Free
    BY <1>8, ChainInUse DEF Sane
  <2>. QED  BY <1>3, <1>6, <1>7, <2>1 DEF Sane, IsTable
<1>10. At(table, c, N) = EOC
  <2>1. N - k \in Nat /\ k + (N - k) = N /\ k \in Nat
    BY <1>3, <1>0
  <2>2. \A d \in Nat : At(table, c, k + d) = At(table, c, k)
    BY <1>3, <2>1, WalkStays
  <2>3. At(table, c, k + (N - k)) = At(table, c, k)
    BY <2>1, <2>2
  <2>. QED  BY <1>9, <2>1, <2>3
<1>. QED  BY <1>7, <1>8, <1>9, <1>10
-----------------------------------------------------------------------------
(* The books: which clusters are in use, and for what.                     *)

(* The heads H and the clusters L that were given up account for all that  *)
(* is in use, and do not mix.                                              *)
LostApart(table, L) ==
    /\ \A x \in L : x \in Clusters /\ table[x] # Free
    /\ \A x \in Clusters : table[x] \in Clusters => (x \in L <=> table[x] \in L)
Counted(table, H, L) ==
    \A x \in Clusters : table[x] # Free => x \in L \/ \E h \in H : x \in Chain(table, h)
Books(table, H, L) ==
    /\ Sane(table)
    /\ \A h \in H : h # Free => Heads(table, h) /\ h \notin L
    /\ LostApart(table, L)
    /\ Counted(table, H, L)

(* A head that is no cluster, an empty file's, does not count.             *)
LEMMA BooksSame ==
    ASSUME NEW table, NEW H, NEW G, NEW L, Books(table, H, L),
           \A h : h # Free => (h \in H <=> h \in G)
    PROVE  Books(table, G, L)
<1>1. Chain(table, Free) = {}
  BY NoChain, ClustersAre
<1>2. Counted(table, G, L)
  BY <1>1 DEF Books, Counted
<1>. QED  BY <1>2 DEF Books

(* The chain of a head does not meet another's, nor what was given up.     *)
LEMMA BooksApart ==
    ASSUME NEW table, NEW H, NEW L, Books(table, H, L), NEW c \in H, NEW d \in H, c # d
    PROVE  Chain(table, c) \cap Chain(table, d) = {}
<1>1. CASE c = Free \/ d = Free
  BY <1>1, NoChain, ClustersAre
<1>2. CASE c # Free /\ d # Free
  BY <1>2, HeadsApart DEF Books, Sane
<1>. QED  BY <1>1, <1>2

(* Nor does it meet what was given up.                                     *)
LEMMA BooksLost ==
    ASSUME NEW table, NEW H, NEW L, Books(table, H, L), NEW c \in H
    PROVE  Chain(table, c) \cap L = {}
<1>1. CASE c = Free
  BY <1>1, NoChain, ClustersAre
<1>2. CASE c # Free
  <2>. DEFINE S == Clusters \ L
  <2>1. c \in S
    BY <1>2 DEF Books, Heads
  <2>2. Closed(table, S)
    BY DEF Closed, Books, LostApart
  <2>3. Chain(table, c) \subseteq S
    <3>. HIDE DEF S
    <3>. QED  BY <2>1, <2>2, ChainLeast
  <2>. QED  BY <2>3
<1>. QED  BY <1>1, <1>2

(* It is in use throughout.                                                *)
LEMMA BooksInUse ==
    ASSUME NEW table, NEW H, NEW L, Books(table, H, L), NEW c \in H
    PROVE  \A x \in Chain(table, c) : x \in Clusters /\ table[x] # Free
<1>1. CASE c = Free
  BY <1>1, NoChain, ClustersAre
<1>2. CASE c # Free
  BY <1>2, ChainInUse, ChainWithin DEF Books, Sane
<1>. QED  BY <1>1, <1>2

(* The cluster that leads to one of a head's chain is on it too.           *)
LEMMA BooksBack ==
    ASSUME NEW table, NEW H, NEW L, Books(table, H, L), NEW c \in H,
           NEW x \in Clusters, table[x] \in Chain(table, c)
    PROVE  x \in Chain(table, c)
<1>1. c # Free
  BY NoChain, ClustersAre
<1>2. table[x] # c
  BY <1>1 DEF Books, Heads
<1>3. PICK y \in Chain(table, c) : table[y] = table[x]
  BY <1>2, ChainFrom
<1>4. y \in Clusters /\ table[x] \in Clusters
  BY ChainWithin
<1>. QED  BY <1>3, <1>4 DEF Books, Sane, OneWay

(* Whole chains are freed.                                                 *)
Chains(table, D) == UNION {Chain(table, d) : d \in D}

(* The other heads keep their chains, and the books are in order.          *)
LEMMA BooksFreed ==
    ASSUME NEW table, NEW H, NEW L, Books(table, H, L), NEW D \in SUBSET H
    PROVE  /\ Books(Freed(table, Chains(table, D)), H \ D, L)
           /\ \A h \in H \ D : Chain(Freed(table, Chains(table, D)), h) = Chain(table, h)
<1>. DEFINE C == Chains(table, D)
            new == Freed(table, C)
<1>1. C \subseteq Clusters
  BY ChainWithin DEF Chains
<1>2. \A x \in Clusters : new[x] = IF x \in C THEN Free ELSE table[x]
  BY DEF Freed
<1>3. \A x \in Clusters : table[x] \in C => x \in C
  BY BooksBack DEF Chains
<1>4. \A h \in H \ D : Chain(table, h) \cap C = {}
  BY BooksApart DEF Chains
<1>5. C \cap L = {}
  BY BooksLost DEF Chains
<1>6. \A h \in H \ D : Chain(new, h) = Chain(table, h)
  <2>1. ASSUME NEW h \in H \ D PROVE Chain(new, h) = Chain(table, h)
    <3>1. \A x \in Chain(table, h) : new[x] = table[x]
      BY <1>2, <1>4, ChainWithin
    <3>. HIDE DEF new
    <3>. QED  BY <3>1, ChainSame
  <2>. QED  BY <2>1
<1>. USE ClustersAre
<1>7. Sane(new)
  <2>1. IsTable(new)
    <3>1. new = [x \in Clusters |-> new[x]]
      BY DEF Freed
    <3>2. \A x \in Clusters : new[x] \in Clusters \cup {Free, EOC}
      BY <1>2 DEF Books, Sane, IsTable
    <3>. HIDE DEF new
    <3>. QED  BY <3>1, <3>2 DEF IsTable
  <2>2. Linked(new)
    <3>. HIDE DEF C, new
    <3>. QED  BY <1>2, <1>3 DEF Linked, Books, Sane
  <2>3. OneWay(new)
    <3>. HIDE DEF C, new
    <3>. QED  BY <1>2 DEF OneWay, Books, Sane
  <2>. QED  BY <2>1, <2>2, <2>3 DEF Sane
<1>8. \A h \in H \ D : h # Free => Heads(new, h) /\ h \notin L
  <2>1. ASSUME NEW h \in H \ D, h # Free PROVE Heads(new, h) /\ h \notin L
    <3>1. Heads(table, h) /\ h \notin L
      BY <2>1 DEF Books
    <3>2. h \in Chain(table, h)
      BY <3>1, ChainStart DEF Heads
    <3>3. h \notin C
      BY <3>2, <1>4
    <3>. HIDE DEF C, new
    <3>. QED  BY <1>2, <2>1, <3>1, <3>3 DEF Heads
  <2>. QED  BY <2>1
<1>9. LostApart(new, L)
  <2>. HIDE DEF C, new
  <2>. QED  BY <1>2, <1>3, <1>5 DEF Books, LostApart
<1>10. Counted(new, H \ D, L)
  <2>1. ASSUME NEW x \in Clusters, new[x] # Free
        PROVE  x \in L \/ \E h \in H \ D : x \in Chain(new, h)
    <3>1. x \notin C /\ table[x] # Free
      <4>. HIDE DEF C, new
      <4>. QED  BY <1>2, <2>1
    <3>2. x \in L \/ \E h \in H : x \in Chain(table, h)
      BY <3>1 DEF Books, Counted
    <3>3. \A h \in D : x \notin Chain(table, h)
      BY <3>1 DEF Chains
    <3>. HIDE DEF C, new
    <3>. QED  BY <3>2, <3>3, <1>6
  <2>. HIDE DEF new
  <2>. QED  BY <2>1 DEF Counted
<1>11. Books(new, H \ D, L)
  <2>. HIDE DEF new
  <2>. QED  BY <1>7, <1>8, <1>9, <1>10 DEF Books
<1>. QED  BY <1>6, <1>11
(* A free cluster is nobody's.                                             *)
LEMMA BooksUnused ==
    ASSUME NEW table, NEW H, NEW L, Books(table, H, L), NEW f \in Clusters, table[f] = Free
    PROVE  /\ f \notin H /\ f \notin L
           /\ \A h \in H : f \notin Chain(table, h)
           /\ \A x \in Clusters : table[x] # f
<1>1. f \notin H
  BY ClustersAre DEF Books, Heads
<1>2. f \notin L
  BY DEF Books, LostApart
<1>3. \A h \in H : f \notin Chain(table, h)
  BY BooksInUse
<1>4. \A x \in Clusters : table[x] # f
  BY DEF Books, Sane, Linked
<1>. QED  BY <1>1, <1>2, <1>3, <1>4

(* It is marked as a chain of its own.                                     *)
LEMMA BooksNew ==
    ASSUME NEW table, NEW other, NEW H, NEW L, Books(table, H, L), IsTable(other),
           NEW f \in Clusters, table[f] = Free, other[f] = EOC,
           \A x \in Clusters \ {f} : other[x] = table[x]
    PROVE  /\ Books(other, H \cup {f}, L)
           /\ Chain(other, f) = {f}
           /\ \A h \in H : Chain(other, h) = Chain(table, h)
<1>. USE ClustersAre
<1>1. /\ f \notin H /\ f \notin L
      /\ \A h \in H : f \notin Chain(table, h)
      /\ \A x \in Clusters : table[x] # f
  BY BooksUnused
<1>2. \A h \in H : Chain(other, h) = Chain(table, h)
  <2>1. ASSUME NEW h \in H PROVE Chain(other, h) = Chain(table, h)
    <3>1. \A x \in Chain(table, h) : other[x] = table[x]
      BY <1>1, ChainWithin
    <3>. QED  BY <3>1, ChainSame
  <2>. QED  BY <2>1
<1>3. Chain(other, f) = {f}
  <2>1. Closed(other, {f})
    BY DEF Closed
  <2>2. Chain(other, f) \subseteq {f}
    BY <2>1, ChainLeast
  <2>. QED  BY <2>2, ChainStart
<1>4. Sane(other)
  BY <1>1 DEF Sane, Books, Linked, OneWay
<1>5. \A h \in H \cup {f} : h # Free => Heads(other, h) /\ h \notin L
  BY <1>1 DEF Books, Heads
<1>6. LostApart(other, L)
  BY <1>1 DEF Books, LostApart
<1>7. Counted(other, H \cup {f}, L)
  <2>1. ASSUME NEW x \in Clusters, other[x] # Free
        PROVE  x \in L \/ \E h \in H \cup {f} : x \in Chain(other, h)
    BY <1>2, <1>3, <2>1 DEF Books, Counted
  <2>. QED  BY <2>1 DEF Counted
<1>8. Books(other, H \cup {f}, L)
  BY <1>4, <1>5, <1>6, <1>7 DEF Books
<1>. QED  BY <1>2, <1>3, <1>8

(* Or becomes the end of the chain that h heads.                           *)
LEMMA BooksGrown ==
    ASSUME NEW table, NEW other, NEW H, NEW L, Books(table, H, L), IsTable(other),
           NEW h \in H, NEW last \in Chain(table, h), table[last] = EOC,
           NEW f \in Clusters, table[f] = Free, other[f] = EOC, other[last] = f,
           \A x \in Clusters \ {f, last} : other[x] = table[x]
    PROVE  /\ Books(other, H, L)
           /\ Chain(other, h) = Chain(table, h) \cup {f}
           /\ \A g \in H \ {h} : Chain(other, g) = Chain(table, g)
<1>. USE ClustersAre
<1>1. /\ f \notin H /\ f \notin L
      /\ \A g \in H : f \notin Chain(table, g)
      /\ \A x \in Clusters : table[x] # f
  BY BooksUnused
<1>2. \A g \in H \ {h} : last \notin Chain(table, g)
  BY BooksApart
<1>3. last \in Clusters /\ last # f /\ last \notin L
  BY <1>1, ChainWithin, BooksLost
<1>4. \A g \in H \ {h} : Chain(other, g) = Chain(table, g)
  <2>1. ASSUME NEW g \in H \ {h} PROVE Chain(other, g) = Chain(table, g)
    <3>1. \A x \in Chain(table, g) : other[x] = table[x]
      BY <1>1, <1>2, ChainWithin
    <3>. QED  BY <3>1, ChainSame
  <2>. QED  BY <2>1
<1>5. Chain(other, h) = Chain(table, h) \cup {f}
  <2>1. \A x \in Chain(table, h) \ {last} : other[x] = table[x]
    BY <1>1, ChainWithin
  <2>2. f \notin Chain(table, h)
    BY <1>1
  <2>. QED  BY <2>1, <2>2, ChainGrows
<1>6. Sane(other)
  <2>1. Linked(other)
    BY <1>1, <1>3 DEF Sane, Books, Linked
  <2>2. OneWay(other)
    BY <1>1, <1>3 DEF Sane, Books, OneWay
  <2>. QED  BY <2>1, <2>2 DEF Sane
<1>7. \A g \in H : g # Free => Heads(other, g) /\ g \notin L
  BY <1>1, <1>3 DEF Books, Heads
<1>8. LostApart(other, L)
  BY <1>1, <1>3 DEF Books, LostApart
<1>9. Counted(other, H, L)
  <2>1. ASSUME NEW x \in Clusters, other[x] # Free
        PROVE  x \in L \/ \E g \in H : x \in Chain(other, g)
    <3>1. CASE x = f
      BY <3>1, <1>5
    <3>2. CASE x # f
      <4>1. table[x] # Free
        BY <2>1, <3>2
      <4>2. x \in L \/ \E g \in H : x \in Chain(table, g)
        BY <4>1 DEF Books, Counted
      <4>. QED  BY <4>2, <1>4, <1>5
    <3>. QED  BY <3>1, <3>2
  <2>. QED  BY <2>1 DEF Counted
<1>10. Books(other, H, L)
  BY <1>6, <1>7, <1>8, <1>9 DEF Books
<1>. QED  BY <1>4, <1>5, <1>10

(* A chain is given up with all its clusters in use.                       *)
LEMMA BooksGivenUp ==
    ASSUME NEW table, NEW H, NEW L, Books(table, H, L), NEW h \in H
    PROVE  Books(table, H \ {h}, L \cup Chain(table, h))
<1>. DEFINE M == L \cup Chain(table, h)
<1>. USE ClustersAre
<1>1. \A g \in H \ {h} : g # Free => Heads(table, g) /\ g \notin M
  <2>1. ASSUME NEW g \in H \ {h}, g # Free PROVE Heads(table, g) /\ g \notin M
    <3>1. Heads(table, g) /\ g \notin L
      BY <2>1 DEF Books
    <3>2. g \in Chain(table, g)
      BY <3>1, ChainStart DEF Heads
    <3>3. Chain(table, g) \cap Chain(table, h) = {}
      BY BooksApart
    <3>. QED  BY <3>1, <3>2, <3>3
  <2>. QED  BY <2>1
<1>2. LostApart(table, M)
  <2>1. \A x \in M : x \in Clusters /\ table[x] # Free
    BY BooksInUse DEF Books, LostApart
  <2>2. \A x \in Clusters : table[x] \in Clusters => (x \in Chain(table, h) <=> table[x] \in Chain(table, h))
    BY ChainNext, BooksBack
  <2>. QED  BY <2>1, <2>2 DEF Books, LostApart
<1>3. Counted(table, H \ {h}, M)
  BY DEF Books, Counted
<1>4. Books(table, H \ {h}, M)
  <2>. HIDE DEF M
  <2>. QED  BY <1>1, <1>2, <1>3 DEF Books
<1>. QED  BY <1>4
-----------------------------------------------------------------------------
(* The invariant, for one task: of the FAT, the entries, the call in       *)
(* progress and what was given up (T, S, k and L below).                   *)

Root == {Free} \X (1 .. RootSlots)

(* Where entries are looked for: the root and the clusters of its folders. *)
Space(T, S) == {Free} \cup UNION {Chain(T, S[b].first) : b \in {b \in Root : S[b].dir}}

(* What Live, Making and Starts are for the only task.                     *)
DoomedOf(k) == IF k.op = "remove_file" /\ k.pc = "unlink" THEN {k.old} ELSE {}
LiveIn(T, S, k) == {a \in Addresses : S[a] # NoEntry /\ a \notin DoomedOf(k) /\ a[1] \in Space(T, S)}
Makes(k) == k.op \in {"write", "create_dir"} /\ k.pc \in {"data", "claim", "entry"}
StartsIn(T, S, k) ==
    {S[a].first : a \in LiveIn(T, S, k)} \cup (IF Makes(k) THEN {k.entry.first} ELSE {})

TaskRec ==
    [op : {"none", "write", "create_dir", "remove_file", "remove", "rename"},
     pc : {"idle", "data", "claim", "entry", "free", "unlink", "flush"},
     path : Paths \cup {<<>>}, to : Paths \cup {<<>>}, loc : Clusters \cup {Free},
     old : Addresses \cup {NoSlot}, entry : Entry, todo : Int,
     last : Clusters \cup {Free}, found : Clusters \cup {Free}, failed : BOOLEAN]

Typed(S, k) == S \in [Addresses -> Entry] /\ k \in TaskRec

(* No two entries that are looked up lead to the same clusters, but for    *)
(* the one that is being renamed; and none to those of one being made.     *)
EntriesApart(T, S, k) ==
    /\ \A a, b \in LiveIn(T, S, k) :
           a # b /\ S[a].first = S[b].first /\ S[a].first # Free =>
               k.op = "rename" /\ k.pc = "unlink" /\ k.old \in {a, b}
    /\ \A a \in LiveIn(T, S, k) : Makes(k) /\ k.entry.first # Free => k.entry.first # S[a].first

(* Folders are in the root, and have a cluster.                            *)
RootDirs(S) == \A a \in Addresses : S[a].dir => a[1] = Free /\ S[a].first # Free

(* Which operations come to which steps.                                   *)
InPhase(k) ==
    \/ k.op = "none" /\ k.pc = "idle"
    \/ k.op \in {"write", "create_dir"} /\ k.pc \in {"data", "claim", "entry", "flush"}
    \/ k.op = "remove_file" /\ k.pc \in {"free", "unlink", "flush"}
    \/ k.op = "remove" /\ k.pc \in {"unlink", "flush"}
    \/ k.op = "rename" /\ k.pc \in {"entry", "unlink", "flush"}

(* The place for the entry is the root or a folder that is there.          *)
InFolder(S, k) ==
    /\ k.loc = Free \/ \E b \in Root : S[b].dir /\ k.loc = S[b].first
    /\ k.entry.dir => k.loc = Free
    /\ k.entry.name # None

(* The clusters of a file or folder being made end with `last', and have   *)
(* nothing in them that could be taken for an entry.                       *)
Prepares(T, S, k) ==
    /\ InFolder(S, k)
    /\ k.entry.dir <=> k.op = "create_dir"
    /\ \A a \in Addresses : a[1] \in Chain(T, k.entry.first) => S[a] = NoEntry
    /\ k.op = "write" /\ k.old # NoSlot => k.old \in LiveIn(T, S, k) /\ ~S[k.old].dir
    /\ k.pc # "entry" => IF k.entry.first = Free THEN k.last = Free
                         ELSE k.last \in Chain(T, k.entry.first) /\ T[k.last] = EOC
    /\ k.pc = "claim" => k.found \in Clusters /\ T[k.found] = Free
    /\ k.pc = "entry" /\ k.op = "create_dir" => k.entry.first # Free

(* An entry to be renamed is still where it was; then it is there twice.   *)
Renames(T, S, k) ==
    /\ InFolder(S, k)
    /\ k.old \in LiveIn(T, S, k)
    /\ k.entry.first = S[k.old].first /\ k.entry.dir = S[k.old].dir
Renamed(T, S, k) ==
    /\ k.old \in LiveIn(T, S, k)
    /\ \E v \in LiveIn(T, S, k) : v # k.old /\ S[v].first = S[k.old].first /\ S[v].dir = S[k.old].dir

(* One to be removed is there, and is what it was.                         *)
Removes(T, S, k) ==
    /\ k.old \in LiveIn(T, S, k)
    /\ k.entry = S[k.old]
    /\ k.op = "remove_file" => ~k.entry.dir

TaskOK(T, S, k) ==
    /\ InPhase(k)
    /\ Makes(k) => Prepares(T, S, k)
    /\ k.op = "rename" /\ k.pc = "entry" => Renames(T, S, k)
    /\ k.op = "rename" /\ k.pc = "unlink" => Renamed(T, S, k)
    /\ k.pc = "free" \/ (k.op = "remove" /\ k.pc = "unlink") => Removes(T, S, k)
    /\ k.op = "remove_file" /\ k.pc = "unlink" => k.old \in Addresses /\ ~S[k.old].dir

Good(T, S, k, L) ==
    /\ Typed(S, k) /\ RootDirs(S)
    /\ Books(T, StartsIn(T, S, k), L) /\ EntriesApart(T, S, k)
    /\ TaskOK(T, S, k)

(* The assumptions: one task changes the volume, and entries are deleted   *)
(* without an error once their clusters are free or have a new name.       *)
Alone == \E t : Tasks = {t}
NoLateFaults == "late" \notin Faults

FatInv == task \in [Tasks -> TaskRec] /\ \A t \in Tasks : Good(fat, slot, task[t], lost)

-----------------------------------------------------------------------------
(* Where entries are, after a step.                                        *)

(* The root has the addresses that belong to no cluster.                   *)
LEMMA RootIs ==
    /\ Root \subseteq Addresses
    /\ \A a \in Root : a[1] = Free
    /\ \A a \in Addresses : a[1] = Free => a \in Root
    /\ \A a \in Addresses : a[1] \in Clusters \cup {Free}
    /\ NoSlot \notin Addresses
BY ClustersAre DEF Root, Addresses, NoSlot, Free

(* A folder of the root is itself looked up.                               *)
LEMMA DirsLive ==
    ASSUME NEW T, NEW S, NEW k, NEW L, Good(T, S, k, L), NEW b \in Root, S[b].dir
    PROVE  /\ b \in LiveIn(T, S, k)
           /\ S[b].first \in StartsIn(T, S, k)
           /\ S[b].first # Free /\ Heads(T, S[b].first)
           /\ Makes(k) => S[b].first # k.entry.first
<1>1. b \in Addresses /\ b[1] = Free
  BY RootIs
<1>2. S[b] # NoEntry
  BY DEF NoEntry
<1>3. b \notin DoomedOf(k)
  BY DEF DoomedOf, Good, TaskOK
<1>4. b \in LiveIn(T, S, k)
  BY <1>1, <1>2, <1>3 DEF LiveIn, Space
<1>5. S[b].first # Free
  BY <1>1 DEF Good, RootDirs
<1>6. S[b].first \in StartsIn(T, S, k)
  BY <1>4 DEF StartsIn
<1>7. Heads(T, S[b].first)
  BY <1>5, <1>6 DEF Good, Books
<1>8. Makes(k) => S[b].first # k.entry.first
  BY <1>4, <1>5 DEF Good, EntriesApart
<1>. QED  BY <1>4, <1>5, <1>6, <1>7, <1>8

(* Entries are looked for in the same places as before, if the folders are *)
(* the same and have the same clusters.                                    *)
LEMMA SpaceSame ==
    ASSUME NEW T, NEW S, NEW U, NEW V,
           \A b \in Root : V[b].dir <=> S[b].dir,
           \A b \in Root : S[b].dir => V[b].first = S[b].first /\ Chain(U, S[b].first) = Chain(T, S[b].first)
    PROVE  Space(U, V) = Space(T, S)
BY DEF Space

(* No folder's chain has a free cluster.                                   *)
LEMMA SpaceInUse ==
    ASSUME NEW T, NEW S, NEW k, NEW L, Good(T, S, k, L), NEW f \in Clusters, T[f] = Free
    PROVE  f \notin Space(T, S)
<1>1. \A b \in Root : S[b].dir => f \notin Chain(T, S[b].first)
  BY DirsLive, BooksUnused DEF Good
<1>. QED  BY <1>1, ClustersAre DEF Space
-----------------------------------------------------------------------------
(* Steps that change neither the FAT nor an entry.                         *)

(* The task goes on, with the same chain being made, if one is.            *)
LEMMA StaysGood ==
    ASSUME NEW T, NEW S, NEW k, NEW L, Good(T, S, k, L),
           NEW m \in TaskRec, DoomedOf(m) = DoomedOf(k),
           \A h : h # Free => ((Makes(m) /\ h = m.entry.first) <=> (Makes(k) /\ h = k.entry.first)),
           ~(k.op = "rename" /\ k.pc = "unlink"),
           TaskOK(T, S, m)
    PROVE  Good(T, S, m, L)
<1>1. LiveIn(T, S, m) = LiveIn(T, S, k)
  BY DEF LiveIn
<1>2. \A h : h # Free => (h \in StartsIn(T, S, k) <=> h \in StartsIn(T, S, m))
  BY <1>1 DEF StartsIn
<1>3. Books(T, StartsIn(T, S, m), L)
  BY <1>2, BooksSame DEF Good
<1>4. EntriesApart(T, S, m)
  BY <1>1 DEF Good, EntriesApart
<1>. QED  BY <1>3, <1>4 DEF Good, Typed

(* A call begins: a file or folder has no clusters yet.                    *)
LEMMA BeginsGood ==
    ASSUME NEW T, NEW S, NEW L, Good(T, S, Idle, L),
           NEW m \in TaskRec, DoomedOf(m) = {}, Makes(m) => m.entry.first = Free,
           TaskOK(T, S, m)
    PROVE  Good(T, S, m, L)
<1>1. DoomedOf(Idle) = {} /\ ~Makes(Idle) /\ Idle.op = "none"
  BY DEF Idle, DoomedOf, Makes
<1>. QED  BY <1>1, StaysGood

(* A call is over.                                                         *)
LEMMA EndsGood ==
    ASSUME NEW T, NEW S, NEW k, NEW L, Good(T, S, k, L), ~Makes(k) \/ k.entry.first = Free,
           NEW m \in TaskRec, (m.pc = "flush" /\ InPhase(m)) \/ m = Idle,
           DoomedOf(k) = {}, ~(k.op = "rename" /\ k.pc = "unlink")
    PROVE  Good(T, S, m, L)
<1>1. DoomedOf(m) = {} /\ ~Makes(m) /\ TaskOK(T, S, m)
  BY DEF Idle, DoomedOf, Makes, TaskOK, InPhase
<1>. QED  BY <1>1, StaysGood
(* Entries are where they were if the folders' chains are the same.        *)
SameFolders(T, U, S) == \A b \in Root : S[b].dir => Chain(U, S[b].first) = Chain(T, S[b].first)

(* So the entries that are looked up are the same ones.                    *)
LEMMA LiveKept ==
    ASSUME NEW T, NEW S, NEW k, NEW U, NEW m,
           SameFolders(T, U, S), DoomedOf(m) = DoomedOf(k)
    PROVE  LiveIn(U, S, m) = LiveIn(T, S, k)
<1>1. Space(U, S) = Space(T, S)
  BY DEF Space, SameFolders
<1>. QED  BY <1>1 DEF LiveIn
-----------------------------------------------------------------------------
(* Clusters for a file or folder being made.                               *)

Firsts(T, S, k) == {S[a].first : a \in LiveIn(T, S, k)}

(* The chain being made is nobody's.                                       *)
LEMMA OthersFirst ==
    ASSUME NEW T, NEW S, NEW k, NEW L, Good(T, S, k, L), Makes(k)
    PROVE  /\ StartsIn(T, S, k) = Firsts(T, S, k) \cup {k.entry.first}
           /\ k.entry.first # Free => k.entry.first \notin Firsts(T, S, k)
           /\ \A b \in Root : S[b].dir => S[b].first \in Firsts(T, S, k)
BY DirsLive DEF StartsIn, Firsts, Good, EntriesApart

(* What is left to show once a call has only the FAT to write.             *)
LEMMA WindsUp ==
    ASSUME NEW T, NEW S, NEW k, NEW L, Good(T, S, k, L), NEW U, NEW M,
           Makes(k), SameFolders(T, U, S), Books(U, Firsts(T, S, k), M),
           NEW m \in TaskRec, m.pc = "flush", InPhase(m)
    PROVE  Good(U, S, m, M)
<1>1. DoomedOf(m) = {} /\ DoomedOf(k) = {} /\ ~Makes(m) /\ TaskOK(U, S, m)
  BY DEF DoomedOf, Makes, TaskOK, InPhase
<1>2. LiveIn(U, S, m) = LiveIn(T, S, k)
  BY <1>1, LiveKept
<1>3. StartsIn(U, S, m) = Firsts(T, S, k)
  BY <1>1, <1>2 DEF StartsIn, Firsts
<1>4. k.op # "rename"
  BY DEF Makes
<1>5. EntriesApart(U, S, m)
  BY <1>1, <1>2, <1>4 DEF Good, EntriesApart
<1>. QED  BY <1>1, <1>3, <1>5 DEF Good, Typed

(* The full disk: the chain is freed.                                      *)
LEMMA AllocateFailsGood ==
    ASSUME NEW T, NEW S, NEW k, NEW L, Good(T, S, k, L), Makes(k),
           NEW m \in TaskRec, m.pc = "flush", InPhase(m)
    PROVE  Good(Freed(T, Chain(T, k.entry.first)), S, m, L)
<1>. DEFINE H == StartsIn(T, S, k)
            D == {k.entry.first}
            U == Freed(T, Chain(T, k.entry.first))
<1>1. Chains(T, D) = Chain(T, k.entry.first)
  BY DEF Chains
<1>2. D \in SUBSET H
  BY OthersFirst
<1>3. Books(T, H, L)
  BY DEF Good
<1>4. Books(U, H \ D, L) /\ \A h \in H \ D : Chain(U, h) = Chain(T, h)
  <2>. HIDE DEF H, D
  <2>. QED  BY <1>1, <1>2, <1>3, BooksFreed
<1>5. SameFolders(T, U, S)
  <2>. HIDE DEF U
  <2>. QED  BY <1>4, DirsLive DEF SameFolders
<1>. HIDE DEF U
<1>6. Books(U, Firsts(T, S, k), L)
  <2>1. \A h : h # Free => (h \in H \ D <=> h \in Firsts(T, S, k))
    BY OthersFirst
  <2>. HIDE DEF H, D
  <2>. QED  BY <1>4, <2>1, BooksSame
<1>. QED  BY <1>5, <1>6, WindsUp DEF U
(* A chain of no entry's is given up.                                      *)
LEMMA GivesUpGood ==
    ASSUME NEW T, NEW S, NEW k, NEW L, Good(T, S, k, L), Makes(k),
           NEW m \in TaskRec, m.pc = "flush", InPhase(m)
    PROVE  Good(T, S, m, L \cup Chain(T, k.entry.first))
<1>. DEFINE H == StartsIn(T, S, k)
            h == k.entry.first
            M == L \cup Chain(T, h)
<1>1. Books(T, H, L)
  BY DEF Good
<1>2. h \in H
  BY OthersFirst
<1>3. Books(T, H \ {h}, M)
  <2>. HIDE DEF H, h
  <2>. QED  BY <1>1, <1>2, BooksGivenUp
<1>4. Books(T, Firsts(T, S, k), M)
  <2>1. \A g : g # Free => (g \in H \ {h} <=> g \in Firsts(T, S, k))
    BY OthersFirst
  <2>. HIDE DEF H, h, M
  <2>. QED  BY <1>3, <2>1, BooksSame
<1>5. SameFolders(T, T, S)
  BY DEF SameFolders
<1>. HIDE DEF M
<1>. QED  BY <1>4, <1>5, WindsUp DEF M

(* The found cluster is marked, and linked to what there is.               *)
Extends(T, U, last, f) ==
    /\ IsTable(U) /\ U[f] = EOC
    /\ last # Free => U[last] = f
    /\ \A x \in Clusters \ {f, last} : U[x] = T[x]
FirstOf(k) == IF k.entry.first = Free THEN k.found ELSE k.entry.first

(* The chain being made has one cluster more, and nothing else changes.    *)
LEMMA ClaimBooks ==
    ASSUME NEW T, NEW S, NEW k, NEW L, Good(T, S, k, L), Makes(k), k.pc = "claim",
           NEW U, Extends(T, U, k.last, k.found)
    PROVE  /\ Books(U, Firsts(T, S, k) \cup {FirstOf(k)}, L)
           /\ Chain(U, FirstOf(k)) = Chain(T, k.entry.first) \cup {k.found}
           /\ SameFolders(T, U, S)
           /\ FirstOf(k) # Free /\ FirstOf(k) \notin Firsts(T, S, k)
<1>. DEFINE H == StartsIn(T, S, k)
            first == FirstOf(k)
<1>. USE ClustersAre
<1>1. /\ Books(T, H, L) /\ Prepares(T, S, k)
      /\ k.found \in Clusters /\ T[k.found] = Free
  BY DEF Good, TaskOK, Prepares
<1>2. k.found \notin H
  BY <1>1, BooksUnused
<1>3. CASE k.entry.first = Free
  <2>1. k.last = Free
    BY <1>1, <1>3 DEF Prepares
  <2>2. \A x \in Clusters \ {k.found} : U[x] = T[x]
    BY <2>1 DEF Extends
  <2>3. /\ Books(U, H \cup {k.found}, L)
        /\ Chain(U, k.found) = {k.found}
        /\ \A h \in H : Chain(U, h) = Chain(T, h)
    <3>1. IsTable(U) /\ U[k.found] = EOC
      BY DEF Extends
    <3>. HIDE DEF H
    <3>. QED  BY <1>1, <2>2, <3>1, BooksNew
  <2>4. first = k.found
    BY <1>3 DEF FirstOf
  <2>5. Books(U, Firsts(T, S, k) \cup {first}, L)
    <3>1. \A h : h # Free => (h \in H \cup {k.found} <=> h \in Firsts(T, S, k) \cup {first})
      BY <1>3, <2>4, OthersFirst
    <3>. HIDE DEF H, first
    <3>. QED  BY <2>3, <3>1, BooksSame
  <2>6. Chain(T, k.entry.first) = {}
    BY <1>3, NoChain
  <2>7. SameFolders(T, U, S)
    BY <2>3, DirsLive DEF SameFolders
  <2>8. first # Free /\ first \notin Firsts(T, S, k)
    BY <1>1, <1>2, <2>4, OthersFirst
  <2>. HIDE DEF H, first
  <2>. QED  BY <2>3, <2>4, <2>5, <2>6, <2>7, <2>8 DEF first
<1>4. CASE k.entry.first # Free
  <2>1. k.last \in Chain(T, k.entry.first) /\ T[k.last] = EOC
    BY <1>1, <1>4 DEF Prepares
  <2>2. k.last # Free
    BY <2>1, ChainWithin
  <2>3. k.entry.first \in H
    BY OthersFirst
  <2>4. /\ Books(U, H, L)
        /\ Chain(U, k.entry.first) = Chain(T, k.entry.first) \cup {k.found}
        /\ \A h \in H \ {k.entry.first} : Chain(U, h) = Chain(T, h)
    <3>1. IsTable(U) /\ U[k.found] = EOC /\ U[k.last] = k.found /\ \A x \in Clusters \ {k.found, k.last} : U[x] = T[x]
      BY <2>2 DEF Extends
    <3>. HIDE DEF H
    <3>. QED  BY <1>1, <2>1, <2>3, <3>1, BooksGrown, SMTT(40)
  <2>5. first = k.entry.first
    BY <1>4 DEF FirstOf
  <2>6. Books(U, Firsts(T, S, k) \cup {first}, L)
    <3>1. H = Firsts(T, S, k) \cup {first}
      BY <2>5, OthersFirst
    <3>. HIDE DEF H, first
    <3>. QED  BY <2>4, <3>1
  <2>7. SameFolders(T, U, S)
    BY <2>4, DirsLive DEF SameFolders
  <2>8. first # Free /\ first \notin Firsts(T, S, k)
    BY <1>4, <2>5, OthersFirst
  <2>. HIDE DEF H, first
  <2>. QED  BY <2>4, <2>5, <2>6, <2>7, <2>8 DEF first
<1>. QED  BY <1>3, <1>4

(* The data are written: nothing in the cluster can be taken for an entry. *)
Cleared(S, f) == [a \in Addresses |-> IF a[1] = f THEN NoEntry ELSE S[a]]
Claims(k, m) ==
    /\ m.op = k.op /\ m.pc \in {"data", "entry"} /\ m.loc = k.loc /\ m.old = k.old
    /\ m.last = k.found /\ m.entry.first = FirstOf(k)
    /\ m.entry.dir = k.entry.dir /\ m.entry.name = k.entry.name

(* The task goes on with the longer chain.                                 *)
LEMMA ClaimGood ==
    ASSUME NEW T, NEW S, NEW k, NEW L, Good(T, S, k, L), Makes(k), k.pc = "claim",
           NEW U, Extends(T, U, k.last, k.found), NEW V, V = Cleared(S, k.found),
           NEW m \in TaskRec, Claims(k, m)
    PROVE  Good(U, V, m, L)
<1>. DEFINE first == FirstOf(k)
<1>. USE ClustersAre
<1>1. /\ Books(U, Firsts(T, S, k) \cup {first}, L)
      /\ Chain(U, first) = Chain(T, k.entry.first) \cup {k.found}
      /\ SameFolders(T, U, S)
      /\ first # Free /\ first \notin Firsts(T, S, k)
  BY ClaimBooks
<1>. HIDE DEF first
<1>2. Prepares(T, S, k) /\ k.found \in Clusters /\ T[k.found] = Free
  BY DEF Good, TaskOK, Prepares
<1>3. k.entry \in Entry /\ S \in [Addresses -> Entry]
  BY DEF Good, Typed, TaskRec
<1>4. m.entry.first = first /\ m.entry.dir = k.entry.dir /\ m.entry.name = k.entry.name
  BY DEF Claims, first
<1>5. k.found \notin Space(T, S)
  BY <1>2, SpaceInUse
<1>6. \A a \in Addresses : V[a] = IF a[1] = k.found THEN NoEntry ELSE S[a]
  BY DEF Cleared
<1>7. \A b \in Root : V[b] = S[b]
  BY <1>2, <1>6, RootIs
<1>8. Space(U, V) = Space(T, S)
  BY <1>1, <1>7 DEF Space, SameFolders
<1>9. DoomedOf(m) = {} /\ DoomedOf(k) = {} /\ Makes(m) /\ m.op = k.op
  BY DEF DoomedOf, Makes, Claims
<1>10. LiveIn(U, V, m) = LiveIn(T, S, k)
  <2>1. \A a \in Addresses : a[1] \in Space(T, S) => V[a] = S[a]
    BY <1>5, <1>6
  <2>. QED  BY <1>8, <1>9, <2>1 DEF LiveIn
<1>11. \A a \in LiveIn(T, S, k) : V[a] = S[a]
  BY <1>5, <1>6 DEF LiveIn
<1>12. Firsts(U, V, m) = Firsts(T, S, k)
  BY <1>10, <1>11 DEF Firsts
<1>13. StartsIn(U, V, m) = Firsts(T, S, k) \cup {first}
  BY <1>4, <1>9, <1>12 DEF StartsIn, Firsts
<1>14. EntriesApart(U, V, m)
  <2>1. \A a, b \in LiveIn(T, S, k) : a # b /\ S[a].first = S[b].first => S[a].first = Free
    <3>1. k.op # "rename"
      BY DEF Makes
    <3>. QED  BY <3>1 DEF Good, EntriesApart
  <2>2. \A a \in LiveIn(T, S, k) : first # S[a].first
    BY <1>1 DEF Firsts
  <2>. QED  BY <1>4, <1>10, <1>11, <2>1, <2>2 DEF EntriesApart
<1>15. Typed(V, m)
  <2>1. NoEntry \in Entry
    BY DEF NoEntry, Entry
  <2>. QED  BY <1>3, <2>1 DEF Typed, Cleared
<1>16. RootDirs(V)
  <2>1. ~NoEntry.dir
    BY DEF NoEntry
  <2>. QED  BY <1>6, <2>1 DEF Good, RootDirs
<1>17. Prepares(U, V, m)
  <2>1. InFolder(V, m)
    <3>1. m.loc = k.loc
      BY DEF Claims
    <3>. QED  BY <1>2, <1>4, <1>7, <3>1 DEF Prepares, InFolder
  <2>2. \A a \in Addresses : a[1] \in Chain(U, m.entry.first) => V[a] = NoEntry
    BY <1>1, <1>2, <1>4, <1>6 DEF Prepares
  <2>3. m.op = "write" /\ m.old # NoSlot => m.old \in LiveIn(U, V, m) /\ ~V[m.old].dir
    BY <1>2, <1>10, <1>11 DEF Prepares, Claims
  <2>4. m.last \in Chain(U, m.entry.first) /\ U[m.last] = EOC
    BY <1>1, <1>4 DEF Extends, Claims
  <2>5. m.entry.dir <=> m.op = "create_dir"
    BY <1>2, <1>4, <1>9 DEF Prepares
  <2>6. m.pc # "claim" /\ m.entry.first # Free
    BY <1>1, <1>4 DEF Claims
  <2>. QED  BY <2>1, <2>2, <2>3, <2>4, <2>5, <2>6 DEF Prepares
<1>18. TaskOK(U, V, m)
  BY <1>9, <1>17 DEF TaskOK, InPhase, Makes
<1>. QED  BY <1>1, <1>13, <1>14, <1>15, <1>16, <1>18 DEF Good

(* A failure when they are written: they are given up.                     *)
LEMMA ClaimFailsGood ==
    ASSUME NEW T, NEW S, NEW k, NEW L, Good(T, S, k, L), Makes(k), k.pc = "claim",
           NEW U, Extends(T, U, k.last, k.found),
           NEW m \in TaskRec, m.pc = "flush", InPhase(m)
    PROVE  Good(U, S, m, L \cup Chain(U, FirstOf(k)))
<1>. DEFINE first == FirstOf(k)
            H == Firsts(T, S, k) \cup {first}
            M == L \cup Chain(U, first)
<1>1. Books(U, H, L) /\ SameFolders(T, U, S) /\ first \notin Firsts(T, S, k)
  BY ClaimBooks
<1>2. Books(U, H \ {first}, M)
  <2>1. first \in H
    OBVIOUS
  <2>. HIDE DEF H, first
  <2>. QED  BY <1>1, <2>1, BooksGivenUp
<1>3. H \ {first} = Firsts(T, S, k)
  BY <1>1
<1>. HIDE DEF H, M, first
<1>. QED  BY <1>1, <1>2, <1>3, WindsUp DEF M, first
-----------------------------------------------------------------------------
(* An entry gets other contents, or is about to go: its chain is freed.    *)

(* The other entries have other chains.                                    *)
LEMMA OnlyOne ==
    ASSUME NEW T, NEW S, NEW k, NEW L, Good(T, S, k, L), ~(k.op = "rename" /\ k.pc = "unlink"),
           NEW o \in LiveIn(T, S, k)
    PROVE  \A a \in LiveIn(T, S, k) : a # o /\ S[a].first = S[o].first => S[a].first = Free
BY DEF Good, EntriesApart

(* An entry that is no folder: the folders' chains stay.                   *)
LEMMA FreesOne ==
    ASSUME NEW T, NEW S, NEW k, NEW L, Good(T, S, k, L), ~(k.op = "rename" /\ k.pc = "unlink"),
           NEW o \in LiveIn(T, S, k), ~S[o].dir,
           NEW U, U = Freed(T, Chain(T, S[o].first))
    PROVE  /\ Books(U, StartsIn(T, S, k) \ {S[o].first}, L)
           /\ SameFolders(T, U, S)
<1>. DEFINE H == StartsIn(T, S, k)
            D == {S[o].first}
<1>1. Chains(T, D) = Chain(T, S[o].first)
  BY DEF Chains
<1>2. D \in SUBSET H
  BY DEF StartsIn
<1>3. Books(T, H, L)
  BY DEF Good
<1>4. Books(U, H \ D, L) /\ \A h \in H \ D : Chain(U, h) = Chain(T, h)
  <2>. HIDE DEF H, D
  <2>. QED  BY <1>1, <1>2, <1>3, BooksFreed
<1>5. ASSUME NEW b \in Root, S[b].dir PROVE Chain(U, S[b].first) = Chain(T, S[b].first)
  <2>1. b \in LiveIn(T, S, k) /\ S[b].first \in H /\ S[b].first # Free
    BY <1>5, DirsLive
  <2>2. b # o
    BY <1>5
  <2>3. S[b].first \notin D
    BY <2>1, <2>2, OnlyOne
  <2>. QED  BY <1>4, <2>1, <2>3
<1>. QED  BY <1>4, <1>5 DEF SameFolders

(* write_file over an existing file: the entry has the new chain.          *)
LEMMA OverwriteGood ==
    ASSUME NEW T, NEW S, NEW k, NEW L, Good(T, S, k, L),
           k.pc = "entry", k.op = "write", k.old # NoSlot,
           NEW U, U = Freed(T, Chain(T, S[k.old].first)),
           NEW V, V = [S EXCEPT ![k.old] = k.entry],
           NEW m \in TaskRec, m.pc = "flush", InPhase(m)
    PROVE  Good(U, V, m, L)
<1>. DEFINE H == StartsIn(T, S, k)
            o == k.old
            A == LiveIn(T, S, k)
<1>1. Makes(k) /\ DoomedOf(k) = {} /\ DoomedOf(m) = {} /\ ~Makes(m) /\ TaskOK(U, V, m)
  BY DEF Makes, DoomedOf, TaskOK, InPhase
<1>2. Prepares(T, S, k)
  BY <1>1 DEF Good, TaskOK
<1>3. o \in A /\ ~S[o].dir /\ ~k.entry.dir /\ k.entry.name # None
  <2>1. ~(k.entry.dir)
    BY <1>2 DEF Prepares
  <2>. QED  BY <1>2, <2>1 DEF Prepares, InFolder
<1>4. S \in [Addresses -> Entry] /\ k.entry \in Entry
  BY DEF Good, Typed, TaskRec
<1>5. A \subseteq Addresses
  BY DEF LiveIn
<1>6. \A a \in Addresses : V[a] = IF a = o THEN k.entry ELSE S[a]
  BY <1>4
<1>7. Books(U, H \ {S[o].first}, L) /\ SameFolders(T, U, S)
  <2>. HIDE DEF H
  <2>. QED  BY <1>3, FreesOne DEF H
<1>8. Space(U, V) = Space(T, S)
  <2>1. \A b \in Root : b \in Addresses
    BY RootIs
  <2>2. \A b \in Root : (V[b].dir <=> S[b].dir) /\ (S[b].dir => V[b] = S[b])
    BY <1>3, <1>6, <2>1
  <2>. QED  BY <1>7, <2>2 DEF Space, SameFolders
<1>9. LiveIn(U, V, m) = A
  <2>1. k.entry # NoEntry
    BY <1>3 DEF NoEntry
  <2>2. \A a \in Addresses : V[a] = NoEntry <=> S[a] = NoEntry
    BY <1>3, <1>6, <2>1 DEF LiveIn
  <2>. QED  BY <1>1, <1>8, <2>2 DEF LiveIn
<1>10. \A a \in A : a # o => V[a] = S[a]
  BY <1>5, <1>6
<1>11. V[o] = k.entry
  BY <1>3, <1>5, <1>6
<1>. HIDE DEF A
<1>12. StartsIn(U, V, m) = {V[a].first : a \in A}
  BY <1>1, <1>9 DEF StartsIn
<1>13. \A a \in A : a # o /\ S[a].first = S[o].first => S[a].first = Free
  BY <1>1, <1>3, OnlyOne DEF A
<1>14. /\ H = {S[a].first : a \in A} \cup {k.entry.first}
       /\ k.entry.first # Free => \A a \in A : k.entry.first # S[a].first
  BY <1>1 DEF StartsIn, Good, EntriesApart, A
<1>15. \A h : h # Free => (h \in H \ {S[o].first} <=> h \in StartsIn(U, V, m))
  <2>. HIDE DEF H, o
  <2>1. ASSUME NEW h, h # Free, h \in H \ {S[o].first} PROVE h \in {V[a].first : a \in A}
    BY <1>3, <1>10, <1>11, <1>14, <2>1
  <2>2. ASSUME NEW h, h # Free, h \in {V[a].first : a \in A} PROVE h \in H \ {S[o].first}
    BY <1>3, <1>10, <1>11, <1>13, <1>14, <2>2
  <2>. QED  BY <1>12, <2>1, <2>2
<1>16. Books(U, StartsIn(U, V, m), L)
  <2>. HIDE DEF H, o
  <2>. QED  BY <1>7, <1>15, BooksSame
<1>17. EntriesApart(U, V, m)
  <2>1. \A a, b \in A : a # b /\ S[a].first = S[b].first => S[a].first = Free
    BY <1>1 DEF Good, EntriesApart, Makes, A
  <2>2. \A a, b \in A : a # b /\ V[a].first = V[b].first => V[a].first = Free
    <3>. HIDE DEF o
    <3>. QED  BY <1>10, <1>11, <1>14, <2>1
  <2>. QED  BY <1>1, <1>9, <2>2 DEF EntriesApart
<1>18. Typed(V, m)
  BY <1>4 DEF Typed
<1>19. RootDirs(V)
  BY <1>3, <1>6 DEF Good, RootDirs
<1>. QED  BY <1>1, <1>16, <1>17, <1>18, <1>19 DEF Good

(* remove_file frees first, and the entry is doomed.                       *)
LEMMA FreeFirstGood ==
    ASSUME NEW T, NEW S, NEW k, NEW L, Good(T, S, k, L), k.pc = "free",
           NEW U, U = Freed(T, Chain(T, k.entry.first)),
           NEW m \in TaskRec, m.op = k.op, m.pc = "unlink", m.old = k.old
    PROVE  Good(U, S, m, L)
<1>. DEFINE H == StartsIn(T, S, k)
            o == k.old
            A == LiveIn(T, S, k)
<1>1. k.op = "remove_file" /\ Removes(T, S, k)
  BY DEF Good, TaskOK, InPhase
<1>2. ~Makes(k) /\ DoomedOf(k) = {} /\ DoomedOf(m) = {o} /\ ~Makes(m)
  BY <1>1 DEF Makes, DoomedOf
<1>3. o \in A /\ ~S[o].dir /\ k.entry = S[o]
  BY <1>1 DEF Removes
<1>4. TaskOK(U, S, m)
  BY <1>1, <1>2, <1>3 DEF TaskOK, InPhase, LiveIn
<1>5. Books(U, H \ {S[o].first}, L) /\ SameFolders(T, U, S)
  <2>. HIDE DEF H
  <2>. QED  BY <1>1, <1>3, FreesOne DEF H
<1>6. Space(U, S) = Space(T, S)
  BY <1>5 DEF Space, SameFolders
<1>7. LiveIn(U, S, m) = A \ {o}
  BY <1>2, <1>6 DEF LiveIn
<1>8. \A a \in A : a # o /\ S[a].first = S[o].first => S[a].first = Free
  BY <1>1, <1>3, OnlyOne DEF A
<1>. HIDE DEF A, o
<1>9. \A h : h # Free => (h \in H \ {S[o].first} <=> h \in StartsIn(U, S, m))
  <2>1. StartsIn(U, S, m) = {S[a].first : a \in A \ {o}}
    BY <1>2, <1>7 DEF StartsIn
  <2>2. H = {S[a].first : a \in A}
    BY <1>2 DEF StartsIn, A
  <2>. QED  BY <1>3, <1>8, <2>1, <2>2
<1>10. Books(U, StartsIn(U, S, m), L)
  <2>. HIDE DEF H
  <2>. QED  BY <1>5, <1>9, BooksSame
<1>11. EntriesApart(U, S, m)
  <2>1. \A a, b \in A : a # b /\ S[a].first = S[b].first => S[a].first = Free
    BY <1>1 DEF Good, EntriesApart, A
  <2>. QED  BY <1>2, <1>7, <2>1 DEF EntriesApart
<1>. QED  BY <1>4, <1>10, <1>11 DEF Good, Typed
-----------------------------------------------------------------------------
(* An entry is placed.                                                     *)

PlacesEntry(k) == k.pc = "entry" /\ (k.op = "write" => k.old = NoSlot)
Placing(k, m) ==
    /\ m.op = k.op /\ m.old = k.old
    /\ m.pc = IF k.op = "rename" THEN "unlink" ELSE "flush"

(* The slot it goes to was not looked up before, and is now.               *)
Placed(T, S, k, U, V, m, v) ==
    /\ v \in Addresses /\ v \notin LiveIn(T, S, k) /\ V[v] = k.entry
    /\ LiveIn(U, V, m) = LiveIn(T, S, k) \cup {v}
    /\ \A a \in LiveIn(T, S, k) : V[a] = S[a]

(* The entry heads the chain being made, or, renamed, is there twice.      *)
LEMMA PlacedGood ==
    ASSUME NEW T, NEW S, NEW k, NEW L, Good(T, S, k, L), PlacesEntry(k),
           NEW m \in TaskRec, Placing(k, m), NEW U, NEW V, NEW v, Placed(T, S, k, U, V, m, v),
           Books(U, StartsIn(T, S, k), L), Typed(V, m), RootDirs(V)
    PROVE  Good(U, V, m, L)
<1>. DEFINE A == LiveIn(T, S, k)
            o == k.old
<1>1. /\ k.op \in {"write", "create_dir", "rename"}
      /\ Makes(k) <=> k.op # "rename"
      /\ ~Makes(m) /\ InPhase(m) /\ DoomedOf(m) = {}
  BY DEF Good, TaskOK, InPhase, PlacesEntry, Placing, Makes, DoomedOf
<1>2. /\ v \notin A /\ V[v] = k.entry /\ LiveIn(U, V, m) = A \cup {v}
      /\ \A a \in A : V[a] = S[a]
  BY DEF Placed
<1>3. StartsIn(U, V, m) = {S[a].first : a \in A} \cup {k.entry.first}
  <2>1. StartsIn(U, V, m) = {V[a].first : a \in A \cup {v}}
    BY <1>1, <1>2 DEF StartsIn
  <2>. HIDE DEF A
  <2>. QED  BY <1>2, <2>1
<1>4. \A a, b \in A : a # b /\ S[a].first = S[b].first => S[a].first = Free
  BY DEF Good, EntriesApart, PlacesEntry
<1>5. CASE k.op = "rename"
  <2>1. Renames(T, S, k)
    BY <1>5 DEF Good, TaskOK, PlacesEntry
  <2>2. o \in A /\ k.entry.first = S[o].first /\ k.entry.dir = S[o].dir
    BY <2>1 DEF Renames
  <2>3. StartsIn(U, V, m) = StartsIn(T, S, k)
    <3>1. StartsIn(T, S, k) = {S[a].first : a \in A}
      BY <1>1, <1>5 DEF StartsIn
    <3>. HIDE DEF A, o
    <3>. QED  BY <1>3, <2>2, <3>1
  <2>4. m.op = "rename" /\ m.pc = "unlink" /\ m.old = o
    BY <1>5 DEF Placing
  <2>5. EntriesApart(U, V, m)
    <3>. HIDE DEF A, o
    <3>1. \A a, b \in A \cup {v} : a # b /\ V[a].first = V[b].first /\ V[a].first # Free => o \in {a, b}
      BY <1>2, <1>4, <2>2
    <3>. QED  BY <1>1, <1>2, <2>4, <3>1 DEF EntriesApart
  <2>6. Renamed(U, V, m)
    <3>. HIDE DEF A, o
    <3>. QED  BY <1>2, <2>2, <2>4 DEF Renamed
  <2>7. TaskOK(U, V, m)
    BY <1>1, <2>4, <2>6 DEF TaskOK
  <2>. QED  BY <2>3, <2>5, <2>7 DEF Good
<1>6. CASE k.op # "rename"
  <2>1. /\ StartsIn(T, S, k) = {S[a].first : a \in A} \cup {k.entry.first}
        /\ k.entry.first # Free => \A a \in A : k.entry.first # S[a].first
    BY <1>1, <1>6 DEF StartsIn, Good, EntriesApart
  <2>2. m.op # "rename" /\ m.pc = "flush"
    BY <1>6 DEF Placing
  <2>3. EntriesApart(U, V, m)
    <3>. HIDE DEF A, o
    <3>1. \A a, b \in A \cup {v} : a # b /\ V[a].first = V[b].first => V[a].first = Free
      BY <1>2, <1>4, <2>1
    <3>. QED  BY <1>1, <1>2, <3>1 DEF EntriesApart
  <2>4. TaskOK(U, V, m)
    BY <1>1, <2>2 DEF TaskOK
  <2>. QED  BY <1>3, <2>1, <2>3, <2>4 DEF Good
<1>. QED  BY <1>5, <1>6

(* What is known of the entry and its place.                               *)
LEMMA PlacesWhere ==
    ASSUME NEW T, NEW S, NEW k, NEW L, Good(T, S, k, L), PlacesEntry(k)
    PROVE  /\ InFolder(S, k) /\ k.entry \in Entry /\ k.entry # NoEntry
           /\ S \in [Addresses -> Entry]
           /\ DoomedOf(k) = {}
           /\ k.entry.dir => k.loc = Free /\ k.entry.first # Free
           /\ k.entry.dir /\ k.op = "rename" =>
                  \E o \in LiveIn(T, S, k) : S[o].dir /\ S[o].first = k.entry.first
           /\ k.entry.dir /\ k.op # "rename" =>
                  \A a \in Addresses : a[1] \in Chain(T, k.entry.first) => S[a] = NoEntry
<1>1. k.entry \in Entry /\ S \in [Addresses -> Entry]
  BY DEF Good, Typed, TaskRec
<1>2. InFolder(S, k)
  BY DEF Good, TaskOK, InPhase, PlacesEntry, Makes, Prepares, Renames
<1>3. k.entry # NoEntry /\ (k.entry.dir => k.loc = Free)
  BY <1>2 DEF InFolder, NoEntry
<1>4. DoomedOf(k) = {}
  BY DEF PlacesEntry, DoomedOf
<1>5. CASE k.op = "rename"
  <2>1. Renames(T, S, k)
    BY <1>5 DEF Good, TaskOK, PlacesEntry
  <2>2. k.old \in LiveIn(T, S, k) /\ k.entry.first = S[k.old].first /\ k.entry.dir = S[k.old].dir
    BY <2>1 DEF Renames
  <2>3. S[k.old].dir => S[k.old].first # Free
    BY <2>2 DEF Good, RootDirs, LiveIn
  <2>. QED  BY <1>1, <1>2, <1>3, <1>4, <1>5, <2>2, <2>3
<1>6. CASE k.op # "rename"
  <2>1. Makes(k)
    BY <1>6 DEF Good, TaskOK, InPhase, PlacesEntry, Makes
  <2>2. Prepares(T, S, k)
    BY <2>1 DEF Good, TaskOK
  <2>3. k.entry.dir => k.op = "create_dir" /\ k.entry.first # Free
    BY <2>2 DEF Prepares, PlacesEntry
  <2>4. \A a \in Addresses : a[1] \in Chain(T, k.entry.first) => S[a] = NoEntry
    BY <2>2 DEF Prepares
  <2>. QED  BY <1>1, <1>2, <1>3, <1>4, <1>6, <2>3, <2>4
<1>. QED  BY <1>5, <1>6

(* In a vacant slot.                                                       *)
LEMMA PlaceEntryGood ==
    ASSUME NEW T, NEW S, NEW k, NEW L, Good(T, S, k, L), PlacesEntry(k),
           NEW m \in TaskRec, Placing(k, m),
           NEW v \in Addresses, S[v] = NoEntry, v[1] \in Space(T, S), k.loc = Free => v \in Root,
           NEW V, V = [S EXCEPT ![v] = k.entry]
    PROVE  Good(T, V, m, L)
<1>. DEFINE A == LiveIn(T, S, k)
            C == IF k.entry.dir THEN Chain(T, k.entry.first) ELSE {}
<1>1. /\ InFolder(S, k) /\ k.entry \in Entry /\ k.entry # NoEntry
      /\ S \in [Addresses -> Entry]
      /\ DoomedOf(k) = {}
      /\ k.entry.dir => k.loc = Free /\ k.entry.first # Free
      /\ k.entry.dir /\ k.op = "rename" =>
             \E o \in LiveIn(T, S, k) : S[o].dir /\ S[o].first = k.entry.first
      /\ k.entry.dir /\ k.op # "rename" =>
             \A a \in Addresses : a[1] \in Chain(T, k.entry.first) => S[a] = NoEntry
  BY PlacesWhere
<1>2. \A a \in Addresses : V[a] = IF a = v THEN k.entry ELSE S[a]
  BY <1>1
<1>3. v \notin A
  BY DEF LiveIn
<1>4. \A a \in A : V[a] = S[a]
  BY <1>2, <1>3 DEF LiveIn
<1>5. DoomedOf(m) = {}
  BY DEF DoomedOf, Placing, PlacesEntry
<1>6. ~NoEntry.dir
  BY DEF NoEntry
<1>7. \A b \in Root : b \in Addresses
  BY RootIs
<1>8. Space(T, V) = Space(T, S) \cup C
  <2>1. \A b \in Root : V[b].dir <=> S[b].dir \/ (b = v /\ k.entry.dir)
    BY <1>2, <1>6, <1>7
  <2>2. \A b \in Root : S[b].dir => V[b] = S[b]
    BY <1>2, <1>6, <1>7
  <2>3. k.entry.dir => v \in Root /\ V[v] = k.entry
    BY <1>1, <1>2
  <2>4. ASSUME NEW x, x \in Space(T, V) PROVE x \in Space(T, S) \cup C
    BY <1>2, <1>7, <2>1, <2>2, <2>4 DEF Space
  <2>5. ASSUME NEW x, x \in Space(T, S) PROVE x \in Space(T, V)
    BY <2>1, <2>2, <2>5 DEF Space
  <2>6. ASSUME NEW x, x \in C PROVE x \in Space(T, V)
    BY <2>1, <2>3, <2>6 DEF Space
  <2>. QED  BY <2>4, <2>5, <2>6
<1>9. \A a \in Addresses : S[a] # NoEntry /\ a[1] \in C => a[1] \in Space(T, S)
  <2>1. CASE ~k.entry.dir
    BY <2>1
  <2>2. CASE k.entry.dir /\ k.op # "rename"
    BY <1>1, <2>2
  <2>3. CASE k.entry.dir /\ k.op = "rename"
    <3>1. PICK o \in LiveIn(T, S, k) : S[o].dir /\ S[o].first = k.entry.first
      BY <1>1, <2>3
    <3>2. o \in Root
      BY <3>1, RootIs DEF Good, RootDirs, LiveIn
    <3>. QED  BY <3>1, <3>2, <2>3 DEF Space
  <2>. QED  BY <2>1, <2>2, <2>3
<1>10. LiveIn(T, V, m) = A \cup {v}
  <2>. HIDE DEF C
  <2>1. ASSUME NEW a \in Addresses PROVE a \in LiveIn(T, V, m) <=> a \in A \cup {v}
    <3>1. CASE a = v
      BY <1>1, <1>2, <1>5, <1>8, <3>1 DEF LiveIn
    <3>2. CASE a # v
      BY <1>1, <1>2, <1>5, <1>8, <1>9, <3>2 DEF LiveIn
    <3>. QED  BY <3>1, <3>2
  <2>2. A \cup {v} \subseteq Addresses /\ LiveIn(T, V, m) \subseteq Addresses
    BY DEF LiveIn
  <2>. QED  BY <2>1, <2>2
<1>11. Placed(T, S, k, T, V, m, v)
  BY <1>2, <1>3, <1>4, <1>10 DEF Placed
<1>12. Books(T, StartsIn(T, S, k), L)
  BY DEF Good
<1>13. Typed(V, m)
  BY <1>1 DEF Typed
<1>14. RootDirs(V)
  BY <1>1, <1>2, RootIs DEF Good, RootDirs
<1>. QED  BY <1>11, <1>12, <1>13, <1>14, PlacedGood
(* In a cluster more of the folder's.                                      *)
InNew(S, e, f) ==
    [a \in Addresses |-> IF a = <<f, 1>> THEN e ELSE IF a[1] = f THEN NoEntry ELSE S[a]]

(* There the entry is the first, and the rest of the cluster is empty.     *)
LEMMA PlaceInNewClusterGood ==
    ASSUME NEW T, NEW S, NEW k, NEW L, Good(T, S, k, L), PlacesEntry(k), k.loc # Free,
           NEW m \in TaskRec, Placing(k, m),
           NEW last \in Chain(T, k.loc), T[last] = EOC,
           NEW f \in Clusters, T[f] = Free,
           NEW U, IsTable(U), U[f] = EOC, U[last] = f, \A x \in Clusters \ {f, last} : U[x] = T[x],
           NEW V, V = InNew(S, k.entry, f)
    PROVE  Good(U, V, m, L)
<1>. DEFINE A == LiveIn(T, S, k)
            H == StartsIn(T, S, k)
            v == <<f, 1>>
<1>1. /\ InFolder(S, k) /\ k.entry \in Entry /\ k.entry # NoEntry
      /\ S \in [Addresses -> Entry]
      /\ DoomedOf(k) = {} /\ ~k.entry.dir
  BY PlacesWhere
<1>2. PICK b \in Root : S[b].dir /\ k.loc = S[b].first
  BY <1>1 DEF InFolder
<1>3. k.loc \in H
  BY <1>2, DirsLive
<1>4. /\ Books(U, H, L)
      /\ Chain(U, k.loc) = Chain(T, k.loc) \cup {f}
      /\ \A g \in H \ {k.loc} : Chain(U, g) = Chain(T, g)
  <2>1. Books(T, H, L)
    BY DEF Good
  <2>. DEFINE h == k.loc
  <2>2. /\ h \in H /\ last \in Chain(T, h) /\ T[last] = EOC
        /\ f \in Clusters /\ T[f] = Free /\ IsTable(U) /\ U[f] = EOC /\ U[last] = f
        /\ \A x \in Clusters \ {f, last} : U[x] = T[x]
    BY <1>3
  <2>3. /\ Books(U, H, L)
        /\ Chain(U, h) = Chain(T, h) \cup {f}
        /\ \A g \in H \ {h} : Chain(U, g) = Chain(T, g)
    <3>. HIDE DEF H, h
    <3>. QED  BY <2>1, <2>2, BooksGrown
  <2>. QED  BY <2>3
<1>5. v \in Addresses /\ v[1] = f
  BY Fat16Assumption DEF Addresses
<1>6. f \notin Space(T, S) /\ f # Free
  BY SpaceInUse, ClustersAre
<1>7. v \notin A
  BY <1>5, <1>6 DEF LiveIn
<1>. HIDE DEF v
<1>8. \A a \in Addresses : V[a] = IF a = v THEN k.entry ELSE IF a[1] = f THEN NoEntry ELSE S[a]
  BY DEF InNew, v
<1>9. \A a \in A : V[a] = S[a]
  BY <1>6, <1>7, <1>8 DEF LiveIn
<1>10. \A r \in Root : V[r] = S[r]
  BY <1>5, <1>6, <1>8, RootIs
<1>11. Space(U, V) = Space(T, S) \cup {f}
  <2>1. \A r \in Root : S[r].dir => S[r].first \in H
    BY DirsLive
  <2>2. \A r \in Root : S[r].dir =>
            Chain(U, S[r].first) = Chain(T, S[r].first) \cup (IF S[r].first = k.loc THEN {f} ELSE {})
    BY <1>4, <2>1
  <2>. HIDE DEF H
  <2>3. ASSUME NEW x, x \in Space(U, V) PROVE x \in Space(T, S) \cup {f}
    BY <1>10, <2>2, <2>3 DEF Space
  <2>4. ASSUME NEW x, x \in Space(T, S) PROVE x \in Space(U, V)
    BY <1>10, <2>2, <2>4 DEF Space
  <2>5. f \in Space(U, V)
    BY <1>2, <1>10, <2>2 DEF Space
  <2>. QED  BY <2>3, <2>4, <2>5
<1>12. DoomedOf(m) = {}
  BY DEF DoomedOf, Placing, PlacesEntry
<1>13. LiveIn(U, V, m) = A \cup {v}
  <2>1. ASSUME NEW a \in Addresses PROVE a \in LiveIn(U, V, m) <=> a \in A \cup {v}
    <3>1. CASE a = v
      BY <1>1, <1>5, <1>8, <1>11, <1>12, <3>1 DEF LiveIn
    <3>2. CASE a # v /\ a[1] = f
      BY <1>6, <1>8, <3>2 DEF LiveIn
    <3>3. CASE a[1] # f
      BY <1>1, <1>5, <1>8, <1>11, <1>12, <3>3 DEF LiveIn
    <3>. QED  BY <3>1, <3>2, <3>3
  <2>2. A \cup {v} \subseteq Addresses /\ LiveIn(U, V, m) \subseteq Addresses
    BY <1>5 DEF LiveIn
  <2>. QED  BY <2>1, <2>2
<1>14. Placed(T, S, k, U, V, m, v)
  BY <1>5, <1>7, <1>8, <1>9, <1>13 DEF Placed
<1>15. Typed(V, m)
  <2>1. NoEntry \in Entry
    BY DEF NoEntry, Entry
  <2>2. \A a \in Addresses : V[a] \in Entry
    BY <1>1, <1>8, <2>1
  <2>. QED  BY <2>2 DEF Typed, InNew
<1>16. RootDirs(V)
  <2>1. ~NoEntry.dir
    BY DEF NoEntry
  <2>. QED  BY <1>1, <1>8, <2>1 DEF Good, RootDirs
<1>. HIDE DEF H
<1>. QED  BY <1>4, <1>14, <1>15, <1>16, PlacedGood DEF H
-----------------------------------------------------------------------------
(* An entry is deleted.                                                    *)

(* remove: with it go the clusters of the folder and of all in it.         *)
TreeOf(T, S, e) ==
    Chain(T, e.first) \cup
    IF e.dir THEN UNION {Chain(T, S[a].first) : a \in {a \in Addresses : S[a] # NoEntry /\ a[1] \in Chain(T, e.first)}}
    ELSE {}

(* What is left has its own chains.                                        *)
LEMMA RemoveGood ==
    ASSUME NEW T, NEW S, NEW k, NEW L, Good(T, S, k, L), k.op = "remove", k.pc = "unlink",
           NEW U, U = Freed(T, TreeOf(T, S, k.entry)),
           NEW V, V = [S EXCEPT ![k.old] = NoEntry],
           NEW m \in TaskRec, m.pc = "flush", InPhase(m)
    PROVE  Good(U, V, m, L)
<1>. DEFINE A == LiveIn(T, S, k)
            H == StartsIn(T, S, k)
            o == k.old
            c == S[o].first
            within == {a \in A : S[o].dir /\ a[1] \in Chain(T, c)}
            D == {c} \cup {S[a].first : a \in within}
<1>1. ~Makes(k) /\ DoomedOf(k) = {} /\ DoomedOf(m) = {} /\ ~Makes(m) /\ TaskOK(U, V, m)
  BY DEF Makes, DoomedOf, TaskOK, InPhase
<1>2. Removes(T, S, k)
  BY DEF Good, TaskOK
<1>3. o \in A /\ k.entry = S[o] /\ o \in Addresses
  BY <1>2 DEF Removes, LiveIn
<1>4. S \in [Addresses -> Entry]
  BY DEF Good, Typed
<1>5. S[o].dir => o \in Root /\ c # Free
  BY <1>3, RootIs DEF Good, RootDirs
<1>6. \A a \in Addresses : V[a] = IF a = o THEN NoEntry ELSE S[a]
  BY <1>4
<1>7. H = {S[a].first : a \in A}
  BY <1>1 DEF StartsIn
<1>8. \A a \in Addresses : S[o].dir /\ S[a] # NoEntry /\ a[1] \in Chain(T, c) => a \in within
  BY <1>1, <1>3, <1>5 DEF LiveIn, Space
<1>9. D \in SUBSET H
  BY <1>3, <1>7
<1>10. Chains(T, D) = TreeOf(T, S, k.entry)
  <2>1. ASSUME NEW x, x \in Chains(T, D) PROVE x \in TreeOf(T, S, k.entry)
    BY <1>3, <2>1 DEF Chains, TreeOf, LiveIn
  <2>2. ASSUME NEW x, x \in TreeOf(T, S, k.entry) PROVE x \in Chains(T, D)
    BY <1>3, <1>8, <2>2 DEF Chains, TreeOf
  <2>. QED  BY <2>1, <2>2
<1>11. Books(U, H \ D, L) /\ \A h \in H \ D : Chain(U, h) = Chain(T, h)
  <2>1. Books(T, H, L)
    BY DEF Good
  <2>. HIDE DEF H, D
  <2>. QED  BY <1>9, <1>10, <2>1, BooksFreed
<1>12. \A a, b \in A : a # b /\ S[a].first = S[b].first => S[a].first = Free
  BY DEF Good, EntriesApart
<1>13. ASSUME NEW b \in Root, S[b].dir, b # o
       PROVE  /\ Chain(U, S[b].first) = Chain(T, S[b].first)
              /\ S[o].dir => Chain(T, S[b].first) \cap Chain(T, c) = {}
  <2>1. b \in A /\ S[b].first \in H /\ S[b].first # Free
    BY <1>13, DirsLive
  <2>2. S[b].first # c
    BY <1>3, <1>12, <1>13, <2>1
  <2>3. Free \notin Chain(T, c) /\ b[1] = Free
    BY RootIs, ChainWithin, ClustersAre
  <2>4. b \notin within
    BY <2>3
  <2>5. S[b].first \notin D
    <3>1. \A a \in within : a # b /\ a \in A
      BY <2>4
    <3>. HIDE DEF A, within
    <3>. QED  BY <1>12, <2>1, <2>2, <3>1
  <2>6. Chain(U, S[b].first) = Chain(T, S[b].first)
    BY <1>11, <2>1, <2>5
  <2>7. Chain(T, S[b].first) \cap Chain(T, c) = {}
    <3>1. c \in H /\ Books(T, H, L)
      BY <1>9 DEF Good
    <3>. HIDE DEF H, c
    <3>. QED  BY <2>1, <2>2, <3>1, BooksApart
  <2>. QED  BY <2>6, <2>7
<1>14. ~NoEntry.dir
  BY DEF NoEntry
<1>15. Space(U, V) = Space(T, S) \ (IF S[o].dir THEN Chain(T, c) ELSE {})
  <2>. HIDE DEF c
  <2>1. \A b \in Root : b \in Addresses
    BY RootIs
  <2>2. \A b \in Root : (V[b].dir <=> S[b].dir /\ b # o) /\ (b # o => V[b] = S[b])
    BY <1>6, <1>14, <2>1
  <2>3. Free \notin Chain(T, c)
    BY ChainWithin, ClustersAre
  <2>4. ASSUME NEW x, x \in Space(U, V)
        PROVE  x \in Space(T, S) /\ (S[o].dir => x \notin Chain(T, c))
    <3>1. CASE x = Free
      BY <2>3, <3>1 DEF Space
    <3>2. CASE x # Free
      <4>1. PICK b \in Root : V[b].dir /\ x \in Chain(U, V[b].first)
        BY <2>4, <3>2 DEF Space
      <4>2. S[b].dir /\ b # o /\ V[b] = S[b]
        BY <2>2, <4>1
      <4>3. x \in Chain(T, S[b].first)
        BY <1>13, <4>1, <4>2
      <4>4. S[o].dir => x \notin Chain(T, c)
        BY <1>13, <4>2, <4>3
      <4>. QED  BY <4>2, <4>3, <4>4 DEF Space
    <3>. QED  BY <3>1, <3>2
  <2>5. ASSUME NEW x, x \in Space(T, S), S[o].dir => x \notin Chain(T, c) PROVE x \in Space(U, V)
    <3>1. CASE x = Free
      BY <3>1 DEF Space
    <3>2. CASE x # Free
      <4>1. PICK b \in Root : S[b].dir /\ x \in Chain(T, S[b].first)
        BY <2>5, <3>2 DEF Space
      <4>2. b # o
        BY <2>5, <4>1 DEF c
      <4>3. x \in Chain(U, V[b].first) /\ V[b].dir
        BY <1>13, <2>2, <4>1, <4>2
      <4>. QED  BY <4>3 DEF Space
    <3>. QED  BY <3>1, <3>2
  <2>. QED  BY <2>4, <2>5
<1>16. LiveIn(U, V, m) = A \ ({o} \cup within)
  <2>1. ASSUME NEW a \in Addresses PROVE a \in LiveIn(U, V, m) <=> a \in A /\ a # o /\ a \notin within
    <3>. HIDE DEF c
    <3>. QED  BY <1>1, <1>6, <1>15 DEF LiveIn
  <2>2. A \subseteq Addresses /\ LiveIn(U, V, m) \subseteq Addresses
    BY DEF LiveIn
  <2>. HIDE DEF A, within
  <2>. QED  BY <2>1, <2>2
<1>17. within \subseteq A /\ A \subseteq Addresses
  BY DEF LiveIn
<1>. HIDE DEF A, within, o
<1>18. \A h : h # Free => (h \in H \ D <=> h \in StartsIn(U, V, m))
  <2>1. StartsIn(U, V, m) = {V[a].first : a \in A \ ({o} \cup within)}
    BY <1>1, <1>16 DEF StartsIn
  <2>2. \A a \in A \ ({o} \cup within) : V[a] = S[a]
    BY <1>6, <1>17
  <2>3. ASSUME NEW h, h # Free, h \in H \ D PROVE h \in StartsIn(U, V, m)
    BY <1>7, <2>1, <2>2, <2>3
  <2>4. ASSUME NEW h, h # Free, h \in StartsIn(U, V, m) PROVE h \in H \ D
    <3>1. PICK a \in A \ ({o} \cup within) : h = S[a].first
      BY <2>1, <2>2, <2>4
    <3>2. h \notin D
      BY <1>3, <1>12, <1>17, <2>4, <3>1
    <3>. QED  BY <1>7, <3>1, <3>2
  <2>. QED  BY <2>3, <2>4
<1>19. Books(U, StartsIn(U, V, m), L)
  <2>. HIDE DEF H, D
  <2>. QED  BY <1>11, <1>18, BooksSame
<1>20. EntriesApart(U, V, m)
  <2>1. \A a \in A \ ({o} \cup within) : V[a] = S[a]
    BY <1>6, <1>17
  <2>2. \A a, b \in LiveIn(U, V, m) : a # b /\ V[a].first = V[b].first => V[a].first = Free
    BY <1>12, <1>16, <2>1
  <2>. QED  BY <1>1, <2>2 DEF EntriesApart
<1>21. Typed(V, m)
  <2>1. NoEntry \in Entry
    BY DEF NoEntry, Entry
  <2>. QED  BY <1>4, <2>1 DEF Typed
<1>22. RootDirs(V)
  BY <1>6, <1>14 DEF Good, RootDirs
<1>. QED  BY <1>1, <1>19, <1>20, <1>21, <1>22 DEF Good
(* rename: the new entry stays.                                            *)
LEMMA RenameEndsGood ==
    ASSUME NEW T, NEW S, NEW k, NEW L, Good(T, S, k, L), k.op = "rename", k.pc = "unlink",
           NEW V, V = [S EXCEPT ![k.old] = NoEntry],
           NEW m \in TaskRec, m.pc = "flush", InPhase(m)
    PROVE  Good(T, V, m, L)
<1>. DEFINE A == LiveIn(T, S, k)
            o == k.old
<1>1. ~Makes(k) /\ DoomedOf(k) = {} /\ DoomedOf(m) = {} /\ ~Makes(m) /\ TaskOK(T, V, m)
  BY DEF Makes, DoomedOf, TaskOK, InPhase
<1>2. Renamed(T, S, k)
  BY DEF Good, TaskOK
<1>3. o \in A /\ o \in Addresses
  BY <1>2 DEF Renamed, LiveIn
<1>4. PICK v \in A : v # o /\ S[v].first = S[o].first /\ S[v].dir = S[o].dir
  BY <1>2 DEF Renamed
<1>5. S \in [Addresses -> Entry]
  BY DEF Good, Typed
<1>6. \A a \in Addresses : V[a] = IF a = o THEN NoEntry ELSE S[a]
  BY <1>5
<1>7. ~NoEntry.dir
  BY DEF NoEntry
<1>8. Space(T, V) = Space(T, S)
  <2>1. \A b \in Root : b \in Addresses
    BY RootIs
  <2>2. \A b \in Root : (V[b].dir <=> S[b].dir /\ b # o) /\ (b # o => V[b] = S[b])
    BY <1>6, <1>7, <2>1
  <2>3. S[o].dir => v \in Root
    BY <1>4, RootIs DEF Good, RootDirs, LiveIn
  <2>4. ASSUME NEW x, x \in Space(T, V) PROVE x \in Space(T, S)
    BY <2>2, <2>4 DEF Space
  <2>5. ASSUME NEW x, x \in Space(T, S) PROVE x \in Space(T, V)
    <3>1. CASE x = Free
      BY <3>1 DEF Space
    <3>2. CASE x # Free
      <4>1. PICK b \in Root : S[b].dir /\ x \in Chain(T, S[b].first)
        BY <2>5, <3>2 DEF Space
      <4>2. PICK d \in Root : d # o /\ S[d].dir /\ x \in Chain(T, S[d].first)
        <5>1. CASE b # o
          BY <4>1, <5>1
        <5>2. CASE b = o
          BY <1>4, <2>3, <4>1, <5>2
        <5>. QED  BY <5>1, <5>2
      <4>. QED  BY <2>2, <4>2 DEF Space
    <3>. QED  BY <3>1, <3>2
  <2>. QED  BY <2>4, <2>5
<1>9. LiveIn(T, V, m) = A \ {o}
  BY <1>1, <1>6, <1>8 DEF LiveIn
<1>10. \A a \in A \ {o} : V[a] = S[a]
  BY <1>6 DEF LiveIn
<1>11. StartsIn(T, V, m) = StartsIn(T, S, k)
  <2>1. StartsIn(T, V, m) = {V[a].first : a \in A \ {o}}
    BY <1>1, <1>9 DEF StartsIn
  <2>2. StartsIn(T, S, k) = {S[a].first : a \in A}
    BY <1>1 DEF StartsIn
  <2>. HIDE DEF A, o
  <2>3. {V[a].first : a \in A \ {o}} = {S[a].first : a \in A \ {o}}
    BY <1>10
  <2>4. {S[a].first : a \in A \ {o}} = {S[a].first : a \in A}
    BY <1>4
  <2>. QED  BY <2>1, <2>2, <2>3, <2>4
<1>12. Books(T, StartsIn(T, V, m), L)
  BY <1>11 DEF Good
<1>13. EntriesApart(T, V, m)
  <2>1. \A a, b \in A \ {o} : a # b /\ S[a].first = S[b].first => S[a].first = Free
    BY DEF Good, EntriesApart
  <2>2. \A a, b \in LiveIn(T, V, m) : a # b /\ V[a].first = V[b].first => V[a].first = Free
    <3>. HIDE DEF A, o
    <3>. QED  BY <1>9, <1>10, <2>1
  <2>. QED  BY <1>1, <2>2 DEF EntriesApart
<1>14. Typed(V, m)
  <2>1. NoEntry \in Entry
    BY DEF NoEntry, Entry
  <2>. QED  BY <1>5, <2>1 DEF Typed
<1>15. RootDirs(V)
  BY <1>6, <1>7 DEF Good, RootDirs
<1>. QED  BY <1>1, <1>12, <1>13, <1>14, <1>15 DEF Good

(* Some entries that nobody looks up are wiped.                            *)
LEMMA WipedGood ==
    ASSUME NEW T, NEW S, NEW k, NEW L, Good(T, S, k, L),
           NEW V, V \in [Addresses -> Entry],
           \A a \in Addresses : V[a] = S[a] \/ (V[a] = NoEntry /\ a \notin LiveIn(T, S, k)),
           ~Makes(k), ~(k.op = "rename" /\ k.pc = "unlink"), \A a \in DoomedOf(k) : V[a] = NoEntry,
           NEW m \in TaskRec, (m.pc = "flush" /\ InPhase(m)) \/ m = Idle
    PROVE  Good(T, V, m, L)
<1>. DEFINE A == LiveIn(T, S, k)
<1>1. DoomedOf(m) = {} /\ ~Makes(m) /\ TaskOK(T, V, m)
  BY DEF Idle, DoomedOf, Makes, TaskOK, InPhase
<1>2. ~NoEntry.dir
  BY DEF NoEntry
<1>3. \A b \in Root : V[b].dir => V[b] = S[b]
  BY <1>2, RootIs
<1>4. \A b \in Root : S[b].dir => V[b] = S[b]
  BY DirsLive, RootIs
<1>5. Space(T, V) = Space(T, S)
  BY <1>3, <1>4 DEF Space
<1>6. A \subseteq Addresses /\ \A a \in A : V[a] = S[a]
  BY DEF LiveIn
<1>7. LiveIn(T, V, m) = A
  <2>1. ASSUME NEW a \in Addresses PROVE a \in LiveIn(T, V, m) <=> a \in A
    BY <1>1, <1>5, <1>6 DEF LiveIn
  <2>2. LiveIn(T, V, m) \subseteq Addresses
    BY DEF LiveIn
  <2>. QED  BY <1>6, <2>1, <2>2
<1>8. StartsIn(T, V, m) = StartsIn(T, S, k)
  <2>1. StartsIn(T, V, m) = {V[a].first : a \in A}
    BY <1>1, <1>7 DEF StartsIn
  <2>2. StartsIn(T, S, k) = {S[a].first : a \in A}
    BY DEF StartsIn
  <2>. HIDE DEF A
  <2>. QED  BY <1>6, <2>1, <2>2
<1>9. Books(T, StartsIn(T, V, m), L)
  BY <1>8 DEF Good
<1>10. EntriesApart(T, V, m)
  <2>1. \A a, b \in A : a # b /\ S[a].first = S[b].first => S[a].first = Free
    BY DEF Good, EntriesApart
  <2>2. \A a, b \in LiveIn(T, V, m) : a # b /\ V[a].first = V[b].first => V[a].first = Free
    BY <1>6, <1>7, <2>1
  <2>. QED  BY <1>1, <2>2 DEF EntriesApart
<1>11. RootDirs(V)
  BY <1>2 DEF Good, RootDirs
<1>. QED  BY <1>1, <1>9, <1>10, <1>11 DEF Good, Typed

(* remove_file, at last, and the flush are such steps.                     *)
LEMMA RemoveFileEndsGood ==
    ASSUME NEW T, NEW S, NEW k, NEW L, Good(T, S, k, L), k.op = "remove_file", k.pc = "unlink",
           NEW V, V = [S EXCEPT ![k.old] = NoEntry],
           NEW m \in TaskRec, m.pc = "flush", InPhase(m)
    PROVE  Good(T, V, m, L)
<1>1. DoomedOf(k) = {k.old} /\ ~Makes(k)
  BY DEF DoomedOf, Makes
<1>2. k.old \in Addresses
  BY DEF Good, TaskOK
<1>3. S \in [Addresses -> Entry] /\ NoEntry \in Entry
  BY DEF Good, Typed, NoEntry, Entry
<1>4. \A a \in Addresses : V[a] = IF a = k.old THEN NoEntry ELSE S[a]
  BY <1>3
<1>5. V \in [Addresses -> Entry]
  BY <1>3
<1>6. \A a \in Addresses : V[a] = S[a] \/ (V[a] = NoEntry /\ a \notin LiveIn(T, S, k))
  BY <1>1, <1>4 DEF LiveIn
<1>7. \A a \in DoomedOf(k) : V[a] = NoEntry
  BY <1>1, <1>2, <1>4
<1>. QED  BY <1>1, <1>5, <1>6, <1>7, WipedGood

(* The flush forgets what was in free clusters, where nobody looks.        *)
LEMMA FlushGood ==
    ASSUME NEW T, NEW S, NEW k, NEW L, Good(T, S, k, L), k.pc = "flush",
           NEW C, \A c \in C : c \in Clusters /\ T[c] = Free,
           NEW V, V = [a \in Addresses |-> IF a[1] \in C THEN NoEntry ELSE S[a]],
           NEW m \in TaskRec, m = Idle
    PROVE  Good(T, V, m, L)
<1>1. DoomedOf(k) = {} /\ ~Makes(k)
  BY DEF DoomedOf, Makes
<1>2. S \in [Addresses -> Entry] /\ NoEntry \in Entry
  BY DEF Good, Typed, NoEntry, Entry
<1>3. \A a \in Addresses : V[a] = IF a[1] \in C THEN NoEntry ELSE S[a]
  OBVIOUS
<1>4. V \in [Addresses -> Entry]
  BY <1>2
<1>5. \A c \in C : c \notin Space(T, S)
  BY SpaceInUse
<1>6. \A a \in Addresses : V[a] = S[a] \/ (V[a] = NoEntry /\ a \notin LiveIn(T, S, k))
  BY <1>3, <1>5 DEF LiveIn
<1>. QED  BY <1>1, <1>4, <1>6, WipedGood
-----------------------------------------------------------------------------
(* The steps of the only task.                                             *)

(* What is good for the task is good.                                      *)
LEMMA OneTask ==
    ASSUME FatInv, Alone, NEW t \in Tasks,
           task' \in [Tasks -> TaskRec], Good(fat', slot', task'[t], lost')
    PROVE  FatInv'
BY DEF FatInv, Alone

(* The cluster found is free.                                              *)
LEMMA FirstFreeIs == Unclaimed # {} => FirstFree \in Clusters /\ fat[FirstFree] = Free
<1>. SUFFICES ASSUME Unclaimed # {} PROVE FirstFree \in Unclaimed
  BY DEF Unclaimed
<1>1. Unclaimed \in SUBSET Nat
  BY ClustersAre DEF Unclaimed
<1>2. PICK c \in Unclaimed : TRUE
  OBVIOUS
<1>3. \E m \in Unclaimed : \A d \in Unclaimed : m <= d
  BY <1>1, <1>2, Least
<1>. QED  BY <1>3 DEF FirstFree, Min

(* What Good says of the task.                                             *)
LEMMA TaskIs ==
    ASSUME FatInv, NEW t \in Tasks
    PROVE  /\ Good(fat, slot, task[t], lost)
           /\ task \in [Tasks -> TaskRec] /\ task[t] \in TaskRec /\ task[t].entry \in Entry
           /\ InPhase(task[t]) /\ TaskOK(fat, slot, task[t])
BY DEF FatInv, Good, TaskOK, TaskRec

(* A free cluster is found.                                                *)
LEMMA AllocateFindsInv ==
    ASSUME FatInv, Alone, NEW t \in Tasks, AllocateFinds(t)
    PROVE  FatInv'
<1>. DEFINE k == task[t]
            m == task'[t]
<1>1. Good(fat, slot, k, lost) /\ task \in [Tasks -> TaskRec] /\ k \in TaskRec /\ TaskOK(fat, slot, k) /\ InPhase(k)
  BY TaskIs
<1>2. /\ m = [k EXCEPT !.pc = "claim", !.found = FirstFree]
      /\ fat' = fat /\ slot' = slot /\ lost' = lost /\ k.pc = "data"
      /\ Unclaimed # {}
  BY <1>1 DEF AllocateFinds
<1>3. FirstFree \in Clusters /\ fat[FirstFree] = Free
  BY <1>2, FirstFreeIs
<1>4. m \in TaskRec
  BY <1>1, <1>2, <1>3, ZenonT(60) DEF TaskRec
<1>5. task' \in [Tasks -> TaskRec]
  BY <1>1, <1>4 DEF AllocateFinds
<1>6. /\ m.op = k.op /\ m.pc = "claim" /\ m.loc = k.loc /\ m.old = k.old /\ m.entry = k.entry
      /\ m.last = k.last /\ m.found = FirstFree
  BY <1>1, <1>2 DEF TaskRec
<1>. HIDE DEF m, k
<1>7. Makes(k) /\ Makes(m) /\ DoomedOf(m) = {} /\ DoomedOf(k) = {} /\ InPhase(m)
  BY <1>1, <1>2, <1>6 DEF InPhase, Makes, DoomedOf
<1>8. Prepares(fat, slot, m)
  <2>1. Prepares(fat, slot, k)
    BY <1>1, <1>7 DEF TaskOK
  <2>2. LiveIn(fat, slot, m) = LiveIn(fat, slot, k)
    BY <1>7 DEF LiveIn
  <2>. QED  BY <1>2, <1>3, <1>6, <2>1, <2>2 DEF Prepares, InFolder
<1>9. TaskOK(fat, slot, m)
  BY <1>6, <1>7, <1>8 DEF TaskOK, Makes
<1>10. \A h : (Makes(m) /\ h = m.entry.first) <=> (Makes(k) /\ h = k.entry.first)
  BY <1>6, <1>7
<1>11. Good(fat, slot, m, lost)
  BY <1>1, <1>2, <1>4, <1>7, <1>9, <1>10, StaysGood
<1>. QED  BY <1>2, <1>5, <1>11, OneTask DEF m

(* A step after which only the FAT is to be written.                       *)
LEMMA FailsTo ==
    ASSUME FatInv, NEW t \in Tasks, Fails(t) \/ Goes(t, "flush"), task[t].pc # "idle"
    PROVE  /\ task' \in [Tasks -> TaskRec] /\ task'[t] \in TaskRec
           /\ task'[t].pc = "flush" /\ InPhase(task'[t])
<1>1. task \in [Tasks -> TaskRec] /\ task[t] \in TaskRec /\ InPhase(task[t])
  BY TaskIs
<1>2. \/ task'[t] = [task[t] EXCEPT !.pc = "flush", !.failed = TRUE]
      \/ task'[t] = [task[t] EXCEPT !.pc = "flush"]
  BY <1>1 DEF Fails, Goes
<1>3. task'[t] \in TaskRec /\ task'[t].pc = "flush" /\ task'[t].op = task[t].op
  BY <1>1, <1>2, ZenonT(60) DEF TaskRec
<1>4. task' \in [Tasks -> TaskRec]
  BY <1>1, <1>3 DEF Fails, Goes
<1>. QED  BY <1>1, <1>3, <1>4 DEF InPhase

(* There is none.                                                          *)
LEMMA AllocateFailsInv ==
    ASSUME FatInv, Alone, NEW t \in Tasks, AllocateFails(t)
    PROVE  FatInv'
<1>. DEFINE k == task[t]
            m == task'[t]
<1>1. Good(fat, slot, k, lost) /\ InPhase(k)
  BY TaskIs
<1>2. /\ k.pc = "data" /\ Fails(t)
      /\ fat' = Freed(fat, Chain(fat, k.entry.first)) /\ slot' = slot /\ lost' = lost
  BY DEF AllocateFails
<1>3. task' \in [Tasks -> TaskRec] /\ m \in TaskRec /\ m.pc = "flush" /\ InPhase(m)
  BY <1>2, FailsTo
<1>. HIDE DEF m, k
<1>4. Makes(k)
  BY <1>1, <1>2 DEF InPhase, Makes
<1>5. Good(fat', slot', m, lost')
  BY <1>1, <1>2, <1>3, <1>4, AllocateFailsGood
<1>. QED  BY <1>3, <1>5, OneTask DEF m
(* The cluster marked by the only task.                                    *)
LEMMA ClaimedIs ==
    ASSUME FatInv, NEW t \in Tasks, task[t].pc = "claim"
    PROVE  Extends(fat, Claimed(t), task[t].last, task[t].found)
<1>. DEFINE k == task[t]
<1>. USE ClustersAre
<1>1. Good(fat, slot, k, lost) /\ TaskOK(fat, slot, k) /\ InPhase(k) /\ k.pc = "claim"
  BY TaskIs
<1>2. Prepares(fat, slot, k)
  BY <1>1 DEF InPhase, Makes, TaskOK
<1>3. k.found \in Clusters /\ fat[k.found] = Free
  BY <1>1, <1>2 DEF Prepares
<1>4. k.last # Free => k.last \in Clusters /\ fat[k.last] = EOC
  BY <1>1, <1>2, ChainWithin DEF Prepares
<1>5. IsTable(fat)
  BY <1>1 DEF Good, Books, Sane
<1>6. \A c \in Clusters : Claimed(t)[c] = IF c = k.found THEN EOC ELSE IF c = k.last THEN k.found ELSE fat[c]
  BY DEF Claimed
<1>7. IsTable(Claimed(t))
  <2>1. \A c \in Clusters : Claimed(t)[c] \in Clusters \cup {Free, EOC}
    BY <1>3, <1>5, <1>6 DEF IsTable
  <2>. QED  BY <2>1 DEF IsTable, Claimed
<1>8. k.last # Free => k.last # k.found
  BY <1>3, <1>4
<1>. HIDE DEF k
<1>9. Extends(fat, Claimed(t), k.last, k.found)
  BY <1>3, <1>4, <1>6, <1>7, <1>8 DEF Extends
<1>. QED  BY <1>9 DEF k

(* The cluster is marked, linked and written.                              *)
LEMMA ClaimInv ==
    ASSUME FatInv, Alone, NEW t \in Tasks, Claim(t)
    PROVE  FatInv'
<1>. DEFINE k == task[t]
            m == task'[t]
<1>. USE ClustersAre
<1>1. /\ Good(fat, slot, k, lost) /\ InPhase(k) /\ TaskOK(fat, slot, k)
      /\ task \in [Tasks -> TaskRec] /\ k \in TaskRec /\ k.entry \in Entry
  BY TaskIs
<1>2. /\ k.pc = "claim" /\ fat' = Claimed(t) /\ slot' = Cleared(slot, k.found) /\ lost' = lost
  BY DEF Claim, Cleared
<1>3. Makes(k)
  BY <1>1, <1>2 DEF InPhase, Makes
<1>4. k.found \in Clusters
  BY <1>1, <1>2, <1>3 DEF TaskOK, Prepares
<1>5. PICK e, p, n : /\ task' = [task EXCEPT ![t] = [k EXCEPT !.todo = n, !.last = k.found, !.entry = e,
                                                              !.found = Free, !.pc = p]]
                     /\ e = [k.entry EXCEPT !.first = FirstOf(k)]
                     /\ p \in {"data", "entry"} /\ n = k.todo - 1
  <2>1. task' = [task EXCEPT ![t].todo = k.todo - 1, ![t].last = k.found,
                             ![t].entry.first = IF @ = Free THEN k.found ELSE @,
                             ![t].found = Free,
                             ![t].pc = IF k.todo - 1 = 0 THEN "entry" ELSE "data"]
    BY DEF Claim
  <2>. DEFINE p == IF k.todo - 1 = 0 THEN "entry" ELSE "data"
  <2>2. task' = [task EXCEPT ![t] = [k EXCEPT !.todo = k.todo - 1, !.last = k.found,
                                              !.entry = [k.entry EXCEPT !.first = FirstOf(k)],
                                              !.found = Free, !.pc = p]]
    BY <1>1, <2>1, ZenonT(60) DEF FirstOf
  <2>. QED  BY <2>2
<1>6. e \in Entry /\ e.first = FirstOf(k) /\ e.dir = k.entry.dir /\ e.name = k.entry.name
  BY <1>1, <1>4, <1>5 DEF Entry, FirstOf
<1>7. m = [k EXCEPT !.todo = n, !.last = k.found, !.entry = e, !.found = Free, !.pc = p]
  BY <1>1, <1>5
<1>8. m \in TaskRec
  <2>1. n \in Int
    BY <1>1, <1>5 DEF TaskRec
  <2>2. p \in {"idle", "data", "claim", "entry", "free", "unlink", "flush"}
    BY <1>5
  <2>. HIDE DEF m, k
  <2>. QED  BY <1>1, <1>4, <1>6, <1>7, <2>1, <2>2 DEF TaskRec
<1>9. task' \in [Tasks -> TaskRec]
  BY <1>1, <1>5, <1>7, <1>8
<1>10. Claims(k, m)
  <2>1. m.op = k.op /\ m.pc = p /\ m.loc = k.loc /\ m.old = k.old /\ m.last = k.found /\ m.entry = e
    BY <1>1, <1>7 DEF TaskRec
  <2>. QED  BY <1>5, <1>6, <2>1 DEF Claims
<1>11. Extends(fat, fat', k.last, k.found)
  BY <1>2, ClaimedIs
<1>. HIDE DEF m, k
<1>12. Good(fat', slot', m, lost')
  BY <1>1, <1>2, <1>3, <1>8, <1>10, <1>11, ClaimGood
<1>. QED  BY <1>9, <1>12, OneTask DEF m

(* The write fails.                                                        *)
LEMMA ClaimFailsInv ==
    ASSUME FatInv, Alone, NEW t \in Tasks, ClaimFails(t)
    PROVE  FatInv'
<1>. DEFINE k == task[t]
            m == task'[t]
<1>1. Good(fat, slot, k, lost) /\ InPhase(k)
  BY TaskIs
<1>2. /\ k.pc = "claim" /\ Fails(t)
      /\ fat' = Claimed(t) /\ slot' = slot /\ lost' = lost \cup Chain(fat', FirstOf(k))
  BY DEF ClaimFails, FirstOf
<1>3. task' \in [Tasks -> TaskRec] /\ m \in TaskRec /\ m.pc = "flush" /\ InPhase(m)
  BY <1>2, FailsTo
<1>4. Extends(fat, fat', k.last, k.found)
  BY <1>2, ClaimedIs
<1>. HIDE DEF m, k
<1>5. Makes(k)
  BY <1>1, <1>2 DEF InPhase, Makes
<1>6. Good(fat', slot', m, lost')
  BY <1>1, <1>2, <1>3, <1>4, <1>5, ClaimFailsGood
<1>. QED  BY <1>3, <1>6, OneTask DEF m

(* An entry that cannot be written.                                        *)
LEMMA GivesUpInv ==
    ASSUME FatInv, Alone, NEW t \in Tasks, task[t].pc = "entry", GivesUp(t),
           fat' = fat, slot' = slot
    PROVE  FatInv'
<1>. DEFINE k == task[t]
            m == task'[t]
<1>1. Good(fat, slot, k, lost) /\ InPhase(k)
  BY TaskIs
<1>2. /\ Fails(t) /\ k.pc = "entry"
      /\ lost' = IF k.op = "rename" THEN lost ELSE lost \cup Chain(fat, k.entry.first)
  BY DEF GivesUp
<1>3. task' \in [Tasks -> TaskRec] /\ m \in TaskRec /\ m.pc = "flush" /\ InPhase(m)
  BY <1>2, FailsTo
<1>. HIDE DEF m, k
<1>4. CASE k.op = "rename"
  <2>1. ~Makes(k) /\ DoomedOf(k) = {}
    BY <1>2, <1>4 DEF Makes, DoomedOf
  <2>2. ~(k.op = "rename" /\ k.pc = "unlink")
    BY <1>2
  <2>3. Good(fat, slot, m, lost)
    BY <1>1, <1>3, <2>1, <2>2, EndsGood
  <2>. QED  BY <1>2, <1>3, <1>4, <2>3, OneTask DEF m
<1>5. CASE k.op # "rename"
  <2>1. Makes(k)
    BY <1>1, <1>2, <1>5 DEF InPhase, Makes
  <2>2. Good(fat, slot, m, lost \cup Chain(fat, k.entry.first))
    BY <1>1, <1>3, <2>1, GivesUpGood
  <2>. QED  BY <1>2, <1>3, <1>5, <2>2, OneTask DEF m
<1>. QED  BY <1>4, <1>5

(* The entry of a file that was there is written anew.                     *)
LEMMA OverwriteInv ==
    ASSUME FatInv, Alone, NEW t \in Tasks, Overwrite(t)
    PROVE  FatInv'
<1>. DEFINE k == task[t]
            m == task'[t]
<1>1. Good(fat, slot, k, lost)
  BY TaskIs
<1>2. /\ k.pc = "entry" /\ k.op = "write" /\ k.old # NoSlot /\ Goes(t, "flush")
      /\ fat' = Freed(fat, Chain(fat, slot[k.old].first))
      /\ slot' = [slot EXCEPT ![k.old] = k.entry] /\ lost' = lost
  BY DEF Overwrite
<1>3. task' \in [Tasks -> TaskRec] /\ m \in TaskRec /\ m.pc = "flush" /\ InPhase(m)
  BY <1>2, FailsTo
<1>. HIDE DEF m, k
<1>4. Good(fat', slot', m, lost')
  BY <1>1, <1>2, <1>3, OverwriteGood
<1>. QED  BY <1>3, <1>4, OneTask DEF m

(* remove_file frees the file's clusters.                                  *)
LEMMA FreeFirstInv ==
    ASSUME FatInv, Alone, NEW t \in Tasks, FreeFirst(t)
    PROVE  FatInv'
<1>. DEFINE k == task[t]
            m == task'[t]
<1>1. Good(fat, slot, k, lost) /\ task \in [Tasks -> TaskRec] /\ k \in TaskRec
  BY TaskIs
<1>2. /\ k.pc = "free" /\ task' = [task EXCEPT ![t] = [k EXCEPT !.pc = "unlink"]]
      /\ fat' = Freed(fat, Chain(fat, k.entry.first)) /\ slot' = slot /\ lost' = lost
  BY <1>1 DEF FreeFirst, Goes
<1>3. m = [k EXCEPT !.pc = "unlink"]
  BY <1>1, <1>2
<1>4. m \in TaskRec /\ m.op = k.op /\ m.pc = "unlink" /\ m.old = k.old
  BY <1>1, <1>3 DEF TaskRec
<1>5. task' \in [Tasks -> TaskRec]
  BY <1>1, <1>2, <1>3, <1>4
<1>. HIDE DEF m, k
<1>6. Good(fat', slot', m, lost')
  BY <1>1, <1>2, <1>4, FreeFirstGood
<1>. QED  BY <1>5, <1>6, OneTask DEF m
(* The slots of a folder that is there, or of the root, are looked at.     *)
LEMMA SlotsOfIs ==
    ASSUME NEW S, NEW loc, loc = Free \/ \E b \in Root : S[b].dir /\ loc = S[b].first
    PROVE  \A a \in SlotsOf(fat, loc) : /\ a \in Addresses /\ a[1] \in Space(fat, S)
                                        /\ loc = Free => a \in Root
<1>1. CASE loc = Free
  <2>1. SlotsOf(fat, loc) = Root
    BY <1>1 DEF SlotsOf, Root
  <2>. QED  BY <2>1, RootIs DEF Space
<1>2. CASE loc # Free
  <2>1. SlotsOf(fat, loc) = Chain(fat, loc) \X (1 .. Room)
    BY <1>2 DEF SlotsOf
  <2>2. Chain(fat, loc) \subseteq Clusters
    BY ChainWithin
  <2>3. Chain(fat, loc) \subseteq Space(fat, S)
    BY <1>2 DEF Space
  <2>. QED  BY <1>2, <2>1, <2>2, <2>3 DEF Addresses
<1>. QED  BY <1>1, <1>2

(* The first vacant slot is one.                                           *)
LEMMA FirstVacantIs ==
    ASSUME NEW loc, Vacant(loc) # {}
    PROVE  FirstVacant(loc) \in Vacant(loc)
<1>. DEFINE P == {Position(loc, a) : a \in Vacant(loc)}
<1>1. ASSUME NEW a \in Vacant(loc) PROVE Position(loc, a) \in Nat
  <2>1. a \in SlotsOf(fat, loc)
    BY DEF Vacant
  <2>2. CASE loc = Free
    <3>1. a[2] \in Nat
      BY <2>1, <2>2, Fat16Assumption DEF SlotsOf
    <3>. QED  BY <2>2, <3>1 DEF Position
  <2>3. CASE loc # Free
    <3>1. a[1] \in Chain(fat, loc) /\ a[2] \in Nat
      BY <2>1, <2>3, Fat16Assumption DEF SlotsOf
    <3>. DEFINE i == CHOOSE i \in 0 .. Cardinality(Clusters) : At(fat, loc, i) = a[1]
    <3>2. i \in 0 .. Cardinality(Clusters)
      BY <3>1 DEF Chain
    <3>3. i \in Nat /\ Room \in Nat
      BY <3>2, ClustersAre, Fat16Assumption
    <3>4. Position(loc, a) = Room * i + a[2]
      BY <2>3 DEF Position
    <3>. HIDE DEF i
    <3>5. Room * i \in Nat
      BY <3>3
    <3>. QED  BY <3>1, <3>4, <3>5
  <2>. QED  BY <2>2, <2>3
<1>2. P \in SUBSET Nat
  BY <1>1
<1>3. PICK a \in Vacant(loc) : TRUE
  OBVIOUS
<1>4. Position(loc, a) \in P
  OBVIOUS
<1>5. \E p \in P : \A q \in P : p <= q
  <2>. HIDE DEF P
  <2>. QED  BY <1>2, <1>4, Least
<1>6. \E b \in Vacant(loc) : \A d \in Vacant(loc) : Position(loc, b) <= Position(loc, d)
  BY <1>5
<1>. QED  BY <1>6 DEF FirstVacant

(* What follows once the entry is placed.                                  *)
LEMMA GoesOn ==
    ASSUME FatInv, NEW t \in Tasks, Places(t), Goes(t, AfterPlace(t))
    PROVE  /\ task' \in [Tasks -> TaskRec] /\ task'[t] \in TaskRec
           /\ PlacesEntry(task[t]) /\ Placing(task[t], task'[t])
<1>1. task \in [Tasks -> TaskRec] /\ task[t] \in TaskRec
  BY TaskIs
<1>2. AfterPlace(t) \in {"unlink", "flush"}
  BY DEF AfterPlace
<1>3. task'[t] = [task[t] EXCEPT !.pc = AfterPlace(t)]
  BY <1>1 DEF Goes
<1>4. task'[t] \in TaskRec
  BY <1>1, <1>2, <1>3 DEF TaskRec
<1>5. task' \in [Tasks -> TaskRec]
  BY <1>1, <1>4 DEF Goes
<1>6. PlacesEntry(task[t])
  BY DEF Places, PlacesEntry
<1>7. Placing(task[t], task'[t])
  BY <1>1, <1>3 DEF Placing, AfterPlace, TaskRec
<1>. QED  BY <1>4, <1>5, <1>6, <1>7

(* A new entry goes to the first vacant slot.                              *)
LEMMA PlaceEntryInv ==
    ASSUME FatInv, Alone, NEW t \in Tasks, PlaceEntry(t)
    PROVE  FatInv'
<1>. DEFINE k == task[t]
            m == task'[t]
            v == FirstVacant(k.loc)
<1>1. Good(fat, slot, k, lost)
  BY TaskIs
<1>2. /\ Places(t) /\ Goes(t, AfterPlace(t)) /\ Vacant(k.loc) # {}
      /\ slot' = [slot EXCEPT ![v] = k.entry] /\ fat' = fat /\ lost' = lost
  BY DEF PlaceEntry
<1>3. task' \in [Tasks -> TaskRec] /\ m \in TaskRec /\ PlacesEntry(k) /\ Placing(k, m)
  BY <1>2, GoesOn
<1>. HIDE DEF m, k
<1>4. InFolder(slot, k)
  BY <1>1, <1>3, PlacesWhere
<1>5. v \in SlotsOf(fat, k.loc) /\ slot[v] = NoEntry
  BY <1>2, FirstVacantIs DEF Vacant
<1>. HIDE DEF v
<1>6. v \in Addresses /\ v[1] \in Space(fat, slot) /\ (k.loc = Free => v \in Root)
  <2>1. k.loc = Free \/ \E b \in Root : slot[b].dir /\ k.loc = slot[b].first
    BY <1>4 DEF InFolder
  <2>. QED  BY <1>5, <2>1, SlotsOfIs
<1>7. Good(fat, slot', m, lost)
  BY <1>1, <1>2, <1>3, <1>5, <1>6, PlaceEntryGood
<1>. QED  BY <1>2, <1>3, <1>7, OneTask DEF m

(* The last cluster of a folder.                                           *)
LEMMA LastClusterIs ==
    ASSUME NEW k, Good(fat, slot, k, lost), InFolder(slot, k), k.loc # Free
    PROVE  LastCluster(k.loc) \in Chain(fat, k.loc) /\ fat[LastCluster(k.loc)] = EOC
<1>1. PICK b \in Root : slot[b].dir /\ k.loc = slot[b].first
  BY DEF InFolder
<1>2. Heads(fat, k.loc) /\ Sane(fat)
  BY <1>1, DirsLive DEF Good, Books
<1>3. \E x \in Chain(fat, k.loc) : fat[x] = EOC
  BY <1>2, ChainEnds
<1>. QED  BY <1>3 DEF LastCluster

(* It goes to a cluster that the folder gets for it.                       *)
LEMMA PlaceInNewClusterInv ==
    ASSUME FatInv, Alone, NEW t \in Tasks, PlaceInNewCluster(t)
    PROVE  FatInv'
<1>. DEFINE k == task[t]
            m == task'[t]
            f == FirstFree
            last == LastCluster(k.loc)
<1>1. Good(fat, slot, k, lost)
  BY TaskIs
<1>2. /\ Places(t) /\ Goes(t, AfterPlace(t)) /\ k.loc # Free /\ Unclaimed # {}
      /\ fat' = [fat EXCEPT ![last] = f, ![f] = EOC]
      /\ slot' = InNew(slot, k.entry, f) /\ lost' = lost
  BY DEF PlaceInNewCluster, Grown, InNew
<1>3. task' \in [Tasks -> TaskRec] /\ m \in TaskRec /\ PlacesEntry(k) /\ Placing(k, m)
  BY <1>2, GoesOn
<1>. HIDE DEF m, k
<1>4. f \in Clusters /\ fat[f] = Free
  BY <1>2, FirstFreeIs
<1>5. InFolder(slot, k)
  BY <1>1, <1>3, PlacesWhere
<1>6. last \in Chain(fat, k.loc) /\ fat[last] = EOC
  BY <1>1, <1>2, <1>5, LastClusterIs
<1>. HIDE DEF f, last
<1>7. last \in Clusters /\ last # f
  BY <1>4, <1>6, ChainWithin, ClustersAre
<1>8. IsTable(fat)
  BY <1>1 DEF Good, Books, Sane
<1>9. /\ fat'[f] = EOC /\ fat'[last] = f
      /\ \A x \in Clusters \ {f, last} : fat'[x] = fat[x]
  BY <1>2, <1>4, <1>7, <1>8 DEF IsTable
<1>10. IsTable(fat')
  BY <1>2, <1>4, <1>7, <1>8 DEF IsTable
<1>11. Good(fat', slot', m, lost)
  <2>1. /\ Good(fat, slot, k, lost) /\ PlacesEntry(k) /\ k.loc # Free
        /\ m \in TaskRec /\ Placing(k, m)
        /\ last \in Chain(fat, k.loc) /\ fat[last] = EOC
        /\ f \in Clusters /\ fat[f] = Free
        /\ IsTable(fat') /\ fat'[f] = EOC /\ fat'[last] = f
        /\ \A x \in Clusters \ {f, last} : fat'[x] = fat[x]
        /\ slot' = InNew(slot, k.entry, f)
    BY <1>1, <1>2, <1>3, <1>4, <1>6, <1>9, <1>10
  <2>. QED  BY <2>1, PlaceInNewClusterGood
<1>. QED  BY <1>2, <1>3, <1>11, OneTask DEF m
(* The tree of an entry that is in the root.                               *)
LEMMA TreeIs ==
    ASSUME NEW e, e.dir => e.first # Free
    PROVE  Tree(e) = TreeOf(fat, slot, e)
<1>1. CASE ~e.dir
  BY <1>1 DEF Tree, TreeOf
<1>2. CASE e.dir
  <2>. DEFINE E == EntriesIn(fat, e.first)
              B == {a \in Addresses : slot[a] # NoEntry /\ a[1] \in Chain(fat, e.first)}
  <2>1. SlotsOf(fat, e.first) = Chain(fat, e.first) \X (1 .. Room)
    BY <1>2 DEF SlotsOf
  <2>2. Chain(fat, e.first) \subseteq Clusters
    BY ChainWithin
  <2>3. ASSUME NEW f \in E PROVE \E a \in B : f = slot[a]
    BY <2>1, <2>2 DEF EntriesIn, Addresses
  <2>4. ASSUME NEW a \in B PROVE slot[a] \in E
    <3>1. a \in Chain(fat, e.first) \X (1 .. Room)
      BY <2>2, ClustersAre DEF Addresses
    <3>. QED  BY <2>1, <3>1 DEF EntriesIn
  <2>5. UNION {Chain(fat, f.first) : f \in E} = UNION {Chain(fat, slot[a].first) : a \in B}
    <3>. HIDE DEF E, B
    <3>. QED  BY <2>3, <2>4
  <2>. QED  BY <1>2, <2>5 DEF Tree, TreeOf
<1>. QED  BY <1>1, <1>2

(* An entry is deleted, and what remove is to free is freed.               *)
LEMMA UnlinkInv ==
    ASSUME FatInv, Alone, NEW t \in Tasks, Unlink(t)
    PROVE  FatInv'
<1>. DEFINE k == task[t]
            m == task'[t]
<1>1. Good(fat, slot, k, lost) /\ InPhase(k) /\ TaskOK(fat, slot, k)
  BY TaskIs
<1>2. /\ k.pc = "unlink" /\ Goes(t, "flush")
      /\ slot' = [slot EXCEPT ![k.old] = NoEntry] /\ lost' = lost
      /\ fat' = Freed(fat, IF k.op = "remove" THEN Tree(k.entry) ELSE {})
  BY DEF Unlink, Unlinked
<1>3. task' \in [Tasks -> TaskRec] /\ m \in TaskRec /\ m.pc = "flush" /\ InPhase(m)
  BY <1>2, FailsTo
<1>. HIDE DEF m, k
<1>4. CASE k.op = "remove"
  <2>1. k.entry = slot[k.old] /\ k.old \in Addresses
    BY <1>1, <1>2, <1>4 DEF TaskOK, Removes, LiveIn
  <2>2. k.entry.dir => k.entry.first # Free
    BY <1>1, <2>1 DEF Good, RootDirs
  <2>3. fat' = Freed(fat, TreeOf(fat, slot, k.entry))
    BY <1>2, <1>4, <2>2, TreeIs
  <2>4. Good(fat', slot', m, lost)
    BY <1>1, <1>2, <1>3, <1>4, <2>3, RemoveGood
  <2>. QED  BY <1>2, <1>3, <2>4, OneTask DEF m
<1>5. CASE k.op # "remove"
  <2>1. fat' = fat
    <3>1. fat \in [Clusters -> Clusters \cup {Free, EOC}]
      BY <1>1 DEF Good, Books, Sane, IsTable
    <3>2. fat' = Freed(fat, {})
      BY <1>2, <1>5
    <3>. QED  BY <3>1, <3>2 DEF Freed
  <2>2. k.op \in {"rename", "remove_file"}
    BY <1>1, <1>2, <1>5 DEF InPhase
  <2>3. CASE k.op = "rename"
    <3>1. Good(fat, slot', m, lost)
      BY <1>1, <1>2, <1>3, <2>3, RenameEndsGood
    <3>. QED  BY <1>2, <1>3, <2>1, <3>1, OneTask DEF m
  <2>4. CASE k.op = "remove_file"
    <3>1. Good(fat, slot', m, lost)
      BY <1>1, <1>2, <1>3, <2>4, RemoveFileEndsGood
    <3>. QED  BY <1>2, <1>3, <2>1, <3>1, OneTask DEF m
  <2>. QED  BY <2>2, <2>3, <2>4
<1>. QED  BY <1>4, <1>5

(* remove cannot delete the entry: nothing has changed.                    *)
LEMMA UnlinkFailsInv ==
    ASSUME FatInv, Alone, NoLateFaults, NEW t \in Tasks, UnlinkFails(t)
    PROVE  FatInv'
<1>. DEFINE k == task[t]
            m == task'[t]
<1>1. Good(fat, slot, k, lost)
  BY TaskIs
<1>2. /\ k.pc = "unlink" /\ Fails(t) /\ k.op = "remove"
      /\ fat' = fat /\ slot' = slot /\ lost' = lost
  BY DEF UnlinkFails, NoLateFaults
<1>3. task' \in [Tasks -> TaskRec] /\ m \in TaskRec /\ m.pc = "flush" /\ InPhase(m)
  BY <1>2, FailsTo
<1>. HIDE DEF m, k
<1>4. ~Makes(k) /\ DoomedOf(k) = {} /\ ~(k.op = "rename" /\ k.pc = "unlink")
  BY <1>2 DEF Makes, DoomedOf
<1>5. Good(fat, slot, m, lost)
  BY <1>1, <1>3, <1>4, EndsGood
<1>. QED  BY <1>2, <1>3, <1>5, OneTask DEF m

(* No task.                                                                *)
LEMMA IdleIs == Idle \in TaskRec /\ InPhase(Idle)
<1>1. NoEntry \in Entry
  BY DEF NoEntry, Entry
<1>. QED  BY <1>1 DEF Idle, TaskRec, InPhase

(* The FAT is written and the call is over.                                *)
LEMMA FlushInv ==
    ASSUME FatInv, Alone, NEW t \in Tasks, Flush(t)
    PROVE  FatInv'
<1>. DEFINE k == task[t]
            m == task'[t]
<1>1. Good(fat, slot, k, lost) /\ task \in [Tasks -> TaskRec]
  BY TaskIs
<1>2. /\ k.pc = "flush" /\ task' = [task EXCEPT ![t] = Idle]
      /\ slot' = [a \in Addresses |-> IF a[1] \in Forgotten THEN NoEntry ELSE slot[a]]
      /\ fat' = fat /\ lost' = lost
  BY DEF Flush, Forget
<1>3. m = Idle /\ m \in TaskRec /\ task' \in [Tasks -> TaskRec]
  BY <1>1, <1>2, IdleIs
<1>. HIDE DEF m, k
<1>4. \A c \in Forgotten : c \in Clusters /\ fat[c] = Free
  BY DEF Forgotten
<1>5. Good(fat, slot', m, lost)
  BY <1>1, <1>2, <1>3, <1>4, FlushGood
<1>. QED  BY <1>2, <1>3, <1>5, OneTask DEF m

(* The FAT is not written and the call is over all the same.               *)
LEMMA FlushFailsInv ==
    ASSUME FatInv, Alone, NEW t \in Tasks, FlushFails(t)
    PROVE  FatInv'
<1>. DEFINE k == task[t]
            m == task'[t]
<1>1. Good(fat, slot, k, lost) /\ task \in [Tasks -> TaskRec]
  BY TaskIs
<1>2. /\ k.pc = "flush" /\ task' = [task EXCEPT ![t] = Idle]
      /\ slot' = slot /\ fat' = fat /\ lost' = lost
  BY DEF FlushFails
<1>3. m = Idle /\ m \in TaskRec /\ task' \in [Tasks -> TaskRec]
  BY <1>1, <1>2, IdleIs
<1>. HIDE DEF m, k
<1>4. ~Makes(k) /\ DoomedOf(k) = {} /\ ~(k.op = "rename" /\ k.pc = "unlink")
  BY <1>2 DEF Makes, DoomedOf
<1>5. Good(fat, slot, m, lost)
  BY <1>1, <1>3, <1>4, EndsGood
<1>. QED  BY <1>2, <1>3, <1>5, OneTask DEF m
-----------------------------------------------------------------------------
(* A call begins.                                                          *)

(* The place of a path's last name is the root or a folder in it.          *)
LEMMA ResolvedTo ==
    ASSUME NEW path, NEW loc \in ResolveDir(fat, path)
    PROVE  /\ loc = Free \/ \E b \in Root : slot[b].dir /\ loc = slot[b].first
           /\ Len(path) = 1 => loc = Free
<1>1. CASE Len(path) = 1
  BY <1>1 DEF ResolveDir
<1>2. CASE Len(path) # 1
  <2>1. PICK e \in Folders(fat) : loc = e.first
    BY <1>2 DEF ResolveDir
  <2>2. e.dir /\ \E b \in Root : e = slot[b]
    BY <2>1 DEF Folders, EntriesIn, SlotsOf, Root
  <2>. QED  BY <1>2, <2>1, <2>2
<1>. QED  BY <1>1, <1>2

(* The last name of a path is a name.                                      *)
LEMMA LastIsName ==
    ASSUME NEW path \in Paths
    PROVE  Last(path) \in Names /\ Last(path) # None
<1>1. path \in Seq(Range(path)) /\ Len(path) \in 1 .. 2
  BY Fat16Assumption
<1>2. Len(path) \in DOMAIN path
  <2>. DEFINE R == Range(path)
  <2>1. path \in Seq(R)
    BY <1>1
  <2>. HIDE DEF R
  <2>. QED  BY <1>1, <2>1
<1>3. Last(path) \in Range(path)
  BY <1>2 DEF Last, Range
<1>4. Last(path) \in Names
  BY <1>3 DEF Names
<1>. QED  BY <1>4, Fat16Assumption

(* An entry found is one that is looked up.                                *)
LEMMA FoundIs ==
    ASSUME NEW path \in Paths, NEW loc \in ResolveDir(fat, path),
           NEW a \in FindSlots(fat, loc, Last(path)), NEW m, DoomedOf(m) = {}
    PROVE  a \in LiveIn(fat, slot, m) /\ a \in Addresses
<1>1. a \in SlotsOf(fat, loc) /\ slot[a].name = Last(path)
  BY DEF FindSlots
<1>2. slot[a] # NoEntry
  BY <1>1, LastIsName DEF NoEntry
<1>3. loc = Free \/ \E b \in Root : slot[b].dir /\ loc = slot[b].first
  BY ResolvedTo
<1>4. a \in Addresses /\ a[1] \in Space(fat, slot)
  BY <1>1, <1>3, SlotsOfIs
<1>. QED  BY <1>2, <1>4 DEF LiveIn

(* What the task is then.                                                  *)
Starting(m, op, loc, old, entry, pc) ==
    /\ m.op = op /\ m.loc = loc /\ m.old = old /\ m.entry = entry /\ m.pc = pc
    /\ m.last = Free
(* The task has begun, and nothing else has changed.                       *)
LEMMA BeginsTask ==
    ASSUME FatInv, Alone, NEW t \in Tasks, NEW op, NEW path \in Paths, NEW to \in Paths, NEW loc,
           NEW old, NEW entry, NEW todo, NEW pc, Begins(t, op, path, to, loc, old, entry, todo, pc),
           op \in {"write", "create_dir", "remove_file", "remove", "rename"},
           loc \in Clusters \cup {Free}, old \in Addresses \cup {NoSlot}, entry \in Entry,
           todo \in Int, pc \in {"data", "entry", "free", "unlink"}
    PROVE  /\ task' \in [Tasks -> TaskRec] /\ task'[t] \in TaskRec
           /\ Starting(task'[t], op, loc, old, entry, pc)
           /\ Good(fat, slot, Idle, lost)
           /\ fat' = fat /\ slot' = slot /\ lost' = lost
<1>1. task \in [Tasks -> TaskRec] /\ Good(fat, slot, Idle, lost)
  BY TaskIs DEF Begins
<1>2. /\ task' = [task EXCEPT ![t] = [Idle EXCEPT !.op = op, !.path = path, !.to = to, !.loc = loc,
                                      !.old = old, !.entry = entry, !.todo = todo, !.pc = pc]]
      /\ fat' = fat /\ slot' = slot /\ lost' = lost
  BY DEF Begins
<1>3. task'[t] = [Idle EXCEPT !.op = op, !.path = path, !.to = to, !.loc = loc,
                              !.old = old, !.entry = entry, !.todo = todo, !.pc = pc]
  BY <1>1, <1>2
<1>4. task'[t] = [op |-> op, pc |-> pc, path |-> path, to |-> to, loc |-> loc, old |-> old,
                  entry |-> entry, todo |-> todo, last |-> Free, found |-> Free, failed |-> FALSE]
  BY <1>3, ZenonT(60) DEF Idle
<1>5. Starting(task'[t], op, loc, old, entry, pc)
  BY <1>4 DEF Starting
<1>6. task'[t] \in TaskRec
  BY <1>4 DEF TaskRec
<1>7. task' \in [Tasks -> TaskRec]
  BY <1>1, <1>2, <1>3, <1>6
<1>. QED  BY <1>1, <1>2, <1>5, <1>6, <1>7

(* It is enough that its first step finds what it needs.                   *)
LEMMA BeginsInv ==
    ASSUME FatInv, Alone, NEW t \in Tasks, NEW m, m = task'[t],
           task' \in [Tasks -> TaskRec], m \in TaskRec, Good(fat, slot, Idle, lost),
           fat' = fat, slot' = slot, lost' = lost,
           DoomedOf(m) = {}, Makes(m) => m.entry.first = Free, TaskOK(fat, slot, m)
    PROVE  FatInv'
<1>1. Good(fat, slot, m, lost)
  BY BeginsGood
<1>. QED  BY <1>1, OneTask

(* The entry of a file or folder to be made has no clusters yet; that of a *)
(* file may take the place of another.                                     *)
Former(op, loc, path, old) ==
    old # NoSlot => op = "write" /\ old \in FindSlots(fat, loc, Last(path)) /\ ~slot[old].dir
(* So nothing is in its chain, and its place is there.                     *)
LEMMA BeginMakes ==
    ASSUME FatInv, Alone, NEW t \in Tasks, NEW path \in Paths, NEW op \in {"write", "create_dir"},
           NEW loc \in ResolveDir(fat, path), NEW old, NEW n \in Nat, NEW todo \in Nat,
           NEW pc \in {"data", "entry"}, NEW e,
           e = [name |-> Last(path), dir |-> op = "create_dir", first |-> Free, size |-> n],
           Begins(t, op, path, path, loc, old, e, todo, pc),
           Former(op, loc, path, old),
           op = "create_dir" => path \notin Files /\ pc = "data"
    PROVE  FatInv'
<1>. DEFINE m == task'[t]
<1>1. Good(fat, slot, task[t], lost)
  BY TaskIs
<1>2. loc = Free \/ \E b \in Root : slot[b].dir /\ loc = slot[b].first
  BY ResolvedTo
<1>3. slot \in [Addresses -> Entry]
  BY <1>1 DEF Good, Typed
<1>4. loc \in Clusters \cup {Free}
  BY <1>2, <1>3, RootIs DEF Entry
<1>5. op = "create_dir" => loc = Free
  BY ResolvedTo, Fat16Assumption
<1>6. DoomedOf(Idle) = {}
  BY DEF DoomedOf, Idle
<1>7. old \in Addresses \cup {NoSlot}
  BY <1>6, FoundIs DEF Former
<1>8. e \in Entry /\ e.name # None /\ e.first = Free /\ (e.dir <=> op = "create_dir")
  <2>1. Last(path) \in Names /\ Last(path) # None
    BY LastIsName
  <2>2. (op = "create_dir") \in BOOLEAN
    OBVIOUS
  <2>. QED  BY <2>1, <2>2 DEF Entry
<1>9. /\ task' \in [Tasks -> TaskRec] /\ m \in TaskRec
      /\ Starting(m, op, loc, old, e, pc)
      /\ Good(fat, slot, Idle, lost)
      /\ fat' = fat /\ slot' = slot /\ lost' = lost
  <2>. HIDE DEF m
  <2>1. todo \in Int /\ op \in {"write", "create_dir", "remove_file", "remove", "rename"}
        /\ pc \in {"data", "entry", "free", "unlink"}
    OBVIOUS
  <2>. QED  BY <1>4, <1>7, <1>8, <2>1, BeginsTask DEF m
<1>. HIDE DEF m
<1>10. m.op = op /\ m.loc = loc /\ m.old = old /\ m.entry = e /\ m.pc = pc /\ m.last = Free
  BY <1>9 DEF Starting
<1>11. Makes(m) /\ DoomedOf(m) = {} /\ InPhase(m)
  BY <1>10 DEF Makes, DoomedOf, InPhase
<1>12. InFolder(slot, m)
  BY <1>2, <1>5, <1>8, <1>10 DEF InFolder
<1>13. Chain(fat, Free) = {}
  BY NoChain, ClustersAre
<1>14. old # NoSlot => old \in LiveIn(fat, slot, m) /\ ~slot[old].dir /\ op = "write"
  BY <1>11, FoundIs DEF Former
<1>15. Prepares(fat, slot, m)
  BY <1>8, <1>10, <1>12, <1>13, <1>14 DEF Prepares
<1>16. TaskOK(fat, slot, m)
  BY <1>10, <1>11, <1>15 DEF TaskOK
<1>17. m.entry.first = Free
  BY <1>8, <1>10
<1>. QED  BY <1>9, <1>11, <1>16, <1>17, BeginsInv DEF m
(* write_file begins.                                                      *)
LEMMA BeginWriteInv ==
    ASSUME FatInv, Alone, NEW t \in Tasks, NEW path \in Paths, NEW n \in Sizes, BeginWrite(t, path, n)
    PROVE  FatInv'
<1>. DEFINE e == [name |-> Last(path), dir |-> FALSE, first |-> Free, size |-> n]
            pc == IF n = 0 THEN "entry" ELSE "data"
            op == "write"
<1>1. PICK loc \in ResolveDir(fat, path) :
          \E old \in IF FindSlots(fat, loc, Last(path)) = {} THEN {NoSlot} ELSE FindSlots(fat, loc, Last(path)) :
              /\ old # NoSlot => ~slot[old].dir
              /\ Begins(t, op, path, path, loc, old, e, n, pc)
  BY DEF BeginWrite
<1>2. PICK old \in IF FindSlots(fat, loc, Last(path)) = {} THEN {NoSlot} ELSE FindSlots(fat, loc, Last(path)) :
              /\ old # NoSlot => ~slot[old].dir
              /\ Begins(t, op, path, path, loc, old, e, n, pc)
  BY <1>1
<1>3. n \in Nat
  BY Fat16Assumption
<1>4. op \in {"write", "create_dir"} /\ pc \in {"data", "entry"} /\ op # "create_dir"
  OBVIOUS
<1>5. e = [name |-> Last(path), dir |-> op = "create_dir", first |-> Free, size |-> n]
  OBVIOUS
<1>6. Former(op, loc, path, old)
  BY <1>2 DEF Former
<1>. HIDE DEF e, pc, op
<1>. QED  BY <1>2, <1>3, <1>4, <1>5, <1>6, BeginMakes

(* create_dir begins.                                                      *)
LEMMA BeginCreateDirInv ==
    ASSUME FatInv, Alone, NEW t \in Tasks, NEW path \in Paths, path \notin Files, BeginCreateDir(t, path)
    PROVE  FatInv'
<1>. DEFINE e == [name |-> Last(path), dir |-> TRUE, first |-> Free, size |-> 0]
            pc == "data"
            op == "create_dir"
            n == 0
            todo == 1
            old == NoSlot
<1>1. PICK loc \in ResolveDir(fat, path) : Begins(t, op, path, path, loc, old, e, todo, pc)
  BY DEF BeginCreateDir
<1>2. /\ op \in {"write", "create_dir"} /\ pc \in {"data", "entry"} /\ pc = "data"
      /\ n \in Nat /\ todo \in Nat /\ old = NoSlot
  OBVIOUS
<1>3. e = [name |-> Last(path), dir |-> op = "create_dir", first |-> Free, size |-> n]
  OBVIOUS
<1>4. Former(op, loc, path, old)
  BY DEF Former
<1>. HIDE DEF e, pc, op, n, todo, old
<1>. QED  BY <1>1, <1>2, <1>3, <1>4, BeginMakes

(* An entry found to be removed.                                           *)
LEMMA BeginRemoves ==
    ASSUME FatInv, Alone, NEW t \in Tasks, NEW path \in Paths, NEW op, NEW pc,
           \/ op = "remove" /\ pc = "unlink"
           \/ op = "remove_file" /\ pc = "free",
           NEW old \in Lookup(fat, path), op = "remove_file" => ~slot[old].dir,
           Begins(t, op, path, path, Free, old, slot[old], 0, pc)
    PROVE  FatInv'
<1>. DEFINE m == task'[t]
            e == slot[old]
            todo == 0
<1>1. Good(fat, slot, task[t], lost)
  BY TaskIs
<1>2. PICK loc \in ResolveDir(fat, path) : old \in FindSlots(fat, loc, Last(path))
  BY DEF Lookup
<1>3. DoomedOf(Idle) = {}
  BY DEF DoomedOf, Idle
<1>4. old \in Addresses
  BY <1>2, <1>3, FoundIs
<1>5. e \in Entry
  BY <1>1, <1>4 DEF Good, Typed
<1>. HIDE DEF e
<1>6. /\ task' \in [Tasks -> TaskRec] /\ m \in TaskRec
      /\ Starting(m, op, Free, old, e, pc)
      /\ Good(fat, slot, Idle, lost)
      /\ fat' = fat /\ slot' = slot /\ lost' = lost
  <2>1. /\ todo \in Int /\ op \in {"write", "create_dir", "remove_file", "remove", "rename"}
        /\ pc \in {"data", "entry", "free", "unlink"} /\ Free \in Clusters \cup {Free}
        /\ old \in Addresses \cup {NoSlot}
        /\ Begins(t, op, path, path, Free, old, e, todo, pc)
    BY <1>4 DEF e
  <2>. HIDE DEF m, todo
  <2>. QED  BY <1>5, <2>1, BeginsTask DEF m
<1>. HIDE DEF m
<1>7. m.op = op /\ m.old = old /\ m.entry = e /\ m.pc = pc
  BY <1>6 DEF Starting
<1>8. ~Makes(m) /\ DoomedOf(m) = {} /\ InPhase(m) /\ m.op # "rename"
      /\ ~(m.op = "remove_file" /\ m.pc = "unlink")
  BY <1>7 DEF Makes, DoomedOf, InPhase
<1>9. old \in LiveIn(fat, slot, m)
  BY <1>2, <1>8, FoundIs
<1>10. Removes(fat, slot, m)
  BY <1>7, <1>9 DEF Removes, e
<1>11. TaskOK(fat, slot, m)
  BY <1>8, <1>10 DEF TaskOK
<1>. QED  BY <1>6, <1>8, <1>11, BeginsInv DEF m

(* remove_file begins.                                                     *)
LEMMA BeginRemoveFileInv ==
    ASSUME FatInv, Alone, NEW t \in Tasks, NEW path \in Paths, BeginRemoveFile(t, path)
    PROVE  FatInv'
BY BeginRemoves DEF BeginRemoveFile

(* remove begins.                                                          *)
LEMMA BeginRemoveInv ==
    ASSUME FatInv, Alone, NEW t \in Tasks, NEW path \in Paths, BeginRemove(t, path)
    PROVE  FatInv'
BY BeginRemoves DEF BeginRemove

(* rename begins.                                                          *)
LEMMA BeginRenameInv ==
    ASSUME FatInv, Alone, NEW t \in Tasks, NEW path \in Paths, NEW to \in Paths, BeginRename(t, path, to)
    PROVE  FatInv'
<1>. DEFINE m == task'[t]
            op == "rename"
            pc == "entry"
            todo == 0
<1>1. Good(fat, slot, task[t], lost)
  BY TaskIs
<1>2. PICK old \in Lookup(fat, path), loc \in ResolveDir(fat, to) :
           /\ slot[old].dir <=> to \notin Files
           /\ Begins(t, op, path, to, loc, old, [slot[old] EXCEPT !.name = Last(to)], todo, pc)
  BY DEF BeginRename
<1>. DEFINE e == [slot[old] EXCEPT !.name = Last(to)]
<1>3. PICK place \in ResolveDir(fat, path) : old \in FindSlots(fat, place, Last(path))
  BY DEF Lookup
<1>4. DoomedOf(Idle) = {}
  BY DEF DoomedOf, Idle
<1>5. old \in Addresses
  BY <1>3, <1>4, FoundIs
<1>6. slot \in [Addresses -> Entry] /\ slot[old] \in Entry
  BY <1>1, <1>5 DEF Good, Typed
<1>7. Last(to) \in Names /\ Last(to) # None
  BY LastIsName
<1>8. e \in Entry /\ e.name = Last(to) /\ e.first = slot[old].first /\ e.dir = slot[old].dir
  BY <1>6, <1>7 DEF Entry
<1>9. Begins(t, op, path, to, loc, old, e, todo, pc)
  BY <1>2
<1>. HIDE DEF e
<1>10. loc = Free \/ \E b \in Root : slot[b].dir /\ loc = slot[b].first
  BY ResolvedTo
<1>11. loc \in Clusters \cup {Free}
  BY <1>6, <1>10, RootIs DEF Entry
<1>12. e.dir => loc = Free
  BY <1>2, <1>8, ResolvedTo, Fat16Assumption
<1>13. /\ task' \in [Tasks -> TaskRec] /\ m \in TaskRec
       /\ Starting(m, op, loc, old, e, pc)
       /\ Good(fat, slot, Idle, lost)
       /\ fat' = fat /\ slot' = slot /\ lost' = lost
  <2>1. /\ todo \in Int /\ op \in {"write", "create_dir", "remove_file", "remove", "rename"}
        /\ pc \in {"data", "entry", "free", "unlink"} /\ old \in Addresses \cup {NoSlot}
    BY <1>5
  <2>. HIDE DEF m, op, pc, todo
  <2>. QED  BY <1>8, <1>9, <1>11, <2>1, BeginsTask DEF m
<1>. HIDE DEF m
<1>14. m.op = "rename" /\ m.loc = loc /\ m.old = old /\ m.entry = e /\ m.pc = "entry"
  BY <1>13 DEF Starting
<1>15. ~Makes(m) /\ DoomedOf(m) = {} /\ InPhase(m)
  BY <1>14 DEF Makes, DoomedOf, InPhase
<1>16. old \in LiveIn(fat, slot, m)
  BY <1>3, <1>15, FoundIs
<1>17. InFolder(slot, m)
  BY <1>7, <1>8, <1>10, <1>12, <1>14 DEF InFolder
<1>18. Renames(fat, slot, m)
  BY <1>8, <1>14, <1>16, <1>17 DEF Renames
<1>19. TaskOK(fat, slot, m)
  BY <1>14, <1>15, <1>18 DEF TaskOK
<1>. QED  BY <1>13, <1>15, <1>19, BeginsInv DEF m
-----------------------------------------------------------------------------
(* The invariant.                                                          *)

(* An empty volume is in order.                                            *)
LEMMA InitGood == FatInit => FatInv
<1>. SUFFICES ASSUME FatInit PROVE FatInv
  OBVIOUS
<1>. USE ClustersAre
<1>1. task \in [Tasks -> TaskRec] /\ \A t \in Tasks : task[t] = Idle
  BY IdleIs DEF FatInit
<1>2. \A a \in Addresses : slot[a] = NoEntry
  BY DEF FatInit
<1>3. NoEntry \in Entry /\ ~NoEntry.dir
  BY DEF NoEntry, Entry
<1>4. Typed(slot, Idle)
  BY <1>3, IdleIs DEF FatInit, Typed
<1>5. RootDirs(slot)
  BY <1>2, <1>3 DEF RootDirs
<1>6. LiveIn(fat, slot, Idle) = {} /\ ~Makes(Idle)
  BY <1>2 DEF LiveIn, Makes, Idle
<1>7. StartsIn(fat, slot, Idle) = {}
  BY <1>6 DEF StartsIn
<1>8. Books(fat, {}, lost)
  <2>1. \A c \in Clusters : fat[c] = Free
    BY DEF FatInit
  <2>2. Sane(fat)
    <3>1. IsTable(fat)
      BY DEF FatInit, IsTable
    <3>. QED  BY <2>1, <3>1 DEF Sane, Linked, OneWay
  <2>3. lost = {}
    BY DEF FatInit
  <2>. QED  BY <2>1, <2>2, <2>3 DEF Books, LostApart, Counted
<1>9. EntriesApart(fat, slot, Idle)
  BY <1>6 DEF EntriesApart
<1>10. TaskOK(fat, slot, Idle)
  BY <1>6, IdleIs DEF TaskOK, Idle
<1>11. Good(fat, slot, Idle, lost)
  BY <1>4, <1>5, <1>7, <1>8, <1>9, <1>10 DEF Good
<1>. QED  BY <1>1, <1>11 DEF FatInv

(* Every step of the only task leaves it in order.                         *)
LEMMA NextGood ==
    ASSUME FatInv, Alone, NoLateFaults, [FatNext]_fatVars
    PROVE  FatInv'
<1>1. CASE UNCHANGED fatVars
  BY <1>1 DEF fatVars, FatInv
<1>2. CASE FatNext
  <2>1. PICK t \in Tasks : Operation(t) \/ Allocate(t) \/ Place(t) \/ Change(t) \/ Commit(t)
    BY <1>2 DEF FatNext
  <2>2. CASE Operation(t)
    <3>1. PICK path \in Paths :
              \/ path \in Files /\ \E n \in Sizes : BeginWrite(t, path, n)
              \/ path \notin Files /\ BeginCreateDir(t, path)
              \/ BeginRemoveFile(t, path)
              \/ BeginRemove(t, path)
              \/ \E to \in Paths : BeginRename(t, path, to)
      BY <2>2 DEF Operation
    <3>. QED  BY <3>1, BeginWriteInv, BeginCreateDirInv, BeginRemoveFileInv, BeginRemoveInv, BeginRenameInv
  <2>3. CASE Allocate(t)
    BY <2>3, AllocateFindsInv, AllocateFailsInv, ClaimInv, ClaimFailsInv DEF Allocate
  <2>4. CASE Place(t)
    <3>1. CASE PlaceEntry(t)
      BY <3>1, PlaceEntryInv
    <3>2. CASE PlaceInNewCluster(t)
      BY <3>2, PlaceInNewClusterInv
    <3>3. CASE NoPlace(t)
      BY <3>3, GivesUpInv DEF NoPlace, Places
    <3>4. CASE PlaceFails(t)
      BY <3>4, GivesUpInv DEF PlaceFails, Places
    <3>. QED  BY <2>4, <3>1, <3>2, <3>3, <3>4 DEF Place
  <2>5. CASE Change(t)
    <3>1. CASE OverwriteFails(t)
      BY <3>1, GivesUpInv DEF OverwriteFails
    <3>. QED  BY <2>5, <3>1, OverwriteInv, FreeFirstInv, UnlinkInv, UnlinkFailsInv DEF Change
  <2>6. CASE Commit(t)
    BY <2>6, FlushInv, FlushFailsInv DEF Commit
  <2>. QED  BY <2>1, <2>2, <2>3, <2>4, <2>5, <2>6
<1>. QED  BY <1>1, <1>2
(* One task, and no entry that changes under it, keep the volume in order. *)
THEOREM VolumeIsInOrder == Alone /\ NoLateFaults => (FatSpec => []FatInv)
<1>. SUFFICES ASSUME Alone, NoLateFaults PROVE FatSpec => []FatInv
  OBVIOUS
<1>1. FatInv /\ [FatNext]_fatVars => FatInv'
  BY NextGood
<1>. QED  BY <1>1, InitGood, PTL DEF FatSpec

(* What Good says in the words of the model.                               *)
LEMMA OnVolume ==
    ASSUME FatInv, Alone
    PROVE  \E t \in Tasks :
               /\ Tasks = {t} /\ Good(fat, slot, task[t], lost)
               /\ LiveSlots = LiveIn(fat, slot, task[t])
               /\ Starts = StartsIn(fat, slot, task[t])
<1>1. PICK t : Tasks = {t}
  BY DEF Alone
<1>. DEFINE k == task[t]
<1>2. t \in Tasks /\ Good(fat, slot, k, lost)
  BY <1>1 DEF FatInv
<1>3. Doomed = DoomedOf(k)
  BY <1>1 DEF Doomed, DoomedOf
<1>4. ASSUME NEW a \in Addresses, slot[a] # NoEntry
      PROVE  (a[1] = Free \/ \E e \in Folders(fat) : a[1] \in Chain(fat, e.first)) <=> a[1] \in Space(fat, slot)
  <2>1. SlotsOf(fat, Free) = Root
    BY DEF SlotsOf, Root
  <2>2. ASSUME NEW e \in Folders(fat) PROVE \E b \in Root : slot[b].dir /\ e.first = slot[b].first
    BY <2>1 DEF Folders, EntriesIn
  <2>3. ASSUME NEW b \in Root, slot[b].dir PROVE slot[b] \in Folders(fat)
    <3>1. slot[b] # NoEntry
      BY <2>3 DEF NoEntry
    <3>. QED  BY <2>1, <2>3, <3>1 DEF Folders, EntriesIn
  <2>. QED  BY <2>2, <2>3 DEF Space
<1>5. LiveSlots = LiveIn(fat, slot, k)
  BY <1>3, <1>4 DEF LiveSlots, Live, LiveIn
<1>6. Starts = StartsIn(fat, slot, k)
  <2>1. {task[u].entry.first : u \in Making} = IF Makes(k) THEN {k.entry.first} ELSE {}
    BY <1>1 DEF Making, Makes
  <2>. HIDE DEF k
  <2>. QED  BY <1>5, <2>1 DEF Starts, StartsIn
<1>. QED  BY <1>1, <1>2, <1>5, <1>6

(* A cluster belongs to one file or folder at most, and their chains end.  *)
THEOREM NobodySharesClusters == Alone /\ NoLateFaults => (FatSpec => []ChainsApart)
<1>1. ASSUME FatInv, Alone PROVE ChainsApart
  <2>1. PICK t \in Tasks :
            /\ Tasks = {t} /\ Good(fat, slot, task[t], lost)
            /\ LiveSlots = LiveIn(fat, slot, task[t])
            /\ Starts = StartsIn(fat, slot, task[t])
    BY <1>1, OnVolume
  <2>2. Books(fat, Starts, lost) /\ EntriesApart(fat, slot, task[t])
    BY <2>1 DEF Good
  <2>3. ASSUME NEW c \in Starts \ {Free} PROVE At(fat, c, Cardinality(Clusters)) = EOC
    BY <2>2, ChainEnds DEF Books
  <2>4. ASSUME NEW c \in Starts, NEW d \in Starts, c # d PROVE Chain(fat, c) \cap Chain(fat, d) = {}
    BY <2>2, <2>4, BooksApart
  <2>5. ASSUME NEW a \in LiveSlots, NEW b \in LiveSlots,
               a # b, slot[a].first = slot[b].first, slot[a].first # Free
        PROVE  \E u \in Tasks : task[u].op = "rename" /\ task[u].old \in {a, b}
    BY <2>1, <2>2, <2>5 DEF EntriesApart
  <2>6. \A u, w \in Making : u = w
    BY <2>1 DEF Making
  <2>. QED  BY <2>3, <2>4, <2>5, <2>6 DEF ChainsApart
<1>. SUFFICES ASSUME Alone, NoLateFaults PROVE FatSpec => []ChainsApart
  OBVIOUS
<1>2. FatInv => ChainsApart
  BY <1>1
<1>3. FatSpec => []FatInv
  BY VolumeIsInOrder
<1>. QED  BY <1>2, <1>3, PTL

(* No cluster is lost to a call that succeeds, nor given away while it is  *)
(* in use.                                                                 *)
THEOREM NoClusterGoesMissing == Alone /\ NoLateFaults => (FatSpec => []Accounted)
<1>1. ASSUME FatInv, Alone PROVE Accounted
  <2>1. PICK t \in Tasks : Good(fat, slot, task[t], lost) /\ Starts = StartsIn(fat, slot, task[t])
    BY <1>1, OnVolume
  <2>2. Books(fat, Starts, lost)
    BY <2>1 DEF Good
  <2>. DEFINE held == UNION {Chain(fat, c) : c \in Starts}
  <2>3. \A x \in held : x \in Clusters /\ fat[x] # Free
    BY <2>2, BooksInUse
  <2>4. \A x \in lost : x \in Clusters /\ fat[x] # Free
    BY <2>2 DEF Books, LostApart
  <2>5. \A x \in Clusters : fat[x] # Free => x \in held \cup lost
    BY <2>2 DEF Books, Counted
  <2>6. held \cap lost = {}
    BY <2>2, BooksLost
  <2>7. {c \in Clusters : fat[c] # Free} = held \cup lost
    <3>. HIDE DEF held
    <3>. QED  BY <2>3, <2>4, <2>5
  <2>. QED  BY <2>6, <2>7 DEF Accounted
<1>. SUFFICES ASSUME Alone, NoLateFaults PROVE FatSpec => []Accounted
  OBVIOUS
<1>2. FatInv => Accounted
  BY <1>1
<1>3. FatSpec => []FatInv
  BY VolumeIsInOrder
<1>. QED  BY <1>2, <1>3, PTL
(* The FAT on the disk is one the memory held.                             *)
LinksInUse(table) == \A c \in Clusters : table[c] \in {Free, EOC} \cup {d \in Clusters : table[d] # Free}
DiskInv == LinksInUse(disk) /\ dirty \in BOOLEAN /\ unsaved \in BOOLEAN

(* The links of the FAT in memory lead to clusters in use.                 *)
LEMMA FatLinks ==
    ASSUME FatInv, Alone
    PROVE  LinksInUse(fat)
<1>1. PICK t \in Tasks : Good(fat, slot, task[t], lost)
  BY OnVolume
<1>. QED  BY <1>1 DEF Good, Books, Sane, IsTable, Linked, LinksInUse

OnlyInMemory == disk' = disk /\ dirty' = dirty /\ unsaved' = unsaved

(* Only a flush writes the FAT to the disk.                                *)
LEMMA NextDisk ==
    ASSUME FatInv, Alone, DiskInv, [FatNext]_fatVars
    PROVE  DiskInv'
<1>1. LinksInUse(fat)
  BY FatLinks
<1>2. (disk' = disk \/ disk' = fat) /\ dirty' \in BOOLEAN /\ unsaved' \in BOOLEAN
  <2>1. CASE UNCHANGED fatVars
    BY <2>1 DEF fatVars, DiskInv
  <2>2. ASSUME NEW t \in Tasks, Operation(t) PROVE disk' = disk /\ dirty' = dirty /\ unsaved' = unsaved
    <3>1. ASSUME NEW op, NEW path, NEW to, NEW loc, NEW old, NEW entry, NEW todo, NEW pc,
                 Begins(t, op, path, to, loc, old, entry, todo, pc)
          PROVE  OnlyInMemory
      BY <3>1 DEF Begins, OnlyInMemory
    <3>2. ASSUME NEW path, NEW n, BeginWrite(t, path, n) PROVE OnlyInMemory
      <4>1. \E loc, old :
                Begins(t, "write", path, path, loc, old,
                       [name |-> Last(path), dir |-> FALSE, first |-> Free, size |-> n], n,
                       IF n = 0 THEN "entry" ELSE "data")
        BY <3>2 DEF BeginWrite
      <4>. QED  BY <4>1, <3>1
    <3>3. ASSUME NEW path, BeginCreateDir(t, path) PROVE OnlyInMemory
      BY <3>3, <3>1 DEF BeginCreateDir
    <3>4. ASSUME NEW path, BeginRemoveFile(t, path) \/ BeginRemove(t, path) PROVE OnlyInMemory
      BY <3>4, <3>1 DEF BeginRemoveFile, BeginRemove
    <3>5. ASSUME NEW path, NEW to, BeginRename(t, path, to) PROVE OnlyInMemory
      BY <3>5, <3>1 DEF BeginRename
    <3>6. OnlyInMemory
      BY <2>2, <3>2, <3>3, <3>4, <3>5 DEF Operation
    <3>. QED  BY <3>6 DEF OnlyInMemory
  <2>3. ASSUME NEW t \in Tasks, Allocate(t) PROVE disk' = disk /\ dirty' \in BOOLEAN /\ unsaved' = unsaved
    BY <2>3 DEF Allocate, AllocateFinds, AllocateFails, Claim, ClaimFails, DiskInv
  <2>4. ASSUME NEW t \in Tasks, Place(t) PROVE disk' = disk /\ dirty' \in BOOLEAN /\ unsaved' = unsaved
    BY <2>4 DEF Place, PlaceEntry, PlaceInNewCluster, NoPlace, PlaceFails, DiskInv
  <2>5. ASSUME NEW t \in Tasks, Change(t) PROVE disk' = disk /\ dirty' \in BOOLEAN /\ unsaved' = unsaved
    BY <2>5 DEF Change, Overwrite, OverwriteFails, FreeFirst, Unlink, UnlinkFails, DiskInv
  <2>6. ASSUME NEW t \in Tasks, Commit(t)
        PROVE  (disk' = disk \/ disk' = fat) /\ dirty' \in BOOLEAN /\ unsaved' \in BOOLEAN
    BY <2>6 DEF Commit, Flush, FlushFails, DiskInv
  <2>. QED  BY <2>1, <2>2, <2>3, <2>4, <2>5, <2>6 DEF FatNext, DiskInv
<1>3. LinksInUse(disk')
  BY <1>1, <1>2 DEF DiskInv
<1>4. LinksInUse(disk)'
  BY <1>3 DEF LinksInUse
<1>. QED  BY <1>2, <1>4 DEF DiskInv

(* Every variable keeps its type, and every link of the FAT, in memory and *)
(* on the disk, leads to a cluster in use.                                 *)
THEOREM TypeCorrect == Alone /\ NoLateFaults => (FatSpec => []FatTypeOK)
<1>1. ASSUME FatInit PROVE DiskInv
  BY <1>1 DEF FatInit, DiskInv, LinksInUse
<1>2. ASSUME FatInv, DiskInv, Alone PROVE FatTypeOK
  <2>1. LinksInUse(fat)
    BY <1>2, FatLinks
  <2>2. PICK t \in Tasks : Tasks = {t} /\ Good(fat, slot, task[t], lost)
    BY <1>2, OnVolume
  <2>3. /\ \A a \in Addresses : slot[a] \in Entry
        /\ task[t].entry \in Entry /\ task[t].found \in Clusters \cup {Free}
        /\ lost \subseteq Clusters
    BY <2>2 DEF Good, Typed, TaskRec, Books, LostApart
  <2>4. \A table \in {fat, disk} : \A c \in Clusters :
            table[c] \in {Free, EOC} \cup {d \in Clusters : table[d] # Free}
    BY <1>2, <2>1 DEF DiskInv, LinksInUse
  <2>. QED  BY <1>2, <2>2, <2>3, <2>4 DEF FatTypeOK, DiskInv
<1>. SUFFICES ASSUME Alone, NoLateFaults PROVE FatSpec => []FatTypeOK
  OBVIOUS
<1>3. FatInit => DiskInv
  BY <1>1
<1>4. FatInv /\ DiskInv /\ [FatNext]_fatVars => DiskInv'
  BY NextDisk
<1>5. FatInv /\ DiskInv => FatTypeOK
  BY <1>2
<1>6. FatSpec => []FatInv
  BY VolumeIsInOrder
<1>. QED  BY <1>3, <1>4, <1>5, <1>6, PTL DEF FatSpec


-----------------------------------------------------------------------------
(* What other paths have outlives the kernel.  What is read there is put in*)
(* terms of a FAT, entries and data, so that it can be said of the volume in*)
(* memory, of that on the disk, and of either as a later step will leave it.*)

(* Where a path's last name is looked for, and the slots that have it.     *)
Spots(T, S, p) ==
    IF Len(p) = 1 THEN Root
    ELSE {a \in Addresses : \E b \in Root : S[b].dir /\ S[b].name = p[1] /\ a[1] \in Chain(T, S[b].first)}
Found(T, S, p) == {a \in Spots(T, S, p) : S[a].name = Last(p)}

(* What is read there.                                                     *)
Shown(T, D, e) ==
    IF e.dir THEN AFolder
    ELSE [i \in 1 .. e.size |-> LET c == At(T, e.first, i - 1) IN IF c \in Clusters THEN D[c] ELSE <<>>]
View(T, S, D, p) ==
    IF Found(T, S, p) = {} THEN Absent ELSE Shown(T, D, S[CHOOSE a \in Found(T, S, p) : TRUE])

(* The entries that a walk of the directories meets.                       *)
Seen(T, S) == {a \in Addresses : S[a] # NoEntry /\ a[1] \in Space(T, S)}

(* A name is in a directory once, and folders have folders' names.         *)
NamesApart(T, S) ==
    /\ \A a, b \in Root : S[a].name = S[b].name /\ S[a].name # None => a = b
    /\ \A b \in Root : \A a, c \in Addresses :
           S[b].dir /\ a[1] \in Chain(T, S[b].first) /\ c[1] \in Chain(T, S[b].first)
               /\ S[a].name = S[c].name /\ S[a].name # None => a = c
FolderNames(S) == \A b \in Root : S[b].dir => <<S[b].name>> \in Paths \ Files
Named(T, S) == NamesApart(T, S) /\ FolderNames(S)

(* Every folder may have what another has.  The paths of the code are so;  *)
(* the history keeps what it is told about, so a set of paths must be      *)
(* closed under renaming a folder for the history to follow one.           *)
Alike == \A p \in Paths \ Files, q \in Paths : Len(q) = 2 => <<p[1], q[2]>> \in Paths

(* The chains that entries lead to are on the disk.                        *)
OnDisk(T, dk, S) == \A a \in Seen(T, S) : \A x \in Chain(T, S[a].first) : dk[x] = T[x]

(* The directory of a path: Free for the root, or the first cluster.       *)
Where(S, p) == IF Len(p) = 1 THEN {Free} ELSE {S[b].first : b \in {b \in Root : S[b].dir /\ S[b].name = p[1]}}

(* What a write has put into its clusters so far.                          *)
Filled(T, D, k) ==
    LET n == k.entry.size - k.todo
    IN  /\ n \in Nat
        /\ \A i \in 1 .. n : /\ At(T, k.entry.first, i - 1) \in Clusters
                             /\ D[At(T, k.entry.first, i - 1)] = <<k.path, k.entry.size, i>>
        /\ k.pc = "entry" => k.todo = 0
        /\ k.pc # "entry" => IF n = 0 THEN k.entry.first = Free ELSE k.last = At(T, k.entry.first, n - 1)

(* What the call is not about.                                             *)
Untouched(k, p) == ~Under(k.path, p) /\ ~Under(k.to, p)

(* The call is still about what its first look at the directories found.   *)
Asked(T, S, D, k) ==
    /\ k.op # "none" => k.path \in Paths /\ k.to \in Paths
    /\ k.op # "rename" => k.to = k.path
    /\ k.op # "none" /\ k.old # NoSlot => k.old \in Found(T, S, k.path)
    /\ k.op \in {"remove", "remove_file", "rename"} => k.old # NoSlot
    /\ k.op \in {"write", "create_dir", "rename"} =>
          /\ k.old = NoSlot \/ k.op = "rename" => Found(T, S, k.to) = {}
          /\ k.loc \in Where(S, k.to)
          /\ k.entry.name = Last(k.to)
    /\ k.op \in {"write", "create_dir", "rename"} => (k.entry.dir <=> k.to \notin Files)
    /\ k.op = "create_dir" => k.old = NoSlot
    /\ k.op = "rename" => k.entry = [S[k.old] EXCEPT !.name = Last(k.to)]
    /\ k.op = "write" => Filled(T, D, k)

(* What a path has once the call has succeeded.                            *)
Wanted(k, K, p) ==
    IF k.op = "write" /\ p = k.path
         THEN [i \in 1 .. k.entry.size |-> <<p, k.entry.size, i>>]
         ELSE IF k.op = "create_dir" /\ p = k.path THEN AFolder
         ELSE IF k.op = "rename" /\ Under(k.to, p)
         THEN LET q == k.path \o SubSeq(p, Len(k.to) + 1, Len(p))
              IN  IF q \in Paths THEN K[q] ELSE Absent
         ELSE IF k.op \in {"remove", "remove_file", "rename"} /\ Under(k.path, p) THEN Absent
         ELSE K[p]

(* Nothing that a path leads to has changed yet.                           *)
Early(k) == k.pc \in {"idle", "data", "claim", "entry", "free"} \/ (k.op = "remove" /\ k.pc = "unlink")
            \/ (k.pc = "flush" /\ k.failed)

(* Until then memory and disk both show what is kept.                      *)
Unchanged(T, dk, S, D, K) ==
    /\ OnDisk(T, dk, S) /\ Named(T, S)
    /\ \A p \in Paths : View(T, S, D, p) = K[p]

(* The entries as the call will leave them.                                *)
Without(S, k) == IF k.pc = "unlink" THEN [S EXCEPT ![k.old] = NoEntry] ELSE S

(* From then on memory shows what is wanted, but for an old entry that is    *)
(* yet to go, and the disk, which has the entries but not the FAT, shows   *)
(* what is kept wherever the call has no business, that entry gone or not. *)
Changed(T, dk, S, D, k, K) ==
    /\ Named(T, Without(S, k))
    /\ \A p \in Paths : View(T, Without(S, k), D, p) = Wanted(k, K, p)
    /\ \A p \in Paths : Untouched(k, p) => View(dk, S, D, p) = K[p] /\ View(dk, Without(S, k), D, p) = K[p]

Safe(T, dk, S, D, k, K) ==
    IF Early(k)
    THEN Unchanged(T, dk, S, D, K) /\ (k.pc # "flush" => Asked(T, S, D, k) /\ ~k.failed)
    ELSE Changed(T, dk, S, D, k, K) /\ ~k.failed

(* And a disk that differs from memory is known to.                        *)
FatSafe ==
    /\ DOMAIN data = Clusters
    /\ unsaved \/ (/\ dirty \/ disk = fat
                   /\ \A t \in Tasks : Safe(fat, disk, slot, data, task[t], kept))

-----------------------------------------------------------------------------
(* Paths.                                                                  *)

(* A path is a name, or a folder's name and a name.                        *)
LEMMA PathIs ==
    ASSUME NEW p \in Paths
    PROVE  /\ \/ p = <<p[1]>> /\ Len(p) = 1 /\ Last(p) = p[1]
              \/ p = <<p[1], p[2]>> /\ Len(p) = 2 /\ Last(p) = p[2]
           /\ p[1] \in Names /\ p[1] # None
           /\ Last(p) \in Names /\ Last(p) # None
<1>. DEFINE R == Range(p)
<1>1. p \in Seq(R) /\ Len(p) \in 1 .. 2
  BY Fat16Assumption
<1>2. p[1] \in R
  BY <1>1 DEF Range
<1>3. p[1] \in Names
  BY <1>2 DEF Names
<1>4. (p = <<p[1]>> /\ Len(p) = 1) \/ (p = <<p[1], p[2]>> /\ Len(p) = 2)
  <2>1. CASE Len(p) = 1
    <3>1. <<p[1]>> \in Seq(R) /\ Len(<<p[1]>>) = 1 /\ <<p[1]>>[1] = p[1]
      BY <1>2
    <3>2. \A i \in 1 .. Len(p) : p[i] = <<p[1]>>[i]
      BY <2>1, <3>1
    <3>. HIDE DEF R
    <3>. QED  BY <1>1, <2>1, <3>1, <3>2, SeqEqual
  <2>2. CASE Len(p) = 2
    <3>1. p[2] \in R
      BY <1>1, <2>2 DEF Range
    <3>2. /\ <<p[1], p[2]>> \in Seq(R) /\ Len(<<p[1], p[2]>>) = 2
          /\ <<p[1], p[2]>>[1] = p[1] /\ <<p[1], p[2]>>[2] = p[2]
      BY <1>2, <3>1
    <3>3. \A i \in 1 .. Len(p) : p[i] = <<p[1], p[2]>>[i]
      BY <2>2, <3>2
    <3>. HIDE DEF R
    <3>. QED  BY <1>1, <2>2, <3>2, <3>3, SeqEqual
  <2>. QED  BY <1>1, <2>1, <2>2
<1>5. Last(p) = p[Len(p)]
  BY DEF Last
<1>. QED  BY <1>3, <1>4, <1>5, LastIsName, Fat16Assumption

(* A path is under itself, and in the folder of that name.                 *)
LEMMA UnderIs ==
    ASSUME NEW p \in Paths, NEW q \in Paths
    PROVE  Under(q, p) <=> p = q \/ (Len(q) = 1 /\ Len(p) = 2 /\ p[1] = q[1])
<1>1. CASE Len(q) = 1
  <2>1. q = <<q[1]>>
    BY <1>1, PathIs
  <2>2. SubSeq(p, 1, 1) = <<p[1]>>
    <3>. DEFINE s == SubSeq(p, 1, 1)
                R == Range(p)
    <3>1. p \in Seq(R) /\ Len(p) \in 1 .. 2
      BY Fat16Assumption
    <3>2. \A i \in 1 .. 1 : p[i] \in R
      BY <3>1, ElementOfSeq
    <3>3. s \in Seq(R) /\ Len(s) = 1 /\ s[1] = p[1]
      <4>. HIDE DEF R
      <4>. QED  BY <3>2, SubSeqProperties
    <3>4. <<p[1]>> \in Seq(R) /\ Len(<<p[1]>>) = 1 /\ <<p[1]>>[1] = p[1]
      BY <3>2
    <3>5. \A i \in 1 .. Len(s) : s[i] = <<p[1]>>[i]
      BY <3>3, <3>4
    <3>. HIDE DEF R, s
    <3>6. s = <<p[1]>>
      BY <3>3, <3>4, <3>5, SeqEqual
    <3>. QED  BY <3>6 DEF s
  <2>3. SubSeq(p, 1, 1) = q <=> p[1] = q[1]
    <3>. DEFINE x == p[1]
                y == q[1]
    <3>1. <<x>> = <<y>> <=> x = y
      <4>. HIDE DEF x, y
      <4>. QED  OBVIOUS
    <3>. QED  BY <2>1, <2>2, <3>1
  <2>4. Len(p) = 1 => (p = q <=> p[1] = q[1])
    BY <2>1, PathIs
  <2>5. Len(p) = 1 \/ Len(p) = 2
    BY PathIs
  <2>6. Len(p) = 2 => p # q
    BY <1>1
  <2>. QED  BY <1>1, <2>3, <2>4, <2>5, <2>6 DEF Under
<1>2. CASE Len(q) = 2
  <2>1. Len(p) = 2 => SubSeq(p, 1, 2) = p
    BY PathIs
  <2>2. Len(p) = 1 \/ Len(p) = 2
    BY PathIs
  <2>. QED  BY <1>2, <2>1, <2>2 DEF Under
<1>. QED  BY <1>1, <1>2, PathIs
-----------------------------------------------------------------------------
(* What is read, in one FAT and another.                                   *)

(* A chain that has the same links is walked the same way.                 *)
LEMMA AtSame ==
    ASSUME NEW T, NEW U, NEW c, \A x \in Chain(T, c) : U[x] = T[x]
    PROVE  \A i \in Nat : At(U, c, i) = At(T, c, i)
<1>. DEFINE N == {i \in Nat : At(U, c, i) = At(T, c, i)}
<1>0. N \in SUBSET Nat
  OBVIOUS
<1>1. 0 \in N
  BY AtSteps
<1>2. ASSUME NEW i \in N PROVE i + 1 \in N
  <2>1. i \in Nat /\ At(U, c, i) = At(T, c, i)
    OBVIOUS
  <2>2. At(T, c, i + 1) = Onward(T, At(T, c, i)) /\ At(U, c, i + 1) = Onward(U, At(U, c, i))
    BY <2>1, AtSteps
  <2>3. At(T, c, i) \in Clusters => U[At(T, c, i)] = T[At(T, c, i)]
    BY <2>1, AtInChain
  <2>4. Onward(U, At(U, c, i)) = Onward(T, At(T, c, i))
    BY <2>1, <2>3 DEF Onward
  <2>5. At(U, c, i + 1) = At(T, c, i + 1)
    BY <2>2, <2>4
  <2>. QED  BY <2>1, <2>5
<1>3. \A i \in Nat : i \in N
  <2>. HIDE DEF N
  <2>. QED  BY <1>0, <1>1, <1>2, Induction
<1>. QED  BY <1>3

(* So is what its clusters hold.                                           *)
LEMMA ShownSame ==
    ASSUME NEW T, NEW U, NEW D, NEW E, NEW e, e.size \in Nat,
           \A x \in Chain(T, e.first) : U[x] = T[x] /\ E[x] = D[x]
    PROVE  Shown(U, E, e) = Shown(T, D, e)
<1>1. ASSUME NEW i \in 1 .. e.size
      PROVE  At(U, e.first, i - 1) = At(T, e.first, i - 1)
  <2>1. i - 1 \in Nat
    OBVIOUS
  <2>2. \A j \in Nat : At(U, e.first, j) = At(T, e.first, j)
    BY AtSame
  <2>. QED  BY <2>1, <2>2
<1>2. ASSUME NEW i \in 1 .. e.size, At(T, e.first, i - 1) \in Clusters
      PROVE  E[At(T, e.first, i - 1)] = D[At(T, e.first, i - 1)]
  <2>1. i - 1 \in Nat
    OBVIOUS
  <2>2. At(T, e.first, i - 1) \in Chain(T, e.first)
    BY <1>2, <2>1, AtInChain
  <2>. QED  BY <2>2
<1>3. \A i \in 1 .. e.size :
          (IF At(U, e.first, i - 1) \in Clusters THEN E[At(U, e.first, i - 1)] ELSE <<>>) =
          (IF At(T, e.first, i - 1) \in Clusters THEN D[At(T, e.first, i - 1)] ELSE <<>>)
  BY <1>1, <1>2
<1>. QED  BY <1>3 DEF Shown

(* What is found is an entry that is there.                                *)
LEMMA FoundSeen ==
    ASSUME NEW T, NEW S, NEW p \in Paths
    PROVE  /\ \A a \in Spots(T, S, p) : a \in Addresses /\ a[1] \in Space(T, S)
           /\ \A a \in Found(T, S, p) :
                  /\ a \in Seen(T, S) /\ a \in Addresses /\ a \in Spots(T, S, p)
                  /\ S[a].name = Last(p) /\ S[a] # NoEntry /\ S[a].name # None
<1>1. ASSUME NEW a \in Spots(T, S, p) PROVE a \in Addresses /\ a[1] \in Space(T, S)
  BY RootIs DEF Spots, Space
<1>2. Last(p) # None
  BY PathIs
<1>. QED  BY <1>1, <1>2 DEF Found, Seen, NoEntry

(* Two paths under which the same is found have the same contents.         *)
LEMMA FoundSame ==
    ASSUME NEW T, NEW S, NEW D, NEW p, NEW U, NEW V, NEW E, NEW q,
           Found(U, V, q) = Found(T, S, p),
           \A a \in Found(T, S, p) : Shown(U, E, V[a]) = Shown(T, D, S[a])
    PROVE  View(U, V, E, q) = View(T, S, D, p)
<1>1. CASE Found(T, S, p) = {}
  BY <1>1 DEF View
<1>2. CASE Found(T, S, p) # {}
  <2>1. (CHOOSE a \in Found(T, S, p) : TRUE) \in Found(T, S, p)
    BY <1>2
  <2>. QED  BY <1>2, <2>1 DEF View
<1>. QED  BY <1>1, <1>2

(* One slot is found.                                                      *)
LEMMA ViewIs ==
    ASSUME NEW T, NEW S, NEW D, NEW p, NEW a, Found(T, S, p) = {a}
    PROVE  View(T, S, D, p) = Shown(T, D, S[a])
<1>1. (CHOOSE b \in {a} : TRUE) = a
  OBVIOUS
<1>. QED  BY <1>1 DEF View

(* A change that leaves alone the folders, the entries in them and what    *)
(* these lead to, changes nothing that is read.                            *)
SameRead(T, S, D, U, V, E) ==
    /\ \A a \in Addresses : a[1] \in Space(T, S) => V[a] = S[a]
    /\ \A a \in Seen(T, S) : \A x \in Chain(T, S[a].first) : U[x] = T[x] /\ E[x] = D[x]

(* The folders are where they were, then.                                  *)
LEMMA SpotsSame ==
    ASSUME NEW T, NEW S, NEW D, NEW U, NEW V, NEW E, SameRead(T, S, D, U, V, E)
    PROVE  /\ \A b \in Root : V[b] = S[b]
           /\ SameFolders(T, U, S)
           /\ \A p : Spots(U, V, p) = Spots(T, S, p)
           /\ Space(U, V) = Space(T, S)
           /\ Seen(U, V) = Seen(T, S)
<1>1. \A b \in Root : V[b] = S[b]
  BY RootIs DEF SameRead, Space
<1>2. ASSUME NEW b \in Root, S[b].dir PROVE Chain(U, S[b].first) = Chain(T, S[b].first)
  <2>1. b \in Seen(T, S)
    BY <1>2, RootIs DEF Seen, Space, NoEntry
  <2>. QED  BY <2>1, ChainSame DEF SameRead
<1>3. SameFolders(T, U, S)
  BY <1>2 DEF SameFolders
<1>4. ASSUME NEW p PROVE Spots(U, V, p) = Spots(T, S, p)
  BY <1>1, <1>2 DEF Spots
<1>5. Space(U, V) = Space(T, S)
  BY <1>1, <1>2, SpaceSame
<1>6. Seen(U, V) = Seen(T, S)
  BY <1>5 DEF Seen, SameRead
<1>. QED  BY <1>1, <1>3, <1>4, <1>5, <1>6

(* And so is all that is read.                                             *)
LEMMA ViewSame ==
    ASSUME NEW T, NEW S \in [Addresses -> Entry], NEW D, NEW U, NEW V, NEW E,
           SameRead(T, S, D, U, V, E)
    PROVE  /\ \A p \in Paths : Found(U, V, p) = Found(T, S, p)
           /\ \A p \in Paths : View(U, V, E, p) = View(T, S, D, p)
<1>1. ASSUME NEW p \in Paths PROVE Found(U, V, p) = Found(T, S, p)
  <2>1. Spots(U, V, p) = Spots(T, S, p)
    BY SpotsSame
  <2>2. \A a \in Spots(T, S, p) : V[a] = S[a]
    BY FoundSeen DEF SameRead
  <2>. QED  BY <2>1, <2>2 DEF Found
<1>2. ASSUME NEW p \in Paths, NEW a \in Found(T, S, p) PROVE Shown(U, E, V[a]) = Shown(T, D, S[a])
  <2>1. a \in Seen(T, S) /\ a \in Addresses /\ a[1] \in Space(T, S)
    BY FoundSeen DEF Seen
  <2>2. V[a] = S[a] /\ S[a].size \in Nat
    BY <2>1 DEF SameRead, Entry
  <2>3. \A x \in Chain(T, S[a].first) : U[x] = T[x] /\ E[x] = D[x]
    BY <2>1 DEF SameRead
  <2>. QED  BY <2>2, <2>3, ShownSame
<1>. QED  BY <1>1, <1>2, FoundSame

(* Names are as apart as before.                                           *)
LEMMA NamedSame ==
    ASSUME NEW T, NEW S, NEW D, NEW U, NEW V, NEW E, SameRead(T, S, D, U, V, E), Named(T, S)
    PROVE  Named(U, V)
<1>1. (\A b \in Root : V[b] = S[b]) /\ SameFolders(T, U, S)
  BY SpotsSame
<1>2. ASSUME NEW b \in Root, S[b].dir, NEW a \in Addresses, a[1] \in Chain(T, S[b].first)
      PROVE  V[a] = S[a]
  BY <1>2 DEF SameRead, Space
<1>3. NamesApart(U, V)
  BY <1>1, <1>2 DEF NamesApart, Named, SameFolders
<1>. QED  BY <1>1, <1>3 DEF Named, FolderNames
-----------------------------------------------------------------------------
(* An entry more, an entry less.                                           *)

(* The slot v is one for q: in the root, or in the folder of that name and *)
(* in no other.                                                            *)
OneSpot(T, S, v, q) ==
    IF Len(q) = 1 THEN v \in Root
    ELSE v \notin Root /\ \A b \in Root : S[b].dir /\ v[1] \in Chain(T, S[b].first) => S[b].name = q[1]

Put(S, v, e) == [S EXCEPT ![v] = e]

(* One entry is found, if names are apart.                                 *)
LEMMA FoundOne ==
    ASSUME NEW T, NEW S, Named(T, S), NEW p \in Paths, NEW a \in Found(T, S, p), NEW c \in Found(T, S, p)
    PROVE  a = c
<1>1. a \in Addresses /\ c \in Addresses /\ S[a].name = S[c].name /\ S[a].name # None
  BY FoundSeen
<1>2. a \in Spots(T, S, p) /\ c \in Spots(T, S, p)
  BY DEF Found
<1>3. CASE Len(p) = 1
  BY <1>1, <1>2, <1>3 DEF Spots, Named, NamesApart
<1>4. CASE Len(p) # 1
  <2>1. PICK b \in Root : S[b].dir /\ S[b].name = p[1] /\ a[1] \in Chain(T, S[b].first)
    BY <1>2, <1>4 DEF Spots
  <2>2. PICK d \in Root : S[d].dir /\ S[d].name = p[1] /\ c[1] \in Chain(T, S[d].first)
    BY <1>2, <1>4 DEF Spots
  <2>3. b = d
    BY <2>1, <2>2, PathIs DEF Named, NamesApart
  <2>. QED  BY <1>1, <2>1, <2>2, <2>3 DEF Named, NamesApart
<1>. QED  BY <1>3, <1>4

(* What a root slot and a folder's slot are found under.                   *)
LEMMA InRoot ==
    ASSUME NEW T, NEW S, NEW p \in Paths, NEW a \in Spots(T, S, p)
    PROVE  IF Len(p) = 1 THEN a \in Root /\ a[1] = Free ELSE a \notin Root /\ a[1] \in Clusters
<1>1. CASE Len(p) = 1
  BY <1>1, RootIs DEF Spots
<1>2. CASE Len(p) # 1
  <2>1. a[1] \in Clusters
    BY <1>2, ChainWithin DEF Spots
  <2>. QED  BY <1>2, <2>1, RootIs, ClustersAre
<1>. QED  BY <1>1, <1>2

(* It belongs to no other path with the same last name.                    *)
LEMMA OnePath ==
    ASSUME NEW T, NEW S, NEW q \in Paths, NEW v, OneSpot(T, S, v, q),
           NEW p \in Paths, v \in Spots(T, S, p), Last(p) = Last(q)
    PROVE  p = q
<1>1. Len(p) = 1 <=> Len(q) = 1
  BY InRoot DEF OneSpot
<1>2. CASE Len(q) = 1
  BY <1>1, <1>2, PathIs
<1>3. CASE Len(q) # 1
  <2>1. PICK b \in Root : S[b].dir /\ S[b].name = p[1] /\ v[1] \in Chain(T, S[b].first)
    BY <1>1, <1>3 DEF Spots
  <2>2. p[1] = q[1]
    BY <1>3, <2>1 DEF OneSpot
  <2>. QED  BY <1>1, <1>3, <2>2, PathIs
<1>. QED  BY <1>2, <1>3

(* A new entry is not found under other paths.                             *)
LEMMA PutElsewhere ==
    ASSUME NEW T, NEW S \in [Addresses -> Entry], NEW q \in Paths,
           NEW v \in Addresses, S[v] = NoEntry, OneSpot(T, S, v, q),
           NEW e, e.name = Last(q), NEW V, V = Put(S, v, e),
           NEW p \in Paths, ~Under(q, p)
    PROVE  /\ Found(T, V, p) = Found(T, S, p)
           /\ \A a \in Found(T, S, p) : V[a] = S[a]
<1>1. v \notin Found(T, S, p)
  BY FoundSeen
<1>2. p # q /\ (Len(p) # 1 /\ v \in Root => p[1] # e.name)
  BY UnderIs, PathIs DEF OneSpot
<1>3. \A b \in Addresses : b # v => V[b] = S[b]
  BY DEF Put
<1>4. V[v] = e /\ ~S[v].dir
  BY DEF NoEntry, Put
<1>5. Spots(T, V, p) = Spots(T, S, p)
  <2>1. CASE Len(p) = 1
    BY <2>1 DEF Spots
  <2>2. CASE Len(p) # 1
    <3>1. ASSUME NEW b \in Root
          PROVE  V[b].dir /\ V[b].name = p[1] <=> S[b].dir /\ S[b].name = p[1]
      BY <1>2, <1>3, <1>4, <2>2, RootIs
    <3>2. ASSUME NEW b \in Root, S[b].dir PROVE V[b] = S[b]
      BY <3>2, <1>3, <1>4, RootIs
    <3>3. ASSUME NEW b \in Root, V[b].dir, V[b].name = p[1] PROVE V[b] = S[b]
      BY <3>1, <3>2, <3>3
    <3>. QED  BY <2>2, <3>1, <3>2, <3>3 DEF Spots
  <2>. QED  BY <2>1, <2>2
<1>6. v \in Spots(T, S, p) => Last(p) # e.name
  BY <1>2, OnePath
<1>7. Found(T, V, p) = Found(T, S, p)
  <2>1. ASSUME NEW a \in Spots(T, S, p) PROVE V[a].name = Last(p) <=> S[a].name = Last(p)
    <3>1. CASE a = v
      BY <3>1, <1>4, <1>6, PathIs DEF NoEntry
    <3>2. CASE a # v
      BY <3>2, <1>3, FoundSeen
    <3>. QED  BY <3>1, <3>2
  <2>. QED  BY <1>5, <2>1 DEF Found
<1>. QED  BY <1>1, <1>3, <1>7, FoundSeen

(* The names in a folder's chain are apart.                                *)
NamesIn(T, S, c) ==
    \A a, d \in Addresses :
        a[1] \in Chain(T, c) /\ d[1] \in Chain(T, c) /\ S[a].name = S[d].name /\ S[a].name # None => a = d
NamedIn(T, S, c, n) == {a \in Addresses : a[1] \in Chain(T, c) /\ S[a].name = n}

(* It is found under its own, and what is in it, if it is a folder's,      *)
(* under those in the folder.                                              *)
LEMMA PutThere ==
    ASSUME NEW T, NEW S \in [Addresses -> Entry], Named(T, S), NEW q \in Paths, Found(T, S, q) = {},
           NEW v \in Spots(T, S, q), S[v] = NoEntry, OneSpot(T, S, v, q),
           NEW e \in Entry, e.name = Last(q), e.dir <=> q \notin Files,
           e.dir => NamesIn(T, S, e.first),
           NEW V, V = Put(S, v, e)
    PROVE  /\ Found(T, V, q) = {v} /\ V[v] = e
           /\ \A p \in Paths : Under(q, p) /\ p # q =>
                  Found(T, V, p) = IF e.dir THEN NamedIn(T, S, e.first, Last(p)) ELSE {}
           /\ Named(T, V)
<1>1. v \in Addresses
  BY FoundSeen
<1>2. \A b \in Addresses : b # v => V[b] = S[b]
  BY DEF Put
<1>3. V[v] = e /\ ~S[v].dir /\ S[v].name = None
  BY <1>1 DEF NoEntry, Put
<1>4. e.dir => Len(q) = 1
  BY Fat16Assumption, PathIs
<1>5. IF Len(q) = 1 THEN v \in Root /\ v[1] = Free ELSE v \notin Root /\ v[1] \in Clusters
  BY InRoot
<1>6. e.dir => q = <<e.name>>
  BY <1>4, PathIs
<1>7. ASSUME NEW b \in Root, S[b].dir PROVE V[b] = S[b]
  BY <1>7, <1>2, <1>3, RootIs
<1>8. ASSUME NEW b \in Root, V[b].dir, b # v PROVE S[b].dir /\ V[b] = S[b]
  BY <1>8, <1>2, RootIs
<1>9. Len(q) # 1 => \A b \in Root : V[b] = S[b]
  BY <1>2, <1>5, RootIs
<1>10. Found(T, V, q) = {v}
  <2>1. CASE Len(q) = 1
    <3>1. \A a \in Root : S[a].name # Last(q)
      BY <2>1 DEF Found, Spots
    <3>. QED  BY <1>2, <1>3, <1>5, <2>1, <3>1, RootIs DEF Found, Spots
  <2>2. CASE Len(q) # 1
    <3>1. Spots(T, V, q) = Spots(T, S, q)
      BY <1>9, <2>2 DEF Spots
    <3>2. \A a \in Spots(T, S, q) : a \in Addresses /\ S[a].name # Last(q)
      BY FoundSeen DEF Found
    <3>. QED  BY <1>2, <1>3, <3>1, <3>2 DEF Found
  <2>. QED  BY <2>1, <2>2
<1>11. ASSUME NEW p \in Paths, Under(q, p), p # q
       PROVE  Found(T, V, p) = IF e.dir THEN NamedIn(T, S, e.first, Last(p)) ELSE {}
  <2>1. Len(q) = 1 /\ Len(p) = 2 /\ p[1] = q[1] /\ Last(q) = q[1]
    BY <1>11, UnderIs, PathIs
  <2>2. \A b \in Root : S[b].name # q[1]
    BY <2>1 DEF Found, Spots
  <2>3. v \in Root /\ v[1] = Free
    BY <1>5, <2>1
  <2>4. \A b \in Root : V[b].dir /\ V[b].name = p[1] <=> b = v /\ e.dir
    BY <1>2, <1>3, <2>1, <2>2, <2>3, RootIs
  <2>5. Spots(T, V, p) = IF e.dir THEN {a \in Addresses : a[1] \in Chain(T, e.first)} ELSE {}
    BY <2>1, <2>3, <2>4, <1>3 DEF Spots
  <2>6. \A a \in Addresses : a[1] \in Chain(T, e.first) => V[a] = S[a]
    BY <1>2, <2>3, ChainWithin, ClustersAre
  <2>. QED  BY <2>5, <2>6 DEF Found, NamedIn
<1>12. FolderNames(V)
  <2>1. ASSUME NEW b \in Root, V[b].dir PROVE <<V[b].name>> \in Paths \ Files
    <3>1. CASE b = v
      BY <2>1, <3>1, <1>3, <1>6
    <3>2. CASE b # v
      BY <2>1, <3>2, <1>8 DEF Named, FolderNames
    <3>. QED  BY <3>1, <3>2
  <2>. QED  BY <2>1 DEF FolderNames
<1>13. ASSUME NEW a \in Root, NEW b \in Root, V[a].name = V[b].name, V[a].name # None
       PROVE  a = b
  <2>1. CASE v \notin Root
    BY <1>13, <1>2, <2>1, RootIs DEF Named, NamesApart
  <2>2. CASE v \in Root
    <3>1. Len(q) = 1
      BY <1>5, <2>2
    <3>2. \A c \in Root : c # v => V[c] = S[c] /\ S[c].name # e.name
      BY <1>2, <3>1, RootIs DEF Found, Spots
    <3>. QED  BY <1>13, <1>3, <2>2, <3>2 DEF Named, NamesApart
  <2>. QED  BY <2>1, <2>2
<1>14. ASSUME NEW b \in Root, V[b].dir PROVE NamesIn(T, V, V[b].first)
  <2>1. CASE b = v
    <3>1. e.dir /\ V[b].first = e.first /\ v[1] = Free
      BY <1>14, <2>1, <1>3, <1>4, <1>5
    <3>2. \A a \in Addresses : a[1] \in Chain(T, e.first) => V[a] = S[a]
      BY <1>2, <3>1, ChainWithin, ClustersAre
    <3>. QED  BY <3>1, <3>2 DEF NamesIn
  <2>2. CASE b # v
    <3>1. S[b].dir /\ V[b] = S[b]
      BY <1>14, <1>8, <2>2
    <3>. DEFINE c == S[b].first
    <3>2. NamesIn(T, S, c)
      BY <3>1 DEF Named, NamesApart, NamesIn
    <3>3. CASE v[1] \notin Chain(T, c)
      <4>1. \A a \in Addresses : a[1] \in Chain(T, c) => V[a] = S[a]
        BY <1>2, <3>3
      <4>. QED  BY <3>1, <3>2, <4>1 DEF NamesIn
    <3>4. CASE v[1] \in Chain(T, c)
      <4>1. Len(q) # 1 /\ Len(q) = 2 /\ q[1] \in Names
        BY <1>5, <3>4, ChainWithin, ClustersAre, PathIs
      <4>2. S[b].name = q[1]
        BY <3>1, <3>4, <4>1 DEF OneSpot
      <4>3. ASSUME NEW a \in Addresses, a[1] \in Chain(T, c), S[a].name = e.name PROVE FALSE
        BY <3>1, <4>1, <4>2, <4>3 DEF Found, Spots
      <4>. QED  BY <1>2, <1>3, <3>1, <3>2, <4>3 DEF NamesIn
    <3>. QED  BY <3>3, <3>4
  <2>. QED  BY <2>1, <2>2
<1>15. NamesApart(T, V)
  BY <1>13, <1>14 DEF NamesApart, NamesIn
<1>. QED  BY <1>3, <1>10, <1>11, <1>12, <1>15 DEF Named

(* An entry that is deleted is found no more, nor is what was in it.       *)
LEMMA DeletedThere ==
    ASSUME NEW T, NEW S \in [Addresses -> Entry], Named(T, S), NEW q \in Paths,
           NEW v \in Found(T, S, q), NEW V, V = Put(S, v, NoEntry)
    PROVE  /\ \A p \in Paths : Under(q, p) => Found(T, V, p) = {}
           /\ Named(T, V)
<1>1. v \in Addresses /\ S[v].name = Last(q) /\ v \in Spots(T, S, q)
  BY FoundSeen
<1>2. \A b \in Addresses : b # v => V[b] = S[b]
  BY DEF Put
<1>3. V[v] = NoEntry /\ ~V[v].dir /\ V[v].name = None
  BY <1>1 DEF NoEntry, Put
<1>4. \A b \in Root : V[b].dir => S[b].dir /\ V[b] = S[b] /\ b # v
  BY <1>2, <1>3, RootIs
<1>5. ASSUME NEW p \in Paths, NEW a \in Found(T, V, p) PROVE a \in Found(T, S, p) /\ a # v
  <2>0. \A W : \A c \in Found(T, W, p) : c \in Addresses /\ W[c].name # None /\ c \in Spots(T, W, p)
    BY FoundSeen
  <2>1. a \in Addresses /\ V[a].name # None /\ a \in Spots(T, V, p)
    BY <2>0
  <2>2. a # v /\ V[a] = S[a]
    BY <1>2, <1>3, <1>5, <2>1
  <2>3. a \in Spots(T, S, p)
    BY <1>4, <1>5, <2>1 DEF Spots
  <2>. QED  BY <2>2, <2>3 DEF Found
<1>6. ASSUME NEW p \in Paths, Under(q, p), NEW a \in Found(T, V, p) PROVE FALSE
  <2>1. CASE p = q
    BY <1>5, <1>6, <2>1, FoundOne
  <2>2. CASE p # q
    <3>1. Len(q) = 1 /\ Len(p) = 2 /\ p[1] = q[1] /\ Last(q) = q[1] /\ q[1] # None
      BY <1>6, <2>2, UnderIs, PathIs
    <3>2. PICK b \in Root : V[b].dir /\ V[b].name = p[1]
      BY <1>6, <3>1 DEF Found, Spots
    <3>3. S[b].name = S[v].name /\ b # v /\ v \in Root
      BY <1>1, <1>4, <3>1, <3>2, InRoot
    <3>. QED  BY <1>1, <3>1, <3>3 DEF Named, NamesApart
  <2>. QED  BY <2>1, <2>2
<1>7. \A a \in Addresses : V[a].name # None => V[a] = S[a]
  BY <1>2, <1>3
<1>8. ASSUME NEW a \in Root, NEW b \in Root, V[a].name = V[b].name, V[a].name # None PROVE a = b
  BY <1>7, <1>8, RootIs DEF Named, NamesApart
<1>9. ASSUME NEW b \in Root, NEW a \in Addresses, NEW c \in Addresses, V[b].dir,
             a[1] \in Chain(T, V[b].first), c[1] \in Chain(T, V[b].first),
             V[a].name = V[c].name, V[a].name # None
      PROVE  a = c
  BY <1>4, <1>7, <1>9 DEF Named, NamesApart
<1>10. Named(T, V)
  BY <1>4, <1>8, <1>9 DEF Named, NamesApart, FolderNames
<1>. QED  BY <1>6, <1>10

(* Others are found as before.                                             *)
LEMMA DeletedElsewhere ==
    ASSUME NEW T, NEW S \in [Addresses -> Entry], NEW q \in Paths,
           NEW v \in Addresses, OneSpot(T, S, v, q), S[v].name = Last(q),
           NEW V, V = Put(S, v, NoEntry),
           NEW p \in Paths, ~Under(q, p)
    PROVE  /\ Found(T, V, p) = Found(T, S, p)
           /\ \A a \in Found(T, S, p) : V[a] = S[a]
<1>1. \A b \in Addresses : b # v => V[b] = S[b]
  BY DEF Put
<1>2. V[v] = NoEntry /\ ~V[v].dir /\ V[v].name = None
  BY DEF NoEntry, Put
<1>3. p # q /\ (Len(p) # 1 /\ v \in Root => p[1] # S[v].name)
  BY UnderIs, PathIs DEF OneSpot
<1>4. Spots(T, V, p) = Spots(T, S, p)
  <2>1. CASE Len(p) = 1
    BY <2>1 DEF Spots
  <2>2. CASE Len(p) # 1
    <3>1. ASSUME NEW b \in Root
          PROVE  (V[b].dir /\ V[b].name = p[1]) <=> (S[b].dir /\ S[b].name = p[1])
      BY <1>1, <1>2, <1>3, <2>2, RootIs
    <3>2. ASSUME NEW b \in Root, V[b].dir PROVE V[b] = S[b]
      BY <3>2, <1>1, <1>2, RootIs
    <3>. QED  BY <2>2, <3>1, <3>2 DEF Spots
  <2>. QED  BY <2>1, <2>2
<1>5. v \notin Found(T, S, p)
  BY <1>3, OnePath DEF Found
<1>6. \A a \in Found(T, S, p) : V[a] = S[a]
  BY <1>1, <1>5, FoundSeen
<1>7. ASSUME NEW a \in Spots(T, S, p) PROVE V[a].name = Last(p) <=> S[a].name = Last(p)
  <2>1. CASE a = v
    BY <1>2, <1>5, <2>1, PathIs DEF Found
  <2>2. CASE a # v
    BY <1>1, <2>2, FoundSeen
  <2>. QED  BY <2>1, <2>2
<1>. QED  BY <1>4, <1>6, <1>7 DEF Found

(* A file's entry is written anew, under its name.                         *)
LEMMA Rewritten ==
    ASSUME NEW T, NEW S \in [Addresses -> Entry], NEW v \in Addresses, ~S[v].dir,
           NEW e \in Entry, ~e.dir, e.name = S[v].name, NEW V, V = Put(S, v, e)
    PROVE  /\ \A p \in Paths : Found(T, V, p) = Found(T, S, p)
           /\ Named(T, S) => Named(T, V)
<1>1. \A a \in Addresses : V[a].name = S[a].name /\ V[a].dir = S[a].dir /\ (V[a].dir => V[a] = S[a])
  <2>0. \A a \in Addresses : V[a] = IF a = v THEN e ELSE S[a]
    BY DEF Put
  <2>1. ~V[v].dir /\ V[v].name = S[v].name
    BY <2>0
  <2>2. S[v].dir = e.dir
    BY DEF Entry
  <2>. QED  BY <2>0, <2>1, <2>2
<1>2. \A p \in Paths : Spots(T, V, p) = Spots(T, S, p)
  BY <1>1, RootIs, ZenonT(60) DEF Spots
<1>3. ASSUME NEW p \in Paths PROVE Found(T, V, p) = Found(T, S, p)
  <2>1. \A a \in Spots(T, S, p) : V[a].name = S[a].name
    BY <1>1, FoundSeen
  <2>. QED  BY <1>2, <2>1 DEF Found
<1>4. Named(T, S) => Named(T, V)
  BY <1>1, RootIs DEF Named, NamesApart, FolderNames
<1>. QED  BY <1>3, <1>4
-----------------------------------------------------------------------------
(* What a volume in order has.                                             *)

(* A cluster more for a folder.                                            *)
FoldersGrow(T, U, S, f) ==
    \A b \in Root : S[b].dir => /\ Chain(T, S[b].first) \subseteq Chain(U, S[b].first)
                                /\ Chain(U, S[b].first) \subseteq Chain(T, S[b].first) \cup {f}

(* With nothing in it, it shows nothing new.                               *)
LEMMA GrownSame ==
    ASSUME NEW T, NEW S \in [Addresses -> Entry], NEW U, NEW f \in Clusters, f \notin Space(T, S),
           NEW V, V = Cleared(S, f), FoldersGrow(T, U, S, f)
    PROVE  /\ \A p \in Paths : Found(U, V, p) = Found(T, S, p)
           /\ \A p \in Paths : \A a \in Found(T, S, p) : V[a] = S[a]
           /\ Named(T, S) => Named(U, V)
<1>1. \A a \in Addresses : IF a[1] = f THEN V[a] = NoEntry /\ V[a].name = None ELSE V[a] = S[a]
  BY DEF Cleared, NoEntry
<1>2. \A b \in Root : V[b] = S[b]
  BY <1>1, RootIs, ClustersAre
<1>3. \A a \in Addresses : V[a].name # None => V[a] = S[a] /\ a[1] # f
  BY <1>1
<1>4. ASSUME NEW p \in Paths, NEW a \in Found(T, S, p) PROVE V[a] = S[a] /\ a \in Found(U, V, p)
  <2>1. a \in Addresses /\ a[1] \in Space(T, S) /\ a \in Spots(T, S, p) /\ S[a].name = Last(p)
    BY FoundSeen
  <2>2. V[a] = S[a]
    BY <1>1, <2>1
  <2>3. a \in Spots(U, V, p)
    BY <1>2, <2>1 DEF Spots, FoldersGrow
  <2>. QED  BY <2>1, <2>2, <2>3 DEF Found
<1>5. ASSUME NEW p \in Paths, NEW a \in Found(U, V, p) PROVE a \in Found(T, S, p)
  <2>0. \A W : \A c \in Found(U, W, p) :
            c \in Addresses /\ W[c].name # None /\ c \in Spots(U, W, p) /\ W[c].name = Last(p)
    BY FoundSeen
  <2>1. a \in Addresses /\ V[a].name # None /\ a \in Spots(U, V, p) /\ V[a].name = Last(p)
    BY <2>0
  <2>2. V[a] = S[a] /\ a[1] # f
    BY <1>3, <2>1
  <2>3. a \in Spots(T, S, p)
    BY <1>2, <2>1, <2>2 DEF Spots, FoldersGrow
  <2>. QED  BY <2>1, <2>2, <2>3 DEF Found
<1>6. ASSUME Named(T, S) PROVE Named(U, V)
  <2>1. ASSUME NEW b \in Root, NEW a \in Addresses, NEW c \in Addresses, V[b].dir,
               a[1] \in Chain(U, V[b].first), c[1] \in Chain(U, V[b].first),
               V[a].name = V[c].name, V[a].name # None
        PROVE  a = c
    <3>1. V[a] = S[a] /\ V[c] = S[c] /\ a[1] # f /\ c[1] # f
      BY <1>3, <2>1
    <3>2. S[b].dir /\ a[1] \in Chain(T, S[b].first) /\ c[1] \in Chain(T, S[b].first)
      BY <1>2, <2>1, <3>1 DEF FoldersGrow
    <3>. QED  BY <1>6, <2>1, <3>1, <3>2 DEF Named, NamesApart
  <2>. QED  BY <1>2, <1>6, <2>1 DEF Named, NamesApart, FolderNames
<1>. QED  BY <1>4, <1>5, <1>6

(* No folder or file is there twice, outside of rename.                    *)
Steady(k) == DoomedOf(k) = {} /\ ~(k.op = "rename" /\ k.pc = "unlink")

(* What two entries lead to is apart.                                      *)
LEMMA SeenApart ==
    ASSUME NEW T, NEW S, NEW k, NEW L, Good(T, S, k, L), Steady(k)
    PROVE  /\ Seen(T, S) = LiveIn(T, S, k)
           /\ \A a \in Seen(T, S) : \A x \in Chain(T, S[a].first) : x \in Clusters /\ T[x] # Free
           /\ \A a, b \in Seen(T, S) : a # b => Chain(T, S[a].first) \cap Chain(T, S[b].first) = {}
           /\ \A b \in Root : S[b].dir => b \in Seen(T, S)
           /\ Makes(k) => \A a \in Seen(T, S) : Chain(T, S[a].first) \cap Chain(T, k.entry.first) = {}
<1>1. Seen(T, S) = LiveIn(T, S, k)
  BY DEF Seen, LiveIn, Steady
<1>2. Books(T, StartsIn(T, S, k), L) /\ EntriesApart(T, S, k)
  BY DEF Good
<1>3. \A a \in Seen(T, S) : S[a].first \in StartsIn(T, S, k)
  BY <1>1 DEF StartsIn
<1>4. \A a \in Seen(T, S) : \A x \in Chain(T, S[a].first) : x \in Clusters /\ T[x] # Free
  BY <1>2, <1>3, BooksInUse
<1>5. ASSUME NEW a \in Seen(T, S), NEW b \in Seen(T, S), a # b
      PROVE  Chain(T, S[a].first) \cap Chain(T, S[b].first) = {}
  <2>1. CASE S[a].first = Free
    BY <2>1, NoChain, ClustersAre
  <2>2. CASE S[a].first # Free
    <3>1. S[a].first # S[b].first
      BY <1>1, <1>2, <1>5, <2>2 DEF EntriesApart, Steady
    <3>. QED  BY <1>2, <1>3, <3>1, BooksApart
  <2>. QED  BY <2>1, <2>2
<1>6. \A b \in Root : S[b].dir => b \in Seen(T, S)
  BY <1>1, DirsLive
<1>7. ASSUME Makes(k), NEW a \in Seen(T, S)
      PROVE  Chain(T, S[a].first) \cap Chain(T, k.entry.first) = {}
  <2>1. CASE k.entry.first = Free
    BY <2>1, NoChain, ClustersAre
  <2>2. CASE k.entry.first # Free
    <3>1. S[a].first # k.entry.first /\ k.entry.first \in StartsIn(T, S, k)
      BY <1>1, <1>2, <1>7, <2>2 DEF EntriesApart, StartsIn
    <3>. QED  BY <1>2, <1>3, <3>1, BooksApart
  <2>. QED  BY <2>1, <2>2
<1>. QED  BY <1>1, <1>4, <1>5, <1>6, <1>7

(* A slot where a path's last name is looked for is no other path's.       *)
LEMMA OneSpotIs ==
    ASSUME NEW T, NEW S, NEW k, NEW L, Good(T, S, k, L), Steady(k), NEW q \in Paths,
           NEW v \in Spots(T, S, q), NEW U, SameFolders(T, U, S)
    PROVE  OneSpot(T, S, v, q) /\ OneSpot(U, S, v, q)
<1>1. CASE Len(q) = 1
  BY <1>1, InRoot DEF OneSpot
<1>2. CASE Len(q) # 1
  <2>1. PICK d \in Root : S[d].dir /\ S[d].name = q[1] /\ v[1] \in Chain(T, S[d].first)
    BY <1>2 DEF Spots
  <2>2. ASSUME NEW b \in Root, S[b].dir, v[1] \in Chain(T, S[b].first) PROVE b = d
    BY <2>1, <2>2, SeenApart
  <2>3. v \notin Root
    BY <1>2, InRoot
  <2>. QED  BY <1>2, <2>1, <2>2, <2>3 DEF OneSpot, SameFolders
<1>. QED  BY <1>1, <1>2

(* The disk shows what the memory does, if it has the same chains.         *)
LEMMA DiskShows ==
    ASSUME NEW T, NEW dk, NEW S \in [Addresses -> Entry], NEW D, OnDisk(T, dk, S)
    PROVE  /\ SameRead(T, S, D, dk, S, D) /\ SameFolders(T, dk, S)
           /\ \A p \in Paths : Found(dk, S, p) = Found(T, S, p) /\ View(dk, S, D, p) = View(T, S, D, p)
<1>1. SameRead(T, S, D, dk, S, D)
  BY DEF SameRead, OnDisk
<1>. QED  BY <1>1, ViewSame, SpotsSame

(* A change to what nobody reads leaves all as it was.                     *)
LEMMA StaysUnchanged ==
    ASSUME NEW T, NEW dk, NEW S \in [Addresses -> Entry], NEW D, NEW K, Unchanged(T, dk, S, D, K),
           NEW U, NEW V, NEW E, SameRead(T, S, D, U, V, E)
    PROVE  Unchanged(U, dk, V, E, K)
<1>0. Seen(U, V) = Seen(T, S)
  BY SpotsSame
<1>1. ASSUME NEW a \in Seen(U, V), NEW x \in Chain(U, V[a].first) PROVE dk[x] = U[x]
  <2>1. a \in Seen(T, S) /\ V[a] = S[a]
    BY <1>0 DEF Seen, SameRead
  <2>2. \A y \in Chain(T, S[a].first) : U[y] = T[y]
    BY <2>1 DEF SameRead
  <2>3. Chain(U, V[a].first) = Chain(T, S[a].first)
    BY <2>1, <2>2, ChainSame
  <2>. QED  BY <2>1, <2>2, <2>3 DEF Unchanged, OnDisk
<1>2. Named(U, V)
  BY NamedSame DEF Unchanged
<1>3. \A p \in Paths : View(U, V, E, p) = K[p]
  BY ViewSame DEF Unchanged
<1>. QED  BY <1>1, <1>2, <1>3 DEF Unchanged, OnDisk
-----------------------------------------------------------------------------
(* What the operations do, to the paths they are about and to the others.  *)

(* Names are apart, and memory and disk show what was kept.                *)
Ready(T, dk, S, D, K) ==
    /\ Named(T, S)
    /\ \A p \in Paths : View(T, S, D, p) = K[p] /\ View(dk, S, D, p) = K[p]

(* A call still in order finds a volume that shows what was kept.          *)
LEMMA UnchangedReady ==
    ASSUME NEW T, NEW dk, NEW S \in [Addresses -> Entry], NEW D, NEW K, Unchanged(T, dk, S, D, K)
    PROVE  Ready(T, dk, S, D, K)
BY DiskShows DEF Ready, Unchanged

(* The FAT in memory shows what is wanted, the disk at least what the call *)
(* was not about.                                                          *)
Shows(T, dk, V, D, m, K) ==
    /\ Named(T, V)
    /\ \A p \in Paths : View(T, V, D, p) = Wanted(m, K, p)
    /\ \A p \in Paths : Untouched(m, p) => View(dk, V, D, p) = K[p]

(* Freeing what no entry leads to changes nothing.                         *)
LEMMA ShowsFreed ==
    ASSUME NEW T, NEW dk, NEW V \in [Addresses -> Entry], NEW D, NEW m, NEW K, Shows(T, dk, V, D, m, K),
           NEW U, \A a \in Seen(T, V) : \A x \in Chain(T, V[a].first) : U[x] = T[x]
    PROVE  Shows(U, dk, V, D, m, K)
<1>1. SameRead(T, V, D, U, V, D)
  BY DEF SameRead
<1>. QED  BY <1>1, ViewSame, NamedSame DEF Shows

(* If it is the same slots that are found, the same is read.               *)
LEMMA SlotsSame ==
    ASSUME NEW T, NEW S, NEW D, NEW V, NEW p,
           Found(T, V, p) = Found(T, S, p), \A a \in Found(T, S, p) : V[a] = S[a]
    PROVE  View(T, V, D, p) = View(T, S, D, p)
BY FoundSame

(* Nothing is under a path where nothing is.                               *)
LEMMA NothingUnder ==
    ASSUME NEW T, NEW S, NEW q \in Paths, NEW p \in Paths, Under(q, p),
           \A a \in Found(T, S, q) : ~S[a].dir, p # q \/ Found(T, S, q) = {}
    PROVE  Found(T, S, p) = {}
<1>1. CASE p = q
  BY <1>1
<1>2. CASE p # q
  <2>1. Len(q) = 1 /\ Len(p) = 2 /\ p[1] = q[1] /\ Last(q) = q[1]
    BY <1>2, UnderIs, PathIs
  <2>2. \A b \in Root : S[b].dir => S[b].name # p[1]
    BY <2>1 DEF Found, Spots
  <2>. QED  BY <2>1, <2>2 DEF Found, Spots
<1>. QED  BY <1>1, <1>2

(* write_file of a file that was there.                                    *)
LEMMA OverwriteShows ==
    ASSUME NEW T, NEW dk, NEW S \in [Addresses -> Entry], NEW D, NEW K, Ready(T, dk, S, D, K),
           NEW m, m.op = "write", m.path \in Paths, m.to = m.path,
           NEW v \in Found(T, S, m.path), ~S[v].dir, OneSpot(T, S, v, m.path), OneSpot(dk, S, v, m.path),
           m.entry \in Entry, ~m.entry.dir, m.entry.name = S[v].name,
           Shown(T, D, m.entry) = [i \in 1 .. m.entry.size |-> <<m.path, m.entry.size, i>>],
           NEW V, V = Put(S, v, m.entry)
    PROVE  Shows(T, dk, V, D, m, K)
<1>0. v \in Addresses /\ S[v].name = Last(m.path)
  BY FoundSeen
<1>1. \A U : \A p \in Paths : Found(U, V, p) = Found(U, S, p)
  BY <1>0, Rewritten, SMTT(20)
<1>2. Named(T, V)
  BY <1>0, Rewritten DEF Ready
<1>3. ASSUME NEW U, OneSpot(U, S, v, m.path), NEW p \in Paths, p # m.path
      PROVE  View(U, V, D, p) = View(U, S, D, p)
  <2>1. v \notin Found(U, S, p)
    BY <1>0, <1>3, OnePath DEF Found
  <2>2. \A a \in Found(U, S, p) : V[a] = S[a]
    BY <2>1, FoundSeen DEF Put
  <2>. QED  BY <1>1, <2>2, SlotsSame
<1>4. View(T, V, D, m.path) = Wanted(m, K, m.path)
  <2>1. \A a \in Found(T, S, m.path) : a = v
    BY FoundOne DEF Ready
  <2>2. Found(T, V, m.path) = {v}
    BY <1>1, <2>1
  <2>3. View(T, V, D, m.path) = Shown(T, D, V[v])
    BY <2>2, ViewIs
  <2>. QED  BY <1>0, <2>3 DEF Wanted, Put
<1>5. ASSUME NEW p \in Paths, p # m.path PROVE View(T, V, D, p) = Wanted(m, K, p)
  BY <1>3, <1>5 DEF Wanted, Ready
<1>6. ASSUME NEW p \in Paths, Untouched(m, p) PROVE View(dk, V, D, p) = K[p]
  <2>1. p # m.path
    BY <1>6, UnderIs DEF Untouched
  <2>. QED  BY <1>3, <2>1 DEF Ready
<1>. QED  BY <1>2, <1>4, <1>5, <1>6 DEF Shows

(* write_file of a new one, and create_dir.                                *)
LEMMA NewShows ==
    ASSUME NEW T, NEW dk, NEW S \in [Addresses -> Entry], NEW D, NEW K, Ready(T, dk, S, D, K),
           NEW m, m.op \in {"write", "create_dir"}, m.path \in Paths, m.to = m.path,
           Found(T, S, m.path) = {}, NEW v \in Spots(T, S, m.path), S[v] = NoEntry,
           OneSpot(T, S, v, m.path), OneSpot(dk, S, v, m.path),
           m.entry \in Entry, m.entry.name = Last(m.path),
           m.entry.dir <=> m.op = "create_dir", m.entry.dir <=> m.path \notin Files,
           m.op = "write" => Shown(T, D, m.entry) = [i \in 1 .. m.entry.size |-> <<m.path, m.entry.size, i>>],
           \A a \in Addresses : a[1] \in Chain(T, m.entry.first) => S[a] = NoEntry,
           NEW V, V = Put(S, v, m.entry)
    PROVE  Shows(T, dk, V, D, m, K)
<1>. DEFINE q == m.path
            e == m.entry
<1>0. v \in Addresses /\ Named(T, S) /\ q \in Paths
  BY FoundSeen DEF Ready
<1>1. NamesIn(T, S, e.first)
  BY DEF NamesIn, NoEntry
<1>2. /\ Found(T, V, q) = {v} /\ V[v] = e
      /\ \A p \in Paths : Under(q, p) /\ p # q =>
             Found(T, V, p) = IF e.dir THEN NamedIn(T, S, e.first, Last(p)) ELSE {}
      /\ Named(T, V)
  <2>. HIDE DEF q, e
  <2>1. Found(T, S, q) = {} /\ v \in Spots(T, S, q) /\ OneSpot(T, S, v, q) /\ e \in Entry /\ e.name = Last(q)
    BY DEF q, e
  <2>2. (e.dir <=> q \notin Files) /\ V = Put(S, v, e)
    BY DEF q, e
  <2>. QED  BY <1>0, <1>1, <2>1, <2>2, PutThere
<1>3. ASSUME NEW U, OneSpot(U, S, v, q), NEW p \in Paths, ~Under(q, p)
      PROVE  View(U, V, D, p) = View(U, S, D, p)
  <2>1. Found(U, V, p) = Found(U, S, p) /\ \A a \in Found(U, S, p) : V[a] = S[a]
    BY <1>0, <1>3, PutElsewhere
  <2>. QED  BY <2>1, SlotsSame
<1>4. View(T, V, D, q) = Wanted(m, K, q)
  <2>0. View(T, V, D, q) = Shown(T, D, V[v])
    <3>1. Found(T, V, q) = {v}
      BY <1>2
    <3>. HIDE DEF q, e
    <3>. QED  BY <3>1, ViewIs
  <2>1. View(T, V, D, q) = Shown(T, D, e)
    BY <1>2, <2>0
  <2>2. CASE m.op = "write"
    BY <2>1, <2>2 DEF Wanted
  <2>3. CASE m.op = "create_dir"
    BY <2>1, <2>3 DEF Wanted, Shown
  <2>. QED  BY <2>2, <2>3
<1>5. ASSUME NEW p \in Paths, p # q, Under(q, p) PROVE View(T, V, D, p) = Wanted(m, K, p)
  <2>1. NamedIn(T, S, e.first, Last(p)) = {}
    BY PathIs DEF NamedIn, NoEntry
  <2>2. Found(T, V, p) = {}
    BY <1>2, <1>5, <2>1
  <2>3. Found(T, S, p) = {}
    BY <1>0, <1>5, NothingUnder
  <2>4. K[p] = Absent
    BY <2>3 DEF Ready, View
  <2>5. Wanted(m, K, p) = K[p]
    BY <1>5 DEF Wanted
  <2>. QED  BY <2>2, <2>4, <2>5 DEF View
<1>6. ASSUME NEW p \in Paths, ~Under(q, p) PROVE View(T, V, D, p) = Wanted(m, K, p)
  <2>1. p # q
    BY <1>0, <1>6, UnderIs
  <2>2. Wanted(m, K, p) = K[p]
    BY <2>1 DEF Wanted
  <2>. QED  BY <1>3, <1>6, <2>2 DEF Ready
<1>7. ASSUME NEW p \in Paths, Untouched(m, p) PROVE View(dk, V, D, p) = K[p]
  BY <1>3, <1>7 DEF Untouched, Ready
<1>. QED  BY <1>2, <1>4, <1>5, <1>6, <1>7 DEF Shows

(* remove_file and remove.                                                 *)
LEMMA RemovedShows ==
    ASSUME NEW T, NEW dk, NEW S \in [Addresses -> Entry], NEW D, NEW K, Ready(T, dk, S, D, K),
           NEW m, m.op \in {"remove_file", "remove"}, m.path \in Paths,
           NEW v \in Found(T, S, m.path), OneSpot(T, S, v, m.path), OneSpot(dk, S, v, m.path),
           NEW V, V = Put(S, v, NoEntry)
    PROVE  Shows(T, dk, V, D, m, K)
<1>0. v \in Addresses /\ S[v].name = Last(m.path)
  BY FoundSeen
<1>1. Named(T, V) /\ \A p \in Paths : Under(m.path, p) => Found(T, V, p) = {}
  BY DeletedThere DEF Ready
<1>2. ASSUME NEW U, OneSpot(U, S, v, m.path), NEW p \in Paths, ~Under(m.path, p)
      PROVE  View(U, V, D, p) = View(U, S, D, p)
  <2>1. Found(U, V, p) = Found(U, S, p) /\ \A a \in Found(U, S, p) : V[a] = S[a]
    BY <1>0, <1>2, DeletedElsewhere, SMTT(20)
  <2>. QED  BY <2>1, SlotsSame
<1>3. ASSUME NEW p \in Paths PROVE View(T, V, D, p) = Wanted(m, K, p)
  <2>1. CASE Under(m.path, p)
    BY <1>1, <2>1 DEF View, Wanted
  <2>2. CASE ~Under(m.path, p)
    BY <1>2, <2>2 DEF Wanted, Ready
  <2>. QED  BY <2>1, <2>2
<1>4. ASSUME NEW p \in Paths, Untouched(m, p) PROVE View(dk, V, D, p) = K[p]
  BY <1>2, <1>4 DEF Untouched, Ready
<1>. QED  BY <1>1, <1>3, <1>4 DEF Shows

(* rename: what is found under the new path is what was found under the    *)
(* old one, also in a folder.                                              *)

(* Where a name of the renamed folder's was found.                         *)
LEMMA RenamedPath ==
    ASSUME NEW from \in Paths, NEW to \in Paths, NEW p \in Paths, Under(to, p)
    PROVE  LET q == from \o SubSeq(p, Len(to) + 1, Len(p))
           IN  IF p = to THEN q = from
               ELSE /\ Len(to) = 1 /\ Len(p) = 2 /\ p[1] = to[1] /\ Last(p) = p[2]
                    /\ q = from \o <<p[2]>>
                    /\ IF Len(from) = 1 THEN q = <<from[1], p[2]>> ELSE q \notin Paths
<1>1. CASE p = to
  <2>1. SubSeq(p, Len(p) + 1, Len(p)) = <<>>
    <3>1. p = <<p[1]>> \/ p = <<p[1], p[2]>>
      BY PathIs
    <3>2. Len(p) + 1 \in Int /\ Len(p) \in Int /\ Len(p) < Len(p) + 1
      BY PathIs
    <3>. QED  BY <3>2, SubSeqEmpty
  <2>2. from \o <<>> = from
    <3>. DEFINE R == Range(from)
    <3>1. from \in Seq(R)
      BY Fat16Assumption
    <3>. HIDE DEF R
    <3>. QED  BY <3>1, ConcatEmptySeq
  <2>. QED  BY <1>1, <2>1, <2>2
<1>2. CASE p # to
  <2>1. Len(to) = 1 /\ Len(p) = 2 /\ p[1] = to[1] /\ Last(p) = p[2] /\ p = <<p[1], p[2]>>
    BY <1>2, UnderIs, PathIs
  <2>2. SubSeq(p, 2, 2) = <<p[2]>>
    <3>. DEFINE s == SubSeq(p, 2, 2)
                R == Range(p)
    <3>1. p \in Seq(R) /\ Len(p) = 2
      BY <2>1, Fat16Assumption
    <3>2. \A i \in 2 .. 2 : p[i] \in R
      <4>1. \A i \in 2 .. 2 : i = 2 /\ i \in 1 .. Len(p)
        BY <3>1
      <4>. HIDE DEF R
      <4>. QED  BY <3>1, <4>1, ElementOfSeq
    <3>3. s \in Seq(R) /\ Len(s) = 1 /\ s[1] = p[2]
      <4>. HIDE DEF R
      <4>. QED  BY <3>2, SubSeqProperties
    <3>4. <<p[2]>> \in Seq(R) /\ Len(<<p[2]>>) = 1 /\ <<p[2]>>[1] = p[2]
      BY <3>2
    <3>5. \A i \in 1 .. Len(s) : s[i] = <<p[2]>>[i]
      BY <3>3, <3>4
    <3>. HIDE DEF R, s
    <3>6. s = <<p[2]>>
      BY <3>3, <3>4, <3>5, SeqEqual
    <3>. QED  BY <3>6 DEF s
  <2>3. from \o SubSeq(p, Len(to) + 1, Len(p)) = from \o <<p[2]>>
    BY <2>1, <2>2
  <2>4. CASE Len(from) = 1
    <3>1. from = <<from[1]>>
      BY <2>4, PathIs
    <3>2. ASSUME NEW x, NEW y PROVE <<x>> \o <<y>> = <<x, y>>
      <4>. DEFINE R == {x, y}
                  s == <<x>> \o <<y>>
      <4>1. <<x>> \in Seq(R) /\ <<y>> \in Seq(R) /\ Len(<<x>>) = 1 /\ Len(<<y>>) = 1
        OBVIOUS
      <4>2. <<x>>[1] = x /\ <<y>>[1] = y
        OBVIOUS
      <4>3. <<x, y>> \in Seq(R) /\ Len(<<x, y>>) = 2 /\ <<x, y>>[1] = x /\ <<x, y>>[2] = y
        OBVIOUS
      <4>4. s \in Seq(R) /\ Len(s) = 2
            /\ \A i \in 1 .. 2 : s[i] = IF i <= 1 THEN <<x>>[i] ELSE <<y>>[i - 1]
        <5>. HIDE DEF R
        <5>. QED  BY <4>1, ConcatProperties
      <4>5. \A i \in 1 .. Len(s) : s[i] = <<x, y>>[i]
        BY <4>2, <4>3, <4>4
      <4>. HIDE DEF R, s
      <4>6. s = <<x, y>>
        BY <4>3, <4>4, <4>5, SeqEqual
      <4>. QED  BY <4>6 DEF s
    <3>3. from \o <<p[2]>> = <<from[1], p[2]>>
      BY <3>1, <3>2
    <3>. QED  BY <1>2, <2>1, <2>3, <2>4, <3>3
  <2>5. CASE Len(from) # 1
    <3>1. from = <<from[1], from[2]>>
      BY <2>5, PathIs
    <3>2. \A x, y, z : Len(<<x, y>> \o <<z>>) = 3
      OBVIOUS
    <3>3. Len(from \o <<p[2]>>) = 3
      BY <3>1, <3>2
    <3>4. from \o <<p[2]>> \notin Paths
      <4>1. ASSUME NEW q \in Paths PROVE Len(q) # 3
        BY PathIs
      <4>. QED  BY <3>3, <4>1
    <3>. QED  BY <1>2, <2>1, <2>3, <2>5, <3>4
  <2>. QED  BY <2>4, <2>5
<1>. QED  BY <1>1, <1>2

(* What a rename needs: an entry at its old path, none at the new one, and *)
(* a slot for it there.                                                    *)
Movable(T, dk, S, m, v, e) ==
    /\ m.path \in Paths /\ m.to \in Paths /\ m.op = "rename"
    /\ m.old \in Found(T, S, m.path)
    /\ OneSpot(T, S, m.old, m.path) /\ OneSpot(dk, S, m.old, m.path)
    /\ Found(T, S, m.to) = {}
    /\ v \in Spots(T, S, m.to) /\ S[v] = NoEntry
    /\ OneSpot(T, S, v, m.to) /\ OneSpot(dk, S, v, m.to)
    /\ e \in Entry /\ e = [S[m.old] EXCEPT !.name = Last(m.to)]
    /\ e.dir <=> m.to \notin Files

(* The new path is not in what is renamed, nor the old in the new.         *)
LEMMA MovableApart ==
    ASSUME NEW T, NEW dk, NEW S \in [Addresses -> Entry], Named(T, S), RootDirs(S), NEW m, NEW v, NEW e,
           Movable(T, dk, S, m, v, e)
    PROVE  /\ m.old \in Addresses /\ v \in Addresses /\ m.old # v
           /\ S[m.old].name = Last(m.path)
           /\ ~Under(m.path, m.to) /\ ~Under(m.to, m.path)
           /\ e.name = Last(m.to) /\ e.dir = S[m.old].dir /\ e.first = S[m.old].first /\ e.size = S[m.old].size
           /\ e.dir => /\ Len(m.path) = 1 /\ m.old \in Root /\ m.path \in Paths \ Files
                       /\ Len(m.to) = 1 /\ v \in Root
<1>. DEFINE from == m.path
            to == m.to
            old == m.old
<1>1. from \in Paths /\ to \in Paths /\ old \in Found(T, S, from) /\ v \in Spots(T, S, to)
  BY DEF Movable
<1>2. old \in Addresses /\ S[old] # NoEntry /\ S[old].name = Last(from) /\ old \in Spots(T, S, from)
      /\ v \in Addresses
  <2>. HIDE DEF from, to, old
  <2>. QED  BY <1>1, FoundSeen
<1>3. old # v
  BY <1>2 DEF Movable
<1>4. e.name = Last(to) /\ e.dir = S[old].dir /\ e.first = S[old].first /\ e.size = S[old].size
  <2>1. S[old] \in Entry /\ e = [S[old] EXCEPT !.name = Last(to)]
    BY <1>2 DEF Movable
  <2>. HIDE DEF to, old
  <2>. QED  BY <2>1 DEF Entry
<1>5. e.dir => Len(from) = 1 /\ old \in Root /\ from \in Paths \ Files /\ Len(to) = 1 /\ v \in Root
  <2>. SUFFICES ASSUME e.dir PROVE Len(from) = 1 /\ old \in Root /\ from \in Paths \ Files /\ Len(to) = 1 /\ v \in Root
    OBVIOUS
  <2>1. old \in Root
    BY <1>2, <1>4, RootIs DEF RootDirs
  <2>2. Len(from) = 1
    <3>. HIDE DEF from, old
    <3>. QED  BY <1>1, <1>2, <2>1, InRoot
  <2>3. <<S[old].name>> \in Paths \ Files
    BY <1>4, <2>1 DEF Named, FolderNames
  <2>4. from = <<S[old].name>>
    <3>. HIDE DEF from, old
    <3>. QED  BY <1>1, <1>2, <2>2, PathIs
  <2>5. Len(to) = 1
    BY <1>1, Fat16Assumption DEF Movable
  <2>6. v \in Root
    <3>. HIDE DEF to
    <3>. QED  BY <1>1, <2>5, InRoot
  <2>. QED  BY <2>1, <2>2, <2>3, <2>4, <2>5, <2>6
<1>6. Found(T, S, to) = {}
  BY DEF Movable
<1>7. ~Under(to, from)
  <2>. HIDE DEF from, to, old
  <2>1. ASSUME Under(to, from) PROVE FALSE
    <3>1. Found(T, S, from) = {}
      BY <1>1, <1>6, <2>1, NothingUnder
    <3>. QED  BY <1>1, <3>1
  <2>. QED  BY <2>1
<1>8. ~Under(from, to)
  <2>. SUFFICES ASSUME Under(from, to) PROVE FALSE
    OBVIOUS
  <2>1. to # from /\ Len(from) = 1 /\ Len(to) = 2 /\ to[1] = from[1] /\ Last(from) = from[1]
    <3>. HIDE DEF from, to, old
    <3>. QED  BY <1>1, <1>7, UnderIs, PathIs
  <2>2. PICK b \in Root : S[b].dir /\ S[b].name = to[1]
    BY <1>1, <2>1 DEF Spots
  <2>3. old \in Root
    <3>. HIDE DEF from, to, old
    <3>. QED  BY <1>1, <1>2, <2>1, InRoot
  <2>4. b = old
    <3>1. S[b].name = S[old].name /\ S[b].name # None
      <4>. HIDE DEF from, to, old
      <4>. QED  BY <1>1, <1>2, <2>1, <2>2, PathIs
    <3>. QED  BY <2>2, <2>3, <3>1 DEF Named, NamesApart
  <2>. QED  BY <1>4, <1>5, <2>1, <2>2, <2>4
<1>. QED  BY <1>2, <1>3, <1>4, <1>5, <1>7, <1>8

(* Once the entry is at both.                                              *)
LEMMA MovedShows ==
    ASSUME NEW T, NEW dk, NEW S \in [Addresses -> Entry], NEW D, NEW K, Ready(T, dk, S, D, K), RootDirs(S),
           Alike, NEW m, NEW v, NEW e, Movable(T, dk, S, m, v, e),
           NEW V, V = Put(S, v, e), NEW W, W = Put(V, m.old, NoEntry)
    PROVE  /\ Shows(T, dk, W, D, m, K)
           /\ \A p \in Paths : Untouched(m, p) => View(dk, V, D, p) = K[p]
<1>. DEFINE from == m.path
            to == m.to
            old == m.old
<1>1. from \in Paths /\ to \in Paths /\ old \in Found(T, S, from) /\ Found(T, S, to) = {}
      /\ v \in Spots(T, S, to) /\ S[v] = NoEntry /\ m.op = "rename"
      /\ OneSpot(T, S, v, to) /\ OneSpot(dk, S, v, to) /\ OneSpot(T, S, old, from) /\ OneSpot(dk, S, old, from)
      /\ e \in Entry /\ (e.dir <=> to \notin Files)
  BY DEF Movable
<1>2. Named(T, S) /\ \A p \in Paths : View(T, S, D, p) = K[p] /\ View(dk, S, D, p) = K[p]
  BY DEF Ready
<1>3. /\ old \in Addresses /\ v \in Addresses /\ old # v
      /\ S[old].name = Last(from)
      /\ ~Under(from, to) /\ ~Under(to, from)
      /\ e.name = Last(to) /\ e.dir = S[old].dir /\ e.first = S[old].first /\ e.size = S[old].size
      /\ e.dir => Len(from) = 1 /\ old \in Root /\ from \in Paths \ Files /\ Len(to) = 1 /\ v \in Root
  BY <1>2, MovableApart
<1>. HIDE DEF from, to, old
<1>4. V[old] = S[old] /\ V[v] = e /\ V \in [Addresses -> Entry]
  BY <1>1, <1>3 DEF Put
<1>5. W = Put(V, old, NoEntry)
  BY DEF old
<1>6. e.dir => NamesIn(T, S, e.first)
  BY <1>2, <1>3 DEF Named, NamesApart, NamesIn
<1>7. /\ Found(T, V, to) = {v}
      /\ \A p \in Paths : Under(to, p) /\ p # to =>
             Found(T, V, p) = IF e.dir THEN NamedIn(T, S, e.first, Last(p)) ELSE {}
      /\ Named(T, V)
  BY <1>1, <1>2, <1>3, <1>6, PutThere
<1>8. ASSUME NEW U, OneSpot(U, S, v, to), NEW p \in Paths, ~Under(to, p)
      PROVE  Found(U, V, p) = Found(U, S, p) /\ \A a \in Found(U, S, p) : V[a] = S[a]
  BY <1>1, <1>3, <1>8, PutElsewhere
<1>9. ASSUME NEW U, OneSpot(U, S, old, from) PROVE OneSpot(U, V, old, from)
  <2>1. CASE Len(from) = 1
    BY <1>9, <2>1 DEF OneSpot
  <2>2. CASE Len(from) # 1
    <3>1. ~e.dir /\ ~V[v].dir
      BY <1>3, <1>4, <2>2
    <3>2. \A b \in Addresses : b # v => V[b] = S[b]
      BY DEF Put
    <3>. QED  BY <1>9, <2>2, <3>1, <3>2, RootIs DEF OneSpot
  <2>. QED  BY <2>1, <2>2
<1>10. ASSUME NEW U, OneSpot(U, S, old, from), NEW p \in Paths, ~Under(from, p)
       PROVE  Found(U, W, p) = Found(U, V, p) /\ \A a \in Found(U, V, p) : W[a] = V[a]
  <2>1. OneSpot(U, V, old, from) /\ V[old].name = Last(from)
    BY <1>3, <1>4, <1>9, <1>10
  <2>. QED  BY <1>1, <1>3, <1>4, <1>5, <1>10, <2>1, DeletedElsewhere
<1>11. old \in Found(T, V, from)
  BY <1>1, <1>3, <1>8
<1>12. Named(T, W) /\ \A p \in Paths : Under(from, p) => Found(T, W, p) = {}
  BY <1>1, <1>4, <1>5, <1>7, <1>11, DeletedThere
<1>13. ASSUME NEW p \in Paths, Untouched(m, p)
       PROVE  View(dk, V, D, p) = K[p] /\ View(dk, W, D, p) = K[p]
  <2>1. ~Under(from, p) /\ ~Under(to, p)
    BY <1>13 DEF Untouched, from, to
  <2>2. View(dk, V, D, p) = View(dk, S, D, p)
    BY <1>1, <1>8, <2>1, SlotsSame
  <2>3. View(dk, W, D, p) = View(dk, V, D, p)
    BY <1>1, <1>10, <2>1, SlotsSame
  <2>. QED  BY <1>2, <2>2, <2>3
<1>14. ASSUME NEW p \in Paths, Under(from, p) PROVE View(T, W, D, p) = Wanted(m, K, p)
  <2>1. View(T, W, D, p) = Absent
    BY <1>12, <1>14 DEF View
  <2>2. ~Under(to, p)
    <3>1. \A r \in {from, to} : Under(r, p) => p = r \/ (Len(r) = 1 /\ Len(p) = 2 /\ p[1] = r[1])
      BY <1>1, UnderIs
    <3>2. to # from
      BY <1>1, <1>3, UnderIs
    <3>3. Len(to) = 1 /\ Len(from) = 1 => to[1] # from[1]
      BY <1>1, <3>2, PathIs
    <3>4. Under(to, p) => p # from
      BY <1>3
    <3>5. p # to
      BY <1>3, <1>14
    <3>. QED  BY <1>14, <3>1, <3>3, <3>4, <3>5
  <2>3. Wanted(m, K, p) = Absent
    BY <1>1, <1>14, <2>2 DEF Wanted, from, to
  <2>. QED  BY <2>1, <2>3
<1>15. ASSUME NEW p \in Paths, ~Under(from, p), ~Under(to, p) PROVE View(T, W, D, p) = Wanted(m, K, p)
  <2>1. View(T, V, D, p) = View(T, S, D, p)
    BY <1>1, <1>8, <1>15, SlotsSame
  <2>2. View(T, W, D, p) = View(T, V, D, p)
    BY <1>1, <1>10, <1>15, SlotsSame
  <2>3. Wanted(m, K, p) = K[p]
    BY <1>1, <1>15 DEF Wanted, from, to
  <2>. QED  BY <1>2, <2>1, <2>2, <2>3
<1>16. ASSUME NEW p \in Paths, Under(to, p)
       PROVE  Wanted(m, K, p) = IF from \o SubSeq(p, Len(to) + 1, Len(p)) \in Paths
                                THEN K[from \o SubSeq(p, Len(to) + 1, Len(p))] ELSE Absent
  BY <1>1, <1>16 DEF Wanted, from, to
<1>17. View(T, W, D, to) = Wanted(m, K, to)
  <2>1. Wanted(m, K, to) = K[from]
    <3>1. Under(to, to)
      BY <1>1, UnderIs
    <3>2. from \o SubSeq(to, Len(to) + 1, Len(to)) = from
      BY <1>1, <3>1, RenamedPath
    <3>. QED  BY <1>1, <1>16, <3>1, <3>2
  <2>2. View(T, W, D, to) = View(T, V, D, to)
    BY <1>1, <1>3, <1>10, SlotsSame
  <2>3. View(T, V, D, to) = Shown(T, D, V[v])
    BY <1>7, ViewIs
  <2>4. Shown(T, D, e) = Shown(T, D, S[old])
    BY <1>3 DEF Shown
  <2>5. View(T, S, D, from) = Shown(T, D, S[old])
    <3>1. Found(T, S, from) = {old}
      BY <1>1, <1>2, FoundOne
    <3>. QED  BY <3>1, ViewIs
  <2>. QED  BY <1>1, <1>2, <1>4, <2>1, <2>2, <2>3, <2>4, <2>5
<1>18. ASSUME NEW p \in Paths, ~Under(from, p), Under(to, p), p # to
       PROVE  View(T, W, D, p) = Wanted(m, K, p)
  <2>. DEFINE q == from \o SubSeq(p, Len(to) + 1, Len(p))
  <2>1. /\ Len(to) = 1 /\ Len(p) = 2 /\ p[1] = to[1] /\ Last(p) = p[2]
        /\ IF Len(from) = 1 THEN q = <<from[1], p[2]>> ELSE q \notin Paths
    BY <1>1, <1>18, RenamedPath, ZenonT(60)
  <2>2. Wanted(m, K, p) = IF q \in Paths THEN K[q] ELSE Absent
    BY <1>16, <1>18
  <2>3. View(T, W, D, p) = View(T, V, D, p)
    BY <1>1, <1>10, <1>18, SlotsSame
  <2>4. CASE ~e.dir
    <3>1. View(T, V, D, p) = Absent
      BY <1>7, <1>18, <2>4 DEF View
    <3>2. ASSUME q \in Paths PROVE K[q] = Absent
      <4>1. Len(from) = 1 /\ q = <<from[1], p[2]>>
        BY <2>1, <3>2
      <4>2. Under(from, q) /\ q # from
        <5>. HIDE DEF q
        <5>1. Len(q) = 2 /\ q[1] = from[1]
          <6>1. \A x, y : Len(<<x, y>>) = 2 /\ <<x, y>>[1] = x
            OBVIOUS
          <6>. QED  BY <4>1, <6>1
        <5>. QED  BY <1>1, <3>2, <4>1, <5>1, UnderIs
      <4>3. \A a \in Found(T, S, from) : ~S[a].dir
        BY <1>1, <1>2, <1>3, <2>4, FoundOne
      <4>4. Found(T, S, q) = {}
        <5>. HIDE DEF q
        <5>. QED  BY <1>1, <3>2, <4>2, <4>3, NothingUnder
      <4>. QED  BY <1>2, <3>2, <4>4 DEF View
    <3>. QED  BY <2>2, <2>3, <3>1, <3>2
  <2>5. CASE e.dir
    <3>1. Len(from) = 1 /\ from \in Paths \ Files /\ old \in Root /\ v \in Root
      BY <1>3, <2>5
    <3>2. q = <<from[1], p[2]>> /\ q \in Paths /\ q[1] = from[1] /\ q[2] = p[2] /\ Len(q) = 2
      <4>1. q = <<from[1], p[2]>>
        BY <2>1, <3>1
      <4>2. <<from[1], p[2]>> \in Paths
        BY <1>18, <2>1, <3>1 DEF Alike
      <4>3. \A x, y : Len(<<x, y>>) = 2 /\ <<x, y>>[1] = x /\ <<x, y>>[2] = y
        OBVIOUS
      <4>. HIDE DEF q
      <4>. QED  BY <4>1, <4>2, <4>3
    <3>3. Found(T, V, p) = NamedIn(T, S, e.first, Last(p))
      BY <1>7, <1>18, <2>5
    <3>. HIDE DEF q
    <3>4. Last(q) = Last(p)
      BY <2>1, <3>2, PathIs
    <3>5. \A b \in Root : S[b].dir /\ S[b].name = q[1] <=> b = old
      <4>1. S[old].dir /\ S[old].name = q[1] /\ q[1] # None
        BY <1>1, <1>3, <2>5, <3>1, <3>2, PathIs
      <4>. QED  BY <1>2, <3>1, <4>1 DEF Named, NamesApart
    <3>6. Spots(T, S, q) = {a \in Addresses : a[1] \in Chain(T, e.first)}
      BY <1>3, <3>1, <3>2, <3>5 DEF Spots
    <3>7. Found(T, S, q) = Found(T, V, p)
      BY <3>3, <3>4, <3>6 DEF Found, NamedIn
    <3>8. ASSUME NEW a \in Found(T, S, q) PROVE V[a] = S[a]
      <4>1. a \in Addresses /\ a \in Spots(T, S, q)
        BY <3>2, FoundSeen
      <4>2. a # v
        BY <3>1, <3>2, <4>1, InRoot
      <4>. QED  BY <4>1, <4>2 DEF Put
    <3>9. View(T, V, D, p) = View(T, S, D, q)
      BY <3>7, <3>8, FoundSame
    <3>. QED  BY <1>2, <2>2, <2>3, <3>2, <3>9
  <2>. QED  BY <2>4, <2>5
<1>19. \A p \in Paths : View(T, W, D, p) = Wanted(m, K, p)
  BY <1>14, <1>15, <1>17, <1>18
<1>. QED  BY <1>12, <1>13, <1>19 DEF Shows
-----------------------------------------------------------------------------
(* A file's data.                                                          *)

(* What a claim does to the task, and to the data of a file.               *)
ClaimsMore(k, m) ==
    /\ m.op = k.op /\ m.path = k.path /\ m.to = k.to /\ m.loc = k.loc /\ m.old = k.old /\ m.failed = k.failed
    /\ m.todo = k.todo - 1 /\ m.last = k.found
    /\ m.pc = IF k.todo - 1 = 0 THEN "entry" ELSE "data"
    /\ m.entry.first = FirstOf(k)
    /\ m.entry.name = k.entry.name /\ m.entry.dir = k.entry.dir /\ m.entry.size = k.entry.size
Writes(D, E, k) ==
    /\ \A x \in Clusters : x # k.found => E[x] = D[x]
    /\ k.op = "write" => E[k.found] = <<k.path, k.entry.size, k.entry.size - (k.todo - 1)>>

(* One cluster more, and what it holds is next.                            *)
LEMMA FilledGrows ==
    ASSUME NEW T, NEW S, NEW k, NEW L, Good(T, S, k, L), k.op = "write", k.pc = "claim",
           NEW D, Filled(T, D, k), NEW U, Extends(T, U, k.last, k.found),
           NEW E, Writes(D, E, k), NEW m, ClaimsMore(k, m)
    PROVE  Filled(U, E, m)
<1>. DEFINE n == k.entry.size - k.todo
            c == FirstOf(k)
            f == k.found
<1>1. k.entry.size \in Nat /\ k.todo \in Int /\ n \in Nat
  BY DEF Good, Typed, TaskRec, Entry, Filled
<1>2. f \in Clusters /\ T[f] = Free /\ U[f] = EOC
  BY DEF Good, TaskOK, Makes, Prepares, Extends
<1>3. IF k.entry.first = Free THEN k.last = Free ELSE k.last \in Chain(T, k.entry.first) /\ T[k.last] = EOC
  BY DEF Good, TaskOK, Makes, Prepares
<1>4. m.entry.size - m.todo = n + 1 /\ m.path = k.path /\ m.entry.size = k.entry.size /\ m.entry.first = c
      /\ m.last = f /\ (m.pc = "entry" => m.todo = 0)
  BY <1>1 DEF ClaimsMore
<1>5. E[f] = <<k.path, k.entry.size, n + 1>>
  <2>1. k.entry.size - (k.todo - 1) = n + 1
    BY <1>1
  <2>. QED  BY <2>1 DEF Writes
<1>6. CASE n = 0
  <2>1. c = f
    BY <1>6 DEF Filled, FirstOf
  <2>2. At(U, c, 0) = f
    BY <2>1, AtSteps
  <2>3. \A i \in 1 .. n + 1 : i = 1 /\ i - 1 = 0
    BY <1>6
  <2>4. \A i \in 1 .. n + 1 : At(U, c, i - 1) \in Clusters /\ E[At(U, c, i - 1)] = <<k.path, k.entry.size, i>>
    BY <1>2, <1>5, <1>6, <2>2, <2>3
  <2>5. (n + 1) - 1 = 0 /\ n + 1 # 0 /\ n + 1 \in Nat
    BY <1>6
  <2>6. f = At(U, c, (n + 1) - 1)
    BY <2>2, <2>5
  <2>. HIDE DEF n, c, f
  <2>. QED  BY <1>4, <2>4, <2>5, <2>6 DEF Filled
<1>7. CASE n # 0
  <2>0. n \in Nat /\ n > 0 /\ n - 1 \in Nat /\ 1 \in 1 .. n /\ (n - 1) + 1 = n
    BY <1>1, <1>7
  <2>1. \A i \in 1 .. n : /\ At(T, k.entry.first, i - 1) \in Clusters
                          /\ D[At(T, k.entry.first, i - 1)] = <<k.path, k.entry.size, i>>
    BY DEF Filled
  <2>2. k.last = At(T, k.entry.first, n - 1)
    BY <1>7 DEF Filled
  <2>3. k.entry.first \in Clusters /\ c = k.entry.first
    <3>1. At(T, k.entry.first, 1 - 1) \in Clusters
      BY <2>0, <2>1
    <3>2. At(T, k.entry.first, 0) = k.entry.first
      BY AtSteps
    <3>. QED  BY <3>1, <3>2, ClustersAre DEF FirstOf
  <2>4. k.last \in Clusters /\ T[k.last] = EOC /\ U[k.last] = f
    <3>1. k.last \in Clusters
      BY <2>0, <2>1, <2>2
    <3>. QED  BY <1>3, <2>3, <3>1, ClustersAre DEF Extends
  <2>. DEFINE N == {j \in Nat : j <= n - 1 => At(U, c, j) = At(T, c, j)}
  <2>5. ASSUME NEW j \in Nat, j + 1 <= n - 1
        PROVE  At(T, c, j) \in Clusters /\ At(T, c, j + 1) = T[At(T, c, j)] /\ T[At(T, c, j)] \in Clusters
    <3>1. j + 1 \in 1 .. n /\ (j + 1) - 1 = j /\ (j + 1) + 1 \in 1 .. n /\ ((j + 1) + 1) - 1 = j + 1
      BY <2>0, <2>5
    <3>2. At(T, c, j) \in Clusters /\ At(T, c, j + 1) \in Clusters
      BY <2>1, <2>3, <3>1
    <3>3. At(T, c, j + 1) = Onward(T, At(T, c, j))
      BY AtSteps
    <3>. QED  BY <3>2, <3>3 DEF Onward
  <2>6. ASSUME NEW j \in Nat, j + 1 <= n - 1
        PROVE  U[At(T, c, j)] = T[At(T, c, j)]
    <3>1. At(T, c, j) \in Clusters \ {f, k.last}
      BY <1>2, <2>4, <2>5, <2>6, ClustersAre
    <3>. QED  BY <3>1 DEF Extends
  <2>7. 0 \in N
    BY AtSteps
  <2>8. ASSUME NEW j \in N PROVE j + 1 \in N
    <3>0. j \in Nat
      OBVIOUS
    <3>. SUFFICES ASSUME j + 1 <= n - 1 PROVE At(U, c, j + 1) = At(T, c, j + 1)
      BY <3>0
    <3>1. At(U, c, j) = At(T, c, j)
      <4>1. j <= n - 1
        BY <2>0, <3>0
      <4>. QED  BY <4>1
    <3>2. At(U, c, j + 1) = Onward(U, At(U, c, j))
      BY <3>0, AtSteps
    <3>. HIDE DEF N
    <3>3. At(T, c, j) \in Clusters /\ At(T, c, j + 1) = T[At(T, c, j)] /\ U[At(T, c, j)] = T[At(T, c, j)]
      BY <3>0, <2>5, <2>6
    <3>. QED  BY <3>1, <3>2, <3>3 DEF Onward
  <2>9. \A j \in Nat : j <= n - 1 => At(U, c, j) = At(T, c, j)
    <3>1. N \in SUBSET Nat
      OBVIOUS
    <3>2. \A j \in Nat : j \in N
      <4>. HIDE DEF N
      <4>. QED  BY <2>7, <2>8, <3>1, Induction
    <3>. QED  BY <3>2
  <2>10. At(U, c, n) = f
    <3>1. At(U, c, n - 1) = k.last
      BY <2>0, <2>2, <2>3, <2>9
    <3>2. At(U, c, (n - 1) + 1) = Onward(U, At(U, c, n - 1))
      BY <2>0, AtSteps, ZenonT(60)
    <3>. QED  BY <2>0, <2>4, <3>1, <3>2 DEF Onward
  <2>11. ASSUME NEW i \in 1 .. n
         PROVE  At(U, c, i - 1) \in Clusters /\ E[At(U, c, i - 1)] = <<k.path, k.entry.size, i>>
    <3>1. i - 1 \in Nat /\ i - 1 <= n - 1 /\ i \in Nat
      BY <2>0
    <3>2. At(U, c, i - 1) = At(T, c, i - 1)
      BY <2>9, <3>1
    <3>3. At(T, c, i - 1) \in Clusters /\ D[At(T, c, i - 1)] = <<k.path, k.entry.size, i>>
      BY <2>1, <2>3
    <3>4. At(T, c, i - 1) # f
      <4>1. CASE i = n
        BY <1>2, <2>2, <2>3, <2>4, <4>1, ClustersAre
      <4>2. CASE i # n
        <5>1. (i - 1) + 1 <= n - 1
          BY <2>0, <3>1, <4>2
        <5>. HIDE DEF n, c, f
        <5>. QED  BY <1>2, <2>5, <3>1, <5>1, ClustersAre
      <4>. QED  BY <4>1, <4>2
    <3>. QED  BY <3>2, <3>3, <3>4 DEF Writes
  <2>12. ASSUME NEW i \in 1 .. n + 1
         PROVE  At(U, c, i - 1) \in Clusters /\ E[At(U, c, i - 1)] = <<k.path, k.entry.size, i>>
    <3>1. CASE i = n + 1
      <4>1. i - 1 = n
        BY <2>0, <3>1
      <4>. QED  BY <1>2, <1>5, <2>10, <3>1, <4>1
    <3>2. CASE i # n + 1
      <4>1. i \in 1 .. n
        BY <2>0, <3>2
      <4>. QED  BY <2>11, <4>1
    <3>. QED  BY <3>1, <3>2
  <2>13. n + 1 \in Nat /\ n + 1 # 0 /\ (n + 1) - 1 = n
    BY <2>0
  <2>14. f = At(U, c, (n + 1) - 1)
    BY <2>10, <2>13
  <2>. HIDE DEF n, c, f
  <2>. QED  BY <1>4, <2>12, <2>13, <2>14 DEF Filled
<1>. QED  BY <1>6, <1>7

(* A file that has all its clusters is what it is to be.                   *)
LEMMA FilledShown ==
    ASSUME NEW T, NEW S, NEW k, NEW L, Good(T, S, k, L), k.op = "write", k.pc = "entry",
           NEW D, Filled(T, D, k)
    PROVE  /\ ~k.entry.dir /\ k.entry \in Entry
           /\ Shown(T, D, k.entry) = [i \in 1 .. k.entry.size |-> <<k.path, k.entry.size, i>>]
<1>1. ~k.entry.dir /\ k.entry \in Entry /\ k.entry.size \in Nat
  BY DEF Good, Typed, TaskRec, Entry, TaskOK, Makes, Prepares
<1>2. k.todo = 0 /\ k.entry.size - k.todo = k.entry.size
  BY <1>1 DEF Filled
<1>3. \A i \in 1 .. k.entry.size :
          At(T, k.entry.first, i - 1) \in Clusters /\ D[At(T, k.entry.first, i - 1)] = <<k.path, k.entry.size, i>>
  BY <1>2 DEF Filled
<1>. QED  BY <1>1, <1>3 DEF Shown

(* A claim changes nothing that is read.                                   *)
LEMMA ClaimSame ==
    ASSUME NEW T, NEW S, NEW k, NEW L, Good(T, S, k, L), Makes(k), k.pc = "claim",
           NEW U, Extends(T, U, k.last, k.found), NEW V, V = S \/ V = Cleared(S, k.found),
           NEW D, NEW E, \A x \in Clusters : x # k.found => E[x] = D[x]
    PROVE  SameRead(T, S, D, U, V, E)
<1>1. k.found \in Clusters /\ T[k.found] = Free
  BY DEF Good, TaskOK, Prepares
<1>2. k.found \notin Space(T, S)
  BY <1>1, SpaceInUse
<1>3. k.last = Free \/ k.last \in Chain(T, k.entry.first)
  BY DEF Good, TaskOK, Prepares
<1>4. Steady(k)
  BY DEF Steady, DoomedOf
<1>5. \A a \in Addresses : a[1] \in Space(T, S) => V[a] = S[a]
  BY <1>2 DEF Cleared
<1>6. ASSUME NEW a \in Seen(T, S), NEW x \in Chain(T, S[a].first) PROVE U[x] = T[x] /\ E[x] = D[x]
  <2>1. x \in Clusters /\ T[x] # Free /\ x \notin Chain(T, k.entry.first)
    BY <1>4, SeenApart
  <2>2. x \in Clusters \ {k.found, k.last}
    BY <1>1, <1>3, <2>1, ClustersAre
  <2>. QED  BY <2>2 DEF Extends
<1>. QED  BY <1>5, <1>6 DEF SameRead
-----------------------------------------------------------------------------
(* The calls, step by step.                                                *)

(* The same call, on the same file.                                        *)
SameCall(k, m) ==
    /\ m.op = k.op /\ m.path = k.path /\ m.to = k.to /\ m.loc = k.loc /\ m.old = k.old
    /\ m.entry.name = k.entry.name /\ m.entry.dir = k.entry.dir
    /\ k.op = "rename" => m.entry = k.entry

(* What is asked stays, if nothing that is read changes.                   *)
LEMMA AskedStays ==
    ASSUME NEW T, NEW S \in [Addresses -> Entry], NEW D, NEW k, Asked(T, S, D, k),
           NEW U, NEW V, NEW E, SameRead(T, S, D, U, V, E), NEW m, SameCall(k, m),
           m.op = "write" => Filled(U, E, m)
    PROVE  Asked(U, V, E, m)
<1>1. \A p \in Paths : Found(U, V, p) = Found(T, S, p)
  BY ViewSame
<1>2. \A b \in Root : V[b] = S[b]
  BY SpotsSame
<1>3. \A p : Where(V, p) = Where(S, p)
  BY <1>2 DEF Where
<1>4. ASSUME k.op = "rename" PROVE V[k.old] = S[k.old]
  <2>1. k.path \in Paths /\ k.old \in Found(T, S, k.path)
    BY <1>4 DEF Asked
  <2>2. k.old \in Seen(T, S)
    BY <2>1, FoundSeen
  <2>. QED  BY <2>2 DEF Seen, SameRead
<1>. QED  BY <1>1, <1>3, <1>4 DEF Asked, SameCall

(* A slot of the place where a path's last name is looked for.             *)
LEMMA SlotsWhere ==
    ASSUME NEW T, NEW S, RootDirs(S), NEW q \in Paths, NEW loc \in Where(S, q), NEW a \in SlotsOf(T, loc)
    PROVE  a \in Spots(T, S, q)
<1>1. CASE Len(q) = 1
  <2>1. loc = Free
    BY <1>1 DEF Where
  <2>. QED  BY <1>1, <2>1 DEF SlotsOf, Spots, Root
<1>2. CASE Len(q) # 1
  <2>1. PICK b \in Root : S[b].dir /\ S[b].name = q[1] /\ loc = S[b].first
    BY <1>2 DEF Where
  <2>2. loc # Free
    BY <2>1, RootIs DEF RootDirs
  <2>3. a \in Chain(T, loc) \X (1 .. Room)
    BY <2>2 DEF SlotsOf
  <2>4. a \in Addresses /\ a[1] \in Chain(T, loc)
    BY <2>3, ChainWithin DEF Addresses
  <2>. QED  BY <1>2, <2>1, <2>4 DEF Spots
<1>. QED  BY <1>1, <1>2

(* An entry is placed: the call shows what it is to, or will once the      *)
(* entry renamed is deleted.                                               *)
Placeable(T, dk, S, D, k, v) ==
    /\ k.path \in Paths /\ k.to \in Paths /\ k.entry \in Entry
    /\ v \in Spots(T, S, k.to) /\ S[v] = NoEntry
    /\ OneSpot(T, S, v, k.to) /\ OneSpot(dk, S, v, k.to)
    /\ Found(T, S, k.to) = {} /\ k.entry.name = Last(k.to)
    /\ k.entry.dir <=> k.to \notin Files
    /\ k.op \in {"write", "create_dir"} =>
           /\ k.to = k.path
           /\ k.entry.dir <=> k.op = "create_dir"
           /\ \A a \in Addresses : a[1] \in Chain(T, k.entry.first) => S[a] = NoEntry
    /\ k.op = "write" => Shown(T, D, k.entry) = [i \in 1 .. k.entry.size |-> <<k.path, k.entry.size, i>>]
    /\ k.op = "rename" =>
           /\ k.old \in Found(T, S, k.path)
           /\ OneSpot(T, S, k.old, k.path) /\ OneSpot(dk, S, k.old, k.path)
           /\ k.entry = [S[k.old] EXCEPT !.name = Last(k.to)]
PlacedBy(k, m) ==
    /\ m.op = k.op /\ m.path = k.path /\ m.to = k.to /\ m.old = k.old /\ m.entry = k.entry
    /\ m.pc = IF k.op = "rename" THEN "unlink" ELSE "flush"

(* The entry is where the call wants it, and every path reads as it should.*)
LEMMA PlacedChanged ==
    ASSUME NEW T, NEW dk, NEW S \in [Addresses -> Entry], NEW D, NEW K, Ready(T, dk, S, D, K), RootDirs(S),
           Alike, NEW k, k.op \in {"write", "create_dir", "rename"}, NEW v, Placeable(T, dk, S, D, k, v),
           NEW m, PlacedBy(k, m), NEW V, V = Put(S, v, k.entry)
    PROVE  Changed(T, dk, V, D, m, K)
<1>1. CASE k.op = "rename"
  <2>. DEFINE W == Put(V, m.old, NoEntry)
  <2>1. Movable(T, dk, S, m, v, k.entry)
    BY <1>1 DEF Movable, Placeable, PlacedBy
  <2>2. Shows(T, dk, W, D, m, K) /\ \A p \in Paths : Untouched(m, p) => View(dk, V, D, p) = K[p]
    BY <2>1, MovedShows
  <2>3. W = Without(V, m)
    BY <1>1 DEF Without, Put, PlacedBy
  <2>. HIDE DEF W
  <2>. QED  BY <2>2, <2>3 DEF Shows, Changed
<1>2. CASE k.op # "rename"
  <2>1. /\ m.op \in {"write", "create_dir"} /\ m.path \in Paths /\ m.to = m.path /\ m.path = k.to
        /\ m.entry = k.entry /\ m.pc = "flush"
    BY <1>2 DEF Placeable, PlacedBy
  <2>2. /\ Found(T, S, m.path) = {} /\ v \in Spots(T, S, m.path) /\ S[v] = NoEntry
        /\ OneSpot(T, S, v, m.path) /\ OneSpot(dk, S, v, m.path)
        /\ m.entry \in Entry /\ m.entry.name = Last(m.path) /\ (m.entry.dir <=> m.path \notin Files)
    BY <1>2, <2>1 DEF Placeable
  <2>3. m.op = "write" => Shown(T, D, m.entry) = [i \in 1 .. m.entry.size |-> <<m.path, m.entry.size, i>>]
    BY <1>2, <2>1 DEF Placeable, PlacedBy
  <2>4. /\ m.entry.dir <=> m.op = "create_dir"
        /\ \A a \in Addresses : a[1] \in Chain(T, m.entry.first) => S[a] = NoEntry
    BY <1>2, <2>1 DEF Placeable, PlacedBy
  <2>5. V = Put(S, v, m.entry)
    BY <2>1
  <2>6. Shows(T, dk, V, D, m, K)
    BY <2>1, <2>2, <2>3, <2>4, <2>5, NewShows
  <2>. QED  BY <2>1, <2>6 DEF Shows, Changed, Without
<1>. QED  BY <1>1, <1>2

(* In a vacant slot.                                                       *)
LEMMA PlaceableHere ==
    ASSUME NEW T, NEW dk, NEW S \in [Addresses -> Entry], NEW D, NEW K, Unchanged(T, dk, S, D, K),
           NEW k, NEW L, Good(T, S, k, L), PlacesEntry(k), Asked(T, S, D, k),
           NEW v \in SlotsOf(T, k.loc), S[v] = NoEntry
    PROVE  k.op \in {"write", "create_dir", "rename"} /\ Placeable(T, dk, S, D, k, v)
<1>1. k.pc = "entry" /\ k.op \in {"write", "create_dir", "rename"} /\ Steady(k) /\ RootDirs(S)
  BY DEF PlacesEntry, Good, TaskOK, InPhase, Steady, DoomedOf
<1>2. k.path \in Paths /\ k.to \in Paths /\ k.entry \in Entry /\ k.loc \in Where(S, k.to)
  BY <1>1 DEF Asked, Good, Typed, TaskRec
<1>3. v \in Spots(T, S, k.to)
  BY <1>1, <1>2, SlotsWhere
<1>4. SameFolders(T, dk, S)
  BY DiskShows DEF Unchanged
<1>5. OneSpot(T, S, v, k.to) /\ OneSpot(dk, S, v, k.to)
  BY <1>1, <1>2, <1>3, <1>4, OneSpotIs
<1>6. Found(T, S, k.to) = {} /\ k.entry.name = Last(k.to) /\ (k.entry.dir <=> k.to \notin Files)
  BY <1>1 DEF Asked, PlacesEntry
<1>7. k.op \in {"write", "create_dir"} =>
           /\ k.to = k.path
           /\ k.entry.dir <=> k.op = "create_dir"
           /\ \A a \in Addresses : a[1] \in Chain(T, k.entry.first) => S[a] = NoEntry
  BY <1>1 DEF Asked, Good, TaskOK, Makes, Prepares
<1>8. k.op = "write" => Shown(T, D, k.entry) = [i \in 1 .. k.entry.size |-> <<k.path, k.entry.size, i>>]
  BY <1>1, FilledShown DEF Asked
<1>9. ASSUME k.op = "rename"
      PROVE  /\ k.old \in Found(T, S, k.path)
             /\ OneSpot(T, S, k.old, k.path) /\ OneSpot(dk, S, k.old, k.path)
             /\ k.entry = [S[k.old] EXCEPT !.name = Last(k.to)]
  <2>1. k.old \in Found(T, S, k.path) /\ k.entry = [S[k.old] EXCEPT !.name = Last(k.to)]
    BY <1>9 DEF Asked
  <2>2. k.old \in Spots(T, S, k.path)
    BY <2>1 DEF Found
  <2>. QED  BY <1>1, <1>2, <1>4, <2>1, <2>2, OneSpotIs
<1>. QED  BY <1>1, <1>2, <1>3, <1>5, <1>6, <1>7, <1>8, <1>9 DEF Placeable
-----------------------------------------------------------------------------
(* An entry in a cluster that its folder gets for it.                      *)

(* The folder's last cluster and the free one that is linked to it.        *)
Growing(T, k, U, last, f) ==
    /\ last \in Chain(T, k.loc) /\ T[last] = EOC
    /\ f \in Clusters /\ T[f] = Free
    /\ IsTable(U) /\ U[f] = EOC /\ U[last] = f
    /\ \A x \in Clusters \ {f, last} : U[x] = T[x]

Grows(T, S, k, L, U, last, f, b) ==
    /\ Good(T, S, k, L) /\ PlacesEntry(k) /\ k.loc # Free /\ Growing(T, k, U, last, f)
    /\ b \in Root /\ S[b].dir /\ k.loc = S[b].first

SameBut(D, E, f) == \A x \in Clusters : x # f => E[x] = D[x]

(* The folder has the cluster, no other has, and files have what they had. *)
LEMMA FolderGrows ==
    ASSUME NEW T, NEW S, NEW k, NEW L, NEW U, NEW last, NEW f, NEW b, Grows(T, S, k, L, U, last, f, b)
    PROVE  /\ f \notin Space(T, S) /\ f \in Chain(U, k.loc) /\ FoldersGrow(T, U, S, f)
           /\ \A c \in Root : S[c].dir /\ f \in Chain(U, S[c].first) => c = b
           /\ \A a \in Seen(T, S) : \A x \in Chain(T, S[a].first) : x # f /\ (~S[a].dir => U[x] = T[x])
           /\ Makes(k) => \A x \in Chain(T, k.entry.first) : x # f /\ U[x] = T[x]
<1>0. /\ Good(T, S, k, L) /\ PlacesEntry(k) /\ k.loc # Free /\ Growing(T, k, U, last, f)
      /\ b \in Root /\ S[b].dir /\ k.loc = S[b].first
  BY DEF Grows
<1>1. Steady(k)
  BY <1>0 DEF PlacesEntry, Good, TaskOK, InPhase, Steady, DoomedOf
<1>2. f \notin Space(T, S)
  BY <1>0, SpaceInUse DEF Growing
<1>. DEFINE H == StartsIn(T, S, k)
<1>3. \A c \in Root : S[c].dir => S[c].first \in H /\ S[c].first \in Clusters
  BY <1>0, DirsLive DEF Heads
<1>4. /\ Chain(U, k.loc) = Chain(T, k.loc) \cup {f}
      /\ \A g \in H \ {k.loc} : Chain(U, g) = Chain(T, g)
  <2>. DEFINE h == k.loc
  <2>1. /\ Books(T, H, L) /\ h \in H /\ last \in Chain(T, h) /\ T[last] = EOC
        /\ f \in Clusters /\ T[f] = Free /\ IsTable(U) /\ U[f] = EOC /\ U[last] = f
        /\ \A x \in Clusters \ {f, last} : U[x] = T[x]
    BY <1>0, <1>3 DEF Growing, Good
  <2>. HIDE DEF H, h
  <2>. QED  BY <2>1, BooksGrown DEF h
<1>5. ASSUME NEW c \in Root, S[c].dir
      PROVE  /\ Chain(T, S[c].first) \subseteq Chain(U, S[c].first)
             /\ Chain(U, S[c].first) \subseteq Chain(T, S[c].first) \cup {f}
  BY <1>3, <1>4, <1>5
<1>6. \A a \in Seen(T, S) : \A x \in Chain(T, S[a].first) : x \in Clusters /\ x # f
  BY <1>0, <1>1, SeenApart DEF Growing
<1>7. ASSUME NEW c \in Root, S[c].dir, f \in Chain(U, S[c].first) PROVE c = b
  <2>1. c \in Seen(T, S) /\ b \in Seen(T, S)
    BY <1>0, <1>1, <1>7, SeenApart
  <2>2. S[c].first = k.loc
    BY <1>3, <1>4, <1>6, <1>7, <2>1
  <2>3. k.loc \in Chain(T, S[c].first) \cap Chain(T, S[b].first)
    BY <1>0, <1>3, <2>2, ChainStart
  <2>. QED  BY <1>0, <1>1, <2>1, <2>3, SeenApart
<1>8. b \in Seen(T, S)
  BY <1>0, <1>1, SeenApart
<1>9. ASSUME NEW a \in Seen(T, S), ~S[a].dir, NEW x \in Chain(T, S[a].first) PROVE U[x] = T[x]
  <2>1. a # b
    BY <1>0, <1>9
  <2>2. x # last
    BY <1>0, <1>1, <1>8, <2>1, SeenApart DEF Growing
  <2>. QED  BY <1>0, <1>6, <2>2 DEF Growing
<1>10. ASSUME Makes(k), NEW x \in Chain(T, k.entry.first) PROVE x # f /\ U[x] = T[x]
  <2>1. x # last
    BY <1>0, <1>1, <1>8, <1>10, SeenApart DEF Growing
  <2>2. k.entry.first \in H
    BY <1>10 DEF StartsIn
  <2>3. x \in Clusters /\ T[x] # Free
    BY <1>0, <2>2, BooksInUse DEF Good
  <2>. QED  BY <1>0, <2>1, <2>3 DEF Growing
<1>. QED  BY <1>2, <1>4, <1>5, <1>6, <1>7, <1>9, <1>10 DEF FoldersGrow

(* What is read is the same with the cluster in the folder, empty yet.     *)
LEMMA ReadyGrown ==
    ASSUME NEW T, NEW dk, NEW S \in [Addresses -> Entry], NEW D, NEW K, Unchanged(T, dk, S, D, K),
           NEW k, NEW L, NEW U, NEW last, NEW f, NEW b, Grows(T, S, k, L, U, last, f, b),
           NEW E, SameBut(D, E, f),
           NEW V, V = Cleared(S, f)
    PROVE  /\ Ready(U, dk, V, E, K) /\ V \in [Addresses -> Entry] /\ RootDirs(V)
           /\ \A p \in Paths : Found(U, V, p) = Found(T, S, p)
           /\ \A p \in Paths : \A a \in Found(T, S, p) : V[a] = S[a]
           /\ \A c \in Root : V[c] = S[c]
<1>1. /\ f \notin Space(T, S) /\ FoldersGrow(T, U, S, f)
      /\ \A a \in Seen(T, S) : \A x \in Chain(T, S[a].first) : x # f /\ (~S[a].dir => U[x] = T[x])
  BY FolderGrows
<1>2. f \in Clusters /\ RootDirs(S)
  BY DEF Grows, Growing, Good
<1>3. /\ \A p \in Paths : Found(U, V, p) = Found(T, S, p)
      /\ \A p \in Paths : \A a \in Found(T, S, p) : V[a] = S[a]
      /\ Named(U, V)
  BY <1>1, <1>2, GrownSame DEF Unchanged
<1>4. /\ \A a \in Addresses : a[1] # f => V[a] = S[a]
      /\ \A a \in Addresses : a[1] = f => V[a] = NoEntry
      /\ \A c \in Root : V[c] = S[c]
  BY <1>2, RootIs, ClustersAre DEF Cleared
<1>5. NoEntry \in Entry /\ ~NoEntry.dir
  BY DEF NoEntry, Entry
<1>6. V \in [Addresses -> Entry]
  BY <1>5 DEF Cleared
<1>7. RootDirs(V)
  BY <1>2, <1>4, <1>5 DEF RootDirs
<1>8. ASSUME NEW p \in Paths PROVE View(U, V, E, p) = View(T, S, D, p)
  <2>1. ASSUME NEW a \in Found(T, S, p) PROVE Shown(U, E, V[a]) = Shown(T, D, S[a])
    <3>1. a \in Seen(T, S) /\ V[a] = S[a] /\ a \in Addresses
      BY <1>3, FoundSeen
    <3>2. CASE S[a].dir
      BY <3>1, <3>2 DEF Shown
    <3>3. CASE ~S[a].dir
      <4>1. \A x \in Chain(T, S[a].first) : U[x] = T[x] /\ E[x] = D[x]
        BY <1>1, <3>1, <3>3, ChainWithin DEF SameBut
      <4>2. S[a].size \in Nat
        BY <3>1 DEF Entry
      <4>. QED  BY <3>1, <4>1, <4>2, ShownSame
    <3>. QED  BY <3>2, <3>3
  <2>. QED  BY <1>3, <2>1, FoundSame
<1>9. ASSUME NEW p \in Paths PROVE View(dk, V, E, p) = View(dk, S, D, p)
  <2>1. SameRead(T, S, D, dk, S, D)
    BY DiskShows DEF Unchanged
  <2>2. Space(dk, S) = Space(T, S) /\ Seen(dk, S) = Seen(T, S)
    BY <2>1, SpotsSame
  <2>3. \A a \in Seen(T, S) : Chain(dk, S[a].first) = Chain(T, S[a].first)
    BY <2>1, ChainSame DEF SameRead
  <2>4. ASSUME NEW a \in Seen(dk, S), NEW x \in Chain(dk, S[a].first) PROVE E[x] = D[x]
    BY <1>1, <2>2, <2>3, <2>4, ChainWithin DEF SameBut
  <2>5. SameRead(dk, S, D, dk, V, E)
    BY <1>1, <1>4, <2>2, <2>4 DEF SameRead
  <2>. QED  BY <2>5, ViewSame
<1>10. Ready(U, dk, V, E, K)
  BY <1>3, <1>8, <1>9, UnchangedReady DEF Ready
<1>. QED  BY <1>3, <1>4, <1>6, <1>7, <1>10

(* And the entry may be placed there.                                      *)
LEMMA PlaceableGrown ==
    ASSUME NEW T, NEW dk, NEW S \in [Addresses -> Entry], NEW D, NEW K, Unchanged(T, dk, S, D, K),
           NEW k, NEW L, Good(T, S, k, L), PlacesEntry(k), Asked(T, S, D, k), k.loc # Free,
           NEW U, NEW last, NEW f, Growing(T, k, U, last, f),
           NEW E, SameBut(D, E, f),
           NEW V, V = Cleared(S, f)
    PROVE  /\ k.op \in {"write", "create_dir", "rename"} /\ Placeable(U, dk, V, E, k, <<f, 1>>)
           /\ Ready(U, dk, V, E, K) /\ V \in [Addresses -> Entry] /\ RootDirs(V)
<1>. DEFINE v == <<f, 1>>
<1>1. k.pc = "entry" /\ k.op \in {"write", "create_dir", "rename"} /\ Steady(k) /\ RootDirs(S)
  BY DEF PlacesEntry, Good, TaskOK, InPhase, Steady, DoomedOf
<1>2. k.path \in Paths /\ k.to \in Paths /\ k.entry \in Entry /\ k.loc \in Where(S, k.to)
  BY <1>1 DEF Asked, Good, Typed, TaskRec
<1>3. Len(k.to) # 1
  BY <1>2 DEF Where
<1>4. PICK b \in Root : S[b].dir /\ S[b].name = k.to[1] /\ k.loc = S[b].first
  BY <1>2, <1>3 DEF Where
<1>. HIDE DEF v
<1>a. Grows(T, S, k, L, U, last, f, b)
  BY <1>4 DEF Grows
<1>5. /\ f \notin Space(T, S) /\ f \in Chain(U, k.loc) /\ FoldersGrow(T, U, S, f)
      /\ \A c \in Root : S[c].dir /\ f \in Chain(U, S[c].first) => c = b
      /\ Makes(k) => \A x \in Chain(T, k.entry.first) : x # f /\ U[x] = T[x]
  BY <1>a, FolderGrows
<1>6. /\ Ready(U, dk, V, E, K) /\ V \in [Addresses -> Entry] /\ RootDirs(V)
      /\ \A p \in Paths : Found(U, V, p) = Found(T, S, p)
      /\ \A p \in Paths : \A a \in Found(T, S, p) : V[a] = S[a]
      /\ \A c \in Root : V[c] = S[c]
  BY <1>a, ReadyGrown
<1>7. f \in Clusters
  BY DEF Growing
<1>8. v \in Addresses /\ v[1] = f /\ V[v] = NoEntry /\ v \notin Root
  BY <1>7, Fat16Assumption, RootIs, ClustersAre DEF Addresses, Cleared, v
<1>9. SameFolders(T, dk, S)
  BY DiskShows DEF Unchanged
<1>10. v \in Spots(U, V, k.to)
  BY <1>3, <1>4, <1>5, <1>6, <1>8 DEF Spots
<1>11. OneSpot(U, V, v, k.to)
  BY <1>3, <1>4, <1>5, <1>6, <1>8 DEF OneSpot
<1>12. OneSpot(dk, V, v, k.to)
  <2>1. \A c \in Root : S[c].dir => f \notin Chain(dk, S[c].first)
    BY <1>5, <1>9 DEF SameFolders, Space
  <2>. QED  BY <1>3, <1>6, <1>8, <2>1 DEF OneSpot
<1>13. Found(U, V, k.to) = {} /\ k.entry.name = Last(k.to) /\ (k.entry.dir <=> k.to \notin Files)
  BY <1>1, <1>2, <1>6 DEF Asked, PlacesEntry
<1>14. ASSUME k.op \in {"write", "create_dir"}
       PROVE  /\ k.to = k.path
              /\ k.entry.dir <=> k.op = "create_dir"
              /\ \A a \in Addresses : a[1] \in Chain(U, k.entry.first) => V[a] = NoEntry
  <2>1. Makes(k) /\ Prepares(T, S, k)
    BY <1>1, <1>14 DEF Makes, Good, TaskOK
  <2>2. Chain(U, k.entry.first) = Chain(T, k.entry.first)
    BY <1>5, <2>1, ChainSame
  <2>. QED  BY <1>1, <1>14, <2>1, <2>2 DEF Asked, Prepares, Cleared
<1>15. ASSUME k.op = "write"
       PROVE  Shown(U, E, k.entry) = [i \in 1 .. k.entry.size |-> <<k.path, k.entry.size, i>>]
  <2>1. Makes(k)
    BY <1>1, <1>15 DEF Makes
  <2>2. \A x \in Chain(T, k.entry.first) : U[x] = T[x] /\ E[x] = D[x]
    BY <1>5, <2>1, ChainWithin DEF SameBut
  <2>3. k.entry.size \in Nat
    BY <1>2 DEF Entry
  <2>4. Shown(U, E, k.entry) = Shown(T, D, k.entry)
    BY <2>2, <2>3, ShownSame
  <2>. QED  BY <1>1, <1>15, <2>4, FilledShown DEF Asked
<1>16. ASSUME k.op = "rename"
       PROVE  /\ k.old \in Found(U, V, k.path)
              /\ OneSpot(U, V, k.old, k.path) /\ OneSpot(dk, V, k.old, k.path)
              /\ k.entry = [V[k.old] EXCEPT !.name = Last(k.to)]
  <2>1. k.old \in Found(T, S, k.path) /\ k.entry = [S[k.old] EXCEPT !.name = Last(k.to)]
    BY <1>16 DEF Asked
  <2>2. k.old \in Spots(T, S, k.path) /\ k.old[1] \in Space(T, S)
    BY <1>2, <2>1, FoundSeen
  <2>3. OneSpot(T, S, k.old, k.path) /\ OneSpot(dk, S, k.old, k.path)
    BY <1>1, <1>2, <1>9, <2>2, OneSpotIs
  <2>4. k.old[1] # f
    BY <1>5, <2>2
  <2>5. OneSpot(U, V, k.old, k.path)
    BY <1>5, <1>6, <2>3, <2>4 DEF OneSpot, FoldersGrow
  <2>6. OneSpot(dk, V, k.old, k.path)
    BY <1>6, <2>3 DEF OneSpot
  <2>. QED  BY <1>2, <1>6, <2>1, <2>5, <2>6
<1>. QED  BY <1>1, <1>2, <1>6, <1>8, <1>10, <1>11, <1>12, <1>13, <1>14, <1>15, <1>16 DEF Placeable, v
-----------------------------------------------------------------------------
(* Entries deleted and written anew, and what they led to freed.           *)

(* What a slot found under a path is in.                                   *)
LEMMA FoundSpots ==
    ASSUME NEW T, NEW dk, NEW S \in [Addresses -> Entry], NEW D, NEW K, Unchanged(T, dk, S, D, K),
           NEW k, NEW L, Good(T, S, k, L), Steady(k), NEW q \in Paths, NEW v \in Found(T, S, q)
    PROVE  /\ v \in Seen(T, S) /\ v \in Addresses /\ S[v].name = Last(q)
           /\ OneSpot(T, S, v, q) /\ OneSpot(dk, S, v, q)
<1>1. v \in Spots(T, S, q) /\ v \in Seen(T, S) /\ v \in Addresses /\ S[v].name = Last(q)
  BY FoundSeen
<1>2. SameFolders(T, dk, S)
  BY DiskShows DEF Unchanged
<1>. QED  BY <1>1, <1>2, OneSpotIs

(* The call goes on.                                                       *)
GoesTo(k, m, pc) ==
    /\ m.op = k.op /\ m.path = k.path /\ m.to = k.to /\ m.old = k.old /\ m.entry = k.entry /\ m.pc = pc

(* An existing file gets its new contents.                                 *)
LEMMA OverwriteChanged ==
    ASSUME NEW T, NEW dk, NEW S \in [Addresses -> Entry], NEW D, NEW K, Unchanged(T, dk, S, D, K),
           NEW k, NEW L, Good(T, S, k, L), k.op = "write", k.pc = "entry", k.old # NoSlot, Asked(T, S, D, k),
           NEW m, GoesTo(k, m, "flush"), NEW V, V = Put(S, k.old, k.entry)
    PROVE  Changed(Freed(T, Chain(T, S[k.old].first)), dk, V, D, m, K)
<1>. DEFINE v == k.old
            e == k.entry
            C == Chain(T, S[v].first)
<1>1. Makes(k) /\ Steady(k) /\ Prepares(T, S, k)
  BY DEF Makes, Steady, DoomedOf, Good, TaskOK
<1>2. k.path \in Paths /\ k.to = k.path /\ v \in Found(T, S, k.path) /\ e.name = Last(k.path)
  BY DEF Asked
<1>3. /\ v \in Seen(T, S) /\ v \in Addresses /\ S[v].name = Last(k.path)
      /\ OneSpot(T, S, v, k.path) /\ OneSpot(dk, S, v, k.path)
  BY <1>1, <1>2, FoundSpots
<1>4. ~S[v].dir
  BY <1>1 DEF Prepares
<1>5. /\ ~e.dir /\ e \in Entry
      /\ Shown(T, D, e) = [i \in 1 .. e.size |-> <<k.path, e.size, i>>]
  BY FilledShown DEF Asked
<1>6. Ready(T, dk, S, D, K)
  BY UnchangedReady
<1>7. V \in [Addresses -> Entry] /\ V[v] = e /\ \A a \in Addresses : a # v => V[a] = S[a]
  BY <1>3, <1>5 DEF Put
<1>8. Shows(T, dk, V, D, m, K)
  <2>1. /\ m.op = "write" /\ m.path \in Paths /\ m.to = m.path /\ v \in Found(T, S, m.path) /\ ~S[v].dir
        /\ OneSpot(T, S, v, m.path) /\ OneSpot(dk, S, v, m.path)
        /\ m.entry \in Entry /\ ~m.entry.dir /\ m.entry.name = S[v].name
        /\ Shown(T, D, m.entry) = [i \in 1 .. m.entry.size |-> <<m.path, m.entry.size, i>>]
        /\ V = Put(S, v, m.entry)
    BY <1>2, <1>3, <1>4, <1>5 DEF GoesTo
  <2>. HIDE DEF v
  <2>. QED  BY <1>6, <2>1, OverwriteShows
<1>9. ASSUME NEW a \in Seen(T, V) PROVE Chain(T, V[a].first) \cap C = {}
  <2>1. Space(T, V) = Space(T, S)
    BY <1>4, <1>5, <1>7, RootIs, SpaceSame
  <2>2. CASE a = v
    BY <1>1, <1>3, <1>7, <2>2, SeenApart
  <2>3. CASE a # v
    <3>1. a \in Seen(T, S) /\ V[a] = S[a]
      BY <1>7, <2>1, <2>3 DEF Seen
    <3>. QED  BY <1>1, <1>3, <2>3, <3>1, SeenApart
  <2>. QED  BY <2>2, <2>3
<1>. HIDE DEF C, v, e
<1>10. Shows(Freed(T, C), dk, V, D, m, K)
  <2>1. \A a \in Seen(T, V) : \A x \in Chain(T, V[a].first) : Freed(T, C)[x] = T[x]
    BY <1>9, ChainWithin DEF Freed
  <2>. QED  BY <1>7, <1>8, <2>1, ShowsFreed
<1>11. Without(V, m) = V
  BY DEF Without, GoesTo
<1>. QED  BY <1>10, <1>11 DEF Shows, Changed, C, v

(* What is to be removed, and what is left.                                *)
LEMMA RemovalShows ==
    ASSUME NEW T, NEW dk, NEW S \in [Addresses -> Entry], NEW D, NEW K, Unchanged(T, dk, S, D, K),
           NEW k, NEW L, Good(T, S, k, L), k.op \in {"remove_file", "remove"}, Steady(k), Removes(T, S, k),
           Asked(T, S, D, k), NEW m, m.op = k.op, m.path = k.path, m.to = k.to,
           NEW V, V = Put(S, k.old, NoEntry)
    PROVE  /\ V \in [Addresses -> Entry] /\ Shows(T, dk, V, D, m, K)
           /\ \A a \in Seen(T, V) : a \in Seen(T, S) /\ a # k.old /\ V[a] = S[a]
                                    /\ (S[k.old].dir => a[1] \notin Chain(T, S[k.old].first))
           /\ k.old \in Seen(T, S) /\ k.old \in Addresses
<1>. DEFINE v == k.old
<1>1. k.path \in Paths /\ v \in Found(T, S, k.path)
  <2>1. v # NoSlot
    BY RootIs DEF Removes, LiveIn
  <2>. QED  BY <2>1 DEF Asked
<1>2. /\ v \in Seen(T, S) /\ v \in Addresses
      /\ OneSpot(T, S, v, k.path) /\ OneSpot(dk, S, v, k.path)
  BY <1>1, FoundSpots
<1>3. Ready(T, dk, S, D, K)
  BY UnchangedReady
<1>4. NoEntry \in Entry /\ ~NoEntry.dir
  BY DEF NoEntry, Entry
<1>5. V \in [Addresses -> Entry] /\ V[v] = NoEntry /\ \A a \in Addresses : a # v => V[a] = S[a]
  BY <1>2, <1>4 DEF Put
<1>6. Shows(T, dk, V, D, m, K)
  <2>1. /\ m.op \in {"remove_file", "remove"} /\ m.path \in Paths /\ v \in Found(T, S, m.path)
        /\ OneSpot(T, S, v, m.path) /\ OneSpot(dk, S, v, m.path) /\ V = Put(S, v, NoEntry)
    BY <1>1, <1>2
  <2>. HIDE DEF v
  <2>. QED  BY <1>3, <2>1, RemovedShows
<1>7. ASSUME NEW a \in Seen(T, V)
      PROVE  /\ a \in Seen(T, S) /\ a # v /\ V[a] = S[a]
             /\ S[v].dir => a[1] \notin Chain(T, S[v].first)
  <2>1. a # v /\ V[a] = S[a] /\ S[a] # NoEntry /\ a \in Addresses
    BY <1>5 DEF Seen
  <2>2. CASE a[1] = Free
    BY <2>1, <2>2, ChainWithin, ClustersAre DEF Seen, Space
  <2>3. CASE a[1] # Free
    <3>1. PICK b \in Root : V[b].dir /\ a[1] \in Chain(T, V[b].first)
      BY <2>3 DEF Seen, Space
    <3>2. b # v /\ V[b] = S[b] /\ b \in Addresses
      BY <1>4, <1>5, <3>1, RootIs
    <3>3. b \in Seen(T, S)
      BY <3>1, <3>2, SeenApart
    <3>4. a[1] \notin Chain(T, S[v].first)
      BY <1>2, <3>1, <3>2, <3>3, SeenApart
    <3>. QED  BY <2>1, <3>1, <3>2, <3>4 DEF Seen, Space
  <2>. QED  BY <2>2, <2>3
<1>. QED  BY <1>2, <1>5, <1>6, <1>7

(* remove_file has freed the clusters, and is to delete the entry.         *)
LEMMA FreeFirstChanged ==
    ASSUME NEW T, NEW dk, NEW S \in [Addresses -> Entry], NEW D, NEW K, Unchanged(T, dk, S, D, K),
           NEW k, NEW L, Good(T, S, k, L), k.pc = "free", Asked(T, S, D, k),
           NEW m, GoesTo(k, m, "unlink"), NEW V, V = Put(S, k.old, NoEntry)
    PROVE  Changed(Freed(T, Chain(T, k.entry.first)), dk, S, D, m, K)
<1>. DEFINE C == Chain(T, k.entry.first)
<1>1. k.op = "remove_file" /\ Steady(k) /\ Removes(T, S, k)
  BY DEF Good, TaskOK, InPhase, Steady, DoomedOf
<1>2. k.entry = S[k.old]
  BY <1>1 DEF Removes
<1>3. /\ V \in [Addresses -> Entry] /\ Shows(T, dk, V, D, m, K)
      /\ \A a \in Seen(T, V) : a \in Seen(T, S) /\ a # k.old /\ V[a] = S[a]
                               /\ (S[k.old].dir => a[1] \notin Chain(T, S[k.old].first))
      /\ k.old \in Seen(T, S) /\ k.old \in Addresses
  <2>1. m.op = k.op /\ m.path = k.path /\ m.to = k.to /\ k.op \in {"remove_file", "remove"}
    BY <1>1 DEF GoesTo
  <2>. QED  BY <1>1, <2>1, RemovalShows
<1>4. ASSUME NEW a \in Seen(T, V) PROVE Chain(T, V[a].first) \cap C = {}
  <2>1. a \in Seen(T, S) /\ a # k.old /\ V[a] = S[a]
    BY <1>3
  <2>2. Chain(T, S[a].first) \cap Chain(T, S[k.old].first) = {}
    BY <1>1, <1>3, <2>1, SeenApart
  <2>. QED  BY <1>2, <2>1, <2>2
<1>5. Without(S, m) = V
  BY DEF Without, GoesTo, Put
<1>. HIDE DEF C
<1>6. \A a \in Seen(T, V) : \A x \in Chain(T, V[a].first) : Freed(T, C)[x] = T[x]
  BY <1>4, ChainWithin DEF Freed
<1>7. Shows(Freed(T, C), dk, V, D, m, K)
  BY <1>3, <1>6, ShowsFreed
<1>8. \A p \in Paths : View(dk, S, D, p) = K[p]
  BY UnchangedReady DEF Ready
<1>. QED  BY <1>5, <1>7, <1>8 DEF Shows, Changed, C

(* remove deletes the entry and frees the tree.                            *)
LEMMA RemoveChanged ==
    ASSUME NEW T, NEW dk, NEW S \in [Addresses -> Entry], NEW D, NEW K, Unchanged(T, dk, S, D, K),
           NEW k, NEW L, Good(T, S, k, L), k.op = "remove", k.pc = "unlink", Asked(T, S, D, k),
           NEW m, GoesTo(k, m, "flush"), NEW V, V = Put(S, k.old, NoEntry)
    PROVE  Changed(Freed(T, TreeOf(T, S, k.entry)), dk, V, D, m, K)
<1>. DEFINE C == TreeOf(T, S, k.entry)
            v == k.old
<1>1. Steady(k) /\ Removes(T, S, k) /\ RootDirs(S)
  BY DEF Good, TaskOK, Steady, DoomedOf
<1>2. k.entry = S[v]
  BY <1>1 DEF Removes
<1>3. /\ V \in [Addresses -> Entry] /\ Shows(T, dk, V, D, m, K)
      /\ \A a \in Seen(T, V) : a \in Seen(T, S) /\ a # v /\ V[a] = S[a]
                               /\ (S[v].dir => a[1] \notin Chain(T, S[v].first))
      /\ v \in Seen(T, S) /\ v \in Addresses
  <2>1. m.op = k.op /\ m.path = k.path /\ m.to = k.to /\ k.op \in {"remove_file", "remove"}
    BY DEF GoesTo
  <2>. QED  BY <1>1, <2>1, RemovalShows
<1>4. ASSUME NEW a \in Seen(T, V) PROVE Chain(T, V[a].first) \cap C = {}
  <2>1. Chain(T, S[a].first) \cap Chain(T, S[v].first) = {}
    BY <1>1, <1>3, SeenApart
  <2>2. ASSUME S[v].dir, NEW b \in Addresses, S[b] # NoEntry, b[1] \in Chain(T, S[v].first)
        PROVE  Chain(T, S[a].first) \cap Chain(T, S[b].first) = {}
    <3>1. v \in Root
      BY <1>1, <1>3, <2>2, RootIs DEF RootDirs
    <3>2. b \in Seen(T, S)
      BY <2>2, <3>1 DEF Seen, Space
    <3>3. a # b
      BY <1>3, <2>2
    <3>. QED  BY <1>1, <1>3, <3>2, <3>3, SeenApart
  <2>. QED  BY <1>2, <1>3, <2>1, <2>2 DEF TreeOf
<1>. HIDE DEF C
<1>5. \A a \in Seen(T, V) : \A x \in Chain(T, V[a].first) : Freed(T, C)[x] = T[x]
  BY <1>4, ChainWithin DEF Freed
<1>6. Shows(Freed(T, C), dk, V, D, m, K)
  BY <1>3, <1>5, ShowsFreed
<1>7. Without(V, m) = V
  BY DEF Without, GoesTo
<1>. QED  BY <1>6, <1>7 DEF Shows, Changed, C
-----------------------------------------------------------------------------
(* The steps of the only task, while no flush has failed.                  *)

(* What the invariants say of it.                                          *)
LEMMA SafeIs ==
    ASSUME FatInv, FatSafe, ~unsaved, NEW t \in Tasks
    PROVE  /\ Good(fat, slot, task[t], lost) /\ InPhase(task[t]) /\ slot \in [Addresses -> Entry] /\ IsTable(fat)
           /\ DOMAIN data = Clusters /\ (dirty \/ disk = fat)
           /\ Safe(fat, disk, slot, data, task[t], kept)
BY TaskIs DEF FatSafe, Good, Typed, Books, Sane

(* And while nothing has changed that is read.                             *)
LEMMA EarlyIs ==
    ASSUME FatInv, FatSafe, ~unsaved, NEW t \in Tasks, Early(task[t]), task[t].pc # "flush"
    PROVE  /\ Unchanged(fat, disk, slot, data, kept)
           /\ Asked(fat, slot, data, task[t]) /\ ~task[t].failed
BY SafeIs DEF Safe

(* It is enough that the task is safe.                                     *)
LEMMA StaysSafe ==
    ASSUME Alone, NEW t \in Tasks, DOMAIN data' = Clusters, dirty' \/ disk' = fat',
           Safe(fat', disk', slot', data', task'[t], kept')
    PROVE  FatSafe'
BY DEF Alone, FatSafe

(* Once the volume is as wanted.                                           *)
LEMMA ChangedSafe ==
    ASSUME Alone, NEW t \in Tasks, DOMAIN data' = Clusters, dirty' \/ disk' = fat',
           NEW m, m = task'[t], Changed(fat', disk', slot', data', m, kept'), ~m.failed, ~Early(m)
    PROVE  FatSafe'
<1>1. Safe(fat', disk', slot', data', task'[t], kept')
  BY DEF Safe
<1>. QED  BY <1>1, StaysSafe

(* What is read does not depend on a change of nothing.                    *)
LEMMA NothingRead == \A T, S, D : SameRead(T, S, D, T, S, D)
BY DEF SameRead

(* To free no cluster changes nothing.                                     *)
LEMMA FreedNone ==
    ASSUME NEW T, IsTable(T)
    PROVE  /\ Freed(T, {}) = T
           /\ \A c : c \notin Clusters => Freed(T, Chain(T, c)) = T
<1>1. Freed(T, {}) = T
  BY DEF Freed, IsTable
<1>. QED  BY <1>1, NoChain

(* The FAT is marked dirty if clusters are freed.                          *)
LEMMA FreesDirty ==
    ASSUME IsTable(fat), dirty \/ disk = fat, NEW c, fat' = Freed(fat, Chain(fat, c)),
           dirty' = (dirty \/ c # Free), disk' = disk
    PROVE  dirty' \/ disk' = fat'
<1>1. CASE c # Free
  BY <1>1
<1>2. CASE c = Free
  <2>1. fat' = fat
    BY <1>2, FreedNone, ClustersAre
  <2>. QED  BY <2>1
<1>. QED  BY <1>1, <1>2

(* An operation fails.                                                     *)
LEMMA FailsSafe ==
    ASSUME FatInv, FatSafe, ~unsaved, Alone, NEW t \in Tasks, Early(task[t]), task[t].pc # "flush",
           Fails(t), SameRead(fat, slot, data, fat', slot', data'),
           disk' = disk, kept' = kept, data' = data, dirty' \/ disk' = fat'
    PROVE  FatSafe'
<1>1. Unchanged(fat, disk, slot, data, kept)
  BY EarlyIs
<1>2. Unchanged(fat', disk', slot', data', kept')
  <2>1. slot \in [Addresses -> Entry]
    BY SafeIs
  <2>2. Unchanged(fat', disk, slot', data', kept)
    BY <1>1, <2>1, StaysUnchanged
  <2>. QED  BY <2>2
<1>3. task'[t].pc = "flush" /\ task'[t].failed
  BY TaskIs DEF Fails, TaskRec
<1>4. Safe(fat', disk', slot', data', task'[t], kept')
  BY <1>2, <1>3 DEF Safe, Early
<1>5. DOMAIN data' = Clusters
  BY SafeIs
<1>. QED  BY <1>4, <1>5, StaysSafe

(* The disk is full.                                                       *)
LEMMA AllocateFailsSafe ==
    ASSUME FatInv, FatSafe, ~unsaved, Alone, NEW t \in Tasks, AllocateFails(t)
    PROVE  FatSafe'
<1>. DEFINE k == task[t]
            C == Chain(fat, k.entry.first)
<1>1. /\ Good(fat, slot, k, lost) /\ InPhase(k) /\ IsTable(fat) /\ DOMAIN data = Clusters
      /\ dirty \/ disk = fat
  BY SafeIs
<1>2. /\ k.pc = "data" /\ Fails(t) /\ fat' = Freed(fat, C)
      /\ dirty' = (dirty \/ k.entry.first # Free)
      /\ slot' = slot /\ data' = data /\ disk' = disk /\ kept' = kept
  BY DEF AllocateFails
<1>3. Makes(k) /\ Steady(k) /\ Early(k)
  BY <1>1, <1>2 DEF InPhase, Makes, Steady, DoomedOf, Early
<1>4. SameRead(fat, slot, data, fat', slot', data')
  <2>1. \A a \in Seen(fat, slot) : Chain(fat, slot[a].first) \cap C = {}
    <3>. HIDE DEF k
    <3>. QED  BY <1>1, <1>3, SeenApart
  <2>. HIDE DEF C
  <2>2. \A a \in Seen(fat, slot) : \A x \in Chain(fat, slot[a].first) : Freed(fat, C)[x] = fat[x]
    BY <2>1, ChainWithin DEF Freed
  <2>. QED  BY <1>2, <2>2 DEF SameRead
<1>5. dirty' \/ disk' = fat'
  <2>. HIDE DEF k
  <2>. QED  BY <1>1, <1>2, FreesDirty
<1>. QED  BY <1>2, <1>3, <1>4, <1>5, FailsSafe

(* The data cannot be written.                                             *)
LEMMA ClaimFailsSafe ==
    ASSUME FatInv, FatSafe, ~unsaved, Alone, NEW t \in Tasks, ClaimFails(t)
    PROVE  FatSafe'
<1>. DEFINE k == task[t]
<1>1. Good(fat, slot, k, lost) /\ InPhase(k)
  BY SafeIs
<1>2. /\ k.pc = "claim" /\ Fails(t) /\ fat' = Claimed(t) /\ dirty' = TRUE
      /\ slot' = slot /\ data' = data /\ disk' = disk /\ kept' = kept
  BY DEF ClaimFails
<1>3. Makes(k) /\ Early(k)
  BY <1>1, <1>2 DEF InPhase, Makes, Early
<1>4. Extends(fat, fat', k.last, k.found)
  BY <1>2, ClaimedIs
<1>5. SameRead(fat, slot, data, fat', slot', data')
  <2>. HIDE DEF k
  <2>. QED  BY <1>1, <1>2, <1>3, <1>4, ClaimSame
<1>. QED  BY <1>2, <1>3, <1>5, FailsSafe

(* The entry cannot be written.                                            *)
LEMMA GivesUpSafe ==
    ASSUME FatInv, FatSafe, ~unsaved, Alone, NEW t \in Tasks, task[t].pc = "entry", GivesUp(t),
           UNCHANGED <<fat, dirty, disk, slot, data, unsaved, kept>>
    PROVE  FatSafe'
<1>1. Early(task[t]) /\ Fails(t) /\ (dirty \/ disk = fat)
  BY SafeIs DEF Early, GivesUp
<1>2. SameRead(fat, slot, data, fat', slot', data')
  BY NothingRead
<1>. QED  BY <1>1, <1>2, FailsSafe

(* Nor deleted.                                                            *)
LEMMA UnlinkFailsSafe ==
    ASSUME FatInv, FatSafe, ~unsaved, Alone, NoLateFaults, NEW t \in Tasks, UnlinkFails(t)
    PROVE  FatSafe'
<1>1. /\ task[t].pc = "unlink" /\ task[t].op = "remove" /\ Fails(t)
      /\ UNCHANGED <<fat, dirty, disk, slot, data, kept>>
  BY DEF UnlinkFails, NoLateFaults
<1>2. Early(task[t]) /\ (dirty \/ disk = fat)
  BY <1>1, SafeIs DEF Early
<1>3. SameRead(fat, slot, data, fat', slot', data')
  BY <1>1, NothingRead
<1>. QED  BY <1>1, <1>2, <1>3, FailsSafe
(* A free cluster is found.                                                *)
LEMMA AllocateFindsSafe ==
    ASSUME FatInv, FatSafe, ~unsaved, Alone, NEW t \in Tasks, AllocateFinds(t)
    PROVE  FatSafe'
<1>. DEFINE k == task[t]
            m == task'[t]
<1>1. /\ k \in TaskRec /\ task \in [Tasks -> TaskRec] /\ slot \in [Addresses -> Entry]
      /\ DOMAIN data = Clusters /\ (dirty \/ disk = fat)
  BY TaskIs, SafeIs
<1>2. /\ k.pc = "data" /\ m = [k EXCEPT !.pc = "claim", !.found = FirstFree]
      /\ UNCHANGED <<fat, dirty, disk, slot, data, kept>>
  BY <1>1 DEF AllocateFinds
<1>3. Unchanged(fat, disk, slot, data, kept) /\ Asked(fat, slot, data, k) /\ ~k.failed
  BY <1>2, EarlyIs DEF Early
<1>4. /\ m.op = k.op /\ m.path = k.path /\ m.to = k.to /\ m.loc = k.loc /\ m.old = k.old /\ m.entry = k.entry
      /\ m.todo = k.todo /\ m.last = k.last /\ m.pc = "claim" /\ m.failed = k.failed
  BY <1>1, <1>2 DEF TaskRec
<1>. HIDE DEF m, k
<1>5. k.op = "write" => Filled(fat, data, m)
  BY <1>2, <1>3, <1>4 DEF Asked, Filled
<1>6. Asked(fat, slot, data, m)
  <2>1. SameRead(fat, slot, data, fat, slot, data) /\ SameCall(k, m)
    BY <1>4, NothingRead DEF SameCall
  <2>. QED  BY <1>1, <1>3, <1>4, <1>5, <2>1, AskedStays
<1>7. Safe(fat', disk', slot', data', m, kept')
  BY <1>2, <1>3, <1>4, <1>6 DEF Safe, Early
<1>. QED  BY <1>1, <1>2, <1>7, StaysSafe DEF m

(* It is marked, linked and written.                                       *)
LEMMA ClaimSafe ==
    ASSUME FatInv, FatSafe, ~unsaved, Alone, NEW t \in Tasks, Claim(t)
    PROVE  FatSafe'
<1>. DEFINE k == task[t]
            m == task'[t]
<1>1. /\ Good(fat, slot, k, lost) /\ InPhase(k) /\ k \in TaskRec /\ k.entry \in Entry
      /\ task \in [Tasks -> TaskRec] /\ slot \in [Addresses -> Entry] /\ DOMAIN data = Clusters
  BY TaskIs, SafeIs
<1>2. /\ k.pc = "claim" /\ fat' = Claimed(t) /\ dirty' = TRUE /\ slot' = Cleared(slot, k.found)
      /\ data' = [data EXCEPT ![k.found] = IF k.op = "write" THEN <<k.path, k.entry.size, k.entry.size - (k.todo - 1)>>
                                           ELSE <<"folder">>]
      /\ disk' = disk /\ kept' = kept
  BY DEF Claim, Cleared
<1>3. Unchanged(fat, disk, slot, data, kept) /\ Asked(fat, slot, data, k) /\ ~k.failed
  BY <1>2, EarlyIs DEF Early
<1>4. Makes(k)
  BY <1>1, <1>2 DEF InPhase, Makes
<1>5. k.found \in Clusters
  BY <1>1, <1>2, <1>4 DEF Good, TaskOK, Prepares
<1>6. ClaimsMore(k, m)
  <2>. DEFINE p == IF k.todo - 1 = 0 THEN "entry" ELSE "data"
              n == k.todo - 1
              e == [k.entry EXCEPT !.first = FirstOf(k)]
  <2>1. task' = [task EXCEPT ![t].todo = n, ![t].last = k.found,
                             ![t].entry.first = IF @ = Free THEN k.found ELSE @,
                             ![t].found = Free,
                             ![t].pc = p]
    BY DEF Claim
  <2>2. m = [k EXCEPT !.todo = n, !.last = k.found, !.entry = e, !.found = Free, !.pc = p]
    BY <1>1, <2>1, ZenonT(60) DEF FirstOf
  <2>3. e.first = FirstOf(k) /\ e.name = k.entry.name /\ e.dir = k.entry.dir /\ e.size = k.entry.size
    BY <1>1 DEF Entry
  <2>. HIDE DEF e, n, m
  <2>4. /\ m.op = k.op /\ m.path = k.path /\ m.to = k.to /\ m.loc = k.loc /\ m.old = k.old /\ m.failed = k.failed
        /\ m.todo = n /\ m.last = k.found /\ m.pc = p /\ m.entry = e
    BY <1>1, <2>2 DEF TaskRec
  <2>. QED  BY <2>3, <2>4 DEF ClaimsMore, n
<1>7. Extends(fat, fat', k.last, k.found)
  BY <1>2, ClaimedIs
<1>8. Writes(data, data', k) /\ DOMAIN data' = Clusters
  BY <1>1, <1>2, <1>5 DEF Writes
<1>. HIDE DEF m, k
<1>9. SameRead(fat, slot, data, fat', slot', data')
  <2>1. \A x \in Clusters : x # k.found => data'[x] = data[x]
    BY <1>8 DEF Writes
  <2>. QED  BY <1>1, <1>2, <1>4, <1>7, <2>1, ClaimSame
<1>10. Unchanged(fat', disk', slot', data', kept')
  <2>1. Unchanged(fat', disk, slot', data', kept)
    BY <1>1, <1>3, <1>9, StaysUnchanged
  <2>. QED  BY <1>2, <2>1
<1>11. m.op = "write" => Filled(fat', data', m)
  <2>1. m.op = k.op
    BY <1>6 DEF ClaimsMore
  <2>2. k.op = "write" => Filled(fat, data, k)
    BY <1>3 DEF Asked
  <2>. QED  BY <1>1, <1>2, <1>6, <1>7, <1>8, <2>1, <2>2, FilledGrows
<1>12. Asked(fat', slot', data', m)
  <2>1. SameCall(k, m)
    BY <1>4, <1>6 DEF SameCall, ClaimsMore, Makes
  <2>. QED  BY <1>1, <1>3, <1>9, <1>11, <2>1, AskedStays
<1>13. Safe(fat', disk', slot', data', m, kept')
  BY <1>3, <1>6, <1>10, <1>12 DEF Safe, Early, ClaimsMore
<1>. QED  BY <1>2, <1>8, <1>13, StaysSafe DEF m

(* The task goes on.                                                       *)
LEMMA GoesIs ==
    ASSUME FatInv, NEW t \in Tasks, NEW pc, Goes(t, pc)
    PROVE  GoesTo(task[t], task'[t], pc) /\ task'[t].failed = task[t].failed
<1>1. task \in [Tasks -> TaskRec] /\ task[t] \in TaskRec
  BY TaskIs
<1>2. task'[t] = [task[t] EXCEPT !.pc = pc]
  BY <1>1 DEF Goes
<1>. QED  BY <1>1, <1>2 DEF GoesTo, TaskRec

(* A file is overwritten.                                                  *)
LEMMA OverwriteSafe ==
    ASSUME FatInv, FatSafe, ~unsaved, Alone, NEW t \in Tasks, Overwrite(t)
    PROVE  FatSafe'
<1>. DEFINE k == task[t]
            m == task'[t]
            c == slot[k.old].first
<1>1. /\ Good(fat, slot, k, lost) /\ slot \in [Addresses -> Entry] /\ DOMAIN data = Clusters
      /\ IsTable(fat) /\ (dirty \/ disk = fat)
  BY SafeIs
<1>2. /\ k.pc = "entry" /\ k.op = "write" /\ k.old # NoSlot /\ Goes(t, "flush")
      /\ fat' = Freed(fat, Chain(fat, c))
      /\ slot' = Put(slot, k.old, k.entry) /\ dirty' = (dirty \/ c # Free)
      /\ data' = data /\ disk' = disk /\ kept' = kept
  BY DEF Overwrite, Put
<1>3. Unchanged(fat, disk, slot, data, kept) /\ Asked(fat, slot, data, k) /\ ~k.failed
  BY <1>2, EarlyIs DEF Early
<1>4. GoesTo(k, m, "flush") /\ ~m.failed
  BY <1>2, <1>3, GoesIs
<1>. HIDE DEF m, k
<1>5. Changed(Freed(fat, Chain(fat, c)), disk, slot', data, m, kept)
  BY <1>1, <1>2, <1>3, <1>4, OverwriteChanged
<1>. HIDE DEF c
<1>6. dirty' \/ disk' = fat'
  BY <1>1, <1>2, FreesDirty
<1>7. ~Early(m)
  BY <1>4 DEF GoesTo, Early
<1>8. Changed(fat', disk', slot', data', m, kept')
  BY <1>2, <1>5
<1>. QED  BY <1>1, <1>2, <1>4, <1>6, <1>7, <1>8, ChangedSafe DEF m

(* remove_file frees the clusters.                                         *)
LEMMA FreeFirstSafe ==
    ASSUME FatInv, FatSafe, ~unsaved, Alone, NEW t \in Tasks, FreeFirst(t)
    PROVE  FatSafe'
<1>. DEFINE k == task[t]
            m == task'[t]
            c == k.entry.first
<1>1. /\ Good(fat, slot, k, lost) /\ InPhase(k) /\ slot \in [Addresses -> Entry] /\ DOMAIN data = Clusters
      /\ IsTable(fat) /\ (dirty \/ disk = fat)
  BY SafeIs
<1>2. /\ k.pc = "free" /\ Goes(t, "unlink") /\ fat' = Freed(fat, Chain(fat, c))
      /\ dirty' = (dirty \/ c # Free)
      /\ slot' = slot /\ data' = data /\ disk' = disk /\ kept' = kept
  BY DEF FreeFirst
<1>3. Unchanged(fat, disk, slot, data, kept) /\ Asked(fat, slot, data, k) /\ ~k.failed
  BY <1>2, EarlyIs DEF Early
<1>4. GoesTo(k, m, "unlink") /\ ~m.failed
  BY <1>2, <1>3, GoesIs
<1>. HIDE DEF m, k
<1>5. Changed(Freed(fat, Chain(fat, c)), disk, slot, data, m, kept)
  <2>1. \A W : W = Put(slot, k.old, NoEntry) =>
            Changed(Freed(fat, Chain(fat, c)), disk, slot, data, m, kept)
    BY <1>1, <1>2, <1>3, <1>4, FreeFirstChanged
  <2>. QED  BY <2>1
<1>6. ~Early(m)
  BY <1>1, <1>2, <1>4 DEF GoesTo, Early, InPhase
<1>. HIDE DEF c
<1>7. dirty' \/ disk' = fat'
  BY <1>1, <1>2, FreesDirty
<1>8. Changed(fat', disk', slot', data', m, kept')
  BY <1>2, <1>5
<1>. QED  BY <1>1, <1>2, <1>4, <1>6, <1>7, <1>8, ChangedSafe DEF m
(* Once the entry is placed.                                               *)
LEMMA PlacedSafe ==
    ASSUME FatInv, FatSafe, ~unsaved, Alone, NEW t \in Tasks, Places(t), Goes(t, AfterPlace(t))
    PROVE  /\ Unchanged(fat, disk, slot, data, kept) /\ Asked(fat, slot, data, task[t])
           /\ PlacesEntry(task[t]) /\ PlacedBy(task[t], task'[t])
           /\ ~task'[t].failed /\ ~Early(task'[t])
<1>1. task[t].pc = "entry" /\ PlacesEntry(task[t]) /\ InPhase(task[t])
  BY TaskIs DEF Places, PlacesEntry
<1>2. Unchanged(fat, disk, slot, data, kept) /\ Asked(fat, slot, data, task[t]) /\ ~task[t].failed
  BY <1>1, EarlyIs DEF Early
<1>3. GoesTo(task[t], task'[t], AfterPlace(t)) /\ task'[t].failed = task[t].failed
  BY GoesIs
<1>4. PlacedBy(task[t], task'[t])
  BY <1>3 DEF GoesTo, PlacedBy, AfterPlace
<1>5. ~Early(task'[t])
  BY <1>2, <1>3 DEF GoesTo, AfterPlace, Early
<1>. QED  BY <1>1, <1>2, <1>3, <1>4, <1>5

(* The entry goes to a vacant slot.                                        *)
LEMMA PlaceEntrySafe ==
    ASSUME FatInv, FatSafe, ~unsaved, Alone, Alike, NEW t \in Tasks, PlaceEntry(t)
    PROVE  FatSafe'
<1>. DEFINE k == task[t]
            m == task'[t]
            v == FirstVacant(k.loc)
<1>1. /\ Good(fat, slot, k, lost) /\ slot \in [Addresses -> Entry] /\ DOMAIN data = Clusters
      /\ (dirty \/ disk = fat)
  BY SafeIs
<1>2. /\ Places(t) /\ Goes(t, AfterPlace(t)) /\ Vacant(k.loc) # {}
      /\ slot' = Put(slot, v, k.entry)
      /\ UNCHANGED <<fat, dirty, disk, data, kept>>
  BY DEF PlaceEntry, Put
<1>3. /\ Unchanged(fat, disk, slot, data, kept) /\ Asked(fat, slot, data, k)
      /\ PlacesEntry(k) /\ PlacedBy(k, m) /\ ~m.failed /\ ~Early(m)
  BY <1>2, PlacedSafe
<1>4. v \in SlotsOf(fat, k.loc) /\ slot[v] = NoEntry
  BY <1>2, FirstVacantIs DEF Vacant
<1>. HIDE DEF m, k, v
<1>5. k.op \in {"write", "create_dir", "rename"} /\ Placeable(fat, disk, slot, data, k, v)
  BY <1>1, <1>3, <1>4, PlaceableHere
<1>6. Ready(fat, disk, slot, data, kept) /\ RootDirs(slot)
  BY <1>1, <1>3, UnchangedReady DEF Good
<1>7. Changed(fat, disk, slot', data, m, kept)
  BY <1>1, <1>2, <1>3, <1>5, <1>6, PlacedChanged
<1>8. Changed(fat', disk', slot', data', m, kept')
  BY <1>2, <1>7
<1>. QED  BY <1>1, <1>2, <1>3, <1>8, ChangedSafe DEF m

(* Or to a cluster that the folder gets.                                   *)
LEMMA PlaceInNewClusterSafe ==
    ASSUME FatInv, FatSafe, ~unsaved, Alone, Alike, NEW t \in Tasks, PlaceInNewCluster(t)
    PROVE  FatSafe'
<1>. DEFINE k == task[t]
            m == task'[t]
            f == FirstFree
            last == LastCluster(k.loc)
            V == Cleared(slot, f)
            v == <<f, 1>>
<1>1. /\ Good(fat, slot, k, lost) /\ slot \in [Addresses -> Entry] /\ DOMAIN data = Clusters
      /\ IsTable(fat)
  BY SafeIs
<1>2. /\ Places(t) /\ Goes(t, AfterPlace(t)) /\ k.loc # Free /\ Unclaimed # {}
      /\ fat' = [fat EXCEPT ![last] = f, ![f] = EOC] /\ dirty' = TRUE
      /\ data' = [data EXCEPT ![f] = <<"folder">>]
      /\ slot' = InNew(slot, k.entry, f)
      /\ UNCHANGED <<disk, kept>>
  BY DEF PlaceInNewCluster, Grown, InNew
<1>3. /\ Unchanged(fat, disk, slot, data, kept) /\ Asked(fat, slot, data, k)
      /\ PlacesEntry(k) /\ PlacedBy(k, m) /\ ~m.failed /\ ~Early(m)
  BY <1>2, PlacedSafe
<1>4. f \in Clusters /\ fat[f] = Free
  BY <1>2, FirstFreeIs
<1>. HIDE DEF m, k, f
<1>5. last \in Chain(fat, k.loc) /\ fat[last] = EOC
  <2>1. InFolder(slot, k)
    BY <1>1, <1>3, PlacesWhere
  <2>. QED  BY <1>1, <1>2, <2>1, LastClusterIs
<1>. HIDE DEF last
<1>6. Growing(fat, k, fat', last, f)
  <2>1. last \in Clusters /\ last # f
    BY <1>4, <1>5, ChainWithin, ClustersAre
  <2>2. /\ fat'[f] = EOC /\ fat'[last] = f
        /\ \A x \in Clusters \ {f, last} : fat'[x] = fat[x]
    BY <1>1, <1>2, <1>4, <2>1 DEF IsTable
  <2>3. IsTable(fat')
    BY <1>1, <1>2, <1>4, <2>1 DEF IsTable
  <2>. QED  BY <1>4, <1>5, <2>2, <2>3 DEF Growing
<1>7. DOMAIN data' = Clusters /\ \A x \in Clusters : x # f => data'[x] = data[x]
  BY <1>1, <1>2
<1>8. slot' = Put(V, v, k.entry)
  <2>1. v \in Addresses /\ v[1] = f
    BY <1>4, Fat16Assumption DEF Addresses
  <2>2. DOMAIN V = Addresses /\ \A a \in Addresses : V[a] = IF a[1] = f THEN NoEntry ELSE slot[a]
    BY DEF Cleared
  <2>3. DOMAIN slot' = Addresses
        /\ \A a \in Addresses : slot'[a] = IF a = v THEN k.entry ELSE V[a]
    <3>. HIDE DEF V
    <3>. QED  BY <1>2, <2>2 DEF InNew
  <2>. HIDE DEF V, v
  <2>4. Put(V, v, k.entry) = [a \in Addresses |-> IF a = v THEN k.entry ELSE V[a]]
    BY <2>1, <2>2 DEF Put
  <2>5. slot' = [a \in Addresses |-> slot'[a]]
    BY <1>2 DEF InNew
  <2>. QED  BY <2>3, <2>4, <2>5
<1>9. /\ k.op \in {"write", "create_dir", "rename"} /\ Placeable(fat', disk, V, data', k, v)
      /\ Ready(fat', disk, V, data', kept) /\ V \in [Addresses -> Entry] /\ RootDirs(V)
  <2>. DEFINE e == data'
              U == fat'
  <2>1. /\ Growing(fat, k, U, last, f) /\ SameBut(data, e, f)
    BY <1>6, <1>7 DEF SameBut
  <2>2. V = Cleared(slot, f)
    OBVIOUS
  <2>. HIDE DEF V, e, U
  <2>3. \A W : W = Cleared(slot, f) =>
           /\ k.op \in {"write", "create_dir", "rename"} /\ Placeable(U, disk, W, e, k, <<f, 1>>)
           /\ Ready(U, disk, W, e, kept) /\ W \in [Addresses -> Entry] /\ RootDirs(W)
    BY <1>1, <1>2, <1>3, <2>1, PlaceableGrown
  <2>. QED  BY <2>2, <2>3 DEF U, e
<1>. HIDE DEF V, v
<1>10. Changed(fat', disk, slot', data', m, kept)
  <2>. DEFINE e == data'
              U == fat'
  <2>1. k.op \in {"write", "create_dir", "rename"} /\ Placeable(U, disk, V, e, k, v)
        /\ Ready(U, disk, V, e, kept) /\ V \in [Addresses -> Entry] /\ RootDirs(V)
    BY <1>9
  <2>. HIDE DEF e, U
  <2>2. Changed(U, disk, slot', e, m, kept)
    BY <1>3, <1>8, <2>1, PlacedChanged
  <2>. QED  BY <2>2 DEF e, U
<1>11. Changed(fat', disk', slot', data', m, kept')
  BY <1>2, <1>10
<1>. QED  BY <1>2, <1>3, <1>7, <1>11, ChangedSafe DEF m

(* An entry is deleted.                                                    *)
LEMMA UnlinkSafe ==
    ASSUME FatInv, FatSafe, ~unsaved, Alone, NEW t \in Tasks, Unlink(t)
    PROVE  FatSafe'
<1>. DEFINE k == task[t]
            m == task'[t]
<1>1. /\ Good(fat, slot, k, lost) /\ InPhase(k) /\ slot \in [Addresses -> Entry] /\ DOMAIN data = Clusters
      /\ IsTable(fat) /\ (dirty \/ disk = fat) /\ Safe(fat, disk, slot, data, k, kept)
  BY SafeIs
<1>2. /\ k.pc = "unlink" /\ Goes(t, "flush") /\ slot' = Put(slot, k.old, NoEntry)
      /\ fat' = Freed(fat, Unlinked(t)) /\ dirty' = (dirty \/ Unlinked(t) # {})
      /\ Unlinked(t) = IF k.op = "remove" THEN Tree(k.entry) ELSE {}
      /\ data' = data /\ disk' = disk /\ kept' = kept
  BY DEF Unlink, Unlinked, Put
<1>3. GoesTo(k, m, "flush") /\ m.failed = k.failed
  BY <1>2, GoesIs
<1>4. dirty' \/ disk' = fat'
  <2>1. CASE Unlinked(t) = {}
    BY <1>1, <1>2, <2>1, FreedNone
  <2>2. CASE Unlinked(t) # {}
    BY <1>2, <2>2
  <2>. QED  BY <2>1, <2>2
<1>. HIDE DEF m, k
<1>5. CASE k.op = "remove"
  <2>1. Unchanged(fat, disk, slot, data, kept) /\ Asked(fat, slot, data, k) /\ ~k.failed
    BY <1>1, <1>2, <1>5 DEF Safe, Early
  <2>2. Unlinked(t) = TreeOf(fat, slot, k.entry)
    <3>1. k.entry = slot[k.old] /\ k.old \in Addresses
      BY <1>1, <1>2, <1>5 DEF Good, TaskOK, Removes, LiveIn
    <3>2. k.entry.dir => k.entry.first # Free
      BY <1>1, <3>1 DEF Good, RootDirs
    <3>. QED  BY <1>2, <1>5, <3>2, TreeIs
  <2>3. Changed(Freed(fat, TreeOf(fat, slot, k.entry)), disk, slot', data, m, kept)
    BY <1>1, <1>2, <1>3, <1>5, <2>1, RemoveChanged
  <2>4. Changed(fat', disk', slot', data', m, kept')
    BY <1>2, <2>2, <2>3
  <2>5. ~Early(m) /\ ~m.failed
    BY <1>3, <2>1 DEF GoesTo, Early
  <2>. QED  BY <1>1, <1>2, <1>4, <2>4, <2>5, ChangedSafe DEF m
<1>6. CASE k.op # "remove"
  <2>1. Changed(fat, disk, slot, data, k, kept) /\ ~k.failed
    BY <1>1, <1>2, <1>6 DEF Safe, Early
  <2>2. fat' = fat
    BY <1>1, <1>2, <1>6, FreedNone
  <2>3. Without(slot, k) = slot' /\ Without(slot', m) = slot'
    BY <1>2, <1>3 DEF Without, Put, GoesTo
  <2>4. \A p : Wanted(m, kept, p) = Wanted(k, kept, p) /\ (Untouched(m, p) <=> Untouched(k, p))
    BY <1>3 DEF Wanted, Untouched, GoesTo
  <2>5. Changed(fat, disk, slot', data, m, kept)
    BY <2>1, <2>3, <2>4 DEF Changed
  <2>6. Changed(fat', disk', slot', data', m, kept')
    BY <1>2, <2>2, <2>5
  <2>7. ~Early(m) /\ ~m.failed
    BY <1>3, <2>1 DEF GoesTo, Early
  <2>. QED  BY <1>1, <1>2, <1>4, <2>6, <2>7, ChangedSafe DEF m
<1>. QED  BY <1>5, <1>6
-----------------------------------------------------------------------------
(* Calls end.                                                              *)

(* No call asks for nothing.                                               *)
LEMMA IdleAsks == \A T, S, D : Asked(T, S, D, Idle) /\ Early(Idle) /\ ~Idle.failed /\ Idle.pc = "idle"
BY DEF Asked, Early, Idle

(* The FAT is on the disk, and what is kept is what is read there.         *)
LEMMA FlushSafe ==
    ASSUME FatInv, FatSafe, ~unsaved, Alone, NEW t \in Tasks, Flush(t)
    PROVE  FatSafe'
<1>. DEFINE k == task[t]
<1>1. /\ Good(fat, slot, k, lost) /\ slot \in [Addresses -> Entry] /\ DOMAIN data = Clusters
      /\ (dirty \/ disk = fat) /\ Safe(fat, disk, slot, data, k, kept)
      /\ task \in [Tasks -> TaskRec]
  BY SafeIs, TaskIs
<1>2. /\ k.pc = "flush" /\ disk' = (IF dirty THEN fat ELSE disk) /\ fat' = fat
      /\ data' = [c \in Clusters |-> IF c \in Forgotten THEN <<>> ELSE data[c]]
      /\ slot' = [a \in Addresses |-> IF a[1] \in Forgotten THEN NoEntry ELSE slot[a]]
      /\ task' = [task EXCEPT ![t] = Idle] /\ kept' = After(k)
  BY DEF Flush, Forget
<1>3. disk' = fat
  BY <1>1, <1>2
<1>4. task'[t] = Idle
  BY <1>1, <1>2
<1>. HIDE DEF k
<1>5. \A c \in Forgotten : c \in Clusters /\ fat[c] = Free
  BY DEF Forgotten
<1>6. SameRead(fat, slot, data, fat, slot', data')
  <2>1. Steady(k)
    BY <1>2 DEF Steady, DoomedOf
  <2>2. \A a \in Seen(fat, slot) : \A x \in Chain(fat, slot[a].first) : x \in Clusters /\ fat[x] # Free
    BY <1>1, <2>1, SeenApart
  <2>3. \A f \in Forgotten : f \notin Space(fat, slot)
    BY <1>1, <1>5, SpaceInUse
  <2>. QED  BY <1>2, <1>5, <2>2, <2>3 DEF SameRead
<1>7. Named(fat, slot) /\ \A p \in Paths : View(fat, slot, data, p) = After(k)[p]
  <2>1. CASE Early(k)
    <3>1. k.failed
      BY <1>2, <2>1 DEF Early
    <3>. QED  BY <1>1, <2>1, <3>1 DEF Safe, Unchanged, After
  <2>2. CASE ~Early(k)
    <3>1. Changed(fat, disk, slot, data, k, kept) /\ ~k.failed
      BY <1>1, <2>2 DEF Safe
    <3>2. Without(slot, k) = slot
      BY <1>2 DEF Without
    <3>3. After(k) = [p \in Paths |-> Wanted(k, kept, p)]
      BY <3>1 DEF After, Wanted
    <3>. QED  BY <3>1, <3>2, <3>3 DEF Changed
  <2>. QED  BY <2>1, <2>2
<1>8. Unchanged(fat', disk', slot', data', kept')
  <2>1. Named(fat, slot')
    BY <1>6, <1>7, NamedSame
  <2>2. \A p \in Paths : View(fat, slot', data', p) = View(fat, slot, data, p)
    BY <1>1, <1>6, ViewSame
  <2>3. OnDisk(fat, fat, slot')
    BY DEF OnDisk
  <2>. QED  BY <1>2, <1>3, <1>7, <2>1, <2>2, <2>3 DEF Unchanged
<1>9. Safe(fat', disk', slot', data', task'[t], kept')
  BY <1>4, <1>8, IdleAsks DEF Safe
<1>10. DOMAIN data' = Clusters
  BY <1>2
<1>. QED  BY <1>2, <1>3, <1>9, <1>10, StaysSafe
-----------------------------------------------------------------------------
(* Calls begin.                                                            *)

(* The directories a path is looked up in.                                 *)
LEMMA WhereIs ==
    ASSUME RootDirs(slot), NEW T, NEW q \in Paths
    PROVE  /\ ResolveDir(T, q) = Where(slot, q)
           /\ Spots(T, slot, q) = UNION {SlotsOf(T, l) : l \in Where(slot, q)}
<1>1. ResolveDir(T, q) = Where(slot, q)
  <2>1. CASE Len(q) = 1
    BY <2>1 DEF ResolveDir, Where
  <2>2. CASE Len(q) # 1
    <3>1. SlotsOf(T, Free) = Root
      BY DEF SlotsOf, Root
    <3>2. ASSUME NEW l \in ResolveDir(T, q) PROVE l \in Where(slot, q)
      <4>1. PICK e \in Folders(T) : e.name = q[1] /\ l = e.first
        BY <2>2 DEF ResolveDir
      <4>2. e.dir /\ \E b \in Root : e = slot[b]
        BY <3>1, <4>1 DEF Folders, EntriesIn
      <4>. QED  BY <2>2, <4>1, <4>2 DEF Where
    <3>3. ASSUME NEW l \in Where(slot, q) PROVE l \in ResolveDir(T, q)
      <4>1. PICK b \in Root : slot[b].dir /\ slot[b].name = q[1] /\ l = slot[b].first
        BY <2>2 DEF Where
      <4>2. slot[b] # NoEntry
        BY <4>1 DEF NoEntry
      <4>3. slot[b] \in Folders(T)
        BY <3>1, <4>1, <4>2 DEF Folders, EntriesIn
      <4>. QED  BY <2>2, <4>1, <4>3 DEF ResolveDir
    <3>. QED  BY <3>2, <3>3
  <2>. QED  BY <2>1, <2>2
<1>2. ASSUME NEW l \in Where(slot, q), NEW a \in SlotsOf(T, l) PROVE a \in Spots(T, slot, q)
  BY SlotsWhere
<1>3. ASSUME NEW a \in Spots(T, slot, q) PROVE \E l \in Where(slot, q) : a \in SlotsOf(T, l)
  <2>1. CASE Len(q) = 1
    <3>1. a \in SlotsOf(T, Free) /\ Free \in Where(slot, q)
      BY <2>1 DEF Spots, SlotsOf, Root, Where
    <3>. QED  BY <3>1
  <2>2. CASE Len(q) # 1
    <3>1. PICK b \in Root : slot[b].dir /\ slot[b].name = q[1] /\ a[1] \in Chain(T, slot[b].first)
      BY <2>2 DEF Spots
    <3>2. a \in Addresses /\ a[1] \in Clusters
      BY <2>2, <3>1, ChainWithin DEF Spots
    <3>3. a \in Chain(T, slot[b].first) \X (1 .. Room)
      BY <3>1, <3>2, ClustersAre DEF Addresses
    <3>4. slot[b].first # Free
      BY <3>1, RootIs DEF RootDirs
    <3>5. a \in SlotsOf(T, slot[b].first)
      BY <3>3, <3>4 DEF SlotsOf
    <3>. QED  BY <2>2, <3>1, <3>5 DEF Where
  <2>. QED  BY <2>1, <2>2
<1>. QED  BY <1>1, <1>2, <1>3

(* What is found there.                                                    *)
LEMMA LookupIs ==
    ASSUME RootDirs(slot), NEW T, NEW q \in Paths
    PROVE  Lookup(T, q) = Found(T, slot, q)
BY WhereIs DEF Lookup, FindSlots, Found

(* And read.                                                               *)
LEMMA ContentsAre ==
    ASSUME RootDirs(slot), NEW T, NEW q \in Paths
    PROVE  Contents(T, q) = View(T, slot, data, q)
<1>1. Lookup(T, q) = Found(T, slot, q)
  BY LookupIs
<1>. QED  BY <1>1 DEF Contents, View, Shown

(* There is one such directory.                                            *)
LEMMA FoundIn ==
    ASSUME RootDirs(slot), NEW T, Named(T, slot), NEW q \in Paths, NEW loc \in ResolveDir(T, q)
    PROVE  FindSlots(T, loc, Last(q)) = Found(T, slot, q) /\ loc \in Where(slot, q)
<1>1. loc \in Where(slot, q)
  BY WhereIs
<1>2. ASSUME NEW l \in Where(slot, q) PROVE l = loc
  <2>1. CASE Len(q) = 1
    BY <1>1, <2>1 DEF Where
  <2>2. CASE Len(q) # 1
    BY <1>1, <2>2, PathIs DEF Where, Named, NamesApart
  <2>. QED  BY <2>1, <2>2
<1>3. Spots(T, slot, q) = SlotsOf(T, loc)
  BY <1>1, <1>2, WhereIs
<1>. QED  BY <1>1, <1>3 DEF FindSlots, Found

(* The call is known, and nothing has changed.                             *)
Calls(m, op, path, to, loc, old, entry, todo, pc) ==
    m = [op |-> op, pc |-> pc, path |-> path, to |-> to, loc |-> loc, old |-> old,
         entry |-> entry, todo |-> todo, last |-> Free, found |-> Free, failed |-> FALSE]

(* A call that begins changes nothing, and is known from then on.          *)
LEMMA BeginsAs ==
    ASSUME FatInv, FatSafe, Alone, NEW t \in Tasks, NEW op, NEW path, NEW to, NEW loc,
           NEW old, NEW entry, NEW todo, NEW pc, Begins(t, op, path, to, loc, old, entry, todo, pc)
    PROVE  /\ Calls(task'[t], op, path, to, loc, old, entry, todo, pc)
           /\ Unchanged(fat, disk, slot, data, kept) /\ RootDirs(slot) /\ ~unsaved
           /\ UNCHANGED <<fat, dirty, disk, slot, data, kept>>
<1>1. task[t] = Idle /\ ~unsaved /\ task \in [Tasks -> TaskRec] /\ UNCHANGED <<fat, dirty, disk, slot, data, kept>>
  BY TaskIs DEF Begins
<1>2. task'[t] = [Idle EXCEPT !.op = op, !.path = path, !.to = to, !.loc = loc,
                              !.old = old, !.entry = entry, !.todo = todo, !.pc = pc]
  BY <1>1 DEF Begins
<1>3. Calls(task'[t], op, path, to, loc, old, entry, todo, pc)
  BY <1>2, ZenonT(60) DEF Idle, Calls
<1>4. Early(task[t]) /\ task[t].pc # "flush"
  BY <1>1, IdleAsks
<1>5. Unchanged(fat, disk, slot, data, kept)
  BY <1>1, <1>4, EarlyIs
<1>6. RootDirs(slot)
  BY TaskIs DEF Good
<1>. QED  BY <1>1, <1>3, <1>5, <1>6

(* It is enough that it asks for what there is.                            *)
LEMMA BeginsSafe ==
    ASSUME FatInv, FatSafe, ~unsaved, Alone, NEW t \in Tasks, NEW m, m = task'[t],
           Unchanged(fat, disk, slot, data, kept), UNCHANGED <<fat, dirty, disk, slot, data, kept>>,
           Asked(fat, slot, data, m), Early(m), ~m.failed
    PROVE  FatSafe'
<1>1. Safe(fat', disk', slot', data', task'[t], kept')
  BY DEF Safe
<1>2. DOMAIN data = Clusters /\ (dirty \/ disk = fat)
  BY SafeIs
<1>. QED  BY <1>1, <1>2, StaysSafe

(* write_file.                                                             *)
LEMMA BeginWriteSafe ==
    ASSUME FatInv, FatSafe, Alone, NEW t \in Tasks, NEW path \in Paths, path \in Files,
           NEW n \in Sizes, BeginWrite(t, path, n)
    PROVE  FatSafe'
<1>. DEFINE e == [name |-> Last(path), dir |-> FALSE, first |-> Free, size |-> n]
            pc == IF n = 0 THEN "entry" ELSE "data"
            op == "write"
            m == task'[t]
<1>1. PICK loc \in ResolveDir(fat, path) :
          \E old \in IF FindSlots(fat, loc, Last(path)) = {} THEN {NoSlot} ELSE FindSlots(fat, loc, Last(path)) :
              Begins(t, op, path, path, loc, old, e, n, pc)
  BY DEF BeginWrite
<1>2. PICK old \in IF FindSlots(fat, loc, Last(path)) = {} THEN {NoSlot} ELSE FindSlots(fat, loc, Last(path)) :
              Begins(t, op, path, path, loc, old, e, n, pc)
  BY <1>1
<1>3. n \in Nat
  BY Fat16Assumption
<1>4. e.name = Last(path) /\ e.dir = FALSE /\ e.first = Free /\ e.size = n
  OBVIOUS
<1>5. pc \in {"entry", "data"} /\ (pc = "entry" <=> n = 0) /\ op = "write"
  OBVIOUS
<1>. HIDE DEF e, pc, op
<1>6. /\ Calls(m, op, path, path, loc, old, e, n, pc)
      /\ Unchanged(fat, disk, slot, data, kept) /\ RootDirs(slot) /\ ~unsaved
      /\ UNCHANGED <<fat, dirty, disk, slot, data, kept>>
  BY <1>2, BeginsAs
<1>. HIDE DEF m
<1>7. /\ m.op = "write" /\ m.path = path /\ m.to = path /\ m.loc = loc /\ m.old = old /\ m.entry = e
      /\ m.todo = n /\ m.pc = pc /\ ~m.failed
  BY <1>5, <1>6 DEF Calls
<1>8. FindSlots(fat, loc, Last(path)) = Found(fat, slot, path) /\ loc \in Where(slot, path)
  BY <1>6, FoundIn DEF Unchanged
<1>9. NoSlot \notin Found(fat, slot, path)
  BY FoundSeen, RootIs
<1>10. Filled(fat, data, m)
  BY <1>3, <1>4, <1>5, <1>7 DEF Filled
<1>11. Asked(fat, slot, data, m)
  BY <1>2, <1>4, <1>7, <1>8, <1>9, <1>10 DEF Asked
<1>12. Early(m)
  BY <1>5, <1>7 DEF Early
<1>. QED  BY <1>6, <1>7, <1>11, <1>12, BeginsSafe DEF m

(* create_dir.                                                             *)
LEMMA BeginCreateDirSafe ==
    ASSUME FatInv, FatSafe, Alone, NEW t \in Tasks, NEW path \in Paths, path \notin Files,
           BeginCreateDir(t, path)
    PROVE  FatSafe'
<1>. DEFINE e == [name |-> Last(path), dir |-> TRUE, first |-> Free, size |-> 0]
            m == task'[t]
<1>1. PICK loc \in ResolveDir(fat, path) :
          /\ FindSlots(fat, loc, Last(path)) = {}
          /\ Begins(t, "create_dir", path, path, loc, NoSlot, e, 1, "data")
  BY DEF BeginCreateDir
<1>2. e.name = Last(path) /\ e.dir = TRUE
  OBVIOUS
<1>. HIDE DEF e
<1>3. /\ Calls(m, "create_dir", path, path, loc, NoSlot, e, 1, "data")
      /\ Unchanged(fat, disk, slot, data, kept) /\ RootDirs(slot) /\ ~unsaved
      /\ UNCHANGED <<fat, dirty, disk, slot, data, kept>>
  BY <1>1, BeginsAs
<1>. HIDE DEF m
<1>4. /\ m.op = "create_dir" /\ m.path = path /\ m.to = path /\ m.loc = loc /\ m.old = NoSlot /\ m.entry = e
      /\ m.pc = "data" /\ ~m.failed
  BY <1>3 DEF Calls
<1>5. FindSlots(fat, loc, Last(path)) = Found(fat, slot, path) /\ loc \in Where(slot, path)
  BY <1>3, FoundIn DEF Unchanged
<1>6. Asked(fat, slot, data, m) /\ Early(m)
  BY <1>1, <1>2, <1>4, <1>5 DEF Asked, Early
<1>. QED  BY <1>3, <1>4, <1>6, BeginsSafe DEF m

(* remove_file and remove.                                                 *)
LEMMA BeginRemovesSafe ==
    ASSUME FatInv, FatSafe, Alone, NEW t \in Tasks, NEW path \in Paths, NEW op, NEW pc,
           \/ op = "remove" /\ pc = "unlink"
           \/ op = "remove_file" /\ pc = "free",
           NEW old \in Lookup(fat, path),
           Begins(t, op, path, path, Free, old, slot[old], 0, pc)
    PROVE  FatSafe'
<1>. DEFINE m == task'[t]
<1>1. /\ Calls(m, op, path, path, Free, old, slot[old], 0, pc)
      /\ Unchanged(fat, disk, slot, data, kept) /\ RootDirs(slot) /\ ~unsaved
      /\ UNCHANGED <<fat, dirty, disk, slot, data, kept>>
  BY BeginsAs
<1>. HIDE DEF m
<1>2. /\ m.op = op /\ m.path = path /\ m.to = path /\ m.old = old /\ m.pc = pc /\ ~m.failed
  BY <1>1 DEF Calls
<1>3. old \in Found(fat, slot, path)
  BY <1>1, LookupIs
<1>4. old # NoSlot
  BY <1>3, FoundSeen, RootIs
<1>5. Asked(fat, slot, data, m) /\ Early(m)
  BY <1>2, <1>3, <1>4 DEF Asked, Early
<1>. QED  BY <1>1, <1>2, <1>5, BeginsSafe DEF m

(* rename.                                                                 *)
LEMMA BeginRenameSafe ==
    ASSUME FatInv, FatSafe, Alone, NEW t \in Tasks, NEW path \in Paths, NEW to \in Paths, BeginRename(t, path, to)
    PROVE  FatSafe'
<1>. DEFINE m == task'[t]
<1>1. PICK old \in Lookup(fat, path), loc \in ResolveDir(fat, to) :
           /\ FindSlots(fat, loc, Last(to)) = {}
           /\ slot[old].dir <=> to \notin Files
           /\ Begins(t, "rename", path, to, loc, old, [slot[old] EXCEPT !.name = Last(to)], 0, "entry")
  BY DEF BeginRename
<1>. DEFINE e == [slot[old] EXCEPT !.name = Last(to)]
<1>2. /\ Calls(m, "rename", path, to, loc, old, e, 0, "entry")
      /\ Unchanged(fat, disk, slot, data, kept) /\ RootDirs(slot) /\ ~unsaved
      /\ UNCHANGED <<fat, dirty, disk, slot, data, kept>>
  <2>1. Begins(t, "rename", path, to, loc, old, e, 0, "entry")
    BY <1>1
  <2>. HIDE DEF m, e
  <2>. QED  BY <2>1, BeginsAs DEF m
<1>3. old \in Found(fat, slot, path)
  BY <1>2, LookupIs
<1>4. old # NoSlot /\ old \in Addresses
  BY <1>3, FoundSeen, RootIs
<1>5. e.name = Last(to) /\ e.dir = slot[old].dir
  <2>1. slot[old] \in Entry
    BY <1>4, TaskIs DEF Good, Typed
  <2>. QED  BY <2>1 DEF Entry
<1>. HIDE DEF m
<1>6. /\ m.op = "rename" /\ m.path = path /\ m.to = to /\ m.loc = loc /\ m.old = old /\ m.entry = e
      /\ m.pc = "entry" /\ ~m.failed
  <2>. HIDE DEF e
  <2>. QED  BY <1>2 DEF Calls
<1>7. Found(fat, slot, to) = {} /\ loc \in Where(slot, to)
  BY <1>1, <1>2, FoundIn DEF Unchanged
<1>8. m.entry = [slot[m.old] EXCEPT !.name = Last(m.to)]
  BY <1>6
<1>. HIDE DEF e
<1>9. Asked(fat, slot, data, m) /\ Early(m)
  BY <1>1, <1>3, <1>4, <1>5, <1>6, <1>7, <1>8 DEF Asked, Early
<1>. QED  BY <1>2, <1>6, <1>9, BeginsSafe DEF m
-----------------------------------------------------------------------------
(* The invariant.                                                          *)

(* An empty volume.                                                        *)
LEMMA InitSafe == FatInit => FatSafe
<1>. SUFFICES ASSUME FatInit PROVE FatSafe
  OBVIOUS
<1>1. /\ disk = fat /\ DOMAIN data = Clusters /\ \A t \in Tasks : task[t] = Idle
      /\ \A p \in Paths : kept[p] = Absent
  BY DEF FatInit
<1>2. \A a \in Addresses : slot[a] = NoEntry
  BY DEF FatInit
<1>3. ~NoEntry.dir /\ NoEntry.name = None
  BY DEF NoEntry
<1>4. Named(fat, slot)
  BY <1>2, <1>3, RootIs DEF Named, NamesApart, FolderNames
<1>5. OnDisk(fat, disk, slot)
  BY <1>1 DEF OnDisk
<1>6. ASSUME NEW p \in Paths PROVE View(fat, slot, data, p) = kept[p]
  <2>1. Found(fat, slot, p) = {}
    BY <1>2, FoundSeen
  <2>. QED  BY <1>1, <2>1 DEF View
<1>7. Unchanged(fat, disk, slot, data, kept)
  BY <1>4, <1>5, <1>6 DEF Unchanged
<1>8. \A t \in Tasks : Safe(fat, disk, slot, data, task[t], kept)
  BY <1>1, <1>7, IdleAsks DEF Safe
<1>. QED  BY <1>1, <1>8 DEF FatSafe

(* Once a flush has failed nothing is said any more.                       *)
LEMMA UnsavedStays ==
    ASSUME FatSafe, unsaved, [FatNext]_fatVars
    PROVE  FatSafe'
<1>1. unsaved /\ DOMAIN data = Clusters
  BY DEF FatSafe
<1>2. CASE UNCHANGED fatVars
  BY <1>1, <1>2 DEF fatVars, FatSafe
<1>3. ASSUME NEW t \in Tasks, Operation(t) PROVE unsaved' /\ DOMAIN data' = Clusters
  <2>1. \E op, path, to, loc, old, entry, todo, pc : Begins(t, op, path, to, loc, old, entry, todo, pc)
    BY <1>3 DEF Operation, BeginWrite, BeginCreateDir, BeginRemoveFile, BeginRemove, BeginRename
  <2>. QED  BY <1>1, <2>1 DEF Begins
<1>4. ASSUME NEW t \in Tasks, Allocate(t) PROVE unsaved' /\ DOMAIN data' = Clusters
  BY <1>1, <1>4 DEF Allocate, AllocateFinds, AllocateFails, Claim, ClaimFails
<1>5. ASSUME NEW t \in Tasks, Place(t) PROVE unsaved' /\ DOMAIN data' = Clusters
  BY <1>1, <1>5 DEF Place, PlaceEntry, PlaceInNewCluster, NoPlace, PlaceFails
<1>6. ASSUME NEW t \in Tasks, Change(t) PROVE unsaved' /\ DOMAIN data' = Clusters
  BY <1>1, <1>6 DEF Change, Overwrite, OverwriteFails, FreeFirst, Unlink, UnlinkFails
<1>7. ASSUME NEW t \in Tasks, Commit(t) PROVE unsaved' /\ DOMAIN data' = Clusters
  BY <1>1, <1>7 DEF Commit, Flush, FlushFails, Forget
<1>. QED  BY <1>2, <1>3, <1>4, <1>5, <1>6, <1>7 DEF FatNext, FatSafe

(* Every step of the only task leaves the volume safe.                     *)
LEMMA NextSafe ==
    ASSUME FatInv, FatSafe, Alone, NoLateFaults, Alike, [FatNext]_fatVars
    PROVE  FatSafe'
<1>1. CASE unsaved
  BY <1>1, UnsavedStays
<1>2. CASE ~unsaved /\ UNCHANGED fatVars
  BY <1>2 DEF fatVars, FatSafe
<1>3. CASE ~unsaved /\ FatNext
  <2>1. PICK t \in Tasks : Operation(t) \/ Allocate(t) \/ Place(t) \/ Change(t) \/ Commit(t)
    BY <1>3 DEF FatNext
  <2>2. CASE Operation(t)
    <3>1. PICK path \in Paths :
              \/ path \in Files /\ \E n \in Sizes : BeginWrite(t, path, n)
              \/ path \notin Files /\ BeginCreateDir(t, path)
              \/ BeginRemoveFile(t, path)
              \/ BeginRemove(t, path)
              \/ \E to \in Paths : BeginRename(t, path, to)
      BY <2>2 DEF Operation
    <3>2. CASE BeginRemoveFile(t, path)
      BY <3>2, BeginRemovesSafe DEF BeginRemoveFile
    <3>3. CASE BeginRemove(t, path)
      BY <3>3, BeginRemovesSafe DEF BeginRemove
    <3>. QED  BY <3>1, <3>2, <3>3, BeginWriteSafe, BeginCreateDirSafe, BeginRenameSafe
  <2>3. CASE Allocate(t)
    BY <1>3, <2>3, AllocateFindsSafe, AllocateFailsSafe, ClaimSafe, ClaimFailsSafe DEF Allocate
  <2>4. CASE Place(t)
    <3>1. CASE PlaceEntry(t)
      BY <1>3, <3>1, PlaceEntrySafe
    <3>2. CASE PlaceInNewCluster(t)
      BY <1>3, <3>2, PlaceInNewClusterSafe
    <3>3. CASE NoPlace(t)
      BY <1>3, <3>3, GivesUpSafe DEF NoPlace, Places
    <3>4. CASE PlaceFails(t)
      BY <1>3, <3>4, GivesUpSafe DEF PlaceFails, Places
    <3>. QED  BY <2>4, <3>1, <3>2, <3>3, <3>4 DEF Place
  <2>5. CASE Change(t)
    <3>1. CASE OverwriteFails(t)
      BY <1>3, <3>1, GivesUpSafe DEF OverwriteFails
    <3>. QED  BY <1>3, <2>5, <3>1, OverwriteSafe, FreeFirstSafe, UnlinkSafe, UnlinkFailsSafe DEF Change
  <2>6. CASE Commit(t)
    <3>1. CASE FlushFails(t)
      <4>1. unsaved' = TRUE /\ data' = data
        BY <3>1 DEF FlushFails
      <4>. QED  BY <4>1 DEF FatSafe
    <3>. QED  BY <1>3, <2>6, <3>1, FlushSafe DEF Commit
  <2>. QED  BY <2>1, <2>2, <2>3, <2>4, <2>5, <2>6
<1>. QED  BY <1>1, <1>2, <1>3

(* What a call in progress is not about has, on the disk, what was kept.   *)
LEMMA OthersAreSafe ==
    ASSUME FatInv, FatSafe, Alone
    PROVE  OthersSurvive
<1>. SUFFICES ASSUME ~unsaved, NEW p \in Paths, ~Touched(p)
              PROVE  Contents(disk, p) = kept[p]
  BY DEF OthersSurvive
<1>1. PICK t \in Tasks : TRUE
  BY DEF Alone
<1>2. /\ Good(fat, slot, task[t], lost) /\ slot \in [Addresses -> Entry]
      /\ Safe(fat, disk, slot, data, task[t], kept)
  BY SafeIs
<1>3. Contents(disk, p) = View(disk, slot, data, p)
  BY <1>2, ContentsAre DEF Good
<1>4. CASE Early(task[t])
  BY <1>2, <1>3, <1>4, UnchangedReady DEF Safe, Ready
<1>5. CASE ~Early(task[t])
  <2>1. task[t] # Idle
    BY <1>5, IdleAsks
  <2>2. Untouched(task[t], p)
    BY <2>1 DEF Touched, Untouched
  <2>. QED  BY <1>2, <1>3, <1>5, <2>2 DEF Safe, Changed
<1>. QED  BY <1>3, <1>4, <1>5

(* Stop the kernel at any moment, the disk keeping its power: what it      *)
(* shows under every path that the call in progress is not about is what   *)
(* the operations on it that succeeded left there, for any paths, sizes,   *)
(* clusters and folders.                                                   *)
THEOREM OthersSurviveReset == Alone /\ NoLateFaults /\ Alike => (FatSpec => []OthersSurvive)
<1>. SUFFICES ASSUME Alone, NoLateFaults, Alike PROVE FatSpec => []OthersSurvive
  OBVIOUS
<1>1. FatInit => FatInv /\ FatSafe
  BY InitGood, InitSafe
<1>2. (FatInv /\ FatSafe) /\ [FatNext]_fatVars => (FatInv /\ FatSafe)'
  BY NextGood, NextSafe
<1>3. FatInv /\ FatSafe => OthersSurvive
  BY OthersAreSafe
<1>. QED  BY <1>1, <1>2, <1>3, PTL DEF FatSpec
=============================================================================
