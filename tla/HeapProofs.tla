------------------------------ MODULE HeapProofs ------------------------------
(***************************************************************************)
(* Proofs that the kernel's heap hands out every byte at most once, loses  *)
(* none, keeps its list in address order with no two free blocks touching, *)
(* and refuses a request only if there really is no room: for any size of  *)
(* heap, any alignment and any requests.                                   *)
(***************************************************************************)
EXTENDS Heap, WellFoundedInduction, FiniteSetTheorems, TLAPS

-----------------------------------------------------------------------------
(* The inductive invariant.                                                *)

(* What a list can be made of.                                             *)
FreeLists ==
    [head : Int, header : UNION {[D -> [size : Nat \ {0}, next : Int]] : D \in SUBSET Nat}]

(* The free block after a, or the first; x is the next one of F above a.   *)
Link(list, a) == IF a = NoBlock THEN list.head ELSE list.header[a].next
IsNext(x, F, a) ==
    \/ x = NoBlock /\ \A c \in F : c <= a
    \/ x \in F /\ a < x /\ \A c \in F : a < c => x <= c

(* Every link leads to the next free address.                              *)
Sorted(list) ==
    \A a \in DOMAIN list.header \cup {NoBlock} : IsNext(Link(list, a), DOMAIN list.header, a)

EndOf(list, a) == a + list.header[a].size

(* There is something between any two free blocks.                         *)
Spaced(list) == \A a, c \in DOMAIN list.header : a < c => EndOf(list, a) < c

ListInv(list) ==
    /\ list \in FreeLists /\ Sorted(list) /\ Spaced(list)
    /\ \A a \in DOMAIN list.header : Aligned(a) /\ Aligned(list.header[a].size)

(* The byte is in the part F of the free blocks; in what is handed out.    *)
Among(list, F, byte) == \E a \in F : Holds(a, list.header[a].size, byte)
InFree(list, byte) == Among(list, DOMAIN list.header, byte)
HeldBy(b, byte) == Holds(b.at, Rounded(b.size), byte)
InLive(byte) == \E b \in live : HeldBy(b, byte)

(* What is handed out is below the edge, and handed out once.              *)
LiveInv ==
    /\ live \subseteq [at : Nat, size : Requests]
    /\ \A b \in live : Aligned(b.at) /\ b.at + Rounded(b.size) <= bump
    /\ \A b, c \in live : \A byte \in Nat : HeldBy(b, byte) /\ HeldBy(c, byte) => b = c

(* A byte is free or handed out, not both; no free block is at the edge.   *)
Complete ==
    /\ \A byte \in Nat : InFree(free, byte) => ~InLive(byte)
    /\ \A byte \in Nat : byte < bump => InFree(free, byte) \/ InLive(byte)
    /\ \A a \in DOMAIN free.header : EndOf(free, a) < bump

HeapInv ==
    /\ bump \in Nat /\ bump <= INITIAL_HEAP_SIZE /\ Aligned(bump)
    /\ ListInv(free) /\ LiveInv /\ Complete

-----------------------------------------------------------------------------
(* Induction, with sets for predicates.                                    *)

(* A set of natural numbers that is not empty has a least one.             *)
LEMMA Least == ASSUME NEW S \in SUBSET Nat, S # {} PROVE \E x \in S : \A y \in S : x <= y
  <1>1. PICK x \in S : \A y \in S : ~(<<y, x>> \in OpToRel(<, Nat))
    BY NatLessThanWellFounded, WFMin, Zenon
  <1>2. ASSUME NEW y \in S, y < x PROVE FALSE
    <2>1. <<y, x>> \in {ss \in Nat \X Nat : ss[1] < ss[2]}
      BY <1>2
    <2>2. <<y, x>> \in OpToRel(<, Nat)
      BY <2>1, Zenon DEF OpToRel
    <2> QED
      BY <1>1, <2>2, Zenon
  <1> QED
    BY <1>2

(* A set that has 0, and with each number the next, has them all.          *)
LEMMA Induction ==
    ASSUME NEW S \in SUBSET Nat, 0 \in S, \A n \in S : n + 1 \in S
    PROVE  \A n \in Nat : n \in S
<1>. SUFFICES ASSUME NEW n \in Nat, n \notin S PROVE FALSE
  OBVIOUS
<1>. DEFINE T == Nat \ S
<1>1. PICK m \in T : \A k \in T : m <= k
  BY Least
<1>2. m # 0 /\ m - 1 \in Nat /\ m - 1 \notin T
  BY <1>1
<1>3. m - 1 \in S
  BY <1>2
<1>4. (m - 1) + 1 \in S
  BY <1>3
<1>. QED  BY <1>1, <1>4

-----------------------------------------------------------------------------
(* Sizes.                                                                  *)

(* The constants.                                                          *)
LEMMA Numbers ==
    /\ MIN_ALIGN \in Nat /\ MIN_ALIGN > 0
    /\ MIN_BLOCK_SIZE \in Nat /\ 1 <= MIN_BLOCK_SIZE /\ MIN_BLOCK_SIZE <= MIN_ALIGN
    /\ INITIAL_HEAP_SIZE \in Nat /\ Requests \subseteq Nat
  BY HeapAssumption

(* A multiple of MIN_ALIGN is one.                                         *)
LEMMA Multiples == ASSUME NEW k \in Int PROVE Aligned(k * MIN_ALIGN)
  BY Numbers DEF Aligned

(* What is aligned is a multiple.                                          *)
LEMMA Quotient ==
    ASSUME NEW x \in Nat, Aligned(x)
    PROVE  \E k \in Nat : x = k * MIN_ALIGN
<1>1. x \div MIN_ALIGN \in Nat /\ x = (x \div MIN_ALIGN) * MIN_ALIGN
  BY Numbers DEF Aligned
<1>. QED  BY <1>1

(* Sums and differences of what is aligned are aligned.                    *)
LEMMA AlignedSum ==
    ASSUME NEW x \in Nat, NEW y \in Nat, Aligned(x), Aligned(y)
    PROVE  Aligned(x + y) /\ Aligned(x - y)
<1>1. PICK k \in Nat : x = k * MIN_ALIGN
  BY Quotient
<1>2. PICK j \in Nat : y = j * MIN_ALIGN
  BY Quotient
<1>3. x + y = (k + j) * MIN_ALIGN /\ x - y = (k - j) * MIN_ALIGN
  BY <1>1, <1>2, Numbers
<1>4. k + j \in Int /\ k - j \in Int
  OBVIOUS
<1>. QED  BY <1>3, <1>4, Multiples

(* An aligned remainder is nothing or has room for a header.               *)
LEMMA Remainders ==
    ASSUME NEW x \in Nat, Aligned(x), x < MIN_BLOCK_SIZE
    PROVE  x = 0
  BY Numbers DEF Aligned

(* What a request gets.                                                    *)
LEMMA RoundedIs ==
    ASSUME NEW size \in Nat
    PROVE  Rounded(size) \in Nat /\ Rounded(size) > 0 /\ Rounded(size) >= size /\ Aligned(Rounded(size))
<1>. DEFINE least == IF size < MIN_BLOCK_SIZE THEN MIN_BLOCK_SIZE ELSE size
<1>. DEFINE k == (least + MIN_ALIGN - 1) \div MIN_ALIGN
<1>1. least \in Nat /\ least >= 1 /\ least >= size
  BY Numbers
<1>2. Rounded(size) = k * MIN_ALIGN
  BY DEF Rounded
<1>. HIDE DEF least
<1>3. k \in Nat /\ k * MIN_ALIGN >= least
  BY <1>1, Numbers
<1>. HIDE DEF k
<1>4. k * MIN_ALIGN \in Nat
  BY <1>3, Numbers
<1>. QED  BY <1>1, <1>2, <1>3, <1>4, Multiples

-----------------------------------------------------------------------------
(* The walk along the list.                                                *)

(* A function that is a walk of i steps.                                   *)
Step(f, n) ==
    IF n = 0 THEN free.head ELSE IF f[n - 1] = NoBlock THEN NoBlock ELSE free.header[f[n - 1]].next
Walking(f, i) == f = [n \in 0 .. i |-> Step(f, n)]
Walks(i) == \E f : Walking(f, i)

(* There is a walk of any length.                                          *)
LEMMA WalkExists == ASSUME NEW i \in Nat PROVE Walks(i)
<1>. DEFINE S == {n \in Nat : Walks(n)}
<1>1. 0 \in S
  <2>. DEFINE f == [n \in 0 .. 0 |-> free.head]
  <2>1. f = [n \in 0 .. 0 |-> Step(f, n)]
    BY DEF Step
  <2>. QED  BY <2>1 DEF Walking, Walks
<1>2. ASSUME NEW n \in S PROVE n + 1 \in S
  <2>1. PICK f : Walking(f, n)
    BY <1>2 DEF Walks
  <2>. DEFINE g == [k \in 0 .. n + 1 |-> IF k = n + 1 THEN Step(f, n + 1) ELSE f[k]]
  <2>2. ASSUME NEW k \in 0 .. n + 1 PROVE g[k] = Step(g, k)
    <3>1. CASE k = n + 1
      <4>1. (n + 1) - 1 = n /\ n \in 0 .. n + 1 /\ n # n + 1 /\ n + 1 # 0
        OBVIOUS
      <4>2. g[n] = f[n]
        BY <4>1
      <4>3. g[k] = Step(f, n + 1)
        BY <3>1
      <4>. HIDE DEF g
      <4>. QED  BY <3>1, <4>1, <4>2, <4>3 DEF Step
    <3>2. CASE k # n + 1
      <4>1. k \in 0 .. n /\ (k # 0 => k - 1 \in 0 .. n /\ k - 1 \in 0 .. n + 1 /\ k - 1 # n + 1)
        BY <3>2
      <4>2. f[k] = Step(f, k)
        BY <2>1, <4>1 DEF Walking
      <4>3. g[k] = f[k] /\ (k # 0 => g[k - 1] = f[k - 1])
        BY <3>2, <4>1
      <4>. HIDE DEF g
      <4>. QED  BY <4>2, <4>3 DEF Step
    <3>. QED  BY <3>1, <3>2
  <2>3. g = [k \in 0 .. n + 1 |-> Step(g, k)]
    BY <2>2
  <2>. HIDE DEF g
  <2>. QED  BY <2>3 DEF Walking, Walks
<1>3. \A n \in Nat : n \in S
  <2>1. S \in SUBSET Nat
    OBVIOUS
  <2>. HIDE DEF S
  <2>. QED  BY <1>1, <1>2, <2>1, Induction
<1>. QED  BY <1>3

(* What Walk is.                                                           *)
LEMMA WalkIs == \A n \in 0 .. INITIAL_HEAP_SIZE : Walk[n] = Step(Walk, n)
<1>. DEFINE walk == CHOOSE f : Walking(f, INITIAL_HEAP_SIZE)
<1>1. Walking(walk, INITIAL_HEAP_SIZE)
  BY WalkExists, Numbers DEF Walks
<1>2. Walk = walk
  BY DEF Walk, Walking, Step, NextOf
<1>. HIDE DEF walk
<1>. QED  BY <1>1, <1>2 DEF Walking

(* The walk does not leave the list, and is further on than the number of  *)
(* steps it has made.                                                      *)
LEMMA WalkAdvances ==
    ASSUME free \in FreeLists, Sorted(free)
    PROVE  \A n \in 0 .. INITIAL_HEAP_SIZE :
               Walk[n] \in DOMAIN free.header \cup {NoBlock} /\ (Walk[n] # NoBlock => Walk[n] >= n)
<1>. DEFINE F == DOMAIN free.header
<1>. DEFINE S == {n \in Nat : n <= INITIAL_HEAP_SIZE =>
                      Walk[n] \in F \cup {NoBlock} /\ (Walk[n] # NoBlock => Walk[n] >= n)}
<1>0. F \subseteq Nat
  BY DEF FreeLists
<1>1. 0 \in S
  <2>1. Walk[0] = Link(free, NoBlock)
    BY WalkIs, Numbers DEF Step, Link
  <2>2. IsNext(Walk[0], F, NoBlock)
    BY <2>1 DEF Sorted
  <2>. QED  BY <1>0, <2>2 DEF IsNext
<1>2. ASSUME NEW n \in S PROVE n + 1 \in S
  <2>. SUFFICES ASSUME n + 1 <= INITIAL_HEAP_SIZE
                PROVE Walk[n + 1] \in F \cup {NoBlock} /\ (Walk[n + 1] # NoBlock => Walk[n + 1] >= n + 1)
    OBVIOUS
  <2>1. n + 1 \in 0 .. INITIAL_HEAP_SIZE /\ n + 1 # 0 /\ (n + 1) - 1 = n
    BY Numbers
  <2>2. Walk[n] \in F \cup {NoBlock} /\ (Walk[n] # NoBlock => Walk[n] >= n)
    BY Numbers
  <2>3. CASE Walk[n] = NoBlock
    BY <2>1, <2>3, WalkIs DEF Step
  <2>4. CASE Walk[n] # NoBlock
    <3>1. Walk[n + 1] = Link(free, Walk[n])
      BY <2>1, <2>4, WalkIs DEF Step, Link
    <3>2. IsNext(Walk[n + 1], F, Walk[n])
      BY <2>2, <3>1 DEF Sorted
    <3>. QED  BY <1>0, <2>2, <2>4, <3>2 DEF IsNext
  <2>. QED  BY <2>3, <2>4
<1>3. \A n \in Nat : n \in S
  <2>1. S \in SUBSET Nat
    OBVIOUS
  <2>. HIDE DEF S
  <2>. QED  BY <1>1, <1>2, <2>1, Induction
<1>. QED  BY <1>3, Numbers

(* It passes every free block.                                             *)
LEMMA WalkPasses ==
    ASSUME free \in FreeLists, Sorted(free), NEW c \in DOMAIN free.header
    PROVE  \A n \in 0 .. INITIAL_HEAP_SIZE :
               (\E m \in 0 .. n : Walk[m] = c) \/ (Walk[n] # NoBlock /\ Walk[n] <= c)
<1>. DEFINE F == DOMAIN free.header
<1>. DEFINE S == {n \in Nat : n <= INITIAL_HEAP_SIZE =>
                      (\E m \in 0 .. n : Walk[m] = c) \/ (Walk[n] # NoBlock /\ Walk[n] <= c)}
<1>0. F \subseteq Nat /\ c \in F
  BY DEF FreeLists
<1>1. 0 \in S
  <2>1. Walk[0] = Link(free, NoBlock)
    BY WalkIs, Numbers DEF Step, Link
  <2>2. IsNext(Walk[0], F, NoBlock)
    BY <2>1 DEF Sorted
  <2>. QED  BY <1>0, <2>2 DEF IsNext, NoBlock
<1>2. ASSUME NEW n \in S PROVE n + 1 \in S
  <2>. SUFFICES ASSUME n + 1 <= INITIAL_HEAP_SIZE, ~ \E m \in 0 .. n + 1 : Walk[m] = c
                PROVE Walk[n + 1] # NoBlock /\ Walk[n + 1] <= c
    OBVIOUS
  <2>1. n + 1 \in 0 .. INITIAL_HEAP_SIZE /\ n + 1 # 0 /\ (n + 1) - 1 = n
    BY Numbers
  <2>2. Walk[n] # NoBlock /\ Walk[n] <= c /\ Walk[n] # c
    BY Numbers
  <2>3. Walk[n] \in F \cup {NoBlock}
    BY <2>1, WalkAdvances, Numbers
  <2>4. Walk[n + 1] = Link(free, Walk[n])
    BY <2>1, <2>2, WalkIs DEF Step, Link
  <2>5. IsNext(Walk[n + 1], F, Walk[n])
    BY <2>3, <2>4 DEF Sorted
  <2>. QED  BY <1>0, <2>2, <2>3, <2>5 DEF IsNext, NoBlock
<1>3. \A n \in Nat : n \in S
  <2>1. S \in SUBSET Nat
    OBVIOUS
  <2>. HIDE DEF S
  <2>. QED  BY <1>1, <1>2, <2>1, Induction
<1>. QED  BY <1>3, Numbers

(* The walk ends.                                                          *)
LEMMA WalkEnds ==
    ASSUME free \in FreeLists, Sorted(free), \A a \in DOMAIN free.header : a < INITIAL_HEAP_SIZE
    PROVE  Walk[INITIAL_HEAP_SIZE] = NoBlock
<1>1. DOMAIN free.header \subseteq Nat
  BY DEF FreeLists
<1>. QED  BY <1>1, WalkAdvances, Numbers

(* So that every loop stops.                                               *)
LEMMA Stopping ==
    ASSUME free \in FreeLists, Sorted(free), \A a \in DOMAIN free.header : a < INITIAL_HEAP_SIZE,
           NEW S
    PROVE  Stop(S) \in 0 .. INITIAL_HEAP_SIZE /\ Stops(S, Stop(S))
<1>. DEFINE T == {n \in Nat : n <= INITIAL_HEAP_SIZE /\ Walk[n] \in S \cup {NoBlock}}
<1>1. INITIAL_HEAP_SIZE \in T
  BY WalkEnds, Numbers
<1>2. T \in SUBSET Nat
  OBVIOUS
<1>. HIDE DEF T
<1>3. PICK n \in T : \A m \in T : n <= m
  BY <1>1, <1>2, Least
<1>. USE DEF T
<1>4. n \in 0 .. INITIAL_HEAP_SIZE /\ Walk[n] \in S \cup {NoBlock}
  OBVIOUS
<1>5. ASSUME NEW m \in 0 .. n - 1 PROVE Walk[m] \notin S \cup {NoBlock}
  <2>1. m \in Nat /\ m < n /\ m <= INITIAL_HEAP_SIZE
    BY <1>4, Numbers
  <2>. QED  BY <1>3, <2>1
<1>6. \E k \in 0 .. INITIAL_HEAP_SIZE : Stops(S, k)
  BY <1>4, <1>5 DEF Stops
<1>. QED  BY <1>6 DEF Stop

(* The list has every free block.                                          *)
LEMMA ListIs ==
    ASSUME free \in FreeLists, Sorted(free), \A a \in DOMAIN free.header : a < INITIAL_HEAP_SIZE
    PROVE  List = DOMAIN free.header
<1>. DEFINE F == DOMAIN free.header
<1>. DEFINE n == Stop({})
<1>0. F \subseteq Nat /\ NoBlock = -1
  BY DEF FreeLists, NoBlock
<1>1. n \in 0 .. INITIAL_HEAP_SIZE /\ Walk[n] = NoBlock /\ \A m \in 0 .. n - 1 : Walk[m] # NoBlock
  BY Stopping DEF Stops
<1>2. List = {Walk[m] : m \in 0 .. n - 1}
  BY DEF List
<1>. HIDE DEF n
<1>3. ASSUME NEW c \in F PROVE c \in List
  <2>1. PICK m \in 0 .. n : Walk[m] = c
    BY <1>1, WalkPasses
  <2>2. m # n
    BY <1>0, <1>1, <2>1
  <2>. QED  BY <1>1, <1>2, <2>1, <2>2
<1>4. ASSUME NEW m \in 0 .. n - 1 PROVE Walk[m] \in F
  <2>1. m \in 0 .. INITIAL_HEAP_SIZE
    BY <1>1, Numbers
  <2>. QED  BY <1>1, <2>1, WalkAdvances
<1>. QED  BY <1>2, <1>3, <1>4

(* Where a loop stops, and the two blocks it has just passed.              *)
LEMMA Stopped ==
    ASSUME free \in FreeLists, Sorted(free), \A a \in DOMAIN free.header : a < INITIAL_HEAP_SIZE,
           NEW S
    PROVE  LET n == Stop(S)
               cur == Walk[n]
               prev == Visited(n - 1)
               before_prev == Visited(n - 2)
           IN  /\ cur \in (DOMAIN free.header \cap S) \cup {NoBlock}
               /\ prev \in (DOMAIN free.header \ S) \cup {NoBlock} /\ Link(free, prev) = cur
               /\ prev # NoBlock => /\ before_prev \in DOMAIN free.header \cup {NoBlock}
                                    /\ Link(free, before_prev) = prev
<1>. DEFINE F == DOMAIN free.header
<1>. DEFINE n == Stop(S)
<1>2. n \in 0 .. INITIAL_HEAP_SIZE /\ Stops(S, n)
  BY Stopping
<1>. HIDE DEF n
<1>3. Walk[n] \in (F \cap S) \cup {NoBlock}
  BY <1>2, WalkAdvances DEF Stops
<1>4. ASSUME NEW m \in 0 .. n
      PROVE  /\ Visited(m - 1) \in (F \ S) \cup {NoBlock}
             /\ Link(free, Visited(m - 1)) = Walk[m]
             /\ m > 0 => Visited(m - 1) = Walk[m - 1] /\ Walk[m - 1] # NoBlock
  <2>1. m \in 0 .. INITIAL_HEAP_SIZE
    BY <1>2, Numbers
  <2>2. CASE m = 0
    BY <2>1, <2>2, WalkIs DEF Visited, Step, Link
  <2>3. CASE m > 0
    <3>1. m - 1 \in 0 .. INITIAL_HEAP_SIZE /\ m - 1 \in 0 .. n - 1 /\ ~(m - 1 < 0) /\ m # 0
      BY <1>2, <2>1, <2>3, Numbers
    <3>2. Visited(m - 1) = Walk[m - 1] /\ Walk[m - 1] \notin S \cup {NoBlock}
      BY <1>2, <3>1 DEF Visited, Stops
    <3>3. Walk[m - 1] \in F \cup {NoBlock}
      BY <3>1, WalkAdvances
    <3>4. Walk[m] = free.header[Walk[m - 1]].next
      BY <2>1, <3>1, <3>2, WalkIs DEF Step
    <3>. QED  BY <3>2, <3>3, <3>4 DEF Link
  <2>. QED  BY <2>1, <2>2, <2>3
<1>5. ASSUME Visited(n - 1) # NoBlock
      PROVE  /\ Visited(n - 2) \in F \cup {NoBlock}
             /\ Link(free, Visited(n - 2)) = Visited(n - 1)
  <2>1. n > 0
    BY <1>2, <1>5 DEF Visited
  <2>2. n - 1 \in 0 .. n /\ (n - 1) - 1 = n - 2 /\ n \in 0 .. n
    BY <1>2, <2>1
  <2>3. Visited(n - 1) = Walk[n - 1]
    BY <1>4, <2>1, <2>2
  <2>4. Visited((n - 1) - 1) \in (F \ S) \cup {NoBlock} /\ Link(free, Visited((n - 1) - 1)) = Walk[n - 1]
    BY <1>4, <2>2
  <2>. QED  BY <2>2, <2>3, <2>4
<1>6. n \in 0 .. n
  BY <1>2
<1>7. Visited(n - 1) \in (F \ S) \cup {NoBlock} /\ Link(free, Visited(n - 1)) = Walk[n]
  BY <1>4, <1>6
<1>. USE DEF n
<1>. QED  BY <1>3, <1>5, <1>7

-----------------------------------------------------------------------------
(* Changes of a list.                                                      *)

(* The blocks R between p and q make way for those of A, of which there is *)
(* at most one.                                                            *)
Splicing(old, p, R, A, q) ==
    LET F == DOMAIN old.header
    IN  /\ p \in (F \ R) \cup {NoBlock} /\ IsNext(q, F \ R, p)
        /\ \A r \in R : p < r /\ (q # NoBlock => r < q)
        /\ \A m \in A : m \in Nat /\ p < m /\ (q # NoBlock => m < q)
        /\ \A m, n \in A : m = n

Spliced(old, new, p, R, A, size, q) ==
    LET F == DOMAIN old.header
    IN  /\ new \in FreeLists /\ DOMAIN new.header = (F \ R) \cup A
        /\ \A a \in F \ R : new.header[a].size = old.header[a].size
        /\ \A m \in A : new.header[m] = [size |-> size, next |-> q]
        /\ \A a \in (F \ R) \cup {NoBlock} : a # p => Link(new, a) = Link(old, a)
        /\ A = {} => Link(new, p) = q
        /\ \A m \in A : Link(new, p) = m

(* A change leaves the list in order.                                      *)
LEMMA SplicedSorted ==
    ASSUME NEW old, NEW new, NEW p, NEW R, NEW A, NEW size, NEW q,
           old \in FreeLists, Sorted(old), Splicing(old, p, R, A, q),
           Spliced(old, new, p, R, A, size, q)
    PROVE  Sorted(new)
<1>. DEFINE F == DOMAIN old.header
<1>. DEFINE K == F \ R
<1>. DEFINE G == DOMAIN new.header
<1>1. F \subseteq Nat /\ NoBlock = -1
  BY DEF FreeLists, NoBlock
<1>2. /\ p \in K \cup {NoBlock} /\ IsNext(q, K, p)
      /\ \A r \in R : p < r /\ (q # NoBlock => r < q)
      /\ \A m \in A : m \in Nat /\ p < m /\ (q # NoBlock => m < q)
      /\ \A m, n \in A : m = n
  BY DEF Splicing
<1>3. /\ G = K \cup A
      /\ \A m \in A : new.header[m] = [size |-> size, next |-> q]
      /\ \A a \in K \cup {NoBlock} : a # p => Link(new, a) = Link(old, a)
      /\ A = {} => Link(new, p) = q
      /\ \A m \in A : Link(new, p) = m
  BY DEF Spliced
<1>4. q \in K \cup {NoBlock} /\ (q = NoBlock => \A c \in K : c <= p)
      /\ (q # NoBlock => p < q /\ \A c \in K : p < c => q <= c)
  BY <1>1, <1>2 DEF IsNext
<1>5. K \subseteq F
  OBVIOUS
<1>6. ASSUME NEW a \in F \cup {NoBlock}
      PROVE  IsNext(Link(old, a), F, a)
  BY DEF Sorted
<1>. SUFFICES ASSUME NEW a \in G \cup {NoBlock} PROVE IsNext(Link(new, a), G, a)
  BY DEF Sorted
<1>. HIDE DEF K, G, F
<1>7. CASE a \in A /\ a # p
  <2>1. Link(new, a) = q
    BY <1>1, <1>2, <1>3, <1>7 DEF Link
  <2>. QED  BY <1>1, <1>2, <1>3, <1>4, <1>5, <1>7, <2>1 DEF IsNext
<1>8. CASE a = p
  <2>1. CASE A = {}
    BY <1>2, <1>3, <1>8, <2>1
  <2>2. ASSUME NEW m \in A PROVE IsNext(Link(new, a), G, a)
    <3>1. Link(new, a) = m
      BY <1>3, <1>8
    <3>2. ASSUME NEW c \in G, a < c PROVE m <= c
      <4>1. CASE c \in A
        BY <1>2, <4>1
      <4>2. CASE c \in K
        <5>1. c \in Nat /\ p \in Int /\ p < c /\ m \in Nat
          BY <1>1, <1>2, <1>5, <1>8, <3>2, <4>2
        <5>2. q # NoBlock /\ q \in Int /\ q <= c
          BY <1>1, <1>4, <1>5, <4>2, <5>1
        <5>. QED  BY <1>2, <5>1, <5>2
      <4>. QED  BY <1>3, <3>2, <4>1, <4>2
    <3>3. m \in G /\ a < m
      BY <1>2, <1>3, <1>8
    <3>. QED  BY <3>1, <3>2, <3>3 DEF IsNext
  <2>. QED  BY <2>1, <2>2
<1>9. CASE a \in K \cup {NoBlock} /\ a # p
  <2>. DEFINE x == Link(old, a)
  <2>1. Link(new, a) = x
    BY <1>3, <1>9
  <2>2. IsNext(x, F, a)
    BY <1>5, <1>6, <1>9
  <2>. HIDE DEF x
  <2>3. CASE a < p
    <3>1. p \in K /\ x \in F /\ a < x /\ x <= p
      BY <1>1, <1>2, <1>5, <1>9, <2>2, <2>3 DEF IsNext
    <3>2. x \in K
      <4>1. x \notin R
        BY <1>1, <1>2, <1>5, <3>1
      <4>. QED  BY <3>1, <4>1 DEF K
    <3>3. \A c \in F : a < c => x <= c
      BY <1>1, <1>9, <2>2, <3>1 DEF IsNext
    <3>4. \A c \in A : x <= c
      BY <1>1, <1>2, <1>5, <3>1
    <3>. QED  BY <1>3, <1>5, <2>1, <3>1, <3>2, <3>3, <3>4 DEF IsNext
  <2>4. CASE p < a
    <3>1. a \in K /\ q # NoBlock /\ q <= a
      BY <1>1, <1>2, <1>4, <1>5, <1>9, <2>4
    <3>2. \A c \in A \cup R : c \in Int => c < a
      BY <1>1, <1>2, <1>4, <1>5, <3>1
    <3>3. CASE x = NoBlock
      BY <1>1, <1>2, <1>3, <1>5, <2>1, <2>2, <3>1, <3>2, <3>3 DEF IsNext
    <3>4. CASE x # NoBlock
      <4>1. x \in F /\ a < x /\ \A c \in F : a < c => x <= c
        BY <2>2, <3>4 DEF IsNext
      <4>2. x \in K
        BY <1>1, <3>1, <3>2, <4>1 DEF K
      <4>3. \A c \in A : ~(a < c)
        BY <1>1, <1>2, <1>5, <3>1, <3>2
      <4>. QED  BY <1>3, <1>5, <2>1, <4>1, <4>2, <4>3 DEF IsNext
    <3>. QED  BY <3>3, <3>4
  <2>. QED  BY <1>1, <1>2, <1>5, <1>9, <2>3, <2>4
<1>. QED  BY <1>3, <1>7, <1>8, <1>9

(* And apart, if what it brings is.                                        *)
LEMMA SplicedInv ==
    ASSUME NEW old, NEW new, NEW p, NEW R, NEW A, NEW size \in Nat, NEW q,
           ListInv(old), Splicing(old, p, R, A, q), Spliced(old, new, p, R, A, size, q),
           \A m \in A : /\ Aligned(m) /\ Aligned(size)
                        /\ p # NoBlock => EndOf(old, p) < m
                        /\ q # NoBlock => m + size < q
    PROVE  ListInv(new)
<1>. DEFINE F == DOMAIN old.header
<1>. DEFINE K == F \ R
<1>. DEFINE G == DOMAIN new.header
<1>1. /\ F \subseteq Nat /\ NoBlock = -1 /\ K \subseteq F
      /\ \A a \in F : old.header[a].size \in Nat
  <2>1. PICK E \in SUBSET Nat : old.header \in [E -> [size : Nat \ {0}, next : Int]]
    BY DEF FreeLists, ListInv
  <2>. QED  BY <2>1 DEF NoBlock
<1>2. /\ p \in K \cup {NoBlock} /\ IsNext(q, K, p)
      /\ \A m \in A : m \in Nat /\ p < m /\ (q # NoBlock => m < q)
      /\ \A m, n \in A : m = n
  BY DEF Splicing
<1>3. /\ G = K \cup A
      /\ \A a \in K : new.header[a].size = old.header[a].size
      /\ \A m \in A : new.header[m].size = size
  BY DEF Spliced
<1>4. /\ \A a, c \in F : a < c => a + old.header[a].size < c
      /\ \A a \in F : Aligned(a) /\ Aligned(old.header[a].size)
  BY DEF ListInv, Spaced, EndOf
<1>5. \A m \in A : (p # NoBlock => p + old.header[p].size < m) /\ (q # NoBlock => m + size < q)
  BY DEF EndOf
<1>6. q \in K \cup {NoBlock} /\ (q = NoBlock => \A c \in K : c <= p)
      /\ (q # NoBlock => p < q /\ \A c \in K : p < c => q <= c)
  BY <1>1, <1>2 DEF IsNext
<1>7. Sorted(new) /\ new \in FreeLists
  BY SplicedSorted DEF ListInv, Spliced
<1>8. \A a \in G : Aligned(a) /\ Aligned(new.header[a].size)
  BY <1>1, <1>3, <1>4
<1>9. ASSUME NEW a \in G, NEW c \in G, a < c PROVE a + new.header[a].size < c
  <2>. HIDE DEF F, K, G
  <2>1. CASE a \in K /\ c \in K
    BY <1>1, <1>3, <1>4, <1>9, <2>1
  <2>2. CASE a \in K /\ c \in A
    <3>1. p \in K /\ a <= p
      <4>0. p \in K \cup {NoBlock} /\ q \in K \cup {NoBlock} /\ c \in Nat
        BY <1>2, <1>6, <2>2
      <4>1. a \in Nat /\ p \in Int /\ c \in Nat /\ q \in Int /\ (p # NoBlock => p \in K)
        BY <1>1, <2>2, <4>0
      <4>2. ASSUME p < a PROVE FALSE
        <5>1. q # NoBlock /\ q <= a
          BY <1>1, <1>6, <2>2, <4>1, <4>2
        <5>2. c < q
          BY <1>2, <2>2, <5>1
        <5>. QED  BY <1>9, <4>1, <5>1, <5>2
      <4>. QED  BY <1>1, <4>1, <4>2
    <3>2. p + old.header[p].size < c
      BY <1>1, <1>5, <2>2, <3>1
    <3>3. a + old.header[a].size <= p + old.header[p].size
      BY <1>1, <1>4, <2>2, <3>1
    <3>. QED  BY <1>1, <1>2, <1>3, <2>2, <3>1, <3>2, <3>3
  <2>3. CASE a \in A /\ c \in K
    <3>1. q # NoBlock /\ q <= c /\ q \in Nat
      BY <1>1, <1>2, <1>6, <1>9, <2>3
    <3>. QED  BY <1>1, <1>2, <1>3, <1>5, <2>3, <3>1
  <2>4. CASE a \in A /\ c \in A
    BY <1>2, <1>9, <2>4
  <2>. QED  BY <1>3, <2>1, <2>2, <2>3, <2>4
<1>. QED  BY <1>7, <1>8, <1>9 DEF ListInv, Spaced, EndOf

(* The bytes it makes free.                                                *)
LEMMA SplicedBytes ==
    ASSUME NEW old, NEW new, NEW p, NEW R, NEW A, NEW size, NEW q,
           Spliced(old, new, p, R, A, size, q), NEW byte
    PROVE  InFree(new, byte) <=> \/ Among(old, DOMAIN old.header \ R, byte)
                                 \/ \E m \in A : Holds(m, size, byte)
<1>1. /\ DOMAIN new.header = (DOMAIN old.header \ R) \cup A
      /\ \A a \in DOMAIN old.header \ R : new.header[a].size = old.header[a].size
      /\ \A m \in A : new.header[m].size = size
  BY DEF Spliced
<1>. QED  BY <1>1 DEF InFree, Among

(* What is free in parts of the list.                                      *)
LEMMA AmongBoth ==
    ASSUME NEW list, NEW F, NEW R, R \subseteq F, NEW byte
    PROVE  Among(list, F, byte) <=> Among(list, F \ R, byte) \/ Among(list, R, byte)
  BY DEF Among

-----------------------------------------------------------------------------
(* How the code makes them.                                                *)

(* The list without the headers of R, whose links may still lead there.    *)
Without(list, old, R) ==
    /\ list \in FreeLists /\ DOMAIN list.header = DOMAIN old.header \ R
    /\ \A a \in DOMAIN old.header \ R : list.header[a] = old.header[a]
    /\ list.head = old.head

(* Leaving a header out.                                                   *)
LEMMA GoneIs ==
    ASSUME NEW list \in FreeLists, NEW at
    PROVE  Without(Gone(list, at), list, {at})
<1>. DEFINE D == DOMAIN list.header \ {at}
<1>1. PICK E \in SUBSET Nat : list.header \in [E -> [size : Nat \ {0}, next : Int]]
  BY DEF FreeLists
<1>2. Gone(list, at) = [head |-> list.head, header |-> [a \in D |-> list.header[a]]]
  BY DEF Gone, FreeLists
<1>3. D \in SUBSET Nat /\ [a \in D |-> list.header[a]] \in [D -> [size : Nat \ {0}, next : Int]]
  BY <1>1
<1>4. Gone(list, at) \in FreeLists
  BY <1>2, <1>3 DEF FreeLists
<1>. QED  BY <1>2, <1>4 DEF Without

(* Writing one.                                                            *)
LEMMA WrittenIs ==
    ASSUME NEW list \in FreeLists, NEW at \in Nat, NEW size \in Nat \ {0}, NEW next \in Int
    PROVE  LET new == Written(list, at, size, next)
           IN  /\ new \in FreeLists /\ DOMAIN new.header = DOMAIN list.header \cup {at}
               /\ new.head = list.head /\ new.header[at] = [size |-> size, next |-> next]
               /\ \A a \in DOMAIN list.header : a # at => new.header[a] = list.header[a]
<1>. DEFINE D == DOMAIN list.header \cup {at}
<1>. DEFINE h == [a \in D |-> IF a = at THEN [size |-> size, next |-> next] ELSE list.header[a]]
<1>1. PICK E \in SUBSET Nat : list.header \in [E -> [size : Nat \ {0}, next : Int]]
  BY DEF FreeLists
<1>2. Written(list, at, size, next) = [head |-> list.head, header |-> h]
  BY DEF Written, FreeLists
<1>3. D \in SUBSET Nat /\ h \in [D -> [size : Nat \ {0}, next : Int]]
  BY <1>1
<1>4. list.head \in Int
  BY DEF FreeLists
<1>5. Written(list, at, size, next) \in FreeLists
  <2>. HIDE DEF h, D
  <2>. QED  BY <1>2, <1>3, <1>4 DEF FreeLists
<1>. QED  BY <1>2, <1>5

(* Linking past what follows prev.                                         *)
LEMMA LinkedIs ==
    ASSUME NEW list \in FreeLists, NEW prev \in DOMAIN list.header \cup {NoBlock}, NEW to \in Int
    PROVE  LET new == Linked(list, prev, to)
           IN  /\ new \in FreeLists /\ DOMAIN new.header = DOMAIN list.header
               /\ \A a \in DOMAIN list.header : new.header[a].size = list.header[a].size
               /\ Link(new, prev) = to
               /\ \A a \in DOMAIN list.header \cup {NoBlock} : a # prev => Link(new, a) = Link(list, a)
               /\ \A a \in DOMAIN list.header : a # prev => new.header[a] = list.header[a]
<1>1. DOMAIN list.header \subseteq Nat /\ NoBlock = -1
  BY DEF FreeLists, NoBlock
<1>2. CASE prev = NoBlock
  <2>1. Linked(list, prev, to) = [head |-> to, header |-> list.header]
    BY <1>2 DEF Linked, FreeLists
  <2>2. Linked(list, prev, to) \in FreeLists
    BY <2>1 DEF FreeLists
  <2>. QED  BY <1>1, <1>2, <2>1, <2>2 DEF Link
<1>3. CASE prev # NoBlock
  <2>1. prev \in DOMAIN list.header /\ prev \in Nat /\ list.header[prev].size \in Nat \ {0}
    BY <1>1, <1>3 DEF FreeLists
  <2>. DEFINE new == Written(list, prev, list.header[prev].size, to)
  <2>2. Linked(list, prev, to) = new
    BY <1>3 DEF Linked
  <2>3. /\ new \in FreeLists /\ DOMAIN new.header = DOMAIN list.header \cup {prev}
        /\ new.head = list.head /\ new.header[prev] = [size |-> list.header[prev].size, next |-> to]
        /\ \A a \in DOMAIN list.header : a # prev => new.header[a] = list.header[a]
    BY <2>1, WrittenIs
  <2>. HIDE DEF new
  <2>. QED  BY <1>1, <1>3, <2>1, <2>2, <2>3 DEF Link
<1>. QED  BY <1>2, <1>3

(* A new block in the place of those left out.                             *)
LEMMA Replaced ==
    ASSUME NEW old \in FreeLists, NEW list, NEW R, Without(list, old, R),
           NEW p \in (DOMAIN old.header \ R) \cup {NoBlock}, NEW m \in Nat \ (DOMAIN old.header \ R),
           NEW size \in Nat \ {0}, NEW q \in Int
    PROVE  Spliced(old, Linked(Written(list, m, size, q), p, m), p, R, {m}, size, q)
<1>. DEFINE K == DOMAIN old.header \ R
<1>. DEFINE mid == Written(list, m, size, q)
<1>. DEFINE new == Linked(mid, p, m)
<1>1. /\ list \in FreeLists /\ DOMAIN list.header = K /\ list.head = old.head
      /\ \A a \in K : list.header[a] = old.header[a]
  BY DEF Without
<1>2. /\ mid \in FreeLists /\ DOMAIN mid.header = K \cup {m}
      /\ mid.head = list.head /\ mid.header[m] = [size |-> size, next |-> q]
      /\ \A a \in K : a # m => mid.header[a] = list.header[a]
  BY <1>1, WrittenIs
<1>3. p \in DOMAIN mid.header \cup {NoBlock} /\ m \in Int /\ m \notin K /\ p # m
  <2>1. m # NoBlock
    BY DEF NoBlock
  <2>. QED  BY <1>2, <2>1
<1>. HIDE DEF mid
<1>4. /\ new \in FreeLists /\ DOMAIN new.header = DOMAIN mid.header
      /\ \A a \in DOMAIN mid.header : new.header[a].size = mid.header[a].size
      /\ Link(new, p) = m
      /\ \A a \in DOMAIN mid.header \cup {NoBlock} : a # p => Link(new, a) = Link(mid, a)
      /\ \A a \in DOMAIN mid.header : a # p => new.header[a] = mid.header[a]
  BY <1>2, <1>3, LinkedIs
<1>. HIDE DEF new
<1>5. \A a \in K : new.header[a].size = old.header[a].size
  BY <1>1, <1>2, <1>3, <1>4
<1>6. new.header[m] = [size |-> size, next |-> q]
  BY <1>2, <1>3, <1>4
<1>7. ASSUME NEW a \in K \cup {NoBlock}, a # p PROVE Link(new, a) = Link(old, a)
  <2>1. Link(new, a) = Link(mid, a)
    BY <1>2, <1>4, <1>7
  <2>. QED  BY <1>1, <1>2, <1>3, <2>1 DEF Link
<1>8. DOMAIN new.header = K \cup {m}
  BY <1>2, <1>4
<1>9. Spliced(old, new, p, R, {m}, size, q)
  BY <1>4, <1>5, <1>6, <1>7, <1>8 DEF Spliced
<1>. QED  BY <1>9 DEF new, mid

(* Nothing in their place.                                                 *)
LEMMA Dropped ==
    ASSUME NEW old \in FreeLists, NEW list, NEW R, Without(list, old, R),
           NEW p \in (DOMAIN old.header \ R) \cup {NoBlock}, NEW size, NEW q \in Int
    PROVE  Spliced(old, Linked(list, p, q), p, R, {}, size, q)
<1>. DEFINE K == DOMAIN old.header \ R
<1>. DEFINE new == Linked(list, p, q)
<1>1. /\ list \in FreeLists /\ DOMAIN list.header = K /\ list.head = old.head
      /\ \A a \in K : list.header[a] = old.header[a]
  BY DEF Without
<1>2. /\ new \in FreeLists /\ DOMAIN new.header = DOMAIN list.header
      /\ \A a \in DOMAIN list.header : new.header[a].size = list.header[a].size
      /\ Link(new, p) = q
      /\ \A a \in DOMAIN list.header \cup {NoBlock} : a # p => Link(new, a) = Link(list, a)
  BY <1>1, LinkedIs
<1>. HIDE DEF new
<1>3. ASSUME NEW a \in K \cup {NoBlock}, a # p PROVE Link(new, a) = Link(old, a)
  BY <1>1, <1>2, <1>3 DEF Link
<1>4. Spliced(old, new, p, R, {}, size, q)
  BY <1>1, <1>2, <1>3 DEF Spliced
<1>. QED  BY <1>4 DEF new

(* A block grows over those left out.                                      *)
LEMMA Grown ==
    ASSUME NEW old \in FreeLists, NEW list, NEW R, Without(list, old, R),
           NEW m \in DOMAIN old.header \ R,
           NEW p \in (DOMAIN old.header \ (R \cup {m})) \cup {NoBlock}, Link(old, p) = m,
           NEW size \in Nat \ {0}, NEW q \in Int
    PROVE  Spliced(old, Written(list, m, size, q), p, R \cup {m}, {m}, size, q)
<1>. DEFINE K == DOMAIN old.header \ R
<1>. DEFINE new == Written(list, m, size, q)
<1>1. /\ list \in FreeLists /\ DOMAIN list.header = K /\ list.head = old.head
      /\ \A a \in K : list.header[a] = old.header[a]
  BY DEF Without
<1>2. m \in Nat /\ m # NoBlock
  <2>1. DOMAIN old.header \subseteq Nat
    BY DEF FreeLists
  <2>. QED  BY <2>1 DEF NoBlock
<1>3. /\ new \in FreeLists /\ DOMAIN new.header = K \cup {m}
      /\ new.head = list.head /\ new.header[m] = [size |-> size, next |-> q]
      /\ \A a \in K : a # m => new.header[a] = list.header[a]
  BY <1>1, <1>2, WrittenIs
<1>. HIDE DEF new
<1>4. ASSUME NEW a \in (K \ {m}) \cup {NoBlock} PROVE Link(new, a) = Link(old, a)
  BY <1>1, <1>2, <1>3 DEF Link
<1>5. Spliced(old, new, p, R \cup {m}, {m}, size, q)
  BY <1>1, <1>3, <1>4 DEF Spliced
<1>. QED  BY <1>5 DEF new

-----------------------------------------------------------------------------
(* What the invariant says.                                                *)

(* Of a list.                                                              *)
LEMMA ListFacts ==
    ASSUME NEW list, ListInv(list)
    PROVE  /\ NoBlock = -1 /\ DOMAIN list.header \subseteq Nat
           /\ \A a \in DOMAIN list.header : list.header[a].size \in Nat \ {0} /\ list.header[a].next \in Int
           /\ \A a \in DOMAIN list.header : Aligned(a) /\ Aligned(list.header[a].size)
           /\ \A a, c \in DOMAIN list.header : a < c => a + list.header[a].size < c
           /\ \A a \in DOMAIN list.header \cup {NoBlock} : IsNext(Link(list, a), DOMAIN list.header, a)
           /\ \A a \in DOMAIN list.header : Link(list, a) = list.header[a].next
<1>1. DOMAIN list.header \subseteq Nat
  BY DEF FreeLists, ListInv
<1>2. \A a \in DOMAIN list.header : list.header[a].size \in Nat \ {0} /\ list.header[a].next \in Int
  <2>1. PICK E \in SUBSET Nat : list.header \in [E -> [size : Nat \ {0}, next : Int]]
    BY DEF FreeLists, ListInv
  <2>. QED  BY <2>1
<1>3. \A a \in DOMAIN list.header : Link(list, a) = list.header[a].next
  BY <1>1 DEF Link, NoBlock
<1>. QED  BY <1>1, <1>2, <1>3 DEF ListInv, Spaced, EndOf, Sorted, NoBlock

(* A byte is in one free block at most.                                    *)
LEMMA FreeOnce ==
    ASSUME NEW list, ListInv(list), NEW a \in DOMAIN list.header, NEW c \in DOMAIN list.header,
           NEW byte \in Nat, Holds(a, list.header[a].size, byte), Holds(c, list.header[c].size, byte)
    PROVE  a = c
<1>1. /\ a \in Nat /\ c \in Nat /\ list.header[a].size \in Nat /\ list.header[c].size \in Nat
      /\ a < c => a + list.header[a].size < c
      /\ c < a => c + list.header[c].size < a
  BY ListFacts
<1>. QED  BY <1>1 DEF Holds

(* Of the heap.                                                            *)
LEMMA HeapFacts ==
    ASSUME HeapInv
    PROVE  /\ bump \in Nat /\ bump <= INITIAL_HEAP_SIZE /\ Aligned(bump)
           /\ free \in FreeLists /\ Sorted(free) /\ ListInv(free)
           /\ \A a \in DOMAIN free.header : a + free.header[a].size < bump /\ a < INITIAL_HEAP_SIZE
           /\ \A b \in live : /\ b \in [at : Nat, size : Requests] /\ b.at \in Nat /\ b.size \in Requests
                              /\ Aligned(b.at) /\ b.at + Rounded(b.size) <= bump
                              /\ Rounded(b.size) \in Nat /\ Rounded(b.size) > 0 /\ Aligned(Rounded(b.size))
<1>1. /\ bump \in Nat /\ bump <= INITIAL_HEAP_SIZE /\ Aligned(bump) /\ ListInv(free) /\ INITIAL_HEAP_SIZE \in Nat
  BY Numbers DEF HeapInv
<1>2. \A a \in DOMAIN free.header : a + free.header[a].size < bump /\ a < INITIAL_HEAP_SIZE
  <2>1. \A a \in DOMAIN free.header : a + free.header[a].size < bump
    BY DEF HeapInv, Complete, EndOf
  <2>2. \A a \in DOMAIN free.header : a \in Nat /\ free.header[a].size \in Nat
    BY <1>1, ListFacts
  <2>. QED  BY <1>1, <2>1, <2>2
<1>3. ASSUME NEW b \in live
      PROVE  /\ b \in [at : Nat, size : Requests] /\ b.at \in Nat /\ b.size \in Requests
             /\ Aligned(b.at) /\ b.at + Rounded(b.size) <= bump
             /\ Rounded(b.size) \in Nat /\ Rounded(b.size) > 0 /\ Aligned(Rounded(b.size))
  <2>1. b \in [at : Nat, size : Requests] /\ Aligned(b.at) /\ b.at + Rounded(b.size) <= bump
    BY DEF HeapInv, LiveInv
  <2>2. b.size \in Nat
    BY <2>1, Numbers
  <2>. QED  BY <2>1, <2>2, RoundedIs
<1>4. free \in FreeLists /\ Sorted(free)
  BY <1>1 DEF ListInv
<1>. QED  BY <1>1, <1>2, <1>3, <1>4

(* The block after the next one.                                           *)
LEMMA NextOver ==
    ASSUME NEW F \in SUBSET Nat, NEW G \in SUBSET F, NEW p \in Nat \cup {NoBlock}, NEW m \in F, NEW q,
           IsNext(m, F, p), IsNext(q, G, m)
    PROVE  IsNext(q, G \ {m}, p) /\ p < m /\ (q # NoBlock => m < q)
<1>1. NoBlock = -1 /\ m \in Nat /\ p < m /\ (\A c \in F : p < c => m <= c)
  BY DEF IsNext, NoBlock
<1>2. CASE q = NoBlock
  BY <1>1, <1>2 DEF IsNext
<1>3. CASE q # NoBlock
  <2>1. q \in G /\ q \in Nat /\ m < q /\ \A c \in G : m < c => q <= c
    BY <1>3 DEF IsNext
  <2>2. ASSUME NEW c \in G \ {m}, p < c PROVE q <= c
    <3>1. c \in Nat /\ m <= c /\ m # c
      BY <1>1, <2>2
    <3>. QED  BY <1>1, <2>1, <3>1
  <2>3. q \in G \ {m} /\ p < q
    BY <1>1, <2>1
  <2>. QED  BY <1>1, <2>1, <2>2, <2>3 DEF IsNext
<1>. QED  BY <1>2, <1>3

-----------------------------------------------------------------------------
(* Handing out.                                                            *)

(* Bytes that nobody has are handed out once more.                         *)
LEMMA Given ==
    ASSUME HeapInv, NEW x \in Nat, Aligned(x), NEW request \in Requests,
           bump' \in Nat, bump <= bump', x + Rounded(request) <= bump',
           \A byte \in Nat : Holds(x, Rounded(request), byte) => ~InLive(byte),
           live' = live \cup {[at |-> x, size |-> request]}
    PROVE  /\ LiveInv'
           /\ \A byte \in Nat : InLive(byte)' <=> InLive(byte) \/ Holds(x, Rounded(request), byte)
<1>. DEFINE new == [at |-> x, size |-> request]
<1>1. \A byte : HeldBy(new, byte) <=> Holds(x, Rounded(request), byte)
  BY DEF HeldBy
<1>2. ASSUME NEW byte \in Nat
      PROVE  InLive(byte)' <=> InLive(byte) \/ Holds(x, Rounded(request), byte)
  BY <1>1 DEF InLive
<1>3. live' \subseteq [at : Nat, size : Requests]
  BY DEF HeapInv, LiveInv
<1>4. ASSUME NEW b \in live' PROVE Aligned(b.at) /\ b.at + Rounded(b.size) <= bump'
  <2>1. CASE b \in live
    <3>1. b.at \in Nat /\ Rounded(b.size) \in Nat /\ Aligned(b.at) /\ b.at + Rounded(b.size) <= bump /\ bump \in Nat
      BY <2>1, HeapFacts
    <3>. QED  BY <3>1
  <2>2. CASE b = new
    BY <2>2
  <2>. QED  BY <2>1, <2>2
<1>5. ASSUME NEW b \in live', NEW c \in live', NEW byte \in Nat, HeldBy(b, byte), HeldBy(c, byte)
      PROVE  b = c
  <2>1. CASE b \in live /\ c \in live
    BY <1>5, <2>1 DEF HeapInv, LiveInv
  <2>2. CASE b \in live /\ c = new
    BY <1>1, <1>5, <2>2 DEF InLive
  <2>3. CASE b = new /\ c \in live
    BY <1>1, <1>5, <2>3 DEF InLive
  <2>. QED  BY <2>1, <2>2, <2>3
<1>. HIDE DEF new
<1>6. LiveInv'
  BY <1>3, <1>4, <1>5 DEF LiveInv, HeldBy
<1>. QED  BY <1>2, <1>6

(* The first block that is big enough, or what is left of it, is no longer *)
(* free.                                                                   *)
LEMMA TakenIs ==
    ASSUME ListInv(free), NEW p \in DOMAIN free.header \cup {NoBlock}, NEW at \in DOMAIN free.header,
           Link(free, p) = at, NEW size \in Nat \ {0}, Aligned(size), SizeAt(at) >= size
    PROVE  /\ ListInv(Taken(p, at, size))
           /\ \A byte \in Nat :
                  InFree(Taken(p, at, size), byte) <=> InFree(free, byte) /\ ~Holds(at, size, byte)
           /\ \A a \in DOMAIN Taken(p, at, size).header : \E c \in DOMAIN free.header :
                  EndOf(Taken(p, at, size), a) = EndOf(free, c)
<1>. DEFINE F == DOMAIN free.header
<1>. DEFINE new == Taken(p, at, size)
<1>. DEFINE q == NextOf(at)
<1>. DEFINE leftover == SizeAt(at) - size
<1>1. /\ NoBlock = -1 /\ F \in SUBSET Nat /\ at \in Nat /\ SizeAt(at) \in Nat \ {0} /\ q \in Int
      /\ Aligned(at) /\ Aligned(SizeAt(at)) /\ q = Link(free, at)
      /\ \A a \in F : free.header[a].size \in Nat
      /\ \A a, c \in F : a < c => a + free.header[a].size < c
      /\ IsNext(at, F, p) /\ IsNext(q, F, at)
  BY ListFacts DEF SizeAt, NextOf
<1>2. IsNext(q, F \ {at}, p) /\ p < at /\ (q # NoBlock => at < q)
  <2>1. F \in SUBSET F /\ p \in Nat \cup {NoBlock} /\ at \in F
    BY <1>1
  <2>. HIDE DEF q, F
  <2>. QED  BY <1>1, <2>1, NextOver
<1>3. p \in (F \ {at}) \cup {NoBlock} /\ (q # NoBlock => q \in F)
  BY <1>1, <1>2 DEF IsNext
<1>4. /\ q # NoBlock => at + SizeAt(at) < q
      /\ p # NoBlock => EndOf(free, p) < at
  BY <1>1, <1>2, <1>3 DEF SizeAt, EndOf
<1>5. leftover \in Nat /\ Aligned(leftover) /\ Aligned(at + size)
  BY <1>1, AlignedSum
<1>6. free \in FreeLists /\ Without(Gone(free, at), free, {at})
  BY GoneIs DEF ListInv
<1>7. \A byte \in Nat : InFree(free, byte) <=> Among(free, F \ {at}, byte) \/ Holds(at, SizeAt(at), byte)
  BY AmongBoth DEF InFree, Among, SizeAt
<1>8. \A byte \in Nat : Among(free, F \ {at}, byte) => ~Holds(at, SizeAt(at), byte)
  BY FreeOnce DEF Among, SizeAt
<1>9. \A byte \in Nat : Holds(at, size, byte) => Holds(at, SizeAt(at), byte)
  BY <1>1 DEF Holds
<1>. HIDE DEF q
<1>10. CASE leftover >= MIN_BLOCK_SIZE
  <2>1. leftover \in Nat \ {0} /\ at + size \in Nat /\ at + size + leftover = at + SizeAt(at)
    BY <1>1, <1>5, <1>10, Numbers
  <2>2. at + size \notin F \ {at}
    BY <1>1, <2>1 DEF SizeAt
  <2>3. new = Linked(Written(Gone(free, at), at + size, leftover, q), p, at + size)
    BY <1>10 DEF Taken, q
  <2>. HIDE DEF new, leftover
  <2>4. Spliced(free, new, p, {at}, {at + size}, leftover, q)
    BY <1>1, <1>3, <1>6, <2>1, <2>2, <2>3, Replaced
  <2>5. Splicing(free, p, {at}, {at + size}, q)
    BY <1>1, <1>2, <1>3, <1>4, <2>1 DEF Splicing, EndOf
  <2>6. p # NoBlock => EndOf(free, p) < at + size
    BY <1>1, <1>3, <1>4 DEF EndOf
  <2>7. q # NoBlock => (at + size) + leftover < q
    BY <1>4, <2>1
  <2>8. ListInv(new)
    BY <1>5, <2>1, <2>4, <2>5, <2>6, <2>7, SplicedInv
  <2>9. ASSUME NEW byte \in Nat
        PROVE  InFree(new, byte) <=> InFree(free, byte) /\ ~Holds(at, size, byte)
    <3>1. InFree(new, byte) <=> Among(free, F \ {at}, byte) \/ Holds(at + size, leftover, byte)
      BY <2>4, SplicedBytes
    <3>2. Holds(at, SizeAt(at), byte) /\ ~Holds(at, size, byte) <=> Holds(at + size, leftover, byte)
      BY <1>1, <2>1 DEF Holds
    <3>. QED  BY <1>7, <1>8, <1>9, <3>1, <3>2
  <2>10. ASSUME NEW a \in DOMAIN new.header PROVE \E c \in F : EndOf(new, a) = EndOf(free, c)
    <3>1. CASE a \in F \ {at}
      BY <2>4, <3>1 DEF Spliced, EndOf
    <3>2. CASE a = at + size
      BY <2>1, <2>4, <3>2 DEF Spliced, EndOf, SizeAt
    <3>. QED  BY <2>4, <3>1, <3>2 DEF Spliced
  <2>. QED  BY <2>8, <2>9, <2>10 DEF new
<1>11. CASE ~(leftover >= MIN_BLOCK_SIZE)
  <2>1. leftover = 0 /\ SizeAt(at) = size
    <3>. HIDE DEF leftover
    <3>1. leftover = 0
      BY <1>5, <1>11, Remainders, Numbers
    <3>. USE DEF leftover
    <3>. QED  BY <1>1, <3>1
  <2>2. new = Linked(Gone(free, at), p, q)
    BY <1>11 DEF Taken, q
  <2>. HIDE DEF new, leftover
  <2>3. Spliced(free, new, p, {at}, {}, size, q)
    BY <1>1, <1>3, <1>6, <2>2, Dropped
  <2>4. Splicing(free, p, {at}, {}, q)
    BY <1>2, <1>3 DEF Splicing
  <2>5. ListInv(new)
    BY <2>3, <2>4, SplicedInv
  <2>6. ASSUME NEW byte \in Nat
        PROVE  InFree(new, byte) <=> InFree(free, byte) /\ ~Holds(at, size, byte)
    BY <1>7, <1>8, <2>1, <2>3, SplicedBytes
  <2>7. ASSUME NEW a \in DOMAIN new.header PROVE \E c \in F : EndOf(new, a) = EndOf(free, c)
    BY <2>3 DEF Spliced, EndOf
  <2>. QED  BY <2>5, <2>6, <2>7 DEF new
<1>. QED  BY <1>10, <1>11

(* A request that a free block fits.                                       *)
LEMMA PopKeeps ==
    ASSUME HeapInv, NEW request \in Requests, pop_fit(request)
    PROVE  HeapInv'
<1>. DEFINE size == Rounded(request)
<1>. DEFINE n == Stop(Fitting(size))
<1>. DEFINE at == Walk[n]
<1>. DEFINE p == Visited(n - 1)
<1>1. /\ at # NoBlock /\ free' = Taken(p, at, size)
      /\ live' = live \cup {[at |-> at, size |-> request]} /\ bump' = bump
  BY DEF pop_fit
<1>2. size \in Nat \ {0} /\ Aligned(size)
  BY RoundedIs, Numbers
<1>3. /\ at \in (DOMAIN free.header \cap Fitting(size)) \cup {NoBlock}
      /\ p \in DOMAIN free.header \cup {NoBlock} /\ Link(free, p) = at
  BY HeapFacts, Stopped
<1>. HIDE DEF size, n, at, p
<1>4. at \in DOMAIN free.header /\ SizeAt(at) >= size
  BY <1>1, <1>3 DEF Fitting
<1>5. /\ ListInv(free')
      /\ \A byte \in Nat : InFree(free', byte) <=> InFree(free, byte) /\ ~Holds(at, size, byte)
      /\ \A a \in DOMAIN free'.header : \E c \in DOMAIN free.header : EndOf(free', a) = EndOf(free, c)
  BY <1>1, <1>2, <1>3, <1>4, HeapFacts, TakenIs
<1>6. /\ at \in Nat /\ Aligned(at) /\ SizeAt(at) \in Nat /\ at + SizeAt(at) < bump /\ bump \in Nat
  BY <1>4, HeapFacts, ListFacts DEF SizeAt
<1>7. \A byte \in Nat : Holds(at, size, byte) => InFree(free, byte)
  BY <1>2, <1>4, <1>6 DEF Holds, InFree, Among, SizeAt
<1>8. \A byte \in Nat : Holds(at, size, byte) => ~InLive(byte)
  BY <1>7 DEF HeapInv, Complete
<1>9. /\ LiveInv'
      /\ \A byte \in Nat : InLive(byte)' <=> InLive(byte) \/ Holds(at, size, byte)
  <2>1. at + size <= bump' /\ bump' \in Nat /\ bump <= bump'
    BY <1>1, <1>2, <1>4, <1>6
  <2>. QED  BY <1>1, <1>6, <1>8, <2>1, Given DEF size
<1>10. Complete'
  <2>1. \A byte \in Nat : InFree(free', byte) => ~InLive(byte)'
    BY <1>5, <1>9 DEF HeapInv, Complete
  <2>2. \A byte \in Nat : byte < bump' => InFree(free', byte) \/ InLive(byte)'
    BY <1>1, <1>5, <1>9 DEF HeapInv, Complete
  <2>3. \A a \in DOMAIN free'.header : EndOf(free', a) < bump'
    BY <1>1, <1>5 DEF HeapInv, Complete
  <2>. QED  BY <2>1, <2>2, <2>3 DEF Complete
<1>11. ListInv(free)'
  BY <1>5 DEF ListInv, FreeLists, Sorted, Spaced, Link, IsNext, EndOf, Aligned, NoBlock
<1>. QED  BY <1>1, <1>9, <1>10, <1>11, HeapFacts DEF HeapInv, Aligned

(* A request that gets what is above the edge.                             *)
LEMMA CarveKeeps ==
    ASSUME HeapInv, NEW request \in Requests, Carve(request)
    PROVE  HeapInv'
<1>. DEFINE size == Rounded(request)
<1>1. /\ bump + size <= INITIAL_HEAP_SIZE /\ bump' = bump + size
      /\ live' = live \cup {[at |-> bump, size |-> request]} /\ free' = free
  BY DEF Carve
<1>2. size \in Nat \ {0} /\ Aligned(size) /\ bump \in Nat /\ Aligned(bump)
  BY RoundedIs, Numbers, HeapFacts
<1>. HIDE DEF size
<1>3. bump' \in Nat /\ bump < bump' /\ Aligned(bump')
  BY <1>1, <1>2, AlignedSum
<1>4. \A byte \in Nat : InLive(byte) => byte < bump
  BY <1>2, HeapFacts DEF InLive, HeldBy, Holds
<1>5. \A byte \in Nat : Holds(bump, size, byte) <=> bump <= byte /\ byte < bump'
  BY <1>1 DEF Holds
<1>6. /\ LiveInv'
      /\ \A byte \in Nat : InLive(byte)' <=> InLive(byte) \/ Holds(bump, size, byte)
  <2>1. \A byte \in Nat : Holds(bump, size, byte) => ~InLive(byte)
    BY <1>2, <1>4, <1>5
  <2>2. bump + size <= bump' /\ bump <= bump'
    BY <1>1, <1>2, <1>3
  <2>. QED  BY <1>1, <1>2, <1>3, <2>1, <2>2, Given DEF size
<1>7. \A byte \in Nat : InFree(free, byte) => byte < bump
  <2>1. \A a \in DOMAIN free.header : a \in Nat /\ free.header[a].size \in Nat
    BY HeapFacts, ListFacts
  <2>. QED  BY <1>2, <2>1, HeapFacts DEF InFree, Among, Holds
<1>8. Complete'
  <2>1. \A byte \in Nat : InFree(free', byte) => ~InLive(byte)'
    <3>1. \A byte \in Nat : InFree(free, byte) => ~InLive(byte)
      BY DEF HeapInv, Complete
    <3>. QED  BY <1>1, <1>2, <1>5, <1>6, <1>7, <3>1
  <2>2. \A byte \in Nat : byte < bump' => InFree(free', byte) \/ InLive(byte)'
    <3>1. \A byte \in Nat : byte < bump => InFree(free, byte) \/ InLive(byte)
      BY DEF HeapInv, Complete
    <3>. QED  BY <1>1, <1>2, <1>5, <1>6, <3>1
  <2>3. \A a \in DOMAIN free'.header : EndOf(free', a) < bump'
    <3>1. \A a \in DOMAIN free.header : EndOf(free, a) \in Int /\ EndOf(free, a) < bump
      BY HeapFacts, ListFacts DEF EndOf
    <3>. QED  BY <1>1, <1>2, <1>3, <3>1
  <2>. QED  BY <2>1, <2>2, <2>3 DEF Complete
<1>9. ListInv(free)'
  BY <1>1 DEF HeapInv, ListInv, FreeLists, Sorted, Spaced, Link, IsNext, EndOf, Aligned, NoBlock
<1>10. bump' <= INITIAL_HEAP_SIZE
  BY <1>1
<1>11. Aligned(bump)'
  BY <1>3 DEF Aligned
<1>. QED  BY <1>3, <1>6, <1>8, <1>9, <1>10, <1>11 DEF HeapInv

-----------------------------------------------------------------------------
(* Taking back.                                                            *)

(* Bytes that no free block has, and that one in use may have.             *)
Loose(ptr, size) ==
    /\ ptr \in Nat /\ size \in Nat \ {0} /\ Aligned(ptr) /\ Aligned(size)
    /\ \A byte \in Nat : Holds(ptr, size, byte) => ~InFree(free, byte)

(* The free blocks on either side, by their addresses.                     *)
Between(p, ptr, c) ==
    /\ p \in DOMAIN free.header \cup {NoBlock} /\ Link(free, p) = c
    /\ p # NoBlock => p <= ptr
    /\ c \in DOMAIN free.header \cup {NoBlock}
    /\ c # NoBlock => ptr < c

(* They leave room for it.                                                 *)
LEMMA Sides ==
    ASSUME ListInv(free), NEW p, NEW ptr, NEW c, NEW size, Loose(ptr, size), Between(p, ptr, c)
    PROVE  /\ ptr \notin DOMAIN free.header
           /\ p # NoBlock => p < ptr /\ p + SizeAt(p) <= ptr
           /\ c # NoBlock => ptr + size <= c
<1>1. /\ ptr \in Nat /\ size \in Nat \ {0}
      /\ \A byte \in Nat : Holds(ptr, size, byte) => ~InFree(free, byte)
  BY DEF Loose
<1>2. \A a \in DOMAIN free.header : a \in Nat /\ SizeAt(a) \in Nat \ {0}
  BY ListFacts DEF SizeAt
<1>3. ASSUME NEW a \in DOMAIN free.header, NEW byte \in Nat, Holds(a, SizeAt(a), byte)
      PROVE  ~Holds(ptr, size, byte)
  BY <1>1, <1>3 DEF InFree, Among, SizeAt
<1>4. Holds(ptr, size, ptr)
  BY <1>1 DEF Holds
<1>5. \A a \in DOMAIN free.header : Holds(a, SizeAt(a), a)
  BY <1>2 DEF Holds
<1>6. ptr \notin DOMAIN free.header
  BY <1>1, <1>3, <1>4, <1>5
<1>7. ASSUME p # NoBlock PROVE p < ptr /\ p + SizeAt(p) <= ptr
  <2>1. p \in DOMAIN free.header /\ p <= ptr
    BY <1>7 DEF Between
  <2>2. ~Holds(p, SizeAt(p), ptr)
    BY <1>1, <1>3, <1>4, <2>1
  <2>. QED  BY <1>1, <1>2, <1>6, <2>1, <2>2 DEF Holds
<1>8. ASSUME c # NoBlock PROVE ptr + size <= c
  <2>1. c \in DOMAIN free.header /\ ptr < c
    BY <1>8 DEF Between
  <2>2. ~Holds(ptr, size, c)
    BY <1>2, <1>3, <1>5, <2>1
  <2>. QED  BY <1>1, <1>2, <2>1, <2>2 DEF Holds
<1>. QED  BY <1>6, <1>7, <1>8

(* The block after it, if it is swallowed.                                 *)
Swallowed(c, ptr, size) == IF Joins(c, ptr, size) THEN {c} ELSE {}

(* The block as the code has it after looking at the next one.             *)
LEMMA UpperIs ==
    ASSUME ListInv(free), NEW p, NEW ptr, NEW c, NEW size, Loose(ptr, size), Between(p, ptr, c)
    PROVE  LET R == Swallowed(c, ptr, size)
               upper == Upper(c, ptr, size)
           IN  /\ Without(upper.list, free, R) /\ R \subseteq DOMAIN free.header
               /\ \A r \in R : r \in Nat /\ ptr < r /\ (upper.next # NoBlock => r < upper.next)
               /\ upper.size \in Nat \ {0} /\ Aligned(upper.size) /\ upper.next \in Int
               /\ IsNext(upper.next, DOMAIN free.header \ R, p)
               /\ upper.next # NoBlock => ptr + upper.size < upper.next
               /\ \A byte \in Nat : Holds(ptr, upper.size, byte) <=>
                                        Holds(ptr, size, byte) \/ Among(free, R, byte)
               /\ \A edge \in Nat : /\ ptr + size <= edge
                                    /\ \A a \in DOMAIN free.header : EndOf(free, a) < edge
                                    => ptr + upper.size <= edge
<1>. DEFINE F == DOMAIN free.header
<1>. DEFINE upper == Upper(c, ptr, size)
<1>1. /\ NoBlock = -1 /\ F \in SUBSET Nat /\ ptr \in Nat /\ size \in Nat \ {0}
      /\ Aligned(ptr) /\ Aligned(size)
      /\ p \in F \cup {NoBlock} /\ c \in F \cup {NoBlock}
      /\ Link(free, p) = c /\ (c # NoBlock => ptr < c)
      /\ free \in FreeLists
  BY ListFacts DEF Loose, Between, ListInv
<1>2. IsNext(c, F, p) /\ (c # NoBlock => ptr + size <= c)
  BY <1>1, ListFacts, Sides
<1>3. CASE Joins(c, ptr, size)
  <2>. DEFINE q == NextOf(c)
  <2>1. c \in F /\ c # NoBlock /\ ptr + size = c
    BY <1>1, <1>3 DEF Joins
  <2>2. Swallowed(c, ptr, size) = {c}
    BY <1>3 DEF Swallowed
  <2>3. upper.list = Gone(free, c) /\ upper.size = size + SizeAt(c) /\ upper.next = q
    BY <1>3 DEF Upper
  <2>4. /\ SizeAt(c) \in Nat \ {0} /\ Aligned(SizeAt(c)) /\ q \in Int /\ IsNext(q, F, c)
        /\ q \in F => (c < q => c + SizeAt(c) < q)
    BY <2>1, ListFacts DEF SizeAt, NextOf
  <2>. HIDE DEF upper, q
  <2>5. Without(upper.list, free, {c})
    BY <1>1, <2>3, GoneIs
  <2>6. IsNext(q, F \ {c}, p) /\ (q # NoBlock => c < q)
    <3>1. F \in SUBSET F /\ p \in Nat \cup {NoBlock}
      BY <1>1
    <3>. HIDE DEF F
    <3>. QED  BY <1>1, <1>2, <2>1, <2>4, <3>1, NextOver
  <2>7. upper.size \in Nat \ {0} /\ Aligned(upper.size) /\ ptr + upper.size = c + SizeAt(c)
    <3>1. Aligned(size + SizeAt(c))
      BY <1>1, <2>4, AlignedSum
    <3>. QED  BY <1>1, <2>1, <2>3, <2>4, <3>1
  <2>8. q # NoBlock => ptr + upper.size < q
    BY <2>4, <2>6, <2>7 DEF IsNext
  <2>9. ASSUME NEW byte \in Nat
        PROVE  Holds(ptr, upper.size, byte) <=> Holds(ptr, size, byte) \/ Among(free, {c}, byte)
    <3>1. Among(free, {c}, byte) <=> Holds(c, SizeAt(c), byte)
      BY DEF Among, SizeAt
    <3>. QED  BY <1>1, <2>1, <2>4, <2>7, <3>1 DEF Holds
  <2>10. \A edge \in Nat : (\A a \in F : EndOf(free, a) < edge) => ptr + upper.size <= edge
    <3>1. EndOf(free, c) = ptr + upper.size /\ ptr + upper.size \in Nat
      BY <1>1, <2>7 DEF EndOf, SizeAt
    <3>. QED  BY <2>1, <3>1
  <2>11. c \in Nat /\ ptr < c
    BY <1>1, <2>1
  <2>. HIDE DEF F
  <2>12. \A r \in {c} : r \in Nat /\ ptr < r /\ (upper.next # NoBlock => r < upper.next)
    BY <2>3, <2>6, <2>11
  <2>13. {c} \subseteq F /\ upper.next \in Int
    BY <2>1, <2>3, <2>4
  <2>14. /\ IsNext(upper.next, F \ {c}, p)
         /\ upper.next # NoBlock => ptr + upper.size < upper.next
    BY <2>3, <2>6, <2>8
  <2>. USE DEF F, upper
  <2>. QED  BY ONLY <2>2, <2>5, <2>7, <2>9, <2>10, <2>12, <2>13, <2>14, Zenon
<1>4. CASE ~Joins(c, ptr, size)
  <2>1. Swallowed(c, ptr, size) = {}
    BY <1>4 DEF Swallowed
  <2>2. upper.list = free /\ upper.size = size /\ upper.next = c
    BY <1>4 DEF Upper
  <2>. HIDE DEF upper
  <2>3. Without(upper.list, free, {})
    BY <1>1, <2>2 DEF Without
  <2>4. F \ {} = F
    OBVIOUS
  <2>5. c # NoBlock => ptr + size < c
    <3>1. c # NoBlock => ptr + size # c
      BY <1>4 DEF Joins
    <3>. QED  BY <1>1, <1>2, <3>1
  <2>6. \A byte \in Nat : Holds(ptr, size, byte) <=> Holds(ptr, size, byte) \/ Among(free, {}, byte)
    BY DEF Among
  <2>7. c \in Int
    BY <1>1
  <2>8. /\ upper.size \in Nat \ {0} /\ Aligned(upper.size) /\ upper.next \in Int
        /\ IsNext(upper.next, F \ {}, p) /\ (upper.next # NoBlock => ptr + upper.size < upper.next)
        /\ \A byte \in Nat : Holds(ptr, upper.size, byte) <=>
                                        Holds(ptr, size, byte) \/ Among(free, {}, byte)
    BY <1>1, <1>2, <2>2, <2>4, <2>5, <2>6, <2>7
  <2>9. {} \subseteq F
    OBVIOUS
  <2>. USE DEF upper
  <2>. QED  BY <2>1, <2>2, <2>3, <2>8, <2>9
<1>. QED  BY <1>3, <1>4

(* The list with the block on it, and what it is part of: the block link   *)
(* leads to it, and it is the only one that can touch the edge.            *)
Back(list, block, link, next, ptr, size, upto) ==
    /\ ListInv(list)
    /\ block \in DOMAIN list.header /\ list.header[block].next = next
    /\ EndOf(list, block) = upto
    /\ link \in DOMAIN list.header \cup {NoBlock} /\ Link(list, link) = block
    /\ \A byte \in Nat : InFree(list, byte) <=> InFree(free, byte) \/ Holds(ptr, size, byte)
    /\ \A a \in DOMAIN list.header : a # block => \E c \in DOMAIN free.header : EndOf(list, a) = EndOf(free, c)

(* The free block whose link leads there.                                  *)
Behind(p, ptr, before) == IF Follows(p, ptr) THEN before ELSE p

(* The block on the list, on its own or as part of the one before it.      *)
LEMMA WholeIs ==
    ASSUME ListInv(free), NEW p, NEW ptr, NEW c, NEW size, NEW before,
           Loose(ptr, size), Between(p, ptr, c),
           p # NoBlock => before \in DOMAIN free.header \cup {NoBlock} /\ Link(free, before) = p
    PROVE  LET upper == Upper(c, ptr, size)
               whole == Whole(p, ptr, upper)
               link == Behind(p, ptr, before)
           IN  /\ Back(whole.list, whole.at, link, upper.next, ptr, size, ptr + upper.size)
               /\ whole.at + whole.size = ptr + upper.size
<1>. DEFINE F == DOMAIN free.header
<1>. DEFINE R == Swallowed(c, ptr, size)
<1>. DEFINE upper == Upper(c, ptr, size)
<1>. DEFINE q == upper.next
<1>. DEFINE whole == Whole(p, ptr, upper)
<1>1. /\ NoBlock = -1 /\ F \in SUBSET Nat /\ ptr \in Nat /\ size \in Nat \ {0}
      /\ Aligned(ptr) /\ p \in F \cup {NoBlock} /\ free \in FreeLists
      /\ \A a \in F : SizeAt(a) \in Nat \ {0} /\ Aligned(a) /\ Aligned(SizeAt(a))
  BY ListFacts DEF Loose, Between, ListInv, SizeAt
<1>2. ptr \notin F /\ (p # NoBlock => p < ptr /\ p + SizeAt(p) <= ptr)
  BY Sides
<1>3. /\ Without(upper.list, free, R) /\ R \subseteq F
      /\ \A r \in R : r \in Nat /\ ptr < r /\ (q # NoBlock => r < q)
      /\ upper.size \in Nat \ {0} /\ Aligned(upper.size) /\ q \in Int
      /\ IsNext(q, F \ R, p)
      /\ q # NoBlock => ptr + upper.size < q
      /\ \A byte \in Nat : Holds(ptr, upper.size, byte) <=>
                               Holds(ptr, size, byte) \/ Among(free, R, byte)
  BY UpperIs
<1>4. p < ptr /\ p \in (F \ R) \cup {NoBlock}
  BY <1>1, <1>2, <1>3
<1>5. \A byte \in Nat : InFree(free, byte) <=> Among(free, F \ R, byte) \/ Among(free, R, byte)
  BY <1>3, AmongBoth DEF InFree
<1>6. CASE Follows(p, ptr)
  <2>. DEFINE s == SizeAt(p) + upper.size
  <2>. DEFINE new == Written(upper.list, p, s, q)
  <2>. DEFINE RR == R \cup {p}
  <2>1. p \in F \ R /\ p # NoBlock /\ p + SizeAt(p) = ptr
    BY <1>4, <1>6 DEF Follows
  <2>2. whole.at = p /\ whole.size = s /\ whole.list = new
    BY <1>6 DEF Whole
  <2>. HIDE DEF R, upper, whole
  <2>3. before \in F \cup {NoBlock} /\ Link(free, before) = p
    BY <2>1
  <2>4. IsNext(p, F, before)
    BY <2>3, ListFacts
  <2>5. IsNext(q, (F \ R) \ {p}, before) /\ before < p
    <3>1. F \ R \in SUBSET F /\ before \in Nat \cup {NoBlock} /\ p \in F
      BY <1>1, <2>1, <2>3
    <3>. HIDE DEF F, q
    <3>. QED  BY <1>1, <1>3, <2>4, <3>1, NextOver
  <2>6. (F \ R) \ {p} = F \ RR
    OBVIOUS
  <2>7. before \in (F \ RR) \cup {NoBlock}
    <3>1. before # p /\ \A r \in R : before # r
      BY <1>1, <1>2, <1>3, <2>1, <2>3, <2>5
    <3>. QED  BY <2>3, <3>1
  <2>8. p \in Nat /\ SizeAt(p) \in Nat \ {0} /\ Aligned(p) /\ Aligned(s) /\ s \in Nat \ {0}
        /\ p + s = ptr + upper.size
    <3>1. p \in Nat /\ SizeAt(p) \in Nat \ {0} /\ Aligned(p) /\ Aligned(SizeAt(p)) /\ upper.size \in Nat \ {0}
      BY <1>1, <1>3, <2>1
    <3>2. Aligned(SizeAt(p) + upper.size)
      BY <1>3, <3>1, AlignedSum
    <3>. QED  BY <2>1, <3>1, <3>2
  <2>. HIDE DEF s, new, q
  <2>9. Spliced(free, new, before, RR, {p}, s, q)
    BY <1>1, <1>3, <2>1, <2>3, <2>7, <2>8, Grown DEF new
  <2>10. q # NoBlock => p + s < q
    BY <1>3, <2>8
  <2>11. ASSUME NEW r \in RR PROVE before < r /\ (q # NoBlock => r < q)
    BY <1>1, <1>2, <1>3, <2>1, <2>3, <2>5, <2>8, <2>10
  <2>12. Splicing(free, before, RR, {p}, q)
    BY <2>5, <2>6, <2>7, <2>8, <2>11 DEF Splicing
  <2>13. before # NoBlock => EndOf(free, before) < p
    BY <2>1, <2>3, <2>5, ListFacts DEF EndOf
  <2>14. ListInv(new)
    BY <2>8, <2>9, <2>10, <2>12, <2>13, SplicedInv
  <2>15. ASSUME NEW byte \in Nat
         PROVE  InFree(new, byte) <=> InFree(free, byte) \/ Holds(ptr, size, byte)
    <3>1. InFree(new, byte) <=> Among(free, F \ RR, byte) \/ Holds(p, s, byte)
      BY <2>9, SplicedBytes
    <3>2. Holds(p, s, byte) <=> Holds(p, SizeAt(p), byte) \/ Holds(ptr, upper.size, byte)
      BY <1>1, <1>3, <2>1, <2>8 DEF Holds
    <3>3. Among(free, F \ R, byte) <=> Among(free, F \ RR, byte) \/ Holds(p, SizeAt(p), byte)
      <4>1. Among(free, F \ R, byte) <=> Among(free, (F \ R) \ {p}, byte) \/ Among(free, {p}, byte)
        BY <2>1, AmongBoth
      <4>2. Among(free, {p}, byte) <=> Holds(p, SizeAt(p), byte)
        BY DEF Among, SizeAt
      <4>. QED  BY <2>6, <4>1, <4>2
    <3>. QED  BY <1>3, <1>5, <3>1, <3>2, <3>3
  <2>16. /\ DOMAIN new.header = (F \ RR) \cup {p}
         /\ new.header[p] = [size |-> s, next |-> q]
         /\ \A a \in F \ RR : EndOf(new, a) = EndOf(free, a)
         /\ Link(new, before) = p
    BY <2>9 DEF Spliced, EndOf
  <2>17. EndOf(new, p) = ptr + upper.size
    BY <2>8, <2>16 DEF EndOf
  <2>18. Back(new, p, before, q, ptr, size, ptr + upper.size)
    BY <2>7, <2>14, <2>15, <2>16, <2>17 DEF Back
  <2>. USE DEF q, upper, whole
  <2>. QED  BY <1>6, <2>2, <2>8, <2>18 DEF Behind
<1>7. CASE ~Follows(p, ptr)
  <2>. DEFINE new == Linked(Written(upper.list, ptr, upper.size, q), p, ptr)
  <2>1. whole.at = ptr /\ whole.size = upper.size /\ whole.list = new
    BY <1>7 DEF Whole
  <2>2. p # NoBlock => EndOf(free, p) < ptr
    <3>1. p # NoBlock => p + SizeAt(p) # ptr
      BY <1>7 DEF Follows
    <3>. QED  BY <1>1, <1>2, <3>1 DEF EndOf, SizeAt
  <2>. HIDE DEF R, upper, whole, new, q
  <2>3. Spliced(free, new, p, R, {ptr}, upper.size, q)
    <3>1. ptr \in Nat \ (F \ R)
      BY <1>1, <1>2
    <3>. QED  BY <1>1, <1>3, <1>4, <3>1, Replaced DEF new
  <2>4. Splicing(free, p, R, {ptr}, q)
    <3>1. q # NoBlock => ptr < q
      BY <1>1, <1>3
    <3>2. \A r \in R : p < r /\ (q # NoBlock => r < q)
      BY <1>1, <1>3, <1>4
    <3>. QED  BY <1>1, <1>3, <1>4, <3>1, <3>2 DEF Splicing
  <2>5. ListInv(new)
    BY <1>1, <1>3, <2>2, <2>3, <2>4, SplicedInv
  <2>6. ASSUME NEW byte \in Nat
        PROVE  InFree(new, byte) <=> InFree(free, byte) \/ Holds(ptr, size, byte)
    <3>1. InFree(new, byte) <=> Among(free, F \ R, byte) \/ Holds(ptr, upper.size, byte)
      BY <2>3, SplicedBytes
    <3>. QED  BY <1>3, <1>5, <3>1
  <2>7. /\ DOMAIN new.header = (F \ R) \cup {ptr}
        /\ new.header[ptr] = [size |-> upper.size, next |-> q]
        /\ \A a \in F \ R : EndOf(new, a) = EndOf(free, a)
        /\ Link(new, p) = ptr
    BY <2>3 DEF Spliced, EndOf
  <2>8. EndOf(new, ptr) = ptr + upper.size
    BY <2>7 DEF EndOf
  <2>9. Back(new, ptr, p, q, ptr, size, ptr + upper.size)
    BY <1>4, <2>5, <2>6, <2>7, <2>8 DEF Back
  <2>. USE DEF q, upper, whole
  <2>. QED  BY <1>7, <2>1, <2>9 DEF Behind
<1>. QED  BY <1>6, <1>7

(* The last block goes back above the edge.                                *)
LEMMA ReturnedIs ==
    ASSUME NEW list, ListInv(list), NEW block \in DOMAIN list.header, list.header[block].next = NoBlock,
           NEW link \in DOMAIN list.header \cup {NoBlock}, Link(list, link) = block
    PROVE  LET new == Linked(Gone(list, block), link, NoBlock)
           IN  /\ ListInv(new)
               /\ \A byte \in Nat : InFree(new, byte) <=>
                      InFree(list, byte) /\ ~Holds(block, list.header[block].size, byte)
               /\ \A a \in DOMAIN new.header : EndOf(new, a) < block
<1>. DEFINE D == DOMAIN list.header
<1>. DEFINE new == Linked(Gone(list, block), link, NoBlock)
<1>1. /\ NoBlock = -1 /\ D \in SUBSET Nat /\ block \in Nat
      /\ \A a \in D : list.header[a].size \in Nat \ {0}
      /\ IsNext(block, D, link) /\ IsNext(NoBlock, D, block)
      /\ list \in FreeLists
      /\ \A a, c \in D : a < c => EndOf(list, a) < c
  BY ListFacts DEF ListInv, EndOf
<1>2. IsNext(NoBlock, D \ {block}, link) /\ link < block
  <2>1. D \in SUBSET D /\ link \in Nat \cup {NoBlock} /\ block \in D
    BY <1>1
  <2>. HIDE DEF D
  <2>. QED  BY <1>1, <2>1, NextOver
<1>3. link \in (D \ {block}) \cup {NoBlock}
  BY <1>1, <1>2
<1>4. Spliced(list, new, link, {block}, {}, 0, NoBlock)
  <2>1. Without(Gone(list, block), list, {block})
    BY <1>1, GoneIs
  <2>2. NoBlock \in Int
    BY <1>1
  <2>. HIDE DEF new
  <2>. QED  BY <1>1, <1>3, <2>1, <2>2, Dropped DEF new
<1>. HIDE DEF new
<1>5. Splicing(list, link, {block}, {}, NoBlock)
  BY <1>2, <1>3 DEF Splicing
<1>6. ListInv(new)
  BY <1>4, <1>5, SplicedInv
<1>7. ASSUME NEW byte \in Nat
      PROVE  InFree(new, byte) <=> InFree(list, byte) /\ ~Holds(block, list.header[block].size, byte)
  <2>1. InFree(new, byte) <=> Among(list, D \ {block}, byte)
    BY <1>4, SplicedBytes
  <2>2. InFree(list, byte) <=> Among(list, D \ {block}, byte) \/ Holds(block, list.header[block].size, byte)
    BY AmongBoth DEF InFree, Among
  <2>3. Among(list, D \ {block}, byte) => ~Holds(block, list.header[block].size, byte)
    BY FreeOnce DEF Among
  <2>. QED  BY <2>1, <2>2, <2>3
<1>8. ASSUME NEW a \in DOMAIN new.header PROVE EndOf(new, a) < block
  <2>1. a \in D \ {block} /\ EndOf(new, a) = EndOf(list, a)
    BY <1>4 DEF Spliced, EndOf
  <2>2. a < block
    BY <1>1, <2>1 DEF IsNext
  <2>. QED  BY <1>1, <2>1, <2>2
<1>. QED  BY <1>6, <1>7, <1>8 DEF new

(* A block that is freed.                                                  *)
LEMMA DeallocKeeps ==
    ASSUME HeapInv, NEW b \in live, dealloc(b)
    PROVE  HeapInv'
<1>. DEFINE F == DOMAIN free.header
<1>. DEFINE ptr == b.at
<1>. DEFINE size == Rounded(b.size)
<1>. DEFINE S == {at \in List : at > ptr}
<1>. DEFINE n == Stop(S)
<1>. DEFINE c == Walk[n]
<1>. DEFINE p == Visited(n - 1)
<1>. DEFINE before == Visited(n - 2)
<1>. DEFINE upper == Upper(c, ptr, size)
<1>. DEFINE whole == Whole(p, ptr, upper)
<1>. DEFINE link == Behind(p, ptr, before)
<1>. DEFINE back == upper.next = NoBlock /\ whole.at + whole.size = bump
<1>1. /\ live' = live \ {b}
      /\ back => free' = Linked(Gone(whole.list, whole.at), link, NoBlock) /\ bump' = whole.at
      /\ ~back => free' = whole.list /\ bump' = bump
  BY Zenon DEF dealloc, release, Behind
<1>2. /\ ptr \in Nat /\ Aligned(ptr) /\ size \in Nat \ {0} /\ Aligned(size) /\ ptr + size <= bump
      /\ bump \in Nat /\ ListInv(free) /\ free \in FreeLists /\ Sorted(free)
      /\ \A a \in F : a \in Nat /\ a < INITIAL_HEAP_SIZE
  BY HeapFacts, ListFacts
<1>3. List = F
  BY <1>2, ListIs
<1>4. /\ c \in (F \cap S) \cup {NoBlock} /\ p \in (F \ S) \cup {NoBlock} /\ Link(free, p) = c
      /\ p # NoBlock => before \in F \cup {NoBlock} /\ Link(free, before) = p
  <2>1. \A a \in F : a < INITIAL_HEAP_SIZE
    BY <1>2
  <2>. HIDE DEF S
  <2>. QED  BY <1>2, <2>1, Stopped
<1>. HIDE DEF n, c, p, before
<1>5. Between(p, ptr, c)
  BY <1>2, <1>3, <1>4 DEF Between
<1>6. \A byte \in Nat : Holds(ptr, size, byte) => InLive(byte)
  BY DEF InLive, HeldBy
<1>7. Loose(ptr, size)
  BY <1>2, <1>6 DEF Loose, HeapInv, Complete
<1>. HIDE DEF ptr, size
<1>8. /\ Back(whole.list, whole.at, link, upper.next, ptr, size, ptr + upper.size)
      /\ whole.at + whole.size = ptr + upper.size
  <2>1. /\ ListInv(free) /\ Loose(ptr, size) /\ Between(p, ptr, c)
        /\ p # NoBlock => before \in DOMAIN free.header \cup {NoBlock} /\ Link(free, before) = p
    BY <1>2, <1>4, <1>5, <1>7
  <2>. HIDE DEF S
  <2>. QED  BY ONLY <2>1, WholeIs
<1>9. /\ upper.size \in Nat \ {0} /\ upper.next \in Int /\ ptr + upper.size <= bump
      /\ upper.next # NoBlock => upper.next \in F /\ ptr + upper.size < upper.next
  <2>1. \A a \in F : EndOf(free, a) < bump
    BY DEF HeapInv, Complete
  <2>. DEFINE R == Swallowed(c, ptr, size)
  <2>2. /\ upper.size \in Nat \ {0} /\ upper.next \in Int
        /\ IsNext(upper.next, F \ R, p)
        /\ upper.next # NoBlock => ptr + upper.size < upper.next
        /\ \A edge \in Nat : /\ ptr + size <= edge
                             /\ \A a \in F : EndOf(free, a) < edge
                             => ptr + upper.size <= edge
    BY <1>2, <1>5, <1>7, UpperIs
  <2>. HIDE DEF upper
  <2>3. upper.next # NoBlock => upper.next \in F
    BY <2>2 DEF IsNext
  <2>. QED  BY <1>2, <2>1, <2>2, <2>3
<1>. DEFINE list == whole.list
<1>. DEFINE block == whole.at
<1>. DEFINE next == upper.next
<1>. DEFINE end == ptr + upper.size
<1>10. /\ ListInv(list) /\ block \in DOMAIN list.header /\ list.header[block].next = next
       /\ EndOf(list, block) = end /\ link \in DOMAIN list.header \cup {NoBlock}
       /\ Link(list, link) = block
       /\ \A byte \in Nat : InFree(list, byte) <=> InFree(free, byte) \/ Holds(ptr, size, byte)
       /\ \A a \in DOMAIN list.header : a # block => \E d \in F : EndOf(list, a) = EndOf(free, d)
  BY <1>8 DEF Back
<1>. HIDE DEF upper, whole, link
<1>11. /\ end \in Nat /\ end <= bump /\ (next # NoBlock => next \in F /\ end < next)
       /\ back <=> next = NoBlock /\ end = bump
  <2>1. end \in Nat
    BY <1>2, <1>9
  <2>2. end <= bump /\ (next # NoBlock => next \in F /\ end < next)
    BY <1>9
  <2>3. whole.at + whole.size = end
    BY <1>8
  <2>. QED  BY <2>1, <2>2, <2>3
<1>. HIDE DEF list, block, next, end, back
<1>12. /\ back => free' = Linked(Gone(list, block), link, NoBlock) /\ bump' = block
       /\ ~back => free' = list /\ bump' = bump
  BY <1>1 DEF list, block
<1>13. /\ block \in Nat /\ Aligned(block) /\ list.header[block].size \in Nat \ {0}
       /\ block + list.header[block].size = end
  BY <1>10, ListFacts DEF EndOf
<1>14. ASSUME NEW byte \in Nat PROVE InLive(byte) <=> InLive(byte)' \/ Holds(ptr, size, byte)
  BY <1>1 DEF InLive, HeldBy, ptr, size
<1>15. ASSUME NEW d \in live', NEW byte \in Nat, HeldBy(d, byte) PROVE ~InFree(list, byte)
  <2>1. d \in live /\ d # b /\ InLive(byte)
    BY <1>1, <1>15 DEF InLive
  <2>2. ~InFree(free, byte)
    BY <2>1 DEF HeapInv, Complete
  <2>3. ~HeldBy(b, byte)
    BY <1>15, <2>1 DEF HeapInv, LiveInv
  <2>. QED  BY <1>10, <2>2, <2>3 DEF HeldBy, ptr, size
<1>16. /\ bump' \in Nat /\ bump' <= INITIAL_HEAP_SIZE /\ Aligned(bump') /\ bump' <= bump
  BY <1>2, <1>11, <1>12, <1>13, HeapFacts, Numbers
<1>17. ListInv(free')
  <2>1. CASE back
    BY <1>10, <1>11, <1>12, <2>1, ReturnedIs
  <2>2. CASE ~back
    BY <1>10, <1>12, <2>2
  <2>. QED  BY <2>1, <2>2
<1>18. LiveInv'
  <2>1. live' \subseteq [at : Nat, size : Requests] /\ live' \subseteq live
    BY <1>1 DEF HeapInv, LiveInv
  <2>2. ASSUME NEW d \in live' PROVE Aligned(d.at) /\ d.at + Rounded(d.size) <= bump'
    <3>. DEFINE s == Rounded(d.size)
    <3>1. d.at \in Nat /\ Aligned(d.at) /\ s \in Nat /\ s > 0 /\ d.at + s <= bump
      BY <2>1, HeapFacts
    <3>2. CASE back
      <4>1. SUFFICES ASSUME d.at + s > block PROVE FALSE
        BY <1>12, <1>13, <3>1, <3>2
      <4>. DEFINE byte == d.at + s - 1
      <4>2. byte \in Nat /\ d.at <= byte /\ byte < d.at + s /\ block <= byte /\ byte < bump
        BY <1>2, <1>13, <3>1, <4>1
      <4>3. HeldBy(d, byte)
        BY <4>2 DEF HeldBy, Holds
      <4>4. Holds(block, list.header[block].size, byte)
        BY <1>11, <1>13, <3>2, <4>2 DEF Holds
      <4>. HIDE DEF byte
      <4>5. InFree(list, byte)
        BY <1>10, <4>4 DEF InFree, Among
      <4>. QED  BY <1>15, <4>2, <4>3, <4>5
    <3>3. CASE ~back
      BY <1>12, <3>1, <3>3
    <3>. QED  BY <3>1, <3>2, <3>3
  <2>3. \A d, e \in live' : \A byte \in Nat : HeldBy(d, byte) /\ HeldBy(e, byte) => d = e
    BY <2>1 DEF HeapInv, LiveInv
  <2>. QED  BY <2>1, <2>2, <2>3 DEF LiveInv, HeldBy
<1>19. /\ \A byte \in Nat : InFree(free', byte) => InFree(list, byte)
       /\ \A byte \in Nat : InFree(list, byte) /\ byte < bump' => InFree(free', byte)
       /\ \A a \in DOMAIN free'.header : EndOf(free', a) < bump'
  <2>1. CASE back
    <3>1. /\ \A byte \in Nat : InFree(free', byte) <=>
                 InFree(list, byte) /\ ~Holds(block, list.header[block].size, byte)
          /\ \A a \in DOMAIN free'.header : EndOf(free', a) < block
      BY <1>10, <1>11, <1>12, <2>1, ReturnedIs
    <3>2. \A byte \in Nat : byte < block => ~Holds(block, list.header[block].size, byte)
      BY <1>13 DEF Holds
    <3>. QED  BY <1>12, <2>1, <3>1, <3>2
  <2>2. CASE ~back
    <3>1. \A a \in F : EndOf(free, a) < bump /\ EndOf(free, a) \in Nat /\ a <= EndOf(free, a)
      BY <1>2, ListFacts DEF HeapInv, Complete, EndOf
    <3>2. end < bump
      BY <1>2, <1>11, <2>2, <3>1
    <3>. QED  BY <1>10, <1>12, <2>2, <3>1, <3>2
  <2>. QED  BY <2>1, <2>2
<1>20. Complete'
  <2>1. \A byte \in Nat : InFree(free', byte) => ~InLive(byte)'
    <3>1. \A byte \in Nat : InLive(byte)' => ~InFree(list, byte)
      BY <1>15 DEF InLive, HeldBy
    <3>. QED  BY <1>19, <3>1
  <2>2. \A byte \in Nat : byte < bump' => InFree(free', byte) \/ InLive(byte)'
    <3>1. \A byte \in Nat : byte < bump => InFree(free, byte) \/ InLive(byte)
      BY DEF HeapInv, Complete
    <3>. QED  BY <1>2, <1>10, <1>14, <1>16, <1>19, <3>1
  <2>. QED  BY <1>19, <2>1, <2>2 DEF Complete
<1>21. ListInv(free)'
  BY <1>17 DEF ListInv, FreeLists, Sorted, Spaced, Link, IsNext, EndOf, Aligned, NoBlock
<1>22. Aligned(bump)'
  BY <1>16 DEF Aligned
<1>. QED  BY <1>16, <1>18, <1>20, <1>21, <1>22 DEF HeapInv

-----------------------------------------------------------------------------
(* What follows from the invariant.                                        *)

(* It holds at boot.                                                       *)
LEMMA InitInv == HeapInit => HeapInv
<1>. SUFFICES ASSUME HeapInit PROVE HeapInv
  OBVIOUS
<1>1. free = [head |-> NoBlock, header |-> [a \in {} |-> 0]] /\ bump = 0 /\ live = {}
  BY DEF HeapInit
<1>2. [a \in {} |-> 0] \in [{} -> [size : Nat \ {0}, next : Int]] /\ DOMAIN free.header = {}
  BY <1>1
<1>3. free \in FreeLists
  <2>1. free.head \in Int /\ {} \in SUBSET Nat
    BY <1>1 DEF NoBlock
  <2>. QED  BY <1>1, <1>2, <2>1 DEF FreeLists
<1>4. ListInv(free)
  BY <1>1, <1>2, <1>3 DEF ListInv, Sorted, Spaced, Link, IsNext
<1>5. Aligned(bump)
  BY <1>1, Numbers DEF Aligned
<1>6. LiveInv /\ Complete
  BY <1>1, <1>2 DEF LiveInv, Complete, InFree, Among, InLive
<1>. QED  BY <1>1, <1>4, <1>5, <1>6, Numbers DEF HeapInv

(* And every step keeps it.                                                *)
LEMMA NextInv == HeapInv /\ [HeapNext]_heapVars => HeapInv'
<1>. SUFFICES ASSUME HeapInv, [HeapNext]_heapVars PROVE HeapInv'
  OBVIOUS
<1>1. CASE \E request \in Requests : pop_fit(request) \/ Carve(request)
  BY <1>1, PopKeeps, CarveKeeps
<1>2. CASE \E b \in live : dealloc(b)
  BY <1>2, DeallocKeeps
<1>3. CASE UNCHANGED heapVars
  BY <1>3 DEF heapVars, HeapInv, ListInv, FreeLists, Sorted, Spaced, Link, IsNext, EndOf, Aligned, NoBlock,
              LiveInv, Complete, InFree, Among, InLive, HeldBy, Holds
<1>. QED  BY <1>1, <1>2, <1>3 DEF HeapNext

(* So that it always holds.                                                *)
LEMMA AlwaysInv == HeapSpec => []HeapInv
  BY InitInv, NextInv, PTL DEF HeapSpec

(* The loops see exactly the free blocks.                                  *)
LEMMA ListIsFree == ASSUME HeapInv PROVE List = DOMAIN free.header
  BY HeapFacts, ListIs

(* Every byte has one place.                                               *)
LEMMA TiledHolds == ASSUME HeapInv PROVE Tiled
<1>. DEFINE F == DOMAIN free.header
<1>1. List = F /\ ListInv(free)
  BY ListIsFree, HeapFacts
<1>2. ASSUME NEW byte \in 0 .. INITIAL_HEAP_SIZE - 1
      PROVE  Cardinality(FreeAt(List, byte)) + Cardinality(GivenAt(byte)) = IF byte < bump THEN 1 ELSE 0
  <2>0. byte \in Nat
    BY Numbers
  <2>1. FreeAt(List, byte) # {} <=> InFree(free, byte)
    BY <1>1 DEF FreeAt, InFree, Among, SizeAt
  <2>2. GivenAt(byte) # {} <=> InLive(byte)
    BY DEF GivenAt, InLive, HeldBy
  <2>3. \A a, c \in FreeAt(List, byte) : a = c
    BY <1>1, <2>0, FreeOnce DEF FreeAt, SizeAt
  <2>4. \A b, c \in GivenAt(byte) : b = c
    BY <2>0 DEF GivenAt, HeapInv, LiveInv, HeldBy
  <2>5. Cardinality(FreeAt(List, byte)) = IF InFree(free, byte) THEN 1 ELSE 0
    <3>1. CASE InFree(free, byte)
      <4>1. \E a : FreeAt(List, byte) = {a}
        BY <2>1, <2>3, <3>1
      <4>. QED  BY <3>1, <4>1, FS_Singleton
    <3>2. CASE ~InFree(free, byte)
      BY <2>1, <3>2, FS_EmptySet
    <3>. QED  BY <3>1, <3>2
  <2>6. Cardinality(GivenAt(byte)) = IF InLive(byte) THEN 1 ELSE 0
    <3>1. CASE InLive(byte)
      <4>1. \E b : GivenAt(byte) = {b}
        BY <2>2, <2>4, <3>1
      <4>. QED  BY <3>1, <4>1, FS_Singleton
    <3>2. CASE ~InLive(byte)
      BY <2>2, <3>2, FS_EmptySet
    <3>. QED  BY <3>1, <3>2
  <2>7. ~(InFree(free, byte) /\ InLive(byte)) /\ (byte < bump => InFree(free, byte) \/ InLive(byte))
    BY <2>0 DEF HeapInv, Complete
  <2>8. InFree(free, byte) => byte < bump
    <3>1. \A a \in F : a \in Nat /\ free.header[a].size \in Nat /\ a + free.header[a].size < bump /\ bump \in Nat
      BY <1>1, HeapFacts, ListFacts
    <3>. QED  BY <2>0, <3>1 DEF InFree, Among, Holds
  <2>9. InLive(byte) => byte < bump
    <3>1. \A b \in live : b.at \in Nat /\ Rounded(b.size) \in Nat /\ b.at + Rounded(b.size) <= bump /\ bump \in Nat
      BY HeapFacts
    <3>. QED  BY <2>0, <3>1 DEF InLive, HeldBy, Holds
  <2>. QED  BY <2>5, <2>6, <2>7, <2>8, <2>9
<1>3. ASSUME NEW at \in List, NextOf(at) # NoBlock PROVE at < NextOf(at)
  <2>1. IsNext(NextOf(at), F, at)
    BY <1>1, ListFacts DEF NextOf
  <2>. QED  BY <1>3, <2>1 DEF IsNext
<1>. QED  BY <1>2, <1>3 DEF Tiled

(* As many bytes in a row as a request needs are found.                    *)
LEMMA RoomHolds == ASSUME HeapInv PROVE RoomIsFound
<1>. DEFINE F == DOMAIN free.header
<1>1. /\ List = F /\ bump \in Nat
      /\ \A a \in F : a \in Nat /\ SizeAt(a) \in Nat \ {0} /\ a + SizeAt(a) < bump
      /\ \A a, c \in F : a < c => a + SizeAt(a) < c
  BY ListIsFree, HeapFacts, ListFacts DEF SizeAt
<1>2. ASSUME NEW byte \in Nat, byte < bump, GivenAt(byte) = {}
      PROVE  \E a \in F : Holds(a, SizeAt(a), byte)
  <2>1. ~InLive(byte)
    BY <1>2 DEF GivenAt, InLive, HeldBy
  <2>2. InFree(free, byte)
    BY <1>2, <2>1 DEF HeapInv, Complete
  <2>. QED  BY <2>2 DEF InFree, Among, SizeAt
<1>3. ASSUME NEW request \in Requests, NEW at \in 0 .. INITIAL_HEAP_SIZE - Rounded(request),
             \A byte \in at .. at + Rounded(request) - 1 : GivenAt(byte) = {}
      PROVE  Fitting(Rounded(request)) # {} \/ bump + Rounded(request) <= INITIAL_HEAP_SIZE
  <2>. DEFINE size == Rounded(request)
  <2>1. size \in Nat \ {0} /\ INITIAL_HEAP_SIZE \in Nat
    BY RoundedIs, Numbers
  <2>. HIDE DEF size
  <2>2. at \in Nat /\ at + size <= INITIAL_HEAP_SIZE /\ \A byte \in at .. at + size - 1 : GivenAt(byte) = {}
    BY <1>3, <2>1 DEF size
  <2>3. CASE bump <= at
    BY <1>1, <2>1, <2>2, <2>3 DEF size
  <2>4. CASE at < bump
    <3>1. GivenAt(at) = {}
      BY <2>1, <2>2
    <3>2. PICK a \in F : Holds(a, SizeAt(a), at)
      BY <1>2, <2>2, <2>4, <3>1
    <3>. DEFINE byte == a + SizeAt(a)
    <3>3. a \in Nat /\ a <= at /\ at < byte /\ byte \in Nat /\ byte < bump /\ SizeAt(a) \in Nat
      BY <1>1, <2>2, <3>2 DEF Holds
    <3>4. ASSUME byte < at + size PROVE FALSE
      <4>1. GivenAt(byte) = {}
        BY <2>1, <2>2, <3>3, <3>4
      <4>2. PICK c \in F : Holds(c, SizeAt(c), byte)
        BY <1>2, <3>3, <4>1
      <4>3. c \in Nat /\ c <= byte /\ byte < c + SizeAt(c) /\ SizeAt(c) \in Nat
        BY <1>1, <4>2 DEF Holds
      <4>4. CASE c < a
        <5>1. c + SizeAt(c) < a
          BY <1>1, <4>4
        <5>. QED  BY <3>3, <4>3, <5>1
      <4>5. CASE c = a
        BY <4>3, <4>5
      <4>6. CASE a < c
        <5>1. byte < c
          BY <1>1, <4>6
        <5>. QED  BY <3>3, <4>3, <5>1
      <4>. QED  BY <3>3, <4>3, <4>4, <4>5, <4>6
    <3>5. SizeAt(a) >= size
      BY <2>1, <2>2, <3>3, <3>4
    <3>6. a \in Fitting(size)
      BY <1>1, <3>5 DEF Fitting
    <3>. QED  BY <3>6 DEF size
  <2>. QED  BY <1>1, <2>2, <2>3, <2>4
<1>. QED  BY <1>3 DEF RoomIsFound

(* What the free list, the edge and the allocations are made of: the loops *)
(* see every free block, and every address and size is a multiple of       *)
(* MIN_ALIGN.                                                              *)
THEOREM HeapTypes == HeapSpec => []HeapTypeOK
<1>1. HeapInv => HeapTypeOK
  <2>. SUFFICES ASSUME HeapInv PROVE HeapTypeOK
    OBVIOUS
  <2>1. List = DOMAIN free.header
    BY ListIsFree
  <2>2. \A at \in List : Aligned(at) /\ Aligned(SizeAt(at))
    BY <2>1, HeapFacts, ListFacts DEF SizeAt
  <2>3. \A b \in live : Aligned(b.at) /\ b.size \in Requests
    BY HeapFacts
  <2>4. bump \in 0 .. INITIAL_HEAP_SIZE /\ Aligned(bump)
    BY HeapFacts, Numbers
  <2>. QED  BY <2>1, <2>2, <2>3, <2>4 DEF HeapTypeOK
<1>. QED  BY <1>1, AlwaysInv, PTL

(* No byte of the heap is handed out twice or lost, however allocations    *)
(* and frees follow one another (pop_fit, release), the list stays in      *)
(* address order, and a request is refused only if nowhere in the heap     *)
(* there is room for it in a row: freed neighbours always become one block *)
(* again, and what reaches the edge goes back above it.                    *)
THEOREM HeapStaysExact == HeapSpec => []HeapExact
<1>1. HeapInv => HeapExact
  BY TiledHolds, RoomHolds DEF HeapExact
<1>. QED  BY <1>1, AlwaysInv, PTL

=============================================================================
