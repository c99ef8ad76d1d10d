------------------------------ MODULE VmProofs ------------------------------
(***************************************************************************)
(* Proofs that user memory keeps its regions apart, its frames accounted   *)
(* for and its table within its size, and with it its promise to programs  *)
(* (AddressSpaces): each sees a private array of pages that only its own   *)
(* calls and stores change; for any number of address spaces, frames,      *)
(* table levels and slots.                                                 *)
(***************************************************************************)
EXTENDS Vm, FiniteSetTheorems, TLAPS

-----------------------------------------------------------------------------
(* The inductive invariant.                                                *)

(* One thread of a space calls brk, as the loader's programs do.           *)
OneThreadGrows == Cloned = {FALSE}

Apart(table) ==
    \A r1, r2 \in table :
        r1.space = r2.space /\ r1 # r2 => r1.end <= r2.start \/ r2.end <= r1.start

(* Regions in order, none of them in the heap. *)
InOrder(table) ==
    /\ table \subseteq Region /\ IsFiniteSet(table)
    /\ \A r \in table : r.start < r.end /\ \A p \in HeapPages : ~Covers(r, p)
    /\ Apart(table)

(* The resident part of the heap ends at the break. *)
HeapInv ==
    \A s \in Spaces : \A h \in breaks[s] :
        /\ \A other \in breaks[s] : other = h
        /\ \A p \in HeapPages : Resident(s, p) => p < h

(* FramesExact, said without pairs. *)
FramesOK ==
    /\ orphans \subseteq used
    /\ \A s \in Spaces : \A n \in DOMAIN nodes[s] : nodes[s][n] \in used \ orphans
    /\ \A f \in used \ orphans : \E s \in Spaces : \E n \in DOMAIN nodes[s] : nodes[s][n] = f
    /\ \A s, t \in Spaces : \A n \in DOMAIN nodes[s], m \in DOMAIN nodes[t] :
           nodes[s][n] = nodes[t][m] => s = t /\ n = m

Entry(x) == x = [prot |-> x.prot, data |-> x.data] /\ x.prot \subseteq {"r", "w"}

(* Page tables are there for the spaces that exist, and have an entry for  *)
(* each resident page.                                                     *)
PagesOK ==
    /\ DOMAIN nodes = Spaces /\ DOMAIN ptes = Spaces
    /\ \A s \in Spaces :
        /\ ~Live(s) => DOMAIN nodes[s] = {}
        /\ \A p : p \in DOMAIN ptes[s] <=> p \in Pages /\ Resident(s, p)
        /\ \A p \in DOMAIN ptes[s] : Entry(ptes[s][p])

BreaksOK ==
    /\ DOMAIN breaks = Spaces
    /\ \A s \in Spaces : breaks[s] \subseteq HeapBase .. MmapBase

IInv ==
    /\ InOrder(regions) /\ \A r \in regions : Live(r.space)
    /\ FramesOK /\ used \subseteq Frames
    /\ PagesOK /\ BreaksOK
    /\ panic \in {"none", "memory"}
    /\ panic = "none" => HeapInv

-----------------------------------------------------------------------------
(* Finite sets.                                                            *)

(* What a function makes of a finite set is finite and no larger. *)
LEMMA Image1 ==
    ASSUME NEW S, IsFiniteSet(S), NEW f, DOMAIN f = S, f = [x \in S |-> f[x]],
           NEW T, \A y \in T : \E x \in S : f[x] = y
    PROVE  IsFiniteSet(T) /\ Cardinality(T) <= Cardinality(S)
<1>. DEFINE R == {f[x] : x \in S}
<1>1. f \in Surjection(S, R)
  BY DEF Surjection
<1>2. IsFiniteSet(R) /\ Cardinality(R) <= Cardinality(S)
  BY <1>1, FS_Surjection
<1>3. T \subseteq R
  OBVIOUS
<1>4. IsFiniteSet(T) /\ Cardinality(T) <= Cardinality(R)
  BY <1>2, <1>3, FS_Subset
<1>5. Cardinality(T) \in Nat /\ Cardinality(R) \in Nat /\ Cardinality(S) \in Nat
  BY <1>2, <1>4, FS_CardinalityType
<1>. QED  BY <1>2, <1>4, <1>5

(* A union is no larger than its parts together. *)
LEMMA UnionSize ==
    ASSUME NEW S, IsFiniteSet(S), NEW T, IsFiniteSet(T)
    PROVE  /\ IsFiniteSet(S \cup T)
           /\ Cardinality(S \cup T) <= Cardinality(S) + Cardinality(T)
<1>1. IsFiniteSet(S \cap T)
  BY FS_Intersection
<1>2. Cardinality(S \cap T) \in Nat /\ Cardinality(S) \in Nat /\ Cardinality(T) \in Nat
  BY <1>1, FS_CardinalityType
<1>3. /\ IsFiniteSet(S \cup T)
      /\ Cardinality(S \cup T) = Cardinality(S) + Cardinality(T) - Cardinality(S \cap T)
  BY FS_Union
<1>. QED  BY <1>2, <1>3

(* One element more makes a set at most one larger. *)
LEMMA OneMore ==
    ASSUME NEW S, IsFiniteSet(S), NEW x
    PROVE  /\ Cardinality(S) \in Nat /\ Cardinality(S \cup {x}) \in Nat
           /\ Cardinality(S \cup {x}) <= Cardinality(S) + 1
<1>1. IsFiniteSet({x}) /\ Cardinality({x}) = 1
  BY FS_Singleton
<1>2. /\ IsFiniteSet(S \cup {x})
      /\ Cardinality(S \cup {x}) <= Cardinality(S) + Cardinality({x})
  BY <1>1, UnionSize
<1>. QED  BY <1>1, <1>2, FS_CardinalityType

(* A bounded set of numbers has a largest. *)
LEMMA Greatest ==
    ASSUME NEW S \in SUBSET Nat, S # {}, NEW n \in Nat, \A x \in S : x <= n
    PROVE  Max(S) \in S /\ \A x \in S : x <= Max(S)
<1>. DEFINE T == {y \in Nat : n - y \in S}
<1>1. T \in SUBSET Nat /\ T # {}
  <2>1. PICK x \in S : TRUE
    OBVIOUS
  <2>2. n - x \in Nat /\ n - (n - x) = x
    OBVIOUS
  <2>. QED  BY <2>2
<1>2. PICK t \in T : \A u \in T : ~(<<u, t>> \in OpToRel(<, Nat))
  BY <1>1, NatLessThanWellFounded, WFMin, Zenon
<1>3. ASSUME NEW u \in T, u < t
      PROVE  FALSE
  <2>1. <<u, t>> \in {ss \in Nat \X Nat : ss[1] < ss[2]}
    BY <1>1, <1>3
  <2>2. <<u, t>> \in OpToRel(<, Nat)
    BY <2>1, Zenon DEF OpToRel
  <2>. QED  BY <1>2, <1>3, <2>2, Zenon
<1>4. n - t \in S /\ t \in Nat
  BY <1>1
<1>5. \A y \in S : n - t >= y
  <2>1. ASSUME NEW y \in S
        PROVE  n - t >= y
    <3>1. n - y \in Nat /\ n - (n - y) = y
      OBVIOUS
    <3>2. n - y \in T
      BY <3>1
    <3>3. ~(n - y < t)
      BY <1>3, <3>2
    <3>. QED  BY <1>4, <3>1, <3>3
  <2>. QED  BY <2>1
<1>6. PICK x \in S : \A y \in S : x >= y
  BY <1>4, <1>5
<1>7. Max(S) \in S /\ \A y \in S : Max(S) >= y
  BY <1>6, Zenon DEF Max
<1>. QED  BY <1>7

-----------------------------------------------------------------------------
(* Splitting regions.                                                      *)

LeftOf(r, at) == [r EXCEPT !.end = at]
RightOf(r, at) == [r EXCEPT !.start = at, !.offset = @ + (at - r.start)]

(* The two halves of a region that is cut. *)
LEMMA Halves ==
    ASSUME NEW r \in Region, NEW at \in Int, r.start < at, at < r.end
    PROVE  /\ LeftOf(r, at) \in Region /\ RightOf(r, at) \in Region
           /\ LeftOf(r, at).space = r.space /\ RightOf(r, at).space = r.space
           /\ LeftOf(r, at).start = r.start /\ LeftOf(r, at).end = at
           /\ RightOf(r, at).start = at /\ RightOf(r, at).end = r.end
<1>1. at \in Pages /\ at \in 1 .. UserEnd /\ r.offset + (at - r.start) \in Nat
  BY VmAssumption DEF Region, Pages
<1>. QED  BY <1>1 DEF LeftOf, RightOf, Region

(* Splitting leaves what is not cut and the halves of what is. *)
LEMMA SplitIs ==
    ASSUME NEW table, NEW s, NEW at
    PROVE  /\ \A u : u \in SplitAt(table, s, at) <=>
                  \/ u \in table \ Cut(table, s, at)
                  \/ \E r \in Cut(table, s, at) : u = LeftOf(r, at) \/ u = RightOf(r, at)
           /\ \A r : r \in Cut(table, s, at) <=>
                  r \in table /\ r.space = s /\ r.start < at /\ at < r.end
BY DEF SplitAt, Cut, Of, LeftOf, RightOf

(* Every region after a split is a piece of one before it. *)
LEMMA Pieces ==
    ASSUME NEW table, InOrder(table), NEW s, NEW at \in Int, NEW u \in SplitAt(table, s, at)
    PROVE  /\ u \in Region /\ u.start < u.end
           /\ ~(u.space = s /\ u.start < at /\ at < u.end)
           /\ \E r \in table : /\ u.space = r.space /\ r.start <= u.start /\ u.end <= r.end
                               /\ \/ u = r /\ r \notin Cut(table, s, at)
                                  \/ u = LeftOf(r, at) /\ r \in Cut(table, s, at)
                                  \/ u = RightOf(r, at) /\ r \in Cut(table, s, at)
<1>1. \A r \in table : r \in Region /\ r.start \in Int /\ r.end \in Int /\ r.start < r.end
  BY VmAssumption DEF InOrder, Region, Pages
<1>2. CASE u \in table \ Cut(table, s, at)
  BY <1>1, <1>2, SplitIs
<1>3. ASSUME NEW r \in Cut(table, s, at), u = LeftOf(r, at) \/ u = RightOf(r, at)
      PROVE  /\ u \in Region /\ u.start < u.end
             /\ ~(u.space = s /\ u.start < at /\ at < u.end)
             /\ u.space = r.space /\ r.start <= u.start /\ u.end <= r.end /\ r \in table
  <2>1. r \in table /\ r.start < at /\ at < r.end
    BY SplitIs
  <2>. QED  BY <1>1, <1>3, <2>1, Halves
<1>. QED  BY <1>2, <1>3, SplitIs

(* So a split keeps the table in order. *)
LEMMA SplitInOrder ==
    ASSUME NEW table, InOrder(table), NEW s, NEW at \in Int
    PROVE  InOrder(SplitAt(table, s, at))
<1>. DEFINE new == SplitAt(table, s, at)
            cut == Cut(table, s, at)
<1>1. \A r \in table : r \in Region /\ r.start \in Int /\ r.end \in Int /\ r.start < r.end
  BY VmAssumption DEF InOrder, Region, Pages
<1>2. IsFiniteSet(new)
  <2>1. IsFiniteSet(cut) /\ IsFiniteSet(table \ cut)
    BY SplitIs, FS_Subset DEF InOrder
  <2>. DEFINE lefts == [r \in cut |-> LeftOf(r, at)]
              rights == [r \in cut |-> RightOf(r, at)]
  <2>2. IsFiniteSet({lefts[r] : r \in cut}) /\ IsFiniteSet({rights[r] : r \in cut})
    BY <2>1, Image1
  <2>3. IsFiniteSet((table \ cut) \cup ({lefts[r] : r \in cut} \cup {rights[r] : r \in cut}))
    BY <2>1, <2>2, UnionSize
  <2>4. new \subseteq (table \ cut) \cup ({lefts[r] : r \in cut} \cup {rights[r] : r \in cut})
    BY SplitIs
  <2>. QED  BY <2>3, <2>4, FS_Subset
<1>3. ASSUME NEW u \in new
      PROVE  u \in Region /\ u.start < u.end /\ \A p \in HeapPages : ~Covers(u, p)
  <2>1. PICK r \in table : r.start <= u.start /\ u.end <= r.end
    BY Pieces
  <2>2. u \in Region /\ u.start < u.end
    BY Pieces
  <2>3. ASSUME NEW p \in HeapPages, Covers(u, p)
        PROVE  FALSE
    <3>1. p \in Int /\ u.start \in Int /\ u.end \in Int
      BY <2>2, VmAssumption DEF HeapPages, Region, Pages
    <3>2. Covers(r, p)
      BY <1>1, <2>1, <2>3, <3>1 DEF Covers
    <3>. QED  BY <3>2 DEF InOrder
  <2>. QED  BY <2>2, <2>3
<1>4. ASSUME NEW u \in new, NEW v \in new, u.space = v.space, u # v
      PROVE  u.end <= v.start \/ v.end <= u.start
  <2>1. PICK r \in table : /\ u.space = r.space /\ r.start <= u.start /\ u.end <= r.end
                           /\ \/ u = r /\ r \notin cut
                              \/ u = LeftOf(r, at) /\ r \in cut
                              \/ u = RightOf(r, at) /\ r \in cut
    BY Pieces
  <2>2. PICK q \in table : /\ v.space = q.space /\ q.start <= v.start /\ v.end <= q.end
                           /\ \/ v = q /\ q \notin cut
                              \/ v = LeftOf(q, at) /\ q \in cut
                              \/ v = RightOf(q, at) /\ q \in cut
    BY Pieces
  <2>3. /\ u.start \in Int /\ u.end \in Int /\ v.start \in Int /\ v.end \in Int
        /\ u.start < u.end /\ v.start < v.end
    <3>1. u \in Region /\ v \in Region /\ u.start < u.end /\ v.start < v.end
      BY Pieces
    <3>. QED  BY <3>1, VmAssumption DEF Region, Pages
  <2>4. CASE r # q
    <3>1. r.end <= q.start \/ q.end <= r.start
      BY <1>4, <2>1, <2>2, <2>4 DEF InOrder, Apart
    <3>. QED  BY <1>1, <2>1, <2>2, <2>3, <3>1
  <2>5. CASE r = q
    <3>1. r \in cut /\ r.start < at /\ at < r.end
      BY <1>4, <2>1, <2>2, <2>5, SplitIs
    <3>2. \/ u = LeftOf(r, at) /\ v = RightOf(r, at)
          \/ v = LeftOf(r, at) /\ u = RightOf(r, at)
      BY <1>4, <2>1, <2>2, <2>5, <3>1
    <3>. QED  BY <1>1, <3>1, <3>2, Halves
  <2>. QED  BY <2>4, <2>5
<1>. QED  BY <1>2, <1>3, <1>4 DEF InOrder, Apart

(* Where no region reached across before a split, none does after it. *)
LEMMA SplitKeepsUncut ==
    ASSUME NEW table, InOrder(table), NEW s, NEW at \in Int, NEW x \in Int,
           \A r \in table : ~(r.space = s /\ r.start < x /\ x < r.end)
    PROVE  \A u \in SplitAt(table, s, at) : ~(u.space = s /\ u.start < x /\ x < u.end)
<1>. SUFFICES ASSUME NEW u \in SplitAt(table, s, at), u.space = s, u.start < x, x < u.end
              PROVE  FALSE
  OBVIOUS
<1>1. PICK r \in table : u.space = r.space /\ r.start <= u.start /\ u.end <= r.end
  BY Pieces
<1>2. u \in Region /\ r \in Region
  BY Pieces DEF InOrder
<1>3. u.start \in Int /\ u.end \in Int /\ r.start \in Int /\ r.end \in Int
  BY <1>2, VmAssumption DEF Region, Pages
<1>. QED  BY <1>1, <1>3

(* Splitting at both ends of a range leaves no region across either. *)
LEMMA SplitTwice ==
    ASSUME InOrder(regions), NEW s, NEW a \in Int, NEW e \in Int
    PROVE  /\ InOrder(Split(s, a, e))
           /\ \A u \in Split(s, a, e) :
                 /\ ~(u.space = s /\ u.start < a /\ a < u.end)
                 /\ ~(u.space = s /\ u.start < e /\ e < u.end)
           /\ \A u \in Split(s, a, e) : \E r \in regions : u.space = r.space
<1>. DEFINE half == SplitAt(regions, s, a)
<1>1. InOrder(half) /\ \A u \in half : ~(u.space = s /\ u.start < a /\ a < u.end)
  BY SplitInOrder, Pieces
<1>2. InOrder(Split(s, a, e))
  BY <1>1, SplitInOrder DEF Split
<1>3. \A u \in Split(s, a, e) : ~(u.space = s /\ u.start < e /\ e < u.end)
  BY <1>1, Pieces DEF Split
<1>4. \A u \in Split(s, a, e) : ~(u.space = s /\ u.start < a /\ a < u.end)
  <2>. HIDE DEF half
  <2>. QED  BY <1>1, SplitKeepsUncut DEF Split, half
<1>5. \A u \in half : \E r \in regions : u.space = r.space
  BY Pieces
<1>6. \A u \in Split(s, a, e) : \E r \in half : u.space = r.space
  <2>. HIDE DEF half
  <2>. QED  BY <1>1, Pieces DEF Split, half
<1>. QED  BY <1>2, <1>3, <1>4, <1>5, <1>6

(* A split adds one region for each that it cuts. *)
LEMMA SplitSize ==
    ASSUME NEW table, IsFiniteSet(table), NEW s, NEW at
    PROVE  /\ IsFiniteSet(SplitAt(table, s, at)) /\ IsFiniteSet(Cut(table, s, at))
           /\ Cardinality(SplitAt(table, s, at)) <= Cardinality(table) + Cardinality(Cut(table, s, at))
<1>. DEFINE cut == Cut(table, s, at)
            lefts == {[u \in cut |-> LeftOf(u, at)][r] : r \in cut}
            rights == {[u \in cut |-> RightOf(u, at)][r] : r \in cut}
            parts == (table \ cut) \cup (lefts \cup rights)
<1>1. cut \subseteq table /\ IsFiniteSet(cut) /\ IsFiniteSet(table \ cut)
  BY SplitIs, FS_Subset
<1>2. Cardinality(table \ cut) = Cardinality(table) - Cardinality(cut)
  <2>1. table \cap cut = cut
    BY <1>1
  <2>2. Cardinality(table \ cut) = Cardinality(table) - Cardinality(table \cap cut)
    BY FS_Difference
  <2>. QED  BY <2>1, <2>2
<1>3. IsFiniteSet(lefts) /\ Cardinality(lefts) <= Cardinality(cut)
  BY <1>1, Image1
<1>4. IsFiniteSet(rights) /\ Cardinality(rights) <= Cardinality(cut)
  BY <1>1, Image1
<1>5. IsFiniteSet(lefts \cup rights) /\ Cardinality(lefts \cup rights) <= Cardinality(lefts) + Cardinality(rights)
  BY <1>3, <1>4, UnionSize
<1>6. IsFiniteSet(parts) /\ Cardinality(parts) <= Cardinality(table \ cut) + Cardinality(lefts \cup rights)
  BY <1>1, <1>5, UnionSize
<1>7. SplitAt(table, s, at) \subseteq parts
  BY SplitIs
<1>8. IsFiniteSet(SplitAt(table, s, at)) /\ Cardinality(SplitAt(table, s, at)) <= Cardinality(parts)
  BY <1>6, <1>7, FS_Subset
<1>9. /\ Cardinality(table) \in Nat /\ Cardinality(cut) \in Nat /\ Cardinality(table \ cut) \in Nat
      /\ Cardinality(lefts) \in Nat /\ Cardinality(rights) \in Nat
      /\ Cardinality(lefts \cup rights) \in Nat /\ Cardinality(parts) \in Nat
      /\ Cardinality(SplitAt(table, s, at)) \in Nat
  BY <1>1, <1>3, <1>4, <1>5, <1>6, <1>8, FS_CardinalityType
<1>. HIDE DEF cut, lefts, rights, parts
<1>. QED  BY <1>1, <1>2, <1>3, <1>4, <1>5, <1>6, <1>8, <1>9 DEF cut

(* A first split does not add to what a second, further up, will cut. *)
LEMMA SecondCut ==
    ASSUME InOrder(regions), NEW s, NEW a \in Int, NEW e \in Int, a < e
    PROVE  Cardinality(Cut(SplitAt(regions, s, a), s, e)) <= Cardinality(Cut(regions, s, e))
<1>. DEFINE cut == Cut(regions, s, e)
            piece == [r \in cut |-> IF r.start < a THEN RightOf(r, a) ELSE r]
            after == Cut(SplitAt(regions, s, a), s, e)
<1>1. IsFiniteSet(cut)
  BY SplitSize DEF InOrder
<1>2. ASSUME NEW u \in after
      PROVE  \E r \in cut : piece[r] = u
  <2>1. u \in SplitAt(regions, s, a) /\ u.space = s /\ u.start < e /\ e < u.end
    BY SplitIs
  <2>2. PICK r \in regions : /\ u.space = r.space /\ r.start <= u.start /\ u.end <= r.end
                             /\ \/ u = r /\ r \notin Cut(regions, s, a)
                                \/ u = LeftOf(r, a) /\ r \in Cut(regions, s, a)
                                \/ u = RightOf(r, a) /\ r \in Cut(regions, s, a)
    BY <2>1, Pieces
  <2>3. u \in Region /\ r \in Region
    BY <2>1, Pieces DEF InOrder
  <2>4. u.start \in Int /\ u.end \in Int /\ r.start \in Int /\ r.end \in Int
    BY <2>3, VmAssumption DEF Region, Pages
  <2>5. r \in cut
    BY <2>1, <2>2, <2>4, SplitIs
  <2>6. CASE u = r /\ r \notin Cut(regions, s, a)
    <3>1. ~(r.start < a)
      BY <2>1, <2>4, <2>6, SplitIs
    <3>. QED  BY <2>5, <2>6, <3>1
  <2>7. CASE u = LeftOf(r, a) /\ r \in Cut(regions, s, a)
    <3>1. r.start < a /\ a < r.end
      BY <2>7, SplitIs
    <3>2. u.end = a
      BY <2>3, <2>7, <3>1, Halves
    <3>. QED  BY <2>1, <3>2
  <2>8. CASE u = RightOf(r, a) /\ r \in Cut(regions, s, a)
    <3>1. r.start < a
      BY <2>8, SplitIs
    <3>. QED  BY <2>5, <2>8, <3>1
  <2>. QED  BY <2>2, <2>6, <2>7, <2>8
<1>. HIDE DEF after, cut
<1>3. DOMAIN piece = cut /\ piece = [r \in cut |-> piece[r]]
  OBVIOUS
<1>. HIDE DEF piece
<1>4. Cardinality(after) <= Cardinality(cut)
  BY <1>1, <1>2, <1>3, Image1
<1>. QED  BY <1>4 DEF after, cut

(* So the room a caller makes sure of is enough for both splits. *)
LEMMA SplitsFit ==
    ASSUME InOrder(regions), NEW s, NEW a \in Int, NEW e \in Int, a < e, NEW n \in Nat,
           HasRoom(Splits(s, a, e) + n)
    PROVE  /\ IsFiniteSet(Split(s, a, e)) /\ Cardinality(Split(s, a, e)) \in Nat
           /\ Cardinality(Split(s, a, e)) + n <= Capacity
<1>. DEFINE half == SplitAt(regions, s, a)
<1>1. /\ IsFiniteSet(half) /\ IsFiniteSet(Cut(regions, s, a))
      /\ Cardinality(half) <= Cardinality(regions) + Cardinality(Cut(regions, s, a))
  BY SplitSize DEF InOrder
<1>2. Cardinality(Cut(half, s, e)) <= Cardinality(Cut(regions, s, e))
  BY SecondCut
<1>. HIDE DEF half
<1>3. /\ IsFiniteSet(SplitAt(half, s, e)) /\ IsFiniteSet(Cut(half, s, e))
      /\ Cardinality(SplitAt(half, s, e)) <= Cardinality(half) + Cardinality(Cut(half, s, e))
  BY <1>1, SplitSize
<1>4. IsFiniteSet(Cut(regions, s, e))
  BY SplitSize DEF InOrder
<1>5. /\ Cardinality(regions) \in Nat /\ Cardinality(half) \in Nat
      /\ Cardinality(Cut(regions, s, a)) \in Nat /\ Cardinality(Cut(regions, s, e)) \in Nat
      /\ Cardinality(Cut(half, s, e)) \in Nat /\ Cardinality(SplitAt(half, s, e)) \in Nat
  BY <1>1, <1>3, <1>4, FS_CardinalityType DEF InOrder
<1>6. Split(s, a, e) = SplitAt(half, s, e)
  BY DEF Split, half
<1>7. Capacity \in Nat
  BY VmAssumption
<1>. QED  BY <1>1, <1>2, <1>3, <1>5, <1>6, <1>7 DEF HasRoom, Splits

-----------------------------------------------------------------------------
(* What the calls that map and unmap do to the table.                      *)

(* A mapping that is not fixed goes after every region of its space. *)
LEMMA TopIsAfter ==
    ASSUME InOrder(regions), NEW s
    PROVE  /\ TopOf(s) \in Nat /\ TopOf(s) >= MmapBase
           /\ \A r \in regions : r.space = s => r.end <= TopOf(s)
<1>. DEFINE ends == {MmapBase} \cup {r.end : r \in Of(regions, s)}
<1>1. \A r \in regions : r.end \in Nat /\ r.end <= UserEnd
  BY VmAssumption DEF InOrder, Region
<1>2. ends \in SUBSET Nat /\ ends # {} /\ \A x \in ends : x <= UserEnd
  BY <1>1, VmAssumption DEF Of
<1>3. UserEnd \in Nat
  BY VmAssumption
<1>4. \A r \in regions : r.space = s => r.end \in ends
  BY DEF Of
<1>5. MmapBase \in ends
  OBVIOUS
<1>6. TopOf(s) = Max(ends)
  BY DEF TopOf
<1>. HIDE DEF ends
<1>7. Max(ends) \in ends /\ \A x \in ends : x <= Max(ends)
  BY <1>2, <1>3, Greatest
<1>. QED  BY <1>2, <1>4, <1>5, <1>6, <1>7

(* What is mapped is a region of its own. *)
LEMMA NewRegionIs ==
    ASSUME NEW s \in Spaces, NEW a \in Pages, NEW e \in 1 .. UserEnd, NEW q \in Requests
    PROVE  /\ NewRegion(s, a, e, q) \in Region
           /\ NewRegion(s, a, e, q).space = s
           /\ NewRegion(s, a, e, q).start = a /\ NewRegion(s, a, e, q).end = e
BY VmAssumption DEF NewRegion, Region

(* A region apart from the others may join them. *)
LEMMA AddInOrder ==
    ASSUME NEW table, InOrder(table), NEW r \in Region, r.start < r.end,
           \A p \in HeapPages : ~Covers(r, p),
           \A u \in table : u.space = r.space => u.end <= r.start \/ r.end <= u.start
    PROVE  InOrder(table \cup {r})
<1>1. IsFiniteSet(table \cup {r})
  BY FS_AddElement DEF InOrder
<1>. QED  BY <1>1 DEF InOrder, Apart

(* Fewer regions are in order, too. *)
LEMMA FewerInOrder ==
    ASSUME NEW table, InOrder(table), NEW fewer \in SUBSET table
    PROVE  InOrder(fewer)
<1>1. IsFiniteSet(fewer)
  BY FS_Subset DEF InOrder
<1>. QED  BY <1>1 DEF InOrder, Apart

(* Whose regions the table has, and that it has had room. *)
TableOK(s) ==
    /\ InOrder(regions') /\ panic' = panic
    /\ \A r \in regions' : r.space = s \/ \E o \in regions : o.space = r.space

(* Map keeps the table. *)
LEMMA MapTable ==
    ASSUME InOrder(regions), NEW s \in Spaces, NEW n \in 1 .. UserEnd, NEW q \in Requests,
           Map(s, n, q)
    PROVE  TableOK(s)
<1>. DEFINE a == TopOf(s)
            new == NewRegion(s, a, a + n, q)
<1>1. /\ a + n <= UserEnd /\ HasRoom(1)
      /\ Become(regions, regions \cup {new})
  BY DEF Map
<1>2. /\ a \in Nat /\ a >= MmapBase
      /\ \A r \in regions : r.space = s => r.end <= a
  BY TopIsAfter
<1>3. a \in Pages /\ a + n \in 1 .. UserEnd /\ a < a + n
  BY <1>1, <1>2, VmAssumption DEF Pages
<1>. HIDE DEF a
<1>4. new \in Region /\ new.space = s /\ new.start = a /\ new.end = a + n
  BY <1>3, NewRegionIs
<1>. HIDE DEF new
<1>5. \A p \in HeapPages : ~Covers(new, p)
  BY <1>2, <1>3, <1>4, VmAssumption DEF HeapPages, Covers
<1>6. InOrder(regions \cup {new})
  BY <1>2, <1>3, <1>4, <1>5, AddInOrder
<1>7. /\ Cardinality(regions) \in Nat /\ Capacity \in Nat
      /\ Cardinality(regions \cup {new}) \in Nat
      /\ Cardinality(regions \cup {new}) <= Cardinality(regions) + 1
  BY OneMore, VmAssumption DEF InOrder
<1>8. ~Overflows(regions) /\ ~Overflows(regions \cup {new})
  BY <1>1, <1>7 DEF HasRoom, Overflows
<1>. QED  BY <1>1, <1>4, <1>6, <1>8 DEF Become, TableOK

(* Without the regions inside a range that has been split at both ends,    *)
(* nothing of the space is in the range.                                   *)
LEMMA CarvedIs ==
    ASSUME InOrder(regions), NEW s, NEW a \in Int, NEW e \in Int, a < e
    PROVE  /\ InOrder(Carved(s, a, e)) /\ Carved(s, a, e) \subseteq Split(s, a, e)
           /\ \A u \in Carved(s, a, e) : u.space = s => u.end <= a \/ e <= u.start
           /\ \A u \in Carved(s, a, e) : \E r \in regions : u.space = r.space
<1>1. Carved(s, a, e) \subseteq Split(s, a, e)
  BY DEF Carved
<1>2. InOrder(Carved(s, a, e))
  BY <1>1, SplitTwice, FewerInOrder
<1>3. ASSUME NEW u \in Carved(s, a, e), u.space = s
      PROVE  u.end <= a \/ e <= u.start
  <2>1. /\ ~(u.start < a /\ a < u.end) /\ ~(u.start < e /\ e < u.end)
        /\ ~Within(u, a, e)
    BY <1>1, <1>3, SplitTwice DEF Carved
  <2>2. u.start \in Int /\ u.end \in Int /\ u.start < u.end
    BY <1>2, VmAssumption DEF InOrder, Region, Pages
  <2>. QED  BY <2>1, <2>2 DEF Within
<1>. QED  BY <1>1, <1>2, <1>3, SplitTwice

(* So does Unmap: what it cuts had been counted. *)
LEMMA UnmapTable ==
    ASSUME InOrder(regions), NEW s \in Spaces, NEW a \in Int, NEW e \in Int, Unmap(s, a, e)
    PROVE  TableOK(s)
<1>1. /\ a < e /\ HasRoom(Splits(s, a, e))
      /\ Become(Split(s, a, e), Carved(s, a, e))
  BY DEF Unmap
<1>2. Cardinality(Split(s, a, e)) \in Nat /\ Cardinality(Split(s, a, e)) <= Capacity
  <2>1. Splits(s, a, e) \in Int
    <3>1. IsFiniteSet(Cut(regions, s, a)) /\ IsFiniteSet(Cut(regions, s, e))
      BY SplitSize DEF InOrder
    <3>2. Cardinality(Cut(regions, s, a)) \in Nat /\ Cardinality(Cut(regions, s, e)) \in Nat
      BY <3>1, FS_CardinalityType
    <3>. QED  BY <3>2 DEF Splits
  <2>2. HasRoom(Splits(s, a, e) + 0)
    BY <1>1, <2>1
  <2>3. Cardinality(Split(s, a, e)) \in Nat /\ Cardinality(Split(s, a, e)) + 0 <= Capacity
    BY <1>1, <2>2, SplitsFit
  <2>. QED  BY <2>3, VmAssumption
<1>3. IsFiniteSet(Split(s, a, e))
  BY SplitTwice DEF InOrder
<1>4. /\ Cardinality(Carved(s, a, e)) \in Nat
      /\ Cardinality(Carved(s, a, e)) <= Cardinality(Split(s, a, e))
  BY <1>1, <1>3, CarvedIs, FS_Subset, FS_CardinalityType
<1>5. ~Overflows(Split(s, a, e)) /\ ~Overflows(Carved(s, a, e))
  BY <1>2, <1>4, VmAssumption DEF Overflows
<1>. QED  BY <1>1, <1>5, CarvedIs DEF Become, TableOK

(* So does MapFixed: the new region takes the place of what is carved out. *)
LEMMA MapFixedTable ==
    ASSUME InOrder(regions), NEW s \in Spaces, NEW a \in Pages, NEW e \in 1 .. UserEnd,
           NEW q \in Requests, MapFixed(s, a, e, q)
    PROVE  TableOK(s)
<1>. DEFINE new == NewRegion(s, a, e, q)
<1>1. /\ a < e /\ a .. e - 1 \subseteq FixedPages /\ HasRoom(Splits(s, a, e) + 1)
      /\ Become(Split(s, a, e), Carved(s, a, e) \cup {new})
  BY DEF MapFixed
<1>2. a \in Int /\ e \in Int
  BY DEF Pages
<1>3. new \in Region /\ new.space = s /\ new.start = a /\ new.end = e
  BY NewRegionIs
<1>. HIDE DEF new
<1>4. \A p \in HeapPages : ~Covers(new, p)
  <2>1. ASSUME NEW p \in HeapPages, Covers(new, p)
        PROVE  FALSE
    <3>1. p \in Int /\ p \in a .. e - 1
      BY <1>2, <1>3, <2>1, VmAssumption DEF HeapPages, Covers
    <3>. QED  BY <1>1, <3>1, VmAssumption
  <2>. QED  BY <2>1
<1>5. InOrder(Carved(s, a, e) \cup {new})
  BY <1>1, <1>2, <1>3, <1>4, CarvedIs, AddInOrder
<1>6. Cardinality(Split(s, a, e)) \in Nat /\ Cardinality(Split(s, a, e)) + 1 <= Capacity
  BY <1>1, <1>2, SplitsFit
<1>7. IsFiniteSet(Split(s, a, e)) /\ IsFiniteSet(Carved(s, a, e))
  BY <1>1, <1>2, CarvedIs, SplitTwice DEF InOrder
<1>8. /\ Cardinality(Carved(s, a, e)) \in Nat
      /\ Cardinality(Carved(s, a, e)) <= Cardinality(Split(s, a, e))
  BY <1>1, <1>2, <1>7, CarvedIs, FS_Subset, FS_CardinalityType
<1>9. /\ Cardinality(Carved(s, a, e) \cup {new}) <= Cardinality(Carved(s, a, e)) + 1
      /\ Cardinality(Carved(s, a, e) \cup {new}) \in Nat
  BY <1>7, OneMore
<1>10. ~Overflows(Split(s, a, e)) /\ ~Overflows(Carved(s, a, e) \cup {new})
  BY <1>6, <1>8, <1>9, VmAssumption DEF Overflows
<1>. QED  BY <1>1, <1>2, <1>3, <1>5, <1>10, CarvedIs DEF Become, TableOK

(* So does Protect: it splits as Unmap does, and changes only protections. *)
LEMMA ProtectTable ==
    ASSUME InOrder(regions), NEW s \in Spaces, NEW a \in Int, NEW e \in Int,
           NEW prot \in SUBSET {"r", "w"}, Protect(s, a, e, prot)
    PROVE  TableOK(s)
<1>. DEFINE old == Split(s, a, e)
            change == [r \in old |-> IF r.space = s /\ Within(r, a, e)
                                     THEN [r EXCEPT !.prot = prot] ELSE r]
            new == {change[r] : r \in old}
<1>1. a < e /\ HasRoom(Splits(s, a, e)) /\ Become(old, new)
  BY DEF Protect
<1>2. Cardinality(old) \in Nat /\ Cardinality(old) <= Capacity
  <2>1. Splits(s, a, e) \in Int
    <3>1. IsFiniteSet(Cut(regions, s, a)) /\ IsFiniteSet(Cut(regions, s, e))
      BY SplitSize DEF InOrder
    <3>2. Cardinality(Cut(regions, s, a)) \in Nat /\ Cardinality(Cut(regions, s, e)) \in Nat
      BY <3>1, FS_CardinalityType
    <3>. QED  BY <3>2 DEF Splits
  <2>2. HasRoom(Splits(s, a, e) + 0)
    BY <1>1, <2>1
  <2>3. Cardinality(old) \in Nat /\ Cardinality(old) + 0 <= Capacity
    BY <1>1, <2>2, SplitsFit
  <2>. QED  BY <2>3, VmAssumption
<1>3. InOrder(old) /\ IsFiniteSet(old) /\ \A u \in old : \E r \in regions : u.space = r.space
  BY SplitTwice DEF InOrder
<1>. HIDE DEF old
<1>4. IsFiniteSet(new) /\ Cardinality(new) <= Cardinality(old)
  BY <1>3, Image1
<1>5. \A r \in old : /\ change[r] \in Region /\ change[r].space = r.space
                     /\ change[r].start = r.start /\ change[r].end = r.end
  BY <1>3 DEF InOrder, Region
<1>6. \A u \in new : \E r \in old : /\ u = change[r] /\ u \in Region /\ u.space = r.space
                                    /\ u.start = r.start /\ u.end = r.end
  BY <1>5
<1>. HIDE DEF change, new
<1>7. InOrder(new)
  <2>1. ASSUME NEW u \in new
        PROVE  u \in Region /\ u.start < u.end /\ \A p \in HeapPages : ~Covers(u, p)
    BY <1>3, <1>6 DEF InOrder, Covers
  <2>2. ASSUME NEW u \in new, NEW v \in new, u.space = v.space, u # v
        PROVE  u.end <= v.start \/ v.end <= u.start
    BY <1>3, <1>6, <2>2 DEF InOrder, Apart
  <2>. QED  BY <1>4, <2>1, <2>2 DEF InOrder, Apart
<1>8. Cardinality(new) \in Nat
  BY <1>4, FS_CardinalityType
<1>9. ~Overflows(old) /\ ~Overflows(new)
  BY <1>2, <1>4, <1>8, VmAssumption DEF Overflows
<1>. QED  BY <1>1, <1>3, <1>6, <1>7, <1>9 DEF Become, TableOK

-----------------------------------------------------------------------------
(* Frames.                                                                 *)

(* The property that the run checks says the same as the invariant. *)
LEMMA ExactIs == FramesExact <=> FramesOK
<1>1. \A x : x \in Places <=> \E s \in Spaces : \E n \in DOMAIN nodes[s] : x = <<s, n>>
  BY DEF Places
<1>2. \A s, n : FrameAt(<<s, n>>) = nodes[s][n]
  BY DEF FrameAt
<1>3. \A s \in Spaces : \A n \in DOMAIN nodes[s] : <<s, n>> \in Places
  BY <1>1
<1>4. ASSUME FramesExact PROVE FramesOK
  <2>1. \A s \in Spaces : \A n \in DOMAIN nodes[s] : nodes[s][n] \in used \ orphans
    <3>1. ASSUME NEW s \in Spaces, NEW n \in DOMAIN nodes[s]
          PROVE  nodes[s][n] \in used \ orphans
      <4>1. <<s, n>> \in Places /\ FrameAt(<<s, n>>) = nodes[s][n]
        BY <1>2, <1>3
      <4>. QED  BY <1>4, <4>1 DEF FramesExact
    <3>. QED  BY <3>1
  <2>2. \A f \in used \ orphans : \E s \in Spaces : \E n \in DOMAIN nodes[s] : nodes[s][n] = f
    <3>1. ASSUME NEW f \in used \ orphans
          PROVE  \E s \in Spaces : \E n \in DOMAIN nodes[s] : nodes[s][n] = f
      <4>1. PICK x \in Places : FrameAt(x) = f
        BY <1>4 DEF FramesExact
      <4>2. PICK s \in Spaces : \E n \in DOMAIN nodes[s] : x = <<s, n>>
        BY <1>1, <4>1
      <4>3. PICK n \in DOMAIN nodes[s] : x = <<s, n>>
        BY <4>2
      <4>4. nodes[s][n] = f
        BY <1>2, <4>1, <4>3
      <4>. QED  BY <4>4
    <3>. QED  BY <3>1
  <2>3. ASSUME NEW s \in Spaces, NEW t \in Spaces, NEW n \in DOMAIN nodes[s], NEW m \in DOMAIN nodes[t],
               nodes[s][n] = nodes[t][m]
        PROVE  s = t /\ n = m
    <3>1. <<s, n>> \in Places /\ <<t, m>> \in Places /\ FrameAt(<<s, n>>) = FrameAt(<<t, m>>)
      BY <1>2, <1>3, <2>3
    <3>2. <<s, n>> = <<t, m>>
      BY <1>4, <3>1 DEF FramesExact
    <3>. QED  BY <3>2
  <2>. QED  BY <1>4, <2>1, <2>2, <2>3 DEF FramesOK, FramesExact
<1>5. ASSUME FramesOK PROVE FramesExact
  <2>1. ASSUME NEW x \in Places
        PROVE  FrameAt(x) \in used \ orphans
    <3>1. PICK s \in Spaces : \E n \in DOMAIN nodes[s] : x = <<s, n>>
      BY <1>1, <2>1
    <3>2. PICK n \in DOMAIN nodes[s] : x = <<s, n>>
      BY <3>1
    <3>. QED  BY <1>2, <1>5, <3>2 DEF FramesOK
  <2>2. ASSUME NEW f \in used \ orphans
        PROVE  \E x \in Places : FrameAt(x) = f
    <3>1. PICK s \in Spaces : \E n \in DOMAIN nodes[s] : nodes[s][n] = f
      BY <1>5 DEF FramesOK
    <3>2. PICK n \in DOMAIN nodes[s] : nodes[s][n] = f
      BY <3>1
    <3>3. <<s, n>> \in Places /\ FrameAt(<<s, n>>) = f
      BY <1>2, <1>3, <3>2
    <3>. QED  BY <3>3
  <2>3. ASSUME NEW x \in Places, NEW y \in Places, FrameAt(x) = FrameAt(y)
        PROVE  x = y
    <3>1. PICK s \in Spaces, t \in Spaces :
             (\E n \in DOMAIN nodes[s] : x = <<s, n>>) /\ (\E n \in DOMAIN nodes[t] : y = <<t, n>>)
      BY <1>1, <2>3
    <3>2. PICK n \in DOMAIN nodes[s], m \in DOMAIN nodes[t] : x = <<s, n>> /\ y = <<t, m>>
      BY <3>1
    <3>3. nodes[s][n] = nodes[t][m]
      BY <1>2, <2>3, <3>2
    <3>4. s = t /\ n = m
      BY <1>5, <3>3 DEF FramesOK
    <3>. QED  BY <3>2, <3>4
  <2>4. orphans \subseteq used
    BY <1>5 DEF FramesOK
  <2>. QED  BY <2>1, <2>2, <2>3, <2>4 DEF FramesExact
<1>. QED  BY <1>4, <1>5

(* The same of the state a step leads to. *)
LEMMA ExactIsNext == (FramesExact <=> FramesOK)'
BY ExactIs, PTL

(* As long as there are free frames enough, each node gets one of its own. *)
LEMMA AllocatedIs ==
    ASSUME NEW N, IsFiniteSet(N), Cardinality(N) <= Free
    PROVE  Allocated(N) \in [N -> Frames \ used] /\ IsInjective(Allocated(N))
<1>. DEFINE F == Frames \ used
            k == Cardinality(N)
            m == Cardinality(F)
<1>1. IsFiniteSet(F)
  BY VmAssumption, FS_Difference
<1>2. k \in Nat /\ m \in Nat /\ ExistsBijection(1 .. k, N) /\ ExistsBijection(1 .. m, F)
  BY <1>1, FS_CardinalityType
<1>3. k <= m
  BY DEF Free
<1>. HIDE DEF k, m, F
<1>4. PICK b \in Bijection(1 .. k, N) : TRUE
  BY <1>2 DEF ExistsBijection
<1>5. PICK c \in Bijection(1 .. m, F) : TRUE
  BY <1>2 DEF ExistsBijection
<1>6. b \in [1 .. k -> N] /\ (\A i, j \in 1 .. k : b[i] = b[j] => i = j) /\ (\A x \in N : \E i \in 1 .. k : b[i] = x)
  BY <1>4 DEF Bijection, Injection, Surjection, IsInjective
<1>7. c \in [1 .. m -> F] /\ (\A i, j \in 1 .. m : c[i] = c[j] => i = j)
  BY <1>5 DEF Bijection, Injection, IsInjective
<1>. DEFINE at == [x \in N |-> CHOOSE i \in 1 .. k : b[i] = x]
            g == [x \in N |-> c[at[x]]]
<1>8. \A x \in N : at[x] \in 1 .. k /\ b[at[x]] = x
  BY <1>6
<1>9. 1 .. k \subseteq 1 .. m
  BY <1>2, <1>3
<1>. HIDE DEF at
<1>10. g \in [N -> F]
  BY <1>7, <1>8, <1>9
<1>11. IsInjective(g)
  BY <1>7, <1>8, <1>9 DEF IsInjective
<1>. HIDE DEF g
<1>12. \E f \in [N -> F] : IsInjective(f)
  BY <1>10, <1>11
<1>. QED  BY <1>12, Zenon DEF Allocated, F

(* Giving frames to nodes that are not there yet keeps frames exact. *)
LEMMA InstallFrames ==
    ASSUME FramesOK, used \subseteq Frames, DOMAIN nodes = Spaces, NEW s \in Spaces,
           NEW N, IsFiniteSet(N), Cardinality(N) <= Free, N \cap DOMAIN nodes[s] = {},
           Install(s, N), orphans' = orphans
    PROVE  /\ FramesOK' /\ used' \subseteq Frames /\ used \subseteq used'
           /\ DOMAIN nodes' = Spaces
           /\ DOMAIN nodes'[s] = N \cup DOMAIN nodes[s]
           /\ \A t \in Spaces : t # s => nodes'[t] = nodes[t]
<1>. DEFINE A == Allocated(N)
<1>1. /\ DOMAIN A = N /\ (\A n \in N : A[n] \in Frames /\ A[n] \notin used)
      /\ (\A n, m \in N : A[n] = A[m] => n = m)
  BY AllocatedIs DEF IsInjective
<1>2. nodes' = [nodes EXCEPT ![s] = Over(A, nodes[s])] /\ used' = used \cup Range(A)
  BY DEF Install
<1>. HIDE DEF A
<1>3. \A f : f \in Range(A) <=> \E n \in N : f = A[n]
  BY <1>1 DEF Range
<1>4. /\ DOMAIN nodes' = Spaces
      /\ \A t \in Spaces : t # s => nodes'[t] = nodes[t]
      /\ DOMAIN nodes'[s] = N \cup DOMAIN nodes[s]
      /\ \A n \in N : nodes'[s][n] = A[n]
      /\ \A n \in DOMAIN nodes[s] : nodes'[s][n] = nodes[s][n]
  BY <1>1, <1>2 DEF Over
<1>5. used' \subseteq Frames /\ used \subseteq used'
  BY <1>1, <1>2, <1>3
<1>6. orphans' \subseteq used'
  BY <1>5 DEF FramesOK
<1>7. ASSUME NEW t \in Spaces, NEW n \in DOMAIN nodes'[t]
      PROVE  nodes'[t][n] \in used' \ orphans'
  <2>1. CASE t = s /\ n \in N
    BY <1>1, <1>2, <1>3, <1>4, <2>1 DEF FramesOK
  <2>2. CASE ~(t = s /\ n \in N)
    <3>1. n \in DOMAIN nodes[t] /\ nodes'[t][n] = nodes[t][n]
      BY <1>4, <1>7, <2>2
    <3>. QED  BY <1>5, <3>1 DEF FramesOK
  <2>. QED  BY <2>1, <2>2
<1>8. ASSUME NEW f \in used' \ orphans'
      PROVE  \E t \in Spaces : \E n \in DOMAIN nodes'[t] : nodes'[t][n] = f
  <2>1. CASE f \in Range(A)
    BY <1>3, <1>4, <2>1
  <2>2. CASE f \in used \ orphans
    <3>1. PICK t \in Spaces : \E n \in DOMAIN nodes[t] : nodes[t][n] = f
      BY <2>2 DEF FramesOK
    <3>2. PICK n \in DOMAIN nodes[t] : nodes[t][n] = f
      BY <3>1
    <3>3. n \in DOMAIN nodes'[t] /\ nodes'[t][n] = f
      BY <1>4, <3>2
    <3>. QED  BY <3>3
  <2>. QED  BY <1>2, <1>8, <2>1, <2>2
<1>9. ASSUME NEW t \in Spaces, NEW u \in Spaces, NEW n \in DOMAIN nodes'[t], NEW m \in DOMAIN nodes'[u],
             nodes'[t][n] = nodes'[u][m]
      PROVE  t = u /\ n = m
  <2>1. (t = s /\ n \in N) \/ (n \in DOMAIN nodes[t] /\ nodes'[t][n] = nodes[t][n] /\ nodes[t][n] \in used)
    BY <1>4, <1>9 DEF FramesOK
  <2>2. (u = s /\ m \in N) \/ (m \in DOMAIN nodes[u] /\ nodes'[u][m] = nodes[u][m] /\ nodes[u][m] \in used)
    BY <1>4, <1>9 DEF FramesOK
  <2>. QED  BY <1>1, <1>4, <1>9, <2>1, <2>2 DEF FramesOK
<1>10. FramesOK'
  BY <1>6, <1>7, <1>8, <1>9 DEF FramesOK
<1>. QED  BY <1>4, <1>5, <1>10

(* Taking nodes away with their frames does, too. *)
LEMMA RemovalFrames ==
    ASSUME FramesOK, DOMAIN nodes = Spaces, NEW s \in Spaces,
           NEW N, N \subseteq DOMAIN nodes[s],
           DOMAIN nodes' = Spaces, \A t \in Spaces : t # s => nodes'[t] = nodes[t],
           DOMAIN nodes'[s] = DOMAIN nodes[s] \ N,
           \A n \in DOMAIN nodes'[s] : nodes'[s][n] = nodes[s][n],
           used' = used \ {nodes[s][n] : n \in N}, orphans' = orphans
    PROVE  FramesOK'
<1>1. \A t \in Spaces : \A n \in DOMAIN nodes'[t] :
         n \in DOMAIN nodes[t] /\ nodes'[t][n] = nodes[t][n] /\ ~(t = s /\ n \in N)
  OBVIOUS
<1>2. orphans' \subseteq used'
  BY DEF FramesOK
<1>3. ASSUME NEW t \in Spaces, NEW n \in DOMAIN nodes'[t]
      PROVE  nodes'[t][n] \in used' \ orphans'
  <2>1. nodes[t][n] \in used \ orphans
    BY <1>1 DEF FramesOK
  <2>2. nodes[t][n] \notin {nodes[s][m] : m \in N}
    BY <1>1 DEF FramesOK
  <2>. QED  BY <1>1, <2>1, <2>2
<1>4. ASSUME NEW f \in used' \ orphans'
      PROVE  \E t \in Spaces : \E n \in DOMAIN nodes'[t] : nodes'[t][n] = f
  <2>1. f \in used \ orphans /\ f \notin {nodes[s][m] : m \in N}
    BY <1>4
  <2>2. PICK t \in Spaces : \E n \in DOMAIN nodes[t] : nodes[t][n] = f
    BY <2>1 DEF FramesOK
  <2>3. PICK n \in DOMAIN nodes[t] : nodes[t][n] = f
    BY <2>2
  <2>4. n \in DOMAIN nodes'[t] /\ nodes'[t][n] = f
    BY <2>1, <2>3
  <2>. QED  BY <2>4
<1>5. ASSUME NEW t \in Spaces, NEW u \in Spaces, NEW n \in DOMAIN nodes'[t], NEW m \in DOMAIN nodes'[u],
             nodes'[t][n] = nodes'[u][m]
      PROVE  t = u /\ n = m
  BY <1>1, <1>5 DEF FramesOK
<1>. QED  BY <1>2, <1>3, <1>4, <1>5 DEF FramesOK

(* Division with remainder. *)
LEMMA DivIs ==
    ASSUME NEW p \in Nat, NEW d \in Nat, d > 0
    PROVE  p \div d \in Int /\ p % d \in 0 .. d - 1 /\ p = d * (p \div d) + (p % d)
OBVIOUS

(* The nodes that pages need are finitely many; a page's own is among them *)
(* exactly if it is one of the pages, and so is the PML4 or it is there.   *)
LEMMA NeededIs ==
    ASSUME NEW s, NEW P \in SUBSET Nat, IsFiniteSet(P)
    PROVE  /\ IsFiniteSet(Needed(s, P))
           /\ \A p : <<0, p>> \in Needed(s, P) <=> p \in P
           /\ (\A p \in P : ~Resident(s, p)) => Needed(s, P) \cap DOMAIN nodes[s] = {}
           /\ IF P = {} THEN Needed(s, P) = {}
              ELSE P \subseteq Pages => Live(s) \/ <<Root, 0>> \in Needed(s, P)
<1>1. /\ Root \in Nat /\ Root # 0 /\ \A l \in 0 .. Root : Span[l] \in Nat /\ Span[l] > 0
      /\ Span[0] = 1 /\ Span[Root] >= UserEnd /\ UserEnd \in Nat
  BY VmAssumption
<1>. DEFINE leaves == {<<0, p>> : p \in P}
            walks == {Walk(p) : p \in P}
<1>2. Needed(s, P) = leaves \cup ((UNION walks) \ DOMAIN nodes[s])
  BY DEF Needed
<1>3. IsFiniteSet(Needed(s, P))
  <2>1. IsFiniteSet(leaves)
    <3>. DEFINE f == [p \in P |-> <<0, p>>]
    <3>1. \A y \in leaves : \E p \in P : f[p] = y
      OBVIOUS
    <3>2. DOMAIN f = P /\ f = [p \in P |-> f[p]]
      OBVIOUS
    <3>. HIDE DEF f, leaves
    <3>. QED  BY <3>1, <3>2, Image1
  <2>2. IsFiniteSet(walks)
    <3>. DEFINE f == [p \in P |-> Walk(p)]
    <3>1. \A y \in walks : \E p \in P : f[p] = y
      OBVIOUS
    <3>2. DOMAIN f = P /\ f = [p \in P |-> f[p]]
      OBVIOUS
    <3>. HIDE DEF f, walks
    <3>. QED  BY <3>1, <3>2, Image1
  <2>3. ASSUME NEW W \in walks
        PROVE  IsFiniteSet(W)
    <3>1. PICK p \in P : W = Walk(p)
      OBVIOUS
    <3>. DEFINE levels == 0 .. Root
                f == [l \in levels |-> <<l, p \div Span[l]>>]
    <3>2. \A y \in W : \E l \in levels : f[l] = y
      BY <3>1 DEF Walk
    <3>3. DOMAIN f = levels /\ f = [l \in levels |-> f[l]]
      OBVIOUS
    <3>4. IsFiniteSet(levels)
      BY <1>1, FS_Interval
    <3>. HIDE DEF f, levels, walks
    <3>. QED  BY <3>2, <3>3, <3>4, Image1
  <2>. HIDE DEF leaves, walks
  <2>4. IsFiniteSet(UNION walks)
    BY <2>2, <2>3, FS_UNION
  <2>5. IsFiniteSet((UNION walks) \ DOMAIN nodes[s])
    BY <2>4, FS_Difference
  <2>. QED  BY <1>2, <2>1, <2>5, UnionSize
<1>4. \A p : <<0, p>> \in Needed(s, P) <=> p \in P
  <2>1. ASSUME NEW p, <<0, p>> \in UNION walks
        PROVE  p \in P
    <3>1. PICK q \in P : <<0, p>> \in Walk(q)
      BY <2>1
    <3>2. PICK l \in 0 .. Root : <<0, p>> = <<l, q \div Span[l]>>
      BY <3>1 DEF Walk
    <3>3. l = 0 /\ p = q \div Span[l]
      BY <3>2
    <3>4. p = q \div 1
      BY <1>1, <3>3
    <3>5. q \div 1 = q
      OBVIOUS
    <3>. QED  BY <3>4, <3>5
  <2>2. \A p : <<0, p>> \in leaves <=> p \in P
    OBVIOUS
  <2>. HIDE DEF leaves, walks
  <2>. QED  BY <1>2, <2>1, <2>2
<1>5. ASSUME \A p \in P : ~Resident(s, p)
      PROVE  Needed(s, P) \cap DOMAIN nodes[s] = {}
  BY <1>2, <1>5 DEF Resident
<1>6. ASSUME P # {}, P \subseteq Pages
      PROVE  Live(s) \/ <<Root, 0>> \in Needed(s, P)
  <2>1. PICK p \in P : TRUE
    BY <1>6
  <2>2. p \in Nat /\ p < Span[Root]
    BY <1>1, <1>6 DEF Pages
  <2>3. p \div Span[Root] = 0
    <3>. DEFINE d == Span[Root]
                n == p \div d
    <3>1. d \in Nat /\ d > 0 /\ p < d
      BY <1>1, <2>2
    <3>2. n \in Int /\ p % d \in 0 .. d - 1 /\ p = d * n + (p % d)
      BY <3>1, <2>2, DivIs
    <3>. HIDE DEF n, d
    <3>3. CASE n >= 1
      <4>1. d * n >= d
        BY <3>1, <3>2, <3>3
      <4>. QED  BY <2>2, <3>1, <3>2, <4>1
    <3>4. CASE n <= -1
      <4>1. d * n <= -d
        BY <3>1, <3>2, <3>4
      <4>. QED  BY <2>2, <3>1, <3>2, <4>1
    <3>. QED  BY <3>2, <3>3, <3>4 DEF n, d
  <2>4. <<Root, 0>> \in Walk(p)
    BY <1>1, <2>3 DEF Walk
  <2>. QED  BY <1>2, <2>4 DEF Live
<1>7. ASSUME P = {} PROVE Needed(s, P) = {}
  BY <1>7 DEF Needed
<1>. QED  BY <1>3, <1>4, <1>5, <1>6, <1>7

-----------------------------------------------------------------------------
(* What the operations do to the page tables.                              *)

(* Mapping pages that are not resident. *)
LEMMA InstallPages ==
    ASSUME IInv, NEW s \in Spaces, NEW P \in SUBSET Pages, IsFiniteSet(P),
           \A p \in P : ~Resident(s, p),
           Cardinality(Needed(s, P)) <= Free, Install(s, Needed(s, P)), orphans' = orphans,
           DOMAIN ptes' = Spaces, \A t \in Spaces : t # s => ptes'[t] = ptes[t],
           \A p : p \in DOMAIN ptes'[s] <=> p \in P \/ p \in DOMAIN ptes[s],
           \A p \in P : Entry(ptes'[s][p]),
           \A p \in DOMAIN ptes[s] \ P : ptes'[s][p] = ptes[s][p]
    PROVE  /\ FramesOK' /\ used' \subseteq Frames /\ PagesOK'
           /\ \A t \in Spaces : Live(t) => Live(t)'
           /\ \A t \in Spaces, p \in Pages :
                 Resident(t, p)' => Resident(t, p) \/ (t = s /\ p \in P)
<1>. DEFINE N == Needed(s, P)
<1>1. P \in SUBSET Nat
  BY DEF Pages
<1>2. /\ IsFiniteSet(N) /\ (\A p : <<0, p>> \in N <=> p \in P) /\ N \cap DOMAIN nodes[s] = {}
      /\ (P = {} => N = {}) /\ (P # {} => Live(s) \/ <<Root, 0>> \in N)
  BY <1>1, NeededIs
<1>3. FramesOK /\ used \subseteq Frames /\ PagesOK /\ DOMAIN nodes = Spaces
  BY DEF IInv, PagesOK
<1>. HIDE DEF N
<1>4. /\ FramesOK' /\ used' \subseteq Frames /\ DOMAIN nodes' = Spaces
      /\ DOMAIN nodes'[s] = N \cup DOMAIN nodes[s]
      /\ \A t \in Spaces : t # s => nodes'[t] = nodes[t]
  BY <1>2, <1>3, InstallFrames DEF N
<1>5. \A t \in Spaces : \A p : Resident(t, p)' <=> Resident(t, p) \/ (t = s /\ p \in P)
  BY <1>2, <1>4 DEF Resident
<1>6. \A t \in Spaces : Live(t) => Live(t)'
  BY <1>4 DEF Live
<1>7. PagesOK'
  <2>1. ASSUME NEW t \in Spaces
        PROVE  /\ ~Live(t)' => DOMAIN nodes'[t] = {}
               /\ \A p : p \in DOMAIN ptes'[t] <=> p \in Pages /\ Resident(t, p)'
               /\ \A p \in DOMAIN ptes'[t] : Entry(ptes'[t][p])
    <3>1. CASE t # s
      BY <1>3, <1>4, <1>5, <1>6, <3>1 DEF PagesOK
    <3>2. CASE t = s
      <4>1. ~Live(s)' => DOMAIN nodes'[s] = {}
        BY <1>2, <1>3, <1>4, <1>6 DEF PagesOK, Live
      <4>2. \A p : p \in DOMAIN ptes'[s] <=> p \in Pages /\ Resident(s, p)'
        BY <1>3, <1>5 DEF PagesOK
      <4>3. \A p \in DOMAIN ptes'[s] : Entry(ptes'[s][p])
        <5>1. \A p \in DOMAIN ptes[s] : Entry(ptes[s][p])
          BY <1>3 DEF PagesOK
        <5>2. ASSUME NEW p \in DOMAIN ptes'[s], p \notin P PROVE Entry(ptes'[s][p])
          <6>1. p \in DOMAIN ptes[s] \ P /\ ptes'[s][p] = ptes[s][p]
            BY <5>2
          <6>. QED  BY <5>1, <6>1
        <5>. QED  BY <5>2
      <4>. QED  BY <3>2, <4>1, <4>2, <4>3
    <3>. QED  BY <3>1, <3>2
  <2>. QED  BY <1>4, <2>1 DEF PagesOK
<1>. QED  BY <1>4, <1>5, <1>6, <1>7

(* Unmapping pages: their tables stay. *)
LEMMA RemovePages ==
    ASSUME IInv, NEW s \in Spaces, NEW P \in SUBSET Pages, FreePages(s, P), orphans' = orphans
    PROVE  /\ FramesOK' /\ used' \subseteq Frames /\ PagesOK'
           /\ \A t \in Spaces : Live(t) => Live(t)'
           /\ \A t \in Spaces, p \in Pages : Resident(t, p)' => Resident(t, p)
<1>. DEFINE N == Leaves(s, P)
<1>1. FramesOK /\ used \subseteq Frames /\ PagesOK /\ DOMAIN nodes = Spaces /\ DOMAIN ptes = Spaces
  BY DEF IInv, PagesOK
<1>2. /\ nodes' = [nodes EXCEPT ![s] = Restrict(nodes[s], DOMAIN nodes[s] \ N)]
      /\ ptes' = [ptes EXCEPT ![s] = Restrict(ptes[s], DOMAIN ptes[s] \ P)]
      /\ used' = used \ {nodes[s][n] : n \in N}
  BY DEF FreePages
<1>3. N \subseteq DOMAIN nodes[s] /\ \A n : n \in N <=> n \in DOMAIN nodes[s] /\ \E p \in P : n = <<0, p>>
  BY DEF Leaves
<1>. HIDE DEF N
<1>4. /\ DOMAIN nodes' = Spaces /\ (\A t \in Spaces : t # s => nodes'[t] = nodes[t])
      /\ DOMAIN nodes'[s] = (DOMAIN nodes[s]) \ N
      /\ \A n \in DOMAIN nodes'[s] : nodes'[s][n] = nodes[s][n]
  BY <1>1, <1>2 DEF Restrict
<1>5. /\ DOMAIN ptes' = Spaces /\ (\A t \in Spaces : t # s => ptes'[t] = ptes[t])
      /\ DOMAIN ptes'[s] = (DOMAIN ptes[s]) \ P
      /\ \A p \in DOMAIN ptes'[s] : ptes'[s][p] = ptes[s][p]
  BY <1>1, <1>2 DEF Restrict
<1>6. FramesOK'
  BY <1>1, <1>2, <1>3, <1>4, RemovalFrames
<1>7. used' \subseteq Frames
  BY <1>1, <1>2
<1>8. \A t \in Spaces : \A p : Resident(t, p)' <=> Resident(t, p) /\ ~(t = s /\ p \in P)
  BY <1>3, <1>4 DEF Resident
<1>9. \A t \in Spaces : Live(t) <=> Live(t)'
  BY <1>3, <1>4, VmAssumption DEF Live
<1>10. PagesOK'
  BY <1>1, <1>4, <1>5, <1>8, <1>9 DEF PagesOK
<1>. QED  BY <1>6, <1>7, <1>8, <1>9, <1>10

(* What together makes the invariant, once the table has been seen to. *)
LEMMA TableStep ==
    ASSUME IInv, panic = "none", NEW s \in Spaces, Live(s), TableOK(s), breaks' = breaks,
           FramesOK', used' \subseteq Frames, PagesOK',
           \A t \in Spaces : Live(t) => Live(t)',
           \A t \in Spaces, p \in Pages : Resident(t, p)' => Resident(t, p)
    PROVE  IInv'
<1>1. InOrder(regions)' /\ \A r \in regions' : Live(r.space)'
  <2>1. ASSUME NEW r \in regions'
        PROVE  Live(r.space)'
    <3>1. r.space \in Spaces /\ (r.space = s \/ \E o \in regions : o.space = r.space)
      BY DEF TableOK, InOrder, Region
    <3>2. Live(r.space)
      BY <3>1 DEF IInv
    <3>. QED  BY <3>1, <3>2
  <2>. QED  BY <2>1 DEF TableOK, InOrder, Apart
<1>2. BreaksOK' /\ panic' = "none"
  BY DEF IInv, BreaksOK, TableOK
<1>3. HeapInv'
  <2>1. HeapPages \subseteq Pages
    BY VmAssumption DEF HeapPages, Pages
  <2>. QED  BY <2>1 DEF IInv, HeapInv
<1>. QED  BY <1>1, <1>2, <1>3 DEF IInv

(* Map reserves addresses only. *)
LEMMA MapStep ==
    ASSUME IInv, panic = "none", NEW s \in Spaces, Live(s), NEW n \in 1 .. UserEnd,
           NEW q \in Requests, Map(s, n, q)
    PROVE  IInv'
<1>1. UNCHANGED <<nodes, ptes, used, orphans, breaks>>
  BY DEF Map
<1>2. TableOK(s)
  BY MapTable DEF IInv
<1>3. FramesOK' /\ used' \subseteq Frames /\ PagesOK'
  BY <1>1 DEF IInv, FramesOK, PagesOK, Live, Resident
<1>4. /\ \A t \in Spaces : Live(t) => Live(t)'
      /\ \A t \in Spaces, p \in Pages : Resident(t, p)' => Resident(t, p)
  BY <1>1 DEF Live, Resident
<1>. QED  BY <1>1, <1>2, <1>3, <1>4, TableStep

(* The range of a call. *)
LEMMA RangeIs ==
    ASSUME NEW s \in Spaces, NEW a \in Touched[s], NEW z \in Touched[s]
    PROVE  /\ a \in Pages /\ z + 1 \in 1 .. UserEnd /\ a \in Int /\ z + 1 \in Int
           /\ a .. (z + 1) - 1 \in SUBSET Pages
BY VmAssumption DEF Pages

(* MapFixed also unmaps what was there. *)
LEMMA MapFixedStep ==
    ASSUME IInv, panic = "none", NEW s \in Spaces, Live(s), NEW a \in Touched[s],
           NEW z \in Touched[s], NEW q \in Requests, MapFixed(s, a, z + 1, q)
    PROVE  IInv'
<1>1. FreePages(s, a .. (z + 1) - 1) /\ UNCHANGED <<orphans, breaks>>
  BY DEF MapFixed
<1>2. TableOK(s)
  BY RangeIs, MapFixedTable DEF IInv
<1>. QED  BY <1>1, <1>2, RangeIs, RemovePages, TableStep

(* Unmap frees the pages of what it removes. *)
LEMMA UnmapStep ==
    ASSUME IInv, panic = "none", NEW s \in Spaces, Live(s), NEW a \in Touched[s],
           NEW z \in Touched[s], Unmap(s, a, z + 1)
    PROVE  IInv'
<1>1. FreePages(s, a .. (z + 1) - 1) /\ UNCHANGED <<orphans, breaks>>
  BY DEF Unmap
<1>2. TableOK(s)
  BY RangeIs, UnmapTable DEF IInv
<1>. QED  BY <1>1, <1>2, RangeIs, RemovePages, TableStep

(* Protect changes the entries of resident pages, and moves none. *)
LEMMA ProtectStep ==
    ASSUME IInv, panic = "none", NEW s \in Spaces, Live(s), NEW a \in Touched[s],
           NEW z \in Touched[s], NEW prot \in Prots, Protect(s, a, z + 1, prot)
    PROVE  IInv'
<1>. DEFINE range == a .. (z + 1) - 1
<1>1. /\ UNCHANGED <<nodes, used, orphans, breaks>>
      /\ ptes' = [ptes EXCEPT ![s] =
             [p \in DOMAIN ptes[s] |-> IF p \in range THEN [ptes[s][p] EXCEPT !.prot = prot]
                                       ELSE ptes[s][p]]]
  BY DEF Protect
<1>2. prot \in SUBSET {"r", "w"}
  BY VmAssumption
<1>3. TableOK(s)
  BY <1>2, RangeIs, ProtectTable DEF IInv
<1>4. FramesOK' /\ used' \subseteq Frames
  BY <1>1 DEF IInv, FramesOK
<1>. HIDE DEF range
<1>5. /\ \A t \in Spaces : Live(t)' <=> Live(t)
      /\ \A t \in Spaces : \A p : Resident(t, p)' <=> Resident(t, p)
  BY <1>1 DEF Live, Resident
<1>6. PagesOK'
  <2>1. PagesOK
    BY DEF IInv
  <2>2. /\ DOMAIN ptes' = Spaces /\ (\A t \in Spaces : t # s => ptes'[t] = ptes[t])
        /\ DOMAIN ptes'[s] = DOMAIN ptes[s]
    BY <1>1, <2>1 DEF PagesOK
  <2>3. ASSUME NEW p \in DOMAIN ptes[s]
        PROVE  Entry(ptes'[s][p])
    <3>. DEFINE old == ptes[s][p]
                new == [prot |-> prot, data |-> old.data]
    <3>1. Entry(old)
      BY <2>1 DEF PagesOK
    <3>2. ptes'[s][p] = (IF p \in range THEN [old EXCEPT !.prot = prot] ELSE old)
      BY <1>1, <2>1 DEF PagesOK
    <3>3. [old EXCEPT !.prot = prot] = new
      BY <3>1 DEF Entry
    <3>4. Entry(new)
      BY <1>2 DEF Entry
    <3>. HIDE DEF old, new
    <3>. QED  BY <3>1, <3>2, <3>3, <3>4
  <2>. QED  BY <1>1, <1>5, <2>1, <2>2, <2>3 DEF PagesOK
<1>. QED  BY <1>1, <1>3, <1>4, <1>5, <1>6, TableStep

-----------------------------------------------------------------------------
(* Steps that leave the table alone.                                       *)

(* What together makes the invariant then. *)
LEMMA KeptStep ==
    ASSUME IInv, regions' = regions, panic' \in {"none", "memory"},
           FramesOK', used' \subseteq Frames, PagesOK', BreaksOK',
           \A t \in Spaces : Live(t) => Live(t)',
           panic' = "none" => HeapInv'
    PROVE  IInv'
<1>1. InOrder(regions')
  BY DEF IInv
<1>2. ASSUME NEW r \in regions'
      PROVE  Live(r.space)'
  BY DEF IInv, InOrder, Region
<1>. QED  BY <1>1, <1>2 DEF IInv, InOrder, Apart

(* A page that is touched is in a region, and so not in the heap. *)
LEMMA FaultStep ==
    ASSUME IInv, panic = "none", NEW s \in Spaces, NEW p \in Touched[s], NEW access,
           Fault(s, p, access)
    PROVE  IInv'
<1>1. UNCHANGED <<regions, orphans, breaks, panic>> /\ ~Resident(s, p)
  BY DEF Fault
<1>2. PICK r \in Of(regions, s) :
        /\ Covers(r, p)
        /\ Cardinality(Needed(s, {p})) <= Free
        /\ Install(s, Needed(s, {p}))
        /\ ptes' = [ptes EXCEPT ![s] =
               Over([x \in {p} |-> [prot |-> r.prot, data |-> Contents(r.file, PageOf(r, p))]], @)]
  BY DEF Fault
<1>. DEFINE entry == [prot |-> r.prot, data |-> Contents(r.file, PageOf(r, p))]
<1>3. {p} \in SUBSET Pages /\ IsFiniteSet({p})
  <2>1. p \in Pages
    BY VmAssumption DEF Pages
  <2>. QED  BY <2>1, FS_Singleton
<1>4. r \in regions /\ r \in Region /\ p \notin HeapPages
  BY <1>2 DEF Of, IInv, InOrder
<1>5. Entry(entry)
  <2>1. r.prot \subseteq {"r", "w"}
    BY <1>4 DEF Region
  <2>. QED  BY <2>1 DEF Entry
<1>6. DOMAIN ptes = Spaces
  BY DEF IInv, PagesOK
<1>. HIDE DEF entry
<1>7. ptes' = [ptes EXCEPT ![s] = Over([x \in {p} |-> entry], ptes[s])]
  BY <1>2 DEF entry
<1>8. /\ DOMAIN ptes' = Spaces
      /\ \A t \in Spaces : t # s => ptes'[t] = ptes[t]
      /\ \A x : x \in DOMAIN ptes'[s] <=> x \in {p} \/ x \in DOMAIN ptes[s]
      /\ \A x \in {p} : Entry(ptes'[s][x])
      /\ \A x \in DOMAIN ptes[s] \ {p} : ptes'[s][x] = ptes[s][x]
  BY <1>5, <1>6, <1>7 DEF Over
<1>9. /\ FramesOK' /\ used' \subseteq Frames /\ PagesOK'
      /\ \A t \in Spaces : Live(t) => Live(t)'
      /\ \A t \in Spaces, x \in Pages : Resident(t, x)' => Resident(t, x) \/ (t = s /\ x \in {p})
  BY <1>1, <1>2, <1>3, <1>8, InstallPages
<1>10. HeapInv'
  <2>1. HeapPages \subseteq Pages
    BY VmAssumption DEF HeapPages, Pages
  <2>2. HeapInv
    BY DEF IInv
  <2>. QED  BY <1>1, <1>4, <1>9, <2>1, <2>2 DEF HeapInv
<1>11. BreaksOK' /\ panic' = "none"
  BY <1>1 DEF IInv, BreaksOK
<1>. QED  BY <1>1, <1>9, <1>10, <1>11, KeptStep

(* A store changes what is in a frame. *)
LEMMA UserStoreStep ==
    ASSUME IInv, panic = "none", NEW s \in Spaces, NEW p, UserStore(s, p)
    PROVE  IInv'
<1>1. UNCHANGED <<regions, nodes, used, orphans, breaks, panic>>
  BY DEF UserStore
<1>2. ptes' = [ptes EXCEPT ![s] = [ptes[s] EXCEPT ![p] = [ptes[s][p] EXCEPT !.data = Written]]]
  BY DEF UserStore
<1>3. PagesOK
  BY DEF IInv
<1>4. /\ DOMAIN ptes' = Spaces /\ (\A t \in Spaces : t # s => ptes'[t] = ptes[t])
      /\ ptes'[s] = [ptes[s] EXCEPT ![p] = [ptes[s][p] EXCEPT !.data = Written]]
  BY <1>2, <1>3 DEF PagesOK
<1>5. DOMAIN ptes'[s] = DOMAIN ptes[s]
  BY <1>4
<1>6. ASSUME NEW x \in DOMAIN ptes[s]
      PROVE  Entry(ptes'[s][x])
  <2>1. Entry(ptes[s][x])
    BY <1>3 DEF PagesOK
  <2>. DEFINE old == ptes[s][x]
              new == [old EXCEPT !.data = Written]
  <2>2. ptes'[s][x] = IF x = p THEN new ELSE old
    BY <1>4
  <2>3. new = [prot |-> old.prot, data |-> Written]
    BY <2>1 DEF Entry
  <2>4. Entry(new)
    BY <2>1, <2>3 DEF Entry
  <2>. HIDE DEF old, new
  <2>. QED  BY <2>1, <2>2, <2>4 DEF old
<1>7. PagesOK'
  BY <1>1, <1>3, <1>4, <1>5, <1>6 DEF PagesOK, Live, Resident
<1>8. /\ FramesOK' /\ used' \subseteq Frames /\ BreaksOK' /\ HeapInv'
      /\ \A t \in Spaces : Live(t) => Live(t)'
  BY <1>1 DEF IInv, FramesOK, BreaksOK, HeapInv, Live, Resident
<1>. QED  BY <1>1, <1>7, <1>8, KeptStep

(* How far a break can go: to where it is asked to, at most, and not       *)
(* farther than there are frames for.                                      *)
LEMMA GrowthIs ==
    ASSUME IInv, NEW s \in Spaces, NEW h \in breaks[s], NEW z \in HeapPages, h < z + 1,
           NEW n, n = Affordable(s, h, z + 1), NEW P, P = First(h, n)
    PROVE  /\ h \in HeapBase .. MmapBase /\ n \in Nat /\ h + n <= z + 1 /\ z + 1 <= MmapBase
           /\ Cardinality(Needed(s, P)) <= Free
           /\ P = h .. h + n - 1 /\ P \in SUBSET HeapPages /\ IsFiniteSet(P)
           /\ \A p \in Int : p \in P <=> h <= p /\ p < h + n
<1>. DEFINE wanted == z + 1
            S == {m \in 0 .. wanted - h : Cardinality(Needed(s, First(h, m))) <= Free}
<1>1. /\ HeapBase \in Nat /\ MmapBase \in Nat /\ h \in HeapBase .. MmapBase
      /\ wanted \in Nat /\ h < wanted /\ wanted <= MmapBase
  BY VmAssumption DEF IInv, BreaksOK, HeapPages
<1>2. n \in S
  <2>1. S \in SUBSET Nat /\ (wanted - h) \in Nat /\ \A x \in S : x <= wanted - h
    BY <1>1
  <2>2. First(h, 0) = {}
    BY <1>1 DEF First
  <2>3. IsFiniteSet(First(h, 0)) /\ First(h, 0) \in SUBSET Nat
    BY <2>2, FS_EmptySet
  <2>4. Needed(s, First(h, 0)) = {}
    BY <2>2, <2>3, NeededIs
  <2>5. Cardinality(Needed(s, First(h, 0))) = 0
    BY <2>4, FS_EmptySet
  <2>6. Free \in Nat
    <3>1. IsFiniteSet(Frames \ used)
      BY VmAssumption, FS_Difference
    <3>. QED  BY <3>1, FS_CardinalityType DEF Free
  <2>7. 0 \in S
    BY <2>1, <2>5, <2>6
  <2>8. n = Max(S)
    BY DEF Affordable
  <2>. HIDE DEF S, wanted
  <2>. QED  BY <2>1, <2>7, <2>8, Greatest
<1>3. n \in Nat /\ h + n <= wanted /\ Cardinality(Needed(s, P)) <= Free
  BY <1>1, <1>2
<1>. HIDE DEF S
<1>4. P = h .. h + n - 1
  BY DEF First
<1>5. /\ P \in SUBSET HeapPages /\ IsFiniteSet(P)
      /\ \A p \in Int : p \in P <=> h <= p /\ p < h + n
  <2>1. IsFiniteSet(P)
    BY <1>1, <1>3, <1>4, FS_Interval
  <2>. QED  BY <1>1, <1>3, <1>4, <2>1 DEF HeapPages
<1>. QED  BY <1>1, <1>3, <1>4, <1>5

(* A thread grows the heap from its break, which is where the resident     *)
(* part ends, by what there are frames for.                                *)
LEMMA BrkStep ==
    ASSUME OneThreadGrows, IInv, panic = "none", NEW s \in Spaces, NEW h \in breaks[s],
           NEW z \in HeapPages, NEW cloned \in Cloned, Brk(s, h, z + 1, cloned)
    PROVE  IInv'
<1>. DEFINE wanted == z + 1
            n == Affordable(s, h, wanted)
            P == First(h, n)
<1>1. cloned = FALSE /\ h < wanted
  BY DEF OneThreadGrows, Brk
<1>2. /\ HeapBase \in Nat /\ MmapBase \in Nat
      /\ wanted \in Nat /\ h < wanted
  BY <1>1, VmAssumption DEF HeapPages
<1>3. /\ h \in HeapBase .. MmapBase /\ n \in Nat /\ h + n <= wanted /\ wanted <= MmapBase
      /\ Cardinality(Needed(s, P)) <= Free
      /\ P \in SUBSET HeapPages /\ IsFiniteSet(P)
      /\ \A p \in Int : p \in P <=> h <= p /\ p < h + n
  BY <1>1, GrowthIs
<1>4. /\ Install(s, Needed(s, P))
      /\ ptes' = [ptes EXCEPT ![s] = Over([p \in P |-> [prot |-> {"r", "w"}, data |-> Zero]], @)]
      /\ UNCHANGED <<regions, orphans>>
      /\ \/ panic' = "memory" /\ breaks' = breaks
         \/ breaks' = [breaks EXCEPT ![s] = (@ \ {h}) \cup {h + n}] /\ panic' = panic
  BY <1>1 DEF Brk
<1>. HIDE DEF n, P
<1>5. HeapPages \subseteq Pages /\ HeapPages \subseteq Int
  BY VmAssumption DEF HeapPages, Pages
<1>6. HeapInv
  BY DEF IInv
<1>7. \A p \in P : ~Resident(s, p)
  <2>1. \A p \in P : p \in HeapPages /\ p \in Int /\ h <= p /\ h \in Int
    BY <1>3, <1>5
  <2>2. \A p \in P : Resident(s, p) => p < h
    BY <1>6, <2>1 DEF HeapInv
  <2>. QED  BY <2>1, <2>2
<1>8. DOMAIN ptes = Spaces /\ DOMAIN breaks = Spaces
  BY DEF IInv, PagesOK, BreaksOK
<1>. DEFINE entry == [prot |-> {"r", "w"}, data |-> Zero]
<1>9. Entry(entry)
  BY DEF Entry
<1>. HIDE DEF entry
<1>10. ptes' = [ptes EXCEPT ![s] = Over([p \in P |-> entry], ptes[s])]
  BY <1>4 DEF entry
<1>11. /\ DOMAIN ptes' = Spaces
       /\ \A t \in Spaces : t # s => ptes'[t] = ptes[t]
       /\ \A p : p \in DOMAIN ptes'[s] <=> p \in P \/ p \in DOMAIN ptes[s]
       /\ \A p \in P : Entry(ptes'[s][p])
       /\ \A p \in DOMAIN ptes[s] \ P : ptes'[s][p] = ptes[s][p]
  BY <1>8, <1>9, <1>10 DEF Over
<1>12. /\ FramesOK' /\ used' \subseteq Frames /\ PagesOK'
       /\ \A t \in Spaces : Live(t) => Live(t)'
       /\ \A t \in Spaces, p \in Pages : Resident(t, p)' => Resident(t, p) \/ (t = s /\ p \in P)
  BY <1>3, <1>4, <1>5, <1>7, <1>11, InstallPages
<1>13. ASSUME panic' = "none"
       PROVE  HeapInv'
  <2>1. breaks' = [breaks EXCEPT ![s] = (@ \ {h}) \cup {h + n}]
    BY <1>4, <1>13
  <2>2. breaks'[s] = {h + n} /\ \A t \in Spaces : t # s => breaks'[t] = breaks[t]
    BY <1>6, <1>8, <2>1 DEF HeapInv
  <2>3. \A p \in HeapPages : Resident(s, p)' => p < h + n
    BY <1>2, <1>3, <1>5, <1>6, <1>12 DEF HeapInv
  <2>4. \A t \in Spaces, p \in HeapPages : t # s /\ Resident(t, p)' => Resident(t, p)
    BY <1>5, <1>12
  <2>. QED  BY <1>6, <2>2, <2>3, <2>4 DEF HeapInv
<1>14. BreaksOK'
  <2>1. BreaksOK /\ h + n \in HeapBase .. MmapBase
    BY <1>2, <1>3 DEF IInv
  <2>. QED  BY <1>4, <2>1 DEF BreaksOK
<1>15. panic' \in {"none", "memory"}
  BY <1>4
<1>. QED  BY <1>4, <1>12, <1>13, <1>14, <1>15, KeptStep

(* An address space that did not exist has no pages. *)
LEMMA NotThere ==
    ASSUME IInv, NEW s \in Spaces, ~Live(s)
    PROVE  /\ LoaderPages \in SUBSET Pages /\ IsFiniteSet(LoaderPages)
           /\ \A p \in LoaderPages : p \notin HeapPages
           /\ \A p : ~Resident(s, p)
           /\ DOMAIN ptes[s] = {}
<1>1. LoaderPages \subseteq 1 .. HeapBase - 1 /\ HeapBase \in Nat /\ HeapBase < UserEnd /\ UserEnd \in Nat
  BY VmAssumption
<1>2. LoaderPages \in SUBSET Pages /\ \A p \in LoaderPages : p \notin HeapPages
  BY <1>1 DEF Pages, HeapPages
<1>3. IsFiniteSet(1 .. HeapBase - 1)
  BY <1>1, FS_Interval
<1>4. IsFiniteSet(LoaderPages)
  BY <1>1, <1>3, FS_Subset
<1>5. DOMAIN nodes[s] = {}
  BY DEF IInv, PagesOK
<1>6. \A p : ~Resident(s, p)
  BY <1>5 DEF Resident
<1>7. DOMAIN ptes[s] = {}
  BY <1>6 DEF IInv, PagesOK
<1>. QED  BY <1>2, <1>4, <1>6, <1>7

(* The loader maps nothing in the heap, and the break starts at its base. *)
LEMMA LoadStep ==
    ASSUME IInv, panic = "none", NEW s \in Spaces, Load(s)
    PROVE  IInv'
<1>. DEFINE N == Needed(s, LoaderPages)
<1>1. ~Live(s) /\ UNCHANGED <<regions, orphans>>
  BY DEF Load
<1>2. IInv /\ BreaksOK /\ HeapInv /\ FramesOK /\ PagesOK /\ used \subseteq Frames
  BY DEF IInv
<1>3. CASE Cardinality(N) <= Free
  <2>. DEFINE entry == [prot |-> {"r", "w"}, data |-> Image]
  <2>1. /\ Install(s, N) /\ breaks' = [breaks EXCEPT ![s] = {HeapBase}] /\ panic' = panic
        /\ ptes' = [ptes EXCEPT ![s] = [p \in LoaderPages |-> entry]]
    BY <1>3 DEF Load
  <2>2. Entry(entry)
    BY DEF Entry
  <2>. HIDE DEF entry
  <2>3. /\ LoaderPages \in SUBSET Pages /\ IsFiniteSet(LoaderPages)
        /\ \A p \in LoaderPages : p \notin HeapPages
        /\ \A p : ~Resident(s, p)
        /\ DOMAIN ptes[s] = {}
    BY <1>1, NotThere
  <2>4. /\ DOMAIN ptes' = Spaces
        /\ \A t \in Spaces : t # s => ptes'[t] = ptes[t]
        /\ \A p : p \in DOMAIN ptes'[s] <=> p \in LoaderPages \/ p \in DOMAIN ptes[s]
        /\ \A p \in LoaderPages : Entry(ptes'[s][p])
        /\ \A p \in DOMAIN ptes[s] \ LoaderPages : ptes'[s][p] = ptes[s][p]
    BY <1>2, <2>1, <2>2, <2>3 DEF PagesOK
  <2>5. /\ FramesOK' /\ used' \subseteq Frames /\ PagesOK'
        /\ \A t \in Spaces : Live(t) => Live(t)'
        /\ \A t \in Spaces, p \in Pages :
              Resident(t, p)' => Resident(t, p) \/ (t = s /\ p \in LoaderPages)
    BY <1>1, <1>3, <2>1, <2>3, <2>4, InstallPages
  <2>6. /\ DOMAIN breaks' = Spaces /\ breaks'[s] = {HeapBase}
        /\ \A t \in Spaces : t # s => breaks'[t] = breaks[t]
    BY <1>2, <2>1 DEF BreaksOK
  <2>7. BreaksOK'
    BY <1>2, <2>6, VmAssumption DEF BreaksOK
  <2>8. HeapInv'
    <3>1. HeapPages \subseteq Pages
      BY VmAssumption DEF HeapPages, Pages
    <3>2. \A t \in Spaces, p \in HeapPages : Resident(t, p)' => t # s /\ Resident(t, p)
      BY <2>3, <2>5, <3>1
    <3>. QED  BY <1>2, <2>6, <3>2 DEF HeapInv
  <2>. QED  BY <1>1, <2>1, <2>5, <2>7, <2>8, KeptStep
<1>4. CASE ~(Cardinality(N) <= Free)
  <2>1. panic' = "memory" /\ UNCHANGED <<nodes, ptes, used, breaks>>
    BY <1>4 DEF Load
  <2>2. /\ FramesOK' /\ used' \subseteq Frames /\ PagesOK' /\ BreaksOK'
        /\ \A t \in Spaces : Live(t) => Live(t)'
    BY <1>1, <1>2, <2>1 DEF FramesOK, PagesOK, BreaksOK, Live, Resident
  <2>. QED  BY <1>1, <2>1, <2>2, KeptStep
<1>. QED  BY <1>3, <1>4

(* What the loader gives up belongs to no space. *)
LEMMA GiveUpLoadStep ==
    ASSUME IInv, panic = "none", NEW s \in Spaces, GiveUpLoad(s)
    PROVE  IInv'
<1>. DEFINE N == Needed(s, LoaderPages)
            R == Range(Allocated(N))
<1>1. /\ ~Live(s) /\ Cardinality(N) <= Free
      /\ used' = used \cup R /\ orphans' = orphans \cup R
      /\ UNCHANGED <<regions, nodes, ptes, breaks, panic>>
  BY DEF GiveUpLoad
<1>2. LoaderPages \in SUBSET Nat /\ IsFiniteSet(LoaderPages)
  BY <1>1, NotThere DEF Pages
<1>3. IsFiniteSet(N)
  BY <1>2, NeededIs
<1>. HIDE DEF N
<1>4. R \subseteq Frames \ used
  BY <1>1, <1>3, AllocatedIs DEF Range
<1>. HIDE DEF R
<1>5. FramesOK /\ PagesOK /\ BreaksOK /\ HeapInv /\ used \subseteq Frames
  BY DEF IInv
<1>6. used' \ orphans' = used \ orphans
  BY <1>1, <1>4, <1>5 DEF FramesOK
<1>7. FramesOK' /\ used' \subseteq Frames
  BY <1>1, <1>4, <1>5, <1>6 DEF FramesOK
<1>8. PagesOK' /\ BreaksOK' /\ HeapInv' /\ \A t \in Spaces : Live(t) => Live(t)'
  BY <1>1, <1>5 DEF PagesOK, BreaksOK, HeapInv, Live, Resident
<1>. QED  BY <1>1, <1>7, <1>8, KeptStep

(* A space that is destroyed takes its regions, its tables and its frames  *)
(* with it, and nothing of the others.                                     *)
LEMMA DestroyStep ==
    ASSUME IInv, panic = "none", NEW s \in Spaces, Destroy(s)
    PROVE  IInv'
<1>1. /\ regions' = regions \ Of(regions, s) /\ used' = used \ Range(nodes[s])
      /\ nodes' = [nodes EXCEPT ![s] = <<>>] /\ ptes' = [ptes EXCEPT ![s] = <<>>]
      /\ breaks' = [breaks EXCEPT ![s] = {}] /\ UNCHANGED <<orphans, panic>>
  BY DEF Destroy, Freed
<1>2. /\ InOrder(regions) /\ (\A r \in regions : Live(r.space)) /\ FramesOK /\ used \subseteq Frames
      /\ PagesOK /\ BreaksOK /\ HeapInv
  BY DEF IInv
<1>3. DOMAIN <<>> = {}
  OBVIOUS
<1>4. /\ DOMAIN nodes' = Spaces /\ DOMAIN nodes'[s] = {}
      /\ DOMAIN ptes' = Spaces /\ DOMAIN ptes'[s] = {}
      /\ DOMAIN breaks' = Spaces /\ breaks'[s] = {}
      /\ \A t \in Spaces : t # s =>
            nodes'[t] = nodes[t] /\ ptes'[t] = ptes[t] /\ breaks'[t] = breaks[t]
  BY <1>1, <1>2, <1>3 DEF PagesOK, BreaksOK
<1>5. InOrder(regions)'
  <2>1. InOrder(regions')
    BY <1>1, <1>2, FewerInOrder
  <2>. QED  BY <2>1 DEF InOrder, Apart
<1>6. ASSUME NEW r \in regions'
      PROVE  Live(r.space)'
  <2>1. r \in regions /\ r.space # s /\ r.space \in Spaces
    BY <1>1, <1>2 DEF Of, InOrder, Region
  <2>. QED  BY <1>2, <1>4, <2>1 DEF Live
<1>7. FramesOK' /\ used' \subseteq Frames
  <2>. DEFINE N == DOMAIN nodes[s]
  <2>1. used' = used \ {nodes[s][n] : n \in N} /\ orphans' = orphans
    BY <1>1 DEF Range
  <2>2. N \subseteq DOMAIN nodes[s] /\ DOMAIN nodes'[s] = DOMAIN nodes[s] \ N
    BY <1>4
  <2>. HIDE DEF N
  <2>3. FramesOK'
    BY <1>2, <1>4, <2>1, <2>2, RemovalFrames DEF PagesOK
  <2>. QED  BY <1>1, <1>2, <2>3
<1>8. PagesOK'
  BY <1>2, <1>4 DEF PagesOK, Live, Resident
<1>9. BreaksOK' /\ HeapInv'
  BY <1>2, <1>4 DEF BreaksOK, HeapInv, Resident
<1>. QED  BY <1>1, <1>5, <1>6, <1>7, <1>8, <1>9 DEF IInv

(* Nothing happens. *)
LEMMA StutterStep ==
    ASSUME IInv, UNCHANGED vars
    PROVE  IInv'
BY DEF vars, IInv, InOrder, Apart, FramesOK, PagesOK, BreaksOK, HeapInv, Live, Resident

-----------------------------------------------------------------------------
(* The theorems.                                                           *)

(* Nothing is mapped at first. *)
LEMMA InitIInv == Init => IInv
<1>. SUFFICES ASSUME Init PROVE IInv
  OBVIOUS
<1>1. /\ regions = {} /\ used = {} /\ orphans = {} /\ panic = "none"
      /\ DOMAIN nodes = Spaces /\ DOMAIN ptes = Spaces /\ DOMAIN breaks = Spaces
      /\ \A s \in Spaces : DOMAIN nodes[s] = {} /\ DOMAIN ptes[s] = {} /\ breaks[s] = {}
  <2>1. DOMAIN <<>> = {}
    OBVIOUS
  <2>. QED  BY <2>1 DEF Init
<1>2. InOrder(regions) /\ \A r \in regions : Live(r.space)
  BY <1>1, FS_EmptySet DEF InOrder, Apart
<1>3. FramesOK /\ PagesOK /\ BreaksOK /\ HeapInv
  BY <1>1 DEF FramesOK, PagesOK, BreaksOK, HeapInv, Resident
<1>. QED  BY <1>1, <1>2, <1>3 DEF IInv

(* Every step keeps the invariant. *)
LEMMA NextIInv == OneThreadGrows => (IInv /\ [Next]_vars => IInv')
<1>. SUFFICES ASSUME OneThreadGrows, IInv, [Next]_vars PROVE IInv'
  OBVIOUS
<1>1. CASE UNCHANGED vars
  BY <1>1, StutterStep
<1>2. CASE Next
  <2>. USE <1>2
  <2>0. panic = "none"
    BY DEF Next
  <2>1. ASSUME NEW s \in Spaces, Load(s) PROVE IInv'
    BY <2>0, <2>1, LoadStep
  <2>2. ASSUME NEW s \in Spaces, GiveUpLoad(s) PROVE IInv'
    BY <2>0, <2>2, GiveUpLoadStep
  <2>3. ASSUME NEW s \in Spaces, Destroy(s) PROVE IInv'
    BY <2>0, <2>3, DestroyStep
  <2>4. ASSUME NEW s \in Spaces, NEW p, UserStore(s, p) PROVE IInv'
    BY <2>0, <2>4, UserStoreStep
  <2>5. ASSUME NEW s \in Spaces, NEW p \in Touched[s], NEW access, Fault(s, p, access) PROVE IInv'
    BY <2>0, <2>5, FaultStep
  <2>6. ASSUME NEW s \in Spaces, Live(s), NEW n \in 1 .. UserEnd, NEW q \in Requests, Map(s, n, q)
        PROVE  IInv'
    BY <2>0, <2>6, MapStep
  <2>7. ASSUME NEW s \in Spaces, Live(s), NEW a \in Touched[s], NEW z \in Touched[s],
               NEW q \in Requests, MapFixed(s, a, z + 1, q)
        PROVE  IInv'
    BY <2>0, <2>7, MapFixedStep
  <2>8. ASSUME NEW s \in Spaces, Live(s), NEW a \in Touched[s], NEW z \in Touched[s],
               Unmap(s, a, z + 1)
        PROVE  IInv'
    BY <2>0, <2>8, UnmapStep
  <2>9. ASSUME NEW s \in Spaces, Live(s), NEW a \in Touched[s], NEW z \in Touched[s],
               NEW prot \in Prots, Protect(s, a, z + 1, prot)
        PROVE  IInv'
    BY <2>0, <2>9, ProtectStep
  <2>10. ASSUME NEW s \in Spaces, NEW h \in breaks[s], NEW z \in HeapPages,
                NEW cloned \in Cloned, Brk(s, h, z + 1, cloned)
         PROVE  IInv'
    BY <2>0, <2>10, BrkStep
  <2>. QED  BY <2>1, <2>2, <2>3, <2>4, <2>5, <2>6, <2>7, <2>8, <2>9, <2>10 DEF Next
<1>. QED  BY <1>1, <1>2

(* As long as one thread of a space calls brk, the regions stay in order   *)
(* and out of the heap, every frame in use is in one place, page tables    *)
(* agree with what is resident, and the heap's resident part ends at its   *)
(* break, whatever is mapped, cut, faulted in, stored and torn down.       *)
THEOREM VmInvariant == OneThreadGrows => (Spec => []IInv)
<1>. SUFFICES ASSUME OneThreadGrows PROVE Spec => []IInv
  OBVIOUS
<1>1. IInv /\ [Next]_vars => IInv'
  BY NextIInv
<1>. QED  BY <1>1, InitIInv, PTL DEF Spec

(* What a step may never leave: values outside their types, regions or     *)
(* breaks of spaces that do not exist, entries at frames not in use.       *)
THEOREM TypeCorrect == OneThreadGrows => (Spec => []TypeOK)
<1>. SUFFICES ASSUME OneThreadGrows PROVE Spec => []TypeOK
  OBVIOUS
<1>1. IInv => TypeOK
  <2>. SUFFICES ASSUME IInv PROVE TypeOK
    OBVIOUS
  <2>1. regions \subseteq Region /\ \A r \in regions : r.start < r.end /\ Live(r.space)
    BY DEF IInv, InOrder
  <2>2. ASSUME NEW s \in Spaces
        PROVE  /\ \A n \in DOMAIN nodes[s] : nodes[s][n] \in used
               /\ DOMAIN ptes[s] = {p \in Pages : Resident(s, p)}
               /\ \A p \in DOMAIN ptes[s] : ptes[s][p].prot \subseteq {"r", "w"}
               /\ breaks[s] \subseteq HeapBase .. MmapBase
    BY DEF IInv, FramesOK, PagesOK, BreaksOK, Entry
  <2>3. used \subseteq Frames /\ orphans \subseteq used /\ panic \in {"none", "capacity", "memory"}
    BY DEF IInv, FramesOK
  <2>. QED  BY <2>1, <2>2, <2>3 DEF TypeOK
<1>. QED  BY <1>1, VmInvariant, PTL

(* split_at, protect and fault find the one region of an address: the      *)
(* regions of a space never overlap.                                       *)
THEOREM RegionsApart == OneThreadGrows => (Spec => []Disjoint)
<1>. SUFFICES ASSUME OneThreadGrows PROVE Spec => []Disjoint
  OBVIOUS
<1>1. IInv => Disjoint
  BY DEF IInv, InOrder, Apart, Disjoint
<1>. QED  BY <1>1, VmInvariant, PTL

(* Each frame in use has one owner: alloc_frame and free_frame match over  *)
(* every mapping, fault, replacement, removal and teardown, whichever free *)
(* frames pmm picks.                                                       *)
THEOREM FramesAreExact == OneThreadGrows => (Spec => []FramesExact)
<1>. SUFFICES ASSUME OneThreadGrows PROVE Spec => []FramesExact
  OBVIOUS
<1>1. IInv => FramesExact
  BY ExactIs DEF IInv
<1>. QED  BY <1>1, VmInvariant, PTL

(* The room that mmap, munmap and mprotect count beforehand is enough for  *)
(* both splits and the new region, so that insert never finds the table    *)
(* full.                                                                   *)
THEOREM RoomIsKept == OneThreadGrows => (Spec => []RoomKept)
<1>. SUFFICES ASSUME OneThreadGrows PROVE Spec => []RoomKept
  OBVIOUS
<1>1. IInv => RoomKept
  BY DEF IInv, RoomKept
<1>. QED  BY <1>1, VmInvariant, PTL

-----------------------------------------------------------------------------
(* What a program sees.                                                    *)

(* What the regions of a space have to say about a page.  They never       *)
(* overlap, so that it is at most one thing.                               *)
Offers(table, s, p) ==
    {OfRegion(r, p) : r \in {r \in table : r.space = s /\ Covers(r, p)}}

(* They say one thing. *)
Only(table, s, p, x) == Offers(table, s, p) = {x}

(* The page is of a file that others may write. *)
Sharing(table, s, p) == \E x \in Offers(table, s, p) : x.shared

(* The pages that regions and page-table entries make together. *)
Picture(table, entries, s) ==
    [p \in DOMAIN entries \cup UNION {r.start .. r.end - 1 : r \in Of(table, s)} |->
        IF p \in DOMAIN entries
        THEN [prot |-> entries[p].prot, data |-> entries[p].data,
              shared |-> Sharing(table, s, p)]
        ELSE CHOOSE x \in Offers(table, s, p) : TRUE]

(* What Implements says programs see, and the same as pictures. *)
Shown == [s \in {s \in Spaces : Live(s)} |-> [p \in Mapped(s) |-> Seen(s, p)]]
Pictures == [s \in {s \in Spaces : Live(s)} |-> Picture(regions, ptes[s], s)]

(* Besides what IInv says: whatever is resident above the heap is in a     *)
(* region, so that a new mapping finds nothing of an old one in its place. *)
Backed ==
    \A s \in Spaces : \A p \in DOMAIN ptes[s] :
        p >= MmapBase => Offers(regions, s, p) # {}

(* Page tables fit for a picture. *)
Fit(entries) == \A p \in DOMAIN entries : p \in Pages /\ Entry(entries[p])

(* The two say the same. *)
LEMMA ShownIs == IInv => Shown = Pictures
<1>. SUFFICES ASSUME IInv PROVE Shown = Pictures
  OBVIOUS
<1>1. ASSUME NEW s \in Spaces
      PROVE  [p \in Mapped(s) |-> Seen(s, p)] = Picture(regions, ptes[s], s)
  <2>1. \A p \in Mapped(s) : Resident(s, p) <=> p \in DOMAIN ptes[s]
    <3>1. \A r \in regions : r \in Region
      BY DEF IInv, InOrder
    <3>2. \A p \in Mapped(s) : p \in Pages
      <4>1. ASSUME NEW r \in Of(regions, s), NEW p \in r.start .. r.end - 1
            PROVE  p \in Pages
        BY <3>1, <4>1, VmAssumption DEF Of, Region, Pages
      <4>2. \A p \in DOMAIN ptes[s] : p \in Pages
        BY DEF IInv, PagesOK
      <4>. QED  BY <4>1, <4>2 DEF Mapped
    <3>. QED  BY <3>2 DEF IInv, PagesOK
  <2>2. ASSUME NEW p \in Mapped(s)
        PROVE  Seen(s, p) = IF p \in DOMAIN ptes[s]
                            THEN [prot |-> ptes[s][p].prot, data |-> ptes[s][p].data,
                                  shared |-> Sharing(regions, s, p)]
                            ELSE CHOOSE x \in Offers(regions, s, p) : TRUE
    <3>1. CASE p \in DOMAIN ptes[s]
      <4>1. Resident(s, p)
        BY <2>1, <3>1
      <4>. QED  BY <3>1, <4>1, Zenon DEF Seen, Sharing, Offers
    <3>2. CASE p \notin DOMAIN ptes[s]
      <4>1. ~Resident(s, p)
        BY <2>1, <3>2
      <4>2. Seen(s, p) = CHOOSE x \in Offers(regions, s, p) : TRUE
        BY <4>1 DEF Seen, Offers
      <4>. QED  BY <3>2, <4>2, Zenon
    <3>. QED  BY <3>1, <3>2
  <2>3. Mapped(s) = DOMAIN ptes[s] \cup UNION {r.start .. r.end - 1 : r \in Of(regions, s)}
    BY DEF Mapped
  <2>. QED  BY <2>2, <2>3, Zenon DEF Picture
<1>. QED  BY <1>1, Zenon DEF Shown, Pictures

(* And do after a step. *)
LEMMA ShownIsNext == (IInv => Shown = Pictures)'
BY ShownIs, PTL

(* The regions of a space agree on a page. *)
LEMMA OneOffer ==
    ASSUME NEW table, InOrder(table), NEW s, NEW p \in Int,
           NEW r \in table, r.space = s, Covers(r, p)
    PROVE  Only(table, s, p, OfRegion(r, p))
<1>1. \A u \in table : u.start \in Int /\ u.end \in Int
  BY VmAssumption DEF InOrder, Region, Pages
<1>2. ASSUME NEW u \in table, u.space = s, Covers(u, p)
      PROVE  u = r
  BY <1>1, <1>2 DEF InOrder, Apart, Covers
<1>. QED  BY <1>2, Zenon DEF Offers, Only

(* Nor do regions have anything to say where there are none. *)
LEMMA NoOffer ==
    ASSUME NEW table, NEW s, NEW p
    PROVE  Offers(table, s, p) = {} <=> \A r \in table : r.space = s => ~Covers(r, p)
BY DEF Offers

(* The pages that a picture has. *)
LEMMA PictureHas ==
    ASSUME NEW table, InOrder(table), NEW entries, Fit(entries), NEW s, NEW p
    PROVE  p \in DOMAIN Picture(table, entries, s) <=>
               p \in Pages /\ (p \in DOMAIN entries \/ Offers(table, s, p) # {})
<1>. DEFINE covered == UNION {r.start .. r.end - 1 : r \in Of(table, s)}
<1>1. p \in covered <=> p \in Pages /\ Offers(table, s, p) # {}
  <2>1. \A r \in table : /\ r.start \in Int /\ r.end \in Int
                         /\ 0 <= r.start /\ r.end <= UserEnd
    BY VmAssumption DEF InOrder, Region, Pages
  <2>2. p \in covered <=> \E r \in table : r.space = s /\ p \in r.start .. r.end - 1
    BY DEF Of
  <2>3. \A r \in table : p \in r.start .. r.end - 1 <=> p \in Pages /\ Covers(r, p)
    BY <2>1, VmAssumption DEF Pages, Covers
  <2>. QED  BY <2>2, <2>3, NoOffer
<1>2. p \in DOMAIN entries => p \in Pages
  BY DEF Fit
<1>3. DOMAIN Picture(table, entries, s) = DOMAIN entries \cup covered
  BY Zenon DEF Picture
<1>. HIDE DEF covered
<1>. QED  BY <1>1, <1>2, <1>3

(* What it shows of a page that is resident. *)
LEMMA HeldAt ==
    ASSUME NEW table, InOrder(table), NEW entries, Fit(entries), NEW s, NEW p \in DOMAIN entries
    PROVE  Picture(table, entries, s)[p] =
               [prot |-> entries[p].prot, data |-> entries[p].data,
                shared |-> Sharing(table, s, p)]
BY Zenon DEF Picture

(* And of one that is not. *)
LEMMA OfferedAt ==
    ASSUME NEW table, InOrder(table), NEW entries, Fit(entries), NEW s,
           NEW p \in Pages, p \notin DOMAIN entries, NEW x, Only(table, s, p, x)
    PROVE  Picture(table, entries, s)[p] = x
<1>1. p \in DOMAIN Picture(table, entries, s)
  BY PictureHas DEF Only
<1>2. DOMAIN Picture(table, entries, s) =
         DOMAIN entries \cup UNION {r.start .. r.end - 1 : r \in Of(table, s)}
  BY Zenon DEF Picture
<1>3. p \in DOMAIN entries \cup UNION {r.start .. r.end - 1 : r \in Of(table, s)}
  BY <1>1, <1>2
<1>4. Picture(table, entries, s)[p] = CHOOSE y \in Offers(table, s, p) : TRUE
  BY <1>3, Zenon DEF Picture
<1>5. (CHOOSE y \in {x} : TRUE) = x
  OBVIOUS
<1>. QED  BY <1>4, <1>5, Zenon DEF Only

-----------------------------------------------------------------------------
(* What the calls that map and unmap do to what regions offer.             *)

(* A half of a region offers what the whole did. *)
LEMMA HalvesOffer ==
    ASSUME NEW r \in Region, NEW at \in Int, NEW p \in Int
    PROVE  /\ OfRegion(LeftOf(r, at), p) = OfRegion(r, p)
           /\ OfRegion(RightOf(r, at), p) = OfRegion(r, p)
<1>1. /\ LeftOf(r, at).prot = r.prot /\ LeftOf(r, at).file = r.file
      /\ LeftOf(r, at).shared = r.shared
      /\ LeftOf(r, at).start = r.start /\ LeftOf(r, at).offset = r.offset
  BY DEF LeftOf, Region
<1>2. /\ RightOf(r, at).prot = r.prot /\ RightOf(r, at).file = r.file
      /\ RightOf(r, at).shared = r.shared
      /\ RightOf(r, at).start = at /\ RightOf(r, at).offset = r.offset + (at - r.start)
  BY DEF RightOf, Region
<1>3. r.start \in Int /\ r.offset \in Int
  BY VmAssumption DEF Region, Pages
<1>4. PageOf(LeftOf(r, at), p) = PageOf(r, p)
  BY <1>1 DEF PageOf
<1>5. PageOf(RightOf(r, at), p) = PageOf(r, p)
  BY <1>2, <1>3 DEF PageOf
<1>. HIDE DEF LeftOf, RightOf
<1>. QED  BY <1>1, <1>2, <1>4, <1>5, Zenon DEF OfRegion

(* Splitting does not show. *)
LEMMA SplitOffers ==
    ASSUME NEW table, InOrder(table), NEW s, NEW at \in Int, NEW t, NEW p \in Int
    PROVE  Offers(SplitAt(table, s, at), t, p) = Offers(table, t, p)
<1>. DEFINE new == SplitAt(table, s, at)
<1>1. \A r \in table : r \in Region /\ r.start \in Int /\ r.end \in Int /\ r.start < r.end
  BY VmAssumption DEF InOrder, Region, Pages
<1>2. ASSUME NEW u \in new, u.space = t, Covers(u, p)
      PROVE  \E r \in table : r.space = t /\ Covers(r, p) /\ OfRegion(r, p) = OfRegion(u, p)
  <2>1. PICK r \in table : /\ u.space = r.space /\ r.start <= u.start /\ u.end <= r.end
                           /\ u = r \/ u = LeftOf(r, at) \/ u = RightOf(r, at)
    BY Pieces
  <2>2. u \in Region /\ u.start \in Int /\ u.end \in Int
    BY Pieces, VmAssumption DEF Region, Pages
  <2>3. Covers(r, p)
    BY <1>1, <1>2, <2>1, <2>2 DEF Covers
  <2>4. OfRegion(r, p) = OfRegion(u, p)
    BY <1>1, <2>1, HalvesOffer
  <2>. QED  BY <1>2, <2>1, <2>3, <2>4
<1>3. ASSUME NEW r \in table, r.space = t, Covers(r, p)
      PROVE  \E u \in new : u.space = t /\ Covers(u, p) /\ OfRegion(u, p) = OfRegion(r, p)
  <2>1. CASE r \notin Cut(table, s, at)
    BY <1>3, <2>1, SplitIs
  <2>2. CASE r \in Cut(table, s, at)
    <3>1. r.start < at /\ at < r.end
      BY <2>2, SplitIs
    <3>2. LeftOf(r, at) \in new /\ RightOf(r, at) \in new
      BY <2>2, SplitIs
    <3>3. /\ LeftOf(r, at).space = r.space /\ RightOf(r, at).space = r.space
          /\ LeftOf(r, at).start = r.start /\ LeftOf(r, at).end = at
          /\ RightOf(r, at).start = at /\ RightOf(r, at).end = r.end
      BY <1>1, <3>1, Halves
    <3>4. /\ OfRegion(LeftOf(r, at), p) = OfRegion(r, p)
          /\ OfRegion(RightOf(r, at), p) = OfRegion(r, p)
      BY <1>1, HalvesOffer
    <3>5. Covers(LeftOf(r, at), p) \/ Covers(RightOf(r, at), p)
      BY <1>1, <1>3, <3>3 DEF Covers
    <3>. QED  BY <1>3, <3>2, <3>3, <3>4, <3>5
  <2>. QED  BY <2>1, <2>2
<1>. HIDE DEF new
<1>4. Offers(new, t, p) \subseteq Offers(table, t, p)
  BY <1>2, Zenon DEF Offers
<1>5. Offers(table, t, p) \subseteq Offers(new, t, p)
  BY <1>3, Zenon DEF Offers
<1>. QED  BY <1>4, <1>5 DEF new

(* Neither does splitting at both ends of a range. *)
LEMMA SplitTwiceOffers ==
    ASSUME InOrder(regions), NEW s, NEW a \in Int, NEW e \in Int, NEW t, NEW p \in Int
    PROVE  Offers(Split(s, a, e), t, p) = Offers(regions, t, p)
<1>. DEFINE half == SplitAt(regions, s, a)
<1>1. InOrder(half)
  BY SplitInOrder
<1>2. Offers(half, t, p) = Offers(regions, t, p)
  BY SplitOffers
<1>. HIDE DEF half
<1>3. Offers(SplitAt(half, s, e), t, p) = Offers(half, t, p)
  BY <1>1, SplitOffers
<1>. QED  BY <1>2, <1>3 DEF Split, half

(* What is carved out of a space is exactly the range. *)
LEMMA CarvedOffers ==
    ASSUME InOrder(regions), NEW s, NEW a \in Int, NEW e \in Int, a < e, NEW t, NEW p \in Int
    PROVE  Offers(Carved(s, a, e), t, p) =
               IF t = s /\ p \in a .. e - 1 THEN {} ELSE Offers(regions, t, p)
<1>1. \A u \in Split(s, a, e) : u.start \in Int /\ u.end \in Int /\ u.start < u.end
  BY SplitTwice, VmAssumption DEF InOrder, Region, Pages
<1>2. /\ Carved(s, a, e) \subseteq Split(s, a, e)
      /\ \A u \in Carved(s, a, e) : u.space = s => u.end <= a \/ e <= u.start
  BY CarvedIs
<1>3. Offers(Split(s, a, e), t, p) = Offers(regions, t, p)
  BY SplitTwiceOffers
<1>4. CASE t = s /\ p \in a .. e - 1
  <2>1. \A u \in Carved(s, a, e) : u.space = s => ~Covers(u, p)
    BY <1>1, <1>2, <1>4 DEF Covers
  <2>. QED  BY <1>4, <2>1, NoOffer
<1>5. CASE ~(t = s /\ p \in a .. e - 1)
  <2>1. ASSUME NEW u \in Split(s, a, e), u.space = t, Covers(u, p)
        PROVE  u \in Carved(s, a, e)
    <3>1. ~(u.space = s /\ Within(u, a, e))
      BY <1>1, <1>5, <2>1 DEF Covers, Within
    <3>. QED  BY <3>1 DEF Carved
  <2>2. Offers(Carved(s, a, e), t, p) = Offers(Split(s, a, e), t, p)
    BY <1>2, <2>1 DEF Offers
  <2>. QED  BY <1>3, <1>5, <2>2
<1>. QED  BY <1>4, <1>5

(* A region that is added offers its pages, and nothing else. *)
LEMMA AddedElsewhere ==
    ASSUME NEW table, NEW r, NEW t, NEW p, ~(r.space = t /\ Covers(r, p))
    PROVE  Offers(table \cup {r}, t, p) = Offers(table, t, p)
BY DEF Offers

(* These pages being nobody's before, its word is the only one. *)
LEMMA AddedHere ==
    ASSUME NEW table, NEW r, NEW p, Covers(r, p), Offers(table, r.space, p) = {}
    PROVE  Only(table \cup {r}, r.space, p, OfRegion(r, p))
BY DEF Offers, Only

(* The protection of a range changes for every page of it, and only there. *)
WithProt(table, s, a, e, prot) ==
    {IF r.space = s /\ Within(r, a, e) THEN [r EXCEPT !.prot = prot] ELSE r : r \in table}

(* What a page is offered as, once its protection is changed. *)
Protected(offers, prot) == {[x EXCEPT !.prot = prot] : x \in offers}

(* Splitting at both ends first, mprotect changes whole regions. *)
LEMMA ProtectOffers ==
    ASSUME InOrder(regions), NEW s, NEW a \in Int, NEW e \in Int, NEW prot, NEW t, NEW p \in Int
    PROVE  Offers(WithProt(Split(s, a, e), s, a, e, prot), t, p) =
               IF t = s /\ p \in a .. e - 1
               THEN Protected(Offers(regions, t, p), prot)
               ELSE Offers(regions, t, p)
<1>. DEFINE old == Split(s, a, e)
            new == WithProt(old, s, a, e, prot)
            Changes(r) == r.space = s /\ Within(r, a, e)
            After(r) == IF Changes(r) THEN [r EXCEPT !.prot = prot] ELSE r
<1>1. \A u \in old : /\ u \in Region /\ u.start \in Int /\ u.end \in Int /\ u.start < u.end
                     /\ ~(u.space = s /\ u.start < a /\ a < u.end)
                     /\ ~(u.space = s /\ u.start < e /\ e < u.end)
  BY SplitTwice, VmAssumption DEF InOrder, Region, Pages
<1>2. Offers(old, t, p) = Offers(regions, t, p)
  BY SplitTwiceOffers
<1>. HIDE DEF old
<1>3. ASSUME NEW u \in old
      PROVE  /\ After(u).space = u.space /\ (Covers(After(u), p) <=> Covers(u, p))
             /\ OfRegion(After(u), p) = IF Changes(u) THEN [OfRegion(u, p) EXCEPT !.prot = prot]
                                        ELSE OfRegion(u, p)
  <2>1. CASE ~Changes(u)
    BY <2>1
  <2>2. CASE Changes(u)
    <3>. DEFINE v == [u EXCEPT !.prot = prot]
    <3>1. /\ v.space = u.space /\ v.start = u.start /\ v.end = u.end /\ v.prot = prot
          /\ v.file = u.file /\ v.offset = u.offset /\ v.shared = u.shared
      BY <1>1 DEF Region
    <3>2. After(u) = v
      BY <2>2
    <3>. HIDE DEF v
    <3>3. OfRegion(v, p) = [OfRegion(u, p) EXCEPT !.prot = prot]
      BY <3>1 DEF OfRegion, PageOf
    <3>4. Covers(v, p) <=> Covers(u, p)
      BY <3>1 DEF Covers
    <3>. QED  BY <2>2, <3>1, <3>2, <3>3, <3>4
  <2>. QED  BY <2>1, <2>2
<1>4. ASSUME NEW u \in old, u.space = t, Covers(u, p)
      PROVE  Changes(u) <=> t = s /\ p \in a .. e - 1
  BY <1>1, <1>4 DEF Covers, Within
<1>5. new = {After(r) : r \in old}
  BY DEF WithProt
<1>. HIDE DEF new, After, Changes
<1>6. Offers(new, t, p) = {OfRegion(After(r), p) : r \in {r \in old : r.space = t /\ Covers(r, p)}}
  BY <1>3, <1>5 DEF Offers
<1>7. CASE t = s /\ p \in a .. e - 1
  <2>1. Offers(new, t, p) = Protected(Offers(old, t, p), prot)
    BY <1>3, <1>4, <1>6, <1>7 DEF Offers, Protected
  <2>. QED  BY <1>2, <1>7, <2>1 DEF new, old
<1>8. CASE ~(t = s /\ p \in a .. e - 1)
  <2>1. Offers(new, t, p) = Offers(old, t, p)
    BY <1>3, <1>4, <1>6, <1>8 DEF Offers
  <2>. QED  BY <1>2, <1>8, <2>1 DEF new, old
<1>. QED  BY <1>7, <1>8

-----------------------------------------------------------------------------
(* Steps of the promise.                                                   *)

(* The edits of the range a .. z. *)
Edits(old, new, a, z) ==
    \/ Promise!Unmap(old, new, a .. z)
    \/ Promise!Grow(old, new, a .. z)
    \/ Promise!Store(old, new, a .. z)
    \/ \E prot \in Prots : Promise!Protect(old, new, a .. z, prot)
    \/ \E q \in Requests, fixed \in BOOLEAN : Promise!Map(old, new, a .. z, a, q, fixed)

(* An edit needs a range around all that changes. *)
LEMMA IsEdit ==
    ASSUME NEW old, NEW new, NEW a \in Pages, NEW z \in a .. UserEnd - 1,
           \A p \in Pages \ (a .. z) :
              /\ p \in DOMAIN old <=> p \in DOMAIN new
              /\ p \in DOMAIN old => old[p] = new[p],
           Edits(old, new, a, z)
    PROVE  Promise!Edit(old, new)
<1>1. Promise!Changed(old, new) \subseteq a .. z
  BY DEF Promise!Changed, Promise!Pages, Pages
<1>2. a .. z \in {a .. y : y \in a .. UserEnd - 1}
  OBVIOUS
<1>3. a \in Promise!Pages
  BY DEF Promise!Pages, Pages
<1>. DEFINE range == a .. z
<1>4. /\ range \in {a .. y : y \in a .. UserEnd - 1}
      /\ Promise!Changed(old, new) \subseteq range
      /\ \/ Promise!Unmap(old, new, range)
         \/ Promise!Grow(old, new, range)
         \/ Promise!Store(old, new, range)
         \/ \E prot \in Prots : Promise!Protect(old, new, range, prot)
         \/ \E q \in Requests, fixed \in BOOLEAN : Promise!Map(old, new, range, a, q, fixed)
  BY <1>1, <1>2, Zenon DEF Edits
<1>. HIDE DEF range
<1>. QED  BY <1>3, <1>4, Zenon DEF Promise!Edit

(* The other spaces look the same. *)
OthersKept(s) ==
    \A t \in Spaces : t # s =>
        (Live(t)' <=> Live(t)) /\ Picture(regions', ptes'[t], t) = Picture(regions, ptes[t], t)

(* A program edits its pages, is loaded, or ends. *)
LEMMA IsNext ==
    ASSUME NEW s \in Spaces, Shown = Pictures, Shown' = Pictures', OthersKept(s),
           \/ /\ Live(s) /\ Live(s)'
              /\ Promise!Edit(Picture(regions, ptes[s], s), Picture(regions', ptes'[s], s))
           \/ ~Live(s) /\ Live(s)' /\ Picture(regions', ptes'[s], s) = Promise!Loaded
           \/ Live(s) /\ ~Live(s)'
    PROVE  [Promise!Next]_Promise!vars
<1>. DEFINE was == Pictures
            is == Pictures'
<1>1. /\ DOMAIN was = {t \in Spaces : Live(t)}
      /\ \A t \in DOMAIN was : was[t] = Picture(regions, ptes[t], t)
  BY DEF Pictures
<1>2. /\ DOMAIN is = {t \in Spaces : Live(t)'}
      /\ \A t \in DOMAIN is : is[t] = Picture(regions', ptes'[t], t)
  BY DEF Pictures
<1>. HIDE DEF was, is
<1>3. /\ (DOMAIN is) \ {s} = (DOMAIN was) \ {s}
      /\ \A t \in (DOMAIN is) \ {s} : is[t] = was[t]
  BY <1>1, <1>2 DEF OthersKept
<1>4. \/ s \in DOMAIN was /\ s \in DOMAIN is /\ Promise!Edit(was[s], is[s])
      \/ s \notin DOMAIN was /\ s \in DOMAIN is /\ is[s] = Promise!Loaded
      \/ s \in DOMAIN was /\ s \notin DOMAIN is
  BY <1>1, <1>2
<1>5. CASE is = was
  <2>1. Shown' = Shown
    BY <1>5 DEF is, was
  <2>. QED  BY <2>1, Zenon DEF Promise!vars, Shown
<1>6. CASE is # was
  <2>1. \E w \in {Shown}, i \in {Shown'}, u \in Spaces :
          /\ i # w
          /\ (DOMAIN i) \ {u} = (DOMAIN w) \ {u}
          /\ \A t \in (DOMAIN i) \ {u} : i[t] = w[t]
          /\ \/ u \in DOMAIN w /\ u \in DOMAIN i /\ Promise!Edit(w[u], i[u])
             \/ u \notin DOMAIN w /\ u \in DOMAIN i /\ i[u] = Promise!Loaded
             \/ u \in DOMAIN w /\ u \notin DOMAIN i
    <3>1. Shown = was /\ Shown' = is
      BY DEF was, is
    <3>. QED  BY <1>3, <1>4, <1>6, <3>1, Zenon
  <2>2. Promise!Next
    BY <2>1, Zenon DEF Promise!Next, Shown
  <2>. QED  BY <2>2
<1>. QED  BY <1>5, <1>6

(* A step that shows nothing. *)
LEMMA IsStutter ==
    ASSUME Shown = Pictures, Shown' = Pictures',
           \A t \in Spaces : (Live(t)' <=> Live(t)),
           \A t \in Spaces : Live(t) => Picture(regions', ptes'[t], t) = Picture(regions, ptes[t], t)
    PROVE  UNCHANGED Promise!vars
<1>1. {t \in Spaces : Live(t)'} = {t \in Spaces : Live(t)}
  OBVIOUS
<1>2. Pictures' = Pictures
  BY <1>1 DEF Pictures
<1>3. Shown' = Shown
  BY <1>2
<1>. QED  BY <1>3, Zenon DEF Promise!vars, Shown

-----------------------------------------------------------------------------
(* Where pictures agree.                                                   *)

(* What the invariant says of the parts of a picture. *)
LEMMA Sound == IInv => InOrder(regions) /\ \A t \in Spaces : Fit(ptes[t])
BY DEF IInv, PagesOK, Fit

(* And after a step. *)
LEMMA SoundNext ==
    ASSUME IInv'
    PROVE  InOrder(regions') /\ \A t \in Spaces : Fit(ptes'[t])
<1>1. (InOrder(regions) /\ \A t \in Spaces : Fit(ptes[t]))'
  BY Sound, PTL
<1>. QED  BY <1>1 DEF InOrder, Apart, Fit

(* At most one region has something to say about a page. *)
LEMMA OffersOne ==
    ASSUME NEW table, InOrder(table), NEW s, NEW p \in Pages, Offers(table, s, p) # {}
    PROVE  \E x : Only(table, s, p, x)
<1>1. PICK r \in table : r.space = s /\ Covers(r, p)
  BY NoOffer
<1>2. p \in Int
  BY DEF Pages
<1>3. Only(table, s, p, OfRegion(r, p))
  BY <1>1, <1>2, OneOffer
<1>. QED  BY <1>3

(* A page that regions offer and page tables hold as before looks as       *)
(* before.                                                                 *)
LEMMA SameAt ==
    ASSUME NEW table, InOrder(table), NEW other, InOrder(other),
           NEW entries, Fit(entries), NEW others, Fit(others), NEW s, NEW p \in Pages,
           Offers(other, s, p) = Offers(table, s, p),
           p \in DOMAIN others <=> p \in DOMAIN entries,
           p \in DOMAIN entries => others[p] = entries[p]
    PROVE  /\ p \in DOMAIN Picture(table, entries, s) <=> p \in DOMAIN Picture(other, others, s)
           /\ p \in DOMAIN Picture(table, entries, s) =>
                 Picture(table, entries, s)[p] = Picture(other, others, s)[p]
<1>. DEFINE old == Picture(table, entries, s)
            new == Picture(other, others, s)
<1>1. /\ p \in DOMAIN old <=> p \in DOMAIN entries \/ Offers(table, s, p) # {}
      /\ p \in DOMAIN new <=> p \in DOMAIN others \/ Offers(other, s, p) # {}
  BY PictureHas, Zenon
<1>2. CASE p \in DOMAIN entries
  <2>1. p \in DOMAIN others
    BY <1>2
  <2>2. old[p] = [prot |-> entries[p].prot, data |-> entries[p].data,
                  shared |-> Sharing(table, s, p)]
    BY <1>2, HeldAt
  <2>3. new[p] = [prot |-> others[p].prot, data |-> others[p].data,
                  shared |-> Sharing(other, s, p)]
    BY <2>1, HeldAt
  <2>4. Sharing(other, s, p) = Sharing(table, s, p)
    BY Zenon DEF Sharing
  <2>. HIDE DEF old, new
  <2>5. old[p] = new[p]
    BY <1>2, <2>2, <2>3, <2>4, Zenon
  <2>. QED  BY <1>1, <1>2, <2>1, <2>5 DEF old, new
<1>3. CASE p \notin DOMAIN entries
  <2>1. ASSUME Offers(table, s, p) # {}
        PROVE  old[p] = new[p]
    <3>1. PICK x : Only(table, s, p, x)
      BY <2>1, OffersOne
    <3>2. old[p] = x
      BY <1>3, <3>1, OfferedAt
    <3>3. Only(other, s, p, x)
      BY <3>1 DEF Only
    <3>4. new[p] = x
      BY <1>3, <3>3, OfferedAt
    <3>. QED  BY <3>2, <3>4
  <2>. HIDE DEF old, new
  <2>. QED  BY <1>1, <1>3, <2>1, Zenon DEF old, new
<1>. QED  BY <1>2, <1>3

(* A space whose pages are all offered and held as before looks as before. *)
LEMMA SamePicture ==
    ASSUME NEW table, InOrder(table), NEW other, InOrder(other), NEW entries, Fit(entries),
           NEW others, Fit(others), NEW s,
           \A p \in Pages : Offers(other, s, p) = Offers(table, s, p),
           \A p \in Pages : /\ p \in DOMAIN others <=> p \in DOMAIN entries
                            /\ p \in DOMAIN entries => others[p] = entries[p]
    PROVE  Picture(other, others, s) = Picture(table, entries, s)
<1>. DEFINE old == Picture(table, entries, s)
            new == Picture(other, others, s)
<1>1. \A p : p \in DOMAIN old \/ p \in DOMAIN new => p \in Pages
  BY PictureHas
<1>2. \A p \in Pages : /\ p \in DOMAIN old <=> p \in DOMAIN new
                       /\ p \in DOMAIN old => old[p] = new[p]
  BY SameAt
<1>3. old = [p \in DOMAIN old |-> old[p]] /\ new = [p \in DOMAIN new |-> new[p]]
  BY DEF Picture
<1>. HIDE DEF old, new
<1>4. DOMAIN old = DOMAIN new
  BY <1>1, <1>2
<1>5. old = new
  BY <1>1, <1>2, <1>3, <1>4
<1>. QED  BY <1>5 DEF old, new

-----------------------------------------------------------------------------
(* Steps of the programs.                                                  *)

(* A step that makes `table' of the regions leaves alone all but the       *)
(* pages `range' of a space.                                               *)
OnlyIn(table, s, range) ==
    /\ \A t \in Spaces \ {s} : nodes'[t] = nodes[t] /\ ptes'[t] = ptes[t]
    /\ \A t \in Spaces, p \in Pages :
          t # s \/ p \notin range => Offers(table, t, p) = Offers(regions, t, p)
    /\ \A p \in Pages \ range :
          /\ p \in DOMAIN ptes'[s] <=> p \in DOMAIN ptes[s]
          /\ p \in DOMAIN ptes[s] => ptes'[s][p] = ptes[s][p]

(* Nothing is on the pages `range'. *)
Vacant(table, entries, s, range) ==
    \A p \in range : Offers(table, s, p) = {} /\ p \notin DOMAIN entries

(* So the other spaces look as before. *)
LEMMA KeepsOthers ==
    ASSUME IInv, IInv', NEW s \in Spaces, NEW range, OnlyIn(regions', s, range)
    PROVE  OthersKept(s)
<1>1. ASSUME NEW t \in Spaces, t # s
      PROVE  Picture(regions', ptes'[t], t) = Picture(regions, ptes[t], t)
  <2>1. InOrder(regions) /\ InOrder(regions') /\ Fit(ptes[t]) /\ ptes'[t] = ptes[t]
    BY <1>1, Sound, SoundNext DEF OnlyIn
  <2>2. \A p \in Pages : Offers(regions', t, p) = Offers(regions, t, p)
    BY <1>1 DEF OnlyIn
  <2>. QED  BY <2>1, <2>2, SamePicture
<1>2. \A t \in Spaces : t # s => (Live(t)' <=> Live(t))
  BY DEF OnlyIn, Live
<1>. QED  BY <1>1, <1>2 DEF OthersKept

(* A step of a program that makes such a change keeps the promise if what  *)
(* happens in the range is one of the edits.                               *)
LEMMA EditRefines ==
    ASSUME IInv, IInv', NEW s \in Spaces, Live(s), Live(s)',
           NEW a \in Pages, NEW z \in a .. UserEnd - 1, OnlyIn(regions', s, a .. z),
           Edits(Picture(regions, ptes[s], s), Picture(regions', ptes'[s], s), a, z)
    PROVE  [Promise!Next]_Promise!vars
<1>. DEFINE old == Picture(regions, ptes[s], s)
            new == Picture(regions', ptes'[s], s)
<1>1. \A p \in Pages \ (a .. z) :
         /\ p \in DOMAIN old <=> p \in DOMAIN new
         /\ p \in DOMAIN old => old[p] = new[p]
  <2>1. /\ InOrder(regions) /\ InOrder(regions') /\ Fit(ptes[s]) /\ Fit(ptes'[s])
    BY Sound, SoundNext
  <2>2. ASSUME NEW p \in Pages \ (a .. z)
        PROVE  /\ Offers(regions', s, p) = Offers(regions, s, p)
               /\ p \in DOMAIN ptes'[s] <=> p \in DOMAIN ptes[s]
               /\ p \in DOMAIN ptes[s] => ptes'[s][p] = ptes[s][p]
    BY DEF OnlyIn
  <2>. QED  BY <2>1, <2>2, SameAt
<1>2. Promise!Edit(old, new)
  BY <1>1, IsEdit
<1>3. OthersKept(s)
  BY KeepsOthers
<1>. QED  BY <1>2, <1>3, ShownIs, ShownIsNext, IsNext

(* What regions offer is backed as before, or the page is new and offered. *)
LEMMA BackedStep ==
    ASSUME Backed,
           \A t \in Spaces, p \in Pages : p \in DOMAIN ptes'[t] /\ p >= MmapBase =>
              \/ Offers(regions', t, p) # {}
              \/ p \in DOMAIN ptes[t] /\ Offers(regions', t, p) = Offers(regions, t, p),
           \A t \in Spaces : Fit(ptes'[t])
    PROVE  Backed'
<1>1. ASSUME NEW t \in Spaces, NEW p \in DOMAIN ptes'[t], p >= MmapBase
      PROVE  Offers(regions', t, p) # {}
  <2>1. p \in Pages
    BY DEF Fit
  <2>. QED  BY <1>1, <2>1 DEF Backed
<1>. QED  BY <1>1 DEF Backed

(* A new region on pages that are free by then shows what was asked for,  *)
(* and nothing else changes.                                               *)
LEMMA NewMapping ==
    ASSUME IInv, IInv', NEW s \in Spaces, Live(s), Live(s)', NEW a \in Pages,
           NEW e \in 1 .. UserEnd, a < e, NEW q \in Requests,
           NEW table, regions' = table \cup {NewRegion(s, a, e, q)},
           OnlyIn(table, s, a .. e - 1), Vacant(table, ptes'[s], s, a .. e - 1),
           NEW fixed \in BOOLEAN, fixed \/ Vacant(regions, ptes[s], s, a .. e - 1)
    PROVE  [Promise!Next]_Promise!vars /\ OnlyIn(regions', s, a .. e - 1)
           /\ \A p \in a .. e - 1 : Offers(regions', s, p) # {}
<1>. DEFINE r == NewRegion(s, a, e, q)
            old == Picture(regions, ptes[s], s)
            new == Picture(regions', ptes'[s], s)
            range == a .. e - 1
<1>1. /\ r.space = s /\ r.start = a /\ r.end = e
      /\ r.prot = q.prot /\ r.shared = q.shared /\ r.file = q.file /\ r.offset = q.offset
  BY DEF NewRegion
<1>2. regions' = table \cup {r}
  OBVIOUS
<1>. HIDE DEF r
<1>3. InOrder(regions) /\ InOrder(regions') /\ Fit(ptes[s]) /\ Fit(ptes'[s])
  BY Sound, SoundNext
<1>4. a \in Int /\ e \in Int /\ e - 1 \in a .. UserEnd - 1
  BY VmAssumption DEF Pages
<1>5. \A p \in Pages : Covers(r, p) <=> p \in range
  BY <1>1, <1>4 DEF Covers, Pages
<1>6. \A p \in range : p \in Pages
  BY <1>4, VmAssumption DEF Pages
<1>. HIDE DEF range
<1>7. ASSUME NEW t \in Spaces, NEW p \in Pages, t # s \/ p \notin range
      PROVE  Offers(regions', t, p) = Offers(regions, t, p)
  <2>1. ~(r.space = t /\ Covers(r, p))
    BY <1>1, <1>5, <1>7
  <2>2. Offers(table \cup {r}, t, p) = Offers(table, t, p)
    BY <2>1, AddedElsewhere
  <2>. QED  BY <1>2, <1>7, <2>2 DEF range, OnlyIn
<1>8. ASSUME NEW p \in range
      PROVE  Only(regions', s, p, OfRegion(r, p))
  <2>1. Covers(r, p) /\ Offers(table, r.space, p) = {}
    BY <1>1, <1>5, <1>6 DEF range, Vacant
  <2>2. Only(table \cup {r}, r.space, p, OfRegion(r, p))
    BY <2>1, AddedHere
  <2>. QED  BY <1>1, <1>2, <2>2
<1>9. ASSUME NEW p \in range
      PROVE  /\ p \in DOMAIN new
             /\ new[p] = Promise!Page(q.prot, Contents(q.file, q.offset + (p - a)), q.shared)
  <2>1. p \notin DOMAIN ptes'[s] /\ p \in Pages /\ Only(regions', s, p, OfRegion(r, p))
    BY <1>6, <1>8 DEF range, Vacant
  <2>2. new[p] = OfRegion(r, p)
    BY <1>3, <2>1, OfferedAt
  <2>3. OfRegion(r, p) = Promise!Page(q.prot, Contents(q.file, q.offset + (p - a)), q.shared)
    BY <1>1, Zenon DEF OfRegion, PageOf, Promise!Page
  <2>4. p \in DOMAIN new
    BY <1>3, <2>1, PictureHas DEF Only
  <2>. HIDE DEF new
  <2>. QED  BY <2>2, <2>3, <2>4
<1>10. fixed \/ range \cap DOMAIN old = {}
  <2>1. ASSUME ~fixed, NEW p \in range
        PROVE  p \notin DOMAIN old
    <3>1. Offers(regions, s, p) = {} /\ p \notin DOMAIN ptes[s]
      BY <2>1 DEF range, Vacant
    <3>. QED  BY <1>3, <3>1, PictureHas
  <2>. QED  BY <2>1
<1>11. OnlyIn(regions', s, a .. e - 1)
  BY <1>7 DEF OnlyIn, range
<1>. HIDE DEF old, new
<1>12. Promise!Map(old, new, range, a, q, fixed)
  <2>1. range \subseteq DOMAIN new
    BY <1>9
  <2>. QED  BY <1>9, <1>10, <2>1, Zenon DEF Promise!Map
<1>13. [Promise!Next]_Promise!vars
  <2>1. Edits(old, new, a, e - 1)
    BY <1>12, Zenon DEF Edits, range
  <2>. QED  BY <1>4, <1>11, <2>1, EditRefines DEF old, new
<1>14. \A p \in range : Offers(regions', s, p) # {}
  BY <1>8 DEF Only
<1>. QED  BY <1>11, <1>13, <1>14 DEF range

(* Map: the new region starts where nothing of the space was. *)
LEMMA MapRefines ==
    ASSUME IInv, IInv', Backed, NEW s \in Spaces, Live(s), NEW n \in 1 .. UserEnd,
           NEW q \in Requests, Map(s, n, q)
    PROVE  Backed' /\ [Promise!Next]_Promise!vars
<1>. DEFINE a == TopOf(s)
            e == a + n
<1>1. /\ e <= UserEnd /\ regions' = regions \cup {NewRegion(s, a, e, q)}
      /\ UNCHANGED <<nodes, ptes>>
  BY DEF Map, Become
<1>2. InOrder(regions) /\ \A t \in Spaces : Fit(ptes'[t])
  BY Sound, SoundNext
<1>3. /\ a \in Nat /\ a >= MmapBase
      /\ \A u \in regions : u.space = s => u.end <= a
  BY <1>2, TopIsAfter
<1>4. a \in Pages /\ e \in 1 .. UserEnd /\ a < e
  BY <1>1, <1>3, VmAssumption DEF Pages
<1>5. \A p \in a .. e - 1 : p \in Pages /\ p >= MmapBase
  BY <1>3, <1>4, VmAssumption, SMTT(40) DEF Pages
<1>. HIDE DEF a, e
<1>6. ASSUME NEW p \in a .. e - 1
      PROVE  Offers(regions, s, p) = {} /\ p \notin DOMAIN ptes[s]
  <2>1. ASSUME NEW u \in regions, u.space = s, Covers(u, p)
        PROVE  FALSE
    <3>1. u.end \in Int /\ u.end <= a
      BY <1>2, <1>3, <2>1, VmAssumption DEF InOrder, Region
    <3>. QED  BY <1>3, <1>4, <2>1, <3>1 DEF Covers
  <2>2. Offers(regions, s, p) = {}
    BY <2>1, NoOffer
  <2>. QED  BY <1>5, <2>2 DEF Backed
<1>7. Live(s)'
  BY <1>1 DEF Live
<1>8. OnlyIn(regions, s, a .. e - 1) /\ Vacant(regions, ptes[s], s, a .. e - 1)
  BY <1>1, <1>6 DEF OnlyIn, Vacant
<1>9. [Promise!Next]_Promise!vars /\ OnlyIn(regions', s, a .. e - 1)
  <2>1. Vacant(regions, ptes'[s], s, a .. e - 1)
    BY <1>1, <1>8
  <2>. QED  BY <1>1, <1>4, <1>7, <1>8, <2>1, NewMapping
<1>10. \A t \in Spaces, p \in Pages : p \in DOMAIN ptes'[t] =>
         p \in DOMAIN ptes[t] /\ Offers(regions', t, p) = Offers(regions, t, p)
  BY <1>1, <1>6, <1>9 DEF OnlyIn
<1>11. Backed'
  BY <1>2, <1>10, BackedStep
<1>. QED  BY <1>9, <1>11

(* Unmapped pages lose their entries, and no others. *)
LEMMA FreedEntries ==
    ASSUME IInv, NEW s \in Spaces, Live(s), NEW P \in SUBSET Pages, FreePages(s, P), orphans' = orphans
    PROVE  /\ \A t \in Spaces \ {s} : nodes'[t] = nodes[t] /\ ptes'[t] = ptes[t]
           /\ \A p : p \in DOMAIN ptes'[s] <=> p \in DOMAIN ptes[s] /\ p \notin P
           /\ \A p \in DOMAIN ptes'[s] : ptes'[s][p] = ptes[s][p]
           /\ Live(s)'
<1>1. DOMAIN nodes = Spaces /\ DOMAIN ptes = Spaces
  BY DEF IInv, PagesOK
<1>2. /\ nodes' = [nodes EXCEPT ![s] = Restrict(nodes[s], DOMAIN nodes[s] \ Leaves(s, P))]
      /\ ptes' = [ptes EXCEPT ![s] = Restrict(ptes[s], DOMAIN ptes[s] \ P)]
  BY DEF FreePages
<1>3. \A t \in Spaces \ {s} : nodes'[t] = nodes[t] /\ ptes'[t] = ptes[t]
  BY <1>1, <1>2
<1>4. /\ DOMAIN ptes'[s] = (DOMAIN ptes[s]) \ P
      /\ \A p \in DOMAIN ptes'[s] : ptes'[s][p] = ptes[s][p]
  BY <1>1, <1>2 DEF Restrict
<1>5. Live(s)'
  BY RemovePages
<1>. QED  BY <1>3, <1>4, <1>5

(* MapFixed: what was in the range is gone before the region is there. *)
LEMMA MapFixedRefines ==
    ASSUME IInv, IInv', Backed, NEW s \in Spaces, Live(s), NEW a \in Touched[s],
           NEW z \in Touched[s], NEW q \in Requests, MapFixed(s, a, z + 1, q)
    PROVE  Backed' /\ [Promise!Next]_Promise!vars
<1>. DEFINE e == z + 1
            range == a .. e - 1
            table == Carved(s, a, e)
<1>1. /\ a < e /\ FreePages(s, range) /\ orphans' = orphans
      /\ regions' = table \cup {NewRegion(s, a, e, q)}
  BY DEF MapFixed, Become
<1>2. a \in Pages /\ e \in 1 .. UserEnd /\ a \in Int /\ e \in Int /\ range \in SUBSET Pages
  BY RangeIs
<1>3. InOrder(regions) /\ \A t \in Spaces : Fit(ptes'[t])
  BY Sound, SoundNext
<1>. HIDE DEF e
<1>4. /\ \A t \in Spaces \ {s} : nodes'[t] = nodes[t] /\ ptes'[t] = ptes[t]
      /\ \A p : p \in DOMAIN ptes'[s] <=> p \in DOMAIN ptes[s] /\ p \notin range
      /\ \A p \in DOMAIN ptes'[s] : ptes'[s][p] = ptes[s][p]
      /\ Live(s)'
  BY <1>1, <1>2, FreedEntries
<1>5. \A t, p : p \in Int =>
         Offers(table, t, p) = IF t = s /\ p \in range THEN {} ELSE Offers(regions, t, p)
  BY <1>1, <1>2, <1>3, CarvedOffers
<1>. HIDE DEF table
<1>6. OnlyIn(table, s, range) /\ Vacant(table, ptes'[s], s, range)
  <2>1. \A p \in Pages : p \in Int
    BY DEF Pages
  <2>2. \A p \in range : Offers(table, s, p) = {} /\ p \notin DOMAIN ptes'[s]
    BY <1>2, <1>4, <1>5, <2>1
  <2>3. \A t \in Spaces, p \in Pages :
           t # s \/ p \notin range => Offers(table, t, p) = Offers(regions, t, p)
    BY <1>5, <2>1
  <2>. QED  BY <1>4, <2>2, <2>3 DEF OnlyIn, Vacant
<1>7. /\ [Promise!Next]_Promise!vars /\ OnlyIn(regions', s, range)
      /\ \A p \in range : Offers(regions', s, p) # {}
  BY <1>1, <1>2, <1>4, <1>6, NewMapping
<1>8. \A t \in Spaces, p \in Pages : p \in DOMAIN ptes'[t] =>
         p \in DOMAIN ptes[t] /\ Offers(regions', t, p) = Offers(regions, t, p)
  <2>. HIDE DEF range
  <2>. QED  BY <1>4, <1>7 DEF OnlyIn
<1>9. Backed'
  BY <1>3, <1>8, BackedStep
<1>. QED  BY <1>7, <1>9

(* Unmap: nothing of the range is left. *)
LEMMA UnmapRefines ==
    ASSUME IInv, IInv', Backed, NEW s \in Spaces, Live(s), NEW a \in Touched[s],
           NEW z \in Touched[s], Unmap(s, a, z + 1)
    PROVE  Backed' /\ [Promise!Next]_Promise!vars
<1>. DEFINE e == z + 1
            range == a .. e - 1
            old == Picture(regions, ptes[s], s)
            new == Picture(regions', ptes'[s], s)
<1>1. /\ a < e /\ FreePages(s, range) /\ orphans' = orphans
      /\ regions' = Carved(s, a, e)
  BY DEF Unmap, Become
<1>2. a \in Pages /\ e \in 1 .. UserEnd /\ a \in Int /\ e \in Int /\ range \in SUBSET Pages
  BY RangeIs
<1>3. InOrder(regions) /\ InOrder(regions') /\ \A t \in Spaces : Fit(ptes'[t])
  BY Sound, SoundNext
<1>. HIDE DEF e
<1>4. /\ \A t \in Spaces \ {s} : nodes'[t] = nodes[t] /\ ptes'[t] = ptes[t]
      /\ \A p : p \in DOMAIN ptes'[s] <=> p \in DOMAIN ptes[s] /\ p \notin range
      /\ \A p \in DOMAIN ptes'[s] : ptes'[s][p] = ptes[s][p]
      /\ Live(s)'
  BY <1>1, <1>2, FreedEntries
<1>5. \A t, p : p \in Int =>
         Offers(regions', t, p) = IF t = s /\ p \in range THEN {} ELSE Offers(regions, t, p)
  BY <1>1, <1>2, <1>3, CarvedOffers
<1>6. OnlyIn(regions', s, range)
  <2>1. \A p \in Pages : p \in Int
    BY DEF Pages
  <2>2. \A t \in Spaces, p \in Pages :
           t # s \/ p \notin range => Offers(regions', t, p) = Offers(regions, t, p)
    BY <1>5, <2>1
  <2>. QED  BY <1>4, <2>2 DEF OnlyIn
<1>7. Promise!Unmap(old, new, range)
  <2>1. ASSUME NEW p \in range
        PROVE  p \notin DOMAIN new
    <3>1. p \in Int /\ p \notin DOMAIN ptes'[s]
      BY <1>2, <1>4 DEF Pages
    <3>2. Offers(regions', s, p) = {}
      BY <1>5, <3>1
    <3>. QED  BY <1>3, <3>1, <3>2, PictureHas
  <2>. QED  BY <2>1 DEF Promise!Unmap
<1>. HIDE DEF old, new
<1>8. [Promise!Next]_Promise!vars
  <2>1. Edits(old, new, a, e - 1)
    BY <1>7, Zenon DEF Edits
  <2>2. e - 1 \in a .. UserEnd - 1
    BY <1>1, <1>2, VmAssumption
  <2>. QED  BY <1>2, <1>4, <1>6, <2>1, <2>2, EditRefines DEF old, new
<1>9. \A t \in Spaces, p \in Pages : p \in DOMAIN ptes'[t] =>
         p \in DOMAIN ptes[t] /\ Offers(regions', t, p) = Offers(regions, t, p)
  <2>. HIDE DEF range
  <2>. QED  BY <1>4, <1>6 DEF OnlyIn
<1>10. Backed'
  BY <1>3, <1>9, BackedStep
<1>. QED  BY <1>8, <1>10

(* Protect: what a page of the range shows but for its protection stays,   *)
(* and a shared one does not become writable.                              *)
LEMMA ProtectPage ==
    ASSUME IInv, IInv', NEW s \in Spaces, NEW a \in Int, NEW e \in Int, NEW prot,
           MayProtect(s, a .. e - 1, prot), NEW p \in Pages, p \in a .. e - 1,
           Offers(regions', s, p) = Protected(Offers(regions, s, p), prot),
           p \in DOMAIN ptes'[s] <=> p \in DOMAIN ptes[s],
           p \in DOMAIN ptes[s] => ptes'[s][p] = [ptes[s][p] EXCEPT !.prot = prot]
    PROVE  /\ p \in DOMAIN Picture(regions, ptes[s], s) /\ p \in DOMAIN Picture(regions', ptes'[s], s)
           /\ Picture(regions', ptes'[s], s)[p] = [Picture(regions, ptes[s], s)[p] EXCEPT !.prot = prot]
           /\ "w" \in prot => ~Picture(regions, ptes[s], s)[p].shared
<1>. DEFINE old == Picture(regions, ptes[s], s)
            new == Picture(regions', ptes'[s], s)
<1>1. InOrder(regions) /\ InOrder(regions') /\ Fit(ptes[s]) /\ Fit(ptes'[s])
  BY Sound, SoundNext
<1>2. p \in DOMAIN ptes[s] <=> Resident(s, p)
  BY DEF IInv, PagesOK
<1>3. p \in DOMAIN ptes[s] \/ Offers(regions, s, p) # {}
  BY <1>2, NoOffer DEF MayProtect, Of
<1>4. p \in DOMAIN old
  BY <1>1, <1>3, PictureHas
<1>5. p \in DOMAIN new
  <2>1. p \in DOMAIN ptes'[s] \/ Offers(regions', s, p) # {}
    BY <1>3 DEF Protected
  <2>. QED  BY <1>1, <2>1, PictureHas
<1>6. ASSUME "w" \in prot, NEW x \in Offers(regions, s, p)
      PROVE  ~x.shared
  <2>1. PICK r \in regions : r.space = s /\ Covers(r, p) /\ x = OfRegion(r, p)
    BY <1>6 DEF Offers
  <2>2. ~r.shared
    BY <1>6, <2>1 DEF MayProtect, Of
  <2>3. x.shared = r.shared
    BY <2>1 DEF OfRegion
  <2>. QED  BY <2>2, <2>3
<1>7. CASE p \in DOMAIN ptes[s]
  <2>. DEFINE was == Sharing(regions, s, p)
              is == Sharing(regions', s, p)
  <2>1. old[p] = [prot |-> ptes[s][p].prot, data |-> ptes[s][p].data, shared |-> was]
    BY <1>1, <1>7, HeldAt
  <2>2. new[p] = [prot |-> ptes'[s][p].prot, data |-> ptes'[s][p].data, shared |-> is]
    BY <1>1, <1>7, HeldAt
  <2>3. Entry(ptes[s][p])
    BY <1>1, <1>7 DEF Fit
  <2>4. ptes'[s][p].prot = prot /\ ptes'[s][p].data = ptes[s][p].data
    BY <1>7, <2>3 DEF Entry
  <2>5. is = was
    <3>1. ASSUME NEW x \in Offers(regions, s, p)
          PROVE  [x EXCEPT !.prot = prot].shared = x.shared
      <4>1. PICK r : x = OfRegion(r, p)
        BY <3>1 DEF Offers
      <4>. QED  BY <4>1 DEF OfRegion
    <3>2. is <=> \E x \in Offers(regions, s, p) : [x EXCEPT !.prot = prot].shared
      BY Zenon DEF Sharing, Protected
    <3>3. is <=> was
      BY <3>1, <3>2, Zenon DEF Sharing
    <3>4. is \in BOOLEAN /\ was \in BOOLEAN
      BY Zenon DEF Sharing
    <3>. HIDE DEF is, was
    <3>. QED  BY <3>3, <3>4
  <2>6. "w" \in prot => ~was
    BY <1>6 DEF Sharing
  <2>. HIDE DEF is, was, old, new
  <2>7. new[p] = [old[p] EXCEPT !.prot = prot]
    <3>1. [old[p] EXCEPT !.prot = prot] =
             [prot |-> prot, data |-> ptes[s][p].data, shared |-> was]
      BY <2>1
    <3>. QED  BY <2>2, <2>4, <2>5, <3>1, Zenon
  <2>8. old[p].shared = was
    BY <2>1
  <2>. QED  BY <1>4, <1>5, <2>6, <2>7, <2>8, Zenon DEF old, new
<1>8. CASE p \notin DOMAIN ptes[s]
  <2>1. PICK x : Only(regions, s, p, x)
    BY <1>1, <1>3, <1>8, OffersOne
  <2>2. old[p] = x
    BY <1>1, <1>8, <2>1, OfferedAt
  <2>3. Only(regions', s, p, [x EXCEPT !.prot = prot])
    BY <2>1 DEF Only, Protected
  <2>4. new[p] = [x EXCEPT !.prot = prot]
    <3>1. p \notin DOMAIN ptes'[s]
      BY <1>8
    <3>. DEFINE y == [x EXCEPT !.prot = prot]
    <3>2. Only(regions', s, p, y)
      BY <2>3
    <3>. HIDE DEF y
    <3>3. new[p] = y
      BY <1>1, <3>1, <3>2, OfferedAt
    <3>. QED  BY <3>3 DEF y
  <2>5. x \in Offers(regions, s, p)
    BY <2>1 DEF Only
  <2>. HIDE DEF old, new
  <2>. QED  BY <1>4, <1>5, <1>6, <2>2, <2>4, <2>5, Zenon DEF old, new
<1>. QED  BY <1>7, <1>8

(* So it keeps the promise. *)
LEMMA ProtectRefines ==
    ASSUME IInv, IInv', Backed, NEW s \in Spaces, Live(s), NEW a \in Touched[s],
           NEW z \in Touched[s], NEW prot \in Prots, Protect(s, a, z + 1, prot)
    PROVE  Backed' /\ [Promise!Next]_Promise!vars
<1>. DEFINE e == z + 1
            range == a .. e - 1
            old == Picture(regions, ptes[s], s)
            new == Picture(regions', ptes'[s], s)
<1>1. /\ a < e /\ MayProtect(s, range, prot) /\ UNCHANGED nodes
      /\ regions' = WithProt(Split(s, a, e), s, a, e, prot)
      /\ ptes' = [ptes EXCEPT ![s] =
             [p \in DOMAIN ptes[s] |-> IF p \in range THEN [ptes[s][p] EXCEPT !.prot = prot]
                                       ELSE ptes[s][p]]]
  BY DEF Protect, Become, WithProt
<1>2. a \in Pages /\ e \in 1 .. UserEnd /\ a \in Int /\ e \in Int /\ range \in SUBSET Pages
  BY RangeIs
<1>3. InOrder(regions) /\ InOrder(regions') /\ \A t \in Spaces : Fit(ptes'[t])
  BY Sound, SoundNext
<1>. HIDE DEF e
<1>4. \A t, p : p \in Int =>
         Offers(regions', t, p) = IF t = s /\ p \in range
                                  THEN Protected(Offers(regions, t, p), prot)
                                  ELSE Offers(regions, t, p)
  BY <1>1, <1>2, <1>3, ProtectOffers
<1>5. \A p \in Pages : p \in Int
  BY DEF Pages
<1>6. /\ \A t \in Spaces \ {s} : nodes'[t] = nodes[t] /\ ptes'[t] = ptes[t]
      /\ DOMAIN ptes'[s] = DOMAIN ptes[s]
      /\ \A p \in DOMAIN ptes[s] : ptes'[s][p] =
            IF p \in range THEN [ptes[s][p] EXCEPT !.prot = prot] ELSE ptes[s][p]
  <2>1. DOMAIN ptes = Spaces
    BY DEF IInv, PagesOK
  <2>. HIDE DEF range
  <2>. QED  BY <1>1, <2>1
<1>7. \A t \in Spaces, p \in Pages :
         t # s \/ p \notin range => Offers(regions', t, p) = Offers(regions, t, p)
  BY <1>4, <1>5
<1>8. \A p \in range : Offers(regions', s, p) = Protected(Offers(regions, s, p), prot)
  BY <1>2, <1>4, <1>5
<1>9. ASSUME NEW p \in range
      PROVE  /\ p \in DOMAIN old /\ p \in DOMAIN new
             /\ new[p] = [old[p] EXCEPT !.prot = prot]
             /\ "w" \in prot => ~old[p].shared
  <2>1. p \in Pages /\ p \in a .. e - 1 /\ MayProtect(s, a .. e - 1, prot)
    BY <1>1, <1>2
  <2>2. Offers(regions', s, p) = Protected(Offers(regions, s, p), prot)
    BY <1>8, Zenon
  <2>3. /\ p \in DOMAIN ptes'[s] <=> p \in DOMAIN ptes[s]
        /\ p \in DOMAIN ptes[s] => ptes'[s][p] = [ptes[s][p] EXCEPT !.prot = prot]
    BY <1>6
  <2>. QED  BY <1>2, <2>1, <2>2, <2>3, ProtectPage
<1>10. OnlyIn(regions', s, range)
  <2>. HIDE DEF range
  <2>. QED  BY <1>6, <1>7 DEF OnlyIn
<1>. HIDE DEF old, new
<1>11. Promise!Protect(old, new, range, prot)
  <2>1. range \subseteq DOMAIN old /\ range \subseteq DOMAIN new
    BY <1>9
  <2>. QED  BY <1>9, <2>1, Zenon DEF Promise!Protect
<1>12. [Promise!Next]_Promise!vars
  <2>1. Edits(old, new, a, e - 1)
    BY <1>11, Zenon DEF Edits
  <2>2. e - 1 \in a .. UserEnd - 1 /\ Live(s)'
    BY <1>1, <1>2, VmAssumption DEF Live
  <2>. QED  BY <1>2, <1>10, <2>1, <2>2, EditRefines DEF old, new
<1>13. ASSUME NEW t \in Spaces, NEW p \in Pages, p \in DOMAIN ptes'[t]
       PROVE  /\ p \in DOMAIN ptes[t]
              /\ Offers(regions, t, p) # {} => Offers(regions', t, p) # {}
  <2>1. p \in DOMAIN ptes[t]
    BY <1>6, <1>13
  <2>2. CASE t = s /\ p \in range
    <3>1. Offers(regions', t, p) = Protected(Offers(regions, t, p), prot)
      BY <1>8, <2>2
    <3>2. \A xs : xs # {} => Protected(xs, prot) # {}
      BY DEF Protected
    <3>. QED  BY <2>1, <3>1, <3>2, Zenon
  <2>3. CASE ~(t = s /\ p \in range)
    BY <1>7, <2>1, <2>3
  <2>. QED  BY <2>2, <2>3
<1>14. Backed'
  <2>1. ASSUME NEW t \in Spaces, NEW p \in Pages, p \in DOMAIN ptes'[t], p >= MmapBase
        PROVE  Offers(regions', t, p) # {}
    BY <1>13, <2>1 DEF Backed
  <2>. QED  BY <1>3, <2>1, BackedStep
<1>. QED  BY <1>12, <1>14

(* A store changes what is on its page. *)
LEMMA StoreRefines ==
    ASSUME IInv, IInv', Backed, NEW s \in Spaces, Live(s), NEW p \in Touched[s], UserStore(s, p)
    PROVE  Backed' /\ [Promise!Next]_Promise!vars
<1>. DEFINE was == ptes[s][p]
            old == Picture(regions, ptes[s], s)
            new == Picture(regions', ptes'[s], s)
<1>1. /\ Resident(s, p) /\ "w" \in was.prot
      /\ ptes' = [ptes EXCEPT ![s][p].data = Written]
      /\ UNCHANGED <<regions, nodes>>
  BY DEF UserStore
<1>2. p \in Pages /\ p \in Int
  BY VmAssumption DEF Pages
<1>3. InOrder(regions) /\ InOrder(regions') /\ Fit(ptes[s]) /\ \A t \in Spaces : Fit(ptes'[t])
  BY Sound, SoundNext
<1>4. DOMAIN ptes = Spaces /\ p \in DOMAIN ptes[s]
  BY <1>1, <1>2 DEF IInv, PagesOK
<1>5. Entry(was)
  BY <1>3, <1>4 DEF Fit
<1>6. /\ \A t \in Spaces \ {s} : ptes'[t] = ptes[t]
      /\ DOMAIN ptes'[s] = DOMAIN ptes[s]
      /\ \A u \in DOMAIN ptes[s] : u # p => ptes'[s][u] = ptes[s][u]
      /\ ptes'[s][p] = [was EXCEPT !.data = Written]
  BY <1>1, <1>4
<1>7. ptes'[s][p].prot = was.prot /\ ptes'[s][p].data = Written
  BY <1>5, <1>6 DEF Entry
<1>. HIDE DEF was
<1>8. p \in DOMAIN old /\ p \in DOMAIN new
  BY <1>2, <1>3, <1>4, <1>6, PictureHas
<1>. DEFINE shared == Sharing(regions, s, p)
<1>9. old[p] = [prot |-> was.prot, data |-> was.data, shared |-> shared]
  BY <1>3, <1>4, HeldAt DEF was
<1>10. new[p] = [prot |-> was.prot, data |-> Written, shared |-> shared]
  <2>1. new[p] = [prot |-> ptes'[s][p].prot, data |-> ptes'[s][p].data,
                  shared |-> Sharing(regions', s, p)]
    <3>1. p \in DOMAIN ptes'[s] /\ Fit(ptes'[s]) /\ InOrder(regions')
      BY <1>3, <1>4, <1>6
    <3>. QED  BY <3>1, HeldAt
  <2>2. Sharing(regions', s, p) = shared
    BY <1>1
  <2>. HIDE DEF new, shared
  <2>. QED  BY <1>7, <2>1, <2>2, Zenon
<1>11. OnlyIn(regions', s, p .. p)
  <2>1. \A u \in Pages : u \notin p .. p => u # p
    BY <1>2
  <2>. QED  BY <1>1, <1>6, <2>1 DEF OnlyIn
<1>12. \A u \in Pages : u # p =>
          /\ u \in DOMAIN old <=> u \in DOMAIN new
          /\ u \in DOMAIN old => old[u] = new[u]
  <2>1. ASSUME NEW u \in Pages, u # p
        PROVE  /\ Offers(regions', s, u) = Offers(regions, s, u)
               /\ u \in DOMAIN ptes'[s] <=> u \in DOMAIN ptes[s]
               /\ u \in DOMAIN ptes[s] => ptes'[s][u] = ptes[s][u]
    BY <1>1, <1>6, <2>1
  <2>. QED  BY <1>3, <2>1, SameAt
<1>13. \A u : u \in DOMAIN old \/ u \in DOMAIN new => u \in Pages
  BY <1>3, PictureHas
<1>14. old = [u \in DOMAIN old |-> old[u]] /\ new = [u \in DOMAIN new |-> new[u]]
  BY DEF Picture
<1>. HIDE DEF old, new, shared
<1>15. Promise!Store(old, new, p .. p)
  <2>1. p \in p .. p
    BY <1>2
  <2>2. "w" \in old[p].prot
    BY <1>1, <1>9
  <2>3. [old[p] EXCEPT !.data = Written] = new[p]
    BY <1>9, <1>10
  <2>4. DOMAIN old = DOMAIN new
    BY <1>8, <1>12, <1>13
  <2>5. new = [old EXCEPT ![p].data = Written]
    <3>1. [old EXCEPT ![p].data = Written] =
             [u \in DOMAIN old |-> IF u = p THEN [old[p] EXCEPT !.data = Written] ELSE old[u]]
      BY Zenon
    <3>2. \A u \in DOMAIN old :
             new[u] = IF u = p THEN [old[p] EXCEPT !.data = Written] ELSE old[u]
      BY <1>12, <1>13, <2>3
    <3>3. new = [u \in DOMAIN old |-> IF u = p THEN [old[p] EXCEPT !.data = Written] ELSE old[u]]
      BY <1>14, <2>4, <3>2, Zenon
    <3>. QED  BY <3>1, <3>3, Zenon
  <2>. QED  BY <1>8, <2>1, <2>2, <2>5, Zenon DEF Promise!Store
<1>16. [Promise!Next]_Promise!vars
  <2>1. Edits(old, new, p, p)
    BY <1>15, Zenon DEF Edits
  <2>2. p \in p .. UserEnd - 1 /\ Live(s)'
    BY <1>1, <1>2, VmAssumption DEF Live, Pages
  <2>. QED  BY <1>2, <1>11, <2>1, <2>2, EditRefines DEF old, new
<1>17. Backed'
  <2>1. \A t \in Spaces, u \in Pages : u \in DOMAIN ptes'[t] =>
           u \in DOMAIN ptes[t] /\ Offers(regions', t, u) = Offers(regions, t, u)
    BY <1>1, <1>6
  <2>. QED  BY <1>3, <2>1, BackedStep
<1>. QED  BY <1>16, <1>17

-----------------------------------------------------------------------------
(* Steps that give pages frames.                                           *)

(* The pages P of a space get entries. *)
Given(s, P, entry) == ptes' = [ptes EXCEPT ![s] = Over([p \in P |-> entry], ptes[s])]

(* What mapping pages leaves alone. *)
LEMMA InstalledEntries ==
    ASSUME IInv, NEW s \in Spaces, NEW N, Install(s, N),
           NEW P, NEW entry, Given(s, P, entry)
    PROVE  /\ \A t \in Spaces \ {s} : nodes'[t] = nodes[t] /\ ptes'[t] = ptes[t]
           /\ \A p : p \in DOMAIN ptes'[s] <=> p \in P \/ p \in DOMAIN ptes[s]
           /\ \A p \in P : ptes'[s][p] = entry
           /\ \A p \in DOMAIN ptes[s] \ P : ptes'[s][p] = ptes[s][p]
           /\ Live(s) => Live(s)'
<1>1. DOMAIN nodes = Spaces /\ DOMAIN ptes = Spaces
  BY DEF IInv, PagesOK
<1>2. nodes' = [nodes EXCEPT ![s] = Over(Allocated(N), nodes[s])]
  BY DEF Install
<1>3. \A n \in DOMAIN nodes[s] : n \in DOMAIN nodes'[s]
  BY <1>1, <1>2 DEF Over
<1>4. \A t \in Spaces \ {s} : nodes'[t] = nodes[t] /\ ptes'[t] = ptes[t]
  BY <1>1, <1>2 DEF Given
<1>5. /\ \A p : p \in DOMAIN ptes'[s] <=> p \in P \/ p \in DOMAIN ptes[s]
      /\ \A p \in P : ptes'[s][p] = entry
      /\ \A p \in DOMAIN ptes[s] \ P : ptes'[s][p] = ptes[s][p]
  BY <1>1 DEF Over, Given
<1>. QED  BY <1>3, <1>4, <1>5 DEF Live

(* A fault shows nothing: the frame gets what its region had promised. *)
LEMMA FaultRefines ==
    ASSUME IInv, IInv', Backed, NEW s \in Spaces, Live(s), NEW p \in Touched[s], NEW access,
           Fault(s, p, access)
    PROVE  Backed' /\ UNCHANGED Promise!vars
<1>. DEFINE old == Picture(regions, ptes[s], s)
            new == Picture(regions', ptes'[s], s)
<1>1. regions' = regions /\ ~Resident(s, p)
  BY DEF Fault
<1>2. PICK r \in Of(regions, s) :
        /\ Covers(r, p)
        /\ Install(s, Needed(s, {p}))
        /\ ptes' = [ptes EXCEPT ![s] =
               Over([x \in {p} |-> [prot |-> r.prot, data |-> Contents(r.file, PageOf(r, p))]], ptes[s])]
  BY DEF Fault
<1>. DEFINE entry == [prot |-> r.prot, data |-> Contents(r.file, PageOf(r, p))]
<1>3. p \in Pages /\ p \in Int
  BY VmAssumption DEF Pages
<1>4. r \in regions /\ r \in Region /\ r.space = s
  BY <1>2 DEF Of, IInv, InOrder
<1>5. InOrder(regions) /\ InOrder(regions') /\ Fit(ptes[s]) /\ \A t \in Spaces : Fit(ptes'[t])
  BY Sound, SoundNext
<1>6. entry.prot = r.prot /\ entry.data = Contents(r.file, PageOf(r, p))
  OBVIOUS
<1>7. Given(s, {p}, entry)
  BY <1>2 DEF Given
<1>. HIDE DEF entry
<1>8. /\ \A t \in Spaces \ {s} : nodes'[t] = nodes[t] /\ ptes'[t] = ptes[t]
      /\ \A x : x \in DOMAIN ptes'[s] <=> x \in {p} \/ x \in DOMAIN ptes[s]
      /\ \A x \in {p} : ptes'[s][x] = entry
      /\ \A x \in DOMAIN ptes[s] \ {p} : ptes'[s][x] = ptes[s][x]
      /\ Live(s)'
  BY <1>2, <1>7, InstalledEntries
<1>9. p \notin DOMAIN ptes[s] /\ p \in DOMAIN ptes'[s] /\ ptes'[s][p] = entry
  BY <1>1, <1>3, <1>8 DEF IInv, PagesOK
<1>10. Only(regions, s, p, OfRegion(r, p))
  BY <1>2, <1>3, <1>4, <1>5, OneOffer
<1>11. Offers(regions, s, p) = {OfRegion(r, p)}
  BY <1>10 DEF Only
<1>12. old[p] = OfRegion(r, p)
  BY <1>3, <1>5, <1>9, <1>10, OfferedAt
<1>13. new[p] = OfRegion(r, p)
  <2>1. new[p] = [prot |-> ptes'[s][p].prot, data |-> ptes'[s][p].data,
                  shared |-> Sharing(regions', s, p)]
    BY <1>5, <1>9, HeldAt
  <2>2. Sharing(regions', s, p) = r.shared
    <3>1. r.shared \in BOOLEAN
      BY <1>4 DEF Region
    <3>2. OfRegion(r, p).shared = r.shared
      BY DEF OfRegion
    <3>3. Sharing(regions', s, p) <=> r.shared
      BY <1>1, <1>11, <3>2, Zenon DEF Sharing
    <3>4. Sharing(regions', s, p) \in BOOLEAN
      BY Zenon DEF Sharing
    <3>. QED  BY <3>1, <3>3, <3>4
  <2>. HIDE DEF new
  <2>. QED  BY <1>6, <1>9, <2>1, <2>2, Zenon DEF OfRegion
<1>14. p \in DOMAIN old /\ p \in DOMAIN new
  BY <1>3, <1>5, <1>9, <1>11, PictureHas
<1>15. \A x \in Pages : x # p =>
          /\ x \in DOMAIN old <=> x \in DOMAIN new
          /\ x \in DOMAIN old => old[x] = new[x]
  <2>1. ASSUME NEW x \in Pages, x # p
        PROVE  /\ Offers(regions', s, x) = Offers(regions, s, x)
               /\ x \in DOMAIN ptes'[s] <=> x \in DOMAIN ptes[s]
               /\ x \in DOMAIN ptes[s] => ptes'[s][x] = ptes[s][x]
    BY <1>1, <1>8, <2>1
  <2>. QED  BY <1>5, <2>1, SameAt
<1>16. \A x : x \in DOMAIN old \/ x \in DOMAIN new => x \in Pages
  BY <1>5, PictureHas
<1>17. old = [x \in DOMAIN old |-> old[x]] /\ new = [x \in DOMAIN new |-> new[x]]
  BY DEF Picture
<1>. HIDE DEF old, new
<1>18. new = old
  <2>1. DOMAIN old = DOMAIN new
    BY <1>14, <1>15, <1>16
  <2>2. \A x \in DOMAIN old : old[x] = new[x]
    BY <1>12, <1>13, <1>15, <1>16
  <2>. QED  BY <1>17, <2>1, <2>2
<1>19. \A t \in Spaces : (Live(t)' <=> Live(t))
  BY <1>8 DEF Live
<1>20. \A t \in Spaces : Picture(regions', ptes'[t], t) = Picture(regions, ptes[t], t)
  BY <1>1, <1>8, <1>18 DEF old, new
<1>21. UNCHANGED Promise!vars
  BY <1>19, <1>20, ShownIs, ShownIsNext, IsStutter
<1>22. Backed'
  <2>1. ASSUME NEW t \in Spaces, NEW x \in Pages, x \in DOMAIN ptes'[t]
        PROVE  \/ Offers(regions', t, x) # {}
               \/ x \in DOMAIN ptes[t] /\ Offers(regions', t, x) = Offers(regions, t, x)
    BY <1>1, <1>8, <1>11, <2>1
  <2>. QED  BY <1>5, <2>1, BackedStep
<1>. QED  BY <1>21, <1>22

(* A break that grows brings pages of zeros where nothing was: no region   *)
(* reaches into the heap, and its resident part ends at the break.         *)
LEMMA BrkRefines ==
    ASSUME IInv, IInv', panic = "none", Backed, NEW s \in Spaces, Live(s), NEW h \in breaks[s],
           NEW z \in HeapPages, NEW cloned, Brk(s, h, z + 1, cloned)
    PROVE  Backed' /\ [Promise!Next]_Promise!vars
<1>. DEFINE n == Affordable(s, h, z + 1)
            P == First(h, n)
            entry == [prot |-> {"r", "w"}, data |-> Zero]
            old == Picture(regions, ptes[s], s)
            new == Picture(regions', ptes'[s], s)
<1>1. /\ h < z + 1 /\ regions' = regions /\ Install(s, Needed(s, P))
      /\ Given(s, P, entry)
  BY DEF Brk, Given
<1>2. /\ h \in HeapBase .. MmapBase /\ n \in Nat /\ h + n <= z + 1 /\ z + 1 <= MmapBase
      /\ P = h .. h + n - 1 /\ P \in SUBSET HeapPages
      /\ \A p \in Int : p \in P <=> h <= p /\ p < h + n
  BY <1>1, GrowthIs
<1>3. entry.prot = {"r", "w"} /\ entry.data = Zero
  OBVIOUS
<1>. HIDE DEF n, P, entry
<1>4. /\ \A t \in Spaces \ {s} : nodes'[t] = nodes[t] /\ ptes'[t] = ptes[t]
      /\ \A p : p \in DOMAIN ptes'[s] <=> p \in P \/ p \in DOMAIN ptes[s]
      /\ \A p \in P : ptes'[s][p] = entry
      /\ \A p \in DOMAIN ptes[s] \ P : ptes'[s][p] = ptes[s][p]
      /\ Live(s)'
  BY <1>1, InstalledEntries
<1>5. InOrder(regions) /\ InOrder(regions') /\ Fit(ptes[s]) /\ \A t \in Spaces : Fit(ptes'[t])
  BY Sound, SoundNext
<1>6. HeapInv /\ h \in Int
  BY <1>2, VmAssumption DEF IInv
<1>7. \A p \in P : p \in HeapPages /\ p \in Pages /\ p \in Int /\ h <= p /\ p < MmapBase
  <2>1. \A p \in HeapPages : p \in Pages /\ p \in Int /\ p < MmapBase
    BY VmAssumption DEF HeapPages, Pages
  <2>. QED  BY <1>2, <2>1
<1>8. \A p \in P : Offers(regions, s, p) = {} /\ p \notin DOMAIN ptes[s]
  <2>1. ASSUME NEW p \in P
        PROVE  ~Resident(s, p)
    <3>1. Resident(s, p) => p < h
      BY <1>6, <1>7 DEF HeapInv
    <3>. QED  BY <1>6, <1>7, <3>1
  <2>2. \A p \in P : p \notin DOMAIN ptes[s]
    BY <2>1 DEF IInv, PagesOK
  <2>3. ASSUME NEW p \in P
        PROVE  Offers(regions, s, p) = {}
    BY <1>5, <1>7, NoOffer DEF InOrder
  <2>. QED  BY <2>2, <2>3
<1>9. ASSUME NEW p \in P
      PROVE  /\ p \notin DOMAIN old /\ p \in DOMAIN new
             /\ new[p] = Promise!Page({"r", "w"}, Zero, FALSE)
  <2>1. p \in DOMAIN ptes'[s] /\ ptes'[s][p] = entry /\ Offers(regions, s, p) = {} /\ p \in Pages
    BY <1>4, <1>7, <1>8
  <2>2. new[p] = [prot |-> ptes'[s][p].prot, data |-> ptes'[s][p].data,
                  shared |-> Sharing(regions', s, p)]
    BY <1>5, <2>1, HeldAt
  <2>3. Sharing(regions', s, p) = FALSE
    BY <1>1, <2>1 DEF Sharing
  <2>4. p \notin DOMAIN old /\ p \in DOMAIN new
    BY <1>5, <1>8, <2>1, PictureHas
  <2>. HIDE DEF old, new
  <2>. QED  BY <1>3, <2>1, <2>2, <2>3, <2>4, Zenon DEF Promise!Page
<1>. HIDE DEF old, new
<1>10. Promise!Grow(old, new, P)
  <2>1. P \cap DOMAIN old = {} /\ P \subseteq DOMAIN new
    BY <1>9
  <2>. QED  BY <1>9, <2>1, Zenon DEF Promise!Grow
<1>11. OnlyIn(regions', s, P)
  BY <1>1, <1>4 DEF OnlyIn
<1>12. [Promise!Next]_Promise!vars
  <2>1. CASE n = 0
    <3>1. P = {}
      BY <1>2, <1>7, <2>1
    <3>2. /\ \A t \in Spaces : (Live(t)' <=> Live(t))
          /\ \A t \in Spaces : t # s => Picture(regions', ptes'[t], t) = Picture(regions, ptes[t], t)
      BY <1>4, <1>11, KeepsOthers DEF OthersKept
    <3>3. \A p \in Pages : /\ p \in DOMAIN ptes'[s] <=> p \in DOMAIN ptes[s]
                           /\ p \in DOMAIN ptes[s] => ptes'[s][p] = ptes[s][p]
      BY <1>4, <3>1
    <3>4. Picture(regions', ptes'[s], s) = Picture(regions, ptes[s], s)
      BY <1>1, <1>5, <3>3, SamePicture
    <3>. QED  BY <3>2, <3>4, ShownIs, ShownIsNext, IsStutter
  <2>2. CASE n # 0
    <3>1. h \in Pages /\ h + n - 1 \in h .. UserEnd - 1
      BY <1>2, <2>2, VmAssumption DEF Pages, HeapPages
    <3>2. Edits(old, new, h, h + n - 1)
      BY <1>2, <1>10, Zenon DEF Edits
    <3>3. OnlyIn(regions', s, h .. h + n - 1)
      BY <1>2, <1>11
    <3>. QED  BY <1>4, <3>1, <3>2, <3>3, EditRefines DEF old, new
  <2>. QED  BY <2>1, <2>2
<1>13. Backed'
  <2>1. \A t \in Spaces, p \in Pages : p \in DOMAIN ptes'[t] /\ p >= MmapBase =>
           p \in DOMAIN ptes[t] /\ Offers(regions', t, p) = Offers(regions, t, p)
    BY <1>1, <1>4, <1>7, VmAssumption
  <2>. QED  BY <1>5, <2>1, BackedStep
<1>. QED  BY <1>12, <1>13

-----------------------------------------------------------------------------
(* Programs come and go.                                                   *)

(* A space that does not exist has no regions. *)
LEMMA NothingOffered ==
    ASSUME IInv, NEW s \in Spaces, ~Live(s), NEW p
    PROVE  Offers(regions, s, p) = {}
BY NoOffer DEF IInv

(* The loader shows a program its image, or nothing at all. *)
LEMMA LoadRefines ==
    ASSUME IInv, IInv', Backed, NEW s \in Spaces, Load(s)
    PROVE  Backed' /\ [Promise!Next]_Promise!vars
<1>. DEFINE N == Needed(s, LoaderPages)
            entry == [prot |-> {"r", "w"}, data |-> Image]
            new == Picture(regions', ptes'[s], s)
<1>1. ~Live(s) /\ regions' = regions
  BY DEF Load
<1>2. InOrder(regions) /\ InOrder(regions') /\ \A t \in Spaces : Fit(ptes'[t])
  BY Sound, SoundNext
<1>3. \A p : Offers(regions', s, p) = {}
  BY <1>1, NothingOffered
<1>4. DOMAIN nodes = Spaces /\ DOMAIN ptes = Spaces
  BY DEF IInv, PagesOK
<1>5. CASE Cardinality(N) <= Free
  <2>1. Install(s, N) /\ ptes' = [ptes EXCEPT ![s] = [p \in LoaderPages |-> entry]]
    BY <1>5 DEF Load
  <2>2. \A t \in Spaces \ {s} : nodes'[t] = nodes[t] /\ ptes'[t] = ptes[t]
    BY <1>4, <2>1 DEF Install
  <2>3. DOMAIN ptes'[s] = LoaderPages /\ \A p \in LoaderPages : ptes'[s][p] = entry
    BY <1>4, <2>1
  <2>4. entry.prot = {"r", "w"} /\ entry.data = Image
    OBVIOUS
  <2>. HIDE DEF N, entry
  <2>5. LoaderPages \in SUBSET Pages /\ DOMAIN ptes[s] = {}
    BY <1>1, NotThere
  <2>6. OthersKept(s)
    <3>1. OnlyIn(regions', s, LoaderPages)
      BY <1>1, <2>2, <2>3, <2>5 DEF OnlyIn
    <3>. QED  BY <3>1, KeepsOthers
  <2>7. new = Promise!Loaded
    <3>1. \A p : p \in DOMAIN new <=> p \in LoaderPages
      BY <1>2, <1>3, <2>3, <2>5, PictureHas
    <3>2. ASSUME NEW p \in LoaderPages
          PROVE  new[p] = Promise!Page({"r", "w"}, Image, FALSE)
      <4>1. new[p] = [prot |-> ptes'[s][p].prot, data |-> ptes'[s][p].data,
                      shared |-> Sharing(regions', s, p)]
        <5>1. p \in DOMAIN ptes'[s]
          BY <2>3
        <5>. QED  BY <1>2, <5>1, HeldAt
      <4>2. Sharing(regions', s, p) = FALSE
        BY <1>3 DEF Sharing
      <4>3. ptes'[s][p] = entry
        BY <2>3
      <4>. HIDE DEF new
      <4>. QED  BY <2>4, <4>1, <4>2, <4>3, Zenon DEF Promise!Page
    <3>3. new = [p \in DOMAIN new |-> new[p]]
      BY DEF Picture
    <3>. HIDE DEF new
    <3>4. DOMAIN new = LoaderPages
      BY <3>1
    <3>5. new = [p \in LoaderPages |-> Promise!Page({"r", "w"}, Image, FALSE)]
      BY <3>2, <3>3, <3>4
    <3>. QED  BY <3>5, Zenon DEF Promise!Loaded
  <2>8. [Promise!Next]_Promise!vars
    <3>1. CASE Live(s)'
      BY <1>1, <2>6, <2>7, <3>1, ShownIs, ShownIsNext, IsNext
    <3>2. CASE ~Live(s)'
      <4>1. /\ \A t \in Spaces : (Live(t)' <=> Live(t))
            /\ \A t \in Spaces : Live(t) => Picture(regions', ptes'[t], t) = Picture(regions, ptes[t], t)
        BY <1>1, <2>6, <3>2 DEF OthersKept
      <4>. QED  BY <4>1, ShownIs, ShownIsNext, IsStutter
    <3>. QED  BY <3>1, <3>2
  <2>9. Backed'
    <3>1. \A p \in LoaderPages : ~(p >= MmapBase)
      BY VmAssumption
    <3>2. ASSUME NEW t \in Spaces, NEW p \in Pages, p \in DOMAIN ptes'[t], p >= MmapBase
          PROVE  p \in DOMAIN ptes[t] /\ Offers(regions', t, p) = Offers(regions, t, p)
      BY <1>1, <2>2, <2>3, <3>1, <3>2
    <3>. QED  BY <1>2, <3>2, BackedStep
  <2>. QED  BY <2>8, <2>9
<1>6. CASE ~(Cardinality(N) <= Free)
  <2>1. UNCHANGED <<nodes, ptes>>
    BY <1>6 DEF Load
  <2>2. /\ \A t \in Spaces : (Live(t)' <=> Live(t))
        /\ \A t \in Spaces : Picture(regions', ptes'[t], t) = Picture(regions, ptes[t], t)
    BY <1>1, <2>1 DEF Live
  <2>3. UNCHANGED Promise!vars
    BY <2>2, ShownIs, ShownIsNext, IsStutter
  <2>4. Backed'
    BY <1>1, <1>2, <2>1, BackedStep
  <2>. QED  BY <2>3, <2>4
<1>. QED  BY <1>5, <1>6

(* What the loader gives up is never seen, nor is a step that changes      *)
(* nothing.                                                                *)
LEMMA UnseenRefines ==
    ASSUME IInv, IInv', Backed, UNCHANGED <<regions, nodes, ptes>>
    PROVE  Backed' /\ UNCHANGED Promise!vars
<1>1. /\ \A t \in Spaces : (Live(t)' <=> Live(t))
      /\ \A t \in Spaces : Picture(regions', ptes'[t], t) = Picture(regions, ptes[t], t)
  BY DEF Live
<1>2. UNCHANGED Promise!vars
  BY <1>1, ShownIs, ShownIsNext, IsStutter
<1>3. Backed'
  BY SoundNext, BackedStep
<1>. QED  BY <1>2, <1>3

(* Of a program that ends nothing is left, and the others lose nothing. *)
LEMMA DestroyRefines ==
    ASSUME IInv, IInv', Backed, NEW s \in Spaces, Live(s), Destroy(s)
    PROVE  Backed' /\ [Promise!Next]_Promise!vars
<1>1. /\ regions' = regions \ Of(regions, s)
      /\ nodes' = [nodes EXCEPT ![s] = <<>>] /\ ptes' = [ptes EXCEPT ![s] = <<>>]
  BY DEF Destroy
<1>2. DOMAIN nodes = Spaces /\ DOMAIN ptes = Spaces /\ DOMAIN <<>> = {}
  BY DEF IInv, PagesOK
<1>3. /\ \A t \in Spaces \ {s} : nodes'[t] = nodes[t] /\ ptes'[t] = ptes[t]
      /\ DOMAIN nodes'[s] = {} /\ DOMAIN ptes'[s] = {}
  BY <1>1, <1>2
<1>4. \A t \in Spaces, p \in Pages : t # s => Offers(regions', t, p) = Offers(regions, t, p)
  BY <1>1 DEF Offers, Of
<1>5. OnlyIn(regions', s, Pages)
  BY <1>3, <1>4 DEF OnlyIn
<1>6. OthersKept(s)
  BY <1>5, KeepsOthers
<1>7. ~Live(s)'
  BY <1>3 DEF Live
<1>8. [Promise!Next]_Promise!vars
  BY <1>6, <1>7, ShownIs, ShownIsNext, IsNext
<1>9. Backed'
  <2>1. \A t \in Spaces, p \in Pages : p \in DOMAIN ptes'[t] =>
           p \in DOMAIN ptes[t] /\ Offers(regions', t, p) = Offers(regions, t, p)
    BY <1>3, <1>4
  <2>. QED  BY <2>1, BackedStep, SoundNext
<1>. QED  BY <1>8, <1>9

-----------------------------------------------------------------------------
(* The theorem.                                                            *)

(* At first no program runs. *)
LEMMA InitRefines == Init => Backed /\ Promise!Init
<1>. SUFFICES ASSUME Init PROVE Backed /\ Promise!Init
  OBVIOUS
<1>1. \A s \in Spaces : nodes[s] = <<>> /\ ptes[s] = <<>>
  BY DEF Init
<1>2. {s \in Spaces : Live(s)} = {}
  BY <1>1 DEF Live
<1>3. Promise!Init
  BY <1>2 DEF Promise!Init
<1>. QED  BY <1>1, <1>3 DEF Backed

(* Every step of user memory is a step of the promise or shows nothing. *)
LEMMA NextRefines ==
    OneThreadGrows /\ IInv /\ Backed /\ [Next]_vars => Backed' /\ [Promise!Next]_Promise!vars
<1>. SUFFICES ASSUME OneThreadGrows, IInv, Backed, [Next]_vars
              PROVE  Backed' /\ [Promise!Next]_Promise!vars
  OBVIOUS
<1>0. IInv'
  BY NextIInv
<1>1. CASE UNCHANGED vars
  BY <1>0, <1>1, UnseenRefines DEF vars
<1>2. CASE Next
  <2>. DEFINE Kept == Backed' /\ [Promise!Next]_Promise!vars
  <2>0. panic = "none"
    BY <1>2 DEF Next
  <2>1. ASSUME NEW s \in Spaces, Load(s) PROVE Kept
    BY <1>0, <2>1, LoadRefines
  <2>2. ASSUME NEW s \in Spaces, GiveUpLoad(s) PROVE Kept
    BY <1>0, <2>2, UnseenRefines DEF GiveUpLoad
  <2>3. ASSUME NEW s \in Spaces, Live(s), Destroy(s) PROVE Kept
    BY <1>0, <2>3, DestroyRefines
  <2>4. ASSUME NEW s \in Spaces, Live(s), NEW p \in Touched[s], UserStore(s, p) PROVE Kept
    BY <1>0, <2>4, StoreRefines
  <2>5. ASSUME NEW s \in Spaces, Live(s), NEW p \in Touched[s], NEW access, Fault(s, p, access)
        PROVE  Kept
    BY <1>0, <2>5, FaultRefines
  <2>6. ASSUME NEW s \in Spaces, Live(s), NEW n \in 1 .. UserEnd, NEW q \in Requests, Map(s, n, q)
        PROVE  Kept
    BY <1>0, <2>6, MapRefines
  <2>7. ASSUME NEW s \in Spaces, Live(s), NEW a \in Touched[s], NEW z \in Touched[s],
               NEW q \in Requests, MapFixed(s, a, z + 1, q)
        PROVE  Kept
    BY <1>0, <2>7, MapFixedRefines
  <2>8. ASSUME NEW s \in Spaces, Live(s), NEW a \in Touched[s], NEW z \in Touched[s],
               Unmap(s, a, z + 1)
        PROVE  Kept
    BY <1>0, <2>8, UnmapRefines
  <2>9. ASSUME NEW s \in Spaces, Live(s), NEW a \in Touched[s], NEW z \in Touched[s],
               NEW prot \in Prots, Protect(s, a, z + 1, prot)
        PROVE  Kept
    BY <1>0, <2>9, ProtectRefines
  <2>10. ASSUME NEW s \in Spaces, Live(s), NEW h \in breaks[s], NEW z \in HeapPages,
                NEW cloned \in Cloned, Brk(s, h, z + 1, cloned)
         PROVE  Kept
    BY <1>0, <2>0, <2>10, BrkRefines
  <2>. HIDE DEF Kept
  <2>11. Kept
    BY <1>2, <2>1, <2>2, <2>3, <2>4, <2>5, <2>6, <2>7, <2>8, <2>9, <2>10 DEF Next
  <2>. QED  BY <2>11 DEF Kept
<1>. QED  BY <1>1, <1>2

(* User memory keeps its promise: as long as one thread of a space calls   *)
(* brk, what a program finds on its pages is what its own calls and stores *)
(* put there, whatever is mapped over, cut, protected, faulted in or       *)
(* refused, whichever frames pmm hands out, and whatever other programs do *)
(* or leave behind.                                                        *)
THEOREM MemoryIsPrivate == OneThreadGrows => (Spec => Implements)
<1>. SUFFICES ASSUME OneThreadGrows PROVE Spec => Implements
  OBVIOUS
<1>1. IInv /\ Backed /\ [Next]_vars => Backed' /\ [Promise!Next]_Promise!vars
  BY NextRefines
<1>2. Spec => []IInv
  BY VmInvariant
<1>. QED  BY InitRefines, <1>1, <1>2, PTL DEF Spec, Implements, Promise!Spec
=============================================================================
