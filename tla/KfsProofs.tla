----------------------------- MODULE KfsProofs -----------------------------
(***************************************************************************)
(* Proofs that KfsVolume keeps the committed state whole and its space     *)
(* accounting exact, and the promise of AtomicVolume with it, for every    *)
(* volume, ring size and set of files.                                     *)
(***************************************************************************)
EXTENDS KfsInvariant, Integers, TLAPS

-----------------------------------------------------------------------------
(* The ring.                                                               *)

(* Consecutive commits use different slots of the ring, so writing one     *)
(* superblock never overwrites the one before it.                          *)
LEMMA NextSlotDiffers ==
    ASSUME NEW t \in Nat
    PROVE  /\ SlotOf(t) \in SbSlot /\ SlotOf(t + 1) \in SbSlot
           /\ SlotOf(t) # SlotOf(t + 1)
<1>. DEFINE n == SbSlots
            q == t \div n
            r == (t + 1) \div n
<1>1. n \in Nat /\ n >= 2
  BY VolumeAssumption
<1>2. /\ q \in Int /\ r \in Int
      /\ t % n \in 0 .. n - 1 /\ (t + 1) % n \in 0 .. n - 1
      /\ t = n * q + (t % n) /\ t + 1 = n * r + ((t + 1) % n)
  BY <1>1
<1>3. t % n # (t + 1) % n
  <2>1. SUFFICES ASSUME t % n = (t + 1) % n PROVE FALSE
    OBVIOUS
  <2>2. n * (r - q) = 1
    BY <1>1, <1>2, <2>1
  <2>3. CASE r - q <= 0
    BY <1>1, <1>2, <2>2, <2>3
  <2>4. CASE r - q >= 1
    BY <1>1, <1>2, <2>2, <2>4
  <2>. QED  BY <1>2, <2>3, <2>4
<1>. QED
  BY <1>1, <1>2, <1>3 DEF SlotOf, SbSlot, SbFirst

-----------------------------------------------------------------------------
(* Sets of block pointers.                                                 *)

(* Freeing live pointers G: the bitmap then marks the blocks of the rest,  *)
(* and what only the committed state still uses is held back.              *)
LEMMA Freeing ==
    ASSUME LiveInv, NEW G \in SUBSET LivePointers
    PROVE  /\ FreedBits(G) = BlocksOf(LivePointers \ G)
           /\ FreedHeld(G) = CommittedBlocks \ FreedBits(G)
<1>. DEFINE L == LivePointers
            old == {p \in G : p.birth <= sb.txg}
<1>1. FreedBits(G) = BlocksOf(L \ G)
  <2>1. \A p, q \in L : p.block = q.block => p = q
    BY DEF LiveInv, OnePerBlock
  <2>2. BlocksOf(L) \ BlocksOf(G) = BlocksOf(L \ G)
    BY <2>1, Zenon DEF BlocksOf
  <2>. QED  BY <2>2 DEF LiveInv, FreedBits
<1>2. BlocksOf(old) = CommittedBlocks \cap BlocksOf(G)
  <2>1. \A p \in G : p \in old <=> p.block \in CommittedBlocks
    <3>1. \A p \in LivePointers : p.birth <= sb.txg <=> p.block \in CommittedBlocks
      BY Zenon DEF LiveInv, BirthInv
    <3>. QED  BY <3>1, Zenon
  <2>2. old \subseteq G
    OBVIOUS
  <2>. HIDE DEF old
  <2>. QED  BY <2>1, <2>2 DEF BlocksOf
<1>3. BlocksOf(G) \subseteq bits
  BY DEF LiveInv, BlocksOf
<1>4. FreedHeld(G) = CommittedBlocks \ FreedBits(G)
  <2>1. FreedHeld(G) = held \cup BlocksOf(old)
    BY DEF FreedHeld
  <2>. HIDE DEF old
  <2>. QED  BY <1>2, <1>3, <2>1 DEF LiveInv, FreedBits
<1>. QED  BY <1>1, <1>4

(* Fewer pointers have one block each, too. *)
LEMMA OnePerBlockSubset ==
    ASSUME NEW L, NEW K \in SUBSET L, OnePerBlock(L)
    PROVE  OnePerBlock(K)
BY DEF OnePerBlock

(* Changing one entry of the tree. *)
LEMMA ExtentsOfUpdate ==
    ASSUME NEW tr, DOMAIN tr = File, tr = [g \in File |-> tr[g]], NEW f \in File, NEW e,
           NotShared(tr)
    PROVE  Extents([tr EXCEPT ![f] = e]) = (Extents(tr) \ ExtentOf(tr[f])) \cup ExtentOf(e)
<1>. DEFINE new == [tr EXCEPT ![f] = e]
<1>1. \A g \in File : new[g] = IF g = f THEN e ELSE tr[g]
  OBVIOUS
<1>2. ASSUME NEW p, p \in Extents(new)
      PROVE  p \in (Extents(tr) \ ExtentOf(tr[f])) \cup ExtentOf(e)
  <2>1. PICK g \in File : p \in ExtentOf(new[g])
    BY <1>2 DEF Extents
  <2>2. CASE g = f
    BY <1>1, <2>1, <2>2
  <2>3. CASE g # f
    BY <1>1, <2>1, <2>3 DEF Extents, NotShared
  <2>. QED  BY <2>2, <2>3
<1>3. ASSUME NEW p, p \in (Extents(tr) \ ExtentOf(tr[f])) \cup ExtentOf(e)
      PROVE  p \in Extents(new)
  <2>1. CASE p \in ExtentOf(e)
    BY <1>1, <2>1 DEF Extents
  <2>2. CASE p \in Extents(tr) \ ExtentOf(tr[f])
    <3>1. PICK g \in File : p \in ExtentOf(tr[g]) /\ g # f
      BY <2>2 DEF Extents
    <3>. QED  BY <1>1, <3>1 DEF Extents
  <2>. QED  BY <1>3, <2>1, <2>2
<1>. QED  BY <1>2, <1>3

(* An entry whose extent is none of the others' shares it with none. *)
LEMMA NotSharedUpdate ==
    ASSUME NEW tr, tr = [g \in File |-> tr[g]], NEW f \in File, NEW e,
           NotShared(tr), ExtentOf(e) \cap (Extents(tr) \ ExtentOf(tr[f])) = {}
    PROVE  NotShared([tr EXCEPT ![f] = e])
<1>. DEFINE new == [tr EXCEPT ![f] = e]
<1>1. \A g \in File : new[g] = IF g = f THEN e ELSE tr[g]
  OBVIOUS
<1>2. \A g \in File : g # f => ExtentOf(tr[g]) \subseteq Extents(tr) \ ExtentOf(tr[f])
  BY DEF Extents, NotShared
<1>. QED
  BY <1>1, <1>2 DEF NotShared

(* Which entries have an extent. *)
LEMMA NoExtent ==
    /\ ExtentOf(Absent) = {}
    /\ \A v : ExtentOf(Inline(v)) = {}
    /\ \A p : ExtentOf(Extent(p)) = {p}
BY DEF ExtentOf, Absent, Inline, Extent

-----------------------------------------------------------------------------
(* The disk.                                                               *)

(* Superblocks and blocks are addresses, and none is both. *)
LEMMA Layout ==
    /\ SbSlot \cap Block = {} /\ Addr = SbSlot \cup Block
    /\ DataStart \in Block /\ DataStart + 1 \in Block /\ DataStart + 2 \in Block
    /\ Block \subseteq Nat
BY VolumeAssumption DEF SbSlot, Block, SbFirst

(* A write, failed or not, leaves every other block alone. *)
LEMMA WriteTouches ==
    ASSUME TypeOK, NEW w, DOMAIN w \subseteq Addr, Write(w) \/ WriteFails(w)
    PROVE  /\ DOMAIN view' = Addr /\ DOMAIN media' = Addr
           /\ \A a \in Addr \ DOMAIN w : view'[a] = view[a] /\ media'[a] = media[a]
           /\ \A a \in DOMAIN w : /\ view'[a] \in {view[a], w[a]} \cup Torn(a)
                                  /\ media'[a] = media[a] \cup {w[a]} \cup Torn(a)
           /\ Write(w) => \A a \in DOMAIN w : view'[a] = w[a]
<1>1. CASE Write(w)
  BY <1>1 DEF TypeOK, Write, MediaAfter
<1>2. CASE WriteFails(w)
  <2>1. PICK done \in SUBSET DOMAIN w, torn \in SUBSET (DOMAIN w \cap Tearable) :
           view' = [a \in Addr |-> IF a \in torn THEN Garbage
                                   ELSE IF a \in done THEN w[a] ELSE view[a]]
    BY <1>2 DEF WriteFails
  <2>2. media' = MediaAfter(w)
    BY <1>2 DEF WriteFails
  <2>3. \A a \in torn : Garbage \in Torn(a)
    BY DEF Torn
  <2>4. ~(Write(w)) \/ \A a \in DOMAIN w : view'[a] = w[a]
    BY DEF Write
  <2>. QED  BY <2>1, <2>2, <2>3, <2>4 DEF MediaAfter
<1>. QED  BY <1>1, <1>2

(* Writing blocks the committed state does not use disturbs neither that   *)
(* state nor the ring.                                                     *)
LEMMA WriteElsewhere ==
    ASSUME TypeOK, DeviceInv, CommittedInv, SlotInv, phase \notin {"land", "off"},
           NEW w, DOMAIN w \subseteq Block \ CommittedBlocks,
           Write(w) \/ WriteFails(w), sb' = sb
    PROVE  DeviceInv' /\ CommittedInv' /\ SlotInv'
<1>. DEFINE D == DOMAIN w
<1>1. /\ \A a \in Addr \ D : view'[a] = view[a] /\ media'[a] = media[a]
      /\ \A a \in D : /\ view'[a] \in {view[a], w[a]} \cup Torn(a)
                      /\ media'[a] = media[a] \cup {w[a]} \cup Torn(a)
  BY WriteTouches, Layout
<1>2. \A p \in Pointers(sb) : p.block \in Addr \ D
  <2>1. \A p \in Pointers(sb) : p.block \in BitsOf(sb)
    BY DEF CommittedInv, WellFormed, BlocksOf
  <2>2. BitsOf(sb) \subseteq Block
    BY DEF CommittedInv, WellFormed, Superblocks, Pointer, IndexBlocks, BitmapBlocks, BitsOf, BitmapOf
  <2>. QED  BY <2>1, <2>2, Layout DEF CommittedBlocks, BlocksOf
<1>3. SbSlot \subseteq Addr \ D
  BY Layout
<1>4. DeviceInv'
  BY <1>1 DEF DeviceInv
<1>5. CommittedInv'
  <2>1. sb.txg \in Nat
    BY DEF CommittedInv, WellFormed, Superblocks
  <2>2. SlotOf(sb.txg) \in SbSlot
    BY <2>1, NextSlotDiffers
  <2>. QED  BY <1>1, <1>2, <1>3, <2>2 DEF CommittedInv, Durable
<1>6. SlotInv'
  <2>1. \A s \in SbSlot : \A c \in media[s] : Older(c)
    BY DEF SlotInv
  <2>. QED  BY <1>1, <1>3, <2>1 DEF SlotInv, Older
<1>. QED  BY <1>4, <1>5, <1>6

-----------------------------------------------------------------------------
(* Types of the pointers.                                                  *)

(* The extents of a tree are pointers to data, and so differ from every    *)
(* pointer to a node, an index or a bitmap.                                *)
LEMMA TreeTypes ==
    ASSUME NEW tr \in Trees
    PROVE  /\ DOMAIN tr = File /\ tr = [g \in File |-> tr[g]]
           /\ \A g \in File : ExtentOf(tr[g]) \subseteq Pointer(DataBlocks)
           /\ Extents(tr) \subseteq Pointer(DataBlocks)
<1>1. ASSUME NEW g \in File PROVE ExtentOf(tr[g]) \subseteq Pointer(DataBlocks)
  <2>1. tr[g] \in Entries
    BY DEF Trees
  <2>. QED  BY <2>1 DEF Entries, ExtentOf
<1>. QED  BY <1>1 DEF Trees, Extents

(* What the pointers of a superblock's state are. *)
LEMMA PointerTypes ==
    ASSUME NEW tr \in Trees, NEW r \in Pointer(NodeBlocks), NEW i \in Pointer(IndexBlocks)
    PROVE  /\ BitmapOf(i) \in Pointer(BitmapBlocks)
           /\ \A p \in {r, i, BitmapOf(i)} \cup Extents(tr) : p.block \in Block /\ p.birth \in Nat
           /\ r \notin {i, BitmapOf(i)} \cup Extents(tr)
           /\ i \notin {BitmapOf(i)} \cup Extents(tr)
           /\ BitmapOf(i) \notin Extents(tr)
<1>1. /\ r.sum.kind = "node" /\ r.block \in Block /\ r.birth \in Nat
      /\ i.sum.kind = "index" /\ i.block \in Block /\ i.birth \in Nat
  BY DEF Pointer, NodeBlocks, IndexBlocks
<1>2. BitmapOf(i) \in Pointer(BitmapBlocks)
  BY DEF Pointer, IndexBlocks, BitmapOf
<1>3. BitmapOf(i).sum.kind = "bitmap" /\ BitmapOf(i).block \in Block /\ BitmapOf(i).birth \in Nat
  BY <1>2 DEF Pointer, BitmapBlocks
<1>4. \A p \in Extents(tr) : p.sum.kind = "data" /\ p.block \in Block /\ p.birth \in Nat
  BY TreeTypes DEF Pointer, DataBlocks
<1>. QED  BY <1>1, <1>2, <1>3, <1>4, Zenon

(* What the pointers of the state being built are. *)
LEMMA LiveTypes ==
    ASSUME TypeOK
    PROVE  \A p \in LivePointers : p.block \in Block /\ p.birth \in Nat
BY PointerTypes DEF TypeOK, LivePointers, RootPtr

-----------------------------------------------------------------------------
(* Back at the last commit.                                                *)

AtLastCommit ==
    /\ WellFormed(sb) /\ Durable(sb) /\ DeviceInv
    /\ tree = TreeOf(sb) /\ root = sb.root /\ index = sb.index
    /\ bits = BitsOf(sb) /\ held = {} /\ dirty = FALSE /\ phase = "idle"

(* A volume whose memory is what its superblock says is in order. *)
LEMMA LastCommitIsLive == AtLastCommit => LiveInv /\ PhaseInv
<1>. SUFFICES ASSUME AtLastCommit PROVE LiveInv /\ PhaseInv
  OBVIOUS
<1>1. LivePointers = Pointers(sb)
  BY DEF AtLastCommit, LivePointers, RootPtr, Pointers
<1>2. bits = BlocksOf(LivePointers) /\ OnePerBlock(LivePointers) /\ NotShared(tree)
  BY <1>1 DEF AtLastCommit, WellFormed
<1>3. held = CommittedBlocks \ bits
  BY <1>1, <1>2 DEF AtLastCommit, CommittedBlocks
<1>4. BirthInv
  <2>1. \A p \in LivePointers : p.birth <= sb.txg /\ p.block \in CommittedBlocks
    BY <1>1 DEF AtLastCommit, WellFormed, CommittedBlocks, BlocksOf
  <2>2. sb.txg \in Nat /\ sb.root \in Pointer(NodeBlocks) /\ sb.index \in Pointer(IndexBlocks) /\ TreeOf(sb) \in Trees
    BY DEF AtLastCommit, WellFormed, Superblocks, TreeOf, Pointer, NodeBlocks
  <2>3. \A p \in LivePointers : p.birth \in Nat
    BY <1>1, <2>2, PointerTypes DEF Pointers
  <2>. QED  BY <2>1, <2>2, <2>3 DEF BirthInv, NextTxg
<1>5. \A p \in LivePointers : view[p.block] = p.sum
  <2>1. \A p \in LivePointers : media[p.block] = {p.sum} /\ p.block \in Addr
    <3>1. \A p \in LivePointers : p.block \in BitsOf(sb)
      BY <1>2 DEF AtLastCommit, BlocksOf
    <3>2. BitsOf(sb) \subseteq Block
      BY DEF AtLastCommit, WellFormed, Superblocks, Pointer, IndexBlocks, BitmapBlocks, BitsOf, BitmapOf
    <3>. QED  BY <1>1, <3>1, <3>2, Layout DEF AtLastCommit, Durable
  <2>. QED  BY <2>1 DEF AtLastCommit, DeviceInv
<1>6. PhaseInv
  BY DEF AtLastCommit, PhaseInv
<1>. QED  BY <1>2, <1>3, <1>4, <1>5, <1>6 DEF LiveInv

(* The same of the state a step leads to. *)
LEMMA LastCommitIsLiveNext == AtLastCommit' => (LiveInv /\ PhaseInv)'
BY LastCommitIsLive, PTL

-----------------------------------------------------------------------------
(* The initial state.                                                      *)

(* The volume kfs.py makes is well formed and in use as its newest commit. *)
LEMMA InitIInv == Init => IInv
<1>. SUFFICES ASSUME Init PROVE IInv
  OBVIOUS
<1>. DEFINE empty == [f \in File |-> Absent]
            used == {DataStart, DataStart + 1, DataStart + 2}
<1>1. empty \in Trees /\ \A f \in File : ExtentOf(empty[f]) = {}
  BY NoExtent DEF Trees, Entries, Absent
<1>2. Extents(empty) = {} /\ NotShared(empty)
  BY <1>1 DEF Extents, NotShared
<1>3. Mkfs \in Superblocks
  BY <1>1, Layout DEF Superblocks, Pointer, NodeBlocks, IndexBlocks, BitmapBlocks,
                      Mkfs, Superblock, Bp, NodeBlock, BitmapBlock, IndexBlock
<1>4. TreeOf(Mkfs) = empty /\ BitsOf(Mkfs) = used /\ Mkfs.txg = 1
  BY DEF TreeOf, BitsOf, BitmapOf, Mkfs, Superblock, Bp, NodeBlock, BitmapBlock, IndexBlock
<1>5. Pointers(Mkfs) = {Mkfs.root, Mkfs.index, BitmapOf(Mkfs.index)}
  BY <1>2, <1>4 DEF Pointers
<1>6. /\ Mkfs.root.block = DataStart + 2 /\ Mkfs.root.birth = 1
      /\ Mkfs.index.block = DataStart + 1 /\ Mkfs.index.birth = 1
      /\ BitmapOf(Mkfs.index).block = DataStart /\ BitmapOf(Mkfs.index).birth = 1
  BY DEF BitmapOf, Mkfs, Superblock, Bp, NodeBlock, BitmapBlock, IndexBlock
<1>7. WellFormed(Mkfs)
  <2>1. BlocksOf(Pointers(Mkfs)) = used
    BY <1>5, <1>6, Zenon DEF BlocksOf
  <2>2. OnePerBlock(Pointers(Mkfs))
    <3>1. DataStart # DataStart + 1 /\ DataStart # DataStart + 2 /\ DataStart + 1 # DataStart + 2
      BY VolumeAssumption
    <3>. QED  BY <1>5, <1>6, <3>1, Zenon DEF OnePerBlock
  <2>3. \A p \in Pointers(Mkfs) : p.birth <= 1
    BY <1>5, <1>6
  <2>. QED  BY <1>2, <1>3, <1>4, <2>1, <2>2, <2>3 DEF WellFormed
<1>8. /\ sb = Mkfs /\ view = MkfsImage /\ media = [a \in Addr |-> {MkfsImage[a]}]
      /\ phase = "idle"
  BY DEF Init
<1>9. /\ \A a \in SbSlot : MkfsImage[a] = Mkfs
      /\ \A p \in Pointers(Mkfs) : p.block \in Addr /\ MkfsImage[p.block] = p.sum
  <2>1. /\ DataStart \in Addr /\ DataStart + 1 \in Addr /\ DataStart + 2 \in Addr
        /\ DataStart \notin SbSlot /\ DataStart + 1 \notin SbSlot /\ DataStart + 2 \notin SbSlot
        /\ DataStart # DataStart + 1 /\ DataStart # DataStart + 2 /\ DataStart + 1 # DataStart + 2
    BY Layout, VolumeAssumption
  <2>2. /\ MkfsImage[DataStart] = BitmapOf(Mkfs.index).sum
        /\ MkfsImage[DataStart + 1] = Mkfs.index.sum
        /\ MkfsImage[DataStart + 2] = Mkfs.root.sum
    BY <2>1 DEF MkfsImage
  <2>3. \A a \in SbSlot : MkfsImage[a] = Mkfs
    BY Layout DEF MkfsImage
  <2>. QED  BY <1>5, <1>6, <2>1, <2>2, <2>3
<1>10. Durable(sb)
  <2>1. SlotOf(1) \in SbSlot
    BY NextSlotDiffers
  <2>. QED  BY <1>4, <1>8, <1>9, <2>1, Layout DEF Durable
<1>11. TypeOK
  <2>1. used \subseteq Block
    BY Layout
  <2>. QED
    <3>1. TreeOf(Mkfs) \in Trees /\ BitsOf(Mkfs) \in SUBSET Block
      BY <1>1, <1>4, <2>1
    <3>2. Mkfs.root \in Pointer(NodeBlocks) /\ Mkfs.index \in Pointer(IndexBlocks)
      BY <1>3 DEF Superblocks
    <3>3. DataStart \in Nat /\ 0 \in 0 .. MaxErrors /\ 0 \in 0 .. MaxOutages
      BY VolumeAssumption
    <3>4. DOMAIN view = Addr /\ DOMAIN media = Addr
      BY <1>8 DEF MkfsImage
    <3>. QED  BY <1>3, <3>1, <3>2, <3>3, <3>4 DEF Init, TypeOK, Phase
<1>12. DeviceInv
  BY <1>8 DEF DeviceInv, MkfsImage
<1>13. SlotInv
  BY <1>8, <1>9, Layout DEF SlotInv, Older
<1>14. LiveInv /\ PhaseInv
  BY <1>7, <1>8, <1>10, <1>12, LastCommitIsLive DEF AtLastCommit, Init
<1>. QED
  BY <1>7, <1>8, <1>10, <1>11, <1>12, <1>13, <1>14 DEF IInv, CommittedInv

-----------------------------------------------------------------------------
(* What the steps have in common.                                          *)

(* A step that leaves the disk and the committed state alone.              *)
LEMMA DiskUnchanged ==
    ASSUME DeviceInv, CommittedInv, SlotInv, phase \notin {"land", "off"},
           UNCHANGED <<view, media, sb>>
    PROVE  DeviceInv' /\ CommittedInv' /\ SlotInv'
<1>1. DeviceInv' /\ CommittedInv'
  BY DEF DeviceInv, CommittedInv, WellFormed, Durable
<1>2. SlotInv'
  BY DEF SlotInv, Older
<1>. QED  BY <1>1, <1>2

(* A step of an operation or a commit frees the live pointers G and writes *)
(* the new pointers N to free blocks.                                      *)
LEMMA Replace ==
    ASSUME IInv, Mounted, NEW G \in SUBSET LivePointers, NEW N,
           OnePerBlock(N),
           \A p \in N : /\ p.block \in Block /\ p.birth = NextTxg
                        /\ p.block \notin FreedBits(G) \cup CommittedBlocks
                        /\ view'[p.block] = p.sum,
           \A a \in Block \ BlocksOf(N) : view'[a] = view[a],
           LivePointers' = (LivePointers \ G) \cup N,
           bits' = FreedBits(G) \cup BlocksOf(N),
           held' = FreedHeld(G),
           sb' = sb, NotShared(tree)'
    PROVE  LiveInv'
<1>. DEFINE L == LivePointers
            K == LivePointers \ G
            C == CommittedBlocks
<1>0. LiveInv /\ TypeOK /\ sb.txg \in Nat
  BY DEF IInv, TypeOK, Superblocks
<1>1. \A p \in L : p.block \in Block /\ p.birth \in Nat
  BY <1>0, LiveTypes
<1>2. FreedBits(G) = BlocksOf(K) /\ FreedHeld(G) = C \ BlocksOf(K)
  BY <1>0, Freeing
<1>3. C' = C
  BY DEF CommittedBlocks
<1>4. BlocksOf(K \cup N) = BlocksOf(K) \cup BlocksOf(N)
  BY DEF BlocksOf
<1>5. bits' = BlocksOf(LivePointers')
  BY <1>2, <1>4
<1>6. OnePerBlock(LivePointers)'
  <2>1. OnePerBlock(K)
    BY <1>0, OnePerBlockSubset DEF LiveInv
  <2>2. \A p \in K, q \in N : p.block # q.block
    BY <1>2 DEF BlocksOf
  <2>3. OnePerBlock(K \cup N)
    BY <2>1, <2>2 DEF OnePerBlock
  <2>. QED  BY <2>3 DEF OnePerBlock
<1>7. held' = CommittedBlocks' \ bits'
  <2>1. BlocksOf(N) \cap C = {}
    BY DEF BlocksOf
  <2>. QED  BY <1>2, <1>3, <2>1
<1>8. BirthInv'
  <2>1. ASSUME NEW p \in K PROVE p.birth <= NextTxg /\ (p.birth <= sb.txg <=> p.block \in C)
    BY <1>0, Zenon DEF LiveInv, BirthInv
  <2>2. ASSUME NEW p \in N PROVE p.birth <= NextTxg /\ (p.birth <= sb.txg <=> p.block \in C)
    BY <1>0 DEF NextTxg
  <2>3. NextTxg' = NextTxg
    BY DEF NextTxg
  <2>. QED  BY <1>3, <2>1, <2>2, <2>3 DEF BirthInv
<1>9. \A p \in LivePointers' : view'[p.block] = p.sum
  <2>1. ASSUME NEW p \in K PROVE view'[p.block] = p.sum
    <3>1. p.block \in Block \ BlocksOf(N)
      BY <1>1, <1>2 DEF BlocksOf
    <3>. QED  BY <1>0, <3>1 DEF LiveInv
  <2>. QED  BY <2>1
<1>. QED  BY <1>3, <1>5, <1>6, <1>7, <1>8, <1>9 DEF LiveInv

(* What is left after freeing G is typed, and the blocks free to allocate  *)
(* are in neither state.                                                   *)
LEMMA FreedTypes ==
    ASSUME IInv, Mounted, NEW G \in SUBSET LivePointers
    PROVE  /\ FreedBits(G) \subseteq Block /\ FreedHeld(G) \subseteq Block
           /\ FreedBits(G) \cup FreedHeld(G) = FreedBits(G) \cup CommittedBlocks
<1>1. LiveInv /\ TypeOK
  BY DEF IInv
<1>2. \A p \in LivePointers : p.block \in Block
  BY <1>1, LiveTypes
<1>3. FreedBits(G) = BlocksOf(LivePointers \ G) /\ FreedHeld(G) = CommittedBlocks \ FreedBits(G)
  BY <1>1, Freeing
<1>4. FreedBits(G) \subseteq Block /\ FreedHeld(G) \subseteq Block
  BY <1>1, <1>2 DEF TypeOK, FreedBits, FreedHeld, BlocksOf
<1>. QED  BY <1>3, <1>4

(* A step that leaves the state being built, and what is read of it, alone. *)
LEMMA LiveUnchanged ==
    ASSUME LiveInv, LivePointers' = LivePointers,
           UNCHANGED <<sb, tree, bits, held>>,
           \A p \in LivePointers : view'[p.block] = view[p.block]
    PROVE  LiveInv'
BY DEF LiveInv, BirthInv, CommittedBlocks, NextTxg

(* An operation that changes one entry of the tree drops the root and the  *)
(* extent that entry had.                                                  *)
LEMMA EntryPointers ==
    ASSUME IInv, phase \in {"idle", "op"}, NEW f \in File, NEW e,
           tree' = [tree EXCEPT ![f] = e],
           dirty' = TRUE, phase' \in {"op", "tree"}, UNCHANGED index
    PROVE  /\ Owned(ExtentOf(tree[f])) \subseteq LivePointers
           /\ LivePointers' = (LivePointers \ Owned(ExtentOf(tree[f]))) \cup ExtentOf(e)
<1>1. TypeOK /\ LiveInv /\ PhaseInv
  BY DEF IInv, Mounted
<1>2. DOMAIN tree = File /\ tree = [g \in File |-> tree[g]] /\ NotShared(tree)
  BY <1>1, TreeTypes DEF TypeOK, LiveInv
<1>3. Extents(tree') = (Extents(tree) \ ExtentOf(tree[f])) \cup ExtentOf(e)
  BY <1>2, ExtentsOfUpdate
<1>4. ExtentOf(tree[f]) \subseteq Extents(tree)
  BY DEF Extents
<1>5. /\ root \notin {index, BitmapOf(index)} \cup Extents(tree)
      /\ index \notin Extents(tree) /\ BitmapOf(index) \notin Extents(tree)
  BY <1>1, PointerTypes DEF TypeOK
<1>6. LivePointers' = {index, BitmapOf(index)} \cup Extents(tree')
  BY DEF LivePointers, RootPtr
<1>7. CASE dirty
  <2>1. LivePointers = {index, BitmapOf(index)} \cup Extents(tree) \cup (IF phase = "op" THEN {} ELSE {root})
    BY <1>7 DEF LivePointers, RootPtr
  <2>2. phase = "op"
    BY <1>1, <1>7 DEF PhaseInv
  <2>3. Owned(ExtentOf(tree[f])) = ExtentOf(tree[f])
    BY <1>7 DEF Owned
  <2>. QED  BY <1>3, <1>4, <1>5, <1>6, <2>1, <2>2, <2>3
<1>8. CASE ~dirty
  <2>1. LivePointers = {root, index, BitmapOf(index)} \cup Extents(tree)
    BY <1>8 DEF LivePointers, RootPtr
  <2>2. Owned(ExtentOf(tree[f])) = ExtentOf(tree[f]) \cup {root}
    BY <1>8 DEF Owned
  <2>. QED  BY <1>3, <1>4, <1>5, <1>6, <2>1, <2>2
<1>. QED  BY <1>1, <1>7, <1>8 DEF TypeOK

-----------------------------------------------------------------------------
(* The operations.                                                         *)

(* An entry that gets no extent: write_file of a small file, and one step  *)
(* of a removal.                                                           *)
LEMMA EntryChanges ==
    ASSUME IInv, phase \in {"idle", "op"}, NEW f \in File, NEW e \in Entries,
           ExtentOf(e) = {}, tree' = [tree EXCEPT ![f] = e],
           bits' = FreedBits(Owned(ExtentOf(tree[f]))),
           held' = FreedHeld(Owned(ExtentOf(tree[f]))),
           dirty' = TRUE, phase' \in {"op", "tree"}, drop' \in SUBSET File,
           UNCHANGED <<device, sb, root, index, cursor, bounds>>
    PROVE  IInv'
<1>. DEFINE G == Owned(ExtentOf(tree[f]))
<1>1. TypeOK /\ LiveInv /\ Mounted
  BY DEF IInv, Mounted
<1>2. G \subseteq LivePointers /\ LivePointers' = LivePointers \ G
  BY EntryPointers
<1>3. TypeOK'
  <2>1. tree' \in Trees
    BY <1>1 DEF TypeOK, Trees
  <2>2. bits' \subseteq Block /\ held' \subseteq Block
    BY <1>1, <1>2, FreedTypes
  <2>. QED  BY <1>1, <2>1, <2>2 DEF TypeOK, device, bounds, Phase
<1>4. DeviceInv' /\ CommittedInv' /\ SlotInv'
  BY DiskUnchanged DEF IInv, device
<1>5. NotShared(tree)'
  <2>1. NotShared(tree) /\ tree = [g \in File |-> tree[g]]
    BY <1>1, TreeTypes DEF LiveInv, TypeOK
  <2>. QED  BY <2>1, NotSharedUpdate
<1>6. LiveInv'
  <2>1. OnePerBlock({}) /\ BlocksOf({}) = {}
    BY DEF OnePerBlock, BlocksOf
  <2>2. view' = view /\ sb' = sb
    BY DEF device
  <2>. HIDE DEF G
  <2>3. G \in SUBSET LivePointers /\ bits' = FreedBits(G) \cup BlocksOf({}) /\ held' = FreedHeld(G)
    BY <1>2, <2>1 DEF G
  <2>4. LivePointers' = (LivePointers \ G) \cup {}
    BY <1>2
  <2>. QED  BY <1>1, <1>5, <2>1, <2>2, <2>3, <2>4, Replace
<1>7. PhaseInv'
  BY DEF PhaseInv
<1>. QED  BY <1>3, <1>4, <1>6, <1>7 DEF IInv

(* Storing a small file (Fs::write_file) keeps the invariant. *)
LEMMA WriteInlineStep ==
    ASSUME IInv, NEW f \in File, NEW v \in Small, WriteInline(f, v)
    PROVE  IInv'
<1>1. Inline(v) \in Entries /\ ExtentOf(Inline(v)) = {}
  BY VolumeAssumption, NoExtent DEF Entries, Inline
<1>2. drop' \in SUBSET File
  BY DEF WriteInline, IInv, TypeOK
<1>. QED  BY <1>1, <1>2, EntryChanges DEF WriteInline, CanBegin

(* So does deleting one entry (a turn of Fs::empty_dir's loop). *)
LEMMA RemoveEntryStep ==
    ASSUME IInv, NEW f \in File, RemoveEntry(f)
    PROVE  IInv'
<1>1. Absent \in Entries /\ ExtentOf(Absent) = {}
  BY NoExtent DEF Entries, Absent
<1>2. drop' \in SUBSET File
  BY DEF RemoveEntry, IInv, TypeOK
<1>. QED  BY <1>1, <1>2, EntryChanges DEF RemoveEntry

(* So does the start of a removal, which changes nothing on the disk. *)
LEMMA RemoveStep ==
    ASSUME IInv, NEW D \in SUBSET File, Remove(D)
    PROVE  IInv'
<1>1. /\ TypeOK /\ LiveInv /\ PhaseInv
      /\ phase = "idle" /\ phase' = "op" /\ ~dirty
      /\ UNCHANGED <<device, sb, tree, dirty, root, index, bits, held, cursor, bounds>>
  BY DEF IInv, Mounted, Remove, CanBegin, PhaseInv
<1>2. TypeOK'
  BY <1>1 DEF TypeOK, Remove, device, bounds, Phase
<1>3. DeviceInv' /\ CommittedInv' /\ SlotInv'
  BY <1>1, DiskUnchanged DEF IInv, device
<1>4. LiveInv'
  <2>1. LivePointers' = LivePointers
    BY <1>1 DEF LivePointers, RootPtr
  <2>. QED  BY <1>1, <2>1, LiveUnchanged DEF device
<1>5. PhaseInv'
  BY <1>1 DEF PhaseInv
<1>. QED  BY <1>2, <1>3, <1>4, <1>5 DEF IInv

(* So does Fs::rename: the extent that moves is still pointed at once. *)
LEMMA RenameStep ==
    ASSUME IInv, NEW f \in File, NEW g \in File, Rename(f, g)
    PROVE  IInv'
<1>. DEFINE G == Owned({})
<1>1. /\ TypeOK /\ LiveInv /\ PhaseInv /\ Mounted
      /\ phase = "idle" /\ phase' = "tree" /\ dirty = FALSE /\ dirty' = TRUE
      /\ tree[f] # Absent /\ tree[g] = Absent
      /\ tree' = [tree EXCEPT ![f] = Absent, ![g] = tree[f]]
      /\ UNCHANGED <<device, sb, drop, root, index, cursor, bounds>>
  BY DEF IInv, Mounted, Rename, CanBegin, PhaseInv, TypeOK
<1>2. /\ DOMAIN tree = File /\ f # g
      /\ \A x \in File : tree'[x] = IF x = g THEN tree[f] ELSE IF x = f THEN Absent ELSE tree[x]
  BY <1>1, TreeTypes DEF TypeOK
<1>3. ExtentOf(Absent) = {} /\ ExtentOf(tree[g]) = {}
  BY <1>1, NoExtent
<1>4. Extents(tree') = Extents(tree)
  <2>1. ASSUME NEW x \in File, NEW p \in ExtentOf(tree[x]) PROVE p \in Extents(tree')
    <3>1. CASE x = f
      BY <1>2, <2>1, <3>1 DEF Extents
    <3>2. CASE x # f
      BY <1>2, <1>3, <2>1, <3>2 DEF Extents
    <3>. QED  BY <3>1, <3>2
  <2>2. ASSUME NEW x \in File, NEW p \in ExtentOf(tree'[x]) PROVE p \in Extents(tree)
    <3>1. CASE x = g
      BY <1>2, <2>2, <3>1 DEF Extents
    <3>2. CASE x # g
      BY <1>2, <1>3, <2>2, <3>2 DEF Extents
    <3>. QED  BY <3>1, <3>2
  <2>. QED  BY <2>1, <2>2 DEF Extents
<1>5. NotShared(tree)'
  BY <1>1, <1>2, <1>3 DEF NotShared, LiveInv
<1>6. G = {root} /\ G \subseteq LivePointers /\ LivePointers' = LivePointers \ G
  <2>1. root \notin {index, BitmapOf(index)} \cup Extents(tree)
    BY <1>1, PointerTypes DEF TypeOK
  <2>. QED  BY <1>1, <1>4, <2>1 DEF Owned, LivePointers, RootPtr
<1>7. TypeOK'
  <2>1. tree' \in Trees
    <3>1. Absent \in Entries /\ tree[f] \in Entries
      BY <1>1 DEF TypeOK, Trees, Entries, Absent
    <3>. QED  BY <1>1, <3>1 DEF TypeOK, Trees
  <2>2. bits' \subseteq Block /\ held' \subseteq Block
    BY <1>1, <1>6, FreedTypes DEF Rename
  <2>. QED  BY <1>1, <2>1, <2>2 DEF TypeOK, device, bounds, Phase
<1>8. DeviceInv' /\ CommittedInv' /\ SlotInv'
  BY <1>1, DiskUnchanged DEF IInv, device
<1>9. LiveInv'
  <2>1. OnePerBlock({}) /\ BlocksOf({}) = {}
    BY DEF OnePerBlock, BlocksOf
  <2>2. view' = view /\ sb' = sb
    BY <1>1 DEF device
  <2>3. bits' = FreedBits(G) \cup BlocksOf({}) /\ held' = FreedHeld(G)
    BY <2>1 DEF Rename
  <2>. HIDE DEF G
  <2>4. LivePointers' = (LivePointers \ G) \cup {} /\ G \in SUBSET LivePointers
    BY <1>6
  <2>. QED  BY <1>1, <1>5, <2>1, <2>2, <2>3, <2>4, Replace
<1>10. PhaseInv'
  BY <1>1 DEF PhaseInv
<1>. QED  BY <1>7, <1>8, <1>9, <1>10 DEF IInv

(* The block data goes to belongs to neither state. *)
LEMMA DataBlockIsFree ==
    ASSUME IInv, phase = "idle", NEW f \in File, NEW b \in Block, DataBlockFor(f, b)
    PROVE  b \notin FreedBits(Owned(ExtentOf(tree[f]))) \cup CommittedBlocks
<1>. DEFINE G == Owned(ExtentOf(tree[f]))
<1>1. TypeOK /\ PhaseInv /\ Mounted
  BY DEF IInv, Mounted
<1>2. G \subseteq LivePointers
  <2>1. dirty = FALSE
    BY <1>1 DEF PhaseInv, TypeOK
  <2>2. ExtentOf(tree[f]) \subseteq Extents(tree)
    BY DEF Extents
  <2>. QED  BY <2>1, <2>2 DEF Owned, LivePointers, RootPtr
<1>3. b \in Unused(FreedBits(G), FreedHeld(G))
  BY DEF DataBlockFor, NextFit
<1>. HIDE DEF G
<1>4. b \notin FreedBits(G) \cup CommittedBlocks
  BY <1>1, <1>2, <1>3, FreedTypes DEF Unused
<1>. QED  BY <1>4 DEF G

(* So does storing a large file: its data goes to a block nobody uses. *)
LEMMA WriteExtentStep ==
    ASSUME IInv, NEW f \in File, NEW v \in Value, WriteExtent(f, v)
    PROVE  IInv'
<1>. DEFINE G == Owned(ExtentOf(tree[f]))
<1>1. PICK b \in Block :
          /\ DataBlockFor(f, b)
          /\ Write([a \in {b} |-> DataBlock(v)])
          /\ tree' = [tree EXCEPT ![f] = Extent(Bp(b, NextTxg, DataBlock(v)))]
          /\ bits' = FreedBits(G) \cup {b}
          /\ cursor' = b + 1
  BY DEF WriteExtent
<1>. DEFINE p == Bp(b, NextTxg, DataBlock(v))
            w == [a \in {b} |-> DataBlock(v)]
<1>2. /\ TypeOK /\ LiveInv /\ PhaseInv /\ Mounted /\ phase = "idle" /\ phase' = "tree" /\ dirty' = TRUE
      /\ held' = FreedHeld(G) /\ UNCHANGED <<sb, drop, root, index, bounds>>
  BY DEF IInv, Mounted, WriteExtent, CanBegin
<1>3. b \notin FreedBits(G) \cup CommittedBlocks
  BY <1>1, <1>2, DataBlockIsFree
<1>4. p.block = b /\ p.birth = NextTxg /\ p.sum = DataBlock(v) /\ ExtentOf(Extent(p)) = {p}
  BY NoExtent DEF Bp
<1>5. G \subseteq LivePointers /\ LivePointers' = (LivePointers \ G) \cup {p}
  BY <1>1, <1>2, <1>4, EntryPointers
<1>6. TypeOK'
  <2>1. NextTxg \in Nat
    BY <1>2 DEF TypeOK, Superblocks, NextTxg
  <2>2. Extent(p) \in Entries
    BY <2>1 DEF Entries, Extent, Pointer, DataBlocks, DataBlock, Bp
  <2>3. tree' \in Trees
    BY <1>1, <1>2, <2>2 DEF TypeOK, Trees
  <2>4. bits' \subseteq Block /\ held' \subseteq Block
    BY <1>1, <1>2, <1>5, FreedTypes
  <2>5. DOMAIN view' = Addr /\ DOMAIN media' = Addr
    BY <1>1 DEF Write, MediaAfter
  <2>6. cursor' \in Nat
    BY <1>1, Layout
  <2>. QED  BY <1>2, <2>3, <2>4, <2>5, <2>6 DEF TypeOK, bounds, Phase
<1>7. DeviceInv' /\ CommittedInv' /\ SlotInv'
  <2>1. DOMAIN w \subseteq Block \ CommittedBlocks
    BY <1>3
  <2>. HIDE DEF w
  <2>2. Write(w)
    BY <1>1 DEF w
  <2>. QED  BY <1>2, <2>1, <2>2, WriteElsewhere DEF IInv
<1>8. NotShared(tree)'
  <2>1. {p} \cap (Extents(tree) \ ExtentOf(tree[f])) = {}
    <3>1. ASSUME p \in Extents(tree) \ ExtentOf(tree[f]) PROVE FALSE
      <4>1. p \in LivePointers \ G
        <5>1. root \notin Extents(tree)
          BY <1>2, PointerTypes DEF TypeOK
        <5>. QED  BY <3>1, <5>1 DEF LivePointers, Owned
      <4>2. FreedBits(G) = BlocksOf(LivePointers \ G)
        BY <1>2, <1>5, Freeing
      <4>. QED  BY <1>3, <1>4, <4>1, <4>2 DEF BlocksOf
    <3>. QED  BY <3>1
  <2>2. NotShared(tree) /\ tree = [g \in File |-> tree[g]]
    BY <1>2, TreeTypes DEF TypeOK, LiveInv
  <2>. QED  BY <1>1, <1>4, <2>1, <2>2, NotSharedUpdate
<1>9. LiveInv'
  <2>1. OnePerBlock({p}) /\ BlocksOf({p}) = {b}
    BY <1>4 DEF OnePerBlock, BlocksOf
  <2>2. /\ view'[b] = p.sum
        /\ \A a \in Block \ {b} : view'[a] = view[a]
    BY <1>1, <1>4, Layout DEF Write
  <2>. HIDE DEF G, p
  <2>. QED  BY <1>1, <1>2, <1>3, <1>4, <1>5, <1>8, <2>1, <2>2, Replace
<1>10. PhaseInv'
  BY <1>2 DEF PhaseInv
<1>. QED  BY <1>6, <1>7, <1>9, <1>10 DEF IInv

-----------------------------------------------------------------------------
(* The commit.                                                             *)

(* So does write_child: the new root goes to a block nobody uses. *)
LEMMA WriteTreeStep ==
    ASSUME IInv, WriteTree
    PROVE  IInv'
<1>1. PICK b \in Block :
          /\ TreeBlockFor(b)
          /\ root' = Bp(b, NextTxg, NodeBlock(NextTxg, tree))
          /\ Write([a \in {b} |-> NodeBlock(NextTxg, tree)])
          /\ bits' = bits \cup {b}
          /\ cursor' = b + 1
  BY DEF WriteTree
<1>. DEFINE p == Bp(b, NextTxg, NodeBlock(NextTxg, tree))
            w == [a \in {b} |-> NodeBlock(NextTxg, tree)]
<1>2. /\ TypeOK /\ LiveInv /\ PhaseInv /\ Mounted /\ phase = "tree" /\ phase' = "bitmap"
      /\ dirty = TRUE
      /\ UNCHANGED <<sb, tree, drop, dirty, index, held, bounds>>
  BY DEF IInv, Mounted, WriteTree, PhaseInv, TypeOK
<1>3. b \notin bits \cup CommittedBlocks
  BY <1>1, <1>2 DEF TreeBlockFor, NextFit, Unused, LiveInv
<1>4. p.block = b /\ p.birth = NextTxg /\ p.sum = NodeBlock(NextTxg, tree)
  BY DEF Bp
<1>5. LivePointers' = LivePointers \cup {p}
  BY <1>1, <1>2 DEF LivePointers, RootPtr
<1>6. TypeOK'
  <2>1. NextTxg \in Nat
    BY <1>2 DEF TypeOK, Superblocks, NextTxg
  <2>2. root' \in Pointer(NodeBlocks)
    BY <1>1, <1>2, <2>1 DEF TypeOK, Pointer, NodeBlocks, NodeBlock, Bp
  <2>3. DOMAIN view' = Addr /\ DOMAIN media' = Addr /\ cursor' \in Nat
    BY <1>1, Layout DEF Write, MediaAfter
  <2>. QED  BY <1>1, <1>2, <2>2, <2>3 DEF TypeOK, bounds, Phase
<1>7. DeviceInv' /\ CommittedInv' /\ SlotInv'
  <2>1. DOMAIN w \subseteq Block \ CommittedBlocks
    BY <1>3
  <2>. HIDE DEF w
  <2>2. Write(w)
    BY <1>1 DEF w
  <2>. QED  BY <1>2, <2>1, <2>2, WriteElsewhere DEF IInv
<1>8. LiveInv'
  <2>1. OnePerBlock({p}) /\ BlocksOf({p}) = {b}
    BY <1>4 DEF OnePerBlock, BlocksOf
  <2>2. view'[b] = p.sum /\ \A a \in Block \ {b} : view'[a] = view[a]
    BY <1>1, <1>4, Layout DEF Write
  <2>3. FreedBits({}) = bits /\ FreedHeld({}) = held
    BY DEF FreedBits, FreedHeld, BlocksOf
  <2>4. NotShared(tree)'
    BY <1>2 DEF LiveInv, NotShared
  <2>. HIDE DEF p
  <2>. QED  BY <1>1, <1>2, <1>3, <1>4, <1>5, <2>1, <2>2, <2>3, <2>4, Replace
<1>9. PhaseInv'
  BY <1>1, <1>2, <1>4 DEF PhaseInv, NodeBlock
<1>. QED  BY <1>6, <1>7, <1>8, <1>9 DEF IInv

(* The blocks the bitmap and its index go to belong to neither state.      *)
LEMMA BitmapBlocksAreFree ==
    ASSUME IInv, phase = "bitmap", NEW i \in Block, NEW b \in Block, BitmapBlocksFor(i, b)
    PROVE  /\ i # b
           /\ {i, b} \cap CommittedBlocks = {}
           /\ NewBits(i, b) = FreedBits({index, BitmapOf(index)}) \cup {i, b}
           /\ {i, b} \cap FreedBits({index, BitmapOf(index)}) = {}
<1>1. TypeOK /\ LiveInv /\ Mounted /\ {index} \subseteq LivePointers /\ BitmapOf(index) \in LivePointers
  BY DEF IInv, Mounted, LivePointers
<1>2. FreedBits({index}) = bits \ {index.block}
      /\ FreedBits({index, BitmapOf(index)}) = bits \ {index.block, BitmapOf(index).block}
  BY DEF FreedBits, BlocksOf
<1>3. FreedBits({index}) \cup FreedHeld({index}) = FreedBits({index}) \cup CommittedBlocks
  BY <1>1, FreedTypes
<1>4. i # b /\ {i, b} \subseteq Unused(FreedBits({index}), FreedHeld({index}))
  BY DEF BitmapBlocksFor, NextFit
<1>5. {i, b} \cap (FreedBits({index}) \cup CommittedBlocks) = {}
  BY <1>3, <1>4 DEF Unused
<1>6. BitmapOf(index).block \in FreedBits({index})
  <2>1. BitmapOf(index) # index
    BY <1>1, PointerTypes DEF TypeOK
  <2>2. BitmapOf(index).block # index.block
    BY <1>1, <2>1 DEF LiveInv, OnePerBlock
  <2>. QED  BY <1>1, <1>2, <2>2 DEF LiveInv, BlocksOf
<1>. QED  BY <1>2, <1>4, <1>5, <1>6 DEF NewBits

(* So does write_bitmap: both blocks move, and the old two are held. *)
LEMMA WriteBitmapStep ==
    ASSUME IInv, WriteBitmap
    PROVE  IInv'
<1>1. PICK i \in Block, b \in Block :
          /\ BitmapBlocksFor(i, b)
          /\ bits' = NewBits(i, b)
          /\ index' = NewIndex(i, b)
          /\ Write(BitmapWrites(i, b))
          /\ cursor' = b + 1
  BY DEF WriteBitmap
<1>. DEFINE p == NewIndex(i, b)
            q == NewBitmap(i, b)
            G == {index, BitmapOf(index)}
            w == BitmapWrites(i, b)
<1>2. /\ TypeOK /\ LiveInv /\ PhaseInv /\ Mounted /\ phase = "bitmap" /\ phase' = "flush"
      /\ held' = FreedHeld(G)
      /\ UNCHANGED <<sb, tree, drop, dirty, root, bounds>>
  BY DEF IInv, Mounted, WriteBitmap
<1>3. /\ i # b
      /\ {i, b} \cap (FreedBits(G) \cup CommittedBlocks) = {}
      /\ bits' = FreedBits(G) \cup {i, b}
  BY <1>1, <1>2, BitmapBlocksAreFree
<1>4. /\ p.block = i /\ p.birth = NextTxg /\ q.block = b /\ q.birth = NextTxg
      /\ BitmapOf(p) = q /\ q.sum.bits = NewBits(i, b)
  BY DEF Bp, NewIndex, NewBitmap, BitmapOf, IndexBlock, BitmapBlock
<1>5. LivePointers' = (LivePointers \ G) \cup {p, q} /\ G \subseteq LivePointers
  <2>1. /\ root \notin G
        /\ index \notin Extents(tree) /\ BitmapOf(index) \notin Extents(tree)
    BY <1>2, PointerTypes DEF TypeOK
  <2>2. LivePointers = {root} \cup G \cup Extents(tree)
    BY <1>2 DEF LivePointers, RootPtr
  <2>3. LivePointers' = {root, p, q} \cup Extents(tree)
    BY <1>1, <1>2, <1>4 DEF LivePointers, RootPtr
  <2>. QED  BY <2>1, <2>2, <2>3
<1>6. TypeOK'
  <2>1. NextTxg \in Nat
    BY <1>2 DEF TypeOK, Superblocks, NextTxg
  <2>2. bits' \subseteq Block /\ held' \subseteq Block
    BY <1>2, <1>3, <1>5, FreedTypes
  <2>3. q \in Pointer(BitmapBlocks)
    BY <1>1, <2>1, <2>2 DEF Pointer, BitmapBlocks, BitmapBlock, NewBitmap, Bp
  <2>4. index' \in Pointer(IndexBlocks)
    BY <1>1, <2>1, <2>3 DEF Pointer, IndexBlocks, IndexBlock, NewIndex, Bp
  <2>5. DOMAIN view' = Addr /\ DOMAIN media' = Addr
    BY <1>1 DEF Write, MediaAfter
  <2>6. cursor' \in Nat
    BY <1>1, Layout
  <2>. QED  BY <1>2, <2>2, <2>4, <2>5, <2>6 DEF TypeOK, bounds, Phase
<1>7. DeviceInv' /\ CommittedInv' /\ SlotInv'
  <2>1. DOMAIN w \subseteq Block \ CommittedBlocks
    BY <1>3 DEF BitmapWrites
  <2>. QED  BY <1>1, <1>2, <2>1, WriteElsewhere DEF IInv
<1>8. LiveInv'
  <2>1. OnePerBlock({p, q}) /\ BlocksOf({p, q}) = {i, b}
    BY <1>3, <1>4, Zenon DEF OnePerBlock, BlocksOf
  <2>2. /\ view'[i] = p.sum /\ view'[b] = q.sum
        /\ \A a \in Block \ {i, b} : view'[a] = view[a]
    BY <1>1, <1>3, Layout DEF Write, BitmapWrites
  <2>3. NotShared(tree)'
    BY <1>2 DEF LiveInv, NotShared
  <2>. HIDE DEF p, q, G
  <2>4. \A x \in {p, q} : /\ x.block \in Block /\ x.birth = NextTxg
                          /\ x.block \notin FreedBits(G) \cup CommittedBlocks
                          /\ view'[x.block] = x.sum
    BY <1>3, <1>4, <2>2
  <2>. QED  BY <1>2, <1>3, <1>5, <2>1, <2>2, <2>3, <2>4, Replace
<1>9. PhaseInv'
  BY <1>1, <1>2, <1>4 DEF PhaseInv
<1>. QED  BY <1>6, <1>7, <1>8, <1>9 DEF IInv

(* The first flush makes all the new state points at durable. *)
LEMMA FlushNewStep ==
    ASSUME IInv, FlushNew
    PROVE  IInv'
<1>1. /\ TypeOK /\ DeviceInv /\ CommittedInv /\ SlotInv /\ LiveInv /\ PhaseInv
      /\ phase = "flush" /\ phase' = "superblock"
      /\ media' = [a \in Addr |-> {view[a]}]
      /\ view' = view
      /\ UNCHANGED <<sb, tree, drop, dirty, root, index, bits, held, cursor, errors, outages>>
  BY DEF IInv, Mounted, FlushNew, Flush, memory, bounds
<1>2. \A a \in Addr : media'[a] = {view[a]} /\ view[a] \in media[a]
  BY <1>1 DEF DeviceInv
<1>3. TypeOK'
  BY <1>1 DEF TypeOK, Phase
<1>4. DeviceInv'
  BY <1>1, <1>2 DEF DeviceInv
<1>5. CommittedInv'
  <2>1. sb \in Superblocks /\ sb.txg \in Nat /\ BitsOf(sb) \subseteq Block
    BY <1>1 DEF TypeOK, Superblocks, Pointer, IndexBlocks, BitmapBlocks, BitsOf, BitmapOf
  <2>2. SlotOf(sb.txg) \in Addr
    BY <2>1, NextSlotDiffers, Layout
  <2>3. \A p \in Pointers(sb) : p.block \in Addr
    BY <1>1, <2>1, Layout DEF CommittedInv, WellFormed, BlocksOf
  <2>. QED  BY <1>1, <1>2, <2>2, <2>3 DEF CommittedInv, Durable
<1>6. SlotInv'
  BY <1>1, <1>2, Layout DEF SlotInv, Older
<1>7. LivePointers' = LivePointers
  BY <1>1 DEF LivePointers, RootPtr
<1>8. LiveInv'
  BY <1>1, <1>7, LiveUnchanged
<1>9. PhaseInv'
  <2>1. OnMedia(LivePointers)'
    <3>1. \A p \in LivePointers : p.block \in Addr
      BY <1>1, LiveTypes, Layout
    <3>. QED  BY <1>1, <1>2, <1>7, <3>1 DEF OnMedia, LiveInv
  <2>. QED  BY <1>1, <2>1 DEF PhaseInv
<1>. QED  BY <1>3, <1>4, <1>5, <1>6, <1>8, <1>9 DEF IInv

(* Once everything new is on the disk, the next superblock is well formed  *)
(* and leads to exactly the state that was built.                          *)
LEMMA NextIsReady ==
    ASSUME IInv, phase \in {"superblock", "land"}
    PROVE  NextReady /\ Pointers(NextSb) = LivePointers
<1>1. TypeOK /\ LiveInv /\ PhaseInv /\ Mounted
  BY DEF IInv, Mounted
<1>2. /\ root.sum.tree = tree /\ BitmapOf(index).sum.bits = bits /\ OnMedia(LivePointers)
  BY <1>1 DEF PhaseInv
<1>3. TreeOf(NextSb) = tree /\ BitsOf(NextSb) = bits /\ NextSb.txg = NextTxg
      /\ NextSb.root = root /\ NextSb.index = index
  BY <1>2 DEF NextSb, Superblock, TreeOf, BitsOf
<1>4. Pointers(NextSb) = LivePointers
  BY <1>3 DEF Pointers, LivePointers, RootPtr
<1>5. NextTxg \in Nat /\ NextSb \in Superblocks
  BY <1>1 DEF TypeOK, Superblocks, NextTxg, NextSb, Superblock
<1>6. WellFormed(NextSb)
  BY <1>1, <1>3, <1>4, <1>5 DEF WellFormed, LiveInv, BirthInv
<1>. QED  BY <1>2, <1>4, <1>6 DEF NextReady

(* The superblock may be written: the slot it takes is not the committed   *)
(* one's, and the state it describes is already durable.                   *)
LEMMA WriteSuperblockStep ==
    ASSUME IInv, WriteSuperblock
    PROVE  IInv'
<1>. DEFINE n == SlotOf(NextTxg)
<1>1. /\ TypeOK /\ DeviceInv /\ CommittedInv /\ SlotInv /\ LiveInv /\ PhaseInv
      /\ phase = "superblock" /\ phase' = "land" /\ Write(SuperblockWrite)
      /\ UNCHANGED <<sb, tree, drop, dirty, root, index, bits, held, cursor, errors, outages>>
  BY DEF IInv, Mounted, WriteSuperblock, memory, bounds
<1>2. /\ sb \in Superblocks /\ sb.txg \in Nat /\ BitsOf(sb) \subseteq Block
      /\ n \in SbSlot /\ n # SlotOf(sb.txg) /\ SlotOf(sb.txg) \in SbSlot
  BY <1>1, NextSlotDiffers
  DEF TypeOK, Superblocks, Pointer, IndexBlocks, BitmapBlocks, BitsOf, BitmapOf, NextTxg
<1>3. /\ DOMAIN view' = Addr /\ DOMAIN media' = Addr
      /\ view'[n] = NextSb /\ media'[n] = media[n] \cup {NextSb} \cup Torn(n)
      /\ \A a \in Addr \ {n} : view'[a] = view[a] /\ media'[a] = media[a]
  BY <1>1, <1>2, Layout DEF Write, MediaAfter, SuperblockWrite
<1>4. TypeOK'
  BY <1>1, <1>3 DEF TypeOK, Phase
<1>5. DeviceInv'
  BY <1>1, <1>3 DEF DeviceInv
<1>6. \A p \in Pointers(sb) \cup LivePointers : p.block \in Addr \ {n}
  <2>1. \A p \in Pointers(sb) : p.block \in Block
    BY <1>1, <1>2 DEF CommittedInv, WellFormed, BlocksOf
  <2>. QED  BY <1>1, <1>2, <2>1, LiveTypes, Layout
<1>7. CommittedInv'
  BY <1>1, <1>2, <1>3, <1>6, Layout DEF CommittedInv, Durable
<1>8. SlotInv'
  <2>1. NextReady /\ Pointers(NextSb) = LivePointers
    BY <1>1, NextIsReady
  <2>2. NextSb' = NextSb /\ NextTxg' = NextTxg
    BY <1>1 DEF NextSb, NextTxg
  <2>3. NextReady'
    BY <1>3, <1>6, <2>1, <2>2 DEF NextReady, OnMedia
  <2>4. \A c : Older(c) => Older(c)'
    BY <1>1 DEF Older
  <2>5. ASSUME NEW s \in SbSlot, NEW c \in media'[s]
        PROVE  Older(c)' \/ (s = n /\ c = NextSb)
    <3>1. CASE c \in media[s]
      BY <1>1, <2>4, <3>1 DEF SlotInv
    <3>2. CASE c \notin media[s]
      <4>1. s = n /\ (c = NextSb \/ c \in Torn(n))
        BY <1>3, <2>5, <3>2, Layout
      <4>2. c \in Torn(n) => c.kind # "sb"
        BY VolumeAssumption DEF Torn
      <4>. QED  BY <4>1, <4>2 DEF Older
    <3>. QED  BY <3>1, <3>2
  <2>. QED  BY <1>1, <2>2, <2>3, <2>5 DEF SlotInv
<1>9. LivePointers' = LivePointers
  BY <1>1 DEF LivePointers, RootPtr
<1>10. LiveInv'
  BY <1>1, <1>3, <1>6, <1>9, LiveUnchanged
<1>11. PhaseInv'
  <2>1. OnMedia(LivePointers)'
    BY <1>1, <1>3, <1>6, <1>9 DEF OnMedia, PhaseInv
  <2>2. view'[SlotOf(NextTxg')] = NextSb'
    BY <1>1, <1>3 DEF NextSb, NextTxg
  <2>. QED  BY <1>1, <2>1, <2>2 DEF PhaseInv
<1>. QED  BY <1>4, <1>5, <1>7, <1>8, <1>10, <1>11 DEF IInv

(* After the second flush the new state is the committed one. *)
LEMMA LandStep ==
    ASSUME IInv, Land
    PROVE  IInv'
<1>1. /\ TypeOK /\ DeviceInv /\ CommittedInv /\ SlotInv /\ LiveInv /\ PhaseInv
      /\ phase = "land" /\ phase' \in {"idle", "op"}
      /\ media' = [a \in Addr |-> {view[a]}] /\ view' = view
      /\ sb' = NextSb /\ held' = {} /\ dirty' = FALSE
      /\ UNCHANGED <<tree, drop, root, index, bits, cursor, errors, outages>>
  BY DEF IInv, Mounted, Land, Flush, bounds
<1>2. NextReady /\ Pointers(NextSb) = LivePointers /\ NextSb.txg = NextTxg
  BY <1>1, NextIsReady DEF NextSb, Superblock
<1>3. sb.txg \in Nat /\ NextTxg \in Nat /\ NextTxg = sb.txg + 1
  BY <1>1 DEF TypeOK, Superblocks, NextTxg
<1>4. NextSb \in Superblocks
  BY <1>2 DEF NextReady, WellFormed
<1>5. TypeOK'
  BY <1>1, <1>4 DEF TypeOK, Phase
<1>6. DeviceInv'
  BY <1>1 DEF DeviceInv
<1>7. CommittedInv'
  <2>1. SlotOf(NextTxg) \in Addr /\ view[SlotOf(NextTxg)] = NextSb
    BY <1>1, <1>3, NextSlotDiffers, Layout DEF PhaseInv
  <2>2. \A p \in LivePointers : p.block \in Addr /\ view[p.block] = p.sum
    BY <1>1, LiveTypes, Layout DEF LiveInv
  <2>. QED  BY <1>1, <1>2, <2>1, <2>2 DEF CommittedInv, Durable, NextReady, WellFormed
<1>8. SlotInv'
  <2>1. ASSUME NEW s \in SbSlot, NEW c \in media'[s] PROVE Older(c)'
    <3>1. c \in media[s]
      BY <1>1, <2>1, Layout DEF DeviceInv
    <3>2. CASE Older(c)
      BY <1>1, <1>2, <1>3, <3>2 DEF Older, TypeOK, Superblocks
    <3>3. CASE c = NextSb
      BY <1>1, <3>3 DEF Older
    <3>. QED  BY <1>1, <3>1, <3>2, <3>3 DEF SlotInv
  <2>. QED  BY <2>1 DEF SlotInv
<1>9. LivePointers' = LivePointers
  BY <1>1 DEF LivePointers, RootPtr
<1>10. CommittedBlocks' = BlocksOf(LivePointers)
  BY <1>1, <1>2 DEF CommittedBlocks
<1>11. LiveInv'
  <2>1. held' = CommittedBlocks' \ bits'
    BY <1>1, <1>10 DEF LiveInv
  <2>2. BirthInv'
    <3>1. sb'.txg = NextTxg /\ NextTxg' = NextTxg + 1
      BY <1>1, <1>2 DEF NextTxg
    <3>2. \A p \in LivePointers : /\ p.birth \in Nat /\ p.birth <= NextTxg
                                  /\ p.block \in CommittedBlocks'
      BY <1>1, <1>10, LiveTypes DEF LiveInv, BirthInv, BlocksOf
    <3>. QED  BY <1>3, <1>9, <3>1, <3>2 DEF BirthInv
  <2>. QED  BY <1>1, <1>9, <2>1, <2>2 DEF LiveInv, NotShared
<1>12. PhaseInv'
  BY <1>1 DEF PhaseInv
<1>. QED  BY <1>5, <1>6, <1>7, <1>8, <1>11, <1>12 DEF IInv

-----------------------------------------------------------------------------
(* Failures.                                                               *)

(* Aborting, whatever the failed write did to free blocks, is safe.        *)
LEMMA AbortStep ==
    ASSUME IInv, Abort, DeviceInv', CommittedInv', SlotInv',
           DOMAIN view' = Addr, DOMAIN media' = Addr, cursor' \in Nat,
           errors' \in 0 .. MaxErrors, outages' \in 0 .. MaxOutages
    PROVE  IInv'
<1>1. /\ tree' = TreeOf(sb) /\ drop' = {} /\ dirty' = FALSE /\ root' = sb.root
      /\ index' = sb.index /\ bits' = BitsOf(sb) /\ held' = {} /\ sb' = sb
      /\ phase' \in {"idle", "dead"}
  BY DEF Abort
<1>2. /\ sb \in Superblocks /\ TreeOf(sb) \in Trees /\ BitsOf(sb) \in SUBSET Block
      /\ sb.root \in Pointer(NodeBlocks) /\ sb.index \in Pointer(IndexBlocks)
  BY DEF IInv, TypeOK, Superblocks, Pointer, IndexBlocks, NodeBlocks, BitmapBlocks, TreeOf, BitsOf, BitmapOf
<1>3. TypeOK'
  BY <1>1, <1>2 DEF TypeOK, Phase
<1>4. phase' = "idle" => (LiveInv /\ PhaseInv)'
  <2>1. ASSUME phase' = "idle" PROVE AtLastCommit'
    BY <1>1, <2>1 DEF AtLastCommit, CommittedInv, TreeOf, BitsOf, BitmapOf
  <2>. QED  BY <2>1, LastCommitIsLiveNext
<1>. QED  BY <1>1, <1>3, <1>4 DEF IInv, Mounted

(* A device error uses up one of those the bound allows. *)
LEMMA DeviceErrorCounts ==
    ASSUME TypeOK, DeviceError
    PROVE  errors' \in 0 .. MaxErrors /\ outages' \in 0 .. MaxOutages
BY VolumeAssumption DEF TypeOK, DeviceError

(* A write of file data that fails leaves the last commit in use. *)
LEMMA DataFailsStep ==
    ASSUME IInv, NEW f \in File, NEW v \in Value, DataFails(f, v)
    PROVE  IInv'
<1>1. PICK b \in Block : /\ DataBlockFor(f, b)
                         /\ WriteFails([a \in {b} |-> DataBlock(v)])
                         /\ cursor' = b + 1
  BY DEF DataFails
<1>. DEFINE w == [a \in {b} |-> DataBlock(v)]
<1>2. TypeOK /\ phase = "idle" /\ DeviceError /\ Abort /\ sb' = sb
  BY DEF IInv, DataFails, CanBegin, Abort
<1>3. DOMAIN w \subseteq Block \ CommittedBlocks /\ b \in Nat
  BY <1>1, <1>2, DataBlockIsFree, Layout
<1>. HIDE DEF w
<1>4. WriteFails(w)
  BY <1>1 DEF w
<1>5. DeviceInv' /\ CommittedInv' /\ SlotInv'
  BY <1>2, <1>3, <1>4, WriteElsewhere DEF IInv
<1>6. DOMAIN view' = Addr /\ DOMAIN media' = Addr
  <2>1. DOMAIN w \subseteq Addr
    BY <1>3, Layout
  <2>. QED  BY <1>2, <1>4, <2>1, WriteTouches
<1>7. cursor' \in Nat
  BY <1>1, <1>3
<1>. QED  BY <1>2, <1>5, <1>6, <1>7, DeviceErrorCounts, AbortStep

(* So does a removal or a commit that cannot go on. *)
LEMMA OpFailsStep ==
    ASSUME IInv, OpFails
    PROVE  IInv'
<1>1. /\ TypeOK /\ Abort /\ sb' = sb /\ UNCHANGED <<view, media, cursor>>
      /\ phase \in {"op", "tree", "bitmap"}
      /\ DeviceError \/ UNCHANGED bounds
  BY DEF IInv, OpFails, Abort, device
<1>2. errors' \in 0 .. MaxErrors /\ outages' \in 0 .. MaxOutages
  BY <1>1, DeviceErrorCounts DEF bounds, TypeOK
<1>3. DeviceInv' /\ CommittedInv' /\ SlotInv'
  BY <1>1, DiskUnchanged DEF IInv
<1>. QED  BY <1>1, <1>2, <1>3, AbortStep DEF TypeOK

(* So does a device error in a commit before its superblock is written. *)
LEMMA CommitFailsStep ==
    ASSUME IInv, EarlyFaultsOnly, CommitFails
    PROVE  IInv'
<1>1. /\ TypeOK /\ LiveInv /\ Mounted /\ DeviceError /\ Abort /\ sb' = sb
      /\ phase \in {"tree", "bitmap", "flush"}
  BY DEF IInv, Mounted, CommitFails, Abort, EarlyFaultsOnly
<1>2. SUFFICES /\ DeviceInv' /\ CommittedInv' /\ SlotInv'
               /\ DOMAIN view' = Addr /\ DOMAIN media' = Addr /\ cursor' \in Nat
  BY <1>1, DeviceErrorCounts, AbortStep
<1>3. ASSUME NEW w, DOMAIN w \subseteq Block \ CommittedBlocks, WriteFails(w)
      PROVE  /\ DeviceInv' /\ CommittedInv' /\ SlotInv'
             /\ DOMAIN view' = Addr /\ DOMAIN media' = Addr
  <2>1. DeviceInv' /\ CommittedInv' /\ SlotInv'
    BY <1>1, <1>3, WriteElsewhere DEF IInv
  <2>2. DOMAIN w \subseteq Addr
    BY <1>3, Layout
  <2>. QED  BY <1>1, <1>3, <2>1, <2>2, WriteTouches
<1>4. CASE phase = "tree"
  <2>1. PICK b \in Block : /\ TreeBlockFor(b)
                           /\ WriteFails([a \in {b} |-> NodeBlock(NextTxg, tree)])
                           /\ cursor' = b + 1
    BY <1>4 DEF CommitFails
  <2>. DEFINE w == [a \in {b} |-> NodeBlock(NextTxg, tree)]
  <2>2. DOMAIN w \subseteq Block \ CommittedBlocks
    BY <1>1, <2>1 DEF TreeBlockFor, NextFit, Unused, LiveInv
  <2>3. WriteFails(w) /\ cursor' \in Nat
    BY <2>1, Layout
  <2>. HIDE DEF w
  <2>. QED  BY <1>3, <2>2, <2>3
<1>5. CASE phase = "bitmap"
  <2>1. PICK i \in Block, b \in Block : /\ BitmapBlocksFor(i, b)
                                        /\ WriteFails(BitmapWrites(i, b))
                                        /\ cursor' = b + 1
    BY <1>5 DEF CommitFails
  <2>2. DOMAIN BitmapWrites(i, b) = {i, b}
    BY DEF BitmapWrites
  <2>3. DOMAIN BitmapWrites(i, b) \subseteq Block \ CommittedBlocks
    BY <1>5, <2>1, <2>2, BitmapBlocksAreFree
  <2>4. cursor' \in Nat
    BY <2>1, Layout
  <2>. QED  BY <1>3, <2>1, <2>3, <2>4
<1>6. CASE phase = "flush"
  <2>1. UNCHANGED <<view, media, cursor>>
    BY <1>6 DEF CommitFails, FlushFails, device
  <2>2. DeviceInv' /\ CommittedInv' /\ SlotInv'
    BY <1>1, <2>1, DiskUnchanged DEF IInv
  <2>. QED  BY <1>1, <2>1, <2>2 DEF TypeOK
<1>. QED  BY <1>1, <1>4, <1>5, <1>6

-----------------------------------------------------------------------------
(* Power failures and mounting.                                            *)

(* A power failure keeps the invariant: the disk is as it was. *)
LEMMA PowerFailsStep ==
    ASSUME IInv, PowerFails
    PROVE  IInv'
<1>1. /\ UNCHANGED <<view, media, sb, tree, drop, dirty, root, index, bits, held, cursor, errors>>
      /\ phase' = "off" /\ outages < MaxOutages /\ outages' = outages + 1
  BY DEF PowerFails, device, memory
<1>2. TypeOK'
  BY <1>1, VolumeAssumption DEF IInv, TypeOK, Phase
<1>3. DeviceInv' /\ CommittedInv'
  BY <1>1 DEF IInv, DeviceInv, CommittedInv, WellFormed, Durable
<1>4. SlotInv'
  <2>1. /\ NextSb' = NextSb /\ NextTxg' = NextTxg /\ (NextReady <=> NextReady')
        /\ \A c : Older(c) <=> Older(c)'
    BY <1>1 DEF NextSb, NextTxg, NextReady, OnMedia, WellFormed, Older
  <2>. QED  BY <1>1, <2>1 DEF IInv, SlotInv
<1>. QED  BY <1>1, <1>2, <1>3, <1>4 DEF IInv, Mounted

(* So does each address's turning out to hold one thing it could. *)
LEMMA SettleStep ==
    ASSUME IInv, SettleNext
    PROVE  IInv'
<1>1. PICK a \in Addr : Settle(a)
  BY DEF SettleNext
<1>2. PICK c \in media[a] : /\ view' = [view EXCEPT ![a] = c]
                            /\ media' = [media EXCEPT ![a] = {c}]
  BY <1>1 DEF Settle
<1>3. /\ TypeOK /\ DeviceInv /\ CommittedInv /\ SlotInv
      /\ UNCHANGED <<sb, tree, drop, dirty, root, index, bits, held, cursor, errors, outages>>
      /\ phase = "off" /\ phase' = "off"
  BY DEF IInv, SettleNext, memory, bounds
<1>4. TypeOK' /\ DeviceInv'
  BY <1>2, <1>3 DEF TypeOK, DeviceInv
<1>5. \A x \in Addr : media'[x] \subseteq media[x] /\ media'[x] # {}
  BY <1>2, <1>3 DEF TypeOK, DeviceInv
<1>6. CommittedInv'
  <2>1. SlotOf(sb.txg) \in Addr
    BY <1>3, NextSlotDiffers, Layout DEF TypeOK, Superblocks
  <2>2. \A p \in Pointers(sb) : p.block \in Addr
    BY <1>3, Layout
    DEF CommittedInv, WellFormed, Superblocks, Pointer, IndexBlocks, BitmapBlocks, BitsOf, BitmapOf, BlocksOf
  <2>. QED  BY <1>3, <1>5, <2>1, <2>2 DEF CommittedInv, Durable
<1>7. SlotInv'
  <2>1. NextSb' = NextSb /\ NextTxg' = NextTxg /\ \A x : Older(x) <=> Older(x)'
    BY <1>3 DEF NextSb, NextTxg, Older
  <2>2. NextReady => NextReady'
    <3>1. WellFormed(NextSb) => \A p \in Pointers(NextSb) : p.block \in Addr
      BY Layout
      DEF WellFormed, Superblocks, Pointer, IndexBlocks, BitmapBlocks, BitsOf, BitmapOf, BlocksOf
    <3>2. WellFormed(NextSb) <=> WellFormed(NextSb)'
      BY <2>1 DEF WellFormed
    <3>. QED  BY <1>5, <2>1, <3>1, <3>2 DEF NextReady, OnMedia
  <2>. QED  BY <1>3, <1>5, <2>1, <2>2, Layout DEF SlotInv
<1>. QED  BY <1>3, <1>4, <1>6, <1>7 DEF IInv, Mounted

(* The superblocks mount could use. *)
Usable == {s \in Found(SbSlot) : Opens(s)}

(* What mount chooses is either the last commit or one that was complete   *)
(* on the disk when the power failed.                                      *)
LEMMA MountChooses ==
    ASSUME IInv, EarlyFaultsOnly, Mount
    PROVE  /\ sb \in Usable
           /\ \E s \in Usable :
                 /\ \A o \in Usable : o.txg <= s.txg
                 /\ sb' = s /\ tree' = TreeOf(s) /\ root' = s.root /\ index' = s.index
                 /\ bits' = BitsOf(s) /\ held' = {} /\ drop' = {} /\ dirty' = FALSE
                 /\ cursor' = DataStart /\ phase' = "idle"
                 /\ \/ s = sb
                    \/ view[SlotOf(NextTxg)] = s /\ s = NextSb /\ NextReady
<1>1. /\ TypeOK /\ DeviceInv /\ CommittedInv /\ SlotInv /\ phase = "off" /\ Settled
  BY DEF IInv, Mount
<1>2. SlotsRead = {SbSlot}
  BY DEF EarlyFaultsOnly, SlotsRead
<1>3. sb.txg \in Nat /\ SlotOf(sb.txg) \in SbSlot
  BY <1>1, NextSlotDiffers DEF TypeOK, Superblocks
<1>4. sb \in Usable
  <2>1. \A p \in Pointers(sb) : p.block \in Addr
    BY <1>1, Layout
    DEF CommittedInv, WellFormed, Superblocks, Pointer, IndexBlocks, BitmapBlocks, BitsOf, BitmapOf, BlocksOf
  <2>2. \A p \in Pointers(sb) : view[p.block] = p.sum
    BY <1>1, <2>1 DEF DeviceInv, CommittedInv, Durable
  <2>3. Opens(sb)
    BY <2>2 DEF Opens, Pointers
  <2>4. view[SlotOf(sb.txg)] = sb /\ sb.kind = "sb"
    BY <1>1, <1>3, Layout DEF DeviceInv, CommittedInv, Durable, TypeOK, Superblocks
  <2>. QED  BY <1>3, <2>3, <2>4 DEF Found, Usable
<1>5. PICK s \in Usable :
         /\ \A o \in Usable : o.txg <= s.txg
         /\ sb' = s /\ tree' = TreeOf(s) /\ root' = s.root /\ index' = s.index
         /\ bits' = BitsOf(s) /\ held' = {} /\ drop' = {} /\ dirty' = FALSE
         /\ cursor' = DataStart /\ phase' = "idle"
  BY <1>2, <1>4 DEF Mount, Usable
<1>6. PICK n \in SbSlot : view[n] = s /\ s.kind = "sb"
  BY <1>5 DEF Found, Usable
<1>7. s = sb \/ (n = SlotOf(NextTxg) /\ s = NextSb /\ NextReady)
  <2>1. s \in media[n]
    BY <1>1, <1>6, Layout DEF Settled
  <2>2. sb.txg <= s.txg
    BY <1>4, <1>5
  <2>3. Older(s) => s = sb
    BY <1>3, <1>6, <2>2 DEF Older, Superblocks
  <2>. QED  BY <1>1, <2>1, <2>3 DEF SlotInv
<1>. QED  BY <1>4, <1>5, <1>6, <1>7

(* So mounting keeps the invariant. *)
LEMMA MountStep ==
    ASSUME IInv, EarlyFaultsOnly, Mount
    PROVE  IInv'
<1>1. /\ TypeOK /\ DeviceInv /\ CommittedInv /\ SlotInv /\ phase = "off" /\ Settled
      /\ view' = view /\ media' = media /\ errors' = errors /\ outages' = outages
  BY DEF IInv, Mount, device, bounds
<1>2. /\ sb.txg \in Nat /\ NextTxg = sb.txg + 1 /\ NextSb.txg = NextTxg
      /\ NextTxg \in Nat /\ SlotOf(sb.txg) \in SbSlot /\ SlotOf(NextTxg) \in SbSlot
  BY <1>1, NextSlotDiffers DEF TypeOK, Superblocks, NextTxg, NextSb, Superblock
<1>3. \A s \in SbSlot : media[s] = {view[s]}
  BY <1>1, Layout DEF Settled
<1>4. PICK s \in Usable :
         /\ \A o \in Usable : o.txg <= s.txg
         /\ sb' = s /\ tree' = TreeOf(s) /\ root' = s.root /\ index' = s.index
         /\ bits' = BitsOf(s) /\ held' = {} /\ drop' = {} /\ dirty' = FALSE
         /\ cursor' = DataStart /\ phase' = "idle"
         /\ s = sb \/ (view[SlotOf(NextTxg)] = s /\ s = NextSb /\ NextReady)
  BY MountChooses
<1>5. WellFormed(s) /\ Durable(s)
  <2>1. CASE s = sb
    BY <1>1, <2>1 DEF CommittedInv
  <2>2. CASE view[SlotOf(NextTxg)] = s /\ s = NextSb /\ NextReady
    BY <1>2, <1>3, <2>2 DEF NextReady, OnMedia, Durable
  <2>. QED  BY <1>4, <2>1, <2>2
<1>6. AtLastCommit'
  BY <1>1, <1>4, <1>5
  DEF AtLastCommit, WellFormed, Durable, DeviceInv, TreeOf, BitsOf, BitmapOf
<1>7. TypeOK'
  <2>1. s \in Superblocks
    BY <1>5 DEF WellFormed
  <2>2. /\ TreeOf(s) \in Trees /\ BitsOf(s) \in SUBSET Block
        /\ s.root \in Pointer(NodeBlocks) /\ s.index \in Pointer(IndexBlocks)
    BY <2>1 DEF Superblocks, Pointer, IndexBlocks, NodeBlocks, BitmapBlocks, TreeOf, BitsOf, BitmapOf
  <2>. QED  BY <1>1, <1>4, <2>1, <2>2, Layout DEF TypeOK, Phase
<1>8. SlotInv'
  <2>1. ASSUME NEW x \in SbSlot, NEW c \in media[x] PROVE Older(c)'
    <3>1. c = view[x]
      BY <1>3
    <3>2. CASE s = sb /\ c = NextSb /\ NextReady
      <4>1. Opens(NextSb)
        <5>1. \A p \in Pointers(NextSb) : p.block \in Addr
          BY <3>2, Layout
          DEF NextReady, WellFormed, Superblocks, Pointer, IndexBlocks, BitmapBlocks, BitsOf, BitmapOf, BlocksOf
        <5>2. \A p \in Pointers(NextSb) : view[p.block] = p.sum
          BY <1>1, <3>2, <5>1 DEF NextReady, OnMedia, DeviceInv
        <5>. QED  BY <5>2 DEF Opens, Pointers
      <4>2. NextSb \in Usable
        <5>1. view[x] = NextSb
          BY <3>1, <3>2
        <5>2. view[x].kind = "sb"
          BY <5>1 DEF NextSb, Superblock
        <5>. QED  BY <4>1, <5>1, <5>2 DEF Found, Usable
      <4>. QED  BY <1>2, <1>4, <3>2, <4>2
    <3>3. CASE s = NextSb /\ c = NextSb
      BY <1>4, <3>3 DEF Older
    <3>4. CASE Older(c)
      <4>1. c.kind # "sb" \/ c = sb \/ (c \in Superblocks /\ c.txg < sb.txg)
        BY <3>4 DEF Older
      <4>2. CASE s = sb
        BY <1>4, <3>4, <4>2 DEF Older
      <4>3. CASE s = NextSb
        <5>1. sb \in Superblocks /\ sb.txg < s.txg /\ s.txg \in Nat
          BY <1>1, <1>2, <4>3 DEF TypeOK
        <5>2. c \in Superblocks => c.txg \in Nat
          BY DEF Superblocks
        <5>3. c.kind # "sb" \/ (c \in Superblocks /\ c.txg < s.txg)
          BY <1>2, <4>1, <5>1, <5>2
        <5>. QED  BY <1>4, <5>3 DEF Older
      <4>. QED  BY <1>4, <4>2, <4>3
    <3>. QED  BY <1>1, <1>4, <2>1, <3>2, <3>3, <3>4 DEF SlotInv
  <2>. QED  BY <1>1, <2>1 DEF SlotInv
<1>9. DeviceInv' /\ CommittedInv' /\ LiveInv' /\ PhaseInv'
  BY <1>6, LastCommitIsLiveNext DEF AtLastCommit, CommittedInv
<1>. QED  BY <1>7, <1>8, <1>9 DEF IInv

(* So does a step that changes nothing. *)
LEMMA StutterStep == ASSUME IInv, UNCHANGED vars PROVE IInv'
<1>1. UNCHANGED <<view, media, phase, sb, tree, drop, dirty, root, index, bits, held,
                  cursor, errors, outages>>
  BY DEF vars
<1>. QED
  BY <1>1
  DEF IInv, TypeOK, DeviceInv, CommittedInv, WellFormed, Durable, SlotInv, Older, NextSb,
      NextTxg, NextReady, OnMedia, Mounted, LiveInv, LivePointers, RootPtr, CommittedBlocks,
      BirthInv, PhaseInv

-----------------------------------------------------------------------------
(* The theorems.                                                           *)

(* IInv is inductive: every operation, every step of a commit, every abort, *)
(* power failure and mount preserves it.                                   *)
LEMMA NextIInv == EarlyFaultsOnly /\ IInv /\ [Next]_vars => IInv'
<1>. SUFFICES ASSUME EarlyFaultsOnly, IInv, [Next]_vars PROVE IInv'
  OBVIOUS
<1>1. CASE Operation
  <2>1. Small \subseteq Value
    BY VolumeAssumption
  <2>. QED
    BY <1>1, <2>1, WriteInlineStep, WriteExtentStep, DataFailsStep, RenameStep, RemoveStep,
       RemoveEntryStep DEF Operation
<1>2. CASE Commit
  BY <1>2, WriteTreeStep, WriteBitmapStep, FlushNewStep, WriteSuperblockStep, LandStep
  DEF Commit
<1>3. CASE OpFails \/ CommitFails
  BY <1>3, OpFailsStep, CommitFailsStep
<1>4. CASE PowerFails \/ Boot
  BY <1>4, PowerFailsStep, SettleStep, MountStep DEF Boot
<1>5. CASE UNCHANGED vars
  BY <1>5, StutterStep
<1>. QED  BY <1>1, <1>2, <1>3, <1>4, <1>5 DEF Next

(* The inductive invariant holds of every volume whose device reports no   *)
(* error once a superblock is being written and none while it is mounted.  *)
THEOREM VolumeInvariant == EarlyFaultsOnly => (Spec => []IInv)
<1>. SUFFICES ASSUME EarlyFaultsOnly PROVE Spec => []IInv
  OBVIOUS
<1>1. IInv /\ [Next]_vars => IInv'
  BY NextIInv
<1>. QED  BY InitIInv, <1>1, PTL DEF Spec

(* Every variable keeps its type: what memory holds after any sequence of  *)
(* operations, failures and mounts is a tree, a bitmap and pointers into   *)
(* the volume.                                                             *)
THEOREM TypeCorrect == EarlyFaultsOnly => (Spec => []TypeOK)
<1>1. IInv => TypeOK
  BY DEF IInv
<1>. QED  BY VolumeInvariant, <1>1, PTL

(* At every moment of every operation, commit and abort, a power failure   *)
(* would leave the committed state whole on the disk.                      *)
THEOREM CommittedStateIntact == EarlyFaultsOnly => (Spec => []CommittedIntact)
<1>1. IInv => CommittedIntact
  BY DEF IInv, CommittedInv, CommittedIntact
<1>. QED  BY VolumeInvariant, <1>1, PTL

(* No sequence of operations, failures, aborts and power failures leaks a  *)
(* block, uses one twice, or frees one the committed state needs.          *)
THEOREM SpaceIsExact == EarlyFaultsOnly => (Spec => []SpaceExact)
<1>1. IInv => SpaceExact
  BY DEF IInv, LiveInv, SpaceExact, CommittedBlocks
<1>. QED  BY VolumeInvariant, <1>1, PTL

(* An idle volume works from the newest superblock in the ring.            *)
THEOREM NewestSuperblockInUse == EarlyFaultsOnly => (Spec => []NewestInUse)
<1>1. IInv => NewestInUse
  <2>. SUFFICES ASSUME IInv, phase = "idle", NEW s \in SbSlot, view[s].kind = "sb"
                PROVE  view[s].txg <= sb.txg
    BY DEF NewestInUse
  <2>1. view[s] \in media[s]
    BY Layout DEF IInv, DeviceInv
  <2>2. Older(view[s])
    BY <2>1 DEF IInv, SlotInv
  <2>. QED  BY <2>2 DEF Older, IInv, TypeOK, Superblocks
<1>. QED  BY VolumeInvariant, <1>1, PTL

(* However many of the cached writes a power failure loses, and in         *)
(* whatever order, mount finds a superblock it can use.                    *)
THEOREM PowerFailureIsRecoverable == EarlyFaultsOnly => (Spec => []Recoverable)
<1>1. IInv => Recoverable
  <2>. SUFFICES ASSUME IInv, Settled PROVE \E s \in Found(SbSlot) : Opens(s)
    BY DEF Recoverable
  <2>1. sb.kind = "sb" /\ sb.txg \in Nat /\ SlotOf(sb.txg) \in SbSlot
    BY NextSlotDiffers DEF IInv, TypeOK, Superblocks
  <2>2. \A p \in Pointers(sb) : p.block \in Addr
    BY Layout
    DEF IInv, CommittedInv, WellFormed, Superblocks, Pointer, IndexBlocks, BitmapBlocks, BitsOf,
        BitmapOf, BlocksOf
  <2>3. view[SlotOf(sb.txg)] = sb /\ \A p \in Pointers(sb) : view[p.block] = p.sum
    BY <2>1, <2>2, Layout DEF IInv, DeviceInv, CommittedInv, Durable
  <2>4. Opens(sb)
    BY <2>3 DEF Opens, Pointers
  <2>. QED  BY <2>1, <2>3, <2>4 DEF Found
<1>. QED  BY VolumeInvariant, <1>1, PTL
-----------------------------------------------------------------------------
(* The promise of AtomicVolume: every step of an operation, of its commit, *)
(* of an abort, a power failure or a mount is a step of the promise, or    *)
(* one that a caller cannot see.                                           *)

(* What the promise's variables are in the volume. *)
Committed == Reads(TreeOf(sb))
Wanted == [f \in File |-> IF f \in drop THEN None ELSE Reads(tree)[f]]
Up == phase # "off"

(* What the tree in memory has to do with the committed one: idle, it is   *)
(* that one; in the middle of a removal, it differs from it in files that  *)
(* are gone; and a new superblock that a power failure left on the disk    *)
(* leads to it.                                                            *)
WantedInv ==
    /\ phase \in {"idle", "dead"} => drop = {} /\ tree = TreeOf(sb)
    /\ drop # {} => \A f \in File : Reads(tree)[f] \in {Committed[f], None}
    /\ phase = "off" /\ (\E s \in SbSlot : NextSb \in media[s]) => root.sum.tree = tree

-----------------------------------------------------------------------------
(* What readers see.                                                       *)

(* A reader sees a value, or no file, under every name. *)
LEMMA ReadsTyped ==
    ASSUME NEW tr \in Trees
    PROVE  Reads(tr) \in [File -> Value \cup {None}]
<1>1. ASSUME NEW f \in File
      PROVE  Reads(tr)[f] \in Value \cup {None}
  <2>1. tr[f] \in Entries
    BY DEF Trees
  <2>2. CASE tr[f].kind = "absent"
    BY <2>2 DEF Reads
  <2>3. CASE tr[f].kind = "inline"
    BY <2>1, <2>3 DEF Reads, Entries
  <2>4. CASE tr[f].kind = "extent"
    <3>1. tr[f].bp.sum \in DataBlocks
      BY <2>1, <2>4 DEF Entries, Pointer
    <3>. QED  BY <2>4, <3>1 DEF Reads, DataBlocks
  <2>. QED  BY <2>1, <2>2, <2>3, <2>4 DEF Entries
<1>. QED  BY <1>1 DEF Reads

(* So do the committed state and the one an operation will leave. *)
LEMMA ContentTyped ==
    ASSUME TypeOK
    PROVE  /\ Committed \in [File -> Value \cup {None}]
           /\ Wanted \in [File -> Value \cup {None}]
<1>1. tree \in Trees /\ TreeOf(sb) \in Trees
  BY DEF TypeOK, Superblocks, Pointer, NodeBlocks, TreeOf
<1>2. Reads(tree) \in [File -> Value \cup {None}]
  BY <1>1, ReadsTyped
<1>. QED  BY <1>1, <1>2, ReadsTyped DEF Committed, Wanted

(* The same of the state a step leads to. *)
LEMMA ContentTypedNext ==
    TypeOK' => (Committed \in [File -> Value \cup {None}] /\ Wanted \in [File -> Value \cup {None}])'
BY ContentTyped, PTL

(* With nothing left to delete, an operation will leave what is in memory. *)
LEMMA NothingToDrop == drop = {} => Wanted = Reads(tree)
BY DEF Wanted, Reads

(* The same of the state a step leads to. *)
LEMMA NothingToDropNext == (drop = {} => Wanted = Reads(tree))'
BY NothingToDrop, PTL

(* What is in memory is the content the operation in progress will leave,  *)
(* or, while a removal is in progress, part of the way to it.              *)
LEMMA TreeIsOnTheWay ==
    ASSUME WantedInv
    PROVE  \/ Reads(tree) = Wanted
           \/ \A f \in File : /\ Wanted[f] \in {Committed[f], None}
                              /\ Reads(tree)[f] \in {Committed[f], Wanted[f]}
<1>1. CASE drop = {}
  BY <1>1, NothingToDrop
<1>2. CASE drop # {}
  BY <1>2 DEF WantedInv, Wanted
<1>. QED  BY <1>1, <1>2

-----------------------------------------------------------------------------
(* The steps of the promise, in terms of the volume's content.             *)

(* An operation begins: only what it will leave changes. *)
LEMMA IsBegin ==
    ASSUME TypeOK', Up, Up', Wanted = Committed, Committed' = Committed
    PROVE  Promise!Begin
<1>1. Wanted' \in [File -> Value \cup {None}]
  BY ContentTypedNext
<1>. QED  BY <1>1 DEF Promise!Begin, Promise!Content, Wanted, Committed, Up

(* What is in memory becomes permanent. *)
LEMMA IsLand ==
    ASSUME TypeOK', WantedInv, Up, Up', Committed' = Reads(tree), Wanted' = Wanted
    PROVE  Promise!Land
<1>1. Committed' \in [File -> Value \cup {None}]
  BY ContentTypedNext
<1>2. \/ Committed' = Wanted
      \/ \A f \in File : /\ Wanted[f] \in {Committed[f], None}
                         /\ Committed'[f] \in {Committed[f], Wanted[f]}
  BY TreeIsOnTheWay
<1>. QED  BY <1>1, <1>2 DEF Promise!Land, Promise!PartOfRemoval, Promise!Content, Wanted, Committed, Up

(* An operation fails: nothing is left to do. *)
LEMMA IsFail ==
    ASSUME Up, Up', Committed' = Committed, Wanted' = Committed
    PROVE  Promise!Fail
BY DEF Promise!Fail, Wanted, Committed, Up

(* The power fails: no content changes. *)
LEMMA IsPowerFails ==
    ASSUME ~Up', Committed' = Committed, Wanted' = Wanted
    PROVE  Promise!PowerFails
BY DEF Promise!PowerFails, Wanted, Committed, Up

(* The next mount finds the committed content or that in memory. *)
LEMMA IsRecover ==
    ASSUME TypeOK', WantedInv, ~Up, Up', Committed' \in {Committed, Reads(tree)},
           Wanted' = Committed'
    PROVE  Promise!Recover
<1>1. Committed' \in [File -> Value \cup {None}]
  BY ContentTypedNext
<1>2. \/ Committed' \in {Committed, Wanted}
      \/ \A f \in File : /\ Wanted[f] \in {Committed[f], None}
                         /\ Committed'[f] \in {Committed[f], Wanted[f]}
  BY TreeIsOnTheWay
<1>. QED  BY <1>1, <1>2 DEF Promise!Recover, Promise!PartOfRemoval, Promise!Content, Wanted, Committed, Up

(* Nothing a caller can see changes. *)
LEMMA IsStutter ==
    ASSUME Up' = Up, Committed' = Committed, Wanted' = Wanted
    PROVE  UNCHANGED Promise!vars
BY DEF Promise!vars, Wanted, Committed, Up

-----------------------------------------------------------------------------
(* The steps of the volume.                                                *)

(* The empty volume has no operation in progress. *)
LEMMA InitRefines == Init => WantedInv /\ Promise!Init
<1>. SUFFICES ASSUME Init PROVE WantedInv /\ Promise!Init
  OBVIOUS
<1>1. TypeOK /\ drop = {} /\ tree = TreeOf(sb) /\ phase = "idle"
  BY InitIInv DEF Init, IInv
<1>2. WantedInv
  BY <1>1 DEF WantedInv
<1>3. Wanted = Committed /\ Committed \in [File -> Value \cup {None}]
  BY <1>1, NothingToDrop, ContentTyped DEF Committed
<1>4. Promise!Init
  BY <1>1, <1>3 DEF Promise!Init, Promise!Content, Wanted, Committed
<1>. QED  BY <1>2, <1>4

(* A write or a rename begins an operation. *)
LEMMA ChangeRefines ==
    ASSUME TypeOK', WantedInv, phase = "idle", phase' = "tree", UNCHANGED <<sb, drop>>
    PROVE  WantedInv' /\ Promise!Begin
<1>1. drop = {} /\ drop' = {} /\ tree = TreeOf(sb) /\ sb' = sb
  BY DEF WantedInv
<1>2. WantedInv'
  BY <1>1 DEF WantedInv
<1>3. Wanted = Committed /\ Committed' = Committed
  BY <1>1, NothingToDrop DEF Committed, Reads, TreeOf
<1>. QED  BY <1>2, <1>3, IsBegin DEF Up

(* So does a removal. *)
LEMMA RemoveRefines ==
    ASSUME TypeOK', WantedInv, NEW D \in SUBSET File, Remove(D)
    PROVE  WantedInv' /\ Promise!Begin
<1>1. /\ phase = "idle" /\ phase' = "op" /\ sb' = sb /\ tree' = tree
      /\ drop = {} /\ tree = TreeOf(sb)
  BY DEF Remove, CanBegin, WantedInv
<1>2. WantedInv'
  BY <1>1 DEF WantedInv, Committed, Reads, TreeOf
<1>3. Wanted = Committed /\ Committed' = Committed
  BY <1>1, NothingToDrop DEF Committed, Reads, TreeOf
<1>. QED  BY <1>1, <1>2, <1>3, IsBegin DEF Up

(* A caller does not see one entry of a removal go. *)
LEMMA RemoveEntryRefines ==
    ASSUME TypeOK, WantedInv, NEW f \in File, RemoveEntry(f)
    PROVE  WantedInv' /\ UNCHANGED Promise!vars
<1>1. /\ phase = "op" /\ phase' \in {"op", "tree"} /\ f \in drop
      /\ tree' = [tree EXCEPT ![f] = Absent] /\ drop' = drop \ {f} /\ sb' = sb
  BY DEF RemoveEntry
<1>2. \A g \in File : Reads(tree')[g] = IF g = f THEN None ELSE Reads(tree)[g]
  <2>1. tree = [g \in File |-> tree[g]]
    BY TreeTypes DEF TypeOK
  <2>2. \A g \in File : tree'[g] = IF g = f THEN Absent ELSE tree[g]
    BY <1>1, <2>1
  <2>. QED  BY <2>2 DEF Reads, Absent
<1>3. Committed' = Committed
  BY <1>1 DEF Committed, Reads, TreeOf
<1>4. WantedInv'
  <2>1. \A g \in File : Reads(tree')[g] \in {Committed[g], None}
    BY <1>1, <1>2 DEF WantedInv
  <2>. QED  BY <1>1, <1>3, <2>1 DEF WantedInv, Reads
<1>5. Wanted' = Wanted
  BY <1>1, <1>2 DEF Wanted, Reads
<1>. QED  BY <1>1, <1>3, <1>4, <1>5, IsStutter DEF Up

(* Nor the steps of a commit before its second flush. *)
LEMMA CommitRefines ==
    ASSUME WantedInv, WriteTree \/ WriteBitmap \/ FlushNew \/ WriteSuperblock
    PROVE  WantedInv' /\ UNCHANGED Promise!vars
<1>1. /\ phase # "off" /\ phase' \in {"bitmap", "flush", "superblock", "land"}
      /\ sb' = sb /\ tree' = tree /\ drop' = drop
  BY DEF WriteTree, WriteBitmap, FlushNew, WriteSuperblock, memory
<1>2. Committed' = Committed /\ Reads(tree)' = Reads(tree)
  BY <1>1 DEF Committed, Reads, TreeOf
<1>3. WantedInv'
  BY <1>1, <1>2 DEF WantedInv
<1>4. Wanted' = Wanted
  BY <1>1, <1>2 DEF Wanted
<1>. QED  BY <1>1, <1>2, <1>3, <1>4, IsStutter DEF Up

(* The second flush makes the operation, or the part of a removal that has *)
(* been done, permanent.                                                   *)
LEMMA LandRefines ==
    ASSUME IInv, TypeOK', WantedInv, Land
    PROVE  WantedInv' /\ Promise!Land
<1>1. /\ phase = "land" /\ phase' = (IF drop = {} THEN "idle" ELSE "op")
      /\ sb' = NextSb /\ tree' = tree /\ drop' = drop
  BY DEF Land
<1>2. TreeOf(sb') = tree
  BY <1>1 DEF IInv, Mounted, PhaseInv, TreeOf, NextSb, Superblock
<1>3. Committed' = Reads(tree) /\ Reads(tree)' = Reads(tree)
  BY <1>1, <1>2 DEF Committed, Reads, TreeOf
<1>4. WantedInv'
  BY <1>1, <1>2, <1>3 DEF WantedInv
<1>5. Wanted' = Wanted
  BY <1>1, <1>3 DEF Wanted
<1>. QED  BY <1>1, <1>3, <1>4, <1>5, IsLand DEF Up

(* An operation that fails changes nothing. *)
LEMMA AbortRefines ==
    ASSUME WantedInv, Abort, phase # "off"
    PROVE  WantedInv' /\ Promise!Fail
<1>1. phase' \in {"idle", "dead"} /\ drop' = {} /\ tree' = TreeOf(sb) /\ sb' = sb
  BY DEF Abort
<1>2. WantedInv'
  BY <1>1 DEF WantedInv, TreeOf
<1>3. Committed' = Committed
  BY <1>1 DEF Committed, Reads, TreeOf
<1>4. Wanted' = Committed
  BY <1>1, NothingToDropNext DEF Committed, Reads
<1>. QED  BY <1>1, <1>2, <1>3, <1>4, IsFail DEF Up

(* A power failure loses what was not permanent; only one that interrupts  *)
(* the landing of a commit leaves a newer superblock.                      *)
LEMMA PowerFailsRefines ==
    ASSUME IInv, WantedInv, PowerFails
    PROVE  WantedInv' /\ Promise!PowerFails
<1>1. /\ phase # "off" /\ phase' = "off"
      /\ UNCHANGED <<media, sb, tree, drop, root, index>>
  BY DEF PowerFails, device, memory
<1>2. Committed' = Committed /\ Reads(tree)' = Reads(tree) /\ NextSb' = NextSb
  BY <1>1 DEF Committed, Reads, TreeOf, NextSb, NextTxg
<1>3. ASSUME NEW s \in SbSlot, NextSb \in media[s]
      PROVE  root.sum.tree = tree
  <2>1. NextSb.kind = "sb" /\ NextSb.txg = sb.txg + 1 /\ sb.txg \in Nat
    BY DEF IInv, TypeOK, Superblocks, NextSb, NextTxg, Superblock
  <2>2. ~Older(NextSb)
    BY <2>1 DEF Older
  <2>3. phase = "land"
    BY <1>1, <1>3, <2>2 DEF IInv, SlotInv
  <2>. QED  BY <2>3 DEF IInv, Mounted, PhaseInv
<1>4. WantedInv'
  BY <1>1, <1>2, <1>3 DEF WantedInv
<1>5. Wanted' = Wanted
  BY <1>1, <1>2 DEF Wanted
<1>. QED  BY <1>1, <1>2, <1>4, <1>5, IsPowerFails DEF Up

(* What an address turns out to hold is one of the things it could hold. *)
LEMMA SettleRefines ==
    ASSUME IInv, WantedInv, SettleNext
    PROVE  WantedInv' /\ UNCHANGED Promise!vars
<1>1. /\ phase = "off" /\ phase' = "off"
      /\ UNCHANGED <<sb, tree, drop, root, index>>
  BY DEF SettleNext, memory
<1>2. Committed' = Committed /\ Reads(tree)' = Reads(tree) /\ NextSb' = NextSb
  BY <1>1 DEF Committed, Reads, TreeOf, NextSb, NextTxg
<1>3. \A s \in SbSlot : media'[s] \subseteq media[s]
  <2>1. PICK a \in Addr : Settle(a)
    BY DEF SettleNext
  <2>2. PICK c \in media[a] : media' = [media EXCEPT ![a] = {c}]
    BY <2>1 DEF Settle
  <2>. QED  BY <2>2, Layout DEF IInv, TypeOK
<1>4. WantedInv'
  BY <1>1, <1>2, <1>3 DEF WantedInv
<1>5. Wanted' = Wanted
  BY <1>1, <1>2 DEF Wanted
<1>. QED  BY <1>1, <1>2, <1>4, <1>5, IsStutter DEF Up

(* Mounting finds the operation in progress done or undone. *)
LEMMA MountRefines ==
    ASSUME EarlyFaultsOnly, IInv, TypeOK', WantedInv, Mount
    PROVE  WantedInv' /\ Promise!Recover
<1>1. PICK s \in Usable :
         /\ sb' = s /\ tree' = TreeOf(s) /\ drop' = {} /\ phase' = "idle"
         /\ s = sb \/ (view[SlotOf(NextTxg)] = s /\ s = NextSb)
  BY MountChooses
<1>2. phase = "off"
  BY DEF Mount
<1>3. TreeOf(s) \in {TreeOf(sb), tree}
  <2>1. CASE s = sb
    BY <2>1
  <2>2. CASE view[SlotOf(NextTxg)] = s /\ s = NextSb
    <3>1. SlotOf(NextTxg) \in SbSlot
      BY NextSlotDiffers DEF IInv, TypeOK, Superblocks, NextTxg
    <3>2. NextSb \in media[SlotOf(NextTxg)]
      BY <2>2, <3>1, Layout DEF IInv, DeviceInv
    <3>3. root.sum.tree = tree
      BY <1>2, <3>1, <3>2 DEF WantedInv
    <3>. QED  BY <2>2, <3>3 DEF TreeOf, NextSb, Superblock
  <2>. QED  BY <1>1, <2>1, <2>2
<1>4. WantedInv'
  BY <1>1 DEF WantedInv, TreeOf
<1>5. Committed' \in {Committed, Reads(tree)}
  BY <1>1, <1>3 DEF Committed, Reads, TreeOf
<1>6. Wanted' = Committed'
  BY <1>1, NothingToDropNext DEF Committed, Reads, TreeOf
<1>. QED  BY <1>1, <1>2, <1>4, <1>5, <1>6, IsRecover DEF Up

(* Nor does a caller see a step that changes nothing. *)
LEMMA StutterRefines ==
    ASSUME WantedInv, UNCHANGED vars
    PROVE  WantedInv' /\ UNCHANGED Promise!vars
<1>1. UNCHANGED <<media, phase, sb, tree, drop, root, index>>
  BY DEF vars
<1>2. Committed' = Committed /\ Reads(tree)' = Reads(tree) /\ NextSb' = NextSb
  BY <1>1 DEF Committed, Reads, TreeOf, NextSb, NextTxg
<1>3. WantedInv'
  BY <1>1, <1>2 DEF WantedInv
<1>4. Wanted' = Wanted
  BY <1>1, <1>2 DEF Wanted
<1>. QED  BY <1>1, <1>2, <1>3, <1>4, IsStutter DEF Up

-----------------------------------------------------------------------------
(* The theorem.                                                            *)

(* Every step of the volume is a step of the promise or invisible. *)
LEMMA NextRefines ==
    EarlyFaultsOnly /\ IInv /\ WantedInv /\ [Next]_vars
        => WantedInv' /\ [Promise!Next]_Promise!vars
<1>. SUFFICES ASSUME EarlyFaultsOnly, IInv, WantedInv, [Next]_vars
              PROVE  WantedInv' /\ [Promise!Next]_Promise!vars
  OBVIOUS
<1>1. TypeOK /\ TypeOK'
  BY NextIInv DEF IInv
<1>2. CASE \E f \in File, v \in Value : WriteInline(f, v) \/ WriteExtent(f, v)
  <2>1. phase = "idle" /\ phase' = "tree" /\ UNCHANGED <<sb, drop>>
    BY <1>2 DEF WriteInline, WriteExtent, CanBegin
  <2>. QED  BY <1>1, <2>1, ChangeRefines DEF Promise!Next
<1>3. CASE \E f, g \in File : Rename(f, g)
  <2>1. phase = "idle" /\ phase' = "tree" /\ UNCHANGED <<sb, drop>>
    BY <1>3 DEF Rename, CanBegin
  <2>. QED  BY <1>1, <2>1, ChangeRefines DEF Promise!Next
<1>4. CASE \E D \in SUBSET File : Remove(D)
  BY <1>1, <1>4, RemoveRefines DEF Promise!Next
<1>5. CASE \E f \in File : RemoveEntry(f)
  BY <1>1, <1>5, RemoveEntryRefines
<1>6. CASE WriteTree \/ WriteBitmap \/ FlushNew \/ WriteSuperblock
  BY <1>6, CommitRefines
<1>7. CASE Land
  BY <1>1, <1>7, LandRefines DEF Promise!Next
<1>8. CASE (\E f \in File, v \in Value : DataFails(f, v)) \/ OpFails \/ CommitFails
  <2>1. Abort /\ phase # "off"
    BY <1>8 DEF DataFails, OpFails, CommitFails, CanBegin
  <2>. QED  BY <2>1, AbortRefines DEF Promise!Next
<1>9. CASE PowerFails
  BY <1>9, PowerFailsRefines DEF Promise!Next
<1>10. CASE Boot
  <2>1. CASE SettleNext
    BY <2>1, SettleRefines
  <2>2. CASE Mount
    BY <1>1, <2>2, MountRefines DEF Promise!Next
  <2>. QED  BY <1>10, <2>1, <2>2 DEF Boot
<1>11. CASE UNCHANGED vars
  BY <1>11, StutterRefines
<1>12. Small \subseteq Value
  BY VolumeAssumption
<1>. QED
  BY <1>2, <1>3, <1>4, <1>5, <1>6, <1>7, <1>8, <1>9, <1>10, <1>11, <1>12
  DEF Next, Operation, Commit

(* The volume keeps its promise: whatever is written, removed, refused,    *)
(* aborted or interrupted, in whatever order the disk makes its writes     *)
(* durable, an operation happens completely or not at all, is durable once *)
(* it has returned, and a power failure loses at most the one in progress. *)
THEOREM VolumeIsAtomic == EarlyFaultsOnly => (Spec => Atomic)
<1>. SUFFICES ASSUME EarlyFaultsOnly PROVE Spec => Atomic
  OBVIOUS
<1>1. IInv /\ WantedInv /\ [Next]_vars => WantedInv' /\ [Promise!Next]_Promise!vars
  BY NextRefines
<1>2. Spec => []IInv
  BY VolumeInvariant
<1>. QED  BY InitRefines, <1>1, <1>2, PTL DEF Spec, Atomic, Promise!Spec
=============================================================================
