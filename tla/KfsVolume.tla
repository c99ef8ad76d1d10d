----------------------------- MODULE KfsVolume -----------------------------
(***************************************************************************)
(* KonjacFS (kernel/src/kfs.rs): copy-on-write operations, the commit      *)
(* protocol, the abort path and mounting, over a disk that caches writes.  *)
(*                                                                         *)
(* The whole B+tree is one block here: every operation that changes it     *)
(* writes a new root, which is what path copying comes to for the commit   *)
(* protocol.  A file is either inline in the tree or has one extent of one *)
(* block.  A checksum is the contents it is the checksum of.  The FS lock  *)
(* is held across an operation, so only the power can interrupt one.       *)
(***************************************************************************)
EXTENDS BlockDevice, Naturals, FiniteSets

CONSTANTS File,         \* names the volume may hold
          Value,        \* contents a file may have
          Small,        \* those of at most INLINE_MAX bytes
          DataStart,    \* DATA_START: the first block that is not a superblock
          TotalBlocks,  \* fs.total_blocks
          SbSlots,      \* SB_SLOTS: the size of the superblock ring
          None,         \* stands for no such file
          Reserve,      \* free blocks file data may not use
          Faults,       \* the phases whose device calls may report an error
          MaxTxg,       \* bound: no operation starts at this txg
          MaxErrors,    \* bound: device errors
          MaxOutages    \* bound: power failures

SbFirst == 1
SbSlot == SbFirst .. SbFirst + SbSlots - 1
Block == DataStart .. TotalBlocks - 1
(* A plausible bug: every superblock in the ring's first slot. *)
OneSlot(t) == SbFirst
SlotOf(t) == SbFirst + (t % SbSlots)

Phase == {"idle", "op", "tree", "bitmap", "flush", "superblock", "land", "off", "dead"}

ASSUME VolumeAssumption ==
    /\ SbSlots \in Nat /\ SbSlots >= 2
    /\ DataStart \in Nat /\ DataStart >= SbFirst + SbSlots
    /\ TotalBlocks \in Nat /\ TotalBlocks >= DataStart + 3
    /\ Reserve \in Nat
    /\ Small \subseteq Value
    /\ Garbage = [kind |-> "garbage"]
    /\ MaxTxg \in Nat
    /\ MaxErrors \in Nat /\ MaxOutages \in Nat
    /\ Addr = SbSlot \cup Block
    /\ Faults \subseteq {"data", "op", "tree", "bitmap", "flush", "superblock", "land", "reload", "mount"}

VARIABLES phase,    \* where the operation in progress has got to
          sb,       \* fs.sb: the newest committed superblock; while the power is
                    \* off, a history variable
          tree,     \* File -> entry: the tree in the state being built
          drop,     \* what a removal in progress still has to delete
          dirty,    \* fs.dirty
          root,     \* the newest root written; fs.root unless that is in memory
          index,    \* the bitmap index, and through it the bitmap block
          bits,     \* fs.bits: blocks in use in the state being built
          held,     \* fs.held: freed, but in use by the committed state
          cursor,   \* fs.cursor: where next-fit allocation looks first
          errors,   \* device errors so far
          outages   \* power failures so far

bounds == <<errors, outages>>

memory == <<sb, tree, drop, dirty, root, index, bits, held, cursor>>
vars == <<view, media, phase, sb, tree, drop, dirty, root, index, bits, held, cursor, errors, outages>>

-----------------------------------------------------------------------------
(* What blocks hold.                                                       *)

DataBlock(v)       == [kind |-> "data", value |-> v]
NodeBlock(t, tr)   == [kind |-> "node", txg |-> t, tree |-> tr]
BitmapBlock(used)  == [kind |-> "bitmap", bits |-> used]
IndexBlock(t, bp)  == [kind |-> "index", txg |-> t, bitmap |-> bp]
Superblock(t, r, i) == [kind |-> "sb", txg |-> t, root |-> r, index |-> i]

(* A block pointer carries what it points at, as its checksum does. *)
Bp(b, t, c) == [block |-> b, birth |-> t, sum |-> c]

Absent      == [kind |-> "absent"]
Inline(v)   == [kind |-> "inline", value |-> v]
Extent(bp)  == [kind |-> "extent", bp |-> bp]

ExtentOf(e)  == IF e.kind = "extent" THEN {e.bp} ELSE {}
Extents(tr)  == UNION {ExtentOf(tr[f]) : f \in File}
TreeOf(s)    == s.root.sum.tree
BitmapOf(i)  == i.sum.bitmap
BitsOf(s)    == BitmapOf(s.index).sum.bits

(* Every pointer of the state a superblock describes. *)
Pointers(s) == {s.root, s.index, BitmapOf(s.index)} \cup Extents(TreeOf(s))
BlocksOf(S) == {bp.block : bp \in S}

(* The root the state being built is reached through, unless it is one     *)
(* that exists only in memory.                                             *)
RootPtr == IF dirty /\ phase \in {"op", "tree"} THEN {} ELSE {root}
LivePointers == RootPtr \cup {index, BitmapOf(index)} \cup Extents(tree)

-----------------------------------------------------------------------------
(* Free space.                                                             *)

FreedBits(S) == bits \ BlocksOf(S)
FreedHeld(S) == held \cup BlocksOf({bp \in S : bp.birth <= sb.txg})
(* A plausible bug: what the committed state uses is not kept from reuse. *)
UnusedByNew(used, kept) == Block \ used
Unused(used, kept) == Block \ (used \cup kept)

(* b is the block next-fit allocation takes from S, looking from `from'. *)
NextFit(from, S, b) ==
    LET ahead == {x \in S : x >= from}
        range == IF ahead = {} THEN S ELSE ahead
    IN b \in range /\ \A x \in range : b <= x

NextTxg == sb.txg + 1

DeviceError == errors < MaxErrors /\ errors' = errors + 1 /\ UNCHANGED outages

-----------------------------------------------------------------------------
(* Operations: each changes the state being built and goes on to commit.   *)

(* own_root, and the freeing of the extents in `gone'. *)
Owned(gone) == gone \cup (IF dirty THEN {} ELSE {root})

CanBegin == phase = "idle" /\ sb.txg < MaxTxg

(* Fs::write_file with contents that fit in the tree; create_dir too. *)
WriteInline(f, v) ==
    LET freed == Owned(ExtentOf(tree[f])) IN
    /\ CanBegin
    /\ tree' = [tree EXCEPT ![f] = Inline(v)]
    /\ bits' = FreedBits(freed)
    /\ held' = FreedHeld(freed)
    /\ dirty' = TRUE
    /\ phase' = "tree"
    /\ UNCHANGED <<device, sb, drop, root, index, cursor, bounds>>

(* The block write_data gives a file's new extent, which file data may not *)
(* take out of the reserve.                                                *)
DataBlockFor(f, b) ==
    LET freed == Owned(ExtentOf(tree[f]))
        free == Unused(FreedBits(freed), FreedHeld(freed))
    IN Cardinality(free) > Reserve /\ NextFit(cursor, free, b)

(* Fs::write_file with contents that go to an extent. *)
WriteExtent(f, v) ==
    LET freed == Owned(ExtentOf(tree[f])) IN
    /\ CanBegin
    /\ \E b \in Block :
          /\ DataBlockFor(f, b)
          /\ Write([a \in {b} |-> DataBlock(v)])
          /\ tree' = [tree EXCEPT ![f] = Extent(Bp(b, NextTxg, DataBlock(v)))]
          /\ bits' = FreedBits(freed) \cup {b}
          /\ cursor' = b + 1
    /\ held' = FreedHeld(freed)
    /\ dirty' = TRUE
    /\ phase' = "tree"
    /\ UNCHANGED <<sb, drop, root, index, bounds>>

(* Fs::rename: the entry moves, its extent stays where it is. *)
Rename(f, g) ==
    /\ CanBegin
    /\ tree[f] # Absent /\ tree[g] = Absent
    /\ tree' = [tree EXCEPT ![f] = Absent, ![g] = tree[f]]
    /\ bits' = FreedBits(Owned({}))
    /\ held' = FreedHeld(Owned({}))
    /\ dirty' = TRUE
    /\ phase' = "tree"
    /\ UNCHANGED <<device, sb, drop, root, index, cursor, bounds>>

(* Fs::remove_path of a file, or of a folder and the files D in it. *)
Remove(D) ==
    /\ CanBegin
    /\ D # {} /\ \A f \in D : tree[f] # Absent
    /\ drop' = D
    /\ phase' = "op"
    /\ UNCHANGED <<device, sb, tree, dirty, root, index, bits, held, cursor, bounds>>

(* One entry of it goes.  maybe_commit may then commit part of the way.    *)
RemoveEntry(f) ==
    LET freed == Owned(ExtentOf(tree[f])) IN
    /\ phase = "op" /\ f \in drop
    /\ tree' = [tree EXCEPT ![f] = Absent]
    /\ drop' = drop \ {f}
    /\ bits' = FreedBits(freed)
    /\ held' = FreedHeld(freed)
    /\ dirty' = TRUE
    /\ \/ drop' = {} /\ phase' = "tree"
       \/ drop' # {} /\ phase' = "op"
       \/ drop' # {} /\ phase' = "tree" /\ NextTxg < MaxTxg
    /\ UNCHANGED <<device, sb, root, index, cursor, bounds>>

-----------------------------------------------------------------------------
(* Fs::commit.                                                             *)

TreeBlockFor(b) == NextFit(cursor, Unused(bits, held), b)

(* write_child: the new root goes to a free block. *)
WriteTree ==
    /\ phase = "tree"
    /\ \E b \in Block :
          /\ TreeBlockFor(b)
          /\ root' = Bp(b, NextTxg, NodeBlock(NextTxg, tree))
          /\ Write([a \in {b} |-> NodeBlock(NextTxg, tree)])
          /\ bits' = bits \cup {b}
          /\ cursor' = b + 1
    /\ phase' = "bitmap"
    /\ UNCHANGED <<sb, tree, drop, dirty, index, held, bounds>>

(* write_bitmap's allocations: i for the index, then b for the bitmap,     *)
(* once the old index is freed.                                            *)
BitmapBlocksFor(i, b) ==
    LET free == Unused(FreedBits({index}), FreedHeld({index}))
    IN NextFit(cursor, free, i) /\ NextFit(i + 1, free \ {i}, b)

(* A plausible bug: the old bitmap block is never freed. *)
LeakyBits(i, b) == FreedBits({index}) \cup {i, b}
NewBits(i, b) == (FreedBits({index}) \cup {i, b}) \ {BitmapOf(index).block}
NewBitmap(i, b) == Bp(b, NextTxg, BitmapBlock(NewBits(i, b)))
NewIndex(i, b) == Bp(i, NextTxg, IndexBlock(NextTxg, NewBitmap(i, b)))
BitmapWrites(i, b) ==
    [a \in {i, b} |-> IF a = b THEN NewBitmap(i, b).sum ELSE NewIndex(i, b).sum]

(* write_bitmap: the bitmap and its index move to free blocks. *)
WriteBitmap ==
    /\ phase = "bitmap"
    /\ \E i, b \in Block :
          /\ BitmapBlocksFor(i, b)
          /\ bits' = NewBits(i, b)
          /\ index' = NewIndex(i, b)
          /\ Write(BitmapWrites(i, b))
          /\ cursor' = b + 1
    /\ held' = FreedHeld({index, BitmapOf(index)})
    /\ phase' = "flush"
    /\ UNCHANGED <<sb, tree, drop, dirty, root, bounds>>

FlushNew ==
    /\ phase = "flush"
    /\ Flush
    /\ phase' = "superblock"
    /\ UNCHANGED <<memory, bounds>>

(* A plausible bug: the superblock names the old root.                     *)
StaleRootSb == Superblock(NextTxg, sb.root, index)
NextSb == Superblock(NextTxg, root, index)
SuperblockWrite == [a \in {SlotOf(NextTxg)} |-> NextSb]

WriteSuperblock ==
    /\ phase = "superblock"
    /\ Write(SuperblockWrite)
    /\ phase' = "land"
    /\ UNCHANGED <<memory, bounds>>

(* The second flush; from here on the commit is the state to go back to. *)
Land ==
    /\ phase = "land"
    /\ Flush
    /\ sb' = NextSb
    /\ held' = {}
    /\ dirty' = FALSE
    /\ phase' = IF drop = {} THEN "idle" ELSE "op"
    /\ UNCHANGED <<tree, drop, root, index, bits, cursor, bounds>>

-----------------------------------------------------------------------------
(* Failures.                                                               *)

(* Fs::abort: memory goes back to the last commit, except the cursor.  If  *)
(* the bitmap does not read back, `change' stops using the disk.           *)
Abort ==
    /\ tree' = TreeOf(sb)
    /\ drop' = {}
    /\ dirty' = FALSE
    /\ root' = sb.root
    /\ index' = sb.index
    /\ bits' = BitsOf(sb)
    /\ held' = {}
    /\ phase' \in {"idle"} \cup (IF "reload" \in Faults THEN {"dead"} ELSE {})
    /\ UNCHANGED sb

(* A file's data does not reach the disk.  (When there is no room for it, *)
(* write_data says so before it has changed anything that abort keeps.)    *)
DataFails(f, v) ==
    /\ CanBegin /\ "data" \in Faults /\ DeviceError
    /\ \E b \in Block : /\ DataBlockFor(f, b)
                        /\ WriteFails([a \in {b} |-> DataBlock(v)])
                        /\ cursor' = b + 1
    /\ Abort

(* A removal meets a read error, or a commit finds the disk full. *)
OpFails ==
    /\ \/ phase = "op" /\ "op" \in Faults /\ DeviceError
       \/ /\ phase = "tree" /\ ~\E b \in Block : TreeBlockFor(b)
          /\ UNCHANGED bounds
       \/ /\ phase = "bitmap" /\ ~\E i, b \in Block : BitmapBlocksFor(i, b)
          /\ UNCHANGED bounds
    /\ UNCHANGED <<device, cursor>>
    /\ Abort

(* The device reports an error to one of the commit's calls. *)
CommitFails ==
    /\ phase \in Faults /\ DeviceError
    /\ \/ /\ phase = "tree"
          /\ \E b \in Block : /\ TreeBlockFor(b)
                              /\ WriteFails([a \in {b} |-> NodeBlock(NextTxg, tree)])
                              /\ cursor' = b + 1
       \/ /\ phase = "bitmap"
          /\ \E i, b \in Block : /\ BitmapBlocksFor(i, b)
                                 /\ WriteFails(BitmapWrites(i, b))
                                 /\ cursor' = b + 1
       \/ /\ phase \in {"flush", "land"}
          /\ FlushFails
          /\ UNCHANGED cursor
       \/ /\ phase = "superblock"
          /\ WriteFails(SuperblockWrite)
          /\ UNCHANGED cursor
    /\ Abort

-----------------------------------------------------------------------------
(* Power failures and mounting.                                            *)

PowerFails ==
    /\ phase # "off" /\ outages < MaxOutages
    /\ outages' = outages + 1
    /\ phase' = "off"
    /\ UNCHANGED <<device, memory, errors>>

(* Addresses settle in order: they settle independently, so this loses no  *)
(* outcome.                                                                *)
SettleNext ==
    /\ phase = "off"
    /\ \E a \in Addr : /\ Settle(a)
                       /\ \A x \in Addr : x < a => media[x] = {view[x]}
    /\ UNCHANGED <<phase, memory, bounds>>

(* A plausible bug: the ring's last slot is never read. *)
AllButLast == {SbSlot \ {SbFirst + SbSlots - 1}}
(* mount reads the ring up to the first slot that gives a read error. *)
SlotsRead == {SbSlot} \cup (IF "mount" \in Faults
                            THEN {SbFirst .. n - 1 : n \in SbSlot}
                            ELSE {})
Found(slots) == {view[s] : s \in {x \in slots : view[x].kind = "sb"}}

(* open: the bitmap and the tree's root match their checksums. *)
Opens(s) == \A bp \in {s.root, s.index, BitmapOf(s.index)} : view[bp.block] = bp.sum

(* mount uses the newest superblock whose state opens; with none there is  *)
(* no volume.                                                              *)
Mount ==
    /\ phase = "off" /\ Settled
    /\ \E slots \in SlotsRead :
          LET usable == {s \in Found(slots) : Opens(s)} IN
          \/ \E s \in usable :
                /\ \A o \in usable : o.txg <= s.txg
                /\ sb' = s
                /\ tree' = TreeOf(s)
                /\ root' = s.root
                /\ index' = s.index
                /\ bits' = BitsOf(s)
                /\ held' = {}
                /\ drop' = {}
                /\ dirty' = FALSE
                /\ cursor' = DataStart
                /\ phase' = "idle"
          \/ usable = {} /\ phase' = "dead" /\ UNCHANGED memory
    /\ UNCHANGED <<device, bounds>>

-----------------------------------------------------------------------------
(* kfs.py mkfs: an empty volume, its superblock in every slot. *)
Mkfs ==
    LET empty == [f \in File |-> Absent]
        used == {DataStart, DataStart + 1, DataStart + 2}
    IN Superblock(1,
          Bp(DataStart + 2, 1, NodeBlock(1, empty)),
          Bp(DataStart + 1, 1,
             IndexBlock(1, Bp(DataStart, 1, BitmapBlock(used)))))

MkfsImage ==
    [a \in Addr |->
        IF a \in SbSlot THEN Mkfs
        ELSE IF a = DataStart + 2 THEN Mkfs.root.sum
        ELSE IF a = DataStart + 1 THEN Mkfs.index.sum
        ELSE IF a = DataStart THEN BitmapOf(Mkfs.index).sum
        ELSE Garbage]

Init ==
    /\ view = MkfsImage
    /\ media = [a \in Addr |-> {MkfsImage[a]}]
    /\ phase = "idle"
    /\ sb = Mkfs
    /\ tree = TreeOf(Mkfs)
    /\ drop = {}
    /\ dirty = FALSE
    /\ root = Mkfs.root
    /\ index = Mkfs.index
    /\ bits = BitsOf(Mkfs)
    /\ held = {}
    /\ cursor = DataStart
    /\ errors = 0 /\ outages = 0

Operation ==
    \/ \E f \in File, v \in Small : WriteInline(f, v)
    \/ \E f \in File, v \in Value \ Small : WriteExtent(f, v) \/ DataFails(f, v)
    \/ \E f, g \in File : Rename(f, g)
    \/ \E D \in SUBSET File : Remove(D)
    \/ \E f \in File : RemoveEntry(f)

Commit == WriteTree \/ WriteBitmap \/ FlushNew \/ WriteSuperblock \/ Land

Boot == SettleNext \/ Mount

Next == Operation \/ Commit \/ OpFails \/ CommitFails \/ PowerFails \/ Boot

Spec == Init /\ [][Next]_vars

-----------------------------------------------------------------------------
(* Types.                                                                  *)

Pointer(C) == [block : Block, birth : Nat, sum : C]
DataBlocks == [kind : {"data"}, value : Value]
Entries == [kind : {"absent"}] \cup [kind : {"inline"}, value : Value]
                             \cup [kind : {"extent"}, bp : Pointer(DataBlocks)]
Trees == [File -> Entries]
NodeBlocks == [kind : {"node"}, txg : Nat, tree : Trees]
BitmapBlocks == [kind : {"bitmap"}, bits : SUBSET Block]
IndexBlocks == [kind : {"index"}, txg : Nat, bitmap : Pointer(BitmapBlocks)]
Superblocks == [kind : {"sb"}, txg : Nat,
                root : Pointer(NodeBlocks), index : Pointer(IndexBlocks)]

TypeOK ==
    /\ DOMAIN view = Addr /\ DOMAIN media = Addr
    /\ phase \in Phase
    /\ sb \in Superblocks
    /\ tree \in Trees
    /\ drop \in SUBSET File
    /\ dirty \in BOOLEAN
    /\ root \in Pointer(NodeBlocks)
    /\ index \in Pointer(IndexBlocks)
    /\ bits \in SUBSET Block
    /\ held \in SUBSET Block
    /\ cursor \in Nat
    /\ errors \in 0 .. MaxErrors /\ outages \in 0 .. MaxOutages

-----------------------------------------------------------------------------
(* What must hold.                                                         *)

Mounted == phase \notin {"off", "dead"}

(* Whatever a power failure does to the blocks of superblock s, its slot   *)
(* included, they read back as they were written.                          *)
Durable(s) ==
    /\ media[SlotOf(s.txg)] = {s}
    /\ \A bp \in Pointers(s) : media[bp.block] = {bp.sum}

(* Nothing an operation, a commit, a failed write or an abort does touches *)
(* a block of the committed state: at every moment it survives a power     *)
(* failure whole ("Blocks the old state still uses are never written").    *)
CommittedIntact == Mounted => Durable(sb)

(* The mounted state reads back: the tree, the bitmap and every extent.    *)
MountedWhole == Mounted => \A bp \in Pointers(sb) : view[bp.block] = bp.sum

(* The space accounting is exact: a block is marked used if and only if    *)
(* the state being built points at it, nothing is pointed at twice, and    *)
(* exactly the blocks only the committed state uses are held back.  So     *)
(* aborted, failed and interrupted operations leak no block and free none  *)
(* that is in use (Fs::free, Fs::abort, Fs::commit).                       *)
OnePerBlock(S) == \A p, q \in S : p.block = q.block => p = q
NotShared(tr) == \A f, g \in File : f # g => ExtentOf(tr[f]) \cap ExtentOf(tr[g]) = {}

SpaceExact ==
    Mounted =>
        /\ bits = BlocksOf(LivePointers)
        /\ OnePerBlock(LivePointers) /\ NotShared(tree)
        /\ held = BlocksOf(Pointers(sb)) \ bits

(* The volume in use is the newest one on the disk: no slot holds a valid  *)
(* superblock newer than the one an idle volume works from.                *)
NewestInUse ==
    phase = "idle" =>
        \A s \in SbSlot : view[s].kind = "sb" => view[s].txg <= sb.txg

(* However many writes a power failure loses, in whatever order, it leaves *)
(* a disk with a superblock that mount can use.                            *)
Recoverable ==
    phase = "off" /\ Settled => \E s \in Found(SbSlot) : Opens(s)

(* An operation happens completely or not at all, is durable once it has   *)
(* returned, and a power failure loses at most the operation in progress.  *)
Reads(tr) == [f \in File |-> IF tr[f].kind = "absent" THEN None
                             ELSE IF tr[f].kind = "inline" THEN tr[f].value
                             ELSE tr[f].bp.sum.value]

Promise == INSTANCE AtomicVolume
    WITH content <- Reads(TreeOf(sb)),
         wanted <- [f \in File |-> IF f \in drop THEN None ELSE Reads(tree)[f]],
         up <- phase # "off"

Atomic == Promise!Spec
=============================================================================
