------------------------------- MODULE KfsTree -------------------------------
(***************************************************************************)
(* KonjacFS's B+tree and the folder entries in it (kfs.rs), which          *)
(* KfsVolume has as a single block: how nodes are copied, split, merged    *)
(* and dropped, and how names whose hashes agree share their keys.         *)
(*                                                                         *)
(* The tree holds the entries of one folder.  An item's key is an entry's  *)
(* key offset and its data a name.  A child pointer has the node it leads  *)
(* to with it; at is its block, or Mem while it is in Fs::nodes only.  The *)
(* device is KfsVolume's subject: nothing fails here, but an operation may *)
(* be given up at any point.                                               *)
(***************************************************************************)
EXTENDS Integers, Sequences, FiniteSets, SequencesExt

CONSTANTS BLOCK, HEADER, ITEM_HEADER, INTERIOR_ENTRY, \* sizes in bytes
          Slots,       \* names with the same hash that a folder has room for: 8
          Names,       \* bound: the names used
          Hash,        \* name -> name_hash, a multiple of Slots
          Length,      \* name -> length of the entry's data
          MaxChanges   \* bound: entries changed between two commits

(* An entry fits in a block with any other (an inline file may be a little *)
(* more than half a block, an entry is less), and at least two pointers do.*)
TreeAssumption ==
    /\ BLOCK \in Nat /\ HEADER \in Nat /\ ITEM_HEADER \in Nat /\ INTERIOR_ENTRY \in Nat \ {0}
    /\ HEADER + 2 * INTERIOR_ENTRY <= BLOCK
    /\ Slots \in Nat \ {0} /\ MaxChanges \in Nat /\ IsFiniteSet(Names)
    /\ \A n \in Names : /\ Hash[n] \in Nat /\ Hash[n] % Slots = 0
                        /\ Length[n] \in Nat /\ HEADER + ITEM_HEADER + Length[n] <= BLOCK

VARIABLES root,      \* Fs::root
          committed, \* the root of the last commit
          freed,     \* the blocks that the operation has given to Fs::free
          changes,   \* how many entries it has changed
          folder,    \* history: the names that are in the folder
          before     \* history: ... and were at the last commit

treeVars == <<root, committed, freed, changes, folder, before>>

Mem == 0

-----------------------------------------------------------------------------
(* Nodes.                                                                  *)

Leaf(items) == [level |-> 0, items |-> items, kids |-> <<>>]
Interior(level, kids) == [level |-> level, items |-> <<>>, kids |-> kids]

Need(item) == ITEM_HEADER + Length[item.name]
SumOf(items) == FoldLeft(LAMBDA n, item : n + Need(item), 0, items)
Size(n) == HEADER + IF n.level = 0 THEN SumOf(n.items) ELSE Len(n.kids) * INTERIOR_ENTRY
IsEmptyNode(n) == n.items = <<>> /\ n.kids = <<>>
FirstKey(n) == IF n.level = 0 THEN n.items[1].key ELSE n.kids[1].key

(* (Mutant: partition_point with < for <=.)                                *)
ChildIndexStrict(kids, key) ==
    LET below == Cardinality({i \in DOMAIN kids : kids[i].key < key})
    IN  IF below = 0 THEN 1 ELSE below

(* The child that a key belongs under.                                     *)
ChildIndex(kids, key) ==
    LET below == Cardinality({i \in DOMAIN kids : kids[i].key <= key})
    IN  IF below = 0 THEN 1 ELSE below

InMem(n) == [at |-> Mem, node |-> n]
Kid(key, child) == [key |-> key, child |-> child]

(* The block that own gives up when it copies a child into memory.         *)
BlockOf(child) == {child.at} \ {Mem}

-----------------------------------------------------------------------------
(* Scans, in key order from start.                                         *)

RECURSIVE Scan(_, _)
Scan(n, start) ==
    IF n.level = 0 THEN SelectSeq(n.items, LAMBDA item : item.key >= start)
    ELSE FlattenSeq([i \in 1 .. Len(n.kids) - ChildIndex(n.kids, start) + 1 |->
                        Scan(n.kids[ChildIndex(n.kids, start) + i - 1].child.node, start)])

(* The items of the slots of a hash.  The scan stops after them.           *)
InSlots(base) == SelectSeq(Scan(root.node, base), LAMBDA item : item.key - base < Slots)
Lookup(name) == {item.key : item \in {i \in Range(InSlots(Hash[name])) : i.name = name}}

-----------------------------------------------------------------------------
(* Insertion.  A node that no longer fits in a block becomes several: a    *)
(* leaf in parts as even as the sizes of its items allow.                  *)

Parts(items) ==
    LET room == BLOCK - HEADER
        payload == SumOf(items)
        blocks == (payload + room - 1) \div room
        target == payload \div (IF blocks < 2 THEN 2 ELSE blocks)
        Add(acc, item) ==
            IF acc.cur # <<>> /\ (SumOf(acc.cur) + Need(item) > room \/ SumOf(acc.cur) >= target)
            THEN [parts |-> Append(acc.parts, acc.cur), cur |-> <<item>>]
            ELSE [acc EXCEPT !.cur = Append(@, item)]
        all == FoldLeft(Add, [parts |-> <<>>, cur |-> <<>>], items)
    IN  Append(all.parts, all.cur)

Split(n) ==
    IF Size(n) <= BLOCK THEN <<n>>
    ELSE IF n.level = 0 THEN LET parts == Parts(n.items) IN [i \in DOMAIN parts |-> Leaf(parts[i])]
    ELSE LET half == (Len(n.kids) + 1) \div 2
         IN  <<Interior(n.level, SubSeq(n.kids, 1, half)), Interior(n.level, SubSeq(n.kids, half + 1, Len(n.kids)))>>

WithItem(items, item) ==
    SelectSeq(items, LAMBDA i : i.key < item.key) \o <<item>> \o SelectSeq(items, LAMBDA i : i.key > item.key)

(* A node of this operation's own with an item more, as the parts it is    *)
(* split into, and the blocks that have been copied on the way.            *)
Spliced(kids, p, new) == SubSeq(kids, 1, p - 1) \o new \o SubSeq(kids, p + 1, Len(kids))

RECURSIVE Inserted(_, _)
Inserted(n, item) ==
    IF n.level = 0 THEN [parts |-> Split(Leaf(WithItem(n.items, item))), freed |-> {}]
    ELSE LET p == ChildIndex(n.kids, item.key)
             old == n.kids[p]
             below == Inserted(old.child.node, item)
             first == IF item.key < old.key THEN item.key ELSE old.key
             new == [i \in DOMAIN below.parts |->
                        Kid(IF i = 1 THEN first ELSE FirstKey(below.parts[i]), InMem(below.parts[i]))]
         IN  [parts |-> Split(Interior(n.level, Spliced(n.kids, p, new))),
              freed |-> below.freed \cup BlockOf(old.child)]

(* insert: if the root has split, a new root above its parts.              *)
insert(child, item) ==
    LET r == Inserted(child.node, item)
        kids == [i \in DOMAIN r.parts |-> Kid(FirstKey(r.parts[i]), InMem(r.parts[i]))]
    IN  [root |-> InMem(IF Len(kids) = 1 THEN r.parts[1] ELSE Interior(child.node.level + 1, kids)),
         freed |-> r.freed \cup BlockOf(child)]

-----------------------------------------------------------------------------
(* Removal.  The child that lost an item goes if it is empty; if it is     *)
(* three quarters empty it is merged with the neighbour after it, or else  *)
(* before it, that leaves room for it.                                     *)

(* (Mutant: the neighbour's size is left out.)                             *)
FitsAlone(n, m) == Size(n) <= BLOCK

Fits(n, m) == Size(n) + Size(m) - HEADER <= BLOCK
Merge(n, m) == [n EXCEPT !.items = @ \o m.items, !.kids = @ \o m.kids]

Rebalance(n, p) ==
    LET kid(q) == n.kids[q].child
        c == kid(p).node
        mates == {q \in {p - 1, p + 1} \cap DOMAIN n.kids : Fits(c, kid(q).node)}
        q == IF p + 1 \in mates THEN p + 1 ELSE p - 1
        l == IF q > p THEN p ELSE q
        merged == Kid(n.kids[l].key, InMem(Merge(kid(l).node, kid(l + 1).node)))
    IN  IF IsEmptyNode(c) THEN [node |-> [n EXCEPT !.kids = Spliced(@, p, <<>>)], freed |-> {}]
        ELSE IF Size(c) > BLOCK \div 4 \/ mates = {} THEN [node |-> n, freed |-> {}]
        ELSE [node |-> [n EXCEPT !.kids = Spliced(Spliced(@, l + 1, <<>>), l, <<merged>>)],
              freed |-> BlockOf(kid(q))]

RECURSIVE Without(_, _)
Without(n, key) ==
    IF n.level = 0 THEN [node |-> Leaf(SelectSeq(n.items, LAMBDA i : i.key # key)), freed |-> {}]
    ELSE LET p == ChildIndex(n.kids, key)
             below == Without(n.kids[p].child.node, key)
             r == Rebalance([n EXCEPT !.kids[p].child = InMem(below.node)], p)
         IN  [node |-> r.node, freed |-> below.freed \cup BlockOf(n.kids[p].child) \cup r.freed]

(* A root in memory with one child gives way to it, one with none is empty.*)
RECURSIVE Lowered(_)
Lowered(child) ==
    IF child.at # Mem \/ child.node.level = 0 \/ Len(child.node.kids) > 1 THEN child
    ELSE IF child.node.kids = <<>> THEN InMem(Leaf(<<>>))
    ELSE Lowered(child.node.kids[1].child)

remove(child, key) ==
    LET r == Without(child.node, key)
    IN  [root |-> Lowered(InMem(r.node)), freed |-> r.freed \cup BlockOf(child)]

-----------------------------------------------------------------------------
(* Operations.  Creating a file adds an entry, deleting one removes one,   *)
(* renaming one does both, and deleting a folder removes several.          *)

InUse == {Hash[n] + i : n \in Names, i \in 0 .. Slots - 1}
UsedSlots(base) == {item.key - base : item \in Range(InSlots(base))}

Changed(r) ==
    /\ changes < MaxChanges /\ changes' = changes + 1
    /\ root' = r.root
    /\ freed' = freed \cup r.freed
    /\ UNCHANGED <<committed, before>>

(* The first of the slots of this hash that is free.                       *)
AddEntry(name) ==
    LET free == (0 .. Slots - 1) \ UsedSlots(Hash[name])
    IN  /\ Lookup(name) = {} /\ free # {}
        /\ Changed(insert(root, [key |-> Hash[name] + CHOOSE i \in free : \A j \in free : i <= j, name |-> name]))
        /\ folder' = folder \cup {name}

RemoveEntry(name) ==
    \E key \in Lookup(name) :
        /\ Changed(remove(root, key))
        /\ folder' = folder \ {name}

(* A commit writes what is in memory only, children first, each node to a  *)
(* block that is in nobody's use.  Which blocks these are makes no         *)
(* difference, so all are numbered anew, in the order of the tree.         *)
RECURSIVE Nodes(_)
Nodes(n) == 1 + FoldLeft(LAMBDA sum, kid : sum + Nodes(kid.child.node), 0, n.kids)
RECURSIVE Placed(_, _)
Placed(n, at) ==
    LET start(i) == FoldLeft(LAMBDA sum, kid : sum + Nodes(kid.child.node), at + 1, SubSeq(n.kids, 1, i - 1))
    IN  [at |-> at, node |-> [n EXCEPT !.kids = [i \in DOMAIN n.kids |->
                                  Kid(n.kids[i].key, Placed(n.kids[i].child.node, start(i)))]]]

Commit ==
    /\ changes > 0
    /\ root' = Placed(root.node, 1) /\ committed' = root'
    /\ freed' = {} /\ changes' = 0 /\ before' = folder
    /\ UNCHANGED folder

(* The operation fails: memory goes back to the last commit.               *)
Abort ==
    /\ changes > 0
    /\ root' = committed
    /\ freed' = {} /\ changes' = 0 /\ folder' = before
    /\ UNCHANGED <<committed, before>>

Init ==
    /\ root = Placed(Leaf(<<>>), 1) /\ committed = root
    /\ freed = {} /\ changes = 0 /\ folder = {} /\ before = {}

Next == (\E name \in Names : AddEntry(name) \/ RemoveEntry(name)) \/ Commit \/ Abort

Spec == Init /\ [][Next]_treeVars

-----------------------------------------------------------------------------
RECURSIVE Below(_)
Below(child) == {child} \cup UNION {Below(child.node.kids[i].child) : i \in DOMAIN child.node.kids}
Blocks(child) == {c.at : c \in Below(child)} \ {Mem}

TypeOK ==
    /\ changes \in 0 .. MaxChanges
    /\ freed \subseteq Blocks(committed) /\ Mem \notin {c.at : c \in Below(committed)}
    /\ folder \subseteq Names /\ before \subseteq Names

(* Whatever has been added, removed and given up: a scan from any key      *)
(* gives the entries from there on, in order, each once; every name of     *)
(* the folder is found, wherever it is among those with its hash and       *)
(* whatever gaps removals have left there, and no other.                   *)
FolderExact ==
    LET all == Scan(root.node, 0)
    IN  /\ {item.name : item \in Range(all)} = folder /\ Len(all) = Cardinality(folder)
        /\ \A i \in 1 .. Len(all) - 1 : all[i].key < all[i + 1].key
        /\ \A key \in InUse : Scan(root.node, key) = SelectSeq(all, LAMBDA item : item.key >= key)
        /\ \A name \in Names : Cardinality(Lookup(name)) = IF name \in folder THEN 1 ELSE 0

(* Every node can be written as a block, has no empty node below it, and   *)
(* has all its leaves at the same depth; only an empty folder's root is    *)
(* empty, and no root has a single child.                                  *)
NodesSound ==
    /\ \A c \in Below(root) :
           /\ Size(c.node) <= BLOCK
           /\ \A i \in DOMAIN c.node.kids : c.node.kids[i].child.node.level = c.node.level - 1
           /\ IsEmptyNode(c.node) => c = root /\ c.node.level = 0
    /\ Len(root.node.kids) # 1

(* The committed tree is not touched: a node of it that is still in use is *)
(* what it was, in its block, with everything below it; and the operation  *)
(* has given up the blocks of all the others, and no more.                 *)
CopiedOnWrite ==
    /\ \A c \in Below(root) : c.at # Mem => c \in Below(committed)
    /\ freed = Blocks(committed) \ Blocks(root)

(* The tree as a whole, while an operation is at work on it.               *)
TreeSound == NodesSound /\ CopiedOnWrite
=============================================================================
