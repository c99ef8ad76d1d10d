-------------------------------- MODULE Fat16 --------------------------------
(***************************************************************************)
(* The FAT16 driver, kernel/src/fat16.rs.  The FAT is kept in memory; an   *)
(* operation changes it there, writes data and directory entries straight  *)
(* to the disk, and writes the FAT out once, as the last thing it does     *)
(* (committed).  No lock is held from one step of an operation to the      *)
(* next, so the steps of two tasks may interleave.                         *)
(*                                                                         *)
(* The driver never flushes the disk's own cache: disk, slot and data are  *)
(* what a read returns, and what a mount finds after a reset; a power      *)
(* failure may leave less (OthersUnwritten).                               *)
(*                                                                         *)
(* Folders are one level deep, an entry takes one slot (no long-name       *)
(* entries), and a file's data is what tells one cluster of it from        *)
(* others: <<path, size, number>>.  Errors found before anything has       *)
(* changed are no step.  A write that fails has left the sector as it was, *)
(* and clearing a folder's new cluster does not fail.                      *)
(***************************************************************************)
EXTENDS Integers, Sequences, FiniteSets, FiniteSetsExt, SequencesExt

CONSTANTS Tasks,      \* tasks that change the volume
          Paths,      \* the paths used: <<name>>, or <<folder, name>>
          Clusters,   \* the data clusters: a set of positive numbers
          RootSlots,  \* root_entry_count
          Room,       \* entries a cluster of a folder has room for
          Sizes,      \* sizes written, in clusters
          Ops,        \* which operations are asked for
          Files,      \* bound: the paths written as files; the others become folders
          Faults      \* which disk writes may fail: "data", "overwrite", "place",
                      \* "unlink", "flush" or "late" (an entry to be deleted whose
                      \* clusters are free or have a new name by then)

Free == 0          \* FAT_FREE; also a first cluster of 0, the empty file's
EOC  == -1         \* FAT_EOC
None == "none"     \* no entry here; not a name
Names == UNION {Range(p) : p \in Paths}

ASSUME Fat16Assumption ==
    /\ Clusters \subseteq Nat \ {0} /\ IsFiniteSet(Clusters)
    /\ RootSlots \in Nat /\ Room \in Nat \ {0} /\ Sizes \subseteq Nat
    /\ None \notin Names
    /\ \A p \in Paths : p \in Seq(Range(p)) /\ Len(p) \in 1 .. 2
    /\ Files \subseteq Paths /\ \A p \in Paths \ Files : Len(p) = 1

VARIABLES fat,     \* FAT.table
          dirty,   \* FAT.dirty, as one sector
          disk,    \* the FAT on the disk
          slot,    \* the directory entries on the disk, by address
          data,    \* what the clusters hold
          task,    \* what each task is doing
          lost,    \* history: clusters that failed operations gave up marked in use
          unsaved, \* history: a flush has failed
          kept     \* history: path -> contents after the operations that succeeded

fatVars == <<fat, dirty, disk, slot, data, task, lost, unsaved, kept>>

Addresses == ({Free} \X (1 .. RootSlots)) \cup (Clusters \X (1 .. Room))
NoSlot == <<Free, 0>>
NoEntry == [name |-> None, dir |-> FALSE, first |-> Free, size |-> 0]
Idle == [op |-> "none", pc |-> "idle", path |-> <<>>, to |-> <<>>, loc |-> Free,
         old |-> NoSlot, entry |-> NoEntry, todo |-> 0, last |-> Free, found |-> Free,
         failed |-> FALSE]

-----------------------------------------------------------------------------
(* Chains.                                                                 *)

(* The cluster number i, from 0, of the chain that starts at c: a cluster, *)
(* EOC past its end, Free if it leads to a free one.                       *)
At(table, c, i) ==
    LET step[k \in 0 .. i] ==
            IF k = 0 THEN c ELSE LET p == step[k - 1] IN IF p \in Clusters THEN table[p] ELSE p
    IN  step[i]

Chain(table, c) == {At(table, c, i) : i \in 0 .. Cardinality(Clusters)} \cap Clusters
Freed(table, C) == [c \in Clusters |-> IF c \in C THEN Free ELSE table[c]]

(* What allocate_cluster finds, with the FAT locked, before it lets go of  *)
(* the lock and takes it again to mark the cluster.                        *)
Unclaimed == {c \in Clusters : fat[c] = Free}
FirstFree == Min(Unclaimed)

-----------------------------------------------------------------------------
(* Directories.  Location Free is the root.                                *)

SlotsOf(table, loc) ==
    IF loc = Free THEN {Free} \X (1 .. RootSlots) ELSE Chain(table, loc) \X (1 .. Room)

EntriesIn(table, loc) == {slot[a] : a \in SlotsOf(table, loc)} \ {NoEntry}
FindSlots(table, loc, n) == {a \in SlotsOf(table, loc) : slot[a].name = n}

Folders(table) == {e \in EntriesIn(table, Free) : e.dir}

(* resolve_dir: the locations a path's last name may be looked up in; none *)
(* or one.                                                                 *)
ResolveDir(table, path) ==
    IF Len(path) = 1 THEN {Free} ELSE {e.first : e \in {f \in Folders(table) : f.name = path[1]}}

Lookup(table, path) ==
    UNION {FindSlots(table, l, Last(path)) : l \in ResolveDir(table, path)}

Absent == <<<<None>>>>
AFolder == <<<<"folder">>>>

(* What somebody who reads the volume with this FAT gets.                  *)
Contents(table, path) ==
    IF Lookup(table, path) = {} THEN Absent
    ELSE LET e == slot[CHOOSE a \in Lookup(table, path) : TRUE]
         IN  IF e.dir THEN AFolder
             ELSE [i \in 1 .. e.size |->
                      LET c == At(table, e.first, i - 1)
                      IN  IF c \in Clusters THEN data[c] ELSE <<>>]

(* locate_slot_run takes the first slot that is free: the lowest in the    *)
(* root, the first along a folder's chain.                                 *)
Position(loc, a) == IF loc = Free THEN a[2]
                    ELSE Room * (CHOOSE i \in 0 .. Cardinality(Clusters) : At(fat, loc, i) = a[1]) + a[2]
Vacant(loc) == {a \in SlotsOf(fat, loc) : slot[a] = NoEntry}
FirstVacant(loc) == CHOOSE a \in Vacant(loc) : \A b \in Vacant(loc) : Position(loc, a) <= Position(loc, b)
LastCluster(loc) == CHOOSE c \in Chain(fat, loc) : fat[c] = EOC

(* delete_tree: the clusters of a folder and of all there is in it.        *)
(* Plausible bug: the files in the folder are forgotten.                   *)
TreeOfOne(e) == Chain(fat, e.first)
Tree(e) == Chain(fat, e.first) \cup
           IF e.dir THEN UNION {Chain(fat, f.first) : f \in EntriesIn(fat, e.first)} ELSE {}

-----------------------------------------------------------------------------
(* Operations begin by reading the directories they work in.               *)

Begins(t, op, path, to, loc, old, entry, todo, pc) ==
    /\ op \in Ops
    /\ task[t] = Idle
    /\ ~unsaved            \* bound: what follows a failed flush is left out
    /\ task' = [task EXCEPT ![t] = [Idle EXCEPT !.op = op, !.path = path, !.to = to, !.loc = loc,
                                    !.old = old, !.entry = entry, !.todo = todo, !.pc = pc]]
    /\ UNCHANGED <<fat, dirty, disk, slot, data, lost, unsaved, kept>>

(* write_file: the new contents get clusters of their own; the entry there *)
(* is, if there is one, keeps its slot.                                    *)
BeginWrite(t, path, n) ==
    \E loc \in ResolveDir(fat, path) :
    \E old \in IF FindSlots(fat, loc, Last(path)) = {} THEN {NoSlot} ELSE FindSlots(fat, loc, Last(path)) :
        /\ old # NoSlot => ~slot[old].dir
        /\ Begins(t, "write", path, path, loc, old,
                  [name |-> Last(path), dir |-> FALSE, first |-> Free, size |-> n], n,
                  IF n = 0 THEN "entry" ELSE "data")

BeginCreateDir(t, path) ==
    \E loc \in ResolveDir(fat, path) :
        /\ FindSlots(fat, loc, Last(path)) = {}
        /\ Begins(t, "create_dir", path, path, loc, NoSlot,
                  [name |-> Last(path), dir |-> TRUE, first |-> Free, size |-> 0], 1, "data")

BeginRemoveFile(t, path) ==
    \E old \in Lookup(fat, path) :
        /\ ~slot[old].dir
        /\ Begins(t, "remove_file", path, path, Free, old, slot[old], 0, "free")

BeginRemove(t, path) ==
    \E old \in Lookup(fat, path) : Begins(t, "remove", path, path, Free, old, slot[old], 0, "unlink")

BeginRename(t, path, to) ==
    \E old \in Lookup(fat, path), loc \in ResolveDir(fat, to) :
        /\ FindSlots(fat, loc, Last(to)) = {}
        /\ slot[old].dir <=> to \notin Files
        /\ Begins(t, "rename", path, to, loc, old, [slot[old] EXCEPT !.name = Last(to)], 0, "entry")

-----------------------------------------------------------------------------
(* Clusters for a file's data or a new folder.                             *)

Goes(t, pc) == task' = [task EXCEPT ![t].pc = pc]
Fails(t) == task' = [task EXCEPT ![t].pc = "flush", ![t].failed = TRUE]

AllocateFinds(t) ==
    /\ task[t].pc = "data"
    /\ Unclaimed # {}
    /\ task' = [task EXCEPT ![t].pc = "claim", ![t].found = FirstFree]
    /\ UNCHANGED <<fat, dirty, disk, slot, data, lost, unsaved, kept>>

(* A full disk: write_file gives back the clusters it has got.             *)
AllocateFails(t) ==
    /\ task[t].pc = "data"
    /\ Unclaimed = {}
    /\ fat' = Freed(fat, Chain(fat, task[t].entry.first))
    /\ dirty' = (dirty \/ task[t].entry.first # Free)
    /\ Fails(t)
    /\ UNCHANGED <<disk, slot, data, lost, unsaved, kept>>

(* The cluster found is marked as the end of the chain and linked to it.   *)
Claimed(t) ==
    [c \in Clusters |-> IF c = task[t].found THEN EOC
                        ELSE IF c = task[t].last THEN task[t].found ELSE fat[c]]

Claim(t) ==
    LET k == task[t]
        left == k.todo - 1
    IN  /\ k.pc = "claim"
        /\ fat' = Claimed(t)
        /\ dirty' = TRUE
        /\ data' = [data EXCEPT ![k.found] = IF k.op = "write" THEN <<k.path, k.entry.size, k.entry.size - left>>
                                             ELSE <<"folder">>]
        /\ slot' = [a \in Addresses |-> IF a[1] = k.found THEN NoEntry ELSE slot[a]]
        /\ task' = [task EXCEPT ![t].todo = left, ![t].last = k.found,
                                ![t].entry.first = IF @ = Free THEN k.found ELSE @,
                                ![t].found = Free,
                                ![t].pc = IF left = 0 THEN "entry" ELSE "data"]
        /\ UNCHANGED <<disk, lost, unsaved, kept>>

(* An error writing the data: nobody gives the clusters back.              *)
ClaimFails(t) ==
    LET k == task[t]
        first == IF k.entry.first = Free THEN k.found ELSE k.entry.first
    IN  /\ k.pc = "claim" /\ "data" \in Faults
        /\ fat' = Claimed(t)
        /\ dirty' = TRUE
        /\ lost' = lost \cup Chain(fat', first)
        /\ Fails(t)
        /\ UNCHANGED <<disk, slot, data, unsaved, kept>>

-----------------------------------------------------------------------------
(* Entries.                                                                *)

(* What an operation had linked up for an entry it cannot write stays      *)
(* marked in use.                                                          *)
GivesUp(t) ==
    /\ lost' = IF task[t].op = "rename" THEN lost ELSE lost \cup Chain(fat, task[t].entry.first)
    /\ Fails(t)

(* An existing file: its entry gets the new chain, then the old one is     *)
(* freed.                                                                  *)
Overwrite(t) ==
    LET k == task[t]
        before == slot[k.old].first
    IN  /\ k.pc = "entry" /\ k.op = "write" /\ k.old # NoSlot
        /\ slot' = [slot EXCEPT ![k.old] = k.entry]
        /\ fat' = Freed(fat, Chain(fat, before))
        /\ dirty' = (dirty \/ before # Free)
        /\ Goes(t, "flush")
        /\ UNCHANGED <<disk, data, lost, unsaved, kept>>

OverwriteFails(t) ==
    /\ task[t].pc = "entry" /\ task[t].op = "write" /\ task[t].old # NoSlot
    /\ "overwrite" \in Faults
    /\ GivesUp(t)
    /\ UNCHANGED <<fat, dirty, disk, slot, data, unsaved, kept>>

Places(t) == task[t].pc = "entry" /\ (task[t].op = "write" => task[t].old = NoSlot)
AfterPlace(t) == IF task[t].op = "rename" THEN "unlink" ELSE "flush"

PlaceEntry(t) ==
    LET loc == task[t].loc
    IN  /\ Places(t)
        /\ Vacant(loc) # {}
        /\ slot' = [slot EXCEPT ![FirstVacant(loc)] = task[t].entry]
        /\ Goes(t, AfterPlace(t))
        /\ UNCHANGED <<fat, dirty, disk, data, lost, unsaved, kept>>

(* A folder without a vacant slot gets one more cluster.                   *)
(* Plausible bug: the new cluster is linked before it is marked.           *)
GrownUnmarked(loc, c) == [fat EXCEPT ![LastCluster(loc)] = c]
Grown(loc, c) == [fat EXCEPT ![LastCluster(loc)] = c, ![c] = EOC]

PlaceInNewCluster(t) ==
    LET loc == task[t].loc
        c == FirstFree
    IN  /\ Places(t)
        /\ Vacant(loc) = {} /\ loc # Free /\ Unclaimed # {}
        /\ fat' = Grown(loc, c)
        /\ dirty' = TRUE
        /\ data' = [data EXCEPT ![c] = <<"folder">>]
        /\ slot' = [a \in Addresses |-> IF a = <<c, 1>> THEN task[t].entry
                                        ELSE IF a[1] = c THEN NoEntry ELSE slot[a]]
        /\ Goes(t, AfterPlace(t))
        /\ UNCHANGED <<disk, lost, unsaved, kept>>

(* The root is full, or a folder is and the disk too.                      *)
NoPlace(t) ==
    /\ Places(t)
    /\ Vacant(task[t].loc) = {} /\ (task[t].loc = Free \/ Unclaimed = {})
    /\ GivesUp(t)
    /\ UNCHANGED <<fat, dirty, disk, slot, data, unsaved, kept>>

PlaceFails(t) ==
    /\ Places(t)
    /\ "place" \in Faults
    /\ GivesUp(t)
    /\ UNCHANGED <<fat, dirty, disk, slot, data, unsaved, kept>>

(* remove_file frees the chain first.                                      *)
FreeFirst(t) ==
    /\ task[t].pc = "free"
    /\ fat' = Freed(fat, Chain(fat, task[t].entry.first))
    /\ dirty' = (dirty \/ task[t].entry.first # Free)
    /\ Goes(t, "unlink")
    /\ UNCHANGED <<disk, slot, data, lost, unsaved, kept>>

(* The entry is marked deleted; remove then frees what was there.          *)
(* Plausible bug: rename ends as remove does.                              *)
UnlinkedAlways(t) == IF task[t].op = "remove_file" THEN {} ELSE Tree(task[t].entry)
Unlinked(t) == IF task[t].op = "remove" THEN Tree(task[t].entry) ELSE {}

Unlink(t) ==
    /\ task[t].pc = "unlink"
    /\ slot' = [slot EXCEPT ![task[t].old] = NoEntry]
    /\ fat' = Freed(fat, Unlinked(t))
    /\ dirty' = (dirty \/ Unlinked(t) # {})
    /\ Goes(t, "flush")
    /\ UNCHANGED <<disk, data, lost, unsaved, kept>>

UnlinkFails(t) ==
    /\ task[t].pc = "unlink"
    /\ (IF task[t].op = "remove" THEN "unlink" ELSE "late") \in Faults
    /\ Fails(t)
    /\ UNCHANGED <<fat, dirty, disk, slot, data, lost, unsaved, kept>>

-----------------------------------------------------------------------------
(* committed: the FAT goes to the disk at the end, also after an error.    *)

(* What the volume holds once an operation has succeeded, as far as its    *)
(* caller can tell.                                                        *)
Under(path, p) == Len(p) >= Len(path) /\ SubSeq(p, 1, Len(path)) = path

After(k) ==
    IF k.failed THEN kept
    ELSE [p \in Paths |->
             IF k.op = "write" /\ p = k.path
             THEN [i \in 1 .. k.entry.size |-> <<p, k.entry.size, i>>]
             ELSE IF k.op = "create_dir" /\ p = k.path THEN AFolder
             ELSE IF k.op = "rename" /\ Under(k.to, p)
             THEN LET q == k.path \o SubSeq(p, Len(k.to) + 1, Len(p))
                  IN  IF q \in Paths THEN kept[q] ELSE Absent
             ELSE IF k.op \in {"remove", "remove_file", "rename"} /\ Under(k.path, p) THEN Absent
             ELSE kept[p]]

(* What a cluster held that is free in memory and on the disk can be read  *)
(* by nobody until it is allocated and written again: it is forgotten.     *)
Forgotten == {c \in Clusters : fat[c] = Free /\ disk'[c] = Free}
Forget ==
    /\ data' = [c \in Clusters |-> IF c \in Forgotten THEN <<>> ELSE data[c]]
    /\ slot' = [a \in Addresses |-> IF a[1] \in Forgotten THEN NoEntry ELSE slot[a]]

(* Plausible bug: rename does not end in committed.                        *)
FlushUnlessRename(t) ==
    /\ task[t].pc = "flush"
    /\ disk' = IF dirty /\ task[t].op # "rename" THEN fat ELSE disk
    /\ Forget
    /\ dirty' = (dirty /\ task[t].op = "rename")
    /\ task' = [task EXCEPT ![t] = Idle]
    /\ kept' = After(task[t])
    /\ UNCHANGED <<fat, lost, unsaved>>

Flush(t) ==
    /\ task[t].pc = "flush"
    /\ disk' = IF dirty THEN fat ELSE disk
    /\ Forget
    /\ dirty' = FALSE
    /\ task' = [task EXCEPT ![t] = Idle]
    /\ kept' = After(task[t])
    /\ UNCHANGED <<fat, lost, unsaved>>

(* flush_fat clears the marks before it writes: after an error nothing     *)
(* makes it write these sectors again.                                     *)
FlushFails(t) ==
    /\ task[t].pc = "flush" /\ dirty /\ "flush" \in Faults
    /\ disk' \in {disk, fat}           \* the first copy may have been written
    /\ dirty' = FALSE
    /\ unsaved' = TRUE
    /\ task' = [task EXCEPT ![t] = Idle]
    /\ UNCHANGED <<fat, slot, data, lost, kept>>

-----------------------------------------------------------------------------
(* An empty volume.                                                        *)
FatInit ==
    /\ fat = [c \in Clusters |-> Free]
    /\ disk = fat
    /\ dirty = FALSE
    /\ slot = [a \in Addresses |-> NoEntry]
    /\ data = [c \in Clusters |-> <<>>]
    /\ task = [t \in Tasks |-> Idle]
    /\ lost = {}
    /\ unsaved = FALSE
    /\ kept = [p \in Paths |-> Absent]

Operation(t) ==
    \E path \in Paths :
        \/ path \in Files /\ \E n \in Sizes : BeginWrite(t, path, n)
        \/ path \notin Files /\ BeginCreateDir(t, path)
        \/ BeginRemoveFile(t, path)
        \/ BeginRemove(t, path)
        \/ \E to \in Paths : BeginRename(t, path, to)

Allocate(t) == AllocateFinds(t) \/ AllocateFails(t) \/ Claim(t) \/ ClaimFails(t)
Place(t) == PlaceEntry(t) \/ PlaceInNewCluster(t) \/ NoPlace(t) \/ PlaceFails(t)
Change(t) == Overwrite(t) \/ OverwriteFails(t) \/ FreeFirst(t) \/ Unlink(t) \/ UnlinkFails(t)
Commit(t) == Flush(t) \/ FlushFails(t)

FatNext == \E t \in Tasks : Operation(t) \/ Allocate(t) \/ Place(t) \/ Change(t) \/ Commit(t)

FatSpec == FatInit /\ [][FatNext]_fatVars

-----------------------------------------------------------------------------
(* Properties.                                                             *)

Entry == [name : Names \cup {None}, dir : BOOLEAN, first : Clusters \cup {Free}, size : Nat]

(* The types of the variables, and that the links of the FAT, in memory    *)
(* and on the disk, lead to clusters that are in use.                      *)
FatTypeOK ==
    /\ \A table \in {fat, disk} : \A c \in Clusters :
           table[c] \in {Free, EOC} \cup {d \in Clusters : table[d] # Free}
    /\ dirty \in BOOLEAN /\ unsaved \in BOOLEAN /\ lost \subseteq Clusters
    /\ \A a \in Addresses : slot[a] \in Entry
    /\ \A t \in Tasks : task[t].entry \in Entry /\ task[t].found \in Clusters \cup {Free}

(* What is on the volume: the chains of its files and folders, and those   *)
(* being made.                                                             *)
Doomed == {task[t].old : t \in {u \in Tasks : task[u].op = "remove_file" /\ task[u].pc = "unlink"}}
Live(a) ==
    /\ slot[a] # NoEntry /\ a \notin Doomed
    /\ \/ a[1] = Free
       \/ \E e \in Folders(fat) : a[1] \in Chain(fat, e.first)
LiveSlots == {a \in Addresses : Live(a)}
Making == {t \in Tasks : task[t].op \in {"write", "create_dir"} /\ task[t].pc \in {"data", "claim", "entry"}}
Starts == {slot[a].first : a \in LiveSlots} \cup {task[t].entry.first : t \in Making}

(* A cluster belongs to one file or folder at most.  The clusters of a     *)
(* file or a folder are all marked in use and the last is marked as the    *)
(* end.  An entry being renamed is, for a while, there twice.              *)
ChainsApart ==
    /\ \A c \in Starts \ {Free} : At(fat, c, Cardinality(Clusters)) = EOC
    /\ \A c, d \in Starts : c # d => Chain(fat, c) \cap Chain(fat, d) = {}
    /\ \A a, b \in LiveSlots :
           a # b /\ slot[a].first = slot[b].first /\ slot[a].first # Free =>
               \E t \in Tasks : task[t].op = "rename" /\ task[t].old \in {a, b}
    /\ \A t, u \in Making : t # u => task[t].entry.first # task[u].entry.first \/ task[t].entry.first = Free

(* Every cluster marked in use is part of a file or folder, or was given   *)
(* up by an operation that failed after it had allocated it; those given   *)
(* up are part of nothing.                                                 *)
Accounted ==
    LET held == UNION {Chain(fat, c) : c \in Starts}
    IN  /\ {c \in Clusters : fat[c] # Free} = held \cup lost
        /\ held \cap lost = {}

(* Stop the kernel at any moment, by a panic or a reset, and mount the     *)
(* disk again: every path that no operation was working on has what the    *)
(* last operation on it that succeeded left there, not the remains of a    *)
(* failed one, and not the data of another file.  The disk keeps its power *)
(* and so all it was told to write.  (Not once a flush of the FAT failed.) *)
Touched(p) == \E t \in Tasks : task[t] # Idle /\ (Under(task[t].path, p) \/ Under(task[t].to, p))

OthersSurvive == ~unsaved => \A p \in Paths : ~Touched(p) => Contents(disk, p) = kept[p]

(* A FAT with the links of an entry's chain, but that the chain of a       *)
(* folder may go on where it ended.                                        *)
HasLinks(table, e, later) == \A c \in Chain(table, e.first) : later[c] = table[c] \/ (e.dir /\ table[c] = EOC)

(* Nothing is ever flushed, so the disk may make what it was told to write *)
(* since it last rested durable in any order, and lose any of it with the  *)
(* power.  No operation writes an entry, a link or a cluster that a path   *)
(* is read from which it does not work on: a file that was on the disk     *)
(* when that rested is read back whichever later writes it has lost.       *)
OthersUnwritten ==
    [][~unsaved =>
           \A p \in Paths : \A a \in Lookup(fat, p) : ~Touched(p) =>
               /\ slot'[a] = slot[a]
               /\ HasLinks(fat, slot[a], fat') /\ HasLinks(disk, slot[a], disk')
               /\ \A c \in Chain(fat, slot[a].first) : data'[c] = data[c]]_fatVars
=============================================================================
