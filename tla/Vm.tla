--------------------------------- MODULE Vm ---------------------------------
(***************************************************************************)
(* User memory: the region table of kernel/src/vm.rs, the page tables of   *)
(* paging.rs, the frames of pmm.rs and the program break.  Every operation *)
(* runs with interrupts off from end to end (system calls, faults and the  *)
(* reaper on one CPU), so each is one step.                                *)
(*                                                                         *)
(* Addresses are page numbers, execute permission is left out, and an      *)
(* error return, which changes nothing, is no step.  The levels of a page  *)
(* walk are nodes <<level, index>>: <<0, p>> is page p itself, and a node  *)
(* of level l covers Span[l] pages; the highest is the PML4, which covers  *)
(* them all.                                                               *)
(***************************************************************************)
EXTENDS Integers, FiniteSets, FiniteSetsExt, Functions

CONSTANTS Spaces,       \* address spaces; which one names its CR3
          Frames,       \* the physical frames pmm manages for user memory
          Root,         \* the level of the PML4
          Span,         \* 0 .. Root -> how many pages a node of that level covers
          LoaderPages,  \* what the loader maps: program and stack
          HeapBase,     \* USER_HEAP_BASE
          MmapBase,     \* USER_MMAP_BASE
          UserEnd,      \* USER_END
          Capacity,     \* CAPACITY: regions in the table
          Requests,     \* mappings asked for: [prot, shared, file, offset]
          Prots,        \* protections asked for by mprotect
          FilePages,    \* file -> how many pages it has
          None,         \* no file: an anonymous mapping
          FixedPages,   \* where programs map with MAP_FIXED; not in the heap, where
                        \* brk maps over whatever is there
          Touched,      \* bound: space -> the pages its program's calls and accesses name
          Stored,       \* bound: the pages programs store to
          Cloned        \* {FALSE}: one thread of a space calls brk; {FALSE, TRUE}: any

Pages == 0 .. UserEnd - 1
HeapPages == HeapBase .. MmapBase - 1

ASSUME VmAssumption ==
    /\ HeapBase \in Nat /\ MmapBase \in Nat /\ UserEnd \in Nat
    /\ HeapBase <= MmapBase /\ MmapBase < UserEnd
    /\ LoaderPages \subseteq 1 .. HeapBase - 1
    /\ \A s \in Spaces : Touched[s] \subseteq 1 .. UserEnd - 1
    /\ FixedPages \cap HeapPages = {}
    /\ Capacity \in Nat
    /\ Root \in Nat \ {0} /\ Span \in [0 .. Root -> Nat \ {0}]
    /\ Span[0] = 1 /\ Span[Root] >= UserEnd
    /\ IsFiniteSet(Frames)
    /\ Requests \subseteq [prot : SUBSET {"r", "w"}, shared : BOOLEAN,
                          file : DOMAIN FilePages \cup {None}, offset : Nat]
    /\ Prots \subseteq SUBSET {"r", "w"}
    /\ \A q \in Requests : q.shared => "w" \notin q.prot /\ q.file # None
    /\ Cloned \subseteq BOOLEAN

VARIABLES regions,  \* REGIONS: the slots in use
          nodes,    \* space -> node -> the frame it is in, for nodes that exist
          ptes,     \* space -> resident page -> [prot, data]: the entry's flags
                    \* and what is in the frame it points at
          used,     \* frames marked used in pmm's bitmap
          orphans,  \* those among them that belong to address spaces the loader
                    \* built and gave up
          breaks,   \* space -> the heap_end values of its threads
          panic     \* why the kernel has stopped, or "none"

vars == <<regions, nodes, ptes, used, orphans, breaks, panic>>

Region == [space : Spaces, start : Pages, end : 1 .. UserEnd, prot : SUBSET {"r", "w"},
           shared : BOOLEAN, file : DOMAIN FilePages \cup {None}, offset : Nat]

Live(s) == <<Root, 0>> \in DOMAIN nodes[s]
Resident(s, p) == <<0, p>> \in DOMAIN nodes[s]

(* What a page may hold; a page of a file is <<file, number>>. *)
Zero    == <<None, 0>>
Image   == <<"image", 0>>
Written == <<"written", 0>>

-----------------------------------------------------------------------------
(* Frames.                                                                 *)

Free == Cardinality(Frames \ used)

(* Each of the nodes N gets a free frame of its own.  Which, pmm's search  *)
(* hint decides; nothing depends on it.                                    *)
Allocated(N) == CHOOSE f \in [N -> Frames \ used] : IsInjective(f)

Walk(p) == {<<l, p \div Span[l]>> : l \in 0 .. Root}

(* The frames that mapping the pages P takes: one for each, and one for    *)
(* each table on the way that is not there yet.                            *)
Needed(s, P) == {<<0, p>> : p \in P} \cup ((UNION {Walk(p) : p \in P}) \ DOMAIN nodes[s])

(* `old' with the values of `new' where that has any. *)
Over(new, old) ==
    [x \in DOMAIN new \cup DOMAIN old |-> IF x \in DOMAIN new THEN new[x] ELSE old[x]]

Install(s, N) == /\ nodes' = [nodes EXCEPT ![s] = Over(Allocated(N), @)]
                 /\ used' = used \cup Range(Allocated(N))

Leaves(s, P) == {<<0, p>> : p \in P} \cap DOMAIN nodes[s]

(* A plausible bug: unmap_page clears the entry in another table. *)
FreedStillMapped(s, P) ==
    /\ used' = used \ {nodes[s][n] : n \in Leaves(s, P)}
    /\ UNCHANGED <<nodes, ptes>>

(* unmap_page and free_frame: leaves only, an emptied table stays.         *)
FreePages(s, P) ==
    /\ nodes' = [nodes EXCEPT ![s] = Restrict(@, DOMAIN @ \ Leaves(s, P))]
    /\ ptes' = [ptes EXCEPT ![s] = Restrict(@, DOMAIN @ \ P)]
    /\ used' = used \ {nodes[s][n] : n \in Leaves(s, P)}

-----------------------------------------------------------------------------
(* Regions.                                                                *)

Within(r, a, e) == a <= r.start /\ r.end <= e
Covers(r, p) == r.start <= p /\ p < r.end
Of(table, s) == {r \in table : r.space = s}
Cut(table, s, at) == {r \in Of(table, s) : r.start < at /\ at < r.end}

(* What is on page p of a region or a mapping before anything is stored.   *)
Contents(file, n) == IF file = None THEN Zero ELSE <<file, n>>
InFile(file, n) == file # None => n < FilePages[file]
PageOf(r, p) == r.offset + (p - r.start)

(* A plausible bug: the right half goes on from the start of the file.     *)
SplitSameOffset(table, s, at) ==
    LET cut == Cut(table, s, at) IN
    (table \ cut) \cup {[r EXCEPT !.end = at] : r \in cut}
                  \cup {[r EXCEPT !.start = at] : r \in cut}
SplitAt(table, s, at) ==
    LET cut == Cut(table, s, at) IN
    (table \ cut) \cup {[r EXCEPT !.end = at] : r \in cut}
                  \cup {[r EXCEPT !.start = at, !.offset = @ + (at - r.start)] : r \in cut}
Split(s, a, e) == SplitAt(SplitAt(regions, s, a), s, e)

(* A plausible bug: room for the left cut only. *)
SplitsLeft(s, a, e) == Cardinality(Cut(regions, s, a))
Splits(s, a, e) == Cardinality(Cut(regions, s, a)) + Cardinality(Cut(regions, s, e))
HasRoom(n) == Capacity - Cardinality(regions) >= n

Carved(s, a, e) == {r \in Split(s, a, e) : ~(r.space = s /\ Within(r, a, e))}

(* The table becomes `final' by way of `between'; if `insert' finds no     *)
(* free slot for either, the kernel stops.                                 *)
Overflows(table) == Cardinality(table) > Capacity
Become(between, final) ==
    /\ regions' = final
    /\ panic' = IF Overflows(between) \/ Overflows(final) THEN "capacity" ELSE panic

(* A plausible bug: always from the base. *)
TopIsBase(s) == MmapBase
TopOf(s) == Max({MmapBase} \cup {r.end : r \in Of(regions, s)})

-----------------------------------------------------------------------------
(* mmap, munmap, mprotect.                                                 *)

NewRegion(s, a, e, q) ==
    [space |-> s, start |-> a, end |-> e, prot |-> q.prot,
     shared |-> q.shared, file |-> q.file, offset |-> q.offset]

(* A mapping that is not fixed goes after every other, never into a gap.   *)
Map(s, n, q) ==
    LET a == TopOf(s) IN
    /\ a + n <= UserEnd
    /\ HasRoom(1)
    /\ Become(regions, regions \cup {NewRegion(s, a, a + n, q)})
    /\ UNCHANGED <<nodes, ptes, used, orphans, breaks>>

MapFixed(s, a, e, q) ==
    /\ a < e /\ a .. e - 1 \subseteq FixedPages
    /\ HasRoom(Splits(s, a, e) + 1)
    /\ Become(Split(s, a, e), Carved(s, a, e) \cup {NewRegion(s, a, e, q)})
    /\ FreePages(s, a .. e - 1)
    /\ UNCHANGED <<orphans, breaks>>

Unmap(s, a, e) ==
    /\ a < e
    /\ HasRoom(Splits(s, a, e))
    /\ Become(Split(s, a, e), Carved(s, a, e))
    /\ FreePages(s, a .. e - 1)
    /\ UNCHANGED <<orphans, breaks>>

(* Every page is in a region that may have the protection, or resident.    *)
MayProtect(s, range, prot) ==
    \A p \in range :
        IF \E r \in Of(regions, s) : Covers(r, p)
        THEN \A r \in Of(regions, s) : Covers(r, p) => ~(r.shared /\ "w" \in prot)
        ELSE Resident(s, p)

Protect(s, a, e, prot) ==
    /\ a < e
    /\ MayProtect(s, a .. e - 1, prot)
    /\ HasRoom(Splits(s, a, e))
    /\ Become(Split(s, a, e),
              {IF r.space = s /\ Within(r, a, e) THEN [r EXCEPT !.prot = prot] ELSE r :
                   r \in Split(s, a, e)})
    /\ ptes' = [ptes EXCEPT ![s] =
           [p \in DOMAIN @ |-> IF p \in a .. e - 1 THEN [@[p] EXCEPT !.prot = prot] ELSE @[p]]]
    /\ UNCHANGED <<nodes, used, orphans, breaks>>

-----------------------------------------------------------------------------
(* First touch, and stores.                                                *)

Permits(prot, access) == prot # {} /\ (access = "w" => "w" \in prot)

(* try_map_page_in takes back the tables it has made if it cannot make     *)
(* them all, and `fault' then its frame: nothing is left of the attempt.   *)
Fault(s, p, access) ==
    /\ ~Resident(s, p)
    /\ \E r \in Of(regions, s) :
        /\ Covers(r, p) /\ Permits(r.prot, access) /\ InFile(r.file, PageOf(r, p))
        /\ Cardinality(Needed(s, {p})) <= Free
        /\ Install(s, Needed(s, {p}))
        /\ ptes' = [ptes EXCEPT ![s] =
               Over([x \in {p} |-> [prot |-> r.prot, data |-> Contents(r.file, PageOf(r, p))]], @)]
    /\ UNCHANGED <<regions, orphans, breaks, panic>>

UserStore(s, p) ==
    /\ Resident(s, p) /\ "w" \in ptes[s][p].prot
    /\ ptes' = [ptes EXCEPT ![s][p].data = Written]
    /\ UNCHANGED <<regions, nodes, used, orphans, breaks, panic>>

-----------------------------------------------------------------------------
(* Program break, loader, reaper.                                          *)

(* The kernel stops when a table is needed and there is no frame for it;   *)
(* having none for the page itself only ends the growth.                   *)
First(h, n) == h .. h + n - 1
Affordable(s, h, wanted) ==
    Max({n \in 0 .. wanted - h : Cardinality(Needed(s, First(h, n))) <= Free})

(* A thread whose break is h asks for `wanted'.  When another thread still *)
(* has the break it was cloned with, that value stays.                     *)
Brk(s, h, wanted, cloned) ==
    LET n == Affordable(s, h, wanted)
        N == Needed(s, First(h, n)) IN
    /\ h < wanted
    /\ Install(s, N)
    /\ ptes' = [ptes EXCEPT ![s] =
           Over([p \in First(h, n) |-> [prot |-> {"r", "w"}, data |-> Zero]], @)]
    /\ IF n < wanted - h /\ Cardinality(N) < Free
       THEN panic' = "memory" /\ UNCHANGED breaks
       ELSE /\ breaks' = [breaks EXCEPT ![s] = (IF cloned THEN @ ELSE @ \ {h}) \cup {h + n}]
            /\ UNCHANGED panic
    /\ UNCHANGED <<regions, orphans>>

(* The loader makes an address space and maps the program in it.  Being    *)
(* short of frames stops the kernel.                                       *)
Load(s) ==
    LET N == Needed(s, LoaderPages) IN
    /\ ~Live(s)
    /\ IF Cardinality(N) <= Free
       THEN /\ Install(s, N)
            /\ ptes' = [ptes EXCEPT ![s] =
                   [p \in LoaderPages |-> [prot |-> {"r", "w"}, data |-> Image]]]
            /\ breaks' = [breaks EXCEPT ![s] = {HeapBase}]
            /\ UNCHANGED panic
       ELSE panic' = "memory" /\ UNCHANGED <<nodes, ptes, used, breaks>>
    /\ UNCHANGED <<regions, orphans>>

(* It finds only then that the program cannot be relocated, that there is  *)
(* no frame for its stack or no task slot, and returns an error: nobody    *)
(* destroys what it has built.                                             *)
GiveUpLoad(s) ==
    LET N == Needed(s, LoaderPages) IN
    /\ ~Live(s)
    /\ Cardinality(N) <= Free
    /\ used' = used \cup Range(Allocated(N))
    /\ orphans' = orphans \cup Range(Allocated(N))
    /\ UNCHANGED <<regions, nodes, ptes, breaks, panic>>

(* The last task of the space has been reaped (Sched decides when).        *)
(* A plausible bug: the page tables are not freed. *)
FreedLeaves(s) == {nodes[s][n] : n \in {<<0, p>> : p \in DOMAIN ptes[s]}}
Freed(s) == Range(nodes[s])

Destroy(s) ==
    /\ regions' = regions \ Of(regions, s)
    /\ used' = used \ Freed(s)
    /\ nodes' = [nodes EXCEPT ![s] = <<>>]
    /\ ptes' = [ptes EXCEPT ![s] = <<>>]
    /\ breaks' = [breaks EXCEPT ![s] = {}]
    /\ UNCHANGED <<orphans, panic>>

-----------------------------------------------------------------------------
Init ==
    /\ regions = {}
    /\ nodes = [s \in Spaces |-> <<>>]
    /\ ptes = [s \in Spaces |-> <<>>]
    /\ used = {} /\ orphans = {}
    /\ breaks = [s \in Spaces |-> {}]
    /\ panic = "none"

Next ==
    /\ panic = "none"
    /\ \E s \in Spaces :
        \/ Load(s) \/ GiveUpLoad(s)
        \/ /\ Live(s)
           /\ \/ Destroy(s)
              \/ \E p \in Stored \cap Touched[s] : UserStore(s, p)
              \/ \E p \in Touched[s], access \in {"r", "w"} : Fault(s, p, access)
              \/ \E n \in 1 .. UserEnd, q \in Requests :
                     TopOf(s) .. TopOf(s) + n - 1 \subseteq Touched[s] /\ Map(s, n, q)
              \/ \E a, z \in Touched[s] :
                     \/ \E q \in Requests : MapFixed(s, a, z + 1, q)
                     \/ Unmap(s, a, z + 1)
                     \/ \E prot \in Prots : Protect(s, a, z + 1, prot)
              \/ \E h \in breaks[s], z \in HeapPages \cap Touched[s], cloned \in Cloned :
                     Brk(s, h, z + 1, cloned)

Spec == Init /\ [][Next]_vars

-----------------------------------------------------------------------------
(* What must hold.                                                         *)

(* Types; regions and breaks belong to spaces that exist, and page tables  *)
(* point at frames marked used.                                            *)
TypeOK ==
    /\ regions \subseteq Region /\ \A r \in regions : r.start < r.end /\ Live(r.space)
    /\ \A s \in Spaces :
        /\ \A n \in DOMAIN nodes[s] : nodes[s][n] \in used
        /\ DOMAIN ptes[s] = {p \in Pages : Resident(s, p)}
        /\ \A p \in DOMAIN ptes[s] : ptes[s][p].prot \subseteq {"r", "w"}
        /\ breaks[s] \subseteq HeapBase .. MmapBase
    /\ used \subseteq Frames /\ orphans \subseteq used
    /\ panic \in {"none", "capacity", "memory"}

(* The regions of a space never overlap, so that it does not matter in     *)
(* which order the table is searched (`find' in fault, protect and         *)
(* split_at takes the first).                                              *)
Disjoint ==
    \A r1, r2 \in regions :
        r1.space = r2.space /\ r1 # r2 => r1.end <= r2.start \/ r2.end <= r1.start

(* Every frame marked used is in exactly one place of one address space,   *)
(* and every place has a frame: whatever is mapped, faulted in, replaced,  *)
(* unmapped and torn down, no frame leaks and none is in two spaces        *)
(* (vm.rs: "Each mapped frame has one owning PTE").  The exceptions are    *)
(* the spaces the loader gives up.                                         *)
Places == UNION {{<<s, n>> : n \in DOMAIN nodes[s]} : s \in Spaces}
FrameAt(x) == nodes[x[1]][x[2]]
FramesExact ==
    /\ used = {FrameAt(x) : x \in Places} \cup orphans
    /\ \A x \in Places : FrameAt(x) \notin orphans
    /\ \A x, y \in Places : x # y => FrameAt(x) # FrameAt(y)

(* `insert' always finds a slot: every caller has made sure of room for    *)
(* the splits and the new region before changing anything.                 *)
RoomKept == panic # "capacity"

(* What a program would find on a page: what is in its frame or, as long   *)
(* as it has none, what its region puts there at first touch.              *)
OfRegion(r, p) == [prot |-> r.prot, data |-> Contents(r.file, PageOf(r, p)), shared |-> r.shared]
Seen(s, p) ==
    LET over == {OfRegion(r, p) : r \in {r \in regions : r.space = s /\ Covers(r, p)}} IN
    IF ~Resident(s, p) THEN CHOOSE x \in over : TRUE
    ELSE [prot |-> ptes[s][p].prot, data |-> ptes[s][p].data, shared |-> \E x \in over : x.shared]
Mapped(s) == DOMAIN ptes[s] \cup UNION {r.start .. r.end - 1 : r \in Of(regions, s)}

Promise == INSTANCE AddressSpaces
    WITH space <- [s \in {s \in Spaces : Live(s)} |-> [p \in Mapped(s) |-> Seen(s, p)]],
         Initial <- LAMBDA q, n : Contents(q.file, q.offset + n)

(* Programs see private arrays of pages that only their own calls and      *)
(* stores change, however regions are split and frames passed on.          *)
Implements == Promise!Spec
=============================================================================
