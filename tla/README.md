# KonjacOS: specifications and proofs

KonjacOS is a single-CPU x86-64 operating system kernel in Rust: a preemptive
scheduler with kernel threads and ring-3 processes (native and Linux ABI), a
copy-on-write filesystem (KonjacFS, "KFS") and an older FAT16 volume, virtual
memory, a desktop, and a port of DOOM.  This directory holds TLA+ models of the
parts of it whose correctness depends on order - what is on the disk when the
power fails, what a timer tick interrupts, who wakes whom - with the TLC runs
that check them and TLAPS proofs about them.

`PROJECT.json` is the index: components, runs, the mutations of the models that
show each property can fail, which source lines each definition stands for,
findings, hazards and theorems.

    tlc -workers 2 -config MCKfs.cfg MCKfs        # any run: <cfg>, <module>
    tlapm SchedProofs.tla                         # any *Proofs.tla (the longest take a quarter of an hour)

## The system

| component | source (`src/kernel/src/`) | state | operations | talks to |
|---|---|---|---|---|
| KonjacFS | `kfs.rs`, `src/tools/kfs.py` | superblock ring, tree, free-space bitmap; in memory `Fs` | write, rename, remove, create folder, commit, abort, mount, mkfs | block layer; called by VFS under the `FS` lock |
| block layer, drivers | `block.rs`, `virtio_blk.rs`, `ata.rs` | virtqueue, request counters | read, write, flush | polled hardware |
| VFS | `vfs.rs` | current folder, mount state | routing by path, copy, move across volumes | KFS, FAT16 |
| FAT16 | `fat16.rs` | FAT, directories, in place on disk | create, write, rename, remove | block layer |
| scheduler | `task.rs`, `timer.rs` | `TASKS`, `CURRENT`, `NEXT_ID`, `IDLE_SLOT` | spawn, schedule, sleep, futex wait and wake, exit, kill | timer interrupt, page tables, heap |
| system calls | `linux_syscall.rs`, `syscall.rs`, `usermode.rs` | per task: descriptors, brk, signals, futex words | Linux and native ABI, interrupts off throughout | everything |
| exceptions | `idt.rs`, `gdt.rs`, `pic.rs` | vectors | page faults, fatal faults | vm, scheduler |
| locks | `sync.rs` | a flag each; the CPU's interrupt flag | `SpinLock`, `IrqSpinLock` | everything |
| memory | `pmm.rs`, `paging.rs`, `vm.rs`, `heap.rs`, `memory.rs` | frame bitmap, page tables, `REGIONS`, free list | allocate, map, unmap, protect, fault, tear down | scheduler (reaping), KFS (file-backed faults) |
| input | `keyboard.rs`, `mouse.rs` | rings between interrupt and task | push, pop, clear | desktop, shell, DOOM |
| loader | `loader.rs` | none | ELF and PE to a new address space | paging, scheduler |
| DOOM | `src/kernel/csrc/doom/` | levels, players, movers, its own memory, what it shows | a tic at a time, in a kernel thread | input, framebuffer, heap, VFS |
| desktop, console, shell, boot | `ui/`, `console.rs`, `shell.rs`, `commands.rs`, `main.rs`, ... | pixels, windows, text | draw, dispatch | VFS, scheduler |

What is hard, and what would make each part correct:

- **KFS**: the disk may make cached writes durable in any order until it is
  flushed, and the power may fail between any two of them.  An operation is
  atomic and durable; the committed state is never touched; space is neither
  leaked nor handed out twice, whatever fails.
- **Scheduler**: a task's stack and address space are freed while others, or the
  CPU itself, may be on them; waits end by wake, by deadline or by death, in any
  order; every ready task must get the CPU.
- **Locks**: an interrupt, or a system call running with interrupts off, must
  never spin on a lock whose holder it has displaced.
- **User memory**: a range is changed while its pages are partly resident, frames
  and table slots run out on the way, and an address space goes while its frames
  are wanted by the next.  No frame leaks or has two owners, and each program sees
  a memory that only it changes.
- **FAT16**: no lock is held from one step of an operation to the next, and the
  FAT reaches the disk after the entries that rely on it.  A cluster has one owner
  or none, and no failure or power cut harms a file the operation was not about.
- **Moves between volumes**: a copy and a removal, of which each call can fail.
- **DOOM**: movers are freed while sectors and arrays point at them; its zone is
  searched, purged and merged with a loop standing on a block; one variable takes
  every request to change state; ammunition is looked at in one state of a weapon
  and taken in another.  It is a port of old, well-known code, but it runs inside the
  kernel, with the kernel's memory, and nothing contains an error in it.
- **B+tree, heap**: sequential, but what they must keep true holds only over long histories of
  changes: names that share a hash, leaves split unevenly and merged, blocks freed in any order.
- **Open files, input rings, virtqueue**: see the hazards and the plan.

## What is modelled

### KonjacFS: `BlockDevice`, `KfsVolume`, `AtomicVolume`, `KfsInvariant`, `KfsProofs`, `KfsTree`

`BlockDevice` is a disk as `block.rs` presents it.  For each block it keeps
`view`, what a read returns, and `media`, the set of contents it could have
after a power failure: a write adds to the set, a flush makes it the singleton of
what was written last, a failed write may have happened in part, and a failed
flush promises nothing.  That is every reordering and loss the flushes allow.

`KfsVolume` is `kfs.rs` on such a disk.

| code | model |
|---|---|
| `fs.sb`, `fs.txg` | `sb` (its `txg` is the transaction group) |
| `fs.root` (`Child::Disk` or `Mem`), `fs.nodes`, `fs.dirty` | `root`, `tree`, `dirty`: the tree being built, and whether it exists only in memory |
| `fs.bits`, `fs.held`, `fs.cursor` | `bits`, `held`, `cursor` |
| `fs.index`, `fs.bitmap` | `index`, and the bitmap block it points at |
| `change(...)`: operation, `commit`, on failure `abort` | `phase`: idle, op, tree, bitmap, flush, superblock, land, idle |
| `maybe_commit` inside `empty_dir` | `drop` # {} when a commit lands: the removal goes on |
| power off, nothing mounted | phases `off`, `dead` |

Abstractions: the B+tree is one block (every change copies the path to the root,
so the protocol sees a new root and freed old blocks either way); a file is
inline or one extent of one block; a pointer's checksum is the contents it was
taken of, so "the checksum matches" is equality; names, times and inodes are
left out.  The FS lock is held from the start of an operation to its end, so
operations do not interleave; each device call is a step, since the power can
fail between any two.  An operation that fails on the way may have moved the allocation cursor,
which the model leaves where it was: the cursor decides only which free block comes first.

`AtomicVolume` is what the volume promises: the contents a reader sees and the
contents the operation in progress will leave.  An operation takes effect at once
or not at all; only a removal may become permanent part of the way.  `Atomic`
says that `KfsVolume` implements it, under the mapping at the end of that
module (the contents are those of the committed tree).

`KfsTree` is what `KfsVolume` has as one block: the B+tree with its nodes, and the
entries of one folder in it.

| code | model |
|---|---|
| `Fs::root`, `Child::Disk`, `Child::Mem` | `root`: a pointer has the node it leads to with it, and `at`, its block or `Mem` |
| blocks given to `Fs::free` since the last commit | `freed` |
| `scan`, `lookup` | `Scan`, `Lookup` |
| `insert`, `insert_at`, `split`; `remove`, `remove_at`, `rebalance` | `insert`, `Inserted`, `Split`; `remove`, `Without`, `Rebalance`, `Lowered` |
| `add_entry`, the removal of an entry | `AddEntry`, `RemoveEntry` |
| `commit` (`write_child`), `abort` | `Commit`, `Abort` |

A name has a hash and an entry of some length; several names share a hash.  Only
entries are in the tree, and devices do not fail in it: an operation may be
given up between any two changes, and that a block is not handed out again too soon is
`KfsVolume`'s.  `FolderExact` says that scans and look-ups see the folder as it is,
`TreeSound` that every node can be written and that the committed tree is not touched.

### Kernel heap: `Heap`, `HeapProofs`

The list of free blocks with the headers in them, the bump edge and the allocations, in
bytes.  `Walk` is where the loops of `pop_fit` and `release` are after each turn, and they stop at the first block that
they look for (`Stop`).  `pop_fit` and `Carve` are the two ways `alloc` has, `dealloc` is `release`.  One lock
is held throughout, so each is one step; a request that gets null is none.
`HeapExact` has two halves: every byte below the edge is in one free block or in one
allocation, and a request is refused only if there is no room for it in one piece, which is what
joining freed blocks is for.

### Scheduler: `Sched`

The task table slot by slot, `CURRENT`, the stack the CPU is on, the address
space loaded, the futex words of threads' tids.  `schedule()` is translated in
its order: expire deadlines, reap every terminated task but the current one and
destroy the address spaces whose last task that was, round-robin choice with the
idle task last, switch.  A ring-3 task calls the kernel with interrupts off, so
each of its calls is one step; a kernel thread's `task_exit` is three
(`KernelExit`, `ExitPicks`, `ExitSwitches`), because nothing keeps the timer
out between them.  Deadlines are kept as ticks to go, so no clock grows.
A loader that fails once it has built an address space, because the table is full
(`loader.rs:1359`) or for another reason, leaves it behind: nothing takes it down.  The
history `orphans` is the set of these, and `SpacesExact` says that all others
are those of tasks.

| code | model |
|---|---|
| `irq0_handler` | `Tick` |
| `spawn`, `spawn_user`, `spawn_thread`, `do_clone` | `SpawnKernel`, `SpawnUser`, `SpawnThread`, `Clone` |
| `load_and_run` up to an error | `LoadFails` |
| `yield_now`, `sleep_ticks`, `sys_futex` | `Yield`, `Sleep`, `FutexWait`, `FutexWake` |
| `task_exit`, `exit_group` and fatal faults, `kill` | `Exit`/`KernelExit`..., `ExitGroup`, `Kill` |

### Locks: `SpinLocks`

Tasks that take and drop guards of both kinds of lock, nested the way the kernel
nests them, the interrupt flag, the timer, and switches by sleeping.  System
calls run with the flag clear.  `SyscallLocks` is the set of plain locks that
code with interrupts off takes; `FS` is one of them in the run, as it is in the kernel.
Such a call can spin for ever, then.  `OnlySyscallsHang` says that nothing else can:
who spins can be interrupted or is a system call on one of these locks, and whoever
has the lock is another task that does not wait for a lock itself.

### User memory: `Vm`, `AddressSpaces`, `VmProofs`

The region table of `vm.rs`, the user page tables with their levels, the frame
bitmap, and the program break.  System calls, page faults and the reaper run with
interrupts off from end to end, so each is one step.

| code | model |
|---|---|
| `REGIONS` | `regions`, the set of its slots in use; `CAPACITY` is `Capacity` |
| a table or a page in the tables under a CR3 | `nodes[space]`: `<<level, index>>` to its frame; `<<0, p>>` is page p, `Span` says how many pages a level covers |
| flags of a leaf entry, contents of its frame | `ptes[space]` |
| the bitmap of pmm | `used` |
| `heap_end` of a space's threads | `breaks[space]` |
| `expect` (out of slots, out of frames) | `panic` |
| `map` with and without `MAP_FIXED`, `unmap`, `protect`, `fault`, `destroy` | `MapFixed`, `Map`, `Unmap`, `Protect`, `Fault`, `Destroy` |
| `sys_brk`; `loader.rs` up to `spawn_user`, and its error returns | `Brk`; `Load`, `GiveUpLoad` |

Abstractions: addresses are page numbers, lengths whole pages; execute permission
is left out (it goes with the others); what a page holds is "zero", "page n of
file f", "program image" or "stored to"; which free frame is handed out does not
matter and is a fixed choice.  An error return leaves everything as it was and is
no step: the checks it stands for are guards, and `try_map_page_in`'s roll-back
is the absence of a step when `Needed` exceeds `Free`.  Where the code calls
`expect` the kernel stops, and the model with it.  `vm.rs` finds
free slots by counting, then splits, removes and inserts: `Become` looks at the
two largest tables on the way.  Mapping a file opened for writing
(`sys_mmap_writable_fd`) is, to the table, `Map`, `Fault`s and `UserStore`s.

`AddressSpaces` is what programs are promised: a private array of pages, each
with a protection and contents, edited by the program's own calls and stores
only, with `mmap` never landing on anything unless told to and `mprotect` all or
nothing.  Frames, residence, regions and splits do not occur in it.
`Implements` says `Vm` meets it: a page that is not resident shows what its
region would put there.  It is the property that a wrong offset after a split, a
stale entry, or a frame in two spaces would break.

### FAT16: `Fat16`, `Fat16Proofs`

The FAT in memory, the FAT on the disk, the directory entries, and what each
cluster holds.  As in the code, an operation changes the FAT in memory, writes
data and entries straight to the disk, and writes the FAT out as its last act
(`committed`); a failure on the way leaves the changes in memory to whoever
flushes next.

| code | model |
|---|---|
| `FAT.table`, `FAT.dirty` | `fat`, `dirty` (one sector) |
| what a mount would read | `disk`, `slot`, `data` |
| a call in progress: its locals and where it is | `task[t]` |
| `allocate_cluster`, up to `set_fat_entry` and after | `AllocateFinds`, `Claim` |
| `create_entry`: in a slot, or in a cluster added to the folder | `PlaceEntry`, `PlaceInNewCluster` |
| `write_file`, `create_dir`, `remove_file`, `remove`, `rename` | `BeginWrite`, ... , and the steps they lead to |
| `committed`, `flush_fat` | `Flush`, `FlushFails` |

A path is `<<name>>` or `<<folder, name>>`; data is `<<path, size, number>>`, so
that any mixing of two files shows.

A stop of the machine is not a step; two properties ask every state and step what one would leave.
If the kernel stops (a panic, a reset), the disk keeps its power and so all that it was told to
write: `OthersSurvive` asks what a mount of the disk as it is would find.  If the power fails, there is no
such order, since the driver never calls `block::flush` and a disk may cache writes until
it is flushed: `OthersUnwritten` says that no step writes an entry, a link of the FAT or a cluster by which
a path is read that the operation is not about.  So what was on the disk when it last rested
is read back whichever of the later writes are lost.  What the operation itself has done, and what
operations since then have, a power failure may undo in any part: `fat16.rs` promises nothing about
that, and neither does a property.

Clusters that a failed operation leaves marked are
counted in `lost`; what becomes of the volume once a flush of the FAT has failed
is left out (`unsaved`), since memory and disk then disagree until the next one.
A write that reports failure is taken not to have reached the disk (`BlockDevice` lets it, for KFS).
Long names, short-name collisions, folders in folders, and a failure while the new
cluster of a folder is cleared (`fat16.rs:976`) are left out.

### Moves between volumes: `Vfs`

`rename` and `copy` of `vfs.rs` when source and destination are on different
volumes: the look at the destination, `copy_across` file by file, the removal of
the original, or of the half copy.  Each call to a volume is a step, each can fail,
and another task may make things at the destination at the steps `OthersAt`.
A look at the destination is `stat_path(to).is_ok()` (`vfs.rs:247`, `279`), to which an error is the
same as nothing there: the copy then goes on to overwrite what is there (`write_file`), or fails and
the clean-up (`remove(to)`, line 252) removes it.  The model has these looks, and the history `blind` says
that one has failed on something; `NothingLost` promises nothing to what is in the way from then
on, and the files that are moved as much as before.
Callers pass absolute paths, so the current folder is not in it.

### DOOM: `DoomMovers`, `DoomZone`, `DoomFlow`, `DoomWeapons`

Four parts of the port that share no state the models have; each is
sequential code with pointers or state that outlive the call that made them.

| module | code | what is kept |
|---|---|---|
| `DoomMovers` | thinker list, plats, doors, floors, ceilings, stairs and donuts, the lines that start and stop them, saved games (`p_tick.c`, `p_plats.c`, `p_doors.c`, `p_floor.c`, `p_ceilng.c`, `p_spec.c`, `p_switch.c`, `p_saveg.c`) | the list, `specialdata`, `activeplats`, `activeceilings`, each mover's type, state, counter and function; memory is reused as soon as it is freed |
| `DoomZone` | `Z_Malloc`, `Z_Free`, `Z_FreeTags`, `Z_ChangeTag`, the lump cache (`z_zone.c`, `w_wad.c`) | every header with its links, the rover, the caches; each turn of a loop is a step, and headers that a merge has swallowed stay readable as they are in memory |
| `DoomFlow` | `G_Ticker`, `D_DoAdvanceDemo`, the menu's and keys' requests, intermission, finale, demos (`g_game.c`, `d_main.c`, `d_net.c`, `m_menu.c`, `wi_stuff.c`, `f_finale.c`) | `gameaction`, `gamestate` and its old value, the demo loop, `usergame`, the player alive or not, what a command carries |
| `DoomWeapons` | weapon states, firing, switching, pick-ups, cheats, death, a new level (`p_pspr.c`, `p_inter.c`, `info.c`, `p_user.c`, `st_stuff.c`, `p_mobj.c`) | the player's weapons and ammunition, the weapon's state and height |

Left out in them: heights and positions (how far a plane got, whether a
body is in the way, what a shot hits are choices), sounds, textures, lights, keys,
network games, recording.  A second body of the player (a voodoo doll, which some
maps have) is left out of `DoomWeapons`: it can leave a dead player with health,
which then takes `wp_nochange` for a weapon.  `BfgCells` stands for
`deh_bfg_cells_per_shot` and for the 40 that `P_CheckAmmo` has as a literal.
Details that no property tells apart are left out too: the doors that close after 30 seconds (`p_spec.c:1430`; the ones
that open after five minutes are in), the page sequence of seven of later executables (`d_main.c:523`; pages are
six), pause and save buttons that a demo carries (`g_game.c:963-992`), the change to the fist with the berserk
pack (`p_inter.c:493`; the player always owns the fist), the single clip of a dropped weapon, and the checks for the
shareware game, which is not among `Games`.
Action routines set states whose routines are called at once, and so on; where the state that is set is known,
`DoomWeapons` has the state and its routine as one operator (`Lowered`, `P_BringUpWeapon`), so
nothing is recursive.  The loops of `EV_BuildStairs` and `EV_DoDonut` are recursive functions (`Turns`) with as many turns
as there can be sectors to find.

`MCParts` puts eight modules (`Heap`, `KfsTree`, `Fat16`, `Vfs` and the four of DOOM) side by
side: they share nothing, so a behaviour runs the one that `part` names and the rest stays as it begins.
Where a property would say something of another part's beginning, it is implied there by `part` having its name.

## Runs

| run | question | bounds |
|---|---|---|
| `MCKfs` | Is the committed state safe, space exact, mounting right, every operation atomic? | 2 files, 3 values (one inline), 8 data blocks, ring of 3, txg up to 3, 1 device error, 1 power failure |
| `MCKfsFlushError` | ... if only the flush after the superblock may fail? **violated** | same |
| `MCKfsSlotError` | ... if a superblock slot may be unreadable at mount? **violated** | same |
| `MCSched` | Are stacks, address spaces, the running state and joins right? | 5 slots, 2 address spaces, 1 futex word, waits of 1 tick, 5 tasks created |
| `MCSchedLive` | Does every ready task run, every deadline pass, every dead task go? | 4 slots, 1 address space, waits up to 2 ticks, 4 tasks created |
| `MCSchedSwitch` | ... if a tick may come inside an exiting thread's switch? **violated** | 4 slots |
| `MCSchedJoin` | ... if `kill` is given a thread somebody joins? **violated** | 4 slots |
| `MCSpinLocks` | Who can spin for ever? Can an interrupt find its lock taken, or a task lose its interrupt flag? | 2 threads, 2 processes, 2 locks of each kind, one of the plain ones taken by system calls |
| `MCSpinLocksSyscall` | Can every task that spins be interrupted? **violated** by a system call on a plain lock, as opening a file makes it | same |
| `MCVm` | Does every frame have one owner, the table room, and each program its own memory? | 2 spaces, 8 frames, 6 pages in 2 tables, 3 regions, an anonymous and a file mapping |
| `MCParts` | FAT16: are chains apart, clusters accounted for, other files whole after a reset and untouched for a power cut? Moves: is nothing lost? Movers: no dangling pointer, nothing stopped for good? Zone: blocks and owners exact? Flow: pictures paired, the user's game kept, the title page again and again? Weapons: owned, and never less than no ammunition? Tree: is every name found, every node writable, what is committed untouched? Heap: is it filled, and room found? | below |
| `MCFat16Race` | ... FAT16, if two tasks write at the same time? **violated** | 2 tasks, 2 clusters, 2 files in the root |

Why these bounds are enough to be interesting.  KFS: mkfs puts txg 1 in all three
slots and two commits replace two of them, so that a power failure finds old,
new and torn superblocks side by side (a ring that wraps further is covered by
the proof); 8 data blocks hold a committed state (3 to 5 blocks) and the next one with room
for reuse but not for everything, so allocation wraps and the disk fills; one
error and one outage, at any of the steps, in either order.  Deadlock is not
checked since the bounds on txg, errors and outages stop the system.  The
torn-block value is only offered for superblocks: elsewhere it is, like the old
contents, something that matches no checksum.  Scheduler: five slots hold shell,
idle task and three more, so that two processes, or a process with two threads,
meet a killer and a reaper; task ids are never reused in the code, so `MaxId`
bounds the history, not the table.  A system that has used up its ids and has
nothing runnable but the idle task only ticks.

Memory: `Capacity` 3 is the least with which one range can cut a region at both
ends and leave a third; the first program has three pages there for
that (`Touched`), the second has one of them and a page of heap beside
it, so heap pages, which no region covers, and mapped pages meet.  A loaded space
takes 4 frames of 8 (three of tables and one of image) and a second bottom table
costs one more, so one program can fault freely and two run each other short, at a page
or at a table.  `Stored` leaves out stores to pages that add no case.  `VIEW`
keeps, of which frame is where, only what `FramesExact` asks: how many are used,
how many places have different ones, and whether the sets agree; every guard of
`Next` depends on `Free` alone and the steps take equal views to equal views while
`FramesExact` holds, so no state is missed.  Deadlock is not checked: a panic
stops the model.

`MCParts`, part by part.  FAT16: three clusters, a root of two entries, a
folder whose cluster has room for one, files of one and two clusters: a folder grows, a chain
is longer than one, and disk and root both fill.  One task, as the passing run
assumes.  Moves: a file, or a folder of three, so that a failure comes first, between
and last.  Movers: three sectors, two with the same tag (one is the other's next stair
and its donut's ring), one behind a door line with a timed door; two thinkers at a time, of
which one plat and two ceilings can be active, so a second plat overflows the array, which stops
the game with an error; waits of one tic; every line works again and again (`used` stays empty: no
property is about lines that work once).  Zone: six units, lumps of one and two, blocks of one: one
block can be split, merged on both sides, purged and refused.  Flow: three
levels, one followed by a level, one by a text, one by the end; demos of one tic and
pages of one (`PageTics` 0), since only the order of ends and requests matters.  Weapons: four
games, each with the weapons of one interplay and what else can be had (`MCGames`);
of each kind of ammunition at most three, and a BFG that takes two cells, so
enough, too little and none differ; two steps from top to bottom of the screen.
Tree: blocks of eight bytes hold one to eight entries or four pointers, six names have entries of an
eighth, a half and five eighths of a block, and two changes go between commits: leaves split in two and in
three, trees reach three levels, roots are lowered to nodes in memory and on disk, and four
names share two hashes, with two slots each in place of eight.  Heap: sixteen bytes, requests of one, four and five
that become two, four and six, so there are up to four holes at a time.

`MCSpinLocks` does not check deadlock: a system call that spins on `FS` while a preempted thread has it
is the hang of finding 5, with nothing left to happen.  Its states are what `OnlySyscallsHang` confines to
such calls.

`MCKfs`, `MCSched` and `MCSpinLocks` do not check `TypeOK`: the proofs below do, for every instance.

What the violated runs show is under "Findings".

### Fairness

The scheduler and DOOM's flow have liveness properties.  `WF(Tick)`: the timer is programmed
once and never stopped, and every path out of the kernel turns interrupts back
on (`with_interrupts_off`, `sysret`, `iretq`), so a tick is never put off for
ever.  `WF(Exiting)`: a kernel thread that has come to `task_exit` executes its
next instructions.  Nothing is assumed about what tasks do: a task may compute
for ever, and round robin must still reach the others.  `WF(FlowTic)` in `MCParts`:
`TryRunTics` runs a tic whenever time has passed, whatever the keys are; nothing
is assumed about the user, and `TitleReturns` has as its condition that there is no game of
the user's from some time on.

### Assumptions of the passing runs

- `MCKfs`: device errors occur in operations, in the tree and bitmap writes and
  in the first flush of a commit, and when abort reads the bitmap back; not in
  the superblock write, the second flush or during mount.
  `MCKfsFlushError` and `MCKfsSlotError` drop two of these and fail.
- `MCSched`, `MCSchedLive`: no tick in the window of `task_exit` that
  `MCSchedSwitch` opens; `kill` is given neither a thread that has a tid to clear
  (`MCSchedJoin`) nor the idle task.  (With `"idle"` in `Mortal`, `OneRuns`
  fails in three steps: kill 1, then sleep; the shell's `kill` refuses only
  task 0.)
- `MCSpinLocks`: of the plain locks, system calls take `FS` (`SyscallLocks`).  A system call that slept
  goes on with interrupts off; see finding 3 for the one case in which it does not.
- `MCVm`: one thread of a space calls brk (`Cloned`; with `{FALSE, TRUE}`
  `FramesExact` fails in four steps, since each thread has its own copy of the
  break, a limitation that `task.rs:695` states); programs do not map with
  `MAP_FIXED` into the heap (`FixedPages`), where brk maps over what is there; a
  file does not change while it is mapped.  `FramesExact` allows for the address
  spaces that the loader builds and gives up (`orphans`): those leak.
- `MCSched` lets the loader fail at the end of its work and counts what it leaves behind
  (`orphans`), as `Vm` does; nothing is assumed of loads.
- `MCParts`, FAT16: one task at a time changes the volume (`MCFat16Race` has
  two).  No failure when an entry is deleted whose clusters are free by then
  (`fat16.rs:1357-1360`) or whose new name is in place (`1471-1472`): with `"late"` in
  `Faults`, `ChainsApart` fails.  A write that reports failure has not reached the disk.
- `MCParts`, moves: any call and any look may fail; the other task is done when the move begins (`OthersAt`); with
  `"copy"` or `"clean"` in it `NothingLost` fails, since `write_file` overwrites what
  has appeared meanwhile, and the removal of a half copy removes it.
- `MCParts`, movers: a line tagged as a manual door's back side starts doors only, and
  a donut has a ring (`MoversAssumption`); `EV_VerticalDoor` and `EV_DoDonut`
  check neither.  `Revivable` is stated for as many movers as `activeceilings` holds.

## Findings

1. `kfs.rs:1055`.  If the flush after the superblock write fails, the operation
   reports failure and memory goes back, but the superblock may be on the disk.
   After further operations and a restart, mount can take that superblock
   although blocks it points at have been reused.
2. `kfs.rs:511`.  One unreadable superblock slot hides every slot after it.
3. `task.rs:1140`.  A kernel thread exits with interrupts on, against the safety
   comment of `schedule`; a tick at the wrong place saves its context as the next
   task's.  (For the same reason, a task that slept in a system call and is
   switched to from there goes on with interrupts on, which `SpinLocks` leaves
   out.)
4. `task.rs:963`.  `kill` on a thread does not do what its exit does for joiners.
5. `sync.rs:99`.  Plain locks are shared with code that runs with interrupts off
   (system calls and page faults), which can spin for ever.
6. `fat16.rs:806`.  `allocate_cluster` finds a free cluster under the FAT's lock and
   marks it under a second one; a task preempted between the two shares
   the cluster with another that writes a file.

Behaviour of the DOOM sources met while modelling, which no text of the
repository denies and which therefore is no finding: a request of the menu can be
lost to `D_DoAdvanceDemo` in the next tic; a screen shot or a failed load in
the tic in which the intermission ends leaves it for ever (`gameaction` is overwritten); a save command that
travels past the end of a level saves in the intermission (`g_game.c:988`); one ceiling more than
`MAXCEILINGS` is not in the array and can be neither stopped nor removed; plats in stasis
are not in a saved game; `EV_BuildStairs` leaves `type` and `crush` of its floors
as `Z_Malloc` found them (`p_floor.c:220` reads them); `EV_VerticalDoor` may add a second mover to a sector
in motion for the types that only open.

## Proofs

Eight modules of proofs: two of user memory, and those of the volume, the locks, the scheduler, FAT16,
the moves between volumes and DOOM's flow of states.  Each rests on a strengthening of the properties
(mostly called `IInv`) and the three facts
`Init => IInv`, `IInv /\ [Next]_vars => IInv'` and `IInv => P`, with one lemma per action.

`KfsProofs` proves, for every value of the constants that meets
`VolumeAssumption` - any ring of at least two slots, any disk, reserve, files,
values, number of errors and power failures - that

    EarlyFaultsOnly => (Spec => []P)

for P = `TypeOK`, `CommittedIntact`, `SpaceExact`, `NewestInUse` and
`Recoverable`.  `EarlyFaultsOnly` is the restriction on `Faults` above; the two
violated runs show that it cannot be dropped.  None of the five is inductive alone:
that a commit does not harm the
committed state depends on the accounting (`Unused` blocks are in nobody's
pointers), which depends on what each phase has written, and that mount succeeds
depends on what the superblock slots may hold.  `KfsInvariant` gives the
strengthening `IInv`: types; the committed superblock is durable with its blocks
(`CommittedIntact`); accounting (`SpaceExact`); each phase's knowledge of
what it has written and flushed; and while the power is off, that every
superblock the disk may hold is the committed one, its complete successor, or
older.  TLC checks `IInv` as an invariant of `MCKfs` too.  The lemmas of the actions
rest on lemmas about pointers, allocation, freeing and the device.

`KfsProofs` also proves `EarlyFaultsOnly => (Spec => Atomic)`: the volume implements
`AtomicVolume`, for the same constants.  Each action of `KfsVolume` is shown to be one action
of the promise - the start of an operation `Begin`, the second flush `Land`, every abort `Fail`,
`Mount` `Recover` - or to change nothing a caller sees.  Besides `IInv` this needs
`WantedInv`, which relates the tree in memory to the committed one: they are the same when
the volume is idle, they differ only in files that are gone during a removal, and a newer
superblock on the disk after a power failure leads to the one in memory.

`VmProofs` proves `TypeOK`, `Disjoint`, `FramesExact` and `RoomKept` for any number of address
spaces, frames, slots, levels of tables and requests, if `OneThreadGrows`: one thread of a space
calls brk (`Cloned`, above).  None of the four is inductive alone.  A first touch finds a
frame for a page and its tables because the page is not resident; that growing the heap does not map
over a resident page, and so lose its frame, depends on where the resident heap ends (`HeapInv`: at the
break) and on no region reaching into it (`InOrder`), or else a fault could put a page there;
`InOrder` depends on every split keeping the pieces apart and on `Carved` leaving nothing across
either end.  `FramesOK` is `FramesExact` said without pairs (`ExactIs`), and `PagesOK` ties
the entries to the page tables.  `RoomKept` is counted in two steps: a split adds
one region for each that it cuts (`SplitSize`), and the split at the upper end cuts no more after
the one at the lower end than before (`SecondCut`), for `splits` counts both in the table as it
is.  TLC has checked `IInv` on the instance of `MCVm`, and `Backed` (below) too.

`VmProofs` also proves `OneThreadGrows => (Spec => Implements)`: user memory implements `AddressSpaces`.
What a program sees is put together from a function of the page-table entries and a set of regions
(`Picture`): `Offers` is what the regions say of a page - one thing at most, since they never overlap -
and a page that is resident shows its entry.  Cutting a region in two changes no offer, since the offset
goes along (`SplitOffers`); `CarvedOffers`, `AddedHere` and `ProtectOffers` say what
removing, adding and protecting do to them; and a first touch puts into the entry just what was offered, so a
fault, like a split, shows nothing.  Then every call is one edit of one space, and no other space's
pages change (`KeepsOthers`).  `IInv` does not suffice: a mapping is to appear where nothing was, but if a
page could stay resident with no region over it, the next mapping there would show the old contents.
`Backed` says that above the heap every resident page is covered by a region, and is inductive with `IInv`.

`SpinLocksProofs` proves `TypeOK`, `InterruptSafe`, `FlagRestored` and `OneGuard` for
any number of tasks and locks and any nesting, and `OnlySyscallsHang` for any set of locks that
system calls take (`MCSpinLocksSyscall` shows that such calls do hang).
That an interrupt finds no `IrqSpinLock` locked rests on what the interrupt flag is
at every moment: `FlagExact` says it is set exactly if the running task could be
interrupted by what it holds and where it is, and this on `Restoring`: along a task's stack
of guards, each but the outermost `IrqSpinLock` guard remembers a clear flag, and the
outermost the one it found.  `Owned` ties the locks to the guards, `OthersPlain` says
that a task switched away from has no `IrqSpinLock` nor waits for one, `PlainWaits`
what a task may hold that spins on a plain lock.  The nesting is a sequence of any length;
the lemmas on pushing and popping a guard stand for the induction.

`SchedProofs` proves `TypeOK`, `OnOwnStack`, `OneRuns`, `SpacesExact` and `DeadStayDead`
for any number of slots, address spaces, futex words and ticks, if
`Undisturbed`: no tick inside the switch of an exiting kernel thread
(`MCSchedSwitch`) and the idle task not among what `kill` is given.  `schedule()` is
a chain of tables - deadlines expired, the dead reaped, spaces destroyed, the next task chosen, the switch
made - and the proof follows it table by table (`ExpiredFit`, `ReapedFit`, `DestroyedExact`,
`PickedFit`, `ChosenFit`, `FinalFit`), so that what every action does before it
schedules need only be shown to be `Schedulable` (`ScheduleStep`).  The invariant:
every task has an id of its own and its saved context on its own stack, who does not wait has no deadline,
and the idle task is there and never waits, which is why there is always one
to choose (`Fit`); no deadline has passed unnoticed (`NoneDue`); the spaces built are those
of the tasks in the table and the orphans, apart; and, in the three places a step can end - a task running, an exiting
thread before its `schedule` and in its switch - which tasks are Running and whose
stack and space the CPU is on (`Placed`).

`JoinersAreWoken` adds `JoinersHaveThreads`, if no thread is killed from outside its group
(`ThreadsLive`; `MCSchedJoin` shows why).  Waiting on a word is refused unless it holds a tid, so the
invariant (`Provided`) says of every joiner that a live thread has its word, and of every word in a space with
a live task that it holds a tid only if one has; what `schedule` does to the tasks preserves both
(`Tame`), and an exit clears the word and wakes the joiner in one step.  A kernel thread has no word, which
is why its exit, in three steps, does no harm.

`VfsProofs` proves `VfsTypeOK` and `NothingLost` for a folder of any files, under `Alone`, the
assumption on `OthersAt` above.  The invariant says what the copy has made and what it has still
to look at (`Copying`), that what was in its way is untouched (`InTheWay`), and how a call that is
over has left both ends (`Ended`).

`DoomProofs` proves `TypeOK`, `IntermissionPaired` and `NotInterrupted` of `DoomFlow` for any levels and any length of pages and
demos, with no assumption but the types of these (`FlowAssumption`).  Who wrote `gameaction` last decides both: `Pictures` says in which of a tic's places
(`pc`) the old state of the game and the new one are those that the pictures were loaded for, and with what
left to do; `UserGames` that the wish for the next page has been heard before a game can begin.

It also proves `ZoneTypeOK`, `ZoneSound` and `OwnersExact` of `DoomZone` for a zone of any size, any fragment, lumps and
sizes.  `Ring` is a walk along the links, so the proof begins with what makes a set of addresses the ring: a set whose
links lead both ways round and whose blocks touch (`IsRing`) is what the walk comes by (`RingIs`), because each step leads to a higher
address (`WalkAdvances`) and what it missed would have a least member; and no block begins inside another (`NoneInside`).  Then it
says what marking, joining and splitting do to a ring (`MarkIs`, `JoinRing`, `SplitIs`), and that `Z_Free`, which does
the first two in up to three steps, leaves a ring without neighbours that are both free, with every other block
as it was (`FirstHalf`, `SecondHalf`, `FreeOwned`).  Neither property is inductive alone: what a call does next depends on where
its loop stands while blocks are merged under it.  The invariant (`ZoneInv`) says that before the base of a search there
is no free block, and none where it will end, so that purging what the rover is at cannot merge either away (`Scanning`);
and that the rover of `Z_FreeTags`, which reads the next block before it frees one, stands on a block or on a header that the
merge has just swallowed but whose link still leads into the ring, with nothing of the level behind it (`Freeing`).

And `MoversTypeOK`, `NoDangling` and `Revivable` of `DoomMovers`, for any sectors, tags, lines, sizes of the arrays and
bounds that satisfy `MoversAssumption`.  Every call that makes movers ends in one operator (`Spawn`), so the proof says first what
that does to any list, memory, `specialdata` and array (`SpawnIs`: the new ones are on the list, at numbers nobody
has, and the sector leads to the last that was made for it; `OfKindIs`, `PutAllIs`: those of a kind go to
different free places, all of them if there are enough) and what of it is kept (`SpawnKeeps`).  `InPlace` is the
invariant, said of any list and memory, so that it can be said of the level that a load is about to set up.
Besides the two properties it has that an array holds nothing twice, that what stands still knows how to go
on, and that behind a manual door line there are nothing but doors, since
`EV_VerticalDoor` writes a door's direction into whatever it finds there.
It also says why a second mover of the same sector (a donut's ring that moves already, a fall-through of an "open" door) leaves
nothing dangling: whichever of them ends first clears `specialdata`.
The loops that look for stairs and donuts are recursive functions; what
they find is never computed, only that each turn keeps it a list of floors away from manual doors (`TurnsIn`, `FoundIsFresh`).
`Revivable` needs that each ceiling finds a place: with no more thinkers than places it does (`CeilingsFit`).

And `WeaponsTypeOK` and `Armed` of `DoomWeapons`, for any games, any ammunition that can be carried, any cells per shot and any height,
with no assumption but `WeaponsAssumption`, the types of these.  That ammunition is not
less than none cannot be inductive alone, since a shot takes it without looking.  `Holds` adds what was
looked at: in the state before the shot (the first of an attack, if it does nothing itself) there is enough for the weapon
at hand; only the chain gun fires later, and it looks again (`AttackOf`).  What happens in between keeps that:
pick-ups, keys and cheats take no ammunition and do not change the weapon at hand (`Richer`), and what does change it
lowers it first.  It adds also that a weapon of the living is lowered
only for another to be raised, which the code relies on when it raises `pendingweapon`.  There is one lemma per action
routine (`LowerKeeps`, `RaiseKeeps`, `ReFireKeeps`, ...), stated of any player in the midst of others, because routines call each other.
TLC has checked both invariants on the instance of `MCParts`.

`Fat16Proofs` proves `FatTypeOK`, `ChainsApart`, `Accounted` and `OthersSurvive` for any clusters, slots, files, folders and sizes, under
`Alone` (one task changes the volume; `MCFat16Race` shows why) and `NoLateFaults` (the restriction on
`"late"` above).  A chain is the values of a recursive function up to a bound, so the proof begins with
what chains are: what a walk comes by it comes by within as many steps as there are clusters (`AtInChain`), so a
chain is the least set with its first cluster that the links do not leave (`ChainLeast`), and in a `Sane` table - links
lead to clusters in use, no two to the same - chains with different heads are apart and end (`HeadsApart`,
`ChainEnds`).  The induction over steps is done with sets for predicates: a set of numbers has a
least one because finite sets are well-founded (`Least`).  `Books` then says that the heads and what was given up account for all
that is in use, and is shown to be kept when chains are freed, begun, extended and given up (`BooksFreed`,
`BooksNew`, `BooksGrown`, `BooksGivenUp`).  The invariant (`Good`) puts the entries that are looked up for the heads, and says of
the operation in progress what the steps before have made sure of: that the clusters being filled
end where the next will be linked and hold nothing that could be taken for an entry, that an entry to be
replaced, renamed or removed is still what it was, and that a file whose clusters are freed
first has an entry that counts no more.  TLC has checked it on three clusters, two folders and three files.

`OthersSurviveReset` adds `OthersSurvive` under one assumption more, `Alike`: the set of paths is closed under renaming a
folder.  The code's paths are all strings, which are; the history `kept` follows only the paths in the set, and could not
say what a file moved out of it and back has.  The invariant (`FatSafe`) compares what is kept with what is read at
every path, so what is read is an operator of a FAT, entries and data (`View`) that can be put to the volume in memory,
to the one on the disk, and to either as the next write will leave it.  A call has one step from which it can no
longer fail.  Before it (`Early`, `Unchanged`) both FATs lead every entry along the same clusters with the same data, and
the call is still about what its first look found (`Asked`): no other step has made or moved the entry
since.  After it (`Changed`) memory has what the call is to do (`Wanted`), while the disk has the new entries
and the old FAT, and there only the paths that the call is not about are as they were.  For a rename, whose two writes
to the directories come one after the other, the second half is stated of the entries as they are and of the entries without the
old one (`Without`).  The proof is one lemma per step for what it does to the reading of paths (`SameRead` when a cluster outside
every chain is written or linked, `RemovalShows`, `RenamedPath`, ...) over the facts about chains that `Good` gives.

`HeapProofs` proves `HeapTypeOK` and `HeapExact` for a heap of any size, any alignment and any requests.  The assumption
is that of the module: a header fits in the smallest piece that can be left over.  The list is a walk along the
links, so the proof says first that each link leads to the next higher free address (`Sorted`), from which it follows that
the walk comes by every free block and ends (`WalkPasses`, `WalkEnds`) and where the two loops
stop (`Stopped`).  Every change the code makes to the list, in `pop_fit` and in both halves of `release`, is one splice: the
blocks between two others make way for one block or none (`Spliced`), which keeps the order, and the
gaps if what it puts there has them (`SplicedSorted`, `SplicedInv`); `Replaced`, `Dropped` and `Grown` say that the code's
writes of headers and links are such.  That each byte is in one place is not inductive alone.  The invariant (`HeapInv`) says also
that no two free blocks touch and none touches the edge (`Spaced`, `Complete`): a block that is freed
may touch one on either side, and then both are swallowed, or the edge, and then it goes back.  The same gaps
give the second half of `HeapExact`: bytes in a row that are not allocated are all in one free block or reach the edge
(`RoomHolds`).  TLC has checked `HeapInv` on the instance of `MCParts`.

Only model-checked: `FolderExact` and `TreeSound` of `KfsTree` (a folder is a tree of nodes of any height, its operators
are declared RECURSIVE, which the proof system cannot use, and what they compute would need induction over
trees); `PartsTypeOK`, which is the type invariants of the parts side by side, each of them proved on its own but
the tree's; `OthersUnwritten` of `Fat16`,
which says of one step what `FatSafe` keeps over all; and everything about liveness, which is outside the proof system's reach too.

## Not modelled

Files of several extents, the node cache and fallback after damage in KFS;
long and short names in FAT16; paths and the current folder in VFS; open files and descriptors; signals; kernel memory (kernel mappings,
the TLB, contiguous frames); the virtqueue; input rings; the
loader's parsing and relocation.  Of DOOM: monsters and things (`p_enemy.c`, `p_mobj.c`, `p_map.c`),
what is heard and drawn (`s_sound.c`, `r_*.c`, `st_*.c`, `hu_*.c`, `am_map.c`, `i_*.c`), the menus' pages,
configuration and WAD search: geometry, pixels and tables, with little order in them to get wrong.
Drawing, text, the desktop, and pure functions of the kernel are left out for good: they are
sequential and data-heavy.

## Plan

Written in order of importance; each step has its runs and mutants.

1. Done: `BlockDevice`, `KfsVolume` with `AtomicVolume`, `KfsProofs`; `Sched`, `SchedProofs`;
   `SpinLocks`, `SpinLocksProofs`; `Vm` with `AddressSpaces`, `VmProofs`; `Fat16`, `Fat16Proofs`; `Vfs`, `VfsProofs`; `Heap`, `HeapProofs`; `KfsTree`; the
   DOOM modules, `DoomProofs`.
2. `Vm` composed with `Sched`'s reaping: the last task of a space and its frames.
3. `VirtioBlk`: one request at a time, late answers after a time-out; implements
   `BlockDevice`'s calls as long as no request is given up on.
4. `OpenFiles`: shared descriptor tables, offsets across the unlocked read, stale
   KFS handles.
5. Superblock choice after damage (`KfsBitRot`); `KfsVolume` with `KfsTree` in place of its one block.
6. `Rings` (keyboard and mouse), `Signals`; DOOM's monsters and their targets.
7. Proofs: `KfsTree`, once a node's height bounds its recursion by functions instead of RECURSIVE operators.
