# FirstOS in TLA+

A verification project for FirstOS, a small operating system for a MIPS32 board (ZJUNIX): one
processor, one address space for the kernel and its tasks, a timer, a keyboard, a screen and an SD
card. The modules here model the core of the kernel as it is written; TLC checks them on small
instances and TLAPS proves the main invariants for every instance. Paths below are relative to the
repository; line numbers are those of the commit the models were written from.

## 1. Inventory

| part | state | operations | who calls it |
|---|---|---|---|
| process control (`kernel/pc/pc.c`) | lists `tasks`, `sched[0..32]`, `wait`, `terminal`; bitmap `pro_map`; `current_task`; per task `pid ppid state dynamic_prority counter sleep_avg is_changed` | `task_create`, `pc_schedule`, `task_exit`, `pc_kill`, `wait_pid` | the timer interrupt, `kernel_proc`, the shell |
| identifiers (`kernel/pc/pid.c`) | `pid_map`, `next_pid` | `pid_alloc`, `pid_check`, `pid_free` | process control |
| lists (`include/zjunix/list.h`) | pointers inside the owners' structures | add, delete, move, walk | process control, buddy, slab, vm, caches |
| boot (`kernel/init.c`, `start.s`) | none | builds idle and init, enables interrupts | reset |
| shell (`usr/ps.c`) | the command line | `kill`, `execk`, `execk2`, `ps`, file and memory commands | the init task |
| interrupts (`arch/mips32/intr.c`, `exc.c`) | handler table, mask | dispatch, TLB refill | the processor |
| lock (`kernel/lock/lock.c`) | `spin` | `lockup`, `unlock` | buddy |
| boot memory (`kernel/mm/bootmm.c`) | `s_map` of pages, `info[10]` of ranges | allocate, free, merge, split | boot, buddy |
| buddy (`kernel/mm/buddy.c`) | `pages`, `freelist[0..4]` | `__alloc_pages`, `__free_pages` | slab, `kmalloc` |
| slab (`kernel/mm/slab.c`) | 12 caches with current, partial and full pages | `kmalloc`, `kfree` | everybody |
| areas (`kernel/vm/vm.c`, `tlb_refill` of `exc.c`) | list of areas, `map_count`, `mmap_cache`, page directory | map, unmap, find, delete | TLB refill, process control |
| block cache (`kernel/fs/fscache`) | buffers with block number and dirty and reference bits, clock hand | read, write back, clear | FAT |
| FAT (`kernel/fs/fat`) | FAT and directory buffers, open files | open, read, write, create, delete, close | shell, `ls`, `exec` |
| cached FAT32 (`kernel/mfs`) | dentry, page and table caches (hash and LRU lists) | open, read, write, close, flush | `myvi`, shell |
| keyboard (`kernel/driver/ps2.c`) | ring of 32 keys, shift state | interrupt handler, `kernel_getkey` | the processor; shell, editor |
| disk, screen, clock, system calls, user programs, library | none that others read | | |

**How they interact.** There is one processor and no other concurrency than interrupts and task
switches, which only the timer interrupt makes (and `task_exit` and `wait_pid`, by hand). Handlers run
with interrupts off. The shell runs in the init task with interrupts *on*; so do `task_create`
and everything below it (identifiers, lists, `kmalloc`, the file systems). The task switch is
therefore the hard behaviour of this kernel: a tick may fall between any two instructions of
`task_create`, of the two halves of `wait_pid`, of `pid_alloc`, of `__list_add`. The other hard
behaviours are the sweep of `update_dynamic_prority`, which moves nodes between the lists it is
walking; the caches of facts kept elsewhere (`pro_map` of the lists, `is_changed`, `mmap_cache`,
the block buffers of the disk); dead tasks that stay linked until a later tick; and the numeric
edges of priorities, slices and identifiers.

**What makes each part correct.**

- *process control*: every task is on exactly one list, the one its state and priority name; the
  bitmap tells the levels with a task; the highest task runs and no task starves; nobody waits
  for a dead task; the kernel never runs out of tasks (idle is never alone when the tick needs
  another one) and never takes a list head for a task.
- *identifiers*: a bit is set exactly while a living task has the identifier.
- *lists*: they are sequences, also while `task_create` is in the middle of an insertion.
- *buddy, slab, boot memory*: blocks handed out never overlap, no page is given twice or lost, a free
  gives back what the allocation gave, and the kernel stops for want of memory only when there is none.
- *areas*: the list holds allocated areas only, `map_count` counts the allocated ones, and a look-up through
  the cache answers what the list says.
- *block caches*: a read returns what was last written to that block; no dirty block is dropped.
- *cached FAT32*: `cat` shows what was last saved, a save reaches the card before the command ends and
  changes nothing else; entries and pages that the caches keep twice agree; what is pointed to stays cached.
- *keyboard*: a key is delivered once and in order, and eventually.

## 2. Plan

Order of work, most important first. All of it is done.

1. `Queues`, `Pid`, `Sched`, `ProcessControl` with `MCProcessControl`: the process core, safety.
2. `MCFairness`: liveness of the same specification.
3. `ListOps`, `ListHead`, `ListSpec`, `SweepLoop`: the layer below, shown to implement the queues
   and the closed form of the sweep that the core uses.
4. `QueuesTheorems`, `ProcessControlProofs`: the inductive invariant of the process core.
5. `FsCache` refining an abstract disk of blocks (`BlockStore`).
6. `Bootmm` and `Buddy` as operators, composed with the slab allocator by `Memory`.
7. `Vm`: the areas of a task, the cache in front of them and the page table.
8. `Keyboard`: the ring between the handler and the reader. `MfsCache` and `Mfs`: the caches of the
   file system under the commands of the shell, refining `FileStore`.
9. `FsCacheProofs`, `KeyboardProofs`, `VmProofs`: all safety properties of the two drivers and of the areas.
10. The layers above it in `ProcessControlProofs`: the other invariants of the process core. `ListHeadProofs`: the lists and their refinement.
11. `MemoryProofs`: all safety properties of the allocators.
12. `MfsProofs`: the two invariants of the cached file system.

## 3. The modules

| module | models | how |
|---|---|---|
| `Queues` | lists as sequences | `Append` is `list_add_tail`, `Without` is `list_del`, `FirstIn` a search; no recursion, so that theorems about them can be proved |
| `Pid` | `pid.c` | `pid_map` is the set of set bits; `pid_alloc` is `NextFit` (the read) and `PidStore` (the write of the byte) |
| `Sched` | the scheduling functions of `pc.c` | pure operators on a *run queue* record (lists, priorities, slices, sleep averages, flags); one operator per C function |
| `ProcessControl` | `pc.c` | the state machine: one action per handler that runs with interrupts off, one per stretch between two possible ticks of `task_create` and `wait_pid` |
| `ListOps` | `list.h` | the operations on a memory of pointers |
| `ListHead` | `list.h` under interrupts | handlers change the lists in one step, between any two stores of `task_create`'s insertion too |
| `ListSpec` | what users of `list.h` rely on | sequences; `ListHead` refines it |
| `SweepLoop` | `update_dynamic_prority` and `update_sleep_avg` | the loops with their variables `i`, `num`, `temp`, on lists in memory |
| `BlockStore` | what the file system relies on | blocks that only a successful write changes |
| `FsCache` | `fscache.c` in both sizes, with the transfers of `sd.c` | `Victim` and `Swept` are the two sweeps in closed form; `FsRead` and `WriteBack` return the set of outcomes a request can have; requests are those of `fat.c` on the buffers of one file |
| `Bootmm` | `bootmm.c` | the map of pages and the array of ranges; each C function an operator on the record of both |
| `Buddy` | `buddy.c` | the free lists and the flag and level of each struct page; `FreePages` gives the loop of merges in closed form, `AllocPages` the loop of cuts |
| `Memory` | `slab.c`, composed with the two | the state machine from boot through `init_buddy` to `kmalloc` and `kfree` |
| `Vm` | `vm.c`, `tlb_refill` of `exc.c` | the list of areas as pointers between pages that `kmalloc` hands out again; one action per call |
| `Keyboard` | `ps2.c` | the handler is one step (interrupts are off in it), `kernel_getkey` and `init_buffer` one step per access to the ring |
| `FileStore` | what `cat` and the editor promise | files that only a save changes |
| `MfsCache` | `fat32cache.c` | the entry cache and the page cache as lists by last use, and the card behind them |
| `Mfs` | `fat32.c`, `utils.c`, `dir.c`, `usr.c` of `kernel/mfs`, load and save of `myvi.c` | one action per command of the shell, which is the only task that uses the file system |
| `MC...` | | values for TLC |
| `...Theorems`, `...Proofs` | | lemmas and theorems for TLAPS |

**State.** A task is the address of its `task_struct`. `rq.sched[i]` is `sched[i]`, the last one
holding idle and init; `rq.dyn`, `rq.counter`, `rq.sleep`, `rq.changed` are the fields of the
structures; `pro_map` is the set of levels whose bit is set. `state` holds the constants of `pc.h`
or, as in the code, minus the awaited pid. `halted` records the `while(1)` loops of the kernel and
the switch to a task computed from an empty list. `shell` is the program counter of the init task
in a command: its point, the new task, and the byte it has read but not yet written back.

**Actions.** `TickRunsOn`, `TickSliceEnds`, `TickIdle` are `pc_schedule`; `TaskExit` is `task_exit` with
`wakeup_parent`; `PcKill` is `pc_kill`; `CreateStart` to `CreateReadies` are `exec_kernel` and
`task_create`, `WaitCheck`, `WaitSleeps`, `WaitReturns` are `wait_pid`. Guards are the
early returns of the code; every call a handler makes is in its action. The two arms of an
action that differ only in data (a woken parent or none) are one action.

**Parameters that are not the code's.** `Preemptible` is the set of points of a command at which a
tick may fall; the code allows all of them, and each configuration names those it looks at.
`KillStale` says whether the shell may kill a pid whose first `task_struct` on `tasks` is
dead; the code allows it. `SleepBound` bounds the
sleep averages: a step that would leave the bound is not taken. At most one tick falls into one
command (`hit`, the point it fell at): two ticks are 10,000,000 counts apart (`pc.c:132`), far more than a command.

**Left out.** Register contents (`copy_context`, `switch_ex.s`), names, times, printing, the page
table fields; `fork` of user processes does not exist. A `task_struct` that was unlinked is leaked by the code;
its address is reused in the model because nothing refers to it any more. `kmalloc` may always fail.
The first task is `init` with pid 1: the model starts when interrupts are enabled.

**Memory.** `bmm` is the boot allocator, `buddy` the buddy allocator with the struct pages, `cpu` the page each
slab cache took last, `held` what the callers hold, with the number of pages they asked for (a history
variable, by which `LevelKept` and `Conserved` are stated). All calls of the boot allocator ask for an alignment of one page. `kmalloc`
takes a new page for every object: `slabp` is always zero when it is looked at, no page is ever put on `partial`, and
`kfree` never sees the flag of the slab, so that `slab_free` is not reached. `MergesInUse` says
whether `kfree` may come to merge with a page that is in use (the code allows it, see `page_reuse`); without it
one can check what else holds. Requests of 1537 to 2048 bytes, for which `get_slab` finds no cache and `kmalloc` stops the
kernel (`slab.c:245`), are in `Kmalloc` but not among the `Requests` of the runs. What is taken before `init_buddy` is a
multiple of the largest block, as it is in the build (pages 0 to 4319 of blocks of 16); with other
amounts `KernelEndPfn`, which is the last page taken and not the first free one, would let `init_buddy` take over a page of the
boot allocator when that page begins a block (`buddy.c:69`).

**Areas.** `owner` says what each page is used for, `area` what was last stored in it, even after it was freed:
`mmap_cache` may point there. `table` and `pte` are the page table; of an address only the bit of the page in a pair matters, because
`tlb_refill` always comes to the first entry of the directory. `MmDelete` frees what
that entry maps and halts: the loop over the directory does not get past an empty entry (`vm.c:55`). In the build
`current_task->mm` stays 0 and `do_mmap` and `do_unmap` have no caller: the module is about the calls `vm.h` offers, in any order.

**Lists.** A handler is one step and may come between any two stores of the insertion, but touches no task that the insertion has not linked
yet (`Private`). `raced` (history) says that an insertion has lost its race: `list_add_tail` reads `head->prev` first, and a handler that takes the last node
of that list, or adds one at its end, makes the node it has read a wrong one. The properties of `lists` are about all behaviours up to
there; what is lost then `MCInsertionRace` shows.

**Keyboard.** A key is numbered by its place among the codes sent; `sending`, `acks`, `sent` and `makes` are
the device, `hit` (history) the keys that were unread when the reader began a reset or came while it lasted: those may be lost, or come late. A
key that comes before the reset has set `buffer_wptr` does more: it moves that index, or stays in a slot behind the reader, and after the reset the handler
and the reader are at different slots. Later keys are then ready but wait behind an empty slot until the ring is full up to the reader or the next reset
takes them (`apart`, history; `KeyAnswered` says nothing of those). The device sends no key that finds the ring full (`Room`): the handler does not check.

**Files.** `cache` holds the card, the pages and the entries; `fat` is the table in memory and `Fat0` the one on the card,
since no table is ever written back (`tcache_add` does not count, `fat32cache.c:241`). A directory is its first sector, as
`get_dentry` never sees another. `Defined` keeps to absolute paths that start from a `root_dentry` that is still
cached; with a freed one the code reads whatever is there. `cat`, `cd` and the saves compare the names of entries with those of the path (`Walk`), and
no path has the name of the root entry, which the code leaves uninitialised like its size; its first byte is taken not to be the mark of the end. `ls`
compares no names: it fetches every entry up to the end mark (`ListEntry`) and drops others for them. The write of a dropped page is taken to succeed
(`pcache_drop` does not look at the result, `fat32cache.c:298`). Where the second store of `update_dentry` goes, `offset * 32` entries behind the page's start
(`fat32cache.h:18`), is left out: it is behind the first sector of the directory or behind the page. Not in the model: `..` in a directory of the root (its
entry names cluster 0), files the editor creates (it writes through an entry that was never found), the copy of the path
in the `FILE` (not used), `ls` of a path (`dir.c:24` uses an uninitialised pointer), clusters
beyond 127 (`get_next_clu_num` reads one sector, `utils.c:128`).

## 4. The runs

| run | instance | shows |
|---|---|---|
| `processes` | 2 levels, 4 pids, idle, init and 2 tasks, ticks at five points of `task_create`, before `wait_pid` and between its search and its sleep | the 12 invariants of `ProcessControl` |
| `fairness` | 3 levels, two tasks, any start levels | `NoStarvation`, `WaitEnds` |
| `sweep` | 3 tasks on 3 levels in every order, three sleep averages | the loops end, never treat a list head as a task, and compute `UpdateDynamicPrority` |
| `lists` | 2 lists, 4 nodes, handlers that change them between any two stores of an insertion, up to a lost race | lists are well formed and refine `ListSpec`; walks end even between two stores |
| `blocks` | 2 buffers, 3 clusters of 2 sectors, writes that fail at any sector | `FsCache` implements `BlockStore`; a successful close is durable; replacement keeps changes |
| `memory` | 16 pages, 4 of them the kernel's, blocks up to 4 pages, up to 3 allocations of 1 or 2 pages held | the two allocators and `kmalloc` give no page twice and lose none |
| `areas` | 4 pages, 16 addresses, pages of 2 addresses, 4 places and 2 lengths | list, count and cache of the areas agree |
| `keyboard` | a ring of 3 slots, 4 codes with or without the prefix of a release | keys are returned once, in order and eventually, apart from those a reset meets or leaves behind an empty slot |
| `files` | caches of 3 entries and 3 pages, in the root a file and one without a cluster, a file of two clusters in a directory, texts of 1 and 2 bytes in clusters of 3 | `Mfs` implements `FileStore`; entries are fresh; the working directory stays cached |
| `kill_reuse` | no tick in a command | **violated**: a kill hits the dead task of that pid |
| `page_reuse` | as `memory`, with `MergesInUse` | **violated**: a `kfree` makes a page free that another caller holds |
| `root_dropped` | as `files` | **violated**: a flush after a `cd` frees the entry `root_dentry` points to |

The three violated properties state what a comment of the code says (quoted in `PROJECT.json`).

*Other disagreements.* The models show more of them. Each has a configuration of its own, with which TLC finds the property violated within seconds
(`tlc -config MCWaitOther.cfg MCProcessControl`):

| configuration, module | property | what TLC finds |
|---|---|---|
| `MCInsertionRace`, `MCListHead` | `InsertionLasts` | a handler at the end of the list between two stores of `list_add_tail` (`pc.c:236`) loses the inserted task |
| `MCWaitOvertaken`, `MCProcessControl` | `WakeupsPend` | the child exits in a tick between the search and the sleep of `wait_pid` (`pc.c:969`): the shell waits for a dead task |
| `MCWaitOther`, `MCProcessControl` | `WaitsForItsChild` | `execk2` returns when any other child exits (`pc.c:935`) |
| `MCBitRace`, `MCProcessControl` | `BitHasTask` | what a tick inside `pro_map[..] \|= ..` did is undone (`pc.c:239`): the bit of an empty level comes back and the list head is run |
| `MCStaleArea`, `MCVm` | `InVmaIsMapped` | `mmap_cache` points to a freed area and `is_in_vma` still finds it (`vm.c:331`) |
| `MCClearedCluster`, `MCFsCache` | `ClearedIsHeld` | `fs_clr_4k` enters the buffer under a number that is never looked up (`fscache.c:107`) |
| `MCSingleSector`, `MCFsCache` | `ClosedIsOnDisk` | with clusters of one sector a failed transfer is taken for success (`sd.c:120`) |
| `MCLongSave`, `MCMfs` | `ImplementsFiles` | a text of a whole cluster overwrites its own first cluster, the write loop never moves on (`fat32.c:348`) |
| `MCEmptyFile`, `MCMfs` | `StartsAgree` | the first cluster of an empty file is entered in the cached entry and not in the directory (`fat32cache.h:18`) |

Each passing run is on the same system, with its properties restricted to what the race or the fault leaves: `WaitsForTheLiving` excuses the sleep that a tick
has overtaken and nothing else, the properties of `lists` end with the lost race, `DentriesFresh` lets the first cluster of an empty file differ, and
`ImplementsFiles` says of a command on such a file that no other file changes. The two points at which run `processes` has no tick are
those inside the updates of the bitmap (`MCBitRace`) and of the map of identifiers (they leak: `PidsOwned` fails).

*Properties of `processes`.* `ListedOnce`: the node `sched` is on one list, the one its state
names. `OnOwnLevel`, `ProMapExact`, `NoFrozenPriority`, `FullSlice`: the facts
kept in two places agree. `HighestRuns`: the claim at `pc.c:438`. `NeverHalts`: none of the
`while(1)`s is reached. `PidsOwned`, `WaitsForTheLiving`, `ShellShownRunning`, `UnannouncedNotRun` relate identifiers,
waiters, the output of `ps` and half-created tasks to the rest. `WaitsForTheLiving` is `WakeupsPend` except after a tick at `pc.c:969`; the rest holds in spite of
one, but for `NeverHalts`, as a shell that sleeps for nobody leaves idle alone.

*Properties of `blocks`.* `ImplementsStore` is the refinement: wherever contents are, in a buffer, on the card or
half written back, a block reads as what was last written to it. `NoAliases` and `CleanIsOnDisk` are
why: one buffer per block, and one that may be dropped is on the card. `ClosedIsOnDisk` is durability,
`DirtyEvictedLast` the second chance. What the run leaves out: transfers that fail while *reading*
(`Fails = {"write"}` only). With them a cluster's buffer can hold sectors of two clusters under the old
number (`fscache.c:81`), and neither `CleanIsOnDisk` nor `ImplementsStore` holds; TLC shows it in a second with
`Fails = {"read"}`. The partition starts at sector 1 and clusters have two sectors, so that a number without
the base address is no cluster's address; with an aligned partition the buffer that `fs_clr_4k` enters under
the wrong number would be found for another cluster (hazard `fscache.c:107`).

*Properties of `memory`.* `Conserved` is the allocator: every page in exactly one block, free or held. `FreeListsExact`
and `LevelKept` are why: lists and struct pages agree, and the level a `kfree` finds is the one `kmalloc` used. `BootRangesExact` and
`BuddyBeyondBoot` are the hand-over from the boot allocator, whose two records must agree for it. `HaltsOnlyWhenFull`:
no free block is overlooked.

*Properties of `areas`.* `IsInVmaExact` says the look-up is right whenever `mmap_cache` is not stale, though areas may overlap
and an insertion before the first drops the others from the list; `CountExact` counts those dropped ones, too (it is what
`exit_map` would find missing). `ListIsLive` is memory safety: no freed area on the list.

*Properties of `keyboard`.* The reset of the ring (`ps2.c:208`) is not masked. `FromTheKeyboard` says that it never makes a key be returned twice or
invented, `InOrder` that keys it does not meet keep their order, `KeyAnswered` that a key is returned unless a reset meets it or the last one left the
indices apart: while no key comes into a reset, none is lost but those it finds unread.

*Properties of `files`.* `ImplementsFiles` reads the files from the *card alone*, after each command: no page may be dropped unwritten, no
command may leave a change in the cache. `DentriesFresh` compares an entry with its page, which are evicted
independently, and may differ in the first cluster of a file that had none only; `PwdPinned` is what makes relative paths work.

*Why the bounds are enough.* Two tasks beside idle and init make every case of the sweep, of the
requeueing and of the search arise (same level, other level, alone, none); two levels make the
clamps at both ends and the bitmap scan arise, three (`fairness`, `sweep`) also a level in between; four identifiers make
the search wrap and fail. Two buffers for three clusters make every case of the replacement arise (free, clean, dirty, all dirty), two sectors a torn transfer. Two managed blocks of the
largest size and up to three allocations make every merge and cut arise, memory run out, and the merge of a merge; boot requests of one and two
blocks of two types extend ranges and add new ones. Four pages make an area fall out of the list, a freed area's page be
taken again as a frame or a new area, and `kmalloc` fail; 16 addresses let sums wrap. A ring of three slots meets its reset
with four codes at every point of it, unread keys included. Caches of three evict in the middle of each walk and of each read of two clusters. `SleepBound` 4 with two levels moves a task by two levels, more than
there are; in `fairness` the bound 10 is never met on a path that an obligation depends on: a task is raised to the top
level before its average reaches it. The sizes the proofs are about are arbitrary.

*Deadlock* is checked where the system cannot stop (`lists`, `blocks`, `files`). In the others the sleep bound, the end of the
loop, the last key, or a kernel that halted end behaviours.

*Fairness.* `WF(Tick)`: the timer is pending until it is taken, and nothing masks it for ever.
`SF(CommandStep)`: init continues with its command whenever it has the processor; it is switched away
again and again, hence strong. `SF` of the exit of the awaited task: `kernel_proc` counts
to its end when it keeps being scheduled (`pc.c:794`). Nothing is assumed of the other task, which may loop for ever as the task
named `loop` does (`pc.c:787`); that no fairness keeps it from being preempted is the point. In `keyboard`, `WF(Reader)`: `kernel_getchar` calls `kernel_getkey` in a loop, and
the handler, which returns, does not disable a step of it for ever. Nothing is assumed of the keyboard.

## 5. What is proved

TLAPS checks, for every number of levels, identifiers and tasks, every set `Preemptible` and both values
of `KillStale` (that is, with a tick anywhere in a command), but for the condition in the second column:

| theorem | if | says |
|---|---|---|
| `ProcessControlProofs!Invariant` | | `Spec => []Inv` |
| `TypeCorrect` | | `Spec => []TypeOK` |
| `TasksOnTheirLevel` | | `Spec => []OnOwnLevel` |
| `SlicesNeverWrap` | | `Spec => []FullSlice` |
| `FlagsAlwaysCleared` | | `Spec => []NoFrozenPriority` |
| `NextFitIsFree` | | the search of `pid_alloc` finds a free identifier if there is one |
| `TasksInvariant` | | `Spec => [](Inv /\ TasksInv)` |
| `TasksListedOnce` | | `Spec => []ListedOnce` |
| `OnlyShellShownRunning` | | `Spec => []ShellShownRunning` |
| `PidsLosslessUnshared` | no tick in `pid_alloc`, no stale kill | `Spec => []PidsOwned` |
| `MapInvariant` | no tick in `add_pro_map` | `Spec => [](Inv /\ TasksInv /\ MapInv)` |
| `BitmapExact` | the same | `Spec => []ProMapExact` |
| `HighestPriorityRuns` | the same | `Spec => []HighestRuns` |
| `HalfCreatedNeverRuns` | the same | `Spec => []UnannouncedNotRun` |
| `ShellWaitsForTheLiving` | | `Spec => []WaitsForTheLiving` |
| `KernelNeverHalts` | no tick in `add_pro_map` | `Spec => []NeverHalts` |

The conditions (`"pid"`, `"store"` not in `Preemptible`, `~KillStale`) are no assumption about the code, which allows
all of it: they say which of its races break which property. They are sharp: with the point in `Preemptible`, TLC finds the property violated
on the instance of run `processes` (for `"store"` with `PRORITY_NUM = 3`). A tick at the window of `wait_pid` needs no condition: `WaitsForTheLiving` and
`NeverHalts` themselves say what it breaks, while the shell sleeps for what was true before it.

For every number of list heads and nodes, with handlers that change the lists between any two stores of an insertion:

| theorem | says |
|---|---|
| `ListHeadProofs!ListsWellFormed` | `Spec => []WellFormed` |
| `ListsAlwaysWalkable` | `Spec => []AlwaysWalkable`: those that walk or change the lists may come at any time |
| `ListsImplemented` | `Spec => ImplementsLists`, the refinement of `ListSpec` |

All three are about behaviours up to a lost race (`raced`), each insertion of which takes effect; `MCInsertionRace` is about what comes after.

for every number of buffers, blocks and sectors:

| theorem | says |
|---|---|
| `FsCacheProofs!CacheTypeCorrect` | `Spec => []TypeOK` |
| `OneBufferPerBlock` | `Spec => []NoAliases` |
| `DirtyGoesLast` | `Spec => DirtyEvictedLast`, an action property |
| `CleanMatchesCard` | `Reliable`: `Spec => []CleanIsOnDisk` |
| `CloseWritesAll` | `Reliable`: `Spec => []ClosedIsOnDisk` |
| `CacheImplementsStore` | `Reliable`: `Spec => ImplementsStore`, the refinement of `BlockStore` |

for every number of pages, addresses and sizes of a page:

| theorem | says |
|---|---|
| `VmProofs!AreasOrdered` | `Spec => []VmInv` |
| `ListStaysLive` | `Spec => []ListIsLive` |
| `CountStaysExact` | `Spec => []CountExact` |
| `IsInVmaStaysExact` | `Spec => []IsInVmaExact` |

for every number of pages of the machine and the kernel, every largest block and all sizes asked for:

| theorem | if | says |
|---|---|---|
| `MemoryProofs!MemoryInvariant` | `InUseSpared` | `Spec => []MemoryInv` |
| `ConservedAlways` | the same | `Spec => []Conserved` |
| `FreeListsExactAlways` | the same | `Spec => []FreeListsExact` |
| `LevelKeptAlways` | the same | `Spec => []LevelKept` |
| `HeldNotFreeAlways` | `WholePagesOnly` | `Spec => []HeldNotFree` |
| `HaltsOnlyWhenFullAlways` | the same, `EverySizeServed` | `Spec => []HaltsOnlyWhenFull` |
| `BootRangesExactAlways` | | `[]BootRangesExact`, while the array of ranges is not full |
| `BuddyBeyondBootAlways` | `WholeBlocks` | `[]BuddyBeyondBoot`, while the array is not full |

`WholePagesOnly`: what is asked for is more than 2048 bytes, that is, whole pages and no object of a slab; then every flag is one that `__free_pages` reads rightly, and that
`kfree` merges no page in use is proved. For an object of a slab the code does not keep it (run `page_reuse`), and the other theorems
are about the behaviours in which it does not happen: `InUseSpared` is `WholePagesOnly`, or `MergesInUse = FALSE`, by which `kfree` comes to merge no page that is in use. `EverySizeServed`: no size above 1536 and up to 2048 bytes, for which `get_slab` finds nothing. `WholeBlocks`: what is taken before
`init_buddy` is a multiple of the largest block, of two pages or more, as in the build. Without any one of them, or with a full array, TLC refutes the
property on a variant of run `memory` (for the first two run `page_reuse`).

for caches of any size from two on, every card, table, unit of clusters, and all paths and texts that `Layout` allows:

| theorem | if | says |
|---|---|---|
| `MfsProofs!MfsInvariant` | `Layout` | `Spec => []MfsInv` |
| `DentriesFreshAlways` | the same | `Spec => []DentriesFresh` |
| `PwdPinnedAlways` | the same | `Spec => []PwdPinned` |

`Layout`: directories are finite lists of entries, an entry whose name is in a path is a directory of `Dirs` or a file, empty or not, whose first cluster is no
directory's, and the table has no directory's cluster free. The card of run `files` is of this kind (`LayoutAssumption` in `MCMfs` checks it).

and for every size of the keyboard's ring, all prefixes and any bound on the codes:

| theorem | says |
|---|---|
| `KeyboardProofs!ReturnsPressedKeysOnce` | `Spec => []FromTheKeyboard` |
| `KeysInOrder` | `Spec => []InOrder` |

The assumptions are the `ASSUME`s of the modules: at least one level, two identifiers, finite sets of addresses; list heads that
are no nodes; sectors numbered from 1, at least one buffer; at least two slots. `Reliable`, of the last three theorems on the cache, says more: only writes fail
(a failed read leaves sectors of the new block in a buffer that keeps the old number, `fscache.c:81`), a failure is reported (that of a
single sector is not, `sd.c:120`), and the number under which `fs_clr_4k` enters its zeros is no other block's
address. Run `blocks` has such a card. The first three need none of this.

*The process core.* None of the invariants is inductive alone. `OnOwnLevel` needs that a task_struct
`task_create` fills in is not on the run queue; `FullSlice` needs that the running task is idle, init or on
the queue it is accounted to; `NoFrozenPriority` needs that every flagged task is on the list `tasks` that
`update_is_changed` walks, hence that every queued task is. `Inv` is the conjunction: `IdleInv` (what
the idle list looks like, depending on whether init waits), `CurrentInv` (where the running task is),
`QueueInv` (a queued task is linked and not about to be unlinked),
`PidInv` (idle and init keep their identifiers) and `CreateInv` (what holds of the
task being created at each point of `task_create`). There is one lemma per action; `QueuesTheorems` and the first part of `ProcessControlProofs` say what the queue operators and
the scheduling functions preserve, `SweepIsSound` being the main one: the sweep of `update_dynamic_prority` permutes the queued
tasks over the levels and leaves the running one in place.

Above it lie four layers, each inductive with those below it. `TasksInv` ties state and list together: which states the tasks
on each list have, that no list holds a task twice, that init runs the shell exactly while it is its turn. It needs no condition, and
`ListedOnce` and `ShellShownRunning` follow. `PidsInv` says that the set bits are the pids of the tasks that are not dead, no two the same, plus
the one `task_create` has taken and not yet given out. `MapInv` says that a bit is set exactly for a level with a task, and who may
run while init is preempted: a task that was queued since then is on a lower level, or waits for its bit. `WaitInv` says that the awaited task
lives, or else that a tick has overtaken `wait_pid`, and with `MapInv` that idle otherwise always finds a task. Each layer was model-checked before it was proved, with and without its condition.

*The lists.* The invariant is about `Walks`, what a `list_for_each` from each head yields. `Spot` numbers the places of a ring, the head being
the one before the first and after the last; `Forward` and `Backward` say that the pointers lead from each place to the next and back. A node between
two places moves those behind it by one (`InsertIntoRing`), a removed one moves them back (`DeleteFromRing`), whatever its own pointers are then;
the operations of `list.h` are made of these two, as a move is `__list_del` and `__list_add` without a reset between them. Half an insertion is
no third kind of state: before the third store the memory holds the old lists and a node that is on none, after it the new ones,
but for the back pointer of the head, and `LastStore` is whole. A handler that comes in between works on one of these: it reads no pointer that is still to be stored, and the two nodes the
insertion has in hand (`Spared`) stay neighbours at the end of the list unless it loses its race, which is just what `Races` says. That a walk yields the sequence (`WalkIs`) needs that the ring is no longer
than the memory has nodes, which bounds `Walk`. `WithoutIsDeleted` connects the pointers to the `Without` that the process core uses.

*The cache.* `Sound` (well formed buffers, no address in two of them, only a buffer in use is dirty) is
inductive for every outcome of a transfer: `fs_read` enters a block only when no buffer holds it, `fs_clr_4k` only a
number that none does. `Synced`, that a clean buffer has what the card has, is inductive with `Sound`: a torn write leaves
the buffer dirty only if it is noticed. The refinement maps block `b` to `ContentOf(buf, disk, b)`, its buffer's or
else the card's; the lemmas say that a write-back (`WriteBackContent`), the replacement (`RoomContent`), the entry of a loaded block
(`EnteredContent`) and a whole `fs_read` (`FsReadContent`) keep every content, `MarkedContent` that a write changes one.

*The allocators.* The code knows flags, levels and lists; the properties speak of pages. Between them stands `BuddyInv`: the blocks, those on a free list
and those held, are aligned, have no page in common and cover the allocator (`Tiles`), and lists and struct pages agree on them. A cut replaces a block
by its parts (`SplitTiles`), a merge several blocks by one (`MergeTiles`), each time of the same pages (`PartsCover`, `MergedCover`: counted up level by
level, as a block and its buddy are the halves of the next). A merge takes in what the flag and the level of the buddy say is free;
that the buddy *is* a block of that level follows from the blocks being apart and aligned (`BuddyTile`), that it is a free one only if it is not held, and
this is where `InUseSpared` comes in. `init_buddy` starts from struct pages without a block and frees them one by one: `Fresh` says that after each page the blocks cover the
pages so far, none of which merges, as every flag is still that of a reserved page. `BootInv` says that the ranges of the boot allocator follow one another up to the last
page allocated, which is why `kernel_end_pfn`, the largest end, is that page, and rounding it up as if it were free (`buddy.c:69`) is right
only when the next page begins a block (`RoundedUp`).

*The cached file system.* The commands see a cluster through its page, or else through the card (`Content`). `CacheOk` says that no cluster is in two pages and
a clean page of a directory has what the card has (`PagesOk`), that the directories are those the system started with but for the sizes of files (`ContentsOk`), and
that each entry is the root's or agrees with its place in its directory (`Fresh`: but for the first cluster of an empty file), the spinned one being that of `pwd` (`DentsOk`). Every drop and load keeps all contents
(`DropPageKeeps`, `GetPageKeeps`) and the entry of `pwd` (`DropDentryKeeps`, which needs two places in the cache); a save sets the size in the entry and
in the page alike (`UpdateSizeKeeps`), the first cluster of an empty file in the entry alone (`UpdateStartKeeps`), and writes to the clusters of files only, or to one the
table has free, which is no directory's (`FatOk`, `FreeCluIsFree`). A save looks its path up twice, with a read and a flush in between: that both find
the same entry (`FindsAlike`) follows from each walk stopping where the card says, whatever is cached (`ExamineFinds`, `WalksAlike`). `Repeat` stands for the
loops; what every turn keeps they keep (`RepeatKeeps`), counted up as below.

*The areas.* `VmInv` says that a loop from `mmap` meets distinct allocated areas in the order of their starts and then ends, that
`map_count` is the number of all allocated areas, and what `mmap_cache` may be. The order is what `IsInVmaExact`
needs: `find_vma` stops at the first area that ends behind the address, and only because no later one begins before that one does `is_in_vma`
lose nothing when areas overlap.

*The keyboard.* `OnceInv` says where a key can be: in one slot that is ready, in `temp`, or returned; the handler may
overwrite the slot the reader is at between any two of its steps. For `InOrder` the two indices matter:
`BeforeWrap` holds until the handler has reached the end of the ring, `AfterWrap` from then to the reset, when the slots ahead of the reader
and those behind the handler's index are all ready, so that a handler with room never gets past the reader. After a reset that
keys came into, the handler may be ahead of or behind the reader: both are covered, as those keys are in `hit`.

*Only model-checked*: liveness (out of the prover's reach); `SweepLoop`, which compares loops that move nodes between lists with a closed form; that `Mfs` implements
`FileStore`, for which the bytes of whole files would have to be followed through the chains of the table. What a fold or a recursive function computes for every
input takes an induction that TLAPS has no rule for here; the proofs about `Walk`, the blocks, the areas and the loops of `Mfs` get round it
by counting up in a finite range (`QueuesTheorems!CountUp`, `MfsProofs!RepeatKeeps`).

## 6. Not modelled

- *FAT above its buffers* (`kernel/fs/fat`): `init_fs` has no caller in the build, the shell uses `kernel/mfs`; the
  requests `fs_read`, `fs_write` and `fs_close` make to the buffers are in `FsCache`.
- *The lock*: `lockup` makes nobody wait (it sets `spin` and turns interrupts on again before the critical section), and one
  task at a time allocates.
- *Code without a caller*: `bootmm_free_pages` and the splitting of ranges, `slab_free`, `vma_merge`, `find_vma_intersection`,
  the areas' AVL tree; in `mm_delete`, what follows the loop that does not end.
- *The editor's text and the command line*: sequential code on one buffer (`myvi.c`, `ps.c`); loading and saving are in `Mfs`.
- *Creation and seeking of files* in `kernel/mfs`.
- *Disk registers, screen, clock, system calls, library*: no state another part depends on; `kernel/pc/page.c` is not built.
