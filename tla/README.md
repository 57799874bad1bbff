# A TLA+ model of emu68-common

emu68-common is the support library of the Emu68 AmigaOS drivers: C and 68k
assembly, linked into drivers that run as tasks under exec, share memory with
DMA engines and may be interrupted at any instruction.  This directory holds
TLA+ modules of its components, TLC instances of them (`MC*.tla`, `*.cfg`) and
TLAPS proofs (`*Proofs.tla`).  `PROJECT.json` lists components, runs, mutants,
the lines each definition translates, hazards, findings and theorems.

## The system

| Component | State | Operations | What is hard |
|---|---|---|---|
| `drv_waitq` | waiter list, open timer, caller's lock; per wait a port, a signal bit, a timerequest on the stack | init, cleanup, wait_event, wake_up_all | wake-ups between unlock and sleep; timeout against wake-up; lifetime of stack objects and signal bits |
| `drv_timer` | a request, its port, the port's signal bit | open, close, sleep, arm, consume, cancel, wait | a late reply leaves a bit behind; a cancel races the reply |
| `driver_task` | worker, its slot, three memory blocks, two shared signal bits | spawn, join, unit_msgport_init, exit | one pair of signals for everything; a poll under Forbid(); code unloaded while the task ends |
| `reset_guard` | patched ColdReboot vector, keyboard handler, rg_Prepared | install, remove, handler, reboot entry | an interrupt in the middle of anything; patches removed in another order |
| `hw_claim` | a named public semaphore whose name is in the claim | take, release | find-and-add must be atomic; the name is the only record of ownership |
| `dma_mem` discovery | windows, region table | init, addr_reachable | 32/64-bit wraps, table limits |
| `dma_mem` pool | puddles, exec's memory headers, two words per buffer | create, delete, shrink, alloc, zalloc, free | concurrent growth, failure half way, cache lines shared with a neighbour |
| `devtree` | none (walks over nodes and properties); keys opened | dt_map, base address, DMA address, DMA window, alias, symbol, range, phandle, interrupt, capability probe | records at the end of the address space, cell counts, a recursive search, keys left open |
| slab cache | free list threaded through the objects | init, destroy, grow, alloc, zalloc, free | links overwritten by objects; slabs of one object |
| `memmove`, `memcpy`, `memset` | registers, memory | the calls | overlap, block limits, the overlapping last long |
| prefs | the open file, the line | open, next, close, split, number, bool | line edges, the extremes of a LONG |
| `textfmt`, `textutil`, `memcmp` | the format's place, the arguments, the buffer | format, copy, compare, atoi | buffer limits, widths, LONG_MIN, unknown conversions |
| `cache_ops` | cache lines against RAM, operations not complete yet | pre_dma, post_dma, by direction, build and batch pattern | prefetch and eviction in the middle of a transfer; lines shared with a neighbour |
| `bcm_gpio` | registers with a field per pin | set pull, set alternate, set level | read-modify-write without a lock |
| `perf` | three counters per slot, the lock profiler's clock | add, lock obtain and release, report | a report in the middle of a sample |
| debug, headers, tools, build | - | - | not modelled, see below |

How they interact: `driver_task` uses a `drv_timer` to pace its join (in the
model: a sleep that lets the others run); `drv_waitq` keeps its own timer and
one request per wait; the slab cache takes its data from an exec pool or from a
`dma_pool`, whose memory comes from the headers that `dma_mem_init()` found
through `devtree`; `cache_ops` works on buffers that `dma_alloc()` laid out; the
pins of `bcm_gpio` belong to hardware claimed by `hw_claim`; `prefs` compares
with `textutil`.  Exec, timer.device, keyboard.device, dos.library,
devicetree.resource, the cache and the devices are external.  Each module
states in its header what it takes of them.

## Modules

| Module | Models | Run |
|---|---|---|
| `WaitQ`, `WaitQAbs` | `src/drv_waitq.c`; the condition variable it implements | `waiting` |
| `HwClaim`, `BcmGpio` | `src/hw_claim.c`; `src/bcm_gpio.c`, by drivers that hold a claim | `shared` |
| `DrvTimer` | `src/drv_timer.c` | `waiting` |
| `DriverTask` | `src/driver_task.c` | `drivertask`, `drivertask_returns`, `drivertask_crossed` |
| `ResetGuard` | `src/reset_guard.c` | `resetguard`, `resetguard_halfdone` |
| `DmaLayout`, `DmaPool` | `dma_alloc()`'s arithmetic in `include/dma_mem.h`; the pool in `src/dma_mem.c` | `shared` |
| `DmaLayout`, `CacheOps` | `include/cache_ops.h` on buffers of that layout, with a cache and a device | `cacheops` |
| `DtCells`, `DtMap`, `DtNodes`, `DmaMem` | `DT_GetNumber()`; `dt_map()` and its callers; the node lookup and `include/emu68_features.h`; `dma_mem_init()` and `dma_addr_reachable()` | `devtree` |
| `DmaLayout`, `Slab` | `src/slab.c`, `include/slab.h` | `slab` |
| `LibCall`, `Prefs`, `TextUtil`, `TextFmt`, `Memory`, `Library` | what runs in its caller and shares nothing: `src/prefs_file.c` and `src/prefs.c`; `src/textutil.c` and `memcmp()`; `src/textfmt.c`; the three `*_movem.S`; a task that makes one such call | `library` |
| `Perf` | `perf_add()`, lock_prof and `perf_report()` of `include/perf.h` and `src/perf.c` | `perf_torn` |

An action is one call into exec, or a stretch of code that nothing can
interleave with (under Forbid() or Disable(), or on private data); in `Perf` it
is one instruction on a counter.  `pc` says which one a task does next;
variables carry the names of the C fields where they have them.  Operators with
an underscore and a capital (`WakeOne_First`) are faulty versions of the
definition below them; they are in no specification and show that a property
can fail.

Compositions: `BcmGpio` extends `HwClaim` (a task touches pins only between a
take that succeeded and the release); `CacheOps` extends `DmaLayout`, so that
the buffers are those `dma_alloc()` makes and the neighbour lies where the next
block would; `DmaMem` runs on `DtNodes` and `DtMap`, sharing their notion of a
call on the tree; `Library` lets a task choose one of the calls.

The proofs are in modules of their own: `DriverProofs` (of `WaitQ`, `HwClaim`
and `BcmGpio`, `DrvTimer`, `DriverTask`: small modules that one module extends,
which is why the names of the first three carry a prefix), `ResetGuardProofs`,
`DevTreeProofs`, `LibraryProofs`, `DmaLayoutProofs`, and, on the latter,
`DmaPoolProofs`, `CacheOpsProofs` and `SlabProofs`.

## Runs

The runs whose property is marked "violated" show a disagreement each between the
code and what is said of it; all others pass.

| Run | Instance | Distinct states | Properties |
|---|---|---|---|
| `waiting` | 3 tasks, each waits and wakes; or a timer, with times up to 3 ms and a second of 2 ms | 28616 | `NoLostWakeup`, `FreedBitClean`, `RequestOnLiveStack`, `CollectNeverBlocks`, `TruthfulReturn`, `AbsSpec`; `TickIsCompleted`, `TimeoutMeansElapsed`, `TimerCallsReturn` |
| `drivertask` | 2 parents, 2 units, breaks at any time | 253990 | `ReturnsTruthful`, `ClosedLeavesNothing`, `OnlyTheseMislead` |
| `drivertask_returns` | the same without breaks | 183681 | `CallsReturn` |
| `drivertask_crossed` | the same | - | `SpawnTruthful` (violated) |
| `resetguard` | 2 guards, 1 foreign patch, both resets | 241044 | `PrepareOnce`, `QuiescedAtReset`, `ChainSound`, `WholeOrNothing`, `RebootCompletes` |
| `resetguard_halfdone` | the same | - | `DoneAfterPrepare` (violated) |
| `shared` | 2 tasks, 2 regions, 3 kinds of request, 3 blocks; or 3 claims, 2 names, pins in different registers | 84324 | `OwnsItsLines`, `BookkeepingSurvives`, `Conservation`; `OneHolder`, `NameTellsListed`, `PinsKept` |
| `cacheops` | 2 buffers and a neighbour, 2 values, both builds, both batch patterns | 1726464 | `CpuSeesDevice`, `DeviceSeesCpu`, `NeighbourKept` |
| `devtree` | records of every cell mix at the limits, trees of four nodes, every /memory property of up to 4 cells | 529335 | `MapExact`, `WindowIsRecord`, `LookupExact`, `RegionsExact`, `ReachableExact` |
| `slab` | 6 configurations, up to 2 slabs, the second area below the first | 113765 | `FreeListExact`, `ObjectsApart` |
| `library` | files of up to 5 characters, 14000 values, every directive and flag, strings of 3, lengths to 2.5 blocks | 357428 | `SettingsExact`, `NumberExact`, `FormatExact`, `BufferExact`, `TextExact`, `MoveExact` |
| `perf_torn` | 2 tasks on one lock, a reporter | - | `LineOfSamples` (violated) |

Why the bounds are enough:

- `waiting`: a waiter, a waker and a third task that takes the lock between
  them; the proofs below cover any number.  Waits repeat without bound.
- `shared`, claims: two claims compete for one name while a third holds the other; the
  pins of a name share registers with each other and not with the other name's.
- `drivertask`: a stale signal needs one parent and two units; the second
  parent interleaves, holds Forbid() and closes what the first opened.  Units open
  and close without bound.  Parents and units are alike (`Alike`); `drivertask_returns`
  does without the symmetry, and without breaks, which only set a bit that a join
  clears and a spawn takes.
- `waiting` and `shared` hold two models each that share no variable (a behaviour is
  of one of them, chosen at the start), so nothing is lost by not mixing them.
- `resetguard`: two guards and a foreign patch give every order in which three
  patches can come and go; each install may fail at each step.
- `shared`, pool: scales a word to 1, a block to 2, a line to 4 and a standard puddle
  to 16; the first region holds exactly one puddle, the second the arena of a
  large request.  `MaxBlocks` bounds the blocks out at a time.
- `cacheops` has lines of two addresses, a batch of two ranges (one of them may
  be empty) and transfers without bound, so that what one leaves in the cache
  meets the next.  Two values suffice to tell old from new.
- `devtree` scales a 32-bit cell to 16 values: 2 GiB, 4 GiB and the 64-bit wrap
  stay where the code tests for them, and values next to each limit are among
  the inputs.  In a tree of four nodes a phandle may lie behind a subtree, below
  a sibling or nowhere, and an interrupt-parent at or above the node.
- `library`: a LONG has 256 values, so four digits overflow it; the line buffer
  is 10 and some lines are longer; texts are shorter, as long as and longer
  than their buffers and fields; a long keeps its 4 bytes (the three byte moves
  of the shortest copies depend on it), the movem block is scaled.

`CHECK_DEADLOCK FALSE` stands where the modelled code ends: after one call
(`devtree`, `library`), with the calls used up (`perf_torn`) or with the machine
reset (`resetguard`).

### Fairness

- `WaitQ`: weak fairness of each task's own steps and of the timer; strong
  fairness of obtaining the lock, since exec's semaphores are first come, first
  served, and of the caller's release of it, without which no wait could end.
- `DriverTask`: strong fairness of parents and workers (`Turns`), unless a join polls
  for ever without a timer (`Fairness`).  exec's priorities are strict and the
  callers': such a poll never waits and may keep the CPU from everyone below it, so
  nothing is assumed then, and `CallsReturn` says nothing.  With a timer a join waits
  in each of its rounds, and every task waits for something again and again, so that
  all get their turn; strong, because Forbid() takes the others' turns away again and
  again.  A worker asked to stop leaves its loop.
- `DrvTimer`: weak fairness of the task and of timer.device.
- `ResetGuard`: weak fairness of the rebooting task and of the interrupt; no
  fairness of installs, removes or the keyboard.

### What the callers are taken to keep to

Constants name what the headers leave to the caller.  The runs set them to the
documented use; set otherwise, TLC shows what happens (next section).  What is
assumed without a constant is named with its action.

| Constant or action | In the runs | Meaning |
|---|---|---|
| `MayRetake` | `FALSE` | a claim that is held is not taken again |
| `MixSleep` | `FALSE` | a timer serves sleeps, or arms and waits |
| `Opens`, `JoinStart` | | a unit is in the hands of one caller at a time, and one given up with its worker alive is not opened again in the same memory |
| `EarlyReset` | `FALSE` | no reset in the two unprotected windows of an install |
| `RemovePatch`, `ForeignUnpatch` | `boot # g` | no guard is removed, and no other program's patch taken back, while a task is in its part of ColdReboot(); nothing in the code keeps it from that |
| `Guards` | | every guard has a prepare() (the NULL test of `reset_guard.c:40` never fires) |
| `PinsOf` | apart | two drivers have no pins in one register |

## Disagreements

**`resetguard_halfdone`.**  `reset_guard_run_prepare()` sets `rg_Prepared`
before it calls prepare().  If the keyboard's reset interrupts `ColdReboot()`
inside prepare(), the handler sees the flag, skips prepare() and reports DONE
with prepare() half run; `reset_guard.h:12-13` says the handler "runs prepare()
inline and only then reports DONE".  `QuiescedAtReset` therefore excepts
exactly that guard in exactly that state.

**`perf_torn`.**  `perf_report()` reads and clears a slot's three counters one
by one without a lock, also when `lock_prof_report()` calls it.  Between the
updates of `perf_add()` it prints a line with a sample's count and sum but not
its maximum, an average above the maximum; `perf.h:34-35` says "a race would
only lose a sample", and `perf.h:144-145` that the lock profiler's updates "need
no atomicity of their own" because the lock is held, which the reporter does
not hold.

**`drivertask_crossed`.**  The end of a worker signals CTRL_F to the task that
spawned it, and the join clears that bit of the task that joins.  If another task
closes the unit (`hw_claim.h:9-10`: "the unit may be closed from another task than
opened it"; `dma_mem.c:218` too) while the opener is in its next spawn, that one
returns 0 before its worker runs; `driver_task.h:22` says that CTRL_F means "the task
reached its wait loop".

The user's break does the same: all that tells a spawn about its worker is two
signal bits that the shell uses too, and a Ctrl-C between its SetSignal() and the end
of its Wait() gives -EIO with the worker alive; `driver_task.h:36-37` says its memory
"is already reclaimed by then".  (With `Interactive` parents `SpawnTruthful` fails in
this way first.)

These two are the only ways, with what follows from a spawn once misled:
`misled` remembers that a spawn's Wait() took a signal its worker had not sent,
`ReturnsTruthful` and `ClosedLeavesNothing` hold of every other call, and
`OnlyTheseMislead` says which steps can send such a signal.

Others that were met while modelling and that have no run of their own:

- `driver_task.c:117`: under Forbid() and without a timer the poll of a join never
  lets the worker run, whatever the priorities, and the machine hangs;
  `driver_task.c:110-111` says it "still terminates, just hot".  Without Forbid() it
  ends only if the worker's priority lets it run.  Both are behaviours of
  `DriverTask`; `CallsReturn` therefore says nothing once a join polls without a timer.
- `textfmt.c:158`: of an unknown conversion with flags, a width or a modifier, `%04lq`,
  only `%q` is put, of one cut off by the end only `%`; `textfmt.c:18` says it "is
  emitted literally".
- `textfmt.c:170`: `%-p` is filled with blanks behind the digits; `textfmt.c:15` says
  "8 zero-padded hex digits".  `FormatExact` is about the pieces where code and
  description agree (`Settled`): of the others it says only that they take nothing
  from the pieces behind them.
- `hw_claim.c:45`: a take of a name that the same claim holds finds its own
  semaphore, empties `hc_Name` and returns FALSE with the semaphore still
  listed, for ever; `hw_claim.c:24-25` says "nothing is held".
  (`MayRetake = TRUE`, `FalseMeansNothingHeld`.)
- `drv_timer.c:69`: DoIO() of a request replied early leaves the port's bit
  set; after such a sleep `drv_timer_wait()` may time out at once
  (`drv_timer.h:42`).  (`MixSleep = TRUE`, `TimeoutMeansElapsed`.)
- `reset_guard.c:136,173`: a keyboard reset right after the registration makes
  the handler send a request that is filled in only at lines 145-150 (line 144
  calls it "Pre-initialized"); a ColdReboot() between SetFunction() and the
  store of its result jumps to NULL.  (`EarlyReset = TRUE`.)
- `dma_mem.h:67`: without regions every address from 2 MiB up is reachable;
  line 52 says FALSE, "fail safe".  `ReachableExact` is about a context with
  regions.
- `devtree.c:121`: a DMA window whose bus side passes 4 GiB is reported whole,
  although its upper part has no 32-bit bus address; `devtree.h:65-66` says
  every CPU address in it is reachable.
- `dma_mem.c:104`: with both cell counts 0 the parse does not advance; it ends
  only when the window table is full, never if no record is kept.  Such a tree
  is malformed, and `RegionsExact` is about the others.
- `bcm_gpio.c:16,26`: two drivers with pins in one register can undo each
  other's settings; the claims of `hw_claim` are per device, not per register.
- `cache_ops.h:69-70`: the exec vectors "mask the bit out and fall back to
  clean+invalidate"; with both direction bits set what is left is
  `DMA_ReadFromRAM`, a clean only.  `CpuSeesDevice` shows that it does no harm,
  since a clean line is never written back.

## Proofs

TLAPS proves every safety invariant that the runs `waiting`,
`drivertask`, `resetguard`, `shared`, `cacheops`, `devtree`,
`slab` and `library` check, for every value of the constants that meets the
assumptions below.  Each proof has the same shape: an
inductive invariant, checked by TLC on the run's instance first, one lemma per
action that the action keeps it, and the properties as consequences of it.

The provers do no induction.  Where it is needed, over a sequence, a table or a
tree, it is done by least counterexample: a set of naturals has a least element
(`Smallest`, from the library's well-foundedness of `<`), and the statement for
what comes before it leads to a contradiction.  In the same way a recursive
function is shown to have the value its definition says (`ValueDefined`,
`NumbersDefined`, `ChainDefined`).

**`DriverProofs`, `WaitQ`**, for any set of tasks.  None of the safety properties is
inductive alone: what a step may do depends on who holds the lock, and a task's
port, request and rc on how far its wait got.  `QueueIndInv` ties them together:
`LockHeld` and `ListedWhileWaiting` (owner, list and pc agree), `PortInv`,
`TimerInv` and `DeviceInv` (what exists at which pc), `WalkInv`
(drv_wake_up_all() stays inside the list), `CondInv` (the predicate stays false
from its test to the release of the lock, and rc true of it from the loop's
exit to the return).  From it follow `QueueTypeCorrect`, `NoWakeupLost`,
`FreedBitsStayClean`, `RequestLifetime`, `ReturnsAreTrue`, `LockAndList` and
`CollectIsPrompt`.  `ImplementsCondition` shows that every step is a step of
`WaitQAbs` or a stutter.

**`DriverProofs`, `HwClaim` and `BcmGpio`**, for any claims and names, under `MayRetake = FALSE`: a
claim is listed exactly while its name stands and no take or release is under
way; hence `MutualExclusion`, `NameIsTruth` and `RemovesListed`.  `PinsAreKept`
is about `BcmGpio`, for any pins and settings: a word that a call has read is
still that of the register when it writes it back, because only the holder of
the name writes there (`MutualExclusion`) and the registers of different names
are different (`Separate`, a hypothesis: the claims do not guard it).

**`DriverProofs`, `DrvTimer`**, for any times, under `MixSleep = FALSE`.  That a tick is
the request's own (`TicksAreOwn`) rests on the bit being set only for a reply
that is still to be collected (`SigInv`), which is false of a timer that
sleeps; `SleepInv` keeps those apart.  `NoEarlyTimeout` rests on time left and
time waited adding up to what was asked for (`ClockInv`).

**`DriverProofs`, `DriverTask`**, for any parents, units and breaks, whichever task
closes a unit.  All workers of a task signal it with the same two bits.  A unit is
in the hands of one caller at a time (`OwnInv`); `WorkerInv` ties slot, blocks and
Forbid() to the worker's place; `SpawnInv` says where the worker may be while its
spawn waits and, as long as no stray signal came, that the bits tell it; `JoinInv`
the same for a join and for what either returns, of units whose spawn was not
misled.  Hence `CallsTruthful`, `NothingLeft`, `JoinSignalsTask` (the slot cannot
clear between its test and the Signal(), since only a CTRL_C ends a worker that
serves), `NothingElseMisleads`, an action property: a worker signals its parent only
while that attends it, or another closes it, or it was misled before; and
`ExitUndisturbed`: from its Forbid() on a worker is alone.

**`ResetGuardProofs`**, for any guards and foreign patches.  `ColdReboot()`'s
chain is reasoned about without walking it, since that would need induction
along it: `Reached` is the least set that has the vector's target and, with a
patch, what the patch chains to.  A patch put on top, or taken from the top,
changes the closed sets by one element; `ChainInv` (no two patches chain to the
same target, all are reached from the top) is therefore kept by every action,
and gives `ChainIsSound`.  `StageInv` gives `AllOrNothing`, `CountInv`
`PreparesOnce`; both hold for either value of `EarlyReset`.  `QuietAtReset`
needs `EarlyReset = FALSE` and `ResetInv` on top: what is due at a reset is
installed still, and was prepared, is being prepared, or lies ahead of the walk along
the chain (`WalkInv`) or among the handlers still to be asked (`KeyInv`).

**`DmaLayoutProofs`**: `LayoutSound`, for every block address, alignment, size
and word size: buffer and bookkeeping lie in the block, apart from each other,
and the buffer is aligned.  `BufferLines`: with the alignment of a cache line,
or a multiple of it, the padded buffer is made of whole lines.

**`DmaPoolProofs`**, for any tasks, regions, requests and puddle size.
Forbid() is held where the pool's lists are read or changed (`ForbidInv`);
arenas are apart and out of everyone else's reach (`ArenaInv`), a region is
what is free, what others took and its arenas (`RegionInv`); every block out,
and every block that a call has taken and not yet handed out or has still to
give back, lies in one arena outside its free list (`BufferInv`, `HeldInv`),
two of them are apart (`ApartInv`), and together they cover the arena
(`CoverInv`).  Hence `NothingLost`.  `WordsSurvive` is part of `IndInv`: owners
write only what is theirs, and `LayoutSound` keeps the two words out of the
buffer.  `BuffersOwnLines` follows from `ApartInv` and `BufferLines`.  The
proof covers create, growth, failure, shrink and delete.

**`CacheOpsProofs`**, for any line size, buffers, neighbours and data, both
builds and both batch patterns.  The invariant is stated per address: `Fresh`
(unless its line is dirty, a copy in the cache agrees with RAM), `Reads` (a load gives what was written last), `Stored` (RAM has it).  Addresses
outside the batch always have the first two (`OutsideInv`); inside it what
holds depends on how far the calls got: `GivingInv` (of the ranges issued, the lines
with no operation under way are not dirty), `ArmedInv` (while the device runs no
line of the batch is dirty, and RAM has what was written last), `TakingInv`
(RAM still has it; of the ranges issued, the lines with no operation under way
agree with RAM again, whatever a prefetch had brought in).  `PendingInv` says which operations may still be under way, and
`LinesApart` that no line of a buffer has an address of anybody else: from
`BufferLines`, which is why `NeighboursSafe` needs nothing but the layout.

**`SlabProofs`**, for any configurations.  The free list is a chain of
addresses read from memory, and the proof does not walk it: `SlabInv` says that
`Threaded` some sequence without repetition lists the free objects, starts at
the cache's head and is linked through their first words.  An allocation takes
that sequence's head, a free puts one in front, growth puts a whole slab
there.  Two objects are apart because their slabs are, or because both are
whole steps from the base of one.  Hence `FreeListCorrect` and
`ObjectsCorrect`, with `TypeCorrect`.

**`DevTreeProofs`**, for any trees, maps and cell sizes.  `MapInv` and
`WalkInv` say which records of a "ranges" property the loop has passed (none
of them holds the address) and what the parents walked so far have made of it:
`TranslationExact` and `WindowExact`.  `MemInv` has a part for each phase of
`dma_mem_init()`: `ParseInv` and `Parsed` (the windows read so far, in the order
of the property), `ScanInv` with `KeptTo` (the headers looked at so far, and of
those the ones that were kept): `DiscoveryExact` and `TransfersExact`.  For the
lookup, nodes are numbered in the order the tree lists them, so a subtree is an
interval of numbers (`Under`) and the walk through children and parents a scan
of it; `FindInv` says what lies behind the scan and `KeysInv` which handles are
open: `NodesFound`.

**`LibraryProofs`**, for memories, files, texts and numbers of any size.  `MoveInv` has
a part for each loop of the memory functions: what has been copied is in place,
what is still to be read has not been written, and the rest is untouched
(`CopyUp`, `CopyDown`: why each direction is safe for the overlap that chooses
it): `MoveCorrect`, `LoopsStayInside`.  `NumberInv` ties prefs_number()'s value
to the number that the digits taken so far make in unbounded arithmetic, and
says that a digit is refused only when the whole could not be a LONG:
`NumberCorrect`.  `FileInv` and `SettingsInv` say that what prefs_next() has read
ends where a line of the file ends and that the settings handed out are those of
the lines up to there; `SplitSays` that prefs_split() takes from a line the one
thing it says, by the places of its words: `SettingsCorrect`.  The loops of
`TextUtil` are scans: each stops at the first place that makes it
(`ScanDefined`, `ScanValue`), and two texts are ordered as at the first place
where they part (`Parts`, `PrecedesIs`): `TextCorrect`.

The printf engine sees characters, `FormatExact` speaks of pieces.  `FormatInv`
says, between two of them, that the place in the format is where the next piece
begins (`PieceAt`), the arguments left are those behind the ones read
(`Unread`), every text put so far is right and the buffer is what all of them
put at once would leave (`BufferOf`, `EmitIs`).  TLC checks it but for one
conjunct of `Unread`, that the arguments left are a sequence: numbers and texts
are in one set there, which TLC cannot build.  The parts fmt_core() parses are
those of the piece, since every run of flags, digits or modifiers ends inside it
or with the format (`RunMoved`, `DirectiveIs`); the digits written from the last
to the first make the number again (`DigitsSpell`), with zeros in front or not
(`PositionalLead`, `NumeralIs`); and the sign, the fill and the body lie where
the flags want them (`LaidIs`, `FieldIs`): `FormatCorrect`, `BufferCorrect`.  `FormatCorrect` is about
the pieces that are `Settled`; the place, the arguments and the buffer are right of
all.

`DmaPool` and `CacheOps` fit together through these: `BufferAssumption` and
`NeighbourAssumption` of `CacheOps` ask for padded buffers that are apart from
each other and from what others own, which is what `ApartInv` and `LayoutSound`
prove of the pool's.

### Assumptions

Those named in the modules, which TLC evaluates on the runs: `None` and the
empty name are no task and no name (`NoneAssumption`, `NobodyAssumption`, `TaskAssumption`,
`EmptyAssumption`, `IdAssumption`, `DisjointAssumption`); switches are Booleans
(`RetakeAssumption`, `MixAssumption`, `FlagAssumption`); sizes are naturals,
positive where the code divides by them (`SizeAssumption`, `TimeAssumption`,
`BoundAssumption`, `MaxAssumption`, `CellAssumption`); regions are disjoint (`RegionAssumption`: they are those of
`dma_mem_init()`'s headers); a pointer is no longer than a line, and an
alignment of a line or more is a multiple of it (`RequestAssumption`,
`BufferAssumption`: alignments are powers of two); buffers and neighbours are
apart (see above); the kinds of a pin setting are the registers there are
(`SettingsAssumption`); slabs are areas apart from each other, as a pool hands
them out (`SlabAssumption`); a property is a sequence of cells, nodes come in
the order the tree lists them, and no caller's index is so near 2^32 that the
place of its record or of its interrupt wraps (`MapAssumption`,
`NodesAssumption`, `TreesAssumption`, `MemAssumption`); texts, limits and places
of the library's calls are what their types say, and a format is a sequence of
characters and directives, with an argument of its type for each directive that
reads one and with widths and precisions that are LONGs (`PrefsAssumption`,
`TextAssumption`, `MoveAssumption`).  Beyond those only the hypotheses named with each
theorem: the documented use of the table above.

### Only model-checked

Liveness (`AbsSpec`'s fairness, `CallsReturn`, `TimerCallsReturn`,
`RebootCompletes`), which TLAPS does not reach.

## Not modelled

- `perf_hist`: one increment per sample, and a report with the same race as
  `perf_report()`'s.  `scripts/perf-report.py` adds up printed lines.
- `timing.h`'s `delay_us()` and `iomem.h`'s polls: loops on a register that end
  when the hardware says so.  Their only state is the clock.
- `debug.h`, `bits.h`, `types.h`, `barrier.h`, `byteorder` and the other
  headers: single accesses, constants and macros; what the modelled code uses
  of them is part of its actions.
- The tools (tests of the memory and prefs functions and a report of the
  machine) and the build.
- Overflow of `size + align + 8` near 4 GiB in `dma_alloc()`, of
  `(index + 1) * record_cells` and `(index + 1) * interrupt_cells` for absurd
  indices, of a width in a format and in `atoi()`: no caller comes near.

## Plan

Done, in this order: `WaitQ` with its abstraction and proofs, `HwClaim` with
proofs, `DrvTimer`, `DriverTask`, `ResetGuard`, `DmaLayout` with its proof,
`DmaPool`, `DmaMem`, `DtMap`, `Slab`, `Memory`, `Prefs`; then `CacheOps` over
`DmaLayout`, `DtNodes` under `DmaMem`, `BcmGpio` over `HwClaim`, `TextUtil`,
`TextFmt`, `Library`, `Perf`.

Then the proofs: `DrvTimer`, `BcmGpio` (from the claims), `ResetGuard`,
`DriverTask`, the line geometry of `DmaLayout`, and on it `CacheOps` and
`DmaPool`; then `Slab`, `Memory`, `Prefs`, `DtMap`, `DmaMem` and `DtNodes`, the
functions of `TextUtil` and `TextFmt`.

Next: an abstract memory pool (allocate, free, no word of a list in it) that
`DmaPool` implements, and its step-by-step refinement from `DmaPoolProofs`'
invariant; action properties of the proved components (what a step may never
do, from the same invariants).
