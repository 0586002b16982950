# A verification project for pi0-os

pi0-os is a small operating system for the Raspberry Pi Zero and the QEMU ARM
"virt" machine. Its kernel is about ten thousand lines of C++ in `kernel/`;
`userland/` holds the programs. This directory models the kernel's core in
TLA+, checks the models with TLC on small instances, and proves the central
invariants for every instance with TLAPS.

## How the kernel runs

One CPU. A thread runs, in user or kernel mode, until it calls `sys$yield`,
which switches to the loop in `scheduler_start`; the timer-driven preemption is
commented out (`scheduler.cpp:405`). So a system call is atomic with respect to
other threads between two `sys$yield`s, and these are in few places: the loop
of `mutex_take`, the polling loops of `vfs_read`, `vfs_write` and `sys$poll`,
and the end of `sys$exit`. What does interleave with kernel code are interrupts:
`dispatch_syscall` enables them, exception entry disables them, and the context
switch neither saves nor restores the mask. A failed `kassert` halts the
machine.

Hence the hard behaviours: long sequences of system calls by several processes
over shared reference counts; a failure (mostly of `malloc`) in the middle of a
call; blocking calls whose condition is tested, then waited for, then used;
wake-ups through pointers to the stack of the waiting thread; an exception that
leaves the interrupt mask changed; tables and buffers at their limit.

## Inventory

| Component | State | Operations | Talks to | What makes it correct |
|---|---|---|---|---|
| VFS and open files (`vfs/vfs.cpp`, `vfs/fs.cpp`, descriptor calls of `scheduler.cpp`) | mount points, icache, `Inode::refcount`, `FileCustody`, `openfiles` | open, create, close, dup2, movefd, create_pipe, fork, exit, reap | filesystems through `lookup`, `create`, `open_inode`, `close_inode` | counts equal references; a custody has one owner; a filesystem closes an inode last |
| Pipes (`vfs/pipefs`, `lib/ringbuffer.h`) | ring buffer per pipe | read, write, poll, close | blocking loops of the VFS | a bounded FIFO; nothing lost, nobody forgotten |
| Scheduler and processes (`scheduler.cpp`, `arch/arm`) | thread table, `Thread::state`, current thread, exit listeners | loop, yield, fork, exit, waitexit, millisleep, execve, poll, data abort | locks, timers, VFS, virtual memory | exact table; waiters wake; zombies are freed |
| Locks (`locking/`) | spinlocks, mutexes, interrupt mask | take, release, with timeout, irq_lock | everything | exclusion; no self-deadlock in an interrupt |
| Timers (`timer.cpp`) | list of timers | exec_once, exec_periodic, the interrupt | sleepers, heap | a timer fires once and late enough |
| Physical pages (`memory/physicalalloc.cpp`) | free lists of three orders, reference counts | alloc, free, split, merge | virtual memory, stacks, framebuffer | memory is neither shared by accident nor lost |
| Virtual memory (`memory/vm.cpp`) | page tables | map, unmap, create, fork, free, fault, ioremap | pages | every page of a dead address space is given back |
| Kernel heap (`memory/kheap.cpp`) | break, mapped end | brk, sbrk | pages, newlib's malloc | mapped exactly up to the break |
| tempfs, devfs, ptyfs | their inodes and blocks | the filesystem interface | VFS, devices | agree with the icache about what is open |
| fat32 (`vfs/fat32`) | the boot sector, one cached sector of the FAT | mount, read, lookup, list | block devices | answers are what the medium holds, or an error |
| Terminals, ptys (`drivers/device.cpp`, UART drivers) | line buffer, input ring, termios | emit (interrupt), read, write, poll, ioctl | ring buffer, VFS | lines counted as they are buffered |
| Input (`drivers/device.cpp`, `virtioinput.cpp`) | event ring under a mutex | notify (interrupt), read, poll | virtio, locks | events in order; no deadlock |
| Block devices, virtio | virtqueues, requests | enqueue, interrupt, wait with timeout | filesystems | a read returns the sector asked for; descriptors are conserved; no answer is missed |
| Display (`drivers/char/virtiogpu.cpp`) | command queue, waiting requests, framebuffer | init, refresh, interrupt | virtio, locks, mmap | a refresh that returned is shown; descriptors are conserved |
| Device manager, interrupt controllers, boot, ELF loader | registers, tables | initialization | hardware | order of start-up |
| Userland | | programs | system calls | the environment of the models |

The hazards that follow from it, each at its line, are listed in
`PROJECT.json`.

## Modules

Where a component's theorems are proved next to those of another one (`TtyProofs`,
`VfsProofs`), its state and its properties are in a module of their own (`Ptys`,
`PipeBytes`, `Processes`), which both the component and the proofs extend; the proofs
take the component itself as an instance.

### Vfs, MCVfs, VfsProofs

`Vfs` has the inode table, custodies and descriptor tables. Inodes are named by
their place in the tree (the model value stands for the pair of filesystem and
identifier). `inodes[n].ref` is `Inode::refcount`; `inodes[n].fs` records what
the filesystem was last told, so that "closed too early", "closed twice" and
"used after close" can be said. A system call that loops is one step per
iteration: `sys_open` takes the root, `traverse_found` one component,
`open_succeeds`, `open_refused`, `traverse_failed`, `open_missing_fails` are the
exits of `vfs_open`; `fork_duplicate` and `free_process_close` are one
descriptor each. The variables from `pc` on are the locals of the call in
progress; no other call starts meanwhile, as in the kernel. `malloc` may fail at
every point where the code tests it.

Two things the code does are in the model as they are. `vfs_open` never releases
the reference to the parent directory when it succeeds: `kept` counts these.
`close_inode` leaves the count at 1 and the inode in the icache after telling
the filesystem to close it: hence the last summand of `RefcountAccounting`.
Where the code goes on with freed memory or a null pointer (`dup2` of a
descriptor onto itself, a failing `fork`) the model ends in the state
"undefined".

### RingBuffer, PipeBytes, Pipe, Channel, MCPipe (theorems in TtyProofs)

`RingBuffer` is `lib/ringbuffer.h` as it stands: array, two positions, count,
and a `push` that drops the oldest item when full. `PipeBytes` extends it by the threads
at the pipe and the properties, `Pipe` by the
copying loops of pipefs (one byte per step) and the polling loops of `vfs_read`
and `vfs_write`; `busy` is the thread between its successful poll and its
return, during which no other thread runs. The content of a written buffer is
any byte. `sent` and `received` are history variables. `Channel` is the promise:
bytes come out once each and in order, at most `Capacity` of them under way.
`ChannelSpec` says that `Pipe` implements it under the identity mapping of the
histories.

### Processes, Scheduler, MCScheduler (theorems in VfsProofs)

`Processes` has the state and the properties, `Scheduler` the actions. The thread table, the loop's index, the current thread, what each thread will do
when it runs next, the mutex in its stack frame, the exit listeners of its
process, its timer, and the interrupt mask. A process has exactly one thread in
this kernel, so one identifier stands for both. A blocked thread is `Runnable`:
it tests its mutex each time it runs and yields. `alloc_process` never
initializes the list of exit listeners, so fork chooses whether the memory
happened to hold a null pointer (`dirty`); using a wild list halts the model as
"undefined". `has_started` is `g_scheduler_has_started`: before the first yield
`mutex_take` spins.

### PageAlloc, PageAllocProofs, MCPageAlloc

The three free lists, as sequences with the head first, the reference counts and
the pages in use. A page is the index of its first kilobyte in `g_pages`, an
order its size in kilobytes. `has_next` is the test the code uses for "free":
`next != nullptr`, which is false for the last page of a list and for the page
that is being freed. `share_page` is the callers' `ref_count++`.

### Tty, TtyProofs, MCTty

The line discipline over `RingBuffer` (the same module the pipes use): `emit` for
a byte that a pty's master writes, `read_begin` to `read_returns` for a read, byte
by byte, under the polling loop of `vfs_read`, `tcsetattr`, `tty_write` and
`master_read`. Bytes are newline, carriage return, erase and one other; of the
output only the number of bytes is kept. The variable `uart` says which kind of
terminal it is. Nothing interleaves with a read of a pty, whose loop never yields;
for a UART the byte comes by interrupt. Where the interrupt leaves the reader's
variables consistent it is one more emit (`irq_emit`). It tears them when it pushes in
the middle of `pop`, whose stores of `read_pos` and of `count` each undo what the handler
did to that variable since it was loaded (`irq_during_pop`: either, both, or neither when
the item being read has been dropped meanwhile), or flushes a line in the middle of
`m_available_lines--` (`irq_during_decrement`). From then on positions, counts and buffer
disagree: the model records that in `pc = "torn"` and stops, and the properties are about
ptys for ever and about a UART up to that interrupt (`Torn`). `pop` is taken to load and
store `read_pos` before `count`, as it is written. The loops run as if each variable were
loaded where it is used. `tcsetattr` copies the settings in one step. `drift` is a history
variable that says by how much `m_available_lines` is off, and why.

### Ptys, Ptyfs, MCPtyfs (theorems in TtyProofs)

`Ptys` has the state and the properties, `Ptyfs` the actions. What ptyfs keeps (pairs of master and slave) under the reference counts and the
icache of `vfs.cpp`, for the inodes of ptys only. `bug` records whether one of
the messages ending in "(this is a bug)" was logged, `no_memory` whether
`create_pty_pair` ever failed, `reused` which inodes were opened from the icache
after their filesystem had closed them.

### Tempfs, Files, TempfsProofs, MCTempfs

Files in memory: slots of the directory, memory, size and limit, the size cached
in the inode, and descriptors with offsets. Every call is one step, as no call
yields. `Files` is the promise: contents that are written and read at positions.
`FilesSpec` says that `Tempfs` implements it, where the content of a file is its
memory up to its size. The 64-bit offsets are computed modulo `Modulus`. A
listing asks for one entry at a time (a larger buffer is several of these steps
in a row), and programs do not seek in directories. `getdents` skips by number and
a creation fills the last free slot, so entries move under a listing:
`ListingComplete` says that a listing nevertheless misses none, and that the
entries it returns twice, which the code does not prevent, are at most as many as
were created meanwhile.

### Virtqueue, VirtqueueProofs

The split queue that the three virtio drivers share: the table of descriptors
with its free list, the ring of used buffers with the device's 16-bit index
(modulo `Wrap`) and the driver's `last_seen_used_idx`, the interrupt line and its
acknowledgement. `foreach_used_descriptor` reads the device's index once and walks
up to it; `handle_irq_ack` clears the interrupt in a step of its own, because an
answer may arrive in between. `Overlooked` are the answers that did, with no
interrupt left to announce them. The negotiation (`virtio_util_do_generic_init_step`)
is here as well. `VirtqueueProofs` has the lemmas that the proofs about the three drivers
share.

### VirtioBlk, VirtioBlkProofs, MCVirtioBlk (over Virtqueue)

One read of a sector at a time, as `s_read_tempbuffer_lock` has it: the request on
the stack, the device, the interrupt handler that walks the used ring entry by entry,
the wait with its timeout. After `read_sector` has returned its request is dead, and
its place on a stack (`Frames`) may be that of a later request. A read that gave up
leaves its request in `m_requests` and with the device, and the model goes on: the
list is the pointers of `IntrusiveLinkedList` (`Links`, `add`, `remove`), through which
a dead request stays linked, or is linked to itself when the next request has its
frame; `find_first` compares the first descriptors that are left in the frames; a late
answer overwrites `s_read_tempbuffer` (`tempbuffer`), writes its status into the frame
and is looked up by the handler, which may find the dead request, a new one with the
same head, nothing (a panic) or no end of the list (`hang`). Wherever the code reads or
writes a dead request there are two outcomes: the memory holds what it held, or it has
another use, and then the model stops as "undefined". `stray` and `abandoned` are history
variables. `write_sector` is not supported by the driver. `VirtioBlkAssumption` asks for
three descriptors: with fewer the driver would clean up a request it never initialized.
The device is external, modelled from what the driver expects of it; it has read the
chain of descriptors when it takes a request. A device so late that it had not even
done that would read freed or reused descriptors: this is not modelled.

### VirtioGpu, VirtioGpuProofs, MCVirtioGpu (over Virtqueue)

Set-up of the display (`init`, then one command after the other: `next_kind`) and
`refresh`, which any thread may call: it sends a transfer and a flush, each as a
chain of two descriptors, and yields in `mutex_take` until the handler has
released the request's mutex. So several commands are under way at once; the
device answers them in any order, or with an error. `busy` is the thread that runs
between two yields. `frame`, `copy` and `shown` number what programs have drawn,
what the host has copied and what is on the screen. `alloc_framebuffer_storage`
may fail its assertion, descriptors may run out, and `m_pending_requests` is never
initialized in memory that `mustmalloc` returns: `wild` says that the memory was
not zero, and then the first command ends as "undefined".

### Input, InputProofs, MCInput (over Virtqueue and RingBuffer)

`InputDevice` with its ring of events under a mutex, the virtio input driver that
fills it from interrupts and hands each buffer back to the device, blocking reads
through `vfs_read`, and `sys$poll` over lists of descriptors (closed, negative, the
input device, another file). A thread holds the mutex in a step of its own, so that
the handler can find it taken: `mutex_take` then yields from interrupt context and
the interrupted thread can no longer release it (`handle_irq_deadlocks`). The clock
counts modulo `ClockWrap` (2^32 milliseconds in the code); `start` is kept as the
code keeps it, and `elapsed` is the true time, a history, counted up to `MaxElapsed`.

### Vm, MCVm

Root tables, level 2 tables and pages from one set of frames. An address is a slot
of the root table and an index; the last slots are the kernel area with its
heap, its peripherals and a section that maps all of memory. An address space is
its root table. `mem` is threaded through the operators in the order of the code,
`mem.rc` saying which early return or panic was taken, so that an action may run out
of memory at each allocation. Modelled are boot (`boot_memory`, `arch_irq_init`,
`kheap_init`), `ioremap` and `iounmap` with their bitmap (of devices whose registers do
not straddle a page for nothing, as `RegistersAssumption` says), `brk` and `sbrk` by chunks,
`vm_create_address_space`, `vm_map_page` with the synchronisation of the kernel
area, `vm_unmap_page`, `vm_fork`, `vm_free`, `vm_switch_address_space`, the fault
handler, and the life of a process as far as memory goes: first process, fork,
execve in its steps (`sys_execve`, `try_load_elf`, `sys_execve_commits` and the
ways it fails), mmap of the framebuffer, exit, and reaping by the scheduler. Neither
`sys$mmap` nor the ELF loader asks where an address is: both may put pages into the
kernel area, whose tables all address spaces share. The model lets them, and the history
variable `placed` records where; `KernelAreaAgrees` says that such a page is never in the
place of one of the kernel's. All allocations are of one size here; orders and buddies
are in `PageAlloc`. The framebuffer is one page, and the kernel's own code has no slot:
it is mapped in sections, as the physical memory is.

### Fat32, BlockDevice, MCFat32

`BlockDevice` is `SimpleBlockDevice::read` and `::write` as one state machine (they
differ in the direction of the copy): first part of a sector, whole sectors, last
part, each of which may fail. `Fat32` extends it and calls it: `fat32_try_create`
mounts a medium or refuses it, `next_cluster` reads the FAT through a cache of one
sector, `fat32_file_inode_read` seeks in the cluster chain and reads piece by
piece, lookup and listing walk directories sector by sector. Sectors of clusters are
computed modulo `SectorWrap` (2^32 in the code). The media may be damaged: a chain may
end too early, meet a free or a reserved entry or leave the device. `ReadsFile` says what
the code makes of it: within the range that is read it is an error, but the seek to the
first unit stops at such an entry with success, and what is read is whatever lies at the
sector that the entry stands for. The chains of directories are sound. `raw` is a program
that reads or writes the device beside the file system. A sector is a few units (a FAT
entry, a directory entry or a byte of data); every unit written is new, so that a
unit in the wrong place shows.

## Runs

| Run | Checks | Instance |
|---|---|---|
| `vfs` | `RefcountAccounting`, `CustodyOwnedOnce`, `PipeStaysOpen`, `CloseIsLast` | 2 processes with 2 descriptors, 3 custodies, a directory, a file to be created in it, a pipe; 3 paths, one of which walks through the file or fails midway; counts up to 4 |
| `scheduler` | `WaitersRegistered`, `WaitersWake`, `ZombiesReaped`, `RunnableRuns`, `SleepersWake` | 3 threads, 3 slots, sleeps of 1 or 2 interrupts, one program that may fault, fairness |
| `pipe` | `ChannelSpec`, `BytesArrive` | capacity 3, two byte values, 3 processes with any combination of ends, one of them non-blocking and one that keeps reading, 4 bytes written, sizes 0 to 2, fairness |
| `pages` | `PagesSound` | 16KB of memory, up to 5 pages in use, 2 references to one |
| `tty` | `IInv`, `BlockingReadDelivers`, `LineWakesReader` | pty or UART, input buffer of 3 bytes, lines of 2, programs that switch between cooked, raw and a third mode, fairness |
| `ptyfs` | `PairsSound`, `OpenFilesHaveDevice` | 2 ptys, 3 files of each end, memory may run out |
| `tempfs` | `MemoryAccounted`, `ListingComplete`, `FilesSpec` | 2 files, 2 descriptors, blocks of 2 bytes, limit of 4 |
| `virtio_blk` | `RequestsSound`, `ReadsRightSector`, `ReadReturns` | 3 descriptors, indices modulo 6, 2 sectors, 2 frames for a request, up to 2 requests with the device, no more reads once 2 were abandoned (`MaxAbandoned`), fairness |
| `gpu` | `CommandsSound`, `RefreshShowsFrame`, `OverlookedByTwo`, `CommandReturns` | 2 threads, 4 descriptors (both have a command under way), one frame drawn, fairness |
| `input` | `BuffersSound`, `EventsInOrder`, `PollTimesOut`, `KeysArrive` | 2 buffers and the unused descriptor, 3 keys, a ring of 2 events, a clock of 3 ticks, a program that keeps reading and one that polls, fairness |
| `fat32` | `TransfersSound`, `CacheHonest`, `ReadsFile`, `DirectoryAnswers` | 18 sectors of 3 units, 6 clusters of 2 sectors, 5 media: one sound, on the others a file's chain ends early, meets a free entry, meets a reserved one, or leaves the device; old entries behind the marks that end directories; 3 calls |
| `vm` | `MemorySound`, `Isolation`, `KernelAreaAgrees`, `ActiveTableIntact`, `ForkMapsTheSame` | 2 processes (symmetric), 22 frames, a heap of 2 slots, chunks of 2 bytes, sbrk by -4, 2 and 4, 4 calls; devices of 1 and 2 pages; the framebuffer mapped at one of 5 addresses, of the user, the peripherals, the heap and a section; 2 programs, one with a page in the heap |

A name ending in "Sound" is the type invariant and the structural invariants of its
module together: `PagesSound` has `PagesConserved` and `RefCountsAgree`;
`RequestsSound` has `DescriptorsConserved`, `CompletionSeen` and
`OnlyTimeoutsHalt`; `CommandsSound` has `DescriptorsConserved` and `SetUpFirst`;
`BuffersSound` has `BuffersConserved` and `BlockingReadDelivers`; `PairsSound` has
`ClosedPtysFreed` and `NeverABug`; `TransfersSound` has `Transferred`, `Complete` and
`AssertsInsideSectorOnly`; `MemorySound` has `PagesAccounted` and `NeverABug`. The type
invariants of `Vfs`, `Scheduler` and `Pipe` are part of the inductive invariants that are
proved (`IInv`, `SchedInv`, `PipeInv`).

Why these bounds are enough to meet the interesting cases. In `vfs`, two
descriptors let a pipe fill the table (so that create_pipe fails for lack of
descriptors) and let dup2 and movefd hit an occupied slot; three custodies let
fork run out of them; `MaxRef` stops calls that take references once a count
reaches 4, which the never-released parents would otherwise grow for ever. In
`scheduler`, three threads are the fewest for two waiters of one process; three
slots, which are used once each, fill up while some of their threads have ended.
In `pipe`, four bytes through three slots wrap both positions, fill and drain
the buffer. In `pages`, five pages in use exceed the four buddies of a page and
the memory can be exhausted in every order. In `tty`, a line can fill its buffer
and lines overflow the input buffer; `MaxLines` bounds the count, which drift can
raise for ever. In `tempfs`, two blocks are the whole limit, so that one file can
keep the other from growing, and files both fill and share blocks. In
`virtio_blk` both indices wrap; a read follows an abandoned one in the same frame or
another one, with the same head (freeing reverses the order of the free descriptors, so
every other read has it) or another one, before or after the late answer is given or
seen; reads that succeed with the wrong sector, each way of stopping, and reads after
everything has been answered and seen are all reached. The bound `MaxAbandoned` limits
abandoned reads, not reads. In `gpu`
two answers can meet in one run of the handler; the shortage of memory is a
choice at every command. In `input` the device can use every buffer before the
handler looks, the ring of events overflows and the clock wraps. In `fat32` the FAT
entries of a chain are in different sectors, so that the cache is refilled in the
middle of it, a file has three clusters and a directory two, a seek passes none, one or
two of them, and a range covers no, one or more whole sectors with and without parts on
either side. In `vm` memory
suffices for two address spaces and not for a third, so that fork and execve run
out at every point; the second heap slot needs a table that older root tables
lack; four calls are enough for fork, execve, exit and a second fork, or for three pages
placed in the kernel area before the heap grows towards them.

CHECK_DEADLOCK is off for the models that may end: the VFS and the scheduler
when the kernel halts or its behaviour is undefined, a pipe when everybody has
closed it or waits for the others, drivers, terminals and virtual memory after a
failed assertion, and where a bound on calls is reached.

### What the models contain and no property forbids

The passing runs include these behaviours, stated around where a property meets
them:

* `pipefs_file_inode_read` returns end-of-file for an empty pipe without writers
  ("Pipe is empty, returning EOF", `pipefs.cpp:128`), but `vfs_read` polls for data
  first: a blocking reader never gets there and waits for ever;
* an interrupt of a UART between the load and the store of a variable in `pop` or of
  `m_available_lines--` is undone by the store. At `m_available_lines` or `count` an
  increment is lost: a newline is in the buffer that is not counted (reading it later
  fails the assertion at `device.cpp:249`), or a byte is there that `count` does not
  cover. At `read_pos`, when the ring is full, the handler's own move of the read position
  is lost (`ringbuffer.h:34` and `:44`): `write_pos` is then not
  `read_pos + count`, and the newest byte, perhaps a newline already counted, is not
  among those that will be read. No property holds beyond that point (`Torn`);
* the comment at the head of `vfs.cpp` says that an inode in the icache has been
  opened. After the last close it is still there, and the next open takes it without
  telling the filesystem: a pty opened after one was closed, or a slave opened again
  whose master is gone, has no device behind it (`OpenFilesHaveDevice` says that
  nothing else leads there). Pipes escape because an identifier is never used twice;
* slots of the thread table are never used again, so that `register_thread`
  halts the kernel after 64 forks (`halted` becomes "kassert" and the liveness
  properties end there);
* a program that touches bad memory is ended inside the data abort handler with
  interrupts masked, and the scheduler's loop inherits the mask: until some
  thread returns to user mode no timer fires (`SleepersWake` is stated up to
  that);
* `_physical_page_free` never merges buddies, because the page being freed is
  itself among those whose `next` must not be null;
* after a timeout of `read_sector` the dead request stays in the driver's list and with
  the device, and its descriptors are reused: the late answer, or the next request,
  writes to a stack frame that is gone. The late answer overwrites `s_read_tempbuffer`
  during a later read and, if that has the same head, releases it, so that it succeeds
  with the wrong sector (`ReadsRightSector` holds for a read that begins when every
  answer has come and been seen, and `stray` marks the others). A request in the frame
  of the dead one is linked to itself, and the handler never finds the end of the list
  when another late answer comes (`OnlyTimeoutsHalt` says that the driver stops in no
  other way, if the list was empty at first);
* a read or write that begins inside a sector and ends before the sector does
  fails the assertion about the offset after the bytes were transferred;
* a newline that came in raw mode is not counted: after a switch to canonical
  mode a non-blocking read of it fails the assertion of `TTY::read` (`drift` is
  the account of these);
* the error of `create_pty_pair` is dropped, and the close of that file reports
  a bug (`NeverABug` allows for it through `no_memory`);
* before the first yield `mutex_take` spins, so a first process that waited for its
  child then would never let it run; and the timer interrupt frees its timer with
  newlib's `free`, which it may have interrupted;
* virtual memory: a fork that runs out of memory frees a process twice or through a
  null pointer, and an execve that fails before it has made an address space frees
  one it never initialized (both end as "undefined"); `vm_fork` overwrites the
  entries that `alloc_process` made for the child's stack, whose pages nobody frees;
  kernel stacks are never freed; the framebuffer's page joins the free list when its
  last user exits, and mapping it again makes the allocator's assertion at
  `physicalalloc.cpp:86` fail later; the root table of a reaped process stays the
  active one until the next switch (`ActiveTableIntact` says that it is not yet
  anything else); moving the break to the very end of the heap panics, and so does
  every shortage of memory under `MUST`; a page that a process placed in the heap beyond
  the break, by `mmap` or as a program's segment, is in every address space, is never
  given back, and panics the kernel when the heap grows to it (`vm.cpp:294`);
  `ioremap` reserves every page the registers touch and maps only as many as their size
  needs, so registers that straddled a page would lose their end, and `iounmap` would
  fail its assertion: no device of the machines has such registers, and the model
  assumes so;
* virtio: an answer that arrives between the walk over the used ring and the
  acknowledgement is noticed with the next interrupt only (`OverlookedByTwo` says
  that it takes two answers, `CommandReturns` and `KeysArrive` allow for it);
  a key that comes while a thread holds the mutex of the event queue deadlocks the
  handler; a `sys$poll` during which the millisecond counter wraps may wait long after
  its timeout (`PollTimesOut` allows for that);
* fat32: writing to the raw device leaves the cached FAT sector stale; a free or
  reserved entry met while seeking in a chain is followed with success
  (`fat32.cpp:140`), and the file is then read from the sectors before the data;
  so is the mark at the end of a chain where its sector wraps (clusters of 16
  sectors or more); a read beyond the end of the device counts as a success of
  `read_sector`, so that a chain that leaves the device goes on with the FAT sector
  that was read before; a listing ignores the errors of reading; the mark that ends a
  directory ends only its cluster; empty files and ".." have the identifier 0.

## Fairness

`Scheduler!Fairness`: the CPU executes the loop and kernel code (weak fairness);
a program that is given the CPU again and again yields some time (strong; the
kernel cannot force it, and the liveness of everything else depends on it); a
timer interrupt is taken if interrupts are enabled again and again (strong: the
interrupt stays pending in the controller). The liveness properties allow for
the kernel halting.

`Pipe!Fairness`: a copying loop finishes (weak); a reader in `Draining` gets its
turn with no other thread inside a call (strong, because the calls of other
threads come and go, and the round robin visits every thread). That it reads
again is an assumption about its program. Nothing is assumed of writers: with
several of them a writer may find the pipe full at each of its turns.

`Tty!FairSpec`: a read in progress goes on (weak); a program that wants to read
gets its turn (strong, as for pipes). `VirtioBlk!Fairness`: the handler runs when
an interrupt is pending, and the driver's loop otherwise (weak). Nothing is
assumed of the device: `ReadReturns` rests on the timeout.

`VirtioGpu!Fairness`: the device answers every command it was given (weak, for each
descriptor: this driver has no timeout), the handler runs (weak), and a thread that
has its answer gets its turn (strong: other threads come and go). `Input!Fairness`:
the handler runs (weak), threads in a call go on and the program in `Draining` reads
again (strong). Nothing is assumed of the keyboard.

## Proofs

Each theorem holds for every value of the constants that satisfies the named
assumptions (`VfsAssumption`, `SchedulerAssumption`, `RingBufferAssumption`,
`PipeAssumption`, `PageAllocAssumption`, `PtysAssumption`, `TempfsAssumption`,
`VirtqueueAssumption`, `VirtioBlkAssumption`, `VirtioGpuAssumption`, `InputAssumption`,
`TtyAssumption`), which TLC evaluates in the runs. Some of their parts only say that there
is something to do or that a bound is a bound: a disk has a sector, a program reads with
some buffer size, the bytes written are bytes, a key event is its number, the time that
the model counts is beyond every timeout. `InputAssumption` asks for two descriptors,
because the driver leaves one of them unused. Every inductive invariant was checked by
TLC on the bounds of its run before it was proved.

* `VfsProofs`: `VfsInvariant` is `Spec => []IInv`. `RefcountAccounting` alone is
  not inductive. A close needs to know that the custody it frees is one of the
  references counted (`CustodyOwnedOnce`: two slots sharing a custody would free
  it twice); a failing walk needs to know which locals hold references
  (`LocalsInv`); a fork needs the child's table to be empty
  (`NoProcessNoFiles`); an open needs "count above 0" to mean "has been opened"
  (`IcacheInv`). The proof has two halves: `OwnershipStep` shows who owns which
  custody, and `CountStep` shows that each step changes every inode's count by
  what it changes in its references, from one lemma per operation (`OpenInode`,
  `CloseInode`, `Duplicate`, `AllocCustody`, `FreeCustody`). `RefcountCorrect`,
  `CustodyCorrect`, `PipeCorrect` and the action property `CloseIsLastCorrect`
  follow.
* `VfsProofs`, instance `Sched` of `Scheduler`: `SchedulerInvariant`. `WaitersRegistered` needs the thread
  table to be exact (the reaped thread is the one in the loop's slot, and only
  there) and the current thread to be in that slot (`CurrentInv`): a thread that
  exits is running, so it is not blocked and no listener refers to it.
* `TtyProofs`, instance `APipe` of `Pipe`: `PipeInvariant` (the buffer holds exactly the bytes between the
  two histories, with the wrap-around made explicit by `position`) and
  `PipeImplementsChannel`, the refinement: each byte pushed is a `Put`, each
  byte popped a `Get`, everything else stutters.
* `PageAllocProofs`: `PageAllocInvariant`. `PagesConserved` speaks of the blocks in
  the free lists and in use; the invariant adds that no list holds a page twice and
  that together the blocks tile the memory (aligned, disjoint, nothing left out:
  `Tiling`). `Split` and `Refill` show that cutting a block into four keeps the tiling.
  The free of a page looks for buddies with `next != nullptr`, and the page that is
  being freed is on no list (`LentHasNoNext`), so the test fails for at least one of
  the four (`NeverMerges`). `BuddiesNeverMerge` states what that means: every last
  free gives back its page alone, whatever else is free. Memory that was once split
  for the tables of 1KB never becomes a 4KB or 16KB page again.
* `TtyProofs`, instance `Pty` of `Ptyfs`: `PtyfsInvariant`. `PairsSound` relates pairs to open files, while
  ptyfs only sees the calls that the icache passes on. The invariant says what it has
  been told: the icache counts the open files, plus one reference that it keeps after
  the last close (`CountsOf`), and a pair's flags agree with that (`EndsOf`).
* `TempfsProofs`: `TempfsInvariant`, and the refinement `TempfsImplementsFiles`.
  `MemoryAccounted` is nearly inductive: it lacks types and that what does not exist
  has no memory (`Absent`). `ListingComplete` needs an invariant of its own
  (`ListingsSound`): what a listing has passed, counted in occupied slots (`Rank`), it
  has returned, and it has passed no more than there are. A creation fills the last free slot, so it may move entries to a
  higher rank but none to a lower one (`CreateKeepsListing`). For the
  refinement, `WriteOverwrites` shows that growing the memory and copying into it is
  the abstract overwrite of a prefix of the memory.
* `VirtqueueProofs`: what the drivers' proofs share. `Partition` says that the free list
  is a chain without repetition whose elements, with the descriptors in use, are all
  descriptors; `TakeOne`, `GiveOne` and `AllFree` say what allocation, release and a new
  queue do to it. The recursive function that walks the chain is shown to be the chain
  (`FreeListIsChain`) by an argument on the least step at which they would differ. The
  other half is about the used ring: what the device appends and what the handler has
  visited.
* `VirtioBlkProofs`: `VirtioBlkInvariant`. The request of a read that began in quiet
  (not `stray`) is `Outstanding`, `Answered`, `Seen` or `Released`, whatever happened
  before; each phase fixes the first request of the list, what the device holds, the ring
  of used buffers, the interrupt line and the handler's loop together. That the handler
  finds the request needs only that it is the first of the list (`FindFirst`): what is
  linked behind it, dead requests and cycles included, does not matter. Until a read has
  been abandoned the list is empty or holds that one request (`Tidy`), so that nothing
  stops the driver. `TakeThree` and `GiveThree` follow the free list through a request.
* `VirtioGpuProofs`: `VirtioGpuInvariant`. Here any number of commands is under way, so the
  invariant speaks of each request on a thread's stack (`OneRequest`): it has a head and a
  response descriptor exactly while its thread sleeps, and it is linked until it has an
  answer. No two share a descriptor (`Apart`), and each command of the device is one that
  a thread sleeps for (`Asked`). `Ring` says that the used buffers not yet visited belong to
  different answered requests that are still linked: hence there is always room in the
  used ring, and the handler finds each request once. `Stage` relates set-up, status and
  the device's resource; `Frames` relates what was drawn, copied and shown to what each
  thread waits for. `CommandsStaySound` and `RefreshesShowTheirFrame` follow;
  `OverlookedOnlyByTwo` is an action property: of the answers present when a handler ends,
  one was visited and one was not, and `Ring` makes their threads different.
* `InputProofs`: `InputInvariant`. A buffer is with the device or in the used ring, once
  (`RoundTrip`); the used buffers not yet visited hold the events that follow those already
  notified (`Numbered`); the ring holds the last `count` of these and programs have read
  events before them, in order, a gap in what they read being at least the ring's capacity
  old (`Latest`). So `EventsInOrder` needs the whole way of an event. A handler visits
  several buffers in a step: `PushesAll` says what the ring holds
  after any number of pushes. `BuffersSound` needs to know that a thread between its poll and its read
  has the CPU or the mutex (`Locking`): nobody takes the event it has seen. For
  `PollsTimeOut`, an action property, `ClockRight` relates the difference of the clock's
  readings to the time that has passed, until the clock wraps. The deadlock of the handler
  (`stuck`) is covered: what the invariant says of buffers and events ends there.
* `TtyProofs`: `TtyInvariant`. The number of newlines is that of the occupied
  positions of a ring that has wrapped; `PushItems` and `PopItems` say which positions
  change, `PushCounts` and `PopCounts` what that does to the number, also when a push
  into a full ring drops the oldest byte. The invariant adds that an unfinished line
  holds no newline (`LineClean`) and that a read that was let in still finds a line,
  whatever interrupts pushed and dropped since (`ReadSound`). For a pty these hold
  always. For a UART they hold up to an interrupt in the middle of an update of
  `read_pos`, `count` or `m_available_lines`: after it (`pc = "torn"`) the invariant
  keeps the types only, and the theorems claim nothing.

Only model-checked, and why:

* the liveness properties: fairness is outside what the prover handles;
* `Vm`: its memory is threaded through folds over sequences of pages, and the prover
  cannot unfold a fold for every length;
* `Fat32` and `BlockDevice`: their four invariants need a theory of byte ranges over
  sectors and of cluster chains, which is not written (see the plan).

No proved module declares a recursive operator. Recursive functions over the natural
numbers occur (`Virtqueue!free_list`); where a fact about one is needed for every
length, the proofs argue about the least number for which it would fail
(`LeastNatural`), which replaces the induction theorems that take an operator.

## Not modelled

stat, working directories and the text of paths; the calls that copy a value out of
the kernel; devfs, which forwards to devices; interrupt controllers, clocks, GPIO, the
SD card and the registers of the UARTs; boot code, and the format of ELF files.
Logging is left out, including the log statement of `sys$waitexit` that reads a freed
process. `timer_exec_periodic`, `mutex_take_with_timeout`, the reentrant lock,
`vm_copy_from_user` and its kin are used by nothing that is modelled.
`vm_unmap_page` would give a table of 1KB back as one of 16KB, but nothing unmaps user
memory, so that branch is not reached.

Programs are not modelled: they are the environment, any sequence of system calls.
By lines they are nearly all of the repository, and nearly all of that is third-party
or data: doomgeneric alone has seven tenths of the lines, with the tables of
`elf.h` and of the fonts next. The parts above are the kernel's own logic.

## Plan

Modelled and checked: VFS, pipes, scheduler, pages, terminals, ptyfs, tempfs, virtual
memory and the kernel heap, execve and mmap, FAT32 over block devices, the virtio queue
with its block, display and input drivers, poll. Proved: all of these but virtual memory
and FAT32, that is every safety and action property of ten of the twelve runs. Left:

1. `BlockDevice!Transferred`, then `Fat32!TransfersSound` and `CacheHonest`.
2. `Vm`: theorems about single operators (`vm_map_page`, `fork_entry`) first.
