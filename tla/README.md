# A TLA+ model of nvmf-over-hdfs

The repository moves HDFS blocks to and from NVMe-oF devices, through a file
system in user space that comes with its own copy of libfuse. This directory
holds TLA+ modules of the programs and of the parts of libfuse they run on, TLC
configurations that check them on small instances, and TLAPS proofs for
instances of any size.

    tlc -config serial_data.cfg MCLiFS.tla      # a run; all are listed in 3
    tlapm LiFSProofs.tla                        # a proof module

## 1. The system

| part | code | state | operations |
|---|---|---|---|
| LiFS | `lisafuse/rewrite.c` | the device; `fd` and its file position; `cur_offset`, `p_bitmap`, `block_id_use`, `pMeta`, `pData`, `pFd` | `main`, `lfs_getattrr`, `lfs_readdir`, `lfs_open`, `lfs_write`, `lfs_read`, `lfs_release`; `mknod`, `flush`, `getxattr`, `truncate` do nothing |
| bitmap | `lisafuse/bitmap.c` | a buffer of bytes, the bytes on the device | set, unset, get, list the used bits, list free bits, read, write |
| layout | `lisafuse/hdfslowfs.h` | none: macros of device size and block size | offsets and sizes of the regions |
| readhdfs | `client/hdfstest/readhdfs.cpp` | a stack of directories, the list of files, `filesblk` | walk the namespace, write the blocks and hosts of every file |
| init | `client/MFS/init.cpp` | `path_vec`, `datanode`, `blk_id`, the lists `slave1`, `slave2`, `node` | read `filesblk`, number the blocks, split them per node |
| write2Client | `datanode/write2Client.cpp` | none | read the list of the node; the copy is commented out |
| LiFS, older | `lisafuse/ltils.c` | one table `file` instead of three | as LiFS, without release |
| MFS | `client/MFS/main.cpp`, `bitmap.cpp`, `common.h` | | `main.cpp` is commented out, `bitmap.cpp` is unused |
| libfuse: session | `lib/fuse_loop_mt.c`, `lib/fuse_lowlevel.c`, `lib/fuse_signals.c` | the list of workers and its counters, `se->exited`, a semaphore; the lists of requests and of interrupts | start and stop threads, read a message, serve it, interrupt it, reply, end |
| libfuse: node tree | `lib/fuse.c` | nodes by number and by parent and name, two counts and a lock in each; the queue `lockq` | a path for a node, lookup, open, create, link, unlink, rename, forget |
| libfuse: data | `lib/fuse_lowlevel.c`, `lib/buffer.c` | a pipe per thread, buffer vectors | receive, `write_buf`, the reply to a READ, `fuse_buf_copy` |
| libfuse: node tables | `lib/fuse.c` | two hash tables that grow and shrink a bucket at a time, `ctr`, `generation` | add, find, rename, exchange and drop a node, give it a number |
| libfuse: directories | `lib/fuse.c` | `fuse_dh` of each open directory | opendir, readdir, readdirplus, releasedir |
| libfuse: mount | `lib/mount.c`, `lib/mount_util.c`, `lib/helper.c`, `util/fusermount.c` | the mounts of a path, its entries in `/etc/mtab`, the lock of that file, who has the descriptor | mount, as root or through `fusermount3`, unmount, clean up after a crash |
| libfuse: rest | `lib/fuse_opt.c`, `lib/modules`, `lib/cuse_lowlevel.c`, `example`, `test` | | see 6 |

Paths under `lib` and the like are those of `lisafuse/libfuse-master`.

How they meet. The operator runs readhdfs, then init, and copies the lists to the
DataNodes. LiFS runs on the client. A message from the kernel is read by a worker
of the session, which registers the request, takes its data from the pipe or from
memory, asks the node tree for the path, and calls LiFS with it; the reply goes
back the same way, and an interrupt may meet the request anywhere in between. All
callbacks of LiFS share one file descriptor and the tables, with no lock; libfuse
runs them one at a time with `-s` and in several threads without it. LiFS goes by
the macros for every address and by the bitmap for every new block.

What is hard.

- `fd` of LiFS has one position for everybody. Seek and transfer are two system
  calls, the seek is skipped when `cur_offset` says so, and half of the callbacks
  move `fd` without telling `cur_offset`.
- A block number passes through five places: the file name, `pData` or `pMeta`,
  the handle in `pFd`, the bitmap in memory or on the device, the `block_info` on
  the device. Lookup, open, write and release each update some of them.
- A restart keeps the device and empties the tables.
- The macros mix `int`, `size_t` and `double`; the three export programs agree on
  a file format by position of its lines.
- In libfuse, requests and their interrupts are read by different threads in any
  order, and the callback of an interrupt works on the stack of another thread.
- Threads leave the pool when too many are idle, while others start new ones, and
  are cancelled in a read when the session ends.
- A path is only true while nobody moves a directory on it: the locks of its
  nodes are counts with an offset for waiting writers, taken in steps for two
  paths, and given to those who wait in the order of a queue.
- A file that is unlinked while it is open is renamed to a hidden one, which the
  last close removes; open, close and unlink meet in several orders.
- Any transfer may be short. What is left in a pipe is read as the next request.
- A directory changes while it is read in pieces, and its handle is closed while
  a reply still gives up its lock.
- A hash table is halfway between two sizes most of the time, and each of its
  operations must know which of two buckets a key is in.
- A mount, its entry in `/etc/mtab` and its descriptor come and go in separate
  steps of several processes that only know the path, and each of them may end in
  between.

What makes each part correct: nothing acknowledged is lost or overwritten by
another file, reads return it, a stat returns the published length (LiFS); the
bytes are a set of block numbers and the loops list it (bitmap); the regions and
blocks are disjoint and fit the device (layout); every block is on one list, at
a place of its own (export); a request outlives its users, no interrupt is lost,
every request is answered and the loop ends when it is told to (session); the
path that a handler works on is that of its node, and counts are those of the
kernel (node tree); replies and writes have the bytes of their own request
(data); a reader of a directory gets each entry once (directories); the tables
find every node and no other, and no number is given twice (node tables); nobody
takes away the mount of a server that runs, and that of a dead one goes (mount).
`PROJECT.json` lists the hazards with their lines.

## 2. Modules

| module | what it is |
|---|---|
| `LiFS` | `rewrite.c`: state, one action per stretch between two system calls on `fd`, properties |
| `BlockStore` | abstract: per file a number of cells and a published size. `LiFS!ImplementsStore` is the refinement |
| `LiFSSerial` | the supported uses and their inductive invariants `SerialInv`, `StoreInv`, `RestartInv` |
| `MCLiFS` | symmetry for TLC |
| `LiFSProofs` | theorems about LiFS, the abstract store and restarts |
| `Bitmap`, `BitmapProofs` | `bitmap.c` and its theorems |
| `BitSet` | abstract: a set in memory and a copy on the device, and the last call with its index, so that a call answers for its own block only. `Bitmap!ImplementsBitSet` is the refinement |
| `Layout`, `MCLayout`, `LayoutProofs` | the macros of `hdfslowfs.h` and the transfers by them |
| `Export`, `MCExport`, `ExportProofs` | readhdfs, init and write2Client, one after the other, and theorems about the lists |
| `FuseRequests` | requests and interrupts: what a worker does with a message it has read |
| `FuseLoop`, `MCFuseLoop` | the pool of workers around it, the main thread, exit, signal and unmount |
| `FuseLoopProofs` | theorems about both |
| `NodeTree` | operators on the node table: names, counts, path locks |
| `FuseTree`, `MCFuseTree` | the handlers that resolve, lock and change paths with them |
| `BufCopy` | operators on buffer vectors: a copy, and what each of its system calls may make of it |
| `FuseData` | a worker and its pipe, from one request to the next |
| `FuseDirs`, `MCFuseDirs`, `FuseDirsProofs` | directory handles and theorems about them |
| `NodeTable`, `NodeTableProofs` | the hash tables under the node tree and their theorems |
| `NodeMap` | abstract: a map from numbers to names. `NodeTable!ImplementsNodeMap` is the refinement |
| `FuseMount` | the servers, helpers and persons that mount and unmount one path |
| `DeviceProofs` | theorems about `FuseData` and about `FuseMount` |
| `MCTables` | instances of `Bitmap` and `NodeTable`, one of the two in a behaviour |
| `MCDevice` | instances of `FuseData` and `FuseMount`, one of the two in a behaviour |

`LiFS` works with cells and sets where `Bitmap` and `Layout` have bytes. Those two
modules are the reason why it may: `Bitmap` implements the set that `LiFS` uses
for it, and `Layout` shows on which devices the regions are as apart as the cells
of `LiFS`. `NodeTable` stands in the same way to `NodeTree`, which has the nodes
as one function and finds them by number and by name. Of libfuse, `FuseLoop` composes with `FuseRequests` (a thread of the
pool is the worker that serves a request); the tree, the data and the directories
are about what happens inside the step of `FuseRequests` that is the operation of
the filesystem, and share no state with it or with one another but the thread.
`FuseMount` is what is around all of it, from the first line of a server to after
its death: `Stop` is where the loop of `FuseLoop` ends, and `StopGone` its end by
`ENODEV`.

### LiFS and the code

The device is a sequence of cells: superblock, bitmap, slack, one cell per
`block_info`, path region, then per block `CsmCells` and `DataCells` cells. One
request moves one cell, so a file of several cells is one written by several
requests. Foreign bytes read as a bitmap or a `block_info` are zeros (file
contents could also look like one; a client does not choose that).

| action | code |
|---|---|
| `Mount`, `Stop` | `main` 343-381; unmount or kill at any step |
| `ScanSeekInfo`, `ScanReadInfo`, `ScanSeekBitmap`, `ScanReadBitmap` | `lfs_getattrr` 52-106 and `lfs_readdir` 114-157, which makes the same calls; `read_bitmap` |
| `OpenMetaFound`; `OpenMetaSeek`, `OpenMetaRead`, `OpenMetaSeekBack`, `OpenMetaWrite` | `lfs_open` 170-196 |
| `OpenDataFound`; `OpenDataPick`, `OpenDataSet`, `OpenDataWrite` | `lfs_open` 198-236 |
| `WriteSeek`, `WriteData` | `lfs_write` 262-279 |
| `ReadSeek`, `ReadData` | `lfs_read` 282-299 |
| `ReleaseSeek`, `ReleaseWrite` | `lfs_release` 241-260 |

A handler's local variables are in `req`, its place in `pc`. `len` and
`published` are history: what was acknowledged and what was released. Entry -1 of
a table and bit -1 of a bitmap change nothing that the model keeps; memory from
`malloc` is zero, as fresh pages are; a field of the stack that is not set is any
value of `StackJunk`.

From outside the repository the model takes the following. The kernel looks a path
up before it opens it, sends one write at a time to a file, writes at or before
its end, reads what was written, and releases a handle once. `Exclusive` is the
use the test procedure describes (one copy at a time, 测试流程.txt:20-21): paths
are looked up while nothing is open, and nothing is opened between the transfers
of a copy. `Exclusive = FALSE` and two threads are what the program allows.

### Layout and Export

`Layout` has the macros with their casts: `ceil(n)` is `((int)n+1)`, so the cast
binds to the first operand of `n`, the device size. A `double` beyond an `int`
converts to the lowest `int` (x86). `sizeof(struct super_block)` is 520, not the
512 that the diagram and `BLOCK_NUM` have. State is the last two transfers, which
may be any two, each with the region, block and file that it belongs to.

`Export` keeps files as sequences of lines. The line that `fgets` leaves in the
buffer at the end of the file is the last one. The branch of `getfileblk` for a
line that starts with `file` is never taken, because readhdfs writes paths that
start with `hdfs://`. write2Client opens `./slave1` on every DataNode. The walk is
`ListDirectory` and one `KeepInfo` per entry, the lines of a file are `WriteFile`
and one `WriteBlock` per block. `ExportAssumption` is what HDFS guarantees: the
namespace is a tree below the root, a file is no directory, and a block is a part
of one file. It answers the same while the programs run.

### The session and the code

`FuseRequests` has the lists of `fuse_session` (`list`, `interrupts`), the
`fuse_req` of each request with its count, its flag, its callback and its lock,
and the `fuse_intr_data` on the stack of the thread that serves it. A step is what
a thread does under one lock or between two.

| action | code |
|---|---|
| `Register` | `fuse_session_process_buf_int` up to the handler, `check_interrupt`, `list_add_req` |
| `Prepare`, `OpStep`, `Finish`, `Unset` | `fuse_prepare_interrupt`, the call of the filesystem, `fuse_do_finish_interrupt` up to its broadcast, `fuse_req_interrupt_func(req, NULL, NULL)` |
| `Reply`, `fuse_free_req`, `ForgetDone` | `send_reply_iov` and the end of the request |
| `Find`, `Interrupt`, `fuse_interrupt`, `Put` | `do_interrupt` and `find_interrupted`: the count under `se->lock`, the lock of the request, its callback, the drop of the count |
| `Top`, `ReadMsg`, `ReadGone`, `Cancelled` | `fuse_do_work` at its loop condition and at the read, where alone a thread can be cancelled |
| `Account`, `After` | the counters before and after a message: the last available thread starts another (`Started`) or fails to, which the code does not look at; one that is too many leaves |
| `OpExits`, `Signal`, `Unmount` | `fuse_session_exit` in an operation, `exit_handler`, `ENODEV` |
| `Loop`, `CancelAll`, `Join` | `fuse_session_loop_mt` |

`unstarted` is history: a thread could not be started.
An operation in `Blocking` waits in a system call until a signal interrupts it;
one in `Exiting` may call `fuse_session_exit`. The kernel sends each request once
and at most one interrupt for it, after it was read (again if it is answered with
`EAGAIN`).

### The node tree and the code

`NodeTree` has the table as a function from numbers to nodes and one operator per
function of `fuse.c` that works on it under `f->lock`. `FuseTree` has one action
per stretch under that lock, per call of the filesystem and per reply: `GetPath`,
`GetSecond` and `Wake` are `get_path_common`, `get_path2` and `wait_path`;
`FreePath` and `FreeSecond` are `free_path` with the wakeups of the queue;
`FsLookup`, `FsCreate`, `FsUnlink`, `FsRmdir`, `FsRename` the calls; `FindNode`,
`MoveNode`, `CountOpen`, `CloseNode`, `IsOpen`, `Hide`, `HideNode`,
`UnlinkHidden`, `Forget` what `find_node`, `rename_node`, `open_auto_cache`,
`fuse_do_release`, `hide_node` and `forget_node` do; `Answer` and `Refuse` the
reply and the handlers' clean-up when the kernel does not take it. `getattr`
stands for every handler of one path that changes nothing in the table, `mknod`
for `mkdir` and `symlink` as well.

The kernel is external: it locks the directories that a request changes, has one
lookup of a name at a time, and forgets what it knows. The filesystem has one
directory under its root.

### Data, directories and the code

`BufCopy` has a `fuse_buf_copy` as a record: its two vectors, `copied`, and
where it is. `fuse_buf_copy` and `fuse_buf_fd_to_fd` give the set of records that
one turn of their loops may leave, when any system call may fail or move less than
it was asked for: `fuse_buf_copy_one`, `fuse_buf_splice` and `Transfers` (read,
write, splice) choose the call, `After` is the rest of the loop with
`fuse_bufvec_advance`. A call repeated for `FUSE_BUF_FD_RETRY` is one turn.

`FuseData` is one worker:
`ReceiveInPipe`, `ReceiveSmall` and `ReceiveInMemory` are
`fuse_session_receive_buf_int`, `Process`, `ProcessHeader`, `Dispatch`,
`DispatchBody`, `Refuse` and `ProcessFails` are `fuse_session_process_buf_int`,
`WriteBuf`, `do_write_buf` and `SetXattr` the two ways to take data, and `Read`,
`SendInPipe`, `SendInMemory`, `SendGathered`, `Fill`, `More`, `MoreRest`, `Device`
are `fuse_send_data_iov` with its fallbacks. A function that calls `fuse_buf_copy`
is two actions: the first leaves the copy in `copy` (`Begin`), `Copying` takes one
turn of it, and the second goes on with what it returned (`Copied`). A token is a
header or a page.

`FuseDirs` has the `fuse_dh` of each handle, filled at once (`list`) or up to the
size of a reply (`offsets`), while `Create` and `Unlink` change the directory.

### Node tables and the code

A table is its array, `size`, `split` and `use`. `Slot` is `id_hash` and
`name_hash` behind the hash value; `Hash`, `Rehash`, `Split` and `Double` are
`hash_id` and `hash_name` with `rehash_id`, `rehash_name` and
`node_table_resize`, which may be left without memory; `Unhash`, `Remerge`,
`Merged` and `Reduce` are their way back. `Find` is `find_node` where it makes a
node, with `next_id`; `Remove`, `Rename`, `Exchange` and `Forget` are
`remove_node`, `rename_node`, `exchange_node` and `delete_node`. A chain is the
set of its keys, because nothing depends on its order. A name is a parent with a
name in it. Not in this module: the parents and counts of the nodes, which
`NodeTree` has, and the failure of `realloc` in `node_table_reduce`, which it
ignores. `next_id` of the code loops for ever when all 2^32 - 2 numbers are in
use; the model has no step there. `generation` is bounded by `MaxGeneration`. The
kernel does not exchange a name with itself.

### The mount and the code

A place in `at` is a point between two system calls of a process.

| action | code |
|---|---|
| `Stat`, `MountSys`, `AddEntry` | `fuse_mount_sys`: `stat` and the open of the device; `mount(2)`, after whose `EPERM` the helper is asked; the entry, and the unmount if it fails |
| `AskHelper`, `Receive` | `fuse_kern_mount` with `fuse_mount_fusermount`: the fork of the helper, what comes back, and the second try |
| `HelperChecks`, `HelperMounts`, `HelperAdds`, `HelperSends` | `mount_fuse` of `fusermount.c`: `check_perm`, `do_mount`, `add_mount`; `send_fd` |
| `Lock`, `May`, `Detach`, `RemoveEntry` | `unmount_fuse`: `lock_umount`, `may_unmount`, `umount2`, `fuse_mnt_remove_mount`, with `unlock_umount` in `End`. A server that is root runs `/bin/umount`, which does the last two. Each may fail: without the lock the unmount goes on, without the user's entry or the unmount it ends, without the removal the entry stays |
| `Stop`, `StopGone`, `Poll` | the end of `fuse_main_real`, `fuse_kern_unmount` |
| `Awake`, `StillMounted`, `NotConnected` | `main` of `fusermount.c` behind its `recv` loop; the two halves of `should_auto_unmount` |
| `Start`, `Kill`, `PersonUnmounts` | from outside |

History: `raced`, `lost`, `stale`, `early`, `unlocked`, `orphaned` and `failed`,
the helpers that an error or a signal ended. External: a connection lives
as long as somebody has its descriptor; `stat` and `open` of a dead mount fail;
the helper is setuid; all processes are root's, or one user's; nobody mounts over
a file system that is served, or starts two servers on a path at once; the
`umount` of a person may find the mount busy, that of the others is lazy.

## 3. Runs

All states of an instance are explored in every run. Deadlock is not checked
where a program ends (`Export`, `FuseLoop` after the loop, `FuseMount` when each
server has run), crashes (`Layout`), where the bound of the generation is reached
(`NodeTable`), or where the kernel has a bounded number of requests to send
(`FuseTree`, `FuseData`, `FuseDirs`); in `FuseTree` a deadlock of threads is the property `QueueMoves`
instead.

| run | instance | what it shows |
|---|---|---|
| `serial_data` | 2 data files, 3 blocks, 2 cells each, overwriting, 2 open at once | serial copies: `LayoutIntact`, `NoLostData`, `ReadsReturnWrites`, `HandlesApart`; and `ImplementsStore` |
| `serial_meta` | 2 checksum files on 2 blocks, overwriting | the checksum half, up to a full device and through the lookup that fills `pMeta`: `BlockOwnership` |
| `restart` | 2 data files, 4 blocks, 2 starts | a kill at any system call: what was acknowledged and the lengths last released are still there until a file is opened |
| `tables` | 10 bits in 2 bytes, up to 2 blocks wanted; or 2 names, numbers below 5, tables of 2 buckets at first | the bytes are a set, the search finds the lowest free ones; the tables are a map, numbers are new |
| `layout` | 25 devices of 0 to 50 blocks, an `int` of 18 bits | regions apart, a bit per block, the last block on the device |
| `export` | 4 blocks in 4 files and 3 directories, all 256 assignments of 4 host lists | each located block on the list of its first host, once, at a place of its own |
| `session` | 2 workers, 2 requests of which one waits for a signal and one may exit, 1 forget, idle limit 1 or none | requests and callback data outlive their users, interrupts are not lost, the counters are those of the list; requests are answered, an interrupt ends its operation, the loop ends |
| `tree` | 3 threads, 3 requests of two sets of operations, refused replies | `HeldPathsTrue`, `LocksCounted`, `LookupsCounted`, `OpenFilesKept`, `HiddenFilesOwned`, `QueueMoves` |
| `device` | 2 writes, a read and another large message, replies of up to 3 pages, both kinds of splice; or 2 servers, one with `auto_unmount`, and a person | nothing stays in the pipe, writes and replies are exact; `LiveKept`, `MtabAgrees`, `CrashCleaned`, with any step of a mount or unmount failing |
| `dirs` | 3 names, one of them long, 2 threads, 1 handle, 4 requests | a reader gets each entry once, nodes are counted, handles are kept |
| `stat_between_writes` | 1 file, lookups at any time | violated: `NoLostData` |
| `rename_deadlock` | 3 threads, `getattr` and `rename` | violated: `NoDeadlock` |

Why the bounds are enough. Two files and two sessions give every way in which two
users of a table, a bit or a handle can meet; three blocks leave a free one, and
two are a full device. Two cells make a file whose second write relies on
`cur_offset`. Two starts are one restart. `MaxBytes` bounds how often a file is
overwritten, and it is twice its length. The bitmap has a full and a partial byte.
The devices of `layout` step over every boundary of the macros: a byte of the
bitmap, a sector of the `block_info` table, the end of the range of an `int` and
its wrap.

In `session` a request, its interrupt and a forget are three messages for two
threads, so that the interrupt can be read before, while and after its request is
served, and the pool can be empty, full and one too many. `tree` begins with a
directory and a file that are looked up, the file open or not, so that three
requests are enough to have one that holds a path, one that waits for it and one
behind that in `lockq`, or to unlink, close and rename one open file. A behaviour
of `tree` has the operations of one of the two sets of `MCOpSets`; operations of
different sets do not meet there. `Refuses` has one reply of each kind that is
undone but `create`, which is the third limit below. `CloseRace = FALSE`: a file
is not closed by its last handle while it is opened once more (the sixth). The
first side of `device` has a message behind each that may leave something in the pipe. In `dirs` the
room of a reply holds every entry but not two of them, and the four requests are
an open, two reads with a change or a rewind between them, and a close. The
tables of `tables` double twice and go back, the names share a chain until the
second time, a number wraps around and meets one that is in use. In `device` two
servers are one that left a mount and one that comes after it or while its helper
still looks; the person unmounts in between. Only a third server could come
between two others: `LiveMountsKept` and `MtabKept` are proved for any number. The
theorems are for every value of the bounds they name.

Fairness is stated for `session`, as `FairSpec`, and for the mount. `WF(WorkerStep(w))` and
`WF(MainStep)`: the threads of a process run, and no step of a worker is disabled
again by another before a fair scheduler takes it, but for locks that are given
up (the lock of a request, which one thread has at a time). `WF(Read(w))`: a
`read` of the device returns when there is a message, an error or a cancellation.
Nothing makes the kernel send, interrupt or unmount, nothing makes a signal come,
and an operation in `Blocking` ends only by an interrupt. `OpStep` under that
fairness says that other operations of the filesystem end: those of LiFS are
bounded sequences of system calls.

`MountFairness` of `FuseMount`: each server, each helper and each process that
unmounts goes on when it can, one step after the other as a process does. A step
that may fail may fail each time: fairness prefers no outcome. A lock of
`/etc/mtab` is held by one that goes on. Nothing makes a server start, stop or
die, or the person unmount; `CrashCleaned` needs none of that, because the end of
the socket wakes the helper.

The conditions of the three liveness properties of `session` are those of the code. `Answered`
is about a pool with one thread more than operations that wait, and about a start
of a thread that does not fail: with every thread blocked nobody reads the
interrupt that would free one, and nobody looks at what `fuse_loop_start_thread`
returns (`fuse_loop_mt.c:166-167`; `NobodyReads`). After a failed start a request
waits only as long as every thread does. `LoopEnds` after a plain
`fuse_session_exit` needs `max_idle = -1`: a worker that leaves as one too many
after the main thread has set `mt->exit` does not post, and one that leaves before
it frees itself, so with an idle limit main may wait in `sem_wait` for a post that
nobody gives until the next message. After `Signal` it has no promise short of an
unmount, because a signal between the test of `exited` and `sem_wait` is not seen
by either.

The two violated runs are the findings of `PROJECT.json`:

1. A stat, a listing or an open between two writes of a copy misplaces the next
   write (`rewrite.c:271`).
2. A rename at the head of the queue that holds one of its paths, and a rename
   behind it of a directory on that path, wait for each other for ever
   (`fuse.c:1136`); the comment there says that a partially locked first element
   is safe.

Limits that the passing properties name in their conditions, or that the inputs
leave out; each can be had from the modules by changing what is named:

1. LiFS without `-s`: two reads mix their seeks (`rewrite.c:291`; `Threads` with
   two elements). The checksum file of a block that exists gets a handle without
   offset (`rewrite.c:177`; `Kinds` with both). A release after overwriting
   publishes too great a length. After a restart the first data open takes a new
   block for an old file. `pFd` has no entry for the data handles of the last two
   blocks.
2. From 2 GiB on, the table space is computed from the cut device size
   (`hdfslowfs.h:37,68`): `Small` is the condition of the properties of `Layout`.
   The last block may end behind the device when the division leaves less than
   the rounding takes. A block without a live replica hides the one `filesblk`
   has directly behind it from init (`init.cpp:111`): that one (`BehindLost`) is
   the exception of `LocatedBlocksListed` and `NodeSeesItsBlocks`, which claim
   every other block with a replica.
3. A `create` whose reply is refused closes its file (`fuse.c:3204`) while the
   kernel no longer takes it for open: an unlink that found it open just before
   hides it after its last close, and nobody removes the hidden file
   (`Refuses` with `create` breaks `HiddenFilesOwned`).
4. `rename` that fails after `hide_node` leaves the target under its hidden name
   (`fuse.c:3089`).
5. `copy_file_range` waits for its second path with its first (`fuse.c:4361`):
   `QueueMoves` counts such a thread as one that may sleep.
6. `open` counts the node open after the filesystem has opened the file
   (`fuse.c:3145-3153`); a close between the two removes the hidden file.
7. `readdirplus` whose reply is cut does not give back the lookups of the entries
   it dropped (`fuse.c:3574`, `3701`; `fuse_lowlevel.h:1174-1176`): `KnownCounted`
   is an inequality.
8. A READ whose reply fails in `fuse_send_data_iov` past its fallbacks gets none:
   `RepliesExact` says at most one.
9. `umount2` takes what is on top at that moment. When somebody else unmounts and
   a server mounts between the look of a helper or an ending server and its
   `umount2`, it takes the new mount (`raced` in `LiveKept`).
10. A server that is killed before its helper has sent the descriptor leaves its
    mount: the signal of the broken socket ends the helper (`orphaned`), although
    auto_unmount is "for any reason" (`doc/mount.fuse3.8:143`). The helper may also
    still be about to mount, over a server that has come since. Then there are
    two mounts on the path, and who unmounts may take the live one of them
    (`orphaned /\ Len(mounts) > 1` in `LiveKept`). Any other error of a helper
    (`failed`) leaves the mount too.
11. A mount whose entry failed stays, without a descriptor ("Can't clean up mount
    in a non-racy way", `fusermount.c:1131`), and a user cannot unmount it, because
    `may_unmount` finds no entry (`lost`). An entry whose removal failed stays
    without a mount, `chdir` failing before it (`fusermount.c:436-442`) or the child
    that runs `umount` (`mount_util.c:217-264`): `stale`. A mount that is unmounted before it has
    its entry leaves the entry (`early`). `MtabAgrees` is two inequalities, each of
    which names the failure that breaks it: entries missing are excused by `lost`
    alone, entries too many by `stale` alone, both by `early`.
12. `lock_umount` goes on without the lock when its file cannot be opened or locked
    (`fusermount.c:111-123`): then the entry that `may_unmount` has found may be
    removed by another (`unlocked` in the second half of `MtabAgrees`), and with
    a mount that has no entry it may be the one a helper needs (`unlocked /\ lost`
    in `CrashCleaned`).

Each property of a passing run has a mutant in `PROJECT.json`: a bug of a mapped
definition with which TLC finds the property violated. Short definitions like
`UnsetUnlocked` before `Unset` are those bugs.

## 4. Proofs

Everything below is checked by tlapm 1.4.5 with Z3, Zenon and LS4.

**`LiFSProofs`.** `TypeCorrect`: `Spec => []TypeOK`, for all constants that
satisfy `ConstantsAssumption`, threads and mounts included. `TypeOK` is inductive
with its part `HandlersOK`: a handler past its lookup has a file and a session.

Under `SerialDataCopies` (exclusive, data files, one thread, one start, at most
as many files as blocks, files not longer than their area): `SerialCorrect`
proves `Spec => []SerialInv`, and from it follow `SerialLayout`, `SerialNoLoss`,
`SerialReads`, `SerialOwnership`, `SerialMarks`, `SerialOffsets` and
`SerialHandles`, each for one property of `serial_data` or `serial_meta`.

None of these properties is inductive. That a write hits its block needs the
position of `fd` (`PositionInv`: `cur_offset` points into the blocks only while a
file is open that has moved data, and then it is right). That its block is its
own needs the tables (`TablesInv`: a bit is set exactly for the blocks that
`pData` names, each number once, and the handle has the block's offset). That a
lookup does not spoil `pData` needs the device (`InfoInv`: a block nobody has
open has its own number in its `block_info`). `BitmapInv` allows the one moment
when a bit is set in memory and not on the device, and `HandlerInv` says what a
handler knows at each of its system calls. The step has one lemma per action and
one step per conjunct that the action touches.
`SerialHandles` needs one invariant more, `LowestInv`: blocks are given out from
the lowest on and none is given back, so a used block is below their number.

`SerialStore`: in the same use `LiFS` implements
`BlockStore`. What a client sees of a file is the size of its handle, its cells on
the device and the length in its `block_info`; `View` says where each of them is
while `SerialInv` and `StoreInv` hold. `StoreInv` adds to `SerialInv` that no
`block_info` names a file without a block (`FreshInv`), that the size of a handle
counts the cells it has accepted (`CountInv`), and what a release is about to
write (`ReleaseInv`). Then `WriteSeek` is `Accept`, `WriteData` is `Land`, or
nothing when the cell was there before, `ReleaseWrite` is `Publish`, and every
other step leaves the view alone: one lemma per action for what it does to the
view, one for the step it maps to.

`StatOutlives` and `DataOutlives` are about a kill and a second start, under
`RestartedCopies`: two starts (a third would follow an open that gives an old file
a new block, the first limit of 3), and no overwriting, because a handle that
counts every write publishes more than the length of an overwritten file. Until
the kill `SerialInv` and `StoreInv` hold, and each published length is in the
`block_info` of its file (`PublishedInv`, which needs `LengthInv` and
`AppendInv`: without overwriting, the size is the length). From the kill on, as
long as no data file is opened, nothing is written (`KeptInv`).

**`BitmapProofs`.** For every size and number of bytes with `Size <= 8 * Bytes`:
types, `UsedListed`, `FoundLowest` (from the loop invariant `LoopInv`: the list
is the wanted bits below the loop variable, ascending, and not yet full), and
`BytesAreSet`, the refinement of `BitSet`, in which a call changes the bit of its
own index and of no other, and none for an index outside.

**`LayoutProofs`.** For every block size and every device of less than 2^31 + 512
bytes: `LayoutApart`, no two transfers of different owners share a byte;
`LayoutCovered`, which is the assumption `Size <= 8 * Bytes` of `Bitmap`; and
`LayoutFits`, no transfer ends behind the device if the division leaves over
1545 bytes, the most that the superblock, the last byte of the bitmap and three
sectors can take more than `BLOCK_NUM` leaves for them. The invariant places each
transfer in its table or block; `RegionsInOrder` and `BlocksFit` are the
arithmetic.

**`ExportProofs`.** For any namespace, any blocks of its files and any hosts:
`ExportLists`, `ExportOnce` and `ExportShown`, for the three properties of
`export`. Each program needs what the one before it left, so `ExportInv` goes
through all three. Of readhdfs (`WalkOf`): the directories already listed, their
entries being listed, to be listed or found; when nothing is left to list they
are closed under entries, and so are all directories (`WalkComplete`). Each file
is found once (`Apart`), so each block has one line that starts it, with its name
behind that and then its first host (`LinesInv`). Of init (`PathsInv`, `InitInv`):
every name comes from such a line that was not read before; behind a block that has
no host a line is taken for one, so of the blocks whose first line is passed
(`ReadTo`) all are taken but those that are `BehindLost`. Of the lists (`AssignInv`): a list has for each number
that went to its node the name and the number, in pairs.

**`FuseLoopProofs`.** For any number of workers and
requests, any `max_threads` and idle limits, and any way to end: `TypeCorrect`,
`RequestsAreHeld`, `CallbackDataIsLive`, `InterruptsNotLost` and `PoolIsCounted`,
each for the property of `session` of that name. None is inductive. `RequestsInv`
says where the messages of a request can be: its own is with the kernel or one
worker (`OpsInv`), its interrupt with the kernel, one worker or the session, and
there only while the request is not in service (`IntrInv`). Then the count is one
for the thread in the list and one for the thread that carries the interrupt
(`CountInv`), the lock is held exactly over the callback (`LockInv`), and while
the callback is set or runs, the serving thread is still inside its frame
(`DataInv`). `DeliveryInv` follows an interrupt that is sent until it is noted in
its request; it is lost only when the session was flagged and a message is
dropped. `LoopInv` adds what the pool needs: a thread that runs is in the list,
and `mt->exit` is set only after the flag. There is one lemma per step of a worker
and one for each kind of step of the kernel and the pool.

**`NodeTableProofs`.** For any names, any two hash functions and any highest
number, any size to begin with that is a power of two, and any number of merges:
`TablesAreMap` and `NumbersAreFresh`. The invariant `NodesInv` has for each table
that its size is a power of two, `split` is within its half, and each bucket has
exactly the keys that are looked for in it (`Keeps`). A step of growing changes
`Slot` for the keys of one bucket only, which it moves (`SplitKeeps`), and when
all are moved the doubled table has the same `Slot` (`DoubleKeeps`); shrinking is
the way back (`MergedKeeps`, `ReduceKeeps`). No two nodes have one name, and every
number given in this generation is not above `ctr` (`GivenInv`).

**`DeviceProofs`**, the data. For any set of messages of any sizes, answers of any
size, any size of the chunks and every outcome of every system call:
`DataPipeDrained`, `DataWritesExact` and `DataRepliesExact`, for `PipeDrained`,
`WritesExact` and `RepliesExact` of `device`. None is inductive, because each
depends on what a copy did that began several steps before.

What a copy keeps is `Good`. With n moved so far, the first n tokens are in the
destination, in order (`Dest`), and the rest is in the source, from the next one on
(`Source`); a memory source is full and may be in front of a file. Between two
chunks of `fuse_buf_fd_to_fd` the same holds with the chunks moved so far
(`Inner`). One thing breaks it: a chunk that was read from a descriptor without
seek and could not be written is gone, so the source has a hole (`rest` is not
"all"). Then the copy is over, or the splice was forced and there are no chunks.
`CopyingGood` is the step: `TransferGood` for a system call, `SlowGood` for a
chunk, `AfterGood` for what the loops make of the result, over `RunPiece`,
`DestStored` and the other lemmas about pieces of a sequence.

`DataInv` says at each `pc` what is in `pipe`, `buf`, `vec` and `copy`
(`Places`): the message that is received and from which of its tokens on
(`Given`), the vector of the answer and how much of it was taken (`Vector`), the
header in front of what was put into the pipe (`Headed`). `Recorded` has what the
filesystem and the kernel got up to now, and that a message not yet sent got
nothing. One lemma per action shows that the place it goes to has what it needs.

**`DeviceProofs`**, the mount. For any number of servers, with and without
`auto_unmount`: `MountTypes`, and `LiveMountsKept` and `MtabKept` for `LiveKept`
and `MtabAgrees` of `device`. The part that never stops to hold is `Seen`: what a
process saw before it unmounts is true until somebody else unmounts. A dead mount
stays dead, because only a helper gives a server a descriptor and the server waits
for it, which `Served` counts; and with one mount on the path what was seen to be
dead is what is on top. A second mount comes only from a helper whose server was
killed: until then at most one server starts at a time (`Alone`), whoever is at
`mount(2)` has seen that nothing is mounted, and what is mounted while a server
starts is dead or its own (`Clear`). So `LiveKept` has its exception in the one
case where there are two mounts after such a kill, and holds again when one of
them is gone. `Holding` says where a process with a descriptor is.

For /etc/mtab (`MtabInv`), an entry is missing for each process at `add`, and there
is one too many for each at `remove`, but for those that were `lost` and those that
are `stale`: two inequalities between the entries, the mounts and the cardinalities
of the two sets, of which each step changes one by one process (`InStep`). While
nobody goes on without it, the lock's holder is who is between the check and the
removal, so the entry found stays (`TakesTurns`). One lemma per part of an
invariant, one step per action.

Proved without a run of their own: the types, `SerialMarks`, `SerialOffsets`,
`UsedListed`.

Only model-checked: checksum files, and of libfuse the node tree. The six
properties of `tree` rest on `NodeTree`, whose operators walk from a node to the
root and back (the locks of a path, a node that goes and takes its parents along);
what such a walk does for every tree is an induction over data, which is out of
the prover's reach, as are liveness under fairness and ENABLED: the three liveness
properties of `session` and `CrashCleaned` stay with TLC as well.

## 5. Plan

Done: LiFS, its bitmap and layout, the export programs; of libfuse the session,
the requests, the node tree and its tables, the data, the directories and the
mount; the proofs of 4. In this order remain:

1. `NodeTree` with its walks as steps, as `BufCopy` has its loops, and
   `LookupsCounted` as a theorem about it.
2. An invariant for serial copies of checksum files and the proof of the
   properties of `serial_meta`.
3. `tree` with its two sets of operations in one, on a larger machine.
4. `Ltils`, the older file system: one table, an offset per file for a shared
   `fd`, both lengths counted by every write, no release.
5. The notifications and polls of `fuse_lowlevel.c`, beside the requests.

## 6. Not modelled

- File locks of `fuse.c` (3960-4165): `fuse_new_31` clears their callbacks when
  the filesystem has no `lock` operation, and `u_operation` of `rewrite.c` has
  none, so the code is never entered.
- Options and usage texts (`fuse_opt.c`, `helper.c`), daemonizing: functions of
  `argv` before the loop, with no state that later steps rely on. Of mounting:
  the strings of mount options, the permissions of `check_perm`, `mount_max`,
  mounts of different users.
- Modules of libfuse (subdir, iconv), CUSE, examples and tests: LiFS uses none.
- In the session: the single-threaded loop, cloned device descriptors, polls and
  the notifications a filesystem may send. In the tree: exchange renames (the
  tables have them), the `remember` list, `auto_cache` and `direct_io`.
- `ltils.c`, which README.md:43 replaces by `rewrite.c`; MFS, which is commented
  out or unused; the copy `write2disk` of init and write2Client, which nothing
  calls.
- Names, modes and the output of `getattr` beyond the length; errors of the
  device of LiFS.
