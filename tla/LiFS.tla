-------------------------------- MODULE LiFS --------------------------------
(***************************************************************************)
(* The FUSE file system of lisafuse/rewrite.c: HDFS block files blk_<id>   *)
(* and their checksum files blk_<id>_1001.meta on a raw device, with one   *)
(* file descriptor fd and a handful of tables shared, without a lock, by   *)
(* every handler the FUSE loop runs.                                       *)
(*                                                                         *)
(* The device is a line of cells: the superblock, the bitmap, the slack    *)
(* after it, one cell per block_info, the path region, and BLOCK_NUM       *)
(* blocks of CsmCells checksum cells followed by DataCells data cells.     *)
(* One write or read request moves one cell.  A step ends at a system call *)
(* on fd, so handlers of different threads interleave there.               *)
(*                                                                         *)
(* A short definition followed by another one of the same name with a      *)
(* shorter ending is a plausible bug of it, never used by the model: the   *)
(* mutants that show which property would notice.                          *)
(***************************************************************************)
EXTENDS Integers, FiniteSetsExt

CONSTANTS
    BlockIds,   \* the HDFS block numbers in the file names, none of them 0
    NoId,       \* the number 0, in zero-filled memory and on a fresh device
    Kinds,      \* the kinds of file that clients touch, out of "meta", "data"
    BLOCK_NUM,  \* blocks on the device
    CsmCells,   \* cells of a block's checksum area (2*MB_SIZE bytes)
    DataCells,  \* cells of a block's data area
    MaxLen,     \* bound: the longest file that is written, in cells
    MaxBytes,   \* bound: how far the size counter of a handle runs
    Threads,    \* handlers at once: one under -s, more in the default loop
    Sess,       \* files that may be open at once
    NoSess,     \* the session of a request that has none
    Exclusive,  \* TRUE: no lookup or open between the transfers of a copy,
                \* the one use that the test procedure supports
    Rewrites,   \* TRUE: clients also overwrite what they have written
    MaxMounts,  \* bound: how often the program is started
    StackJunk   \* what an unset length field of a stack variable may hold

ASSUME ConstantsAssumption ==
    /\ NoId \notin BlockIds
    /\ Kinds \subseteq {"meta", "data"}
    /\ BLOCK_NUM \in Nat \ {0}
    /\ CsmCells \in Nat \ {0}
    /\ DataCells \in Nat \ {0}
    /\ MaxLen \in Nat
    /\ MaxBytes \in Nat
    /\ NoSess \notin Sess
    /\ Exclusive \in BOOLEAN
    /\ Rewrites \in BOOLEAN
    /\ MaxMounts \in Nat
    /\ StackJunk \subseteq Nat

Slots == 0 .. BLOCK_NUM - 1
Files == [kind : Kinds, id : BlockIds]

\* The path "/": its number parses as 0 and it takes the data branches.
Root == [kind |-> "data", id |-> NoId]
NoFile == [kind |-> "none", id |-> NoId]

-----------------------------------------------------------------------------
(* The device layout of hdfslowfs.h, in cells.                             *)

SUPER_OFFSET == 0
BITMAP_OFFSET == 1
INFO_OFFSET == 3
EXTRA_OFFSET == INFO_OFFSET + BLOCK_NUM
DATA_OFFSET == EXTRA_OFFSET + 1
block_size == CsmCells + DataCells
dev_size == DATA_OFFSET + BLOCK_NUM * block_size
Cells == 0 .. dev_size - 1

InfoOffset(i) == INFO_OFFSET + i

DevOffsetPacked(kind, i) ==
    DATA_OFFSET + i * CsmCells + (IF kind = "data" THEN CsmCells ELSE 0)

DevOffset(kind, i) ==
    DATA_OFFSET + i * block_size + (IF kind = "data" THEN CsmCells ELSE 0)

HandleWithoutSlot(kind, i) == IF kind = "data" THEN BLOCK_NUM + 2 ELSE i + 3

\* The two ranges of handle numbers that open hands out for a block.
Handle(kind, i) == IF kind = "data" THEN i + BLOCK_NUM + 2 ELSE i + 3
Handles == 2 .. 2 * BLOCK_NUM + 1

(* What a cell holds. *)
Empty == [tag |-> "empty"]
Super == [tag |-> "super"]
Bitmap(bits) == [tag |-> "bitmap", bits |-> bits]
BlockInfo(id, csm, data) ==
    [tag |-> "info", b_block_id |-> id, meta |-> csm, data |-> data]
Payload(f, k) == [tag |-> "payload", file |-> f, at |-> k]

Lengths == (0 .. MaxBytes) \cup StackJunk
InfoCells == [tag : {"info"}, b_block_id : BlockIds \cup {NoId},
              meta : Lengths, data : Lengths]
BitmapCells == [tag : {"bitmap"}, bits : SUBSET Slots]
PayloadCells == [tag : {"payload"}, file : Files, at : Nat]
CellValues == {Empty, Super} \cup BitmapCells \cup InfoCells \cup PayloadCells

\* How the bytes of a cell read when the code takes them for a bitmap or for
\* a block_info.  Foreign bytes read as an all-zero structure.
AsBits(c) == IF c.tag = "bitmap" THEN c.bits ELSE {}
AsInfo(c) == IF c.tag = "info" THEN c ELSE BlockInfo(NoId, 0, 0)

-----------------------------------------------------------------------------
VARIABLES
    disk,          \* the device
    pos,           \* the file position the kernel keeps for fd
    up,            \* whether the program runs
    mounts,        \* how often it was started
    cur_offset,    \* what the program takes for the position of fd
    p_bitmap,      \* the bitmap read at start, used by data opens only
    block_id_use,  \* whether the counter block_id_use differs from 0
    pMeta, pData,  \* the block number remembered per block, for each kind
    pFd,           \* the handle table
    pc, req,       \* per thread: its place in a handler, and its locals
    open,          \* per session: the open file, its handle, if it moved data
    seen,          \* paths looked up since the program started
    len,           \* history: cells of each file acknowledged as written
    published      \* history: the length of each file when last released

memory == <<cur_offset, p_bitmap, block_id_use, pMeta, pData, pFd>>
kernel == <<up, mounts, open, seen>>
history == <<len, published>>
vars == <<disk, pos, memory, pc, req, kernel, history>>

NoReq == [file |-> NoFile, sess |-> NoSess, slot |-> -1, at |-> 0,
          cell |-> Empty, info |-> [i \in Slots |-> AsInfo(Empty)]]
Closed == [file |-> NoFile, fh |-> 2, io |-> FALSE]
FreshFd == [block_id |-> NoId, data_block_id |-> 0, size |-> 0,
            dev_offset |-> 0, flag |-> "meta"]
NotPublished == -1

Places == {"idle", "scan_info", "scan_seek", "scan_bitmap", "meta_read",
           "meta_seek", "meta_write", "data_set", "data_write",
           "release_write", "write", "read"}

Numbers == BlockIds \cup {NoId}
FdEntries == [block_id : Numbers, data_block_id : Slots \cup {-1},
              size : 0 .. MaxBytes, dev_offset : Int, flag : {"meta", "data"}]
Requests == [file : Files \cup {Root, NoFile}, sess : Sess \cup {NoSess},
             slot : Slots \cup {-1}, at : Int, cell : CellValues,
             info : [Slots -> InfoCells]]
Opens == [file : Files \cup {NoFile}, fh : Handles, io : BOOLEAN]
Scanning == {"scan_info", "scan_seek", "scan_bitmap"}

\* A handler past its lookup serves one file of one session.
HandlersOK ==
    /\ pc \in [Threads -> Places]
    /\ req \in [Threads -> Requests]
    /\ \A t \in Threads :
          /\ pc[t] \notin Scanning \cup {"idle"} =>
                /\ req[t].file \in Files
                /\ req[t].sess \in Sess
          /\ pc[t] = "write" => /\ req[t].cell \in PayloadCells
                               /\ req[t].cell.at < MaxLen

TypeOK ==
    /\ disk \in [Cells -> CellValues]
    /\ pos \in Nat
    /\ up \in BOOLEAN
    /\ mounts \in 0 .. MaxMounts
    /\ cur_offset \in Int
    /\ p_bitmap \in SUBSET Slots
    /\ block_id_use \in BOOLEAN
    /\ pMeta \in [Slots -> Numbers]
    /\ pData \in [Slots -> Numbers]
    /\ pFd \in [Handles -> FdEntries]
    /\ HandlersOK
    /\ open \in [Sess -> Opens]
    /\ seen \in SUBSET (Files \cup {Root})
    /\ len \in [Files -> 0 .. MaxLen]
    /\ published \in [Files -> (0 .. MaxLen) \cup {NotPublished}]

-----------------------------------------------------------------------------
(* System calls on fd.  None of their results is looked at by the code.    *)

Lseek(a) == pos' = IF a < 0 THEN pos ELSE a

After(n) == IF pos >= dev_size THEN pos
            ELSE IF pos + n > dev_size THEN dev_size ELSE pos + n

CellAt(a) == IF a \in Cells THEN disk[a] ELSE Empty

WriteCell(c) ==
    /\ disk' = IF pos \in Cells THEN [disk EXCEPT ![pos] = c] ELSE disk
    /\ pos' = After(1)

(* Threads. *)
Idle(t) == up /\ pc[t] = "idle"
Enter(t, place, r) == /\ pc' = [pc EXCEPT ![t] = place]
                      /\ req' = [req EXCEPT ![t] = r]
Finish(t) == Enter(t, "idle", NoReq)
InService(s) == \E t \in Threads : req[t].sess = s

-----------------------------------------------------------------------------
(* bitmap.c, on the set of the bits that are 1.                            *)

FirstFreeFromEnd(bits) == Max({-1} \cup (Slots \ bits)) + 1

\* bitmap_availableblockid(1, ...): -1, the initial value of the variable it
\* fills, stays when every bit is 1.
FirstFree(bits) == IF Slots \subseteq bits THEN -1 ELSE Min(Slots \ bits)

BitmapSetNext(i, bits) == bits \cup ({i + 1} \cap Slots)
BitmapSetNot(i, bits) == bits

\* bitmap_set: the mask of index -1 is empty.
BitmapSet(i, bits) == bits \cup ({i} \cap Slots)

\* The blocks among bitmap_usedblockid's list whose block_info has number id.
Matches(bits, info, id) == {i \in bits : info[i].b_block_id = id}

-----------------------------------------------------------------------------
(* main: read the superblock, then the bitmap; the tables are fresh memory. *)

FreshMemory ==
    /\ cur_offset' = 0
    /\ block_id_use' = FALSE
    /\ pMeta' = [i \in Slots |-> NoId]
    /\ pData' = [i \in Slots |-> NoId]
    /\ pFd' = [h \in Handles |-> FreshFd]

Mount ==
    /\ ~up
    /\ mounts < MaxMounts
    /\ disk[SUPER_OFFSET] = Super
    /\ up' = TRUE
    /\ mounts' = mounts + 1
    /\ pos' = BITMAP_OFFSET + 1
    /\ p_bitmap' = AsBits(disk[BITMAP_OFFSET])
    /\ FreshMemory
    /\ UNCHANGED <<disk, pc, req, open, seen, history>>

\* The program stops, between any two system calls: unmounted or killed.
Stop ==
    /\ up
    /\ mounts < MaxMounts
    /\ up' = FALSE
    /\ pos' = 0
    /\ p_bitmap' = {}
    /\ FreshMemory
    /\ pc' = [t \in Threads |-> "idle"]
    /\ req' = [t \in Threads |-> NoReq]
    /\ open' = [s \in Sess |-> Closed]
    /\ seen' = {}
    /\ UNCHANGED <<disk, mounts, history>>

-----------------------------------------------------------------------------
(* lfs_getattrr, and lfs_readdir, which makes the same system calls.       *)

\* On an exclusive mount paths are looked up while nothing is open and no
\* other request is served.
Alone == \A u \in Threads : pc[u] = "idle"
Undisturbed == Exclusive => Alone /\ \A s \in Sess : open[s].file = NoFile

ScanSeekInfo(t, f) ==
    /\ Idle(t)
    /\ Undisturbed
    /\ Lseek(INFO_OFFSET)
    /\ Enter(t, "scan_info", [NoReq EXCEPT !.file = f])
    /\ UNCHANGED <<disk, memory, kernel, history>>

ScanReadInfo(t) ==
    /\ pc[t] = "scan_info"
    /\ pos' = After(BLOCK_NUM)
    /\ Enter(t, "scan_seek",
             [req[t] EXCEPT !.info = [i \in Slots |-> AsInfo(CellAt(pos + i))]])
    /\ UNCHANGED <<disk, memory, kernel, history>>

ScanSeekBitmap(t) ==
    /\ pc[t] = "scan_seek"
    /\ Lseek(BITMAP_OFFSET)
    /\ Enter(t, "scan_bitmap", req[t])
    /\ UNCHANGED <<disk, memory, kernel, history>>

\* The first match gives the size of the answer, and getattr notes its number
\* in the table of the path's kind; readdir (file = NoFile) leaves that alone.
ScanReadBitmap(t) ==
    LET f == req[t].file
        hits == Matches(AsBits(CellAt(pos)), req[t].info, f.id)
    IN  /\ pc[t] = "scan_bitmap"
        /\ pos' = After(1)
        /\ IF f = NoFile \/ hits = {}
             THEN UNCHANGED <<pMeta, pData>>
             ELSE IF f.kind = "meta"
               THEN /\ pMeta' = [pMeta EXCEPT ![Min(hits)] = f.id]
                    /\ UNCHANGED pData
               ELSE /\ pData' = [pData EXCEPT ![Min(hits)] = f.id]
                    /\ UNCHANGED pMeta
        /\ seen' = IF f = NoFile THEN seen ELSE seen \cup {f}
        /\ Finish(t)
        /\ UNCHANGED <<disk, cur_offset, p_bitmap, block_id_use, pFd,
                       up, mounts, open, history>>

-----------------------------------------------------------------------------
(* lfs_open.  The kernel has looked the path up before; on an exclusive     *)
(* mount no file is opened while another one is in the middle of its copy.  *)

CanOpen(t, s, f) ==
    /\ Idle(t)
    /\ Exclusive => Alone /\ \A r \in Sess : ~open[r].io
    /\ open[s].file = NoFile
    /\ ~InService(s)
    /\ f \in seen

Opened(s, f, h) == open' = [open EXCEPT ![s] = [file |-> f, fh |-> h, io |-> FALSE]]

MetaFoundNever(f) == {i \in Slots : pMeta[i] = f.id /\ f.id = NoId}
MetaFound(f) == {i \in Slots : pMeta[i] = f.id}

\* A number found in pMeta: the block of the handle is set while data_block_id
\* still has its initial value, and dev_offset is left as it is.
OpenMetaFound(t, s, f) ==
    LET h == Handle("meta", Min(MetaFound(f)))
    IN  /\ CanOpen(t, s, f)
        /\ f.kind = "meta"
        /\ MetaFound(f) # {}
        /\ pFd' = [pFd EXCEPT ![h].data_block_id = -1]
        /\ Opened(s, f, h)
        /\ UNCHANGED <<disk, pos, cur_offset, p_bitmap, block_id_use, pMeta,
                       pData, pc, req, up, mounts, seen, history>>

OpenMetaSeek(t, s, f) ==
    /\ CanOpen(t, s, f)
    /\ f.kind = "meta"
    /\ MetaFound(f) = {}
    /\ Lseek(BITMAP_OFFSET)
    /\ Enter(t, "meta_read", [NoReq EXCEPT !.file = f, !.sess = s])
    /\ UNCHANGED <<disk, memory, kernel, history>>

\* The bitmap comes from the device; entry -1 of a table lies before it.
OpenMetaRead(t) ==
    LET bits == AsBits(CellAt(pos))
        i == FirstFree(bits)
        h == Handle("meta", i)
        f == req[t].file
    IN  /\ pc[t] = "meta_read"
        /\ pos' = After(1)
        /\ pFd' = [pFd EXCEPT ![h].dev_offset = DevOffset("meta", i),
                              ![h].data_block_id = i, ![h].block_id = f.id]
        /\ pMeta' = IF i \in Slots THEN [pMeta EXCEPT ![i] = f.id] ELSE pMeta
        /\ Enter(t, "meta_seek", [req[t] EXCEPT !.slot = i,
                                                !.cell = Bitmap(BitmapSet(i, bits))])
        /\ UNCHANGED <<disk, cur_offset, p_bitmap, block_id_use, pData,
                       kernel, history>>

OpenMetaSeekBack(t) ==
    /\ pc[t] = "meta_seek"
    /\ Lseek(BITMAP_OFFSET)
    /\ Enter(t, "meta_write", req[t])
    /\ UNCHANGED <<disk, memory, kernel, history>>

OpenMetaWrite(t) ==
    LET h == Handle("meta", req[t].slot)
    IN  /\ pc[t] = "meta_write"
        /\ WriteCell(req[t].cell)
        /\ pFd' = [pFd EXCEPT ![h].flag = "meta"]
        /\ Opened(req[t].sess, req[t].file, h)
        /\ Finish(t)
        /\ UNCHANGED <<cur_offset, p_bitmap, block_id_use, pMeta, pData,
                       up, mounts, seen, history>>

DataFoundUnused(f) == {i \in Slots : block_id_use /\ pData[i] \in {f.id, NoId}}

\* The table is not searched before the first data file of a mount.
DataFound(f) == {i \in Slots : block_id_use /\ pData[i] = f.id}

OpenDataFound(t, s, f) ==
    LET i == Min(DataFound(f))
        h == Handle("data", i)
    IN  /\ CanOpen(t, s, f)
        /\ f.kind = "data"
        /\ DataFound(f) # {}
        /\ pFd' = [pFd EXCEPT ![h].data_block_id = i]
        /\ Opened(s, f, h)
        /\ UNCHANGED <<disk, pos, cur_offset, p_bitmap, block_id_use, pMeta,
                       pData, pc, req, up, mounts, seen, history>>

\* The bitmap is the one in memory.
OpenDataPick(t, s, f) ==
    /\ CanOpen(t, s, f)
    /\ f.kind = "data"
    /\ DataFound(f) = {}
    /\ Enter(t, "data_set", [NoReq EXCEPT !.file = f, !.sess = s,
                                          !.slot = FirstFree(p_bitmap)])
    /\ UNCHANGED <<disk, pos, memory, kernel, history>>

OpenDataSet(t) ==
    LET i == req[t].slot
        h == Handle("data", i)
        f == req[t].file
    IN  /\ pc[t] = "data_set"
        /\ block_id_use' = TRUE
        /\ pFd' = [pFd EXCEPT ![h] = [block_id |-> f.id, data_block_id |-> i,
                                      size |-> @.size, flag |-> "data",
                                      dev_offset |-> DevOffset("data", i)]]
        /\ pData' = IF i \in Slots THEN [pData EXCEPT ![i] = f.id] ELSE pData
        /\ p_bitmap' = BitmapSet(i, p_bitmap)
        /\ Lseek(BITMAP_OFFSET)
        /\ Enter(t, "data_write", req[t])
        /\ UNCHANGED <<disk, cur_offset, pMeta, kernel, history>>

OpenDataWrite(t) ==
    /\ pc[t] = "data_write"
    /\ WriteCell(Bitmap(p_bitmap))
    /\ Opened(req[t].sess, req[t].file, Handle("data", req[t].slot))
    /\ Finish(t)
    /\ UNCHANGED <<memory, up, mounts, seen, history>>

-----------------------------------------------------------------------------
(* lfs_write, lfs_read and lfs_release.                                    *)

\* Where the request leaves fd, if fd was where cur_offset said.
RememberTransfers(t) ==
    cur_offset' = IF pc[t] = "release_write" THEN cur_offset ELSE req[t].at + 1
RememberUpdates(t) == cur_offset' = IF pc[t] = "read" THEN cur_offset ELSE req[t].at + 1
Remember(t) == cur_offset' = req[t].at + 1

CanUse(t, s) == Idle(t) /\ open[s].file # NoFile

\* fd is moved only when cur_offset says that it is elsewhere.
Transfer(t, s, k, place, cell) ==
    LET a == pFd[open[s].fh].dev_offset + k
    IN  /\ IF cur_offset # a THEN Lseek(a) ELSE UNCHANGED pos
        /\ Enter(t, place, [NoReq EXCEPT !.file = open[s].file, !.sess = s,
                                         !.at = a, !.cell = cell])
        /\ open' = [open EXCEPT ![s].io = TRUE]

\* The kernel lets one write at a time into a file, at or before its end.
WriteSeek(t, s, k) ==
    LET f == open[s].file
    IN  /\ CanUse(t, s)
        /\ \A u \in Threads : pc[u] = "write" => req[u].file # f
        /\ k <= len[f] /\ (Rewrites \/ k = len[f]) /\ k < MaxLen
        /\ pFd[open[s].fh].size < MaxBytes
        /\ Transfer(t, s, k, "write", Payload(f, k))
        /\ pFd' = [pFd EXCEPT ![open[s].fh].size = @ + 1]
        /\ UNCHANGED <<disk, cur_offset, p_bitmap, block_id_use, pMeta, pData,
                       up, mounts, seen, history>>

WriteData(t) ==
    LET f == req[t].file
        end == req[t].cell.at + 1
    IN  /\ pc[t] = "write"
        /\ WriteCell(req[t].cell)
        /\ Remember(t)
        /\ len' = [len EXCEPT ![f] = IF @ < end THEN end ELSE @]
        /\ Finish(t)
        /\ UNCHANGED <<p_bitmap, block_id_use, pMeta, pData, pFd, kernel,
                       published>>

ReadSeek(t, s, k) ==
    /\ CanUse(t, s)
    /\ k < len[open[s].file]
    /\ Transfer(t, s, k, "read", Payload(open[s].file, k))
    /\ UNCHANGED <<disk, memory, up, mounts, seen, history>>

ReadData(t) ==
    /\ pc[t] = "read"
    /\ pos' = After(1)
    /\ Remember(t)
    /\ Finish(t)
    /\ UNCHANGED <<disk, p_bitmap, block_id_use, pMeta, pData, pFd, kernel,
                   history>>

ReleasedSwapped(e, junk) == IF e.flag = "data" THEN BlockInfo(e.block_id, e.size, junk)
                                               ELSE BlockInfo(e.block_id, junk, e.size)
ReleasedUnnamed(e, junk) == BlockInfo(NoId, junk, e.size)

\* The block_info is a local variable: only the length of the handle's own
\* kind is set, the other one goes to the device as it is on the stack.
Released(e, junk) == IF e.flag = "meta" THEN BlockInfo(e.block_id, e.size, junk)
                                        ELSE BlockInfo(e.block_id, junk, e.size)

ReleaseSeek(t, s) ==
    LET e == pFd[open[s].fh]
        a == InfoOffset(e.data_block_id)
    IN  /\ CanUse(t, s)
        /\ ~InService(s)
        /\ Lseek(a)
        /\ \E junk \in StackJunk :
             Enter(t, "release_write",
               [NoReq EXCEPT !.file = open[s].file, !.sess = s, !.at = a,
                            !.cell = Released(e, junk)])
        /\ UNCHANGED <<disk, memory, kernel, history>>

ReleaseWrite(t) ==
    LET f == req[t].file
    IN  /\ pc[t] = "release_write"
        /\ WriteCell(req[t].cell)
        /\ Remember(t)
        /\ published' = [published EXCEPT ![f] = len[f]]
        /\ open' = [open EXCEPT ![req[t].sess] = Closed]
        /\ Finish(t)
        /\ UNCHANGED <<p_bitmap, block_id_use, pMeta, pData, pFd,
                       up, mounts, seen, len>>

-----------------------------------------------------------------------------
(* A formatted device, before the program is started.                      *)
Formatted == [a \in Cells |-> IF a = SUPER_OFFSET THEN Super
                               ELSE IF a = BITMAP_OFFSET THEN Bitmap({})
                               ELSE IF a \in INFO_OFFSET .. EXTRA_OFFSET - 1
                                    THEN BlockInfo(NoId, 0, 0)
                               ELSE Empty]

Init ==
    /\ disk = Formatted
    /\ pos = 0
    /\ up = FALSE
    /\ mounts = 0
    /\ cur_offset = 0
    /\ p_bitmap = {}
    /\ block_id_use = FALSE
    /\ pMeta = [i \in Slots |-> NoId]
    /\ pData = [i \in Slots |-> NoId]
    /\ pFd = [h \in Handles |-> FreshFd]
    /\ pc = [t \in Threads |-> "idle"]
    /\ req = [t \in Threads |-> NoReq]
    /\ open = [s \in Sess |-> Closed]
    /\ seen = {}
    /\ len = [f \in Files |-> 0]
    /\ published = [f \in Files |-> NotPublished]

Scan(t) ==
    \/ \E f \in Files \cup {Root, NoFile} : ScanSeekInfo(t, f)
    \/ ScanReadInfo(t)
    \/ ScanSeekBitmap(t)
    \/ ScanReadBitmap(t)

OpenMeta(t) ==
    \/ \E s \in Sess, f \in Files : OpenMetaFound(t, s, f) \/ OpenMetaSeek(t, s, f)
    \/ OpenMetaRead(t)
    \/ OpenMetaSeekBack(t)
    \/ OpenMetaWrite(t)

OpenData(t) ==
    \/ \E s \in Sess, f \in Files : OpenDataFound(t, s, f) \/ OpenDataPick(t, s, f)
    \/ OpenDataSet(t)
    \/ OpenDataWrite(t)

Use(t) ==
    \/ \E s \in Sess, k \in 0 .. MaxLen - 1 : WriteSeek(t, s, k) \/ ReadSeek(t, s, k)
    \/ WriteData(t)
    \/ ReadData(t)
    \/ \E s \in Sess : ReleaseSeek(t, s)
    \/ ReleaseWrite(t)

Next == \/ Mount
        \/ Stop
        \/ \E t \in Threads : Scan(t) \/ OpenMeta(t) \/ OpenData(t) \/ Use(t)

Spec == Init /\ [][Next]_vars

-----------------------------------------------------------------------------
(* What the file system promises.                                          *)

\* The cells of the device that hold a part of f, by block.
Holds(i, f, k) == CellAt(DevOffset(f.kind, i) + k) = Payload(f, k)
BlocksOf(f) == {i \in Slots : \E k \in 0 .. MaxLen - 1 : Holds(i, f, k)}

\* The length that lfs_getattrr would answer from the device alone.
DiskInfo == [i \in Slots |-> AsInfo(disk[InfoOffset(i)])]
DiskHits(f) == Matches(AsBits(disk[BITMAP_OFFSET]), DiskInfo, f.id)
DiskLength(f) == IF DiskHits(f) = {} THEN 0
                 ELSE IF f.kind = "meta" THEN DiskInfo[Min(DiskHits(f))].meta
                 ELSE DiskInfo[Min(DiskHits(f))].data

\* No transfer of lfs_write or lfs_release, wherever the shared file position
\* happens to be, lands on the superblock, the bitmap or the block_info table:
\* the device can be mounted and listed at any time.
LayoutIntact ==
    /\ disk[SUPER_OFFSET] = Super
    /\ disk[BITMAP_OFFSET].tag = "bitmap"
    /\ \A i \in Slots : disk[InfoOffset(i)].tag = "info"

\* Every cell that lfs_write acknowledged is on the device, in the block of
\* its file, until it is overwritten by the same file.
NoLostData == \A f \in Files : \A k \in 0 .. len[f] - 1 :
                 \E i \in Slots : Holds(i, f, k)

\* When lfs_read comes to its read(2), the shared position of fd is at the
\* cell the client asked for and that cell holds what was written there.
ReadsReturnWrites == \A t \in Threads :
    pc[t] = "read" => CellAt(pos) = req[t].cell

\* A file is in one block and a block has one file of a kind, over all the
\* opens, lookups and releases that pass the number through pMeta and pData.
BlockOwnership == \A f \in Files :
    /\ \A i, j \in BlocksOf(f) : i = j
    /\ \A g \in Files : f # g /\ f.kind = g.kind => BlocksOf(f) \cap BlocksOf(g) = {}

\* A block that holds data is marked in the bitmap on the device, so that no
\* later open and no later mount hands it out again.
BlocksMarked == \A f \in Files : BlocksOf(f) \subseteq AsBits(disk[BITMAP_OFFSET])

\* The handle of an open data file is inside pFd, which is only sure to have
\* 2*BLOCK_NUM entries, as long as two blocks are free: open takes the lowest
\* free block, and it is the last two blocks whose handles lie past the end.
HandleInBounds == Cardinality(p_bitmap) <= BLOCK_NUM - 2 =>
    \A s \in Sess : open[s].fh < 2 * BLOCK_NUM

\* "Get the initial offset first, it can be used directly to write data":
\* the handle of an open file leads to the area of its kind in some block.
HandleHasOffset == \A s \in Sess : open[s].file # NoFile =>
    \E i \in Slots : pFd[open[s].fh].dev_offset = DevOffset(open[s].file.kind, i)

\* "Open maintains a list of handles": two open files have two handles.
HandlesDistinct == \A r, s \in Sess :
    /\ open[r].file # NoFile
    /\ open[s].file # NoFile
    /\ open[r].file # open[s].file
    => open[r].fh # open[s].fh

\* No two files meet in the table of handles, nor does one leave it.
HandlesApart == HandlesDistinct /\ HandleInBounds

\* lfs_getattrr answers the length a file had when it was last released, from
\* what release wrote to the device, also after the program is killed and
\* started again, as long as no file is opened since that start.
StatSurvivesRestart == \A f \in Files :
    (mounts <= 1 \/ ~block_id_use) /\ published[f] # NotPublished
        => DiskLength(f) = published[f]

\* What was acknowledged before the program was killed is in the blocks of the
\* device after it, and those blocks are not free, until a file is opened.
DataSurvivesRestart ==
    (mounts <= 1 \/ ~block_id_use) => NoLostData /\ BlocksMarked

\* Through the offsets, the bitmaps, the tables and the shared position of fd,
\* a client sees the abstract store: only its own write adds a cell to a file,
\* and only a release changes the length a stat reports, to the number of cells
\* that lfs_write accepted.
StoredCells(f) == {k \in 0 .. MaxLen - 1 : \E i \in Slots : Holds(i, f, k)}

SentCells(f) ==
    LET table == IF f.kind = "data" THEN pData ELSE pMeta
    IN  IF \E i \in Slots : table[i] = f.id
        THEN pFd[Handle(f.kind, CHOOSE i \in Slots : table[i] = f.id)].size
        ELSE 0

Store == INSTANCE BlockStore
    WITH sent <- [f \in Files |-> SentCells(f)],
         stored <- [f \in Files |-> Cardinality(StoredCells(f))],
         size <- [f \in Files |-> DiskLength(f)]

ImplementsStore == Store!Spec

=============================================================================
