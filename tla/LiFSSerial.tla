----------------------------- MODULE LiFSSerial -----------------------------
(***************************************************************************)
(* The use of LiFS that the test procedure supports, copies of data files  *)
(* one request after the other, and the invariant that explains why it     *)
(* loses nothing: how the tables in memory, the bitmap and the block_info  *)
(* on the device, the open files and the position of fd fit together       *)
(* between any two system calls.                                           *)
(***************************************************************************)
EXTENDS LiFS

SerialUse ==
    /\ Exclusive
    /\ Kinds = {"data"}
    /\ \A t, u \in Threads : t = u
    /\ IsFiniteSet(BlockIds)
    /\ Cardinality(BlockIds) <= BLOCK_NUM
    /\ MaxLen <= DataCells

\* The program is started once, and files are overwritten or not.
SerialDataCopies == SerialUse /\ MaxMounts = 1

\* The program is killed and started again, and files are only appended to, so
\* that the size a handle counts is a length.
RestartedCopies == SerialUse /\ MaxMounts = 2 /\ ~Rewrites

DataHandle(i) == Handle("data", i)
DataCell(i, k) == DevOffset("data", i) + k

\* A block whose bit is set in memory but not yet on the device.
Opening(i) == \E t \in Threads : pc[t] = "data_write" /\ req[t].slot = i
InUse(i) == \E s \in Sess : open[s].fh = DataHandle(i)
NothingOpen == \A s \in Sess : open[s].file = NoFile
NoTransferYet == \A s \in Sess : ~open[s].io

\* The program is started once; before that nothing has happened.
MountInv ==
    /\ up => mounts = 1
    /\ ~up => mounts = 0 /\ p_bitmap = {}
    /\ \A t \in Threads : pc[t] # "idle" => up

\* The bitmap in memory, pData and the handle table tell the same story.
TablesInv ==
    /\ p_bitmap # {} => block_id_use
    /\ \A i \in Slots : i \in p_bitmap <=> pData[i] # NoId
    /\ \A i, j \in p_bitmap : pData[i] = pData[j] => i = j
    /\ \A i \in p_bitmap :
          /\ pFd[DataHandle(i)].block_id = pData[i]
          /\ pFd[DataHandle(i)].data_block_id = i
          /\ pFd[DataHandle(i)].dev_offset = DevOffset("data", i)
          /\ pFd[DataHandle(i)].flag = "data"

\* The first regions of the device.  A block that nobody has open has its
\* number in its block_info, so a lookup repeats what pData says already.
SuperInv == disk[SUPER_OFFSET] = Super
BitmapInv == disk[BITMAP_OFFSET] = Bitmap({i \in p_bitmap : ~Opening(i)})
InfoInv == \A i \in Slots :
    /\ disk[InfoOffset(i)] \in InfoCells
    /\ i \in p_bitmap /\ ~Opening(i) /\ ~InUse(i) => disk[InfoOffset(i)].b_block_id = pData[i]

OpenInv == \A s \in Sess :
    /\ open[s].file = NoFile => open[s] = Closed
    /\ open[s].file # NoFile =>
          \E i \in p_bitmap : /\ ~Opening(i)
                              /\ open[s].fh = DataHandle(i)
                              /\ pData[i] = open[s].file.id

\* The data areas hold what was acknowledged, and nothing foreign.
DataInv ==
    /\ \A f \in Files : len[f] > 0 => \E i \in p_bitmap : pData[i] = f.id
    /\ \A f \in Files, i \in p_bitmap : pData[i] = f.id =>
          \A k \in 0 .. len[f] - 1 : disk[DataCell(i, k)] = Payload(f, k)

OwnerInv == \A i \in Slots, k \in 0 .. DataCells - 1 :
    disk[DataCell(i, k)] \in PayloadCells =>
        i \in p_bitmap /\ ~Opening(i) /\ disk[DataCell(i, k)].file.id = pData[i]

\* cur_offset may be trusted when it points into the blocks, and it points
\* there only while a file is open that has moved data.
PositionInv ==
    /\ NoTransferYet => cur_offset < DATA_OFFSET
    /\ Alone /\ cur_offset >= DATA_OFFSET => pos = cur_offset

HandlerInv(t) ==
    /\ pc[t] \in {"idle", "scan_info", "scan_seek", "scan_bitmap", "data_set",
                  "data_write", "write", "read", "release_write"}
    /\ pc[t] \in Scanning => NothingOpen
    /\ pc[t] = "scan_info" => pos = INFO_OFFSET
    /\ pc[t] \in {"scan_seek", "scan_bitmap"} =>
          req[t].info = [i \in Slots |-> disk[InfoOffset(i)]]
    /\ pc[t] = "scan_bitmap" => pos = BITMAP_OFFSET
    /\ pc[t] \in {"data_set", "data_write"} =>
          NoTransferYet /\ open[req[t].sess].file = NoFile
    /\ pc[t] = "data_set" => /\ req[t].slot \in Slots \ p_bitmap
                             /\ \A i \in Slots : pData[i] # req[t].file.id
    /\ pc[t] = "data_write" => /\ pos = BITMAP_OFFSET
                               /\ req[t].slot \in p_bitmap
                               /\ pData[req[t].slot] = req[t].file.id
    /\ pc[t] \in {"write", "read"} =>
          /\ ~NoTransferYet
          /\ pos = req[t].at
          /\ \E i \in p_bitmap, k \in 0 .. MaxLen - 1 :
                /\ pData[i] = req[t].file.id
                /\ req[t].at = DataCell(i, k)
                /\ req[t].cell = Payload(req[t].file, k)
                /\ k <= len[req[t].file]
                /\ pc[t] = "read" => k < len[req[t].file]
    /\ pc[t] = "release_write" =>
          /\ pos = req[t].at
          /\ req[t].cell \in InfoCells
          /\ \E i \in p_bitmap : /\ open[req[t].sess].fh = DataHandle(i)
                                 /\ req[t].at = InfoOffset(i)
                                 /\ req[t].cell.b_block_id = pData[i]

SerialInv ==
    /\ MountInv
    /\ TablesInv
    /\ SuperInv
    /\ BitmapInv
    /\ InfoInv
    /\ OpenInv
    /\ DataInv
    /\ OwnerInv
    /\ PositionInv
    /\ \A t \in Threads : HandlerInv(t)

-----------------------------------------------------------------------------
(* What the sizes are worth.                                               *)

InfoAt(i) == disk[InfoOffset(i)]
SizeOf(i) == pFd[DataHandle(i)].size

\* A block that was not given out has no size and no number in its block_info,
\* and that of a used one is its own or none.
FreshInv == \A i \in Slots :
    /\ i \notin p_bitmap \/ Opening(i) => SizeOf(i) = 0 /\ InfoAt(i).b_block_id = NoId
    /\ i \in p_bitmap => InfoAt(i).b_block_id \in {NoId, pData[i]}

\* A handle counts each cell before it is stored, and no cell is stored that was
\* not acknowledged.
CountInv ==
    /\ \A f \in Files, i \in p_bitmap : pData[i] = f.id =>
          /\ len[f] <= SizeOf(i)
          /\ \A t \in Threads : pc[t] = "write" /\ req[t].file = f =>
                req[t].cell.at < SizeOf(i)
    /\ \A i \in Slots, k \in 0 .. DataCells - 1 :
          disk[DataCell(i, k)] \in PayloadCells =>
             disk[DataCell(i, k)].at < len[disk[DataCell(i, k)].file]

\* A release carries the size of its handle to the block_info of its file.
ReleaseInv == \A t \in Threads : pc[t] = "release_write" =>
    \A i \in p_bitmap : req[t].at = InfoOffset(i) =>
        /\ req[t].cell.data = SizeOf(i)
        /\ req[t].file.id = pData[i]
        /\ ~Opening(i)

StoreInv == FreshInv /\ CountInv /\ ReleaseInv

\* Without overwriting, the size of a handle is the length of its file, and the
\* block_info has the length that was released.
Writing(f) == \E t \in Threads : pc[t] = "write" /\ req[t].file = f
LengthInv == \A f \in Files, i \in p_bitmap : pData[i] = f.id =>
    SizeOf(i) = len[f] + (IF Writing(f) THEN 1 ELSE 0)
AppendInv == \A t \in Threads : pc[t] = "write" => req[t].cell.at = len[req[t].file]
PublishedInv == \A f \in Files : published[f] # NotPublished =>
    \E i \in p_bitmap : /\ ~Opening(i)
                        /\ pData[i] = f.id
                        /\ InfoAt(i).b_block_id = f.id
                        /\ InfoAt(i).data = published[f]

\* From the end of the first start on, until a file is opened.
FirstStart == mounts = 0 \/ (mounts = 1 /\ up)
StatKept == \A f \in Files : published[f] # NotPublished => DiskLength(f) = published[f]
KeptInv == ~FirstStart =>
    /\ mounts \in {1, 2}
    /\ mounts = 1 => ~up /\ ~block_id_use /\ Alone
    /\ ~block_id_use =>
          /\ StatKept /\ NoLostData /\ BlocksMarked
          /\ NothingOpen
          /\ \A t \in Threads : pc[t] \in Scanning \cup {"idle", "data_set"}

RestartInv ==
    /\ FirstStart => SerialInv /\ StoreInv /\ LengthInv /\ AppendInv /\ PublishedInv
    /\ KeptInv

=============================================================================
