----------------------------- MODULE LiFSProofs -----------------------------
(***************************************************************************)
(* Theorems about LiFS for every device size, set of block numbers, number *)
(* of handlers and of sessions; and, under SerialUse, SerialInv: it is     *)
(* inductive, and it implies what the file system promises, on a device of *)
(* any size, with any number of files up to the number of blocks.  Serial  *)
(* copies implement the abstract store, and what they stored and published *)
(* outlives a kill and a new start of the program.                         *)
(***************************************************************************)
EXTENDS LiFSSerial, WellFoundedInduction, FiniteSetTheorems, TLAPS

-----------------------------------------------------------------------------
(* Arithmetic and data of the device.                                      *)

\* Every non-empty set of natural numbers has a least element.
LEMMA LeastElement ==
    ASSUME NEW S \in SUBSET Nat, S # {}
    PROVE  \E n \in S : \A m \in S : n <= m
<1> DEFINE R == OpToRel(<, Nat)
<1>1. PICK n \in S : \A m \in S : ~ <<m, n>> \in R
  <2>1. IsWellFoundedOn(R, Nat)
    BY NatLessThanWellFounded, Zenon
  <2> HIDE DEF R
  <2> QED BY <2>1, WFMin
<1>2. ASSUME NEW m \in S
      PROVE  n <= m
  <2>1. m \in Nat /\ n \in Nat
    OBVIOUS
  <2>2. ~ m < n
    BY <1>1, <2>1 DEF OpToRel
  <2> QED BY <2>1, <2>2
<1> QED BY <1>2

\* Min, which the model uses where the code's loops stop at the first hit.
LEMMA MinIsLeast ==
    ASSUME NEW S \in SUBSET Nat, S # {}
    PROVE  Min(S) \in S /\ \A m \in S : Min(S) <= m
BY LeastElement DEF Min

\* The layout is a line of cells that starts at 0.
LEMMA LayoutType ==
    /\ block_size \in Nat \ {0}
    /\ dev_size \in Nat
    /\ BLOCK_NUM * block_size \in Nat
    /\ Slots \subseteq Nat
<1>1. block_size \in Nat \ {0}
  BY ConstantsAssumption DEF block_size
<1>2. \A m, n \in Nat : m * n \in Nat
  OBVIOUS
<1>3. BLOCK_NUM * block_size \in Nat
  BY <1>1, <1>2, ConstantsAssumption
<1>4. dev_size \in Nat
  BY <1>3, ConstantsAssumption DEF dev_size, DATA_OFFSET, EXTRA_OFFSET, INFO_OFFSET
<1>5. Slots \subseteq Nat
  BY ConstantsAssumption DEF Slots
<1> QED BY <1>1, <1>3, <1>4, <1>5

\* Offsets of blocks, and of the block -1 that a full device yields.
LEMMA OffsetType ==
    ASSUME NEW kind, NEW i \in Slots \cup {-1}
    PROVE  DevOffset(kind, i) \in Int /\ InfoOffset(i) \in Int
<1>1. i \in Int
  BY LayoutType
<1>2. \A m, n \in Int : m * n \in Int
  OBVIOUS
<1>3. i * block_size \in Int
  BY <1>1, <1>2, LayoutType
<1> QED BY <1>1, <1>3, ConstantsAssumption
        DEF DevOffset, InfoOffset, DATA_OFFSET, EXTRA_OFFSET, INFO_OFFSET

\* The two ranges of handle numbers stay inside the modelled table.
LEMMA HandleType ==
    ASSUME NEW kind \in {"meta", "data"}, NEW i \in Slots \cup {-1}
    PROVE  Handle(kind, i) \in Handles
BY ConstantsAssumption DEF Handle, Handles, Slots

\* The values that cells take.
LEMMA CellTypes ==
    /\ Empty \in CellValues
    /\ Super \in CellValues
    /\ \A bits \in SUBSET Slots : Bitmap(bits) \in CellValues
    /\ \A id \in Numbers, m, n \in Lengths : /\ BlockInfo(id, m, n) \in InfoCells
                                             /\ BlockInfo(id, m, n) \in CellValues
    /\ \A f \in Files, k \in Nat : /\ Payload(f, k) \in PayloadCells
                                   /\ Payload(f, k) \in CellValues
BY DEF CellValues, BitmapCells, Bitmap, InfoCells, BlockInfo, PayloadCells, Payload, Numbers

\* The lengths a block_info may carry.
LEMMA LengthsType ==
    /\ 0 \in Lengths
    /\ 0 .. MaxBytes \subseteq Lengths
    /\ StackJunk \subseteq Lengths
BY ConstantsAssumption DEF Lengths

\* Whatever a cell holds, the code reads some bitmap and some block_info in it.
LEMMA ReadTypes ==
    ASSUME NEW c \in CellValues
    PROVE  AsBits(c) \in SUBSET Slots /\ AsInfo(c) \in InfoCells
<1>1. BlockInfo(NoId, 0, 0) \in InfoCells
  BY CellTypes, LengthsType DEF Numbers
<1>2. c.tag = "bitmap" => c \in BitmapCells
  BY DEF CellValues, Empty, Super, BitmapCells, InfoCells, PayloadCells
<1>3. c.tag = "info" => c \in InfoCells
  BY DEF CellValues, Empty, Super, BitmapCells, InfoCells, PayloadCells
<1>4. AsBits(c) \in SUBSET Slots
  BY <1>2 DEF AsBits, BitmapCells
<1>5. AsInfo(c) \in InfoCells
  BY <1>1, <1>3 DEF AsInfo
<1> QED BY <1>4, <1>5

\* bitmap_availableblockid yields a block, or -1 when there is none.
LEMMA FirstFreeType ==
    ASSUME NEW bits \in SUBSET Slots
    PROVE  /\ FirstFree(bits) \in Slots \cup {-1}
           /\ FirstFree(bits) \notin bits
           /\ Slots \ bits # {} => FirstFree(bits) \in Slots
<1>1. CASE Slots \subseteq bits
  <2>1. -1 \notin Slots /\ FirstFree(bits) = -1
    BY <1>1, LayoutType DEF FirstFree
  <2> QED BY <1>1, <2>1
<1>2. CASE ~ Slots \subseteq bits
  <2>1. Slots \ bits \in SUBSET Nat /\ Slots \ bits # {}
    BY <1>2, LayoutType
  <2>2. Min(Slots \ bits) \in Slots \ bits
    BY <2>1, MinIsLeast
  <2> QED BY <1>2, <2>2 DEF FirstFree
<1> QED BY <1>1, <1>2

-----------------------------------------------------------------------------
(* Type correctness.                                                       *)

\* Zero-filled tables, an idle handler and closed sessions have their types.
LEMMA FreshTypes ==
    /\ [i \in Slots |-> NoId] \in [Slots -> Numbers]
    /\ [h \in Handles |-> FreshFd] \in [Handles -> FdEntries]
    /\ NoReq \in Requests
    /\ NoReq.sess = NoSess
    /\ [s \in Sess |-> Closed] \in [Sess -> Opens]
<1>1. FreshFd \in FdEntries
  <2>1. 0 \in Slots /\ 0 \in 0 .. MaxBytes /\ 0 \in Int
    BY ConstantsAssumption DEF Slots
  <2> QED BY <2>1 DEF FreshFd, FdEntries, Numbers
<1>2. NoReq \in Requests
  BY CellTypes, ReadTypes DEF NoReq, Requests
<1>3. Closed \in Opens
  <2>1. 2 \in Handles
    BY ConstantsAssumption DEF Handles
  <2> QED BY <2>1 DEF Closed, Opens
<1> QED BY <1>1, <1>2, <1>3 DEF NoReq, Numbers

\* The device as it is formatted, and the program before its start.
LEMMA InitType == Init => TypeOK
<1> SUFFICES ASSUME Init
             PROVE  TypeOK
  OBVIOUS
<1>1. disk \in [Cells -> CellValues]
  <2>1. BlockInfo(NoId, 0, 0) \in CellValues /\ Bitmap({}) \in CellValues
    BY CellTypes, LengthsType DEF Numbers
  <2> QED BY <2>1, CellTypes DEF Init, Formatted
<1>2. pc \in [Threads -> Places]
  BY DEF Init, Places
<1>3. len \in [Files -> 0 .. MaxLen]
  BY ConstantsAssumption DEF Init
<1>4. mounts \in 0 .. MaxMounts
  BY ConstantsAssumption DEF Init
<1>5. \A t \in Threads : pc[t] = "idle"
  BY DEF Init
<1>6. published \in [Files -> (0 .. MaxLen) \cup {NotPublished}]
  BY DEF Init
<1>7. /\ pMeta \in [Slots -> Numbers]
      /\ pData \in [Slots -> Numbers]
      /\ pFd \in [Handles -> FdEntries]
      /\ req \in [Threads -> Requests]
      /\ open \in [Sess -> Opens]
  BY FreshTypes DEF Init
<1>8. /\ pos \in Nat /\ cur_offset \in Int
      /\ p_bitmap \in SUBSET Slots
      /\ seen \in SUBSET (Files \cup {Root})
  BY DEF Init
<1>9. up \in BOOLEAN /\ block_id_use \in BOOLEAN
  BY Zenon DEF Init
<1>10. HandlersOK
  BY <1>2, <1>5, <1>7 DEF HandlersOK
<1> QED BY <1>1, <1>3, <1>4, <1>6, <1>7, <1>8, <1>9, <1>10 DEF TypeOK

\* A write(2) leaves a device and a position.
LEMMA WriteType ==
    ASSUME TypeOK, NEW c \in CellValues, WriteCell(c)
    PROVE  disk' \in [Cells -> CellValues] /\ pos' \in Nat
<1>1. disk' \in [Cells -> CellValues]
  BY DEF WriteCell, TypeOK
<1>2. pos' \in Nat
  BY LayoutType DEF WriteCell, After, TypeOK
<1> QED BY <1>1, <1>2

\* Whatever fd is moved to, it is a position, and what is read there is a cell.
LEMMA PositionType ==
    ASSUME TypeOK
    PROVE  /\ \A n \in Nat : After(n) \in Nat
           /\ \A a \in Int : Lseek(a) => pos' \in Nat
           /\ \A a \in Int : CellAt(a) \in CellValues
BY LayoutType, CellTypes DEF After, Lseek, CellAt, TypeOK

\* The part of the type that the steps of one thread change.
LEMMA EnterType ==
    ASSUME TypeOK, NEW t \in Threads, NEW place \in Places, NEW r \in Requests,
           Enter(t, place, r),
           place \notin Scanning \cup {"idle"} => r.file \in Files /\ r.sess \in Sess,
           place = "write" => r.cell \in PayloadCells /\ r.cell.at < MaxLen
    PROVE  HandlersOK'
BY DEF Enter, TypeOK, HandlersOK

\* A handler that ends goes back to idle.
LEMMA FinishType ==
    ASSUME TypeOK, NEW t \in Threads, Finish(t)
    PROVE  HandlersOK'
BY EnterType, FreshTypes DEF Finish, Places

\* The regions of the device are in order and end inside it.
LEMMA LayoutOrder ==
    /\ SUPER_OFFSET < BITMAP_OFFSET
    /\ BITMAP_OFFSET < INFO_OFFSET - 1
    /\ \A i \in Slots : INFO_OFFSET <= InfoOffset(i) /\ InfoOffset(i) < EXTRA_OFFSET
    /\ EXTRA_OFFSET < DATA_OFFSET
    /\ DATA_OFFSET <= dev_size
    /\ DATA_OFFSET \in Nat
BY LayoutType, ConstantsAssumption
   DEF SUPER_OFFSET, BITMAP_OFFSET, INFO_OFFSET, EXTRA_OFFSET, DATA_OFFSET, dev_size,
       InfoOffset, Slots

\* The tables after main has allocated them.
LEMMA FreshMemoryType ==
    ASSUME FreshMemory
    PROVE  /\ cur_offset' \in Int
           /\ block_id_use' \in BOOLEAN
           /\ pMeta' \in [Slots -> Numbers]
           /\ pData' \in [Slots -> Numbers]
           /\ pFd' \in [Handles -> FdEntries]
<1>1. cur_offset' \in Int
  BY DEF FreshMemory
<1>2. block_id_use' \in BOOLEAN
  BY Zenon DEF FreshMemory
<1> QED BY <1>1, <1>2, FreshTypes DEF FreshMemory

\* An open hands out a handle of the table.
LEMMA OpenedType ==
    ASSUME TypeOK, NEW s \in Sess, NEW f \in Files, NEW h \in Handles, Opened(s, f, h)
    PROVE  open' \in [Sess -> Opens]
BY DEF Opened, TypeOK, Opens

\* A file has a kind and a number.
LEMMA FilesType ==
    ASSUME NEW f \in Files
    PROVE  f.id \in BlockIds /\ f.id \in Numbers /\ f.kind \in {"meta", "data"}
BY ConstantsAssumption DEF Files, Numbers

\* A search of one of the two tables that finds something finds a block.
LEMMA FoundType ==
    ASSUME NEW S \in SUBSET Slots, S # {}
    PROVE  Min(S) \in S /\ Min(S) \in Slots
BY MinIsLeast, LayoutType

\* The steps of an open of a checksum file keep the types, the one that finds
\* its block without an offset included.
LEMMA OpenMetaType ==
    ASSUME TypeOK, NEW t \in Threads, OpenMeta(t)
    PROVE  TypeOK'
<1>1. ASSUME NEW s \in Sess, NEW f \in Files, OpenMetaFound(t, s, f)
      PROVE  TypeOK'
  <2> DEFINE h == Handle("meta", Min(MetaFound(f)))
  <2>1. h \in Handles
    BY <1>1, FoundType, HandleType DEF OpenMetaFound, MetaFound
  <2>2. pFd' \in [Handles -> FdEntries]
    <3>1. [pFd[h] EXCEPT !.data_block_id = -1] \in FdEntries
      BY <2>1 DEF TypeOK, FdEntries
    <3> QED BY <1>1, <2>1, <3>1 DEF OpenMetaFound, TypeOK
  <2>3. open' \in [Sess -> Opens]
    BY <1>1, <2>1, OpenedType DEF OpenMetaFound
  <2>4. UNCHANGED <<disk, pos, cur_offset, p_bitmap, block_id_use, pMeta, pData,
                    pc, req, up, mounts, seen, len, published>>
    BY <1>1 DEF OpenMetaFound, history
  <2> QED BY <2>2, <2>3, <2>4 DEF TypeOK, HandlersOK
<1>2. ASSUME NEW s \in Sess, NEW f \in Files, OpenMetaSeek(t, s, f)
      PROVE  TypeOK'
  <2> DEFINE r == [NoReq EXCEPT !.file = f, !.sess = s]
  <2>1. r \in Requests /\ r.file = f /\ r.sess = s /\ Enter(t, "meta_read", r)
    BY <1>2, FreshTypes DEF OpenMetaSeek, Requests, NoReq
  <2>2. pos' \in Nat
    BY <1>2, PositionType DEF OpenMetaSeek, BITMAP_OFFSET
  <2> HIDE DEF r
  <2> QED BY <1>2, <2>1, <2>2, EnterType
          DEF OpenMetaSeek, TypeOK, memory, kernel, history, Places
<1>3. CASE OpenMetaRead(t)
  <2> DEFINE bits == AsBits(CellAt(pos))
             i == FirstFree(bits)
             h == Handle("meta", i)
             f == req[t].file
  <2>1. bits \in SUBSET Slots /\ i \in Slots \cup {-1} /\ BitmapSet(i, bits) \in SUBSET Slots
    BY PositionType, ReadTypes, FirstFreeType DEF TypeOK, BitmapSet
  <2>2. h \in Handles
    BY <2>1, HandleType
  <2>3. f \in Files /\ f.id \in Numbers /\ req[t].sess \in Sess
    BY <1>3, FilesType DEF OpenMetaRead, TypeOK, HandlersOK, Scanning
  <2> HIDE DEF i, h, bits, f
  <2>4. pFd' \in [Handles -> FdEntries]
    <3>0. pFd[h] \in FdEntries /\ DevOffset("meta", i) \in Int
      BY <2>1, <2>2, OffsetType DEF TypeOK
    <3>1. [pFd[h] EXCEPT !.dev_offset = DevOffset("meta", i), !.data_block_id = i,
                         !.block_id = f.id] \in FdEntries
      BY <2>1, <2>3, <3>0 DEF FdEntries
    <3>2. pFd' = [pFd EXCEPT ![h].dev_offset = DevOffset("meta", i),
                             ![h].data_block_id = i, ![h].block_id = f.id]
      BY <1>3 DEF OpenMetaRead, i, h, bits, f
    <3>3. pFd' = [pFd EXCEPT ![h] =
                    [pFd[h] EXCEPT !.dev_offset = DevOffset("meta", i), !.data_block_id = i,
                                   !.block_id = f.id]]
      BY <3>2, <2>2 DEF TypeOK
    <3> QED BY <2>2, <3>1, <3>3 DEF TypeOK
  <2>5. pMeta' \in [Slots -> Numbers]
    BY <1>3, <2>3 DEF OpenMetaRead, TypeOK, i, h, bits, f
  <2>6. [req[t] EXCEPT !.slot = i, !.cell = Bitmap(BitmapSet(i, bits))] \in Requests
    BY <2>1, CellTypes DEF TypeOK, HandlersOK, Requests
  <2>7. pos' \in Nat
    BY <1>3, PositionType DEF OpenMetaRead
  <2>8. Enter(t, "meta_seek", [req[t] EXCEPT !.slot = i, !.cell = Bitmap(BitmapSet(i, bits))])
    BY <1>3 DEF OpenMetaRead, i, h, bits, f
  <2>9. HandlersOK'
    BY <2>3, <2>6, <2>8, EnterType DEF Places, TypeOK, Requests, f
  <2> QED BY <1>3, <2>4, <2>5, <2>7, <2>9 DEF OpenMetaRead, TypeOK, kernel, history
<1>4. CASE OpenMetaSeekBack(t)
  <2>1. req[t] \in Requests /\ req[t].file \in Files /\ req[t].sess \in Sess
    BY <1>4 DEF OpenMetaSeekBack, TypeOK, HandlersOK, Scanning
  <2>2. pos' \in Nat
    BY <1>4, PositionType DEF OpenMetaSeekBack, BITMAP_OFFSET
  <2> QED BY <1>4, <2>1, <2>2, EnterType
          DEF OpenMetaSeekBack, TypeOK, memory, kernel, history, Places
<1>5. CASE OpenMetaWrite(t)
  <2> DEFINE h == Handle("meta", req[t].slot)
  <2>1. req[t].slot \in Slots \cup {-1} /\ req[t].cell \in CellValues
    BY DEF TypeOK, HandlersOK, Requests
  <2>2. h \in Handles
    BY <2>1, HandleType
  <2>3. req[t].file \in Files /\ req[t].sess \in Sess
    BY <1>5 DEF OpenMetaWrite, TypeOK, HandlersOK, Scanning
  <2>4. pFd' \in [Handles -> FdEntries]
    <3>0. pFd[h] \in FdEntries
      BY <2>2 DEF TypeOK
    <3>1. [pFd[h] EXCEPT !.flag = "meta"] \in FdEntries
      BY <3>0 DEF FdEntries
    <3> QED BY <1>5, <2>2, <3>1 DEF OpenMetaWrite, TypeOK
  <2>5. open' \in [Sess -> Opens]
    BY <1>5, <2>2, <2>3, OpenedType DEF OpenMetaWrite
  <2>6. disk' \in [Cells -> CellValues] /\ pos' \in Nat
    BY <1>5, <2>1, WriteType DEF OpenMetaWrite
  <2> QED BY <1>5, <2>4, <2>5, <2>6, FinishType DEF OpenMetaWrite, TypeOK, history
<1> QED BY <1>1, <1>2, <1>3, <1>4, <1>5 DEF OpenMeta

\* The steps of an open of a data file keep the types.
LEMMA OpenDataType ==
    ASSUME TypeOK, NEW t \in Threads, OpenData(t)
    PROVE  TypeOK'
<1>1. ASSUME NEW s \in Sess, NEW f \in Files, OpenDataFound(t, s, f)
      PROVE  TypeOK'
  <2> DEFINE i == Min(DataFound(f))
             h == Handle("data", i)
  <2>1. i \in Slots /\ h \in Handles
    BY <1>1, FoundType, HandleType DEF OpenDataFound, DataFound
  <2>2. pFd' \in [Handles -> FdEntries]
    <3>1. [pFd[h] EXCEPT !.data_block_id = i] \in FdEntries
      BY <2>1 DEF TypeOK, FdEntries
    <3> QED BY <1>1, <2>1, <3>1 DEF OpenDataFound, TypeOK
  <2>3. open' \in [Sess -> Opens]
    BY <1>1, <2>1, OpenedType DEF OpenDataFound
  <2>4. UNCHANGED <<disk, pos, cur_offset, p_bitmap, block_id_use, pMeta, pData,
                    pc, req, up, mounts, seen, len, published>>
    BY <1>1 DEF OpenDataFound, history
  <2> QED BY <2>2, <2>3, <2>4 DEF TypeOK, HandlersOK
<1>2. ASSUME NEW s \in Sess, NEW f \in Files, OpenDataPick(t, s, f)
      PROVE  TypeOK'
  <2>1. FirstFree(p_bitmap) \in Slots \cup {-1}
    BY FirstFreeType DEF TypeOK
  <2> DEFINE r == [NoReq EXCEPT !.file = f, !.sess = s, !.slot = FirstFree(p_bitmap)]
  <2>2. r \in Requests /\ r.file = f /\ r.sess = s /\ Enter(t, "data_set", r)
    BY <1>2, <2>1, FreshTypes DEF OpenDataPick, Requests, NoReq
  <2> HIDE DEF r
  <2> QED BY <1>2, <2>2, EnterType
          DEF OpenDataPick, TypeOK, memory, kernel, history, Places
<1>3. CASE OpenDataSet(t)
  <2> DEFINE i == req[t].slot
             h == Handle("data", i)
             f == req[t].file
  <2>1. i \in Slots \cup {-1} /\ req[t] \in Requests
    BY DEF TypeOK, HandlersOK, Requests
  <2>2. h \in Handles
    BY <2>1, HandleType
  <2>3. f \in Files /\ f.id \in Numbers /\ req[t].sess \in Sess
    BY <1>3, FilesType DEF OpenDataSet, TypeOK, HandlersOK, Scanning
  <2>4. pFd' \in [Handles -> FdEntries]
    <3>1. [block_id |-> f.id, data_block_id |-> i, size |-> pFd[h].size,
           flag |-> "data", dev_offset |-> DevOffset("data", i)] \in FdEntries
      BY <2>1, <2>2, <2>3, OffsetType DEF TypeOK, FdEntries
    <3> QED BY <1>3, <2>2, <3>1 DEF OpenDataSet, TypeOK
  <2>5. pData' \in [Slots -> Numbers]
    BY <1>3, <2>3 DEF OpenDataSet, TypeOK
  <2>6. p_bitmap' \in SUBSET Slots
    BY <1>3 DEF OpenDataSet, BitmapSet, TypeOK
  <2>7. pos' \in Nat
    BY <1>3, PositionType DEF OpenDataSet, BITMAP_OFFSET
  <2> QED BY <1>3, <2>1, <2>3, <2>4, <2>5, <2>6, <2>7, EnterType
          DEF OpenDataSet, TypeOK, kernel, history, Places
<1>4. CASE OpenDataWrite(t)
  <2>1. Handle("data", req[t].slot) \in Handles
    BY HandleType DEF TypeOK, HandlersOK, Requests
  <2>2. req[t].file \in Files /\ req[t].sess \in Sess
    BY <1>4 DEF OpenDataWrite, TypeOK, HandlersOK, Scanning
  <2>3. open' \in [Sess -> Opens]
    BY <1>4, <2>1, <2>2, OpenedType DEF OpenDataWrite
  <2>4. disk' \in [Cells -> CellValues] /\ pos' \in Nat
    BY <1>4, CellTypes, WriteType DEF OpenDataWrite, TypeOK
  <2> QED BY <1>4, <2>3, <2>4, FinishType DEF OpenDataWrite, TypeOK, memory, history
<1> QED BY <1>1, <1>2, <1>3, <1>4 DEF OpenData

\* What lfs_write and lfs_read do before they move the bytes.
LEMMA TransferType ==
    ASSUME TypeOK, NEW t \in Threads, NEW s \in Sess, NEW k \in 0 .. MaxLen - 1,
           NEW place \in {"write", "read"}, open[s].file \in Files,
           Transfer(t, s, k, place, Payload(open[s].file, k))
    PROVE  /\ pos' \in Nat
           /\ open' \in [Sess -> Opens]
           /\ HandlersOK'
<1> DEFINE a == pFd[open[s].fh].dev_offset + k
           r == [NoReq EXCEPT !.file = open[s].file, !.sess = s, !.at = a,
                              !.cell = Payload(open[s].file, k)]
<1>1. open[s].fh \in Handles /\ k \in Nat /\ k < MaxLen
  BY ConstantsAssumption DEF TypeOK, Opens
<1>2. a \in Int
  BY <1>1 DEF TypeOK, FdEntries
<1>3. pos' \in Nat
  BY <1>2, PositionType DEF Transfer, TypeOK
<1>4. r \in Requests
  BY <1>1, <1>2, FreshTypes, CellTypes DEF Requests
<1>5. r.file \in Files /\ r.sess \in Sess /\ r.cell \in PayloadCells /\ r.cell.at < MaxLen
  BY <1>1, CellTypes DEF NoReq, Payload
<1>6. open' \in [Sess -> Opens]
  BY DEF Transfer, TypeOK, Opens
<1>7. Enter(t, place, r) /\ place \in Places
  BY DEF Transfer, Places
<1> HIDE DEF r, a
<1> QED BY <1>3, <1>4, <1>5, <1>6, <1>7, EnterType

\* The steps of write, read and release keep the types.
LEMMA UseType ==
    ASSUME TypeOK, NEW t \in Threads, Use(t)
    PROVE  TypeOK'
<1>1. ASSUME NEW s \in Sess, NEW k \in 0 .. MaxLen - 1, WriteSeek(t, s, k)
      PROVE  TypeOK'
  <2>1. open[s].file \in Files /\ open[s].fh \in Handles
    BY <1>1 DEF WriteSeek, CanUse, TypeOK, Opens
  <2>2. pFd' \in [Handles -> FdEntries]
    <3>1. [pFd[open[s].fh] EXCEPT !.size = @ + 1] \in FdEntries
      BY <1>1, <2>1, ConstantsAssumption DEF WriteSeek, TypeOK, FdEntries
    <3> QED BY <1>1, <2>1, <3>1 DEF WriteSeek, TypeOK
  <2> QED BY <1>1, <2>1, <2>2, TransferType DEF WriteSeek, TypeOK, history
<1>2. CASE WriteData(t)
  <2>1. req[t] \in Requests /\ req[t].file \in Files /\ req[t].cell \in PayloadCells
        /\ req[t].cell.at < MaxLen
    BY <1>2 DEF WriteData, TypeOK, HandlersOK, Scanning
  <2>2. req[t].at \in Int /\ req[t].cell \in CellValues /\ req[t].cell.at \in Nat
    BY <2>1 DEF Requests, PayloadCells
  <2>3. disk' \in [Cells -> CellValues] /\ pos' \in Nat
    BY <1>2, <2>2, WriteType DEF WriteData
  <2>4. len' \in [Files -> 0 .. MaxLen]
    BY <1>2, <2>1, <2>2, ConstantsAssumption DEF WriteData, TypeOK
  <2> QED BY <1>2, <2>2, <2>3, <2>4, FinishType DEF WriteData, Remember, TypeOK, kernel
<1>3. ASSUME NEW s \in Sess, NEW k \in 0 .. MaxLen - 1, ReadSeek(t, s, k)
      PROVE  TypeOK'
  <2>1. open[s].file \in Files
    BY <1>3 DEF ReadSeek, CanUse, TypeOK, Opens
  <2> QED BY <1>3, <2>1, TransferType DEF ReadSeek, TypeOK, memory, history
<1>4. CASE ReadData(t)
  <2>1. req[t].at \in Int
    BY DEF TypeOK, HandlersOK, Requests
  <2>2. pos' \in Nat
    BY <1>4, PositionType DEF ReadData
  <2> QED BY <1>4, <2>1, <2>2, FinishType DEF ReadData, Remember, TypeOK, kernel, history
<1>5. ASSUME NEW s \in Sess, ReleaseSeek(t, s)
      PROVE  TypeOK'
  <2> DEFINE e == pFd[open[s].fh]
             a == InfoOffset(e.data_block_id)
  <2>1. open[s].file \in Files /\ e \in FdEntries
    BY <1>5 DEF ReleaseSeek, CanUse, TypeOK, Opens
  <2>2. a \in Int
    BY <2>1, OffsetType DEF FdEntries
  <2>3. PICK junk \in StackJunk :
            Enter(t, "release_write", [NoReq EXCEPT !.file = open[s].file, !.sess = s,
                                                    !.at = a, !.cell = Released(e, junk)])
    BY <1>5 DEF ReleaseSeek
  <2>4. Released(e, junk) \in CellValues
    BY <2>1, CellTypes, LengthsType DEF Released, FdEntries
  <2> DEFINE r == [NoReq EXCEPT !.file = open[s].file, !.sess = s, !.at = a,
                                !.cell = Released(e, junk)]
  <2>5. r \in Requests /\ r.file \in Files /\ r.sess \in Sess
    BY <2>1, <2>2, <2>4, FreshTypes DEF Requests, NoReq
  <2>6. pos' \in Nat
    BY <1>5, <2>2, PositionType DEF ReleaseSeek
  <2>7. Enter(t, "release_write", r)
    BY <2>3
  <2> HIDE DEF r
  <2> QED BY <1>5, <2>5, <2>6, <2>7, EnterType
          DEF ReleaseSeek, TypeOK, memory, kernel, history, Places
<1>6. CASE ReleaseWrite(t)
  <2>1. req[t].at \in Int /\ req[t].cell \in CellValues
    BY DEF TypeOK, HandlersOK, Requests
  <2>2. disk' \in [Cells -> CellValues] /\ pos' \in Nat
    BY <1>6, <2>1, WriteType DEF ReleaseWrite
  <2>3. published' \in [Files -> (0 .. MaxLen) \cup {NotPublished}]
    BY <1>6 DEF ReleaseWrite, TypeOK
  <2>4. open' \in [Sess -> Opens]
    <3>1. Closed \in Opens
      BY ConstantsAssumption DEF Closed, Handles, Opens
    <3> QED BY <1>6, <3>1 DEF ReleaseWrite, TypeOK
  <2> QED BY <1>6, <2>1, <2>2, <2>3, <2>4, FinishType DEF ReleaseWrite, Remember, TypeOK
<1> QED BY <1>1, <1>2, <1>3, <1>4, <1>5, <1>6 DEF Use

\* Every step of the program, of the kernel and of its clients keeps the types.
LEMMA StepType == TypeOK /\ [Next]_vars => TypeOK'
<1> SUFFICES ASSUME TypeOK, [Next]_vars
             PROVE  TypeOK'
  OBVIOUS
<1>1. CASE Mount
  <2>1. pos' \in Nat /\ p_bitmap' \in SUBSET Slots
    <3>1. disk[BITMAP_OFFSET] \in CellValues \/ BITMAP_OFFSET \notin Cells
      BY DEF TypeOK
    <3>2. BITMAP_OFFSET \in Cells
      <4>1. DATA_OFFSET <= dev_size /\ DATA_OFFSET > 1 /\ DATA_OFFSET \in Nat
        BY LayoutOrder, ConstantsAssumption DEF DATA_OFFSET, EXTRA_OFFSET, INFO_OFFSET
      <4> QED BY <4>1, LayoutType DEF Cells, BITMAP_OFFSET
    <3> QED BY <1>1, <3>1, <3>2, ReadTypes DEF Mount, BITMAP_OFFSET
  <2>2. mounts' \in 0 .. MaxMounts
    BY <1>1, ConstantsAssumption DEF Mount, TypeOK
  <2>3. UNCHANGED <<disk, pc, req, open, seen, len, published>> /\ up' \in BOOLEAN
    BY <1>1 DEF Mount, history
  <2>4. HandlersOK'
    BY <2>3 DEF TypeOK, HandlersOK
  <2> QED BY <1>1, <2>1, <2>2, <2>3, <2>4, FreshMemoryType DEF Mount, TypeOK
<1>2. CASE Stop
  <2>1. \A t \in Threads : pc'[t] = "idle"
    BY <1>2 DEF Stop
  <2>2. pc' \in [Threads -> Places]
    BY <1>2 DEF Stop, Places
  <2>3. req' \in [Threads -> Requests] /\ p_bitmap' \in SUBSET Slots /\ pos' \in Nat
    BY <1>2, FreshTypes DEF Stop
  <2>4. UNCHANGED <<disk, mounts, len, published>>
    BY <1>2 DEF Stop, history
  <2>5. HandlersOK'
    BY <2>1, <2>2, <2>3 DEF HandlersOK
  <2>6. open' \in [Sess -> Opens] /\ seen' \in SUBSET (Files \cup {Root})
    BY <1>2, FreshTypes DEF Stop
  <2>7. up' \in BOOLEAN
    BY <1>2, Zenon DEF Stop
  <2> QED BY <1>2, <2>3, <2>4, <2>5, <2>6, <2>7, FreshMemoryType DEF Stop, TypeOK
<1>3. ASSUME NEW t \in Threads, Scan(t)
      PROVE  TypeOK'
  <2>1. ASSUME NEW f \in Files \cup {Root, NoFile}, ScanSeekInfo(t, f)
        PROVE  TypeOK'
    <3> DEFINE r == [NoReq EXCEPT !.file = f]
    <3>1. r \in Requests /\ Enter(t, "scan_info", r)
      BY <2>1, FreshTypes DEF ScanSeekInfo, Requests
    <3>2. pos' \in Nat
      BY <2>1, PositionType, ConstantsAssumption DEF ScanSeekInfo, INFO_OFFSET
    <3> HIDE DEF r
    <3> QED BY <2>1, <3>1, <3>2, EnterType
            DEF ScanSeekInfo, TypeOK, memory, kernel, history, Places, Scanning
  <2>2. CASE ScanReadInfo(t)
    <3>1. \A i \in Slots : AsInfo(CellAt(pos + i)) \in InfoCells
      BY PositionType, ReadTypes, LayoutType DEF TypeOK
    <3>2. req[t] \in Requests
      BY DEF TypeOK, HandlersOK
    <3> DEFINE r == [req[t] EXCEPT !.info = [i \in Slots |-> AsInfo(CellAt(pos + i))]]
    <3>3. r \in Requests /\ Enter(t, "scan_seek", r)
      BY <2>2, <3>1, <3>2 DEF ScanReadInfo, Requests
    <3>4. pos' \in Nat
      BY <2>2, PositionType, ConstantsAssumption DEF ScanReadInfo
    <3> HIDE DEF r
    <3> QED BY <2>2, <3>3, <3>4, EnterType
            DEF ScanReadInfo, TypeOK, memory, kernel, history, Places, Scanning
  <2>3. CASE ScanSeekBitmap(t)
    <3>1. req[t] \in Requests
      BY DEF TypeOK, HandlersOK
    <3>2. pos' \in Nat
      BY <2>3, PositionType DEF ScanSeekBitmap, BITMAP_OFFSET
    <3> QED BY <2>3, <3>1, <3>2, EnterType
            DEF ScanSeekBitmap, TypeOK, memory, kernel, history, Places, Scanning
  <2>4. CASE ScanReadBitmap(t)
    <3>1. req[t].file \in Files \cup {Root, NoFile} /\ req[t].file.id \in Numbers
      BY DEF TypeOK, HandlersOK, Requests, Files, Root, NoFile, Numbers
    <3>2. pMeta' \in [Slots -> Numbers] /\ pData' \in [Slots -> Numbers]
      BY <2>4, <3>1 DEF ScanReadBitmap, TypeOK
    <3>3. seen' \in SUBSET (Files \cup {Root})
      BY <2>4, <3>1 DEF ScanReadBitmap, TypeOK
    <3>4. pos' \in Nat
      BY <2>4, PositionType DEF ScanReadBitmap
    <3> QED BY <2>4, <3>2, <3>3, <3>4, FinishType
            DEF ScanReadBitmap, TypeOK, history
  <2> QED BY <1>3, <2>1, <2>2, <2>3, <2>4 DEF Scan
<1>4. ASSUME NEW t \in Threads, OpenMeta(t)
      PROVE  TypeOK'
  BY <1>4, OpenMetaType
<1>5. ASSUME NEW t \in Threads, OpenData(t)
      PROVE  TypeOK'
  BY <1>5, OpenDataType
<1>6. ASSUME NEW t \in Threads, Use(t)
      PROVE  TypeOK'
  BY <1>6, UseType
<1>7. CASE UNCHANGED vars
  BY <1>7 DEF vars, memory, kernel, history, TypeOK, HandlersOK
<1> QED BY <1>1, <1>2, <1>3, <1>4, <1>5, <1>6, <1>7 DEF Next

\* Type correctness of LiFS: the device, the shared position, the tables, the
\* handlers and the open files hold values of their types on every device.
THEOREM TypeCorrect == Spec => []TypeOK
<1>1. Init => TypeOK
  BY InitType
<1>2. TypeOK /\ [Next]_vars => TypeOK'
  BY StepType
<1> QED BY <1>1, <1>2, PTL DEF Spec

-----------------------------------------------------------------------------
(* The regions of the device do not overlap.                               *)

\* The superblock, the bitmap and the block_info table lie apart, before the
\* blocks and inside the device.
LEMMA HeaderCells ==
    /\ SUPER_OFFSET \in Cells /\ BITMAP_OFFSET \in Cells
    /\ SUPER_OFFSET # BITMAP_OFFSET
    /\ \A i \in Slots : /\ InfoOffset(i) \in Cells
                        /\ InfoOffset(i) < DATA_OFFSET - 1
                        /\ InfoOffset(i) > BITMAP_OFFSET
                        /\ InfoOffset(i) # SUPER_OFFSET
    /\ \A i, j \in Slots : InfoOffset(i) = InfoOffset(j) => i = j
<1>1. \A i \in Slots : i \in Nat /\ i < BLOCK_NUM
  BY ConstantsAssumption DEF Slots
<1>2. DATA_OFFSET = BLOCK_NUM + 4 /\ BLOCK_NUM \in Nat /\ DATA_OFFSET <= dev_size
  BY LayoutOrder, ConstantsAssumption DEF DATA_OFFSET, EXTRA_OFFSET, INFO_OFFSET
<1> QED BY <1>1, <1>2, LayoutType
        DEF Cells, SUPER_OFFSET, BITMAP_OFFSET, InfoOffset, INFO_OFFSET

\* The offset of a cell of a data area: behind the header and on the device,
\* by the product i * block_size that the code computes.
LEMMA DataCells1 ==
    ASSUME NEW i \in Slots, NEW k \in 0 .. DataCells - 1
    PROVE  /\ DataCell(i, k) \in Cells
           /\ DataCell(i, k) >= DATA_OFFSET
           /\ DataCell(i, k) = DATA_OFFSET + i * block_size + CsmCells + k
<1>1. /\ i \in Nat /\ i + 1 <= BLOCK_NUM /\ BLOCK_NUM \in Nat
      /\ k \in Nat /\ k < DataCells /\ DataCells \in Nat /\ CsmCells \in Nat
  BY ConstantsAssumption DEF Slots
<1>2. block_size \in Nat /\ block_size = CsmCells + DataCells
  BY LayoutType DEF block_size
<1>3. \A a, b, c \in Nat : a <= b => a * c <= b * c /\ (a + 1) * c = a * c + c /\ a * c \in Nat
  OBVIOUS
<1>4. /\ i * block_size \in Nat
      /\ (i + 1) * block_size = i * block_size + block_size
      /\ (i + 1) * block_size <= BLOCK_NUM * block_size
  BY <1>1, <1>2, <1>3
<1>5. DATA_OFFSET \in Nat /\ dev_size = DATA_OFFSET + BLOCK_NUM * block_size
  BY LayoutOrder DEF dev_size
<1>6. DataCell(i, k) = DATA_OFFSET + i * block_size + CsmCells + k
  BY <1>1, <1>4, <1>5 DEF DataCell, DevOffset
<1>7. BLOCK_NUM * block_size \in Nat
  BY LayoutType
<1> HIDE DEF DATA_OFFSET, block_size
<1> QED BY <1>1, <1>2, <1>4, <1>5, <1>6, <1>7 DEF Cells

\* A cell of a data area is none of the header.
LEMMA BehindHeader ==
    ASSUME NEW i \in Slots, NEW k \in 0 .. DataCells - 1
    PROVE  /\ DataCell(i, k) \in Cells /\ DataCell(i, k) \in Int
           /\ DataCell(i, k) >= DATA_OFFSET
           /\ DataCell(i, k) # SUPER_OFFSET /\ DataCell(i, k) # BITMAP_OFFSET
           /\ \A j \in Slots : DataCell(i, k) # InfoOffset(j)
<1>1. DataCell(i, k) \in Cells /\ DataCell(i, k) >= DATA_OFFSET
  BY DataCells1
<1>2. DataCell(i, k) \in Int
  BY <1>1 DEF Cells
<1>3. DATA_OFFSET > BITMAP_OFFSET /\ DATA_OFFSET > SUPER_OFFSET /\ DATA_OFFSET \in Nat
  BY ConstantsAssumption
     DEF DATA_OFFSET, EXTRA_OFFSET, INFO_OFFSET, BITMAP_OFFSET, SUPER_OFFSET
<1>4. \A j \in Slots : InfoOffset(j) < DATA_OFFSET - 1 /\ InfoOffset(j) \in Int
  BY HeaderCells DEF Cells
<1> HIDE DEF DATA_OFFSET
<1> QED BY <1>1, <1>2, <1>3, <1>4 DEF BITMAP_OFFSET, SUPER_OFFSET

\* Two cells of data areas are the same only if they are the same cell of the
\* same block.
LEMMA DataCellsDistinct ==
    ASSUME NEW i \in Slots, NEW k \in 0 .. DataCells - 1,
           NEW j \in Slots, NEW l \in 0 .. DataCells - 1,
           DataCell(i, k) = DataCell(j, l)
    PROVE  i = j /\ k = l
<1>1. /\ i \in Nat /\ j \in Nat /\ k \in Nat /\ l \in Nat
      /\ k < DataCells /\ l < DataCells /\ DataCells \in Nat /\ CsmCells \in Nat
  BY ConstantsAssumption DEF Slots
<1>2. block_size \in Nat /\ block_size = CsmCells + DataCells
  BY LayoutType DEF block_size
<1>3. \A a, b, c \in Nat : a < b => a * c + c <= b * c
  <2> SUFFICES ASSUME NEW a \in Nat, NEW b \in Nat, NEW c \in Nat, a < b
               PROVE  a * c + c <= b * c
    OBVIOUS
  <2>1. PICK d \in Nat : b = a + 1 + d
    <3>1. b - a - 1 \in Nat /\ b = a + 1 + (b - a - 1)
      OBVIOUS
    <3> QED BY <3>1
  <2>2. b * c = a * c + c + d * c /\ d * c >= 0 /\ a * c \in Nat /\ d * c \in Nat
    BY <2>1
  <2> QED BY <2>2
<1>4. i * block_size + k = j * block_size + l
  <2> DEFINE p == i * block_size
             q == j * block_size
  <2>1. DataCell(i, k) = DATA_OFFSET + p + CsmCells + k
    BY DataCells1
  <2>2. DataCell(j, l) = DATA_OFFSET + q + CsmCells + l
    BY DataCells1
  <2>3. p \in Nat /\ q \in Nat /\ DATA_OFFSET \in Nat
    BY <1>1, <1>2, LayoutOrder
  <2> HIDE DEF p, q
  <2>4. DATA_OFFSET + p + CsmCells + k = DATA_OFFSET + q + CsmCells + l
    BY <2>1, <2>2
  <2>5. p + k = q + l
    BY <2>3, <2>4, <1>1
  <2> QED BY <2>5 DEF p, q
<1>5. i * block_size \in Nat /\ j * block_size \in Nat
  BY <1>1, <1>2
<1>6. ~(i < j)
  <2> SUFFICES ASSUME i < j PROVE FALSE
    OBVIOUS
  <2>1. i * block_size + block_size <= j * block_size
    BY <1>1, <1>2, <1>3
  <2> QED BY <2>1, <1>1, <1>2, <1>4, <1>5
<1>7. ~(j < i)
  <2> SUFFICES ASSUME j < i PROVE FALSE
    OBVIOUS
  <2>1. j * block_size + block_size <= i * block_size
    BY <1>1, <1>2, <1>3
  <2> QED BY <2>1, <1>1, <1>2, <1>4, <1>5
<1>8. i = j
  BY <1>1, <1>6, <1>7
<1> QED BY <1>1, <1>4, <1>5, <1>8

\* The handle of a block belongs to that block alone, and handle 2 to none.
LEMMA DataHandles ==
    /\ \A i \in Slots : DataHandle(i) \in Handles /\ DataHandle(i) # 2
    /\ \A i, j \in Slots : DataHandle(i) = DataHandle(j) => i = j
BY ConstantsAssumption DEF DataHandle, Handle, Handles, Slots

-----------------------------------------------------------------------------
(* What holds of the supported use before any step is looked at.           *)

\* Only one handler runs, so that the block being opened is its own.
LEMMA OneThread ==
    ASSUME SerialUse, NEW t \in Threads
    PROVE  /\ \A u \in Threads : u = t
           /\ \A i : Opening(i) <=> pc[t] = "data_write" /\ req[t].slot = i
           /\ Alone <=> pc[t] = "idle"
BY DEF SerialUse, Opening, Alone

\* The only kind of file is the data file, so the number identifies it.
LEMMA DataFiles ==
    ASSUME SerialUse, NEW f \in Files
    PROVE  /\ f.kind = "data" /\ f.id \in BlockIds /\ f.id # NoId
           /\ \A g \in Files : g.id = f.id => g = f
           /\ f # NoFile /\ f # Root
BY ConstantsAssumption DEF SerialUse, Files, NoFile, Root

\* Files are not longer than a data area.
LEMMA InsideBlock ==
    ASSUME SerialUse
    PROVE  \A k \in 0 .. MaxLen - 1 : k \in 0 .. DataCells - 1 /\ k \in Nat
BY ConstantsAssumption DEF SerialUse

\* A closed session has no handle of a block.
LEMMA ClosedInUse ==
    ASSUME NEW s \in Sess, open[s] = Closed, NEW i \in Slots
    PROVE  open[s].fh # DataHandle(i)
BY DataHandles DEF Closed

\* Steps that leave the device, the bitmap, pData, the offsets in the handle
\* table and the lengths alone disturb none of the facts about them, as long
\* as no block is being opened and no handle is given up.
LEMMA Frame ==
    ASSUME SerialInv, up,
           UNCHANGED <<disk, p_bitmap, block_id_use, pData, up, mounts, len>>,
           \A h \in Handles : /\ pFd'[h].block_id = pFd[h].block_id
                             /\ pFd'[h].data_block_id = pFd[h].data_block_id
                             /\ pFd'[h].dev_offset = pFd[h].dev_offset
                             /\ pFd'[h].flag = pFd[h].flag,
           \A i \in Slots : ~Opening(i) /\ ~Opening(i)',
           \A i \in Slots : InUse(i) => InUse(i)',
           p_bitmap \subseteq Slots
    PROVE  /\ MountInv' /\ TablesInv' /\ SuperInv' /\ BitmapInv'
           /\ InfoInv' /\ DataInv' /\ OwnerInv'
<1>1. MountInv'
  BY DEF SerialInv, MountInv
<1>2. TablesInv'
  BY DataHandles DEF SerialInv, TablesInv
<1>3. SuperInv'
  BY DEF SerialInv, SuperInv
<1>4. BitmapInv'
  <2>1. {i \in p_bitmap : ~Opening(i)} = p_bitmap
    OBVIOUS
  <2>2. {i \in p_bitmap' : ~Opening(i)'} = p_bitmap
    OBVIOUS
  <2> QED BY <2>1, <2>2 DEF SerialInv, BitmapInv
<1>5. InfoInv'
  BY DEF SerialInv, InfoInv
<1>6. DataInv'
  BY DEF SerialInv, DataInv
<1>7. OwnerInv'
  BY DEF SerialInv, OwnerInv
<1> QED BY <1>1, <1>2, <1>3, <1>4, <1>5, <1>6, <1>7

\* The handler that moves is the only one.
LEMMA Entered ==
    ASSUME SerialUse, TypeOK, NEW t \in Threads, NEW place, NEW r, Enter(t, place, r)
    PROVE  /\ pc'[t] = place /\ req'[t] = r
           /\ Alone' <=> place = "idle"
           /\ \A i : Opening(i)' <=> place = "data_write" /\ r.slot = i
<1>1. pc'[t] = place /\ req'[t] = r
  BY DEF Enter, TypeOK, HandlersOK
<1> QED BY <1>1 DEF SerialUse, Alone, Opening

\* A handler that is at work, or can start, finds the program running.
LEMMA Running ==
    ASSUME SerialInv, NEW t \in Threads, pc[t] # "idle" \/ Idle(t)
    PROVE  up
BY DEF SerialInv, MountInv, Idle

-----------------------------------------------------------------------------
(* Lookups: getattr writes into pData what is there.                       *)

\* While nothing is open and no block is being opened, the block_info of every
\* used block agrees with pData.
LEMMA InfoAgrees ==
    ASSUME TypeOK, SerialInv, NothingOpen, NEW i \in p_bitmap, ~Opening(i)
    PROVE  disk[InfoOffset(i)].b_block_id = pData[i]
<1>1. i \in Slots
  BY DEF TypeOK
<1>2. ~InUse(i)
  BY <1>1, ClosedInUse DEF NothingOpen, InUse, SerialInv, OpenInv
<1> QED BY <1>1, <1>2 DEF SerialInv, InfoInv

\* getattr writes into pData only the number that is there.
LEMMA LookupRepeats ==
    ASSUME SerialUse, TypeOK, SerialInv, NEW t \in Threads, ScanReadBitmap(t)
    PROVE  pData' = pData
<1> DEFINE f == req[t].file
           hits == Matches(AsBits(CellAt(pos)), req[t].info, f.id)
<1>1. pc[t] = "scan_bitmap" /\ \A i \in Slots : ~Opening(i)
  BY OneThread DEF ScanReadBitmap
<1>2. /\ NothingOpen /\ pos = BITMAP_OFFSET
      /\ req[t].info = [i \in Slots |-> disk[InfoOffset(i)]]
  BY <1>1 DEF SerialInv, HandlerInv, Scanning
<1>3. hits \subseteq p_bitmap /\ \A i \in hits : pData[i] = f.id
  <2>1. CellAt(pos) = Bitmap({i \in p_bitmap : ~Opening(i)})
    BY <1>2, HeaderCells DEF CellAt, SerialInv, BitmapInv
  <2>2. AsBits(CellAt(pos)) \subseteq p_bitmap
    BY <2>1 DEF AsBits, Bitmap
  <2>3. hits \subseteq p_bitmap /\ p_bitmap \subseteq Slots
    BY <2>2 DEF Matches, TypeOK
  <2>4. ASSUME NEW i \in hits
        PROVE  pData[i] = f.id
    <3>1. i \in p_bitmap /\ i \in Slots /\ ~Opening(i) /\ disk[InfoOffset(i)].b_block_id = f.id
      BY <1>1, <1>2, <2>3 DEF Matches
    <3> QED BY <3>1, <1>2, InfoAgrees
  <2> QED BY <2>3, <2>4
<1> HIDE DEF hits
<1> QED
  <2>1. CASE f = NoFile \/ hits = {}
    BY <2>1 DEF ScanReadBitmap, hits
  <2>2. CASE ~(f = NoFile \/ hits = {})
    <3>1. f \in Files \cup {Root}
      BY <2>2 DEF TypeOK, HandlersOK, Requests
    <3>2. f.kind # "meta"
      BY <3>1, DataFiles DEF Root
    <3>3. Min(hits) \in hits
      BY <1>3, <2>2, FoundType DEF TypeOK
    <3>4. pData' = [pData EXCEPT ![Min(hits)] = f.id]
      BY <2>2, <3>2 DEF ScanReadBitmap, hits
    <3>5. pData[Min(hits)] = f.id
      BY <3>3, <1>3
    <3> QED BY <3>4, <3>5 DEF TypeOK
  <2> QED BY <2>1, <2>2

\* getattr and readdir leave the invariant alone.
LEMMA ScanStep ==
    ASSUME SerialUse, TypeOK, SerialInv, NEW t \in Threads, Scan(t)
    PROVE  SerialInv'
<1>1. ASSUME NEW f \in Files \cup {Root, NoFile}, ScanSeekInfo(t, f)
      PROVE  SerialInv'
  <2> DEFINE r == [NoReq EXCEPT !.file = f]
  <2>1. Enter(t, "scan_info", r)
    BY <1>1 DEF ScanSeekInfo
  <2> HIDE DEF r
  <2>2. /\ pc'[t] = "scan_info" /\ ~Alone'
        /\ \A i \in Slots : ~Opening(i) /\ ~Opening(i)'
        /\ pc[t] = "idle" /\ up
    BY <1>1, <2>1, Entered, OneThread DEF ScanSeekInfo, Idle
  <2>3. UNCHANGED <<disk, p_bitmap, block_id_use, pData, pFd, up, mounts, len, open, cur_offset>>
    BY <1>1 DEF ScanSeekInfo, memory, kernel, history
  <2>4. NothingOpen /\ NothingOpen'
    BY <1>1, <2>3 DEF ScanSeekInfo, Undisturbed, SerialUse, NothingOpen
  <2>5. pos' = INFO_OFFSET
    BY <1>1, LayoutOrder, ConstantsAssumption DEF ScanSeekInfo, Lseek, INFO_OFFSET
  <2>6. /\ MountInv' /\ TablesInv' /\ SuperInv' /\ BitmapInv'
        /\ InfoInv' /\ DataInv' /\ OwnerInv'
    BY <2>2, <2>3, Frame DEF TypeOK, InUse
  <2>7. OpenInv'
    BY <2>2, <2>3 DEF SerialInv, OpenInv, TypeOK
  <2>8. PositionInv'
    BY <2>2, <2>3 DEF SerialInv, PositionInv, NoTransferYet
  <2>9. \A u \in Threads : HandlerInv(u)'
    <3>1. \A u \in Threads : pc'[u] = "scan_info"
      BY <2>2, OneThread
    <3> QED BY <3>1, <2>4, <2>5 DEF HandlerInv, Scanning
  <2> QED BY <2>6, <2>7, <2>8, <2>9 DEF SerialInv
<1>2. CASE ScanReadInfo(t)
  <2> DEFINE r == [req[t] EXCEPT !.info = [i \in Slots |-> AsInfo(CellAt(pos + i))]]
  <2>1. Enter(t, "scan_seek", r) /\ r.info = [i \in Slots |-> AsInfo(CellAt(pos + i))]
    BY <1>2 DEF ScanReadInfo, TypeOK, HandlersOK, Requests
  <2> HIDE DEF r
  <2>2. /\ pc'[t] = "scan_seek" /\ req'[t] = r /\ ~Alone'
        /\ \A i \in Slots : ~Opening(i) /\ ~Opening(i)'
        /\ pc[t] = "scan_info" /\ up
    BY <1>2, <2>1, Entered, OneThread, Running DEF ScanReadInfo
  <2>3. UNCHANGED <<disk, p_bitmap, block_id_use, pData, pFd, up, mounts, len, open, cur_offset>>
    BY <1>2 DEF ScanReadInfo, memory, kernel, history
  <2>4. NothingOpen /\ NothingOpen' /\ pos = INFO_OFFSET
    BY <2>2, <2>3 DEF SerialInv, HandlerInv, NothingOpen, Scanning
  <2>5. r.info = [i \in Slots |-> disk[InfoOffset(i)]]
    <3>1. \A i \in Slots : AsInfo(CellAt(pos + i)) = disk[InfoOffset(i)]
      <4> SUFFICES ASSUME NEW i \in Slots
                   PROVE  AsInfo(CellAt(pos + i)) = disk[InfoOffset(i)]
        OBVIOUS
      <4>1. disk[InfoOffset(i)] \in InfoCells
        BY DEF SerialInv, InfoInv
      <4>2. pos + i = InfoOffset(i) /\ InfoOffset(i) \in Cells
        BY <2>4, HeaderCells DEF InfoOffset
      <4> QED BY <4>1, <4>2 DEF CellAt, AsInfo, InfoCells
    <3> QED BY <2>1, <3>1
  <2>6. /\ MountInv' /\ TablesInv' /\ SuperInv' /\ BitmapInv'
        /\ InfoInv' /\ DataInv' /\ OwnerInv'
    BY <2>2, <2>3, Frame DEF TypeOK, InUse
  <2>7. OpenInv'
    BY <2>2, <2>3 DEF SerialInv, OpenInv, TypeOK
  <2>8. PositionInv'
    BY <2>2, <2>3 DEF SerialInv, PositionInv, NoTransferYet
  <2>9. \A u \in Threads : HandlerInv(u)'
    <3>1. \A u \in Threads : pc'[u] = "scan_seek" /\ req'[u] = r
      BY <2>2, OneThread
    <3> QED BY <3>1, <2>3, <2>4, <2>5 DEF HandlerInv, Scanning
  <2> QED BY <2>6, <2>7, <2>8, <2>9 DEF SerialInv
<1>3. CASE ScanSeekBitmap(t)
  <2>1. Enter(t, "scan_bitmap", req[t])
    BY <1>3 DEF ScanSeekBitmap
  <2>2. /\ pc'[t] = "scan_bitmap" /\ req'[t] = req[t] /\ ~Alone'
        /\ \A i \in Slots : ~Opening(i) /\ ~Opening(i)'
        /\ pc[t] = "scan_seek" /\ up
    BY <1>3, <2>1, Entered, OneThread, Running DEF ScanSeekBitmap
  <2>3. UNCHANGED <<disk, p_bitmap, block_id_use, pData, pFd, up, mounts, len, open, cur_offset>>
    BY <1>3 DEF ScanSeekBitmap, memory, kernel, history
  <2>4. /\ NothingOpen /\ NothingOpen' /\ pos' = BITMAP_OFFSET
        /\ req[t].info = [i \in Slots |-> disk[InfoOffset(i)]]
    BY <1>3, <2>2, <2>3
       DEF SerialInv, HandlerInv, NothingOpen, Scanning, ScanSeekBitmap, Lseek,
           BITMAP_OFFSET
  <2>5. /\ MountInv' /\ TablesInv' /\ SuperInv' /\ BitmapInv'
        /\ InfoInv' /\ DataInv' /\ OwnerInv'
    BY <2>2, <2>3, Frame DEF TypeOK, InUse
  <2>6. OpenInv'
    BY <2>2, <2>3 DEF SerialInv, OpenInv, TypeOK
  <2>7. PositionInv'
    BY <2>2, <2>3 DEF SerialInv, PositionInv, NoTransferYet
  <2>8. \A u \in Threads : HandlerInv(u)'
    <3>1. \A u \in Threads : pc'[u] = "scan_bitmap" /\ req'[u] = req[t]
      BY <2>2, OneThread
    <3> QED BY <3>1, <2>3, <2>4 DEF HandlerInv, Scanning
  <2> QED BY <2>5, <2>6, <2>7, <2>8 DEF SerialInv
<1>4. CASE ScanReadBitmap(t)
  <2>1. Enter(t, "idle", NoReq)
    BY <1>4 DEF ScanReadBitmap, Finish
  <2>2. /\ pc'[t] = "idle" /\ pc[t] = "scan_bitmap" /\ up
        /\ \A i \in Slots : ~Opening(i) /\ ~Opening(i)'
    BY <1>4, <2>1, Entered, OneThread, Running DEF ScanReadBitmap
  <2>3. UNCHANGED <<disk, p_bitmap, block_id_use, pFd, up, mounts, len, open, cur_offset>>
    BY <1>4 DEF ScanReadBitmap, history
  <2>4. /\ NothingOpen /\ pos = BITMAP_OFFSET
        /\ req[t].info = [i \in Slots |-> disk[InfoOffset(i)]]
    BY <2>2 DEF SerialInv, HandlerInv, Scanning
  <2>6. pData' = pData
    BY <1>4, LookupRepeats
  <2>7. /\ MountInv' /\ TablesInv' /\ SuperInv' /\ BitmapInv'
        /\ InfoInv' /\ DataInv' /\ OwnerInv'
    BY <2>2, <2>3, <2>6, Frame DEF TypeOK, InUse
  <2>8. OpenInv'
    BY <2>2, <2>3, <2>6 DEF SerialInv, OpenInv, TypeOK
  <2>9. PositionInv'
    <3>1. NoTransferYet
      BY <2>4 DEF SerialInv, OpenInv, NothingOpen, NoTransferYet, Closed
    <3>2. cur_offset < DATA_OFFSET /\ cur_offset \in Int /\ DATA_OFFSET \in Nat
      BY <3>1, LayoutOrder DEF SerialInv, PositionInv, TypeOK
    <3> QED BY <2>3, <3>2 DEF PositionInv
  <2>10. \A u \in Threads : HandlerInv(u)'
    <3>1. \A u \in Threads : pc'[u] = "idle"
      BY <2>2, OneThread
    <3> QED BY <3>1 DEF HandlerInv, Scanning
  <2> QED BY <2>7, <2>8, <2>9, <2>10 DEF SerialInv
<1> QED BY <1>1, <1>2, <1>3, <1>4 DEF Scan

-----------------------------------------------------------------------------
(* Opens.                                                                  *)

\* There is a free block for a file that has none: with the file's own number
\* missing from pData, fewer than BLOCK_NUM numbers are left for the used ones.
LEMMA FreeBlock ==
    ASSUME SerialUse, TypeOK, TablesInv, NEW f \in Files,
           \A i \in Slots : pData[i] # f.id
    PROVE  FirstFree(p_bitmap) \in Slots \ p_bitmap
<1>1. SUFFICES ASSUME Slots \subseteq p_bitmap
               PROVE  FALSE
  BY FirstFreeType DEF TypeOK
<1>2. IsFiniteSet(Slots) /\ Cardinality(Slots) = BLOCK_NUM
  <2>1. 0 \in Int /\ BLOCK_NUM - 1 \in Int /\ ~(0 > BLOCK_NUM - 1)
    BY ConstantsAssumption
  <2>2. BLOCK_NUM - 1 - 0 + 1 = BLOCK_NUM
    BY ConstantsAssumption
  <2> QED BY <2>1, <2>2, FS_Interval DEF Slots
<1> DEFINE others == BlockIds \ {f.id}
<1>3. IsFiniteSet(others) /\ Cardinality(others) < Cardinality(Slots)
  <2>1. IsFiniteSet(BlockIds) /\ Cardinality(BlockIds) <= BLOCK_NUM
    BY DEF SerialUse
  <2>2. Cardinality(BlockIds) \in Nat
    BY <2>1, FS_CardinalityType
  <2>3. f.id \in BlockIds
    BY DataFiles
  <2>4. IsFiniteSet(others) /\ Cardinality(others) = Cardinality(BlockIds) - 1
    BY <2>1, <2>3, FS_RemoveElement
  <2> QED BY <2>1, <2>2, <2>4, <1>2, ConstantsAssumption
<1>4. pData \in [Slots -> others]
  BY <1>1 DEF TypeOK, TablesInv, Numbers
<1> HIDE DEF others
<1>5. PICK i, j \in Slots : i # j /\ pData[i] = pData[j]
  BY <1>2, <1>3, <1>4, FS_PigeonHole
<1> QED BY <1>1, <1>5 DEF TablesInv

\* What an exclusive mount has at the start of an open.
LEMMA OpenStart ==
    ASSUME SerialUse, TypeOK, SerialInv, NEW t \in Threads, NEW s \in Sess,
           NEW f \in Files, CanOpen(t, s, f)
    PROVE  /\ pc[t] = "idle" /\ up
           /\ NoTransferYet
           /\ open[s] = Closed
           /\ \A i \in Slots : ~Opening(i)
<1>1. pc[t] = "idle" /\ up /\ open[s].file = NoFile /\ NoTransferYet
  BY DEF CanOpen, Idle, SerialUse, NoTransferYet
<1>2. open[s] = Closed
  BY <1>1 DEF SerialInv, OpenInv
<1> QED BY <1>1, <1>2, OneThread

\* An open that finds the file in pData hands out the handle as it is.
LEMMA OpenFoundStep ==
    ASSUME SerialUse, TypeOK, SerialInv, NEW t \in Threads, NEW s \in Sess,
           NEW f \in Files, OpenDataFound(t, s, f)
    PROVE  SerialInv'
<1> DEFINE i == Min(DataFound(f))
           h == DataHandle(i)
<1>1. /\ pc[t] = "idle" /\ up /\ NoTransferYet /\ open[s] = Closed
      /\ \A j \in Slots : ~Opening(j)
  BY OpenStart DEF OpenDataFound
<1>2. i \in DataFound(f) /\ i \in Slots
  BY FoundType DEF OpenDataFound, DataFound
<1>3. pData[i] = f.id /\ i \in p_bitmap
  BY <1>2, DataFiles DEF DataFound, SerialInv, TablesInv
<1>4. h \in Handles /\ f \in Files
  BY <1>2, DataHandles
<1>5. /\ pFd' = [pFd EXCEPT ![h].data_block_id = i]
      /\ open' = [open EXCEPT ![s] = [file |-> f, fh |-> h, io |-> FALSE]]
      /\ UNCHANGED <<disk, pos, cur_offset, p_bitmap, block_id_use, pData, pc, req,
                     up, mounts, len>>
  BY DEF OpenDataFound, Opened, history, DataHandle
<1> HIDE DEF i, h
<1>6. /\ open'[s] = [file |-> f, fh |-> h, io |-> FALSE]
      /\ \A r \in Sess : r # s => open'[r] = open[r]
  BY <1>5 DEF TypeOK
<1>7. \A j \in Slots : InUse(j) => InUse(j)'
  BY <1>1, <1>6, ClosedInUse DEF InUse
<1>8. \A g \in Handles : /\ pFd'[g].block_id = pFd[g].block_id
                         /\ pFd'[g].data_block_id = pFd[g].data_block_id
                         /\ pFd'[g].dev_offset = pFd[g].dev_offset
                         /\ pFd'[g].flag = pFd[g].flag
  <2>1. pFd[h].data_block_id = i /\ pFd[h] \in FdEntries
    BY <1>3, <1>4 DEF h, SerialInv, TablesInv, TypeOK
  <2>2. [pFd[h] EXCEPT !.data_block_id = i] = pFd[h]
    BY <2>1 DEF FdEntries
  <2> QED BY <1>5, <2>2 DEF TypeOK
<1>9. \A j \in Slots : ~Opening(j)'
  BY <1>1, <1>5 DEF Opening
<1>10. /\ MountInv' /\ TablesInv' /\ SuperInv' /\ BitmapInv'
       /\ InfoInv' /\ DataInv' /\ OwnerInv'
  BY <1>1, <1>5, <1>7, <1>8, <1>9, Frame DEF TypeOK
<1>11. OpenInv'
  <2>1. ASSUME NEW r \in Sess
        PROVE  /\ open'[r].file = NoFile => open'[r] = Closed
               /\ open'[r].file # NoFile => \E j \in p_bitmap' :
                     ~Opening(j)' /\ open'[r].fh = DataHandle(j) /\ pData'[j] = open'[r].file.id
    <3>1. CASE r = s
      BY <3>1, <1>2, <1>3, <1>5, <1>6, <1>9, DataFiles DEF h
    <3>2. CASE r # s
      BY <3>2, <1>5, <1>6, <1>9 DEF SerialInv, OpenInv, TypeOK
    <3> QED BY <3>1, <3>2
  <2> QED BY <2>1 DEF OpenInv
<1>12. PositionInv'
  <2>1. Alone' <=> Alone
    BY <1>5 DEF Alone
  <2> QED BY <2>1, <1>1, <1>5 DEF SerialInv, PositionInv
<1>13. \A u \in Threads : HandlerInv(u)'
  <2>1. \A u \in Threads : pc'[u] = "idle"
    BY <1>1, <1>5, OneThread
  <2> QED BY <2>1 DEF HandlerInv, Scanning
<1> QED BY <1>10, <1>11, <1>12, <1>13 DEF SerialInv

\* An open of a new data file picks a block that is free.
LEMMA OpenPickStep ==
    ASSUME SerialUse, TypeOK, SerialInv, NEW t \in Threads, NEW s \in Sess,
           NEW f \in Files, OpenDataPick(t, s, f)
    PROVE  SerialInv'
<1> DEFINE r == [NoReq EXCEPT !.file = f, !.sess = s, !.slot = FirstFree(p_bitmap)]
<1>1. /\ pc[t] = "idle" /\ up /\ NoTransferYet /\ open[s] = Closed
      /\ \A j \in Slots : ~Opening(j)
  BY OpenStart DEF OpenDataPick
<1>2. Enter(t, "data_set", r) /\ r.file = f /\ r.sess = s /\ r.slot = FirstFree(p_bitmap)
  BY DEF OpenDataPick, NoReq
<1>3. UNCHANGED <<disk, pos, cur_offset, p_bitmap, block_id_use, pData, pFd, open, up, mounts, len>>
  BY DEF OpenDataPick, memory, kernel, history
<1> HIDE DEF r
<1>4. pc'[t] = "data_set" /\ req'[t] = r /\ ~Alone' /\ \A j \in Slots : ~Opening(j)'
  BY <1>2, Entered
<1>5. \A j \in Slots : pData[j] # f.id
  <2> SUFFICES ASSUME NEW j \in Slots, pData[j] = f.id
               PROVE  FALSE
    OBVIOUS
  <2>1. block_id_use
    BY DataFiles DEF SerialInv, TablesInv
  <2>2. j \in DataFound(f)
    BY <2>1 DEF DataFound
  <2> QED BY <2>2 DEF OpenDataPick
<1>6. FirstFree(p_bitmap) \in Slots \ p_bitmap
  BY <1>5, FreeBlock DEF SerialInv
<1>7. /\ MountInv' /\ TablesInv' /\ SuperInv' /\ BitmapInv'
      /\ InfoInv' /\ DataInv' /\ OwnerInv'
  BY <1>1, <1>3, <1>4, Frame DEF TypeOK, InUse
<1>8. OpenInv'
  BY <1>3, <1>4 DEF SerialInv, OpenInv, TypeOK
<1>9. PositionInv'
  BY <1>3, <1>4 DEF SerialInv, PositionInv, NoTransferYet
<1>10. \A u \in Threads : HandlerInv(u)'
  <2>1. \A u \in Threads : pc'[u] = "data_set" /\ req'[u] = r
    BY <1>4, OneThread
  <2>2. NoTransferYet' /\ open'[s].file = NoFile
    BY <1>1, <1>3 DEF NoTransferYet, Closed
  <2> QED BY <2>1, <2>2, <1>2, <1>3, <1>5, <1>6 DEF HandlerInv, Scanning
<1> QED BY <1>7, <1>8, <1>9, <1>10 DEF SerialInv

\* The tables in memory take the block before the device does.
LEMMA OpenSetStep ==
    ASSUME SerialUse, TypeOK, SerialInv, NEW t \in Threads, OpenDataSet(t)
    PROVE  SerialInv'
<1> DEFINE b == req[t].slot
           h == DataHandle(b)
           f == req[t].file
<1>1. pc[t] = "data_set" /\ up /\ \A j \in Slots : ~Opening(j)
  BY OneThread, Running DEF OpenDataSet
<1>2. /\ NoTransferYet /\ open[req[t].sess].file = NoFile
      /\ b \in Slots \ p_bitmap /\ \A j \in Slots : pData[j] # f.id
  BY <1>1 DEF SerialInv, HandlerInv
<1>3. h \in Handles /\ f \in Files /\ f.id # NoId /\ f.id \in BlockIds
  <2>1. f \in Files
    BY <1>1 DEF TypeOK, HandlersOK, Scanning
  <2> QED BY <2>1, <1>2, DataHandles, DataFiles
<1>4. /\ block_id_use' = TRUE
      /\ pFd' = [pFd EXCEPT ![h] = [block_id |-> f.id, data_block_id |-> b,
                                    size |-> @.size, flag |-> "data",
                                    dev_offset |-> DevOffset("data", b)]]
      /\ p_bitmap' = p_bitmap \cup {b}
      /\ pData' = [pData EXCEPT ![b] = f.id]
      /\ pos' = BITMAP_OFFSET
      /\ Enter(t, "data_write", req[t])
      /\ UNCHANGED <<disk, cur_offset, open, up, mounts, len>>
  BY <1>2 DEF OpenDataSet, BitmapSet, Lseek, BITMAP_OFFSET, kernel, history, DataHandle
<1> HIDE DEF b, h, f
<1>5. /\ pc'[t] = "data_write" /\ req'[t] = req[t] /\ ~Alone'
      /\ \A j \in Slots : Opening(j)' <=> j = b
  BY <1>4, Entered DEF b
<1>6. /\ pData'[b] = f.id
      /\ \A j \in Slots : j # b => pData'[j] = pData[j]
      /\ pFd'[h].block_id = f.id /\ pFd'[h].data_block_id = b
      /\ pFd'[h].dev_offset = DevOffset("data", b) /\ pFd'[h].flag = "data"
      /\ \A g \in Handles : g # h => pFd'[g] = pFd[g]
  BY <1>2, <1>3, <1>4 DEF TypeOK
<1>7. MountInv'
  BY <1>1, <1>4 DEF SerialInv, MountInv
<1>8. TablesInv'
  <2>1. p_bitmap' # {} => block_id_use'
    BY <1>4
  <2>2. \A i \in Slots : i \in p_bitmap' <=> pData'[i] # NoId
    BY <1>3, <1>4, <1>6 DEF SerialInv, TablesInv
  <2>3. \A i, j \in p_bitmap' : pData'[i] = pData'[j] => i = j
    BY <1>2, <1>4, <1>6 DEF SerialInv, TablesInv, TypeOK
  <2>4. ASSUME NEW i \in p_bitmap'
        PROVE  /\ pFd'[DataHandle(i)].block_id = pData'[i]
               /\ pFd'[DataHandle(i)].data_block_id = i
               /\ pFd'[DataHandle(i)].dev_offset = DevOffset("data", i)
               /\ pFd'[DataHandle(i)].flag = "data"
    <3>1. CASE i = b
      BY <3>1, <1>6 DEF h
    <3>2. CASE i # b
      <4>1. i \in p_bitmap /\ i \in Slots
        BY <3>2, <1>4 DEF TypeOK
      <4>2. DataHandle(i) \in Handles /\ DataHandle(i) # h
        BY <4>1, <3>2, <1>2, DataHandles DEF h
      <4> QED BY <3>2, <4>1, <4>2, <1>6 DEF SerialInv, TablesInv
    <3> QED BY <3>1, <3>2
  <2> QED BY <2>1, <2>2, <2>3, <2>4 DEF TablesInv
<1>9. SuperInv'
  BY <1>4 DEF SerialInv, SuperInv
<1>10. BitmapInv'
  <2>1. {i \in p_bitmap : ~Opening(i)} = p_bitmap
    BY <1>1 DEF TypeOK
  <2>2. {i \in p_bitmap' : ~Opening(i)'} = p_bitmap
    BY <1>2, <1>4, <1>5 DEF TypeOK
  <2> QED BY <2>1, <2>2, <1>4 DEF SerialInv, BitmapInv
<1>11. InfoInv'
  BY <1>1, <1>4, <1>5, <1>6 DEF SerialInv, InfoInv, InUse
<1>12. OpenInv'
  BY <1>1, <1>2, <1>4, <1>5, <1>6 DEF SerialInv, OpenInv, TypeOK
<1>13. DataInv'
  <2>1. \A g \in Files : len'[g] > 0 => \E i \in p_bitmap' : pData'[i] = g.id
    BY <1>2, <1>4, <1>6 DEF SerialInv, DataInv, TypeOK
  <2>2. ASSUME NEW g \in Files, NEW i \in p_bitmap', pData'[i] = g.id,
               NEW k \in 0 .. len'[g] - 1
        PROVE  disk'[DataCell(i, k)] = Payload(g, k)
    <3>1. CASE i = b
      <4>1. g = f
        BY <3>1, <2>2, <1>3, <1>6, DataFiles
      <4>2. ~(len[f] > 0)
        BY <1>2, <1>3 DEF SerialInv, DataInv, TypeOK
      <4>3. len[f] \in Nat /\ k \in 0 .. len[f] - 1
        BY <4>1, <1>3, <1>4 DEF TypeOK
      <4> QED BY <4>2, <4>3
    <3>2. CASE i # b
      BY <3>2, <2>2, <1>4, <1>6 DEF SerialInv, DataInv, TypeOK
    <3> QED BY <3>1, <3>2
  <2> QED BY <2>1, <2>2 DEF DataInv
<1>14. OwnerInv'
  BY <1>1, <1>2, <1>4, <1>5, <1>6 DEF SerialInv, OwnerInv
<1>15. PositionInv'
  BY <1>4, <1>5 DEF SerialInv, PositionInv, NoTransferYet
<1>16. \A u \in Threads : HandlerInv(u)'
  <2>1. \A u \in Threads : pc'[u] = "data_write" /\ req'[u] = req[t]
    BY <1>5, OneThread
  <2>2. NoTransferYet' /\ open'[req[t].sess].file = NoFile
    BY <1>2, <1>4 DEF NoTransferYet
  <2>3. b \in p_bitmap'
    BY <1>4
  <2> QED BY <2>1, <2>2, <2>3, <1>4, <1>6 DEF HandlerInv, Scanning, b, f
<1> QED BY <1>7, <1>8, <1>9, <1>10, <1>11, <1>12, <1>13, <1>14, <1>15, <1>16 DEF SerialInv

\* The write of the bitmap gives the block to the file.
LEMMA OpenWriteStep ==
    ASSUME SerialUse, TypeOK, SerialInv, NEW t \in Threads, OpenDataWrite(t)
    PROVE  SerialInv'
<1> DEFINE b == req[t].slot
           s == req[t].sess
           f == req[t].file
<1>1. pc[t] = "data_write" /\ up /\ \A j \in Slots : Opening(j) <=> j = b
  BY OneThread, Running DEF OpenDataWrite
<1>2. /\ NoTransferYet /\ open[s].file = NoFile /\ pos = BITMAP_OFFSET
      /\ b \in p_bitmap /\ b \in Slots /\ pData[b] = f.id
  BY <1>1 DEF SerialInv, HandlerInv, TypeOK
<1>3. s \in Sess /\ f \in Files /\ open[s] = Closed
  <2>1. s \in Sess /\ f \in Files
    BY <1>1 DEF TypeOK, HandlersOK, Scanning
  <2> QED BY <2>1, <1>2 DEF SerialInv, OpenInv
<1>4. /\ disk' = [disk EXCEPT ![BITMAP_OFFSET] = Bitmap(p_bitmap)]
      /\ open' = [open EXCEPT ![s] = [file |-> f, fh |-> DataHandle(b), io |-> FALSE]]
      /\ Enter(t, "idle", NoReq)
      /\ UNCHANGED <<cur_offset, p_bitmap, block_id_use, pData, pFd, up, mounts, len>>
  BY <1>2, HeaderCells
     DEF OpenDataWrite, WriteCell, Opened, Finish, memory, history, DataHandle
<1> HIDE DEF b, s, f
<1>5. /\ pc'[t] = "idle"
      /\ \A j \in Slots : ~Opening(j)'
  BY <1>4, Entered
<1>6. /\ open'[s] = [file |-> f, fh |-> DataHandle(b), io |-> FALSE]
      /\ \A r \in Sess : r # s => open'[r] = open[r]
      /\ disk'[BITMAP_OFFSET] = Bitmap(p_bitmap)
      /\ \A a \in Cells : a # BITMAP_OFFSET => disk'[a] = disk[a]
  BY <1>3, <1>4, HeaderCells DEF TypeOK
<1>7. MountInv'
  BY <1>1, <1>4 DEF SerialInv, MountInv
<1>8. TablesInv'
  BY <1>4 DEF SerialInv, TablesInv
<1>9. SuperInv'
  BY <1>6, HeaderCells DEF SerialInv, SuperInv
<1>10. BitmapInv'
  <2>1. {i \in p_bitmap' : ~Opening(i)'} = p_bitmap
    BY <1>4, <1>5 DEF TypeOK
  <2> QED BY <2>1, <1>6 DEF BitmapInv
<1>11. InfoInv'
  <2> SUFFICES ASSUME NEW i \in Slots
               PROVE  /\ disk'[InfoOffset(i)] \in InfoCells
                      /\ i \in p_bitmap' /\ ~Opening(i)' /\ ~InUse(i)'
                            => disk'[InfoOffset(i)].b_block_id = pData'[i]
    BY DEF InfoInv
  <2>1. disk'[InfoOffset(i)] = disk[InfoOffset(i)]
    BY <1>6, HeaderCells DEF BITMAP_OFFSET
  <2>2. InUse(i) => InUse(i)'
    BY <1>3, <1>6, ClosedInUse DEF InUse
  <2>3. i = b => InUse(i)'
    BY <1>3, <1>6 DEF InUse
  <2> QED BY <2>1, <2>2, <2>3, <1>1, <1>4 DEF SerialInv, InfoInv
<1>12. OpenInv'
  <2>1. ASSUME NEW r \in Sess
        PROVE  /\ open'[r].file = NoFile => open'[r] = Closed
               /\ open'[r].file # NoFile => \E j \in p_bitmap' :
                     ~Opening(j)' /\ open'[r].fh = DataHandle(j) /\ pData'[j] = open'[r].file.id
    <3>1. CASE r = s
      BY <3>1, <1>2, <1>3, <1>4, <1>5, <1>6, DataFiles
    <3>2. CASE r # s
      BY <3>2, <1>4, <1>5, <1>6 DEF SerialInv, OpenInv, TypeOK
    <3> QED BY <3>1, <3>2
  <2> QED BY <2>1 DEF OpenInv
<1>13. \A i \in Slots, k \in 0 .. DataCells - 1 : disk'[DataCell(i, k)] = disk[DataCell(i, k)]
  <2> SUFFICES ASSUME NEW i \in Slots, NEW k \in 0 .. DataCells - 1
               PROVE  disk'[DataCell(i, k)] = disk[DataCell(i, k)]
    OBVIOUS
  <2>1. DataCell(i, k) \in Cells /\ DataCell(i, k) \in Int /\ DataCell(i, k) # BITMAP_OFFSET
    BY BehindHeader
  <2> QED BY <2>1, <1>6
<1>14. DataInv'
  <2>1. ASSUME NEW g \in Files, NEW i \in p_bitmap', pData'[i] = g.id,
               NEW k \in 0 .. len'[g] - 1
        PROVE  disk'[DataCell(i, k)] = Payload(g, k)
    <3>1. i \in Slots /\ k \in 0 .. MaxLen - 1 /\ k \in 0 .. len[g] - 1 /\ i \in p_bitmap
      BY <1>4, ConstantsAssumption DEF TypeOK
    <3>2. disk'[DataCell(i, k)] = disk[DataCell(i, k)]
      BY <3>1, <1>13, InsideBlock
    <3> QED BY <2>1, <3>1, <3>2, <1>4 DEF SerialInv, DataInv
  <2>2. \A g \in Files : len'[g] > 0 => \E i \in p_bitmap' : pData'[i] = g.id
    BY <1>4 DEF SerialInv, DataInv
  <2> QED BY <2>1, <2>2 DEF DataInv
<1>15. OwnerInv'
  BY <1>4, <1>5, <1>13 DEF SerialInv, OwnerInv
<1>16. PositionInv'
  <2>1. cur_offset < DATA_OFFSET /\ cur_offset \in Int /\ DATA_OFFSET \in Nat
    BY <1>2, LayoutOrder DEF SerialInv, PositionInv, TypeOK
  <2> QED BY <2>1, <1>4 DEF PositionInv
<1>17. \A u \in Threads : HandlerInv(u)'
  <2>1. \A u \in Threads : pc'[u] = "idle"
    BY <1>5, OneThread
  <2> QED BY <2>1 DEF HandlerInv, Scanning
<1> QED BY <1>7, <1>8, <1>9, <1>10, <1>11, <1>12, <1>14, <1>15, <1>16, <1>17 DEF SerialInv

-----------------------------------------------------------------------------
(* Transfers and releases.                                                 *)

\* A handle in use leads to the block that has its file's number.
LEMMA HandleLeads ==
    ASSUME SerialUse, TypeOK, SerialInv, NEW s \in Sess, open[s].file # NoFile
    PROVE  /\ open[s].file \in Files
           /\ \E i \in p_bitmap : /\ i \in Slots
                                  /\ open[s].fh = DataHandle(i)
                                  /\ pData[i] = open[s].file.id
                                  /\ pFd[open[s].fh].dev_offset = DevOffset("data", i)
                                  /\ pFd[open[s].fh].data_block_id = i
                                  /\ pFd[open[s].fh].block_id = pData[i]
                                  /\ pFd[open[s].fh].flag = "data"
BY DEF SerialInv, OpenInv, TablesInv, TypeOK, Opens

\* The lseek that cur_offset saves is one that fd does not need.
LEMMA TransferStep ==
    ASSUME SerialUse, TypeOK, SerialInv, NEW t \in Threads, NEW s \in Sess,
           NEW k \in 0 .. MaxLen - 1, NEW place \in {"write", "read"},
           CanUse(t, s), k <= len[open[s].file],
           place = "read" => k < len[open[s].file],
           Transfer(t, s, k, place, Payload(open[s].file, k)),
           UNCHANGED <<disk, cur_offset, p_bitmap, block_id_use, pData, up, mounts, len>>,
           \A h \in Handles : /\ pFd'[h].block_id = pFd[h].block_id
                              /\ pFd'[h].data_block_id = pFd[h].data_block_id
                              /\ pFd'[h].dev_offset = pFd[h].dev_offset
                              /\ pFd'[h].flag = pFd[h].flag
    PROVE  SerialInv'
<1> DEFINE f == open[s].file
           a == pFd[open[s].fh].dev_offset + k
           r == [NoReq EXCEPT !.file = f, !.sess = s, !.at = a, !.cell = Payload(f, k)]
<1>1. /\ pc[t] = "idle" /\ up /\ Alone /\ f # NoFile
      /\ \A j \in Slots : ~Opening(j)
  BY OneThread DEF CanUse, Idle
<1>2. f \in Files
  BY <1>1, HandleLeads
<1>3. PICK i \in p_bitmap : /\ i \in Slots /\ pData[i] = f.id
                            /\ pFd[open[s].fh].dev_offset = DevOffset("data", i)
  BY <1>1, HandleLeads
<1>4. a = DataCell(i, k) /\ k \in 0 .. DataCells - 1
  BY <1>3, InsideBlock DEF DataCell
<1>5. a \in Int /\ a >= DATA_OFFSET /\ DATA_OFFSET \in Nat /\ a >= 0
  BY <1>3, <1>4, BehindHeader, LayoutOrder
<1>6. Enter(t, place, r) /\ r.file = f /\ r.sess = s /\ r.at = a /\ r.cell = Payload(f, k)
  BY DEF Transfer, NoReq
<1>7. pos' = a
  <2>1. CASE cur_offset # a
    BY <2>1, <1>5 DEF Transfer, Lseek
  <2>2. CASE cur_offset = a
    BY <2>2, <1>1, <1>5 DEF Transfer, SerialInv, PositionInv
  <2> QED BY <2>1, <2>2
<1>8. open' = [open EXCEPT ![s].io = TRUE]
  BY DEF Transfer
<1> HIDE DEF r, a
<1>9. pc'[t] = place /\ req'[t] = r /\ ~Alone' /\ \A j \in Slots : ~Opening(j)'
  BY <1>6, Entered
<1>10. /\ open'[s].io /\ open'[s].file = f /\ open'[s].fh = open[s].fh
       /\ \A q \in Sess : q # s => open'[q] = open[q]
  BY <1>8 DEF TypeOK, Opens
<1>11. /\ MountInv' /\ TablesInv' /\ SuperInv' /\ BitmapInv'
       /\ InfoInv' /\ DataInv' /\ OwnerInv'
  <2>1. \A j \in Slots : InUse(j) => InUse(j)'
    BY <1>10 DEF InUse
  <2> QED BY <2>1, <1>1, <1>9, Frame DEF TypeOK
<1>12. OpenInv'
  <2>1. ASSUME NEW q \in Sess
        PROVE  /\ open'[q].file = NoFile => open'[q] = Closed
               /\ open'[q].file # NoFile => \E j \in p_bitmap' :
                     ~Opening(j)' /\ open'[q].fh = DataHandle(j) /\ pData'[j] = open'[q].file.id
    <3>1. open'[q].fh = open[q].fh /\ open'[q].file = open[q].file
      BY <1>10
    <3>2. open[q].file = NoFile => open'[q] = Closed
      BY <1>1, <1>10 DEF SerialInv, OpenInv
    <3> QED BY <3>1, <3>2, <1>9 DEF SerialInv, OpenInv, TypeOK
  <2> QED BY <2>1 DEF OpenInv
<1>13. ~NoTransferYet'
  BY <1>10 DEF NoTransferYet
<1>14. PositionInv'
  BY <1>9, <1>13 DEF PositionInv
<1>15. \A u \in Threads : HandlerInv(u)'
  <2>1. \A u \in Threads : pc'[u] = place /\ req'[u] = r
    BY <1>9, OneThread
  <2>2. \E j \in p_bitmap', l \in 0 .. MaxLen - 1 :
            /\ pData'[j] = r.file.id
            /\ r.at = DataCell(j, l)
            /\ r.cell = Payload(r.file, l)
            /\ l <= len'[r.file]
            /\ place = "read" => l < len'[r.file]
    BY <1>3, <1>4, <1>6
  <2> QED BY <2>1, <2>2, <1>6, <1>7, <1>13 DEF HandlerInv, Scanning
<1> QED BY <1>11, <1>12, <1>14, <1>15 DEF SerialInv

\* lfs_write and lfs_read up to their transfer.
LEMMA SeekSteps ==
    ASSUME SerialUse, TypeOK, SerialInv, NEW t \in Threads, NEW s \in Sess,
           NEW k \in 0 .. MaxLen - 1, WriteSeek(t, s, k) \/ ReadSeek(t, s, k)
    PROVE  SerialInv'
<1>1. CASE WriteSeek(t, s, k)
  <2>1. open[s].fh \in Handles
    BY DEF TypeOK, Opens
  <2>2. pFd' = [pFd EXCEPT ![open[s].fh].size = @ + 1]
    BY <1>1 DEF WriteSeek
  <2>3. \A h \in Handles : /\ pFd'[h].block_id = pFd[h].block_id
                           /\ pFd'[h].data_block_id = pFd[h].data_block_id
                           /\ pFd'[h].dev_offset = pFd[h].dev_offset
                           /\ pFd'[h].flag = pFd[h].flag
    BY <2>1, <2>2 DEF TypeOK, FdEntries
  <2> QED BY <1>1, <2>3, TransferStep DEF WriteSeek, history
<1>2. CASE ReadSeek(t, s, k)
  <2>1. open[s].file \in Files /\ len[open[s].file] \in Int /\ k \in Int
    BY <1>2, HandleLeads DEF ReadSeek, CanUse, TypeOK
  <2>2. k <= len[open[s].file]
    BY <1>2, <2>1 DEF ReadSeek
  <2> QED BY <1>2, <2>2, TransferStep DEF ReadSeek, memory, history
<1> QED BY <1>1, <1>2

\* What a transfer that reaches its read(2) or write(2) has arranged.
LEMMA TransferReady ==
    ASSUME SerialUse, TypeOK, SerialInv, NEW t \in Threads, pc[t] \in {"write", "read"}
    PROVE  /\ up /\ ~NoTransferYet /\ \A j \in Slots : ~Opening(j)
           /\ req[t].file \in Files
           /\ After(1) = pos + 1 /\ pos = req[t].at
           /\ \E i \in p_bitmap, k \in 0 .. MaxLen - 1 :
                 /\ i \in Slots /\ k \in 0 .. DataCells - 1
                 /\ pData[i] = req[t].file.id
                 /\ pos = DataCell(i, k)
                 /\ pos \in Cells
                 /\ req[t].cell = Payload(req[t].file, k)
                 /\ k <= len[req[t].file]
                 /\ pc[t] = "read" => k < len[req[t].file]
<1>1. up /\ ~NoTransferYet /\ req[t].file \in Files /\ pos = req[t].at
      /\ \A j \in Slots : ~Opening(j)
  BY Running, OneThread DEF SerialInv, HandlerInv, TypeOK, HandlersOK, Scanning
<1>2. PICK i \in p_bitmap, k \in 0 .. MaxLen - 1 :
                 /\ pData[i] = req[t].file.id
                 /\ req[t].at = DataCell(i, k)
                 /\ req[t].cell = Payload(req[t].file, k)
                 /\ k <= len[req[t].file]
                 /\ pc[t] = "read" => k < len[req[t].file]
  BY DEF SerialInv, HandlerInv
<1>3. i \in Slots /\ k \in 0 .. DataCells - 1
  BY InsideBlock DEF TypeOK
<1>4. pos \in Cells
  BY <1>1, <1>2, <1>3, BehindHeader
<1>5. After(1) = pos + 1
  BY <1>4, LayoutType DEF After, Cells
<1> QED BY <1>1, <1>2, <1>3, <1>4, <1>5

\* A read(2) advances fd as cur_offset does.
LEMMA ReadDataStep ==
    ASSUME SerialUse, TypeOK, SerialInv, NEW t \in Threads, ReadData(t)
    PROVE  SerialInv'
<1>1. /\ pc[t] = "read" /\ up /\ ~NoTransferYet /\ \A j \in Slots : ~Opening(j)
      /\ pos' = pos + 1 /\ cur_offset' = pos + 1
  BY TransferReady DEF ReadData, Remember
<1>2. /\ Enter(t, "idle", NoReq)
      /\ UNCHANGED <<disk, p_bitmap, block_id_use, pData, pFd, up, mounts, open, len>>
  BY DEF ReadData, Finish, kernel, history
<1>3. pc'[t] = "idle" /\ \A j \in Slots : ~Opening(j)'
  BY <1>2, Entered
<1>4. /\ MountInv' /\ TablesInv' /\ SuperInv' /\ BitmapInv'
      /\ InfoInv' /\ DataInv' /\ OwnerInv'
  BY <1>1, <1>2, <1>3, Frame DEF TypeOK, InUse
<1>5. OpenInv'
  BY <1>2, <1>3 DEF SerialInv, OpenInv, TypeOK
<1>6. PositionInv'
  BY <1>1, <1>2 DEF PositionInv, NoTransferYet
<1>7. \A u \in Threads : HandlerInv(u)'
  <2>1. \A u \in Threads : pc'[u] = "idle"
    BY <1>3, OneThread
  <2> QED BY <2>1 DEF HandlerInv, Scanning
<1> QED BY <1>4, <1>5, <1>6, <1>7 DEF SerialInv

\* A write(2) of lfs_write puts its cell in its own block, where it was to go.
LEMMA WriteDataStep ==
    ASSUME SerialUse, TypeOK, SerialInv, NEW t \in Threads, WriteData(t)
    PROVE  SerialInv'
<1> DEFINE f == req[t].file
<1>1. /\ pc[t] = "write" /\ up /\ ~NoTransferYet /\ \A j \in Slots : ~Opening(j)
      /\ f \in Files /\ pos' = pos + 1 /\ cur_offset' = pos + 1
  BY TransferReady DEF WriteData, WriteCell, Remember
<1>2. PICK i \in p_bitmap, k \in 0 .. MaxLen - 1 :
                 /\ i \in Slots /\ k \in 0 .. DataCells - 1
                 /\ pData[i] = f.id
                 /\ pos = DataCell(i, k)
                 /\ pos \in Cells
                 /\ req[t].cell = Payload(f, k)
                 /\ k <= len[f]
  BY <1>1, TransferReady
<1>3. k \in Nat /\ len[f] \in 0 .. MaxLen
  BY <1>1, <1>2, InsideBlock DEF TypeOK
<1>4. /\ disk' = [disk EXCEPT ![pos] = Payload(f, k)]
      /\ len' = [len EXCEPT ![f] = IF @ < k + 1 THEN k + 1 ELSE @]
      /\ Enter(t, "idle", NoReq)
      /\ UNCHANGED <<p_bitmap, block_id_use, pData, pFd, up, mounts, open>>
  BY <1>2 DEF WriteData, WriteCell, Finish, kernel, Payload
<1> HIDE DEF f
<1>5. pc'[t] = "idle" /\ \A j \in Slots : ~Opening(j)'
  BY <1>4, Entered
<1>6. /\ disk'[pos] = Payload(f, k)
      /\ \A a \in Cells : a # pos => disk'[a] = disk[a]
      /\ \A g \in Files : g # f => len'[g] = len[g]
      /\ \A l \in 0 .. len'[f] - 1 : l # k => l \in 0 .. len[f] - 1
  BY <1>1, <1>2, <1>3, <1>4 DEF TypeOK
<1>7. MountInv'
  BY <1>1, <1>4 DEF SerialInv, MountInv
<1>8. TablesInv'
  BY <1>4 DEF SerialInv, TablesInv
<1>9. SuperInv'
  BY <1>2, <1>6, BehindHeader, HeaderCells DEF SerialInv, SuperInv
<1>10. BitmapInv'
  <2>1. {j \in p_bitmap : ~Opening(j)} = p_bitmap /\ {j \in p_bitmap' : ~Opening(j)'} = p_bitmap
    BY <1>1, <1>4, <1>5 DEF TypeOK
  <2>2. disk'[BITMAP_OFFSET] = disk[BITMAP_OFFSET]
    BY <1>2, <1>6, BehindHeader, HeaderCells
  <2> QED BY <2>1, <2>2 DEF SerialInv, BitmapInv
<1>11. InfoInv'
  <2>1. \A j \in Slots : disk'[InfoOffset(j)] = disk[InfoOffset(j)]
    BY <1>2, <1>6, BehindHeader, HeaderCells
  <2> QED BY <2>1, <1>1, <1>4 DEF SerialInv, InfoInv, InUse
<1>12. OpenInv'
  BY <1>4, <1>5 DEF SerialInv, OpenInv, TypeOK
<1>13. \A j \in Slots, l \in 0 .. DataCells - 1 :
          ~(j = i /\ l = k) => disk'[DataCell(j, l)] = disk[DataCell(j, l)]
  BY <1>2, <1>6, BehindHeader, DataCellsDistinct
<1>14. DataInv'
  <2>1. \A g \in Files : len'[g] > 0 => \E j \in p_bitmap' : pData'[j] = g.id
    BY <1>2, <1>4, <1>6 DEF SerialInv, DataInv
  <2>2. ASSUME NEW g \in Files, NEW j \in p_bitmap', pData'[j] = g.id,
               NEW l \in 0 .. len'[g] - 1
        PROVE  disk'[DataCell(j, l)] = Payload(g, l)
    <3>1. j \in Slots /\ j \in p_bitmap /\ pData[j] = g.id
      BY <2>2, <1>4 DEF TypeOK
    <3>2. len'[g] \in 0 .. MaxLen
      BY <1>2, <1>3, <1>4, ConstantsAssumption DEF TypeOK
    <3>3. l \in 0 .. MaxLen - 1 /\ l \in 0 .. DataCells - 1
      <4>1. l \in 0 .. MaxLen - 1
        BY <3>2, ConstantsAssumption
      <4> QED BY <4>1, InsideBlock
    <3>4. CASE j = i
      <4>1. g = f
        BY <3>1, <3>4, <1>1, <1>2, DataFiles
      <4>2. CASE l = k
        BY <3>4, <4>1, <4>2, <1>2, <1>6
      <4>3. CASE l # k
        <5>1. l \in 0 .. len[f] - 1
          BY <4>1, <4>3, <1>6
        <5>2. disk[DataCell(j, l)] = Payload(g, l)
          BY <3>1, <4>1, <5>1 DEF SerialInv, DataInv
        <5> QED BY <3>1, <3>3, <4>3, <5>2, <1>13
      <4> QED BY <4>2, <4>3
    <3>5. CASE j # i
      <4>1. g # f
        BY <3>1, <3>5, <1>2 DEF SerialInv, TablesInv
      <4>2. disk[DataCell(j, l)] = Payload(g, l)
        BY <3>1, <4>1, <1>6 DEF SerialInv, DataInv
      <4> QED BY <3>1, <3>3, <3>5, <4>2, <1>13
    <3> QED BY <3>4, <3>5
  <2> QED BY <2>1, <2>2 DEF DataInv
<1>15. OwnerInv'
  <2> SUFFICES ASSUME NEW j \in Slots, NEW l \in 0 .. DataCells - 1,
                      disk'[DataCell(j, l)] \in PayloadCells
               PROVE  j \in p_bitmap' /\ ~Opening(j)' /\ disk'[DataCell(j, l)].file.id = pData'[j]
    BY DEF OwnerInv
  <2>1. CASE j = i /\ l = k
    <3>1. disk'[DataCell(j, l)].file.id = f.id
      BY <2>1, <1>2, <1>6 DEF Payload
    <3> QED BY <3>1, <2>1, <1>2, <1>4, <1>5
  <2>2. CASE ~(j = i /\ l = k)
    BY <2>2, <1>4, <1>5, <1>13 DEF SerialInv, OwnerInv
  <2> QED BY <2>1, <2>2
<1>16. PositionInv'
  BY <1>1, <1>4 DEF PositionInv, NoTransferYet
<1>17. \A u \in Threads : HandlerInv(u)'
  <2>1. \A u \in Threads : pc'[u] = "idle"
    BY <1>5, OneThread
  <2> QED BY <2>1 DEF HandlerInv, Scanning
<1> QED BY <1>7, <1>8, <1>9, <1>10, <1>11, <1>12, <1>14, <1>15, <1>16, <1>17 DEF SerialInv

\* lfs_release seeks to the block_info of its own block.
LEMMA ReleaseSeekStep ==
    ASSUME SerialUse, TypeOK, SerialInv, NEW t \in Threads, NEW s \in Sess,
           ReleaseSeek(t, s)
    PROVE  SerialInv'
<1> DEFINE e == pFd[open[s].fh]
           a == InfoOffset(e.data_block_id)
<1>1. /\ pc[t] = "idle" /\ up /\ open[s].file # NoFile /\ open[s].file \in Files
      /\ \A j \in Slots : ~Opening(j)
  BY OneThread, HandleLeads DEF ReleaseSeek, CanUse, Idle
<1>2. PICK i \in p_bitmap : /\ i \in Slots /\ open[s].fh = DataHandle(i)
                            /\ e.data_block_id = i /\ e.block_id = pData[i]
                            /\ e.flag = "data"
  BY <1>1, HandleLeads
<1>3. a = InfoOffset(i) /\ a \in Cells /\ a \in Nat
  BY <1>2, HeaderCells DEF Cells
<1>4. PICK junk \in StackJunk :
         Enter(t, "release_write", [NoReq EXCEPT !.file = open[s].file, !.sess = s,
                                                 !.at = a, !.cell = Released(e, junk)])
  BY DEF ReleaseSeek
<1>5. Released(e, junk) \in InfoCells /\ Released(e, junk).b_block_id = pData[i]
  <2>1. e.size \in Lengths /\ junk \in Lengths /\ pData[i] \in Numbers
    BY <1>2, LengthsType DEF TypeOK, Opens, FdEntries
  <2> QED BY <2>1, <1>2, CellTypes DEF Released, BlockInfo
<1> DEFINE r == [NoReq EXCEPT !.file = open[s].file, !.sess = s,
                              !.at = a, !.cell = Released(e, junk)]
<1>6. Enter(t, "release_write", r) /\ r.sess = s /\ r.at = a /\ r.cell = Released(e, junk)
  BY <1>4 DEF NoReq
<1>7. pos' = a
  BY <1>3 DEF ReleaseSeek, Lseek
<1>8. UNCHANGED <<disk, cur_offset, p_bitmap, block_id_use, pData, pFd, open, up, mounts, len>>
  BY DEF ReleaseSeek, memory, kernel, history
<1> HIDE DEF r, a, e
<1>9. pc'[t] = "release_write" /\ req'[t] = r /\ ~Alone' /\ \A j \in Slots : ~Opening(j)'
  BY <1>6, Entered
<1>10. /\ MountInv' /\ TablesInv' /\ SuperInv' /\ BitmapInv'
       /\ InfoInv' /\ DataInv' /\ OwnerInv'
  BY <1>1, <1>8, <1>9, Frame DEF TypeOK, InUse
<1>11. OpenInv'
  BY <1>8, <1>9 DEF SerialInv, OpenInv, TypeOK
<1>12. PositionInv'
  BY <1>8, <1>9 DEF SerialInv, PositionInv, NoTransferYet
<1>13. \A u \in Threads : HandlerInv(u)'
  <2>1. \A u \in Threads : pc'[u] = "release_write" /\ req'[u] = r
    BY <1>9, OneThread
  <2> QED BY <2>1, <1>2, <1>3, <1>5, <1>6, <1>7, <1>8 DEF HandlerInv, Scanning
<1> QED BY <1>10, <1>11, <1>12, <1>13 DEF SerialInv

\* The block_info that lfs_release writes carries the number in pData, and
\* cur_offset then points in front of the blocks.
LEMMA ReleaseWriteStep ==
    ASSUME SerialUse, TypeOK, SerialInv, NEW t \in Threads, ReleaseWrite(t)
    PROVE  SerialInv'
<1> DEFINE s == req[t].sess
<1>1. /\ pc[t] = "release_write" /\ up /\ s \in Sess
      /\ \A j \in Slots : ~Opening(j)
  BY Running, OneThread DEF ReleaseWrite, TypeOK, HandlersOK, Scanning
<1>2. PICK i \in p_bitmap : /\ open[s].fh = DataHandle(i)
                            /\ pos = InfoOffset(i) /\ req[t].at = InfoOffset(i)
                            /\ req[t].cell.b_block_id = pData[i]
                            /\ req[t].cell \in InfoCells
  BY <1>1 DEF SerialInv, HandlerInv
<1>3. i \in Slots /\ pos \in Cells /\ pos \in Int
  BY <1>2, HeaderCells DEF TypeOK, Cells
<1>4. /\ disk' = [disk EXCEPT ![pos] = req[t].cell]
      /\ cur_offset' = InfoOffset(i) + 1
      /\ open' = [open EXCEPT ![s] = Closed]
      /\ Enter(t, "idle", NoReq)
      /\ UNCHANGED <<p_bitmap, block_id_use, pData, pFd, up, mounts, len>>
  BY <1>2, <1>3 DEF ReleaseWrite, WriteCell, Remember, Finish
<1> HIDE DEF s
<1>5. pc'[t] = "idle" /\ \A j \in Slots : ~Opening(j)'
  BY <1>4, Entered
<1>6. /\ disk'[pos] = req[t].cell
      /\ \A a \in Cells : a # pos => disk'[a] = disk[a]
      /\ open'[s] = Closed
      /\ \A r \in Sess : r # s => open'[r] = open[r]
  BY <1>1, <1>3, <1>4 DEF TypeOK
<1>7. MountInv'
  BY <1>1, <1>4 DEF SerialInv, MountInv
<1>8. TablesInv'
  BY <1>4 DEF SerialInv, TablesInv
<1>9. SuperInv'
  BY <1>2, <1>3, <1>6, HeaderCells DEF SerialInv, SuperInv
<1>10. BitmapInv'
  <2>1. {j \in p_bitmap : ~Opening(j)} = p_bitmap /\ {j \in p_bitmap' : ~Opening(j)'} = p_bitmap
    BY <1>1, <1>4, <1>5 DEF TypeOK
  <2>2. disk'[BITMAP_OFFSET] = disk[BITMAP_OFFSET]
    BY <1>2, <1>3, <1>6, HeaderCells DEF BITMAP_OFFSET
  <2> QED BY <2>1, <2>2 DEF SerialInv, BitmapInv
<1>11. InfoInv'
  <2> SUFFICES ASSUME NEW j \in Slots
               PROVE  /\ disk'[InfoOffset(j)] \in InfoCells
                      /\ j \in p_bitmap' /\ ~Opening(j)' /\ ~InUse(j)'
                            => disk'[InfoOffset(j)].b_block_id = pData'[j]
    BY DEF InfoInv
  <2>1. CASE j = i
    BY <2>1, <1>2, <1>4, <1>6
  <2>2. CASE j # i
    <3>1. disk'[InfoOffset(j)] = disk[InfoOffset(j)]
      BY <2>2, <1>2, <1>3, <1>6, HeaderCells
    <3>2. InUse(j) => InUse(j)'
      BY <2>2, <1>2, <1>3, <1>6, DataHandles DEF InUse
    <3> QED BY <3>1, <3>2, <1>1, <1>4 DEF SerialInv, InfoInv
  <2> QED BY <2>1, <2>2
<1>12. OpenInv'
  <2>1. ASSUME NEW r \in Sess
        PROVE  /\ open'[r].file = NoFile => open'[r] = Closed
               /\ open'[r].file # NoFile => \E j \in p_bitmap' :
                     ~Opening(j)' /\ open'[r].fh = DataHandle(j) /\ pData'[j] = open'[r].file.id
    <3>1. CASE r = s
      BY <3>1, <1>6 DEF Closed
    <3>2. CASE r # s
      BY <3>2, <1>4, <1>5, <1>6 DEF SerialInv, OpenInv, TypeOK
    <3> QED BY <3>1, <3>2
  <2> QED BY <2>1 DEF OpenInv
<1>13. \A j \in Slots, k \in 0 .. DataCells - 1 : disk'[DataCell(j, k)] = disk[DataCell(j, k)]
  BY <1>2, <1>3, <1>6, BehindHeader
<1>14. DataInv'
  <2>1. ASSUME NEW g \in Files, NEW j \in p_bitmap', pData'[j] = g.id,
               NEW k \in 0 .. len'[g] - 1
        PROVE  disk'[DataCell(j, k)] = Payload(g, k)
    <3>1. j \in Slots /\ k \in 0 .. MaxLen - 1 /\ k \in 0 .. len[g] - 1 /\ j \in p_bitmap
      BY <1>4, ConstantsAssumption DEF TypeOK
    <3>2. disk'[DataCell(j, k)] = disk[DataCell(j, k)]
      BY <3>1, <1>13, InsideBlock
    <3> QED BY <2>1, <3>1, <3>2, <1>4 DEF SerialInv, DataInv
  <2>2. \A g \in Files : len'[g] > 0 => \E j \in p_bitmap' : pData'[j] = g.id
    BY <1>4 DEF SerialInv, DataInv
  <2> QED BY <2>1, <2>2 DEF DataInv
<1>15. OwnerInv'
  BY <1>4, <1>5, <1>13 DEF SerialInv, OwnerInv
<1>16. PositionInv'
  <2>1. InfoOffset(i) + 1 < DATA_OFFSET /\ InfoOffset(i) \in Int /\ DATA_OFFSET \in Nat
    BY <1>2, <1>3, HeaderCells, LayoutOrder
  <2>2. cur_offset' < DATA_OFFSET /\ ~(cur_offset' >= DATA_OFFSET)
    BY <2>1, <1>4
  <2> QED BY <2>2 DEF PositionInv
<1>17. \A u \in Threads : HandlerInv(u)'
  <2>1. \A u \in Threads : pc'[u] = "idle"
    BY <1>5, OneThread
  <2> QED BY <2>1 DEF HandlerInv, Scanning
<1> QED BY <1>7, <1>8, <1>9, <1>10, <1>11, <1>12, <1>14, <1>15, <1>16, <1>17 DEF SerialInv

-----------------------------------------------------------------------------
(* The start of the program, and the theorems.                             *)

\* Nothing is on a formatted device.
LEMMA SerialInit ==
    ASSUME SerialUse, Init
    PROVE  SerialInv
<1>1. \A i \in Slots : ~Opening(i)
  BY DEF Init, Opening
<1>2. /\ disk[SUPER_OFFSET] = Super
      /\ disk[BITMAP_OFFSET] = Bitmap({})
      /\ \A i \in Slots : disk[InfoOffset(i)] = BlockInfo(NoId, 0, 0)
      /\ \A i \in Slots, k \in 0 .. DataCells - 1 : disk[DataCell(i, k)] = Empty
  <2>1. ASSUME NEW i \in Slots
        PROVE  disk[InfoOffset(i)] = BlockInfo(NoId, 0, 0)
    <3>1. InfoOffset(i) \in INFO_OFFSET .. EXTRA_OFFSET - 1
      BY ConstantsAssumption DEF InfoOffset, INFO_OFFSET, EXTRA_OFFSET, Slots
    <3>2. InfoOffset(i) \in Cells /\ InfoOffset(i) # SUPER_OFFSET /\ InfoOffset(i) # BITMAP_OFFSET
      BY HeaderCells DEF BITMAP_OFFSET
    <3> QED BY <3>1, <3>2 DEF Init, Formatted
  <2>2. ASSUME NEW i \in Slots, NEW k \in 0 .. DataCells - 1
        PROVE  disk[DataCell(i, k)] = Empty
    <3>1. DataCell(i, k) \notin INFO_OFFSET .. EXTRA_OFFSET - 1
      BY BehindHeader, LayoutOrder, ConstantsAssumption
         DEF DATA_OFFSET, EXTRA_OFFSET, INFO_OFFSET
    <3> QED BY <3>1, BehindHeader DEF Init, Formatted
  <2>3. disk[SUPER_OFFSET] = Super /\ disk[BITMAP_OFFSET] = Bitmap({})
    BY HeaderCells DEF Init, Formatted
  <2> QED BY <2>1, <2>2, <2>3
<1>3. MountInv /\ OpenInv
  BY DEF Init, MountInv, OpenInv, Closed
<1>4. TablesInv
  BY DEF Init, TablesInv
<1>5. SuperInv /\ BitmapInv
  BY <1>2 DEF Init, SuperInv, BitmapInv
<1>6. InfoInv
  BY <1>2, CellTypes, LengthsType DEF InfoInv, Init, Numbers
<1>7. DataInv /\ OwnerInv
  BY <1>2 DEF Init, DataInv, OwnerInv, Empty, PayloadCells
<1>8. PositionInv
  BY LayoutOrder, ConstantsAssumption
     DEF Init, PositionInv, DATA_OFFSET, EXTRA_OFFSET, INFO_OFFSET
<1>9. \A t \in Threads : HandlerInv(t)
  BY DEF Init, HandlerInv, Scanning
<1> QED BY <1>3, <1>4, <1>5, <1>6, <1>7, <1>8, <1>9 DEF SerialInv

\* The first start of the program reads an empty bitmap.
LEMMA MountStep ==
    ASSUME SerialUse, TypeOK, SerialInv, Mount
    PROVE  SerialInv'
<1>1. /\ mounts = 0 /\ p_bitmap = {} /\ up' = TRUE /\ mounts' = mounts + 1
      /\ \A t \in Threads : pc[t] = "idle"
  BY DEF Mount, SerialInv, MountInv
<1>2. /\ disk[BITMAP_OFFSET] = Bitmap({})
      /\ p_bitmap' = {}
  <2>1. {i \in p_bitmap : ~Opening(i)} = {}
    BY <1>1
  <2>2. disk[BITMAP_OFFSET] = Bitmap({})
    BY <2>1 DEF SerialInv, BitmapInv
  <2> QED BY <2>2 DEF Mount, AsBits, Bitmap
<1>3. /\ UNCHANGED <<disk, pc, req, open, len>>
      /\ cur_offset' = 0
      /\ pData' = [i \in Slots |-> NoId]
  BY DEF Mount, FreshMemory, history
<1>4. MountInv'
  BY <1>1 DEF MountInv
<1>5. TablesInv' /\ SuperInv'
  BY <1>2, <1>3 DEF SerialInv, TablesInv, SuperInv
<1>6. BitmapInv'
  BY <1>2, <1>3 DEF BitmapInv
<1>7. InfoInv' /\ OwnerInv'
  BY <1>1, <1>2, <1>3 DEF SerialInv, InfoInv, OwnerInv
<1>8. OpenInv' /\ DataInv'
  BY <1>1, <1>2, <1>3 DEF SerialInv, OpenInv, DataInv
<1>9. PositionInv'
  BY <1>3, LayoutOrder, ConstantsAssumption
     DEF PositionInv, DATA_OFFSET, EXTRA_OFFSET, INFO_OFFSET
<1>10. \A t \in Threads : HandlerInv(t)'
  BY <1>1, <1>3 DEF HandlerInv, Scanning
<1> QED BY <1>4, <1>5, <1>6, <1>7, <1>8, <1>9, <1>10 DEF SerialInv

\* Every step keeps the invariant.
LEMMA SerialStep ==
    ASSUME SerialUse, TypeOK, SerialInv, [Next]_vars, ~Stop
    PROVE  SerialInv'
<1>1. CASE Mount
  BY <1>1, MountStep
<1>3. ASSUME NEW t \in Threads, Scan(t)
      PROVE  SerialInv'
  BY <1>3, ScanStep
<1>4. ASSUME NEW t \in Threads, OpenMeta(t)
      PROVE  SerialInv'
  <2>1. pc[t] \notin {"meta_read", "meta_seek", "meta_write"}
    BY DEF SerialInv, HandlerInv
  <2>2. \A f \in Files : f.kind # "meta"
    BY DataFiles
  <2> QED BY <1>4, <2>1, <2>2
          DEF OpenMeta, OpenMetaFound, OpenMetaSeek, OpenMetaRead, OpenMetaSeekBack,
              OpenMetaWrite
<1>5. ASSUME NEW t \in Threads, OpenData(t)
      PROVE  SerialInv'
  BY <1>5, OpenFoundStep, OpenPickStep, OpenSetStep, OpenWriteStep DEF OpenData
<1>6. ASSUME NEW t \in Threads, Use(t)
      PROVE  SerialInv'
  BY <1>6, SeekSteps, WriteDataStep, ReadDataStep, ReleaseSeekStep, ReleaseWriteStep
     DEF Use
<1>7. CASE UNCHANGED vars
  <2>1. UNCHANGED <<disk, pos, up, mounts, cur_offset, p_bitmap, block_id_use, pData, pFd,
                    pc, req, open, len>>
    BY <1>7 DEF vars, memory, kernel, history
  <2>2. \A i \in Slots : (Opening(i)' <=> Opening(i)) /\ (InUse(i)' <=> InUse(i))
    BY <2>1 DEF Opening, InUse
  <2>3. (NothingOpen' <=> NothingOpen) /\ (NoTransferYet' <=> NoTransferYet) /\ (Alone' <=> Alone)
    BY <2>1 DEF NothingOpen, NoTransferYet, Alone
  <2>4. MountInv' /\ TablesInv' /\ SuperInv' /\ PositionInv'
    BY <2>1, <2>3 DEF SerialInv, MountInv, TablesInv, SuperInv, PositionInv
  <2>5. InfoInv' /\ OwnerInv'
    BY <2>1, <2>2 DEF SerialInv, InfoInv, OwnerInv
  <2>6. BitmapInv'
    <3>1. {i \in p_bitmap' : ~Opening(i)'} = {i \in p_bitmap : ~Opening(i)}
      BY <2>1, <2>2 DEF TypeOK
    <3> QED BY <2>1, <3>1 DEF SerialInv, BitmapInv
  <2>7. OpenInv' /\ DataInv'
    BY <2>1, <2>2 DEF SerialInv, OpenInv, DataInv, TypeOK
  <2>8. \A t \in Threads : HandlerInv(t)'
    BY <2>1, <2>3 DEF SerialInv, HandlerInv
  <2> QED BY <2>4, <2>5, <2>6, <2>7, <2>8 DEF SerialInv
<1> QED BY <1>1, <1>3, <1>4, <1>5, <1>6, <1>7 DEF Next

\* A program that is started once is not stopped in a step.
LEMMA NeverStops ==
    ASSUME SerialDataCopies, SerialInv
    PROVE  ~Stop
BY DEF SerialDataCopies, SerialInv, MountInv, Stop

\* Copies of data files, one request after the other, keep the tables in
\* memory, the device, the open files and the position of fd consistent.
THEOREM SerialCorrect == SerialDataCopies => (Spec => []SerialInv)
<1> SUFFICES ASSUME SerialDataCopies, SerialUse
             PROVE  Spec => []SerialInv
  BY DEF SerialDataCopies
<1>1. Init => TypeOK /\ SerialInv
  BY InitType, SerialInit
<1>2. TypeOK /\ SerialInv /\ [Next]_vars => (TypeOK /\ SerialInv)'
  BY StepType, SerialStep, NeverStops
<1> QED BY <1>1, <1>2, PTL DEF Spec

\* A data cell that holds a part of a file is in the block pData gives it.
LEMMA BlockOfFile ==
    ASSUME SerialUse, TypeOK, SerialInv, NEW f \in Files, NEW i \in BlocksOf(f)
    PROVE  i \in p_bitmap /\ ~Opening(i) /\ pData[i] = f.id
<1>1. PICK k \in 0 .. MaxLen - 1 : Holds(i, f, k)
  BY DEF BlocksOf
<1>2. i \in Slots /\ k \in 0 .. DataCells - 1 /\ k \in Nat
  BY InsideBlock DEF BlocksOf
<1>3. disk[DataCell(i, k)] = Payload(f, k)
  BY <1>1, <1>2, DataFiles, BehindHeader DEF Holds, CellAt, DataCell
<1>4. Payload(f, k) \in PayloadCells /\ Payload(f, k).file = f
  BY <1>2, CellTypes DEF Payload
<1> QED BY <1>2, <1>3, <1>4 DEF SerialInv, OwnerInv

\* No transfer of a serial copy lands in front of the blocks.
THEOREM SerialLayout == SerialDataCopies => (Spec => []LayoutIntact)
<1> SUFFICES ASSUME SerialDataCopies, SerialUse
             PROVE  Spec => []LayoutIntact
  BY DEF SerialDataCopies
<1>1. SerialInv => LayoutIntact
  BY DEF SerialInv, SuperInv, BitmapInv, InfoInv, LayoutIntact, Bitmap, InfoCells
<1> QED BY <1>1, SerialCorrect, PTL

\* What was acknowledged is in the block that pData gives the file.
LEMMA NothingLost ==
    ASSUME SerialUse, TypeOK, SerialInv
    PROVE  NoLostData
<1> SUFFICES ASSUME NEW f \in Files, NEW k \in 0 .. len[f] - 1
             PROVE  \E i \in Slots : Holds(i, f, k)
  BY DEF NoLostData
<1>1. len[f] \in 0 .. MaxLen
  BY DEF TypeOK
<1>2. len[f] > 0 /\ k \in 0 .. MaxLen - 1
  BY <1>1, ConstantsAssumption
<1>3. PICK i \in p_bitmap : pData[i] = f.id
  BY <1>2 DEF SerialInv, DataInv
<1>4. disk[DataCell(i, k)] = Payload(f, k)
  BY <1>3 DEF SerialInv, DataInv
<1>5. i \in Slots /\ DataCell(i, k) \in Cells
  BY <1>2, InsideBlock, BehindHeader DEF TypeOK
<1>6. Holds(i, f, k)
  BY <1>4, <1>5, DataFiles DEF Holds, CellAt, DataCell
<1> QED BY <1>5, <1>6

\* What lfs_write acknowledged in serial copies is on the device.
THEOREM SerialNoLoss == SerialDataCopies => (Spec => []NoLostData)
<1> SUFFICES ASSUME SerialDataCopies, SerialUse
             PROVE  Spec => []NoLostData
  BY DEF SerialDataCopies
<1>1. TypeOK /\ SerialInv => NoLostData
  BY NothingLost
<1> QED BY <1>1, SerialCorrect, TypeCorrect, PTL

\* A read(2) of a serial copy is at the cell the client asked for, which holds
\* what was written there, although lfs_read does not move fd when cur_offset
\* says that it is in place.
THEOREM SerialReads == SerialDataCopies => (Spec => []ReadsReturnWrites)
<1> SUFFICES ASSUME SerialDataCopies, SerialUse
             PROVE  Spec => []ReadsReturnWrites
  BY DEF SerialDataCopies
<1>1. TypeOK /\ SerialInv => ReadsReturnWrites
  <2> SUFFICES ASSUME TypeOK, SerialInv, NEW t \in Threads, pc[t] = "read"
               PROVE  CellAt(pos) = req[t].cell
    BY DEF ReadsReturnWrites
  <2>1. PICK i \in p_bitmap, k \in 0 .. MaxLen - 1 :
                 /\ pData[i] = req[t].file.id
                 /\ pos = DataCell(i, k) /\ pos \in Cells
                 /\ req[t].cell = Payload(req[t].file, k)
                 /\ k < len[req[t].file]
    BY TransferReady
  <2>2. req[t].file \in Files /\ len[req[t].file] \in Nat
    BY TransferReady DEF TypeOK
  <2>3. k \in 0 .. len[req[t].file] - 1
    BY <2>1, <2>2, InsideBlock
  <2>4. disk[pos] = Payload(req[t].file, k)
    BY <2>1, <2>2, <2>3 DEF SerialInv, DataInv
  <2> QED BY <2>1, <2>4 DEF CellAt
<1> QED BY <1>1, SerialCorrect, TypeCorrect, PTL

\* Serial copies give every file one block and share no block.
THEOREM SerialOwnership == SerialDataCopies => (Spec => []BlockOwnership)
<1> SUFFICES ASSUME SerialDataCopies, SerialUse
             PROVE  Spec => []BlockOwnership
  BY DEF SerialDataCopies
<1>1. TypeOK /\ SerialInv => BlockOwnership
  <2> SUFFICES ASSUME TypeOK, SerialInv, NEW f \in Files
               PROVE  /\ \A i, j \in BlocksOf(f) : i = j
                      /\ \A g \in Files : f # g /\ f.kind = g.kind
                            => BlocksOf(f) \cap BlocksOf(g) = {}
    BY DEF BlockOwnership
  <2>1. \A g \in Files : \A i \in BlocksOf(g) : i \in p_bitmap /\ pData[i] = g.id
    BY BlockOfFile
  <2>2. \A i, j \in BlocksOf(f) : i = j
    BY <2>1 DEF SerialInv, TablesInv
  <2>3. \A g \in Files : f # g => f.id # g.id
    BY DataFiles
  <2> QED BY <2>1, <2>2, <2>3
<1> QED BY <1>1, SerialCorrect, TypeCorrect, PTL

\* A block with data is one whose bit the device has.
LEMMA MarkedOnDevice ==
    ASSUME SerialUse, TypeOK, SerialInv
    PROVE  BlocksMarked
<1> SUFFICES ASSUME NEW f \in Files, NEW i \in BlocksOf(f)
             PROVE  i \in AsBits(disk[BITMAP_OFFSET])
  BY DEF BlocksMarked
<1>1. i \in p_bitmap /\ ~Opening(i)
  BY BlockOfFile
<1> QED BY <1>1 DEF SerialInv, BitmapInv, AsBits, Bitmap

\* A block that serial copies put data in is marked in the bitmap on the
\* device, so that no later start of the program gives it away.
THEOREM SerialMarks == SerialDataCopies => (Spec => []BlocksMarked)
<1> SUFFICES ASSUME SerialDataCopies, SerialUse
             PROVE  Spec => []BlocksMarked
  BY DEF SerialDataCopies
<1>1. TypeOK /\ SerialInv => BlocksMarked
  BY MarkedOnDevice
<1> QED BY <1>1, SerialCorrect, TypeCorrect, PTL

\* In serial copies the handle of an open file leads to a data area.
THEOREM SerialOffsets == SerialDataCopies => (Spec => []HandleHasOffset)
<1> SUFFICES ASSUME SerialDataCopies, SerialUse
             PROVE  Spec => []HandleHasOffset
  BY DEF SerialDataCopies
<1>1. TypeOK /\ SerialInv => HandleHasOffset
  <2> SUFFICES ASSUME TypeOK, SerialInv, NEW s \in Sess, open[s].file # NoFile
               PROVE  \E i \in Slots : pFd[open[s].fh].dev_offset
                                          = DevOffset(open[s].file.kind, i)
    BY DEF HandleHasOffset
  <2> QED BY HandleLeads, DataFiles
<1> QED BY <1>1, SerialCorrect, TypeCorrect, PTL

\* Blocks are given out from the lowest on, and none is given back.
LowestInv ==
    /\ \A i \in p_bitmap : 0 .. i \subseteq p_bitmap
    /\ \A t \in Threads : pc[t] = "data_set" => 0 .. req[t].slot - 1 \subseteq p_bitmap

\* Steps but for those of an open leave the bitmap alone.
LEMMA LowestKept ==
    ASSUME LowestInv, SerialUse, NEW t \in Threads, p_bitmap' = p_bitmap,
           pc'[t] # "data_set"
    PROVE  LowestInv'
BY DEF LowestInv, SerialUse

\* Every step leaves the blocks given out from the lowest on.
LEMMA LowestStep ==
    ASSUME SerialUse, TypeOK, SerialInv, LowestInv, [Next]_vars, ~Stop
    PROVE  LowestInv'
<1>1. CASE Mount
  <2>1. /\ mounts = 0 /\ p_bitmap = {}
        /\ \A t \in Threads : pc[t] = "idle"
    BY <1>1 DEF Mount, SerialInv, MountInv
  <2>2. {i \in p_bitmap : ~Opening(i)} = {}
    BY <2>1
  <2>3. disk[BITMAP_OFFSET] = Bitmap({})
    BY <2>2 DEF SerialInv, BitmapInv
  <2>4. p_bitmap' = {} /\ pc' = pc
    BY <1>1, <2>3 DEF Mount, AsBits, Bitmap
  <2> QED BY <2>1, <2>4 DEF LowestInv
<1>3. ASSUME NEW t \in Threads, Scan(t)
      PROVE  LowestInv'
  <2>1. p_bitmap' = p_bitmap /\ pc'[t] # "data_set"
    BY <1>3 DEF Scan, ScanSeekInfo, ScanReadInfo, ScanSeekBitmap, ScanReadBitmap,
                Enter, Finish, TypeOK, HandlersOK, memory
  <2> QED BY <2>1, LowestKept
<1>4. ASSUME NEW t \in Threads, OpenMeta(t)
      PROVE  LowestInv'
  <2>1. pc[t] \notin {"meta_read", "meta_seek", "meta_write"}
    BY DEF SerialInv, HandlerInv
  <2>2. \A f \in Files : f.kind # "meta"
    BY DataFiles
  <2> QED BY <1>4, <2>1, <2>2
          DEF OpenMeta, OpenMetaFound, OpenMetaSeek, OpenMetaRead, OpenMetaSeekBack,
              OpenMetaWrite
<1>5. ASSUME NEW t \in Threads, NEW s \in Sess, NEW f \in Files, OpenDataFound(t, s, f)
      PROVE  LowestInv'
  <2>1. p_bitmap' = p_bitmap /\ pc' = pc /\ pc[t] = "idle"
    BY <1>5, OpenStart DEF OpenDataFound, memory
  <2> QED BY <2>1, LowestKept
<1>6. ASSUME NEW t \in Threads, NEW s \in Sess, NEW f \in Files, OpenDataPick(t, s, f)
      PROVE  LowestInv'
  <2>1. /\ p_bitmap' = p_bitmap
        /\ req'[t].slot = FirstFree(p_bitmap)
        /\ \A u \in Threads : u = t
    <3> DEFINE r == [NoReq EXCEPT !.file = f, !.sess = s, !.slot = FirstFree(p_bitmap)]
    <3>1. Enter(t, "data_set", r) /\ r.slot = FirstFree(p_bitmap)
      BY <1>6 DEF OpenDataPick, NoReq
    <3> HIDE DEF r
    <3>2. req'[t] = r
      BY <3>1, Entered
    <3>3. p_bitmap' = p_bitmap
      BY <1>6 DEF OpenDataPick, memory
    <3> QED BY <3>1, <3>2, <3>3, OneThread
  <2>2. FirstFree(p_bitmap) \in Slots \ p_bitmap
    <3>1. \A i \in Slots : pData[i] # f.id
      <4> SUFFICES ASSUME NEW i \in Slots, pData[i] = f.id
                   PROVE  FALSE
        OBVIOUS
      <4>1. block_id_use
        BY DataFiles DEF SerialInv, TablesInv
      <4>2. i \in DataFound(f)
        BY <4>1 DEF DataFound
      <4> QED BY <1>6, <4>2 DEF OpenDataPick
    <3> QED BY <3>1, FreeBlock DEF SerialInv
  <2>3. \A j \in Slots \ p_bitmap : FirstFree(p_bitmap) <= j
    <3>1. Slots \ p_bitmap \in SUBSET Nat /\ Slots \ p_bitmap # {}
      BY <2>2, LayoutType
    <3>2. FirstFree(p_bitmap) = Min(Slots \ p_bitmap)
      BY <3>1 DEF FirstFree
    <3> QED BY <3>1, <3>2, MinIsLeast
  <2>4. 0 .. FirstFree(p_bitmap) - 1 \subseteq p_bitmap
    BY <2>2, <2>3, ConstantsAssumption DEF Slots
  <2> QED BY <2>1, <2>4 DEF LowestInv
<1>7. ASSUME NEW t \in Threads, OpenDataSet(t)
      PROVE  LowestInv'
  <2>1. pc[t] = "data_set" /\ req[t].slot \in Slots
    BY <1>7 DEF OpenDataSet, SerialInv, HandlerInv
  <2>2. p_bitmap' = p_bitmap \cup {req[t].slot} /\ pc'[t] = "data_write"
    BY <1>7, <2>1, Entered DEF OpenDataSet, BitmapSet
  <2>3. 0 .. req[t].slot - 1 \subseteq p_bitmap
    BY <2>1 DEF LowestInv
  <2>4. 0 .. req[t].slot \subseteq p_bitmap'
    BY <2>1, <2>2, <2>3, ConstantsAssumption DEF Slots
  <2> QED BY <2>2, <2>4, OneThread DEF LowestInv
<1>8. ASSUME NEW t \in Threads, OpenDataWrite(t)
      PROVE  LowestInv'
  <2>1. p_bitmap' = p_bitmap /\ Enter(t, "idle", NoReq)
    BY <1>8 DEF OpenDataWrite, Finish, memory
  <2> QED BY <2>1, Entered, LowestKept
<1>9. ASSUME NEW t \in Threads, Use(t)
      PROVE  LowestInv'
  <2>1. ASSUME NEW s \in Sess, NEW k \in 0 .. MaxLen - 1,
               WriteSeek(t, s, k) \/ ReadSeek(t, s, k)
        PROVE  LowestInv'
    <3>1. p_bitmap' = p_bitmap
      BY <2>1 DEF WriteSeek, ReadSeek, memory
    <3>2. PICK place \in {"write", "read"} : \E r : Enter(t, place, r)
      BY <2>1 DEF WriteSeek, ReadSeek, Transfer
    <3>3. PICK r : Enter(t, place, r)
      BY <3>2
    <3> QED BY <3>1, <3>3, Entered, LowestKept
  <2>2. ASSUME WriteData(t) \/ ReadData(t) \/ ReleaseWrite(t)
        PROVE  LowestInv'
    <3>1. p_bitmap' = p_bitmap /\ Enter(t, "idle", NoReq)
      BY <2>2 DEF WriteData, ReadData, ReleaseWrite, Finish
    <3> QED BY <3>1, Entered, LowestKept
  <2>3. ASSUME NEW s \in Sess, ReleaseSeek(t, s)
        PROVE  LowestInv'
    <3>1. p_bitmap' = p_bitmap
      BY <2>3 DEF ReleaseSeek, memory
    <3>2. PICK r : Enter(t, "release_write", r)
      BY <2>3 DEF ReleaseSeek
    <3> QED BY <3>1, <3>2, Entered, LowestKept
  <2> QED BY <1>9, <2>1, <2>2, <2>3 DEF Use
<1>10. CASE UNCHANGED vars
  BY <1>10 DEF LowestInv, vars, memory
<1> QED BY <1>1, <1>3, <1>4, <1>5, <1>6, <1>7, <1>8, <1>9, <1>10 DEF Next, OpenData

\* Two files that serial copies have open have two handles, and while two blocks
\* are free each handle lies inside pFd.
THEOREM SerialHandles == SerialDataCopies => (Spec => []HandlesApart)
<1> SUFFICES ASSUME SerialDataCopies, SerialUse
             PROVE  Spec => []HandlesApart
  BY DEF SerialDataCopies
<1>1. TypeOK /\ SerialInv => HandlesDistinct
  <2> SUFFICES ASSUME TypeOK, SerialInv, NEW r \in Sess, NEW s \in Sess,
                      open[r].file # NoFile, open[s].file # NoFile,
                      open[r].file # open[s].file
               PROVE  open[r].fh # open[s].fh
    BY DEF HandlesDistinct
  <2>1. PICK i \in p_bitmap : i \in Slots /\ open[r].fh = DataHandle(i)
                              /\ pData[i] = open[r].file.id
    BY HandleLeads
  <2>2. PICK j \in p_bitmap : j \in Slots /\ open[s].fh = DataHandle(j)
                              /\ pData[j] = open[s].file.id
    BY HandleLeads
  <2>3. open[r].file.id # open[s].file.id
    BY HandleLeads, DataFiles
  <2> QED BY <2>1, <2>2, <2>3, DataHandles
<1>2. TypeOK /\ SerialInv /\ LowestInv => HandleInBounds
  <2> SUFFICES ASSUME TypeOK, SerialInv, LowestInv, NEW s \in Sess,
                      Cardinality(p_bitmap) <= BLOCK_NUM - 2
               PROVE  open[s].fh < 2 * BLOCK_NUM
    BY DEF HandleInBounds
  <2>1. IsFiniteSet(p_bitmap) /\ Cardinality(p_bitmap) \in Nat
    <3>1. IsFiniteSet(Slots)
      BY FS_Interval, ConstantsAssumption DEF Slots
    <3> QED BY <3>1, FS_Subset, FS_CardinalityType DEF TypeOK
  <2>2. CASE open[s].file = NoFile
    <3>1. open[s].fh = 2
      BY <2>2 DEF SerialInv, OpenInv, Closed
    <3> QED BY <2>1, <3>1, ConstantsAssumption
  <2>3. CASE open[s].file # NoFile
    <3>1. PICK i \in p_bitmap : i \in Slots /\ open[s].fh = DataHandle(i)
      BY <2>3, HandleLeads
    <3>2. i \in Nat /\ i < BLOCK_NUM /\ BLOCK_NUM \in Nat
      BY <3>1, ConstantsAssumption DEF Slots
    <3>3. Cardinality(0 .. i) = i + 1
      BY <3>2, FS_Interval
    <3>4. 0 .. i \subseteq p_bitmap
      BY <3>1 DEF LowestInv
    <3>5. i + 1 <= Cardinality(p_bitmap)
      <4>1. Cardinality(0 .. i) <= Cardinality(p_bitmap)
        BY <2>1, <3>4, FS_Subset
      <4> QED BY <3>3, <4>1
    <3> QED BY <2>1, <3>1, <3>2, <3>5 DEF DataHandle, Handle
  <2> QED BY <2>2, <2>3
<1>3. Init => LowestInv
  BY DEF Init, LowestInv
<1>4. TypeOK /\ SerialInv /\ LowestInv /\ [Next]_vars => LowestInv'
  BY LowestStep, NeverStops
<1> QED BY <1>1, <1>2, <1>3, <1>4, SerialCorrect, TypeCorrect, PTL DEF Spec, HandlesApart

-----------------------------------------------------------------------------
(* What a client sees, in terms of the tables.                             *)

\* The store of a client: the size of a file's handle, the cells up to its length,
\* and the length in the block_info that has its number.
View == \A f \in Files :
    /\ \A i \in p_bitmap : pData[i] = f.id => SentCells(f) = SizeOf(i)
    /\ (\A i \in p_bitmap : pData[i] # f.id) => SentCells(f) = 0
    /\ Cardinality(StoredCells(f)) = len[f]
    /\ \A i \in p_bitmap : pData[i] = f.id /\ ~Opening(i) /\ InfoAt(i).b_block_id = f.id
                              => DiskLength(f) = InfoAt(i).data
    /\ (\A i \in p_bitmap : pData[i] = f.id => Opening(i) \/ InfoAt(i).b_block_id # f.id)
          => DiskLength(f) = 0

\* The number of a file is at one place of pData at most, so that the search for it
\* finds the size of its handle.
LEMMA SentIs ==
    ASSUME SerialUse, TypeOK, SerialInv, NEW f \in Files
    PROVE  /\ \A i \in p_bitmap : pData[i] = f.id => SentCells(f) = SizeOf(i)
           /\ (\A i \in p_bitmap : pData[i] # f.id) => SentCells(f) = 0
<1>1. f.kind = "data" /\ f.id # NoId
  BY DataFiles
<1>2. \A i \in Slots : pData[i] = f.id => i \in p_bitmap
  BY <1>1 DEF SerialInv, TablesInv
<1>3. ASSUME NEW i \in p_bitmap, pData[i] = f.id
      PROVE  SentCells(f) = SizeOf(i)
  <2>1. i \in Slots
    BY DEF TypeOK
  <2>2. (CHOOSE j \in Slots : pData[j] = f.id) = i
    BY <1>2, <1>3, <2>1 DEF SerialInv, TablesInv
  <2> QED BY <1>1, <1>3, <2>1, <2>2 DEF SentCells, SizeOf, DataHandle
<1>4. (\A i \in p_bitmap : pData[i] # f.id) => SentCells(f) = 0
  BY <1>1, <1>2 DEF SentCells
<1> QED BY <1>3, <1>4

\* The cells of a file on the device are the first ones, up to its length.
LEMMA StoredIs ==
    ASSUME SerialUse, TypeOK, SerialInv, StoreInv, NEW f \in Files
    PROVE  StoredCells(f) = 0 .. len[f] - 1 /\ Cardinality(StoredCells(f)) = len[f]
<1>1. len[f] \in 0 .. MaxLen /\ MaxLen \in Nat /\ f.kind = "data"
  BY DataFiles, ConstantsAssumption DEF TypeOK
<1>2. \A i \in Slots, k \in 0 .. MaxLen - 1 :
         Holds(i, f, k) <=> disk[DataCell(i, k)] = Payload(f, k)
  BY <1>1, InsideBlock, BehindHeader DEF Holds, CellAt, DataCell
<1>3. ASSUME NEW k \in StoredCells(f)
      PROVE  k \in 0 .. len[f] - 1
  <2>1. k \in 0 .. MaxLen - 1 /\ k \in 0 .. DataCells - 1 /\ k \in Nat
    BY InsideBlock DEF StoredCells
  <2>2. PICK i \in Slots : disk[DataCell(i, k)] = Payload(f, k)
    BY <1>2, <2>1 DEF StoredCells
  <2>3. Payload(f, k) \in PayloadCells /\ Payload(f, k).file = f /\ Payload(f, k).at = k
    BY <2>1, CellTypes DEF Payload
  <2>4. k < len[f]
    BY <2>1, <2>2, <2>3 DEF StoreInv, CountInv
  <2> QED BY <1>1, <2>1, <2>4
<1>4. ASSUME NEW k \in 0 .. len[f] - 1
      PROVE  k \in StoredCells(f)
  <2>1. k \in 0 .. MaxLen - 1 /\ len[f] > 0
    BY <1>1
  <2>2. PICK i \in p_bitmap : pData[i] = f.id
    BY <2>1 DEF SerialInv, DataInv
  <2>3. disk[DataCell(i, k)] = Payload(f, k) /\ i \in Slots
    BY <2>2 DEF SerialInv, DataInv, TypeOK
  <2> QED BY <1>2, <2>1, <2>3 DEF StoredCells
<1>5. StoredCells(f) = 0 .. len[f] - 1
  BY <1>3, <1>4
<1>6. Cardinality(0 .. len[f] - 1) = len[f]
  <2>1. 0 \in Int /\ len[f] - 1 \in Int
    BY <1>1
  <2>2. Cardinality(0 .. len[f] - 1) = IF 0 > len[f] - 1 THEN 0 ELSE len[f] - 1 - 0 + 1
    BY <2>1, FS_Interval
  <2> QED BY <1>1, <2>2
<1> QED BY <1>5, <1>6

\* The first match of a lookup is the only one: the block of the file, once its
\* block_info has the number.
LEMMA LengthIs ==
    ASSUME SerialUse, TypeOK, SerialInv, StoreInv, NEW f \in Files
    PROVE  /\ \A i \in p_bitmap : pData[i] = f.id /\ ~Opening(i) /\ InfoAt(i).b_block_id = f.id
                                     => DiskLength(f) = InfoAt(i).data
           /\ (\A i \in p_bitmap : pData[i] = f.id => Opening(i) \/ InfoAt(i).b_block_id # f.id)
                 => DiskLength(f) = 0
<1>1. f.kind = "data" /\ f.id # NoId /\ p_bitmap \subseteq Slots
  BY DataFiles DEF TypeOK
<1>2. \A i \in Slots : InfoAt(i).tag = "info"
  BY DEF SerialInv, InfoInv, InfoAt, InfoCells
<1>3. \A i \in Slots : DiskInfo[i] = InfoAt(i)
  BY <1>2 DEF DiskInfo, AsInfo, InfoAt
<1>4. DiskHits(f) = {i \in p_bitmap : ~Opening(i) /\ InfoAt(i).b_block_id = f.id}
  <2>1. AsBits(disk[BITMAP_OFFSET]) = {i \in p_bitmap : ~Opening(i)}
    BY DEF SerialInv, BitmapInv, AsBits, Bitmap
  <2> QED BY <1>1, <1>3, <2>1 DEF DiskHits, Matches
<1>5. \A i \in DiskHits(f) : i \in p_bitmap /\ pData[i] = f.id
  BY <1>1, <1>4 DEF StoreInv, FreshInv
<1>6. ASSUME NEW i \in p_bitmap, pData[i] = f.id, ~Opening(i), InfoAt(i).b_block_id = f.id
      PROVE  DiskLength(f) = InfoAt(i).data
  <2>1. DiskHits(f) = {i}
    BY <1>4, <1>5, <1>6 DEF SerialInv, TablesInv
  <2>2. DiskHits(f) \in SUBSET Nat
    BY <1>1, <1>4, LayoutType
  <2>3. Min(DiskHits(f)) = i
    BY <2>1, <2>2, MinIsLeast
  <2> QED BY <1>1, <1>3, <2>1, <2>3 DEF DiskLength
<1>7. ASSUME \A i \in p_bitmap : pData[i] = f.id => Opening(i) \/ InfoAt(i).b_block_id # f.id
      PROVE  DiskLength(f) = 0
  <2>1. DiskHits(f) = {}
    BY <1>4, <1>5, <1>7
  <2> QED BY <2>1 DEF DiskLength
<1> QED BY <1>6, <1>7

\* The invariants give the view.
LEMMA ViewIs == SerialUse /\ TypeOK /\ SerialInv /\ StoreInv => View
BY SentIs, StoredIs, LengthIs DEF View

-----------------------------------------------------------------------------
(* What each step does to the cells, the tables and the sizes.             *)

\* A step that neither writes nor gives out anything.
Quiet ==
    /\ UNCHANGED <<disk, p_bitmap, pData, len, published>>
    /\ \A i \in Slots : SizeOf(i)' = SizeOf(i) /\ ~Opening(i) /\ ~Opening(i)'
    /\ \A t \in Threads : pc[t] # "write" /\ pc'[t] # "write"

\* Lookups, opens up to the tables, reads, and the seek of a release are quiet, and
\* only the latter leads to the write of a block_info.
LEMMA QuietSteps ==
    ASSUME SerialUse, TypeOK, SerialInv, NEW t \in Threads,
           \/ Scan(t) \/ ReadData(t)
           \/ \E s \in Sess, f \in Files : OpenDataFound(t, s, f) \/ OpenDataPick(t, s, f)
           \/ \E s \in Sess, k \in 0 .. MaxLen - 1 : ReadSeek(t, s, k)
           \/ \E s \in Sess : ReleaseSeek(t, s)
    PROVE  /\ Quiet
           /\ pc'[t] # "release_write" \/ \E s \in Sess : ReleaseSeek(t, s)
<1> DEFINE Goal == /\ Quiet
                   /\ pc'[t] # "release_write" \/ \E s \in Sess : ReleaseSeek(t, s)
<1>1. ASSUME NEW place, NEW r, Enter(t, place, r),
             place \notin {"write", "data_write", "release_write"},
             pc[t] \notin {"write", "data_write"},
             UNCHANGED <<disk, p_bitmap, pData, pFd, len, published>>
      PROVE  Goal
  <2>1. \A i \in Slots : ~Opening(i) /\ ~Opening(i)'
    BY <1>1, OneThread, Entered
  <2>2. \A u \in Threads : pc[u] = pc[t] /\ pc'[u] = place
    BY <1>1, OneThread, Entered
  <2> QED BY <1>1, <2>1, <2>2 DEF Quiet, SizeOf
<1>2. CASE Scan(t)
  <2>1. CASE ScanReadBitmap(t)
    BY <2>1, <1>1, LookupRepeats DEF ScanReadBitmap, Finish, history
  <2>2. CASE ~ScanReadBitmap(t)
    <3>1. pc[t] \in {"idle", "scan_info", "scan_seek"}
      BY <1>2, <2>2 DEF Scan, ScanSeekInfo, ScanReadInfo, ScanSeekBitmap, Idle
    <3>2. UNCHANGED <<disk, p_bitmap, pData, pFd, len, published>>
      BY <1>2, <2>2
         DEF Scan, ScanSeekInfo, ScanReadInfo, ScanSeekBitmap, memory, history
    <3>3. PICK place \in Scanning : \E r : Enter(t, place, r)
      BY <1>2, <2>2 DEF Scan, ScanSeekInfo, ScanReadInfo, ScanSeekBitmap, Scanning
    <3> QED BY <3>1, <3>2, <3>3, <1>1 DEF Scanning
  <2> QED BY <2>1, <2>2
<1>3. CASE ReadData(t)
  BY <1>3, <1>1 DEF ReadData, Finish, history
<1>4. ASSUME NEW s \in Sess, NEW f \in Files, OpenDataFound(t, s, f)
      PROVE  Goal
  <2>1. pc[t] = "idle" /\ UNCHANGED <<disk, p_bitmap, pData, pc, req, len, published>>
    BY <1>4 DEF OpenDataFound, CanOpen, Idle, history
  <2>2. \A i \in Slots : ~Opening(i) /\ ~Opening(i)'
    BY <2>1, OneThread DEF Opening
  <2>3. \A h \in Handles : pFd'[h].size = pFd[h].size
    BY <1>4, FoundType DEF OpenDataFound, TypeOK, FdEntries
  <2> QED BY <2>1, <2>2, <2>3, OneThread, DataHandles DEF Quiet, SizeOf
<1>5. ASSUME NEW s \in Sess, NEW f \in Files, OpenDataPick(t, s, f)
      PROVE  Goal
  <2>1. pc[t] = "idle" /\ UNCHANGED <<disk, p_bitmap, pData, pFd, len, published>>
    BY <1>5 DEF OpenDataPick, CanOpen, Idle, memory, history
  <2>2. PICK r : Enter(t, "data_set", r)
    BY <1>5 DEF OpenDataPick
  <2> QED BY <2>1, <2>2, <1>1
<1>6. ASSUME NEW s \in Sess, NEW k \in 0 .. MaxLen - 1, ReadSeek(t, s, k)
      PROVE  Goal
  <2>1. pc[t] = "idle" /\ UNCHANGED <<disk, p_bitmap, pData, pFd, len, published>>
    BY <1>6 DEF ReadSeek, CanUse, Idle, memory, history
  <2>2. PICK r : Enter(t, "read", r)
    BY <1>6 DEF ReadSeek, Transfer
  <2> QED BY <2>1, <2>2, <1>1
<1>7. ASSUME NEW s \in Sess, ReleaseSeek(t, s)
      PROVE  Goal
  <2>1. pc[t] = "idle" /\ UNCHANGED <<disk, p_bitmap, pData, pFd, len, published>>
    BY <1>7 DEF ReleaseSeek, CanUse, Idle, memory, history
  <2>2. PICK r : Enter(t, "release_write", r)
    BY <1>7 DEF ReleaseSeek
  <2>3. \A i \in Slots : ~Opening(i) /\ ~Opening(i)'
    BY <2>1, <2>2, OneThread, Entered
  <2>4. \A u \in Threads : pc[u] = "idle" /\ pc'[u] = "release_write"
    BY <2>1, <2>2, OneThread, Entered
  <2> QED BY <1>7, <2>1, <2>3, <2>4 DEF Quiet, SizeOf
<1> QED BY <1>2, <1>3, <1>4, <1>5, <1>6, <1>7

\* The tables take a block that was not given out, for a file that has none.
LEMMA SetDoes ==
    ASSUME SerialUse, TypeOK, SerialInv, NEW t \in Threads, OpenDataSet(t)
    PROVE  /\ UNCHANGED <<disk, len, published>>
           /\ \A i \in Slots : SizeOf(i)' = SizeOf(i) /\ ~Opening(i)
           /\ \A u \in Threads : pc[u] = "data_set" /\ pc'[u] = "data_write"
           /\ \E b \in Slots \ p_bitmap, f \in Files :
                 /\ \A i \in Slots : pData[i] # f.id
                 /\ p_bitmap' = p_bitmap \cup {b}
                 /\ pData' = [pData EXCEPT ![b] = f.id]
                 /\ \A i \in Slots : Opening(i)' <=> i = b
<1> DEFINE b == req[t].slot
           f == req[t].file
<1>1. pc[t] = "data_set" /\ \A i \in Slots : ~Opening(i)
  BY OneThread DEF OpenDataSet
<1>2. b \in Slots \ p_bitmap /\ \A i \in Slots : pData[i] # f.id
  BY <1>1 DEF SerialInv, HandlerInv
<1>3. f \in Files
  BY <1>1 DEF TypeOK, HandlersOK, Scanning
<1>4. /\ p_bitmap' = p_bitmap \cup {b} /\ pData' = [pData EXCEPT ![b] = f.id]
      /\ UNCHANGED <<disk, len, published>>
      /\ Enter(t, "data_write", req[t])
  BY <1>2 DEF OpenDataSet, BitmapSet, history
<1>5. \A h \in Handles : pFd'[h].size = pFd[h].size
  BY DEF OpenDataSet, TypeOK
<1>6. \A i \in Slots : SizeOf(i)' = SizeOf(i)
  BY <1>5, DataHandles DEF SizeOf
<1>7. /\ \A u \in Threads : pc[u] = "data_set" /\ pc'[u] = "data_write"
      /\ \A i \in Slots : Opening(i)' <=> i = b
  BY <1>1, <1>4, OneThread, Entered
<1> HIDE DEF b, f
<1> QED BY <1>1, <1>2, <1>3, <1>4, <1>6, <1>7

\* The bitmap on the device gives the block away, and nothing else changes.
LEMMA GiveDoes ==
    ASSUME SerialUse, TypeOK, SerialInv, NEW t \in Threads, OpenDataWrite(t)
    PROVE  /\ UNCHANGED <<p_bitmap, pData, pFd, len, published>>
           /\ \A u \in Threads : pc[u] = "data_write" /\ pc'[u] = "idle"
           /\ \A i \in Slots : ~Opening(i)'
           /\ \A i \in Slots : InfoAt(i)' = InfoAt(i)
           /\ \A i \in Slots, k \in 0 .. DataCells - 1 :
                  disk'[DataCell(i, k)] = disk[DataCell(i, k)]
<1>1. pc[t] = "data_write" /\ pos = BITMAP_OFFSET
  BY DEF OpenDataWrite, SerialInv, HandlerInv
<1>2. /\ disk' = [disk EXCEPT ![BITMAP_OFFSET] = Bitmap(p_bitmap)]
      /\ Enter(t, "idle", NoReq)
      /\ UNCHANGED <<p_bitmap, pData, pFd, len, published>>
  BY <1>1, HeaderCells DEF OpenDataWrite, WriteCell, Finish, memory, history
<1>3. \A i \in Slots : InfoOffset(i) \in Cells /\ InfoOffset(i) # BITMAP_OFFSET
  BY HeaderCells DEF BITMAP_OFFSET
<1>4. \A a \in Cells : a # BITMAP_OFFSET => disk'[a] = disk[a]
  BY <1>2 DEF TypeOK
<1>5. \A i \in Slots : InfoAt(i)' = InfoAt(i)
  BY <1>3, <1>4 DEF InfoAt
<1>6. \A i \in Slots, k \in 0 .. DataCells - 1 :
         disk'[DataCell(i, k)] = disk[DataCell(i, k)]
  BY <1>4, BehindHeader
<1> QED BY <1>1, <1>2, <1>5, <1>6, OneThread, Entered

\* lfs_write counts its cell before it transfers it.
LEMMA CountDoes ==
    ASSUME SerialUse, TypeOK, SerialInv, NEW t \in Threads, NEW s \in Sess,
           NEW k \in 0 .. MaxLen - 1, WriteSeek(t, s, k)
    PROVE  /\ UNCHANGED <<disk, p_bitmap, pData, len, published>>
           /\ \A i \in Slots : ~Opening(i) /\ ~Opening(i)'
           /\ \E i \in p_bitmap, f \in Files :
                 /\ i \in Slots /\ pData[i] = f.id
                 /\ k <= len[f] /\ (Rewrites \/ k = len[f])
                 /\ SizeOf(i)' = SizeOf(i) + 1
                 /\ \A j \in Slots : j # i => SizeOf(j)' = SizeOf(j)
                 /\ \A u \in Threads : /\ pc[u] = "idle" /\ pc'[u] = "write"
                                        /\ req'[u].file = f /\ req'[u].cell = Payload(f, k)
<1> DEFINE f == open[s].file
           r == [NoReq EXCEPT !.file = f, !.sess = s,
                              !.at = pFd[open[s].fh].dev_offset + k, !.cell = Payload(f, k)]
<1>1. pc[t] = "idle" /\ f # NoFile /\ \A i \in Slots : ~Opening(i)
  BY OneThread DEF WriteSeek, CanUse, Idle
<1>2. f \in Files
  BY <1>1, HandleLeads
<1>3. PICK i \in p_bitmap : i \in Slots /\ open[s].fh = DataHandle(i) /\ pData[i] = f.id
  BY <1>1, HandleLeads
<1>4. Enter(t, "write", r) /\ r.file = f /\ r.cell = Payload(f, k)
  BY DEF WriteSeek, Transfer, NoReq
<1>5. /\ UNCHANGED <<disk, p_bitmap, pData, len, published>>
      /\ k <= len[f] /\ (Rewrites \/ k = len[f])
      /\ pFd' = [pFd EXCEPT ![DataHandle(i)].size = @ + 1]
  BY <1>3 DEF WriteSeek, history
<1> HIDE DEF f, r
<1>6. /\ SizeOf(i)' = SizeOf(i) + 1
      /\ \A j \in Slots : j # i => SizeOf(j)' = SizeOf(j)
  <2>1. DataHandle(i) \in Handles /\ pFd[DataHandle(i)] \in FdEntries
    BY <1>3, DataHandles DEF TypeOK
  <2>2. pFd'[DataHandle(i)].size = pFd[DataHandle(i)].size + 1
    BY <2>1, <1>5 DEF TypeOK, FdEntries
  <2>3. \A j \in Slots : j # i => pFd'[DataHandle(j)] = pFd[DataHandle(j)]
    BY <1>3, <1>5, DataHandles DEF TypeOK
  <2> QED BY <2>2, <2>3 DEF SizeOf
<1>7. /\ \A u \in Threads : /\ pc[u] = "idle" /\ pc'[u] = "write"
                             /\ req'[u].file = f /\ req'[u].cell = Payload(f, k)
      /\ \A j \in Slots : ~Opening(j)'
  BY <1>1, <1>4, OneThread, Entered
<1> QED BY <1>1, <1>2, <1>3, <1>5, <1>6, <1>7

\* The write(2) of lfs_write stores the cell and acknowledges it.
LEMMA LandDoes ==
    ASSUME SerialUse, TypeOK, SerialInv, NEW t \in Threads, WriteData(t)
    PROVE  /\ UNCHANGED <<p_bitmap, pData, pFd, published>>
           /\ \A i \in Slots : ~Opening(i) /\ ~Opening(i)' /\ InfoAt(i)' = InfoAt(i)
           /\ pc[t] = "write" /\ req[t].file \in Files
           /\ \A u \in Threads : u = t /\ pc'[u] = "idle"
           /\ \E i \in p_bitmap, k \in 0 .. MaxLen - 1 :
                 /\ i \in Slots /\ k \in 0 .. DataCells - 1
                 /\ pData[i] = req[t].file.id
                 /\ req[t].cell = Payload(req[t].file, k)
                 /\ k <= len[req[t].file]
                 /\ len' = [len EXCEPT ![req[t].file] = IF @ < k + 1 THEN k + 1 ELSE @]
                 /\ disk'[DataCell(i, k)] = Payload(req[t].file, k)
                 /\ \A j \in Slots, l \in 0 .. DataCells - 1 : ~(j = i /\ l = k)
                       => disk'[DataCell(j, l)] = disk[DataCell(j, l)]
<1> DEFINE f == req[t].file
<1>1. pc[t] = "write" /\ f \in Files /\ \A j \in Slots : ~Opening(j)
  BY TransferReady DEF WriteData
<1>2. PICK i \in p_bitmap, k \in 0 .. MaxLen - 1 :
                 /\ i \in Slots /\ k \in 0 .. DataCells - 1
                 /\ pData[i] = f.id
                 /\ pos = DataCell(i, k)
                 /\ pos \in Cells
                 /\ req[t].cell = Payload(f, k)
                 /\ k <= len[f]
  BY <1>1, TransferReady
<1>3. /\ disk' = [disk EXCEPT ![pos] = Payload(f, k)]
      /\ len' = [len EXCEPT ![f] = IF @ < k + 1 THEN k + 1 ELSE @]
      /\ Enter(t, "idle", NoReq)
      /\ UNCHANGED <<p_bitmap, pData, pFd, published>>
  BY <1>2 DEF WriteData, WriteCell, Finish, Payload
<1> HIDE DEF f
<1>4. disk'[pos] = Payload(f, k) /\ \A a \in Cells : a # pos => disk'[a] = disk[a]
  BY <1>2, <1>3 DEF TypeOK
<1>5. \A j \in Slots : InfoAt(j)' = InfoAt(j)
  BY <1>2, <1>4, BehindHeader, HeaderCells DEF InfoAt
<1>6. \A j \in Slots, l \in 0 .. DataCells - 1 :
         ~(j = i /\ l = k) => disk'[DataCell(j, l)] = disk[DataCell(j, l)]
  BY <1>2, <1>4, BehindHeader, DataCellsDistinct
<1>7. /\ \A u \in Threads : u = t /\ pc'[u] = "idle"
      /\ \A j \in Slots : ~Opening(j)'
  BY <1>3, OneThread, Entered
<1>8. \E j \in p_bitmap, l \in 0 .. MaxLen - 1 :
         /\ j \in Slots /\ l \in 0 .. DataCells - 1
         /\ pData[j] = f.id
         /\ req[t].cell = Payload(f, l)
         /\ l <= len[f]
         /\ len' = [len EXCEPT ![f] = IF @ < l + 1 THEN l + 1 ELSE @]
         /\ disk'[DataCell(j, l)] = Payload(f, l)
         /\ \A m \in Slots, n \in 0 .. DataCells - 1 : ~(m = j /\ n = l)
               => disk'[DataCell(m, n)] = disk[DataCell(m, n)]
  <2> WITNESS i \in p_bitmap, k \in 0 .. MaxLen - 1
  <2>1. disk'[DataCell(i, k)] = Payload(f, k)
    BY <1>2, <1>4
  <2> QED BY <2>1, <1>2, <1>3, <1>6
<1> QED BY <1>1, <1>3, <1>5, <1>7, <1>8 DEF f

\* lfs_release takes the size of its handle along.
LEMMA CarryDoes ==
    ASSUME SerialUse, TypeOK, SerialInv, NEW t \in Threads, NEW s \in Sess,
           ReleaseSeek(t, s)
    PROVE  \E i \in p_bitmap :
              /\ i \in Slots
              /\ \A u \in Threads :
                    /\ req'[u].at = InfoOffset(i)
                    /\ req'[u].file.id = pData[i]
                    /\ req'[u].cell.data = SizeOf(i)
<1> DEFINE e == pFd[open[s].fh]
<1>1. PICK i \in p_bitmap : /\ i \in Slots /\ open[s].fh = DataHandle(i)
                            /\ pData[i] = open[s].file.id
                            /\ e.data_block_id = i /\ e.flag = "data"
  BY HandleLeads DEF ReleaseSeek, CanUse
<1>2. PICK junk \in StackJunk :
         Enter(t, "release_write", [NoReq EXCEPT !.file = open[s].file, !.sess = s,
                                                 !.at = InfoOffset(e.data_block_id),
                                                 !.cell = Released(e, junk)])
  BY DEF ReleaseSeek
<1> DEFINE r == [NoReq EXCEPT !.file = open[s].file, !.sess = s,
                              !.at = InfoOffset(e.data_block_id), !.cell = Released(e, junk)]
<1>3. r.at = InfoOffset(i) /\ r.file.id = pData[i] /\ r.cell.data = SizeOf(i)
  BY <1>1 DEF NoReq, Released, BlockInfo, SizeOf
<1>4. Enter(t, "release_write", r)
  BY <1>2
<1> HIDE DEF r
<1>5. \A u \in Threads : req'[u] = r
  BY <1>4, OneThread, Entered
<1> QED BY <1>1, <1>3, <1>5

\* The write(2) of lfs_release puts number and size into the block_info of the file.
LEMMA PublishDoes ==
    ASSUME SerialUse, TypeOK, SerialInv, StoreInv, NEW t \in Threads, ReleaseWrite(t)
    PROVE  /\ UNCHANGED <<p_bitmap, pData, pFd, len>>
           /\ pc[t] = "release_write" /\ req[t].file \in Files
           /\ published' = [published EXCEPT ![req[t].file] = len[req[t].file]]
           /\ \A u \in Threads : u = t /\ pc'[u] = "idle"
           /\ \A i \in Slots : ~Opening(i) /\ ~Opening(i)'
           /\ \A i \in Slots, k \in 0 .. DataCells - 1 :
                  disk'[DataCell(i, k)] = disk[DataCell(i, k)]
           /\ \E i \in p_bitmap :
                 /\ i \in Slots /\ pData[i] = req[t].file.id
                 /\ InfoAt(i)'.b_block_id = pData[i]
                 /\ InfoAt(i)'.data = SizeOf(i)
                 /\ \A j \in Slots : j # i => InfoAt(j)' = InfoAt(j)
<1> DEFINE f == req[t].file
<1>1. pc[t] = "release_write" /\ f \in Files /\ \A j \in Slots : ~Opening(j)
  BY OneThread DEF ReleaseWrite, TypeOK, HandlersOK, Scanning
<1>2. PICK i \in p_bitmap : /\ pos = InfoOffset(i) /\ req[t].at = InfoOffset(i)
                            /\ req[t].cell.b_block_id = pData[i]
  <2>1. HandlerInv(t)
    BY DEF SerialInv
  <2> QED BY <1>1, <2>1 DEF HandlerInv
<1>3. i \in Slots /\ pos \in Cells
  BY <1>2, HeaderCells DEF TypeOK
<1>4. req[t].cell.data = SizeOf(i) /\ f.id = pData[i]
  BY <1>1, <1>2 DEF StoreInv, ReleaseInv
<1>5. /\ disk' = [disk EXCEPT ![pos] = req[t].cell]
      /\ published' = [published EXCEPT ![f] = len[f]]
      /\ Enter(t, "idle", NoReq)
      /\ UNCHANGED <<p_bitmap, pData, pFd, len>>
  BY <1>3 DEF ReleaseWrite, WriteCell, Finish
<1> HIDE DEF f
<1>6. disk'[pos] = req[t].cell /\ \A a \in Cells : a # pos => disk'[a] = disk[a]
  BY <1>3, <1>5 DEF TypeOK
<1>7. InfoAt(i)' = req[t].cell
  BY <1>2, <1>6 DEF InfoAt
<1>8. \A j \in Slots : j # i => InfoAt(j)' = InfoAt(j)
  BY <1>2, <1>3, <1>6, HeaderCells DEF InfoAt
<1>9. \A j \in Slots, k \in 0 .. DataCells - 1 : disk'[DataCell(j, k)] = disk[DataCell(j, k)]
  BY <1>2, <1>3, <1>6, BehindHeader
<1>10. /\ \A u \in Threads : u = t /\ pc'[u] = "idle"
       /\ \A j \in Slots : ~Opening(j)'
  BY <1>5, OneThread, Entered
<1> QED BY <1>1, <1>2, <1>3, <1>4, <1>5, <1>7, <1>8, <1>9, <1>10 DEF f

-----------------------------------------------------------------------------
(* Every step keeps what the sizes are worth.                              *)

\* Steps that move no data keep the counts.
LEMMA QuietKeeps ==
    ASSUME SerialUse, TypeOK, StoreInv, Quiet,
           \A t \in Threads : pc'[t] # "release_write"
    PROVE  StoreInv'
<1>1. FreshInv'
  BY DEF StoreInv, FreshInv, Quiet, InfoAt
<1>2. CountInv'
  BY DEF StoreInv, CountInv, Quiet, TypeOK
<1>3. ReleaseInv'
  BY DEF ReleaseInv
<1> QED BY <1>1, <1>2, <1>3 DEF StoreInv

\* The seek of a release keeps the counts, and carries that of its handle.
LEMMA CarryKeeps ==
    ASSUME SerialUse, TypeOK, SerialInv, StoreInv, Quiet, NEW t \in Threads,
           NEW s \in Sess, ReleaseSeek(t, s)
    PROVE  StoreInv'
<1>1. FreshInv'
  BY DEF StoreInv, FreshInv, Quiet, InfoAt
<1>2. CountInv'
  BY DEF StoreInv, CountInv, Quiet, TypeOK
<1>3. ReleaseInv'
  <2>1. PICK i \in p_bitmap :
              /\ i \in Slots
              /\ \A u \in Threads : /\ req'[u].at = InfoOffset(i)
                                     /\ req'[u].file.id = pData[i]
                                     /\ req'[u].cell.data = SizeOf(i)
    BY CarryDoes
  <2>2. SizeOf(i)' = SizeOf(i) /\ ~Opening(i)' /\ pData' = pData /\ p_bitmap' = p_bitmap
    BY <2>1 DEF Quiet
  <2>3. \A j \in p_bitmap : InfoOffset(j) = InfoOffset(i) => j = i
    BY <2>1, HeaderCells DEF TypeOK
  <2> QED BY <2>1, <2>2, <2>3 DEF ReleaseInv
<1> QED BY <1>1, <1>2, <1>3 DEF StoreInv

\* The tables take a block with no size for a file without a cell.
LEMMA SetKeeps ==
    ASSUME SerialUse, TypeOK, SerialInv, StoreInv, NEW t \in Threads, OpenDataSet(t)
    PROVE  StoreInv'
<1>1. /\ UNCHANGED <<disk, len, published>>
      /\ \A i \in Slots : SizeOf(i)' = SizeOf(i) /\ ~Opening(i)
      /\ \A u \in Threads : pc'[u] = "data_write"
  BY SetDoes
<1>2. PICK b \in Slots \ p_bitmap, f \in Files :
         /\ \A i \in Slots : pData[i] # f.id
         /\ p_bitmap' = p_bitmap \cup {b}
         /\ pData' = [pData EXCEPT ![b] = f.id]
         /\ \A i \in Slots : Opening(i)' <=> i = b
  BY SetDoes
<1>3. /\ pData'[b] = f.id /\ \A i \in Slots : i # b => pData'[i] = pData[i]
      /\ p_bitmap \subseteq Slots /\ p_bitmap' \subseteq Slots
  BY <1>2 DEF TypeOK
<1>4. FreshInv'
  <2>1. SizeOf(b) = 0 /\ InfoAt(b).b_block_id = NoId
    BY DEF StoreInv, FreshInv
  <2>2. \A i \in Slots : InfoAt(i)' = InfoAt(i)
    BY <1>1 DEF InfoAt
  <2> QED BY <2>1, <2>2, <1>1, <1>2, <1>3 DEF StoreInv, FreshInv
<1>5. CountInv'
  <2>1. ASSUME NEW g \in Files, NEW i \in p_bitmap', pData'[i] = g.id
        PROVE  len'[g] <= SizeOf(i)'
    <3>1. CASE i = b
      <4>1. g = f
        BY <3>1, <2>1, <1>3, DataFiles
      <4>2. ~(len[f] > 0) /\ len[f] \in Nat
        BY <1>2, <1>3 DEF SerialInv, DataInv, TypeOK
      <4>3. SizeOf(b) = 0
        BY DEF StoreInv, FreshInv
      <4> QED BY <3>1, <4>1, <4>2, <4>3, <1>1
    <3>2. CASE i # b
      BY <3>2, <2>1, <1>1, <1>2, <1>3 DEF StoreInv, CountInv
    <3> QED BY <3>1, <3>2
  <2> QED BY <2>1, <1>1 DEF StoreInv, CountInv
<1>6. ReleaseInv'
  BY <1>1 DEF ReleaseInv
<1> QED BY <1>4, <1>5, <1>6 DEF StoreInv

\* Giving a block away leaves cells, numbers and sizes alone.
LEMMA GiveKeeps ==
    ASSUME SerialUse, TypeOK, SerialInv, StoreInv, NEW t \in Threads, OpenDataWrite(t)
    PROVE  StoreInv'
<1>1. /\ UNCHANGED <<p_bitmap, pData, pFd, len>>
      /\ \A u \in Threads : pc'[u] = "idle"
      /\ \A i \in Slots : ~Opening(i)'
      /\ \A i \in Slots : InfoAt(i)' = InfoAt(i)
      /\ \A i \in Slots, k \in 0 .. DataCells - 1 :
             disk'[DataCell(i, k)] = disk[DataCell(i, k)]
  BY GiveDoes
<1>2. FreshInv'
  BY <1>1 DEF StoreInv, FreshInv, SizeOf
<1>3. CountInv'
  BY <1>1 DEF StoreInv, CountInv, SizeOf
<1>4. ReleaseInv'
  BY <1>1 DEF ReleaseInv
<1> QED BY <1>2, <1>3, <1>4 DEF StoreInv

\* lfs_write counts its cell first.
LEMMA CountKeeps ==
    ASSUME SerialUse, TypeOK, SerialInv, StoreInv, NEW t \in Threads, NEW s \in Sess,
           NEW k \in 0 .. MaxLen - 1, WriteSeek(t, s, k)
    PROVE  StoreInv'
<1>1. /\ UNCHANGED <<disk, p_bitmap, pData, len, published>>
      /\ \A i \in Slots : ~Opening(i) /\ ~Opening(i)'
  BY CountDoes
<1>2. PICK i \in p_bitmap, f \in Files :
                 /\ i \in Slots /\ pData[i] = f.id
                 /\ k <= len[f]
                 /\ SizeOf(i)' = SizeOf(i) + 1
                 /\ \A j \in Slots : j # i => SizeOf(j)' = SizeOf(j)
                 /\ \A u \in Threads : /\ pc[u] = "idle" /\ pc'[u] = "write"
                                        /\ req'[u].file = f /\ req'[u].cell = Payload(f, k)
  BY CountDoes
<1>3. /\ p_bitmap \subseteq Slots /\ \A g \in Files : len[g] \in Nat
      /\ SizeOf(i) \in Nat /\ k \in Nat
  BY <1>2, DataHandles, InsideBlock, ConstantsAssumption DEF TypeOK, FdEntries, SizeOf
<1>4. len[f] <= SizeOf(i)
  BY <1>2 DEF StoreInv, CountInv
<1>5. FreshInv'
  <2>1. \A j \in Slots : InfoAt(j)' = InfoAt(j)
    BY <1>1 DEF InfoAt
  <2> QED BY <2>1, <1>1, <1>2 DEF StoreInv, FreshInv
<1>6. CountInv'
  <2>1. ASSUME NEW g \in Files, NEW j \in p_bitmap', pData'[j] = g.id
        PROVE  /\ len'[g] <= SizeOf(j)'
               /\ \A u \in Threads : pc'[u] = "write" /\ req'[u].file = g =>
                      req'[u].cell.at < SizeOf(j)'
    <3>1. CASE g = f
      <4>1. j = i
        BY <3>1, <2>1, <1>1, <1>2 DEF SerialInv, TablesInv
      <4>2. k < SizeOf(i) + 1 /\ len[f] <= SizeOf(i) + 1
        BY <1>2, <1>3, <1>4
      <4>3. Payload(f, k).at = k
        BY DEF Payload
      <4> QED BY <3>1, <4>1, <4>2, <4>3, <1>1, <1>2
    <3>2. CASE g # f
      <4>1. j # i
        BY <3>2, <2>1, <1>1, <1>2, DataFiles
      <4>2. SizeOf(j)' = SizeOf(j) /\ len[g] <= SizeOf(j)
        BY <4>1, <2>1, <1>1, <1>2, <1>3 DEF StoreInv, CountInv
      <4> QED BY <3>2, <4>2, <1>1, <1>2
    <3> QED BY <3>1, <3>2
  <2> QED BY <2>1, <1>1 DEF StoreInv, CountInv
<1>7. ReleaseInv'
  BY <1>2 DEF ReleaseInv
<1> QED BY <1>5, <1>6, <1>7 DEF StoreInv

\* The cell that arrives was counted.
LEMMA LandKeeps ==
    ASSUME SerialUse, TypeOK, SerialInv, StoreInv, NEW t \in Threads, WriteData(t)
    PROVE  StoreInv'
<1> DEFINE f == req[t].file
<1>1. /\ UNCHANGED <<p_bitmap, pData, pFd, published>>
      /\ \A i \in Slots : ~Opening(i) /\ ~Opening(i)' /\ InfoAt(i)' = InfoAt(i)
      /\ pc[t] = "write" /\ f \in Files
      /\ \A u \in Threads : u = t /\ pc'[u] = "idle"
  BY LandDoes
<1>2. PICK i \in p_bitmap, k \in 0 .. MaxLen - 1 :
                 /\ i \in Slots /\ k \in 0 .. DataCells - 1
                 /\ pData[i] = f.id
                 /\ req[t].cell = Payload(f, k)
                 /\ k <= len[f]
                 /\ len' = [len EXCEPT ![f] = IF @ < k + 1 THEN k + 1 ELSE @]
                 /\ disk'[DataCell(i, k)] = Payload(f, k)
                 /\ \A j \in Slots, l \in 0 .. DataCells - 1 : ~(j = i /\ l = k)
                       => disk'[DataCell(j, l)] = disk[DataCell(j, l)]
  BY LandDoes
<1> HIDE DEF f
<1>3. /\ k \in Nat /\ \A g \in Files : len[g] \in Nat
      /\ SizeOf(i) \in Nat /\ p_bitmap \subseteq Slots
  BY <1>2, DataHandles, InsideBlock, ConstantsAssumption DEF TypeOK, FdEntries, SizeOf
<1>4. k < SizeOf(i) /\ len[f] <= SizeOf(i)
  <2>1. Payload(f, k).at = k
    BY DEF Payload
  <2> QED BY <2>1, <1>1, <1>2 DEF StoreInv, CountInv, f
<1>5. /\ len'[f] = (IF len[f] < k + 1 THEN k + 1 ELSE len[f])
      /\ \A g \in Files : g # f => len'[g] = len[g]
  BY <1>1, <1>2 DEF TypeOK
<1>6. FreshInv'
  BY <1>1 DEF StoreInv, FreshInv, SizeOf
<1>7. CountInv'
  <2>1. ASSUME NEW g \in Files, NEW j \in p_bitmap', pData'[j] = g.id
        PROVE  len'[g] <= SizeOf(j)'
    <3>1. SizeOf(j)' = SizeOf(j)
      BY <1>1 DEF SizeOf
    <3>2. CASE g = f
      <4>1. j = i
        BY <3>2, <2>1, <1>1, <1>2 DEF SerialInv, TablesInv
      <4> QED BY <3>1, <3>2, <4>1, <1>3, <1>4, <1>5
    <3>3. CASE g # f
      BY <3>1, <3>3, <2>1, <1>1, <1>5 DEF StoreInv, CountInv
    <3> QED BY <3>2, <3>3
  <2>2. ASSUME NEW j \in Slots, NEW l \in 0 .. DataCells - 1,
               disk'[DataCell(j, l)] \in PayloadCells
        PROVE  disk'[DataCell(j, l)].at < len'[disk'[DataCell(j, l)].file]
    <3>1. CASE j = i /\ l = k
      <4>1. disk'[DataCell(j, l)].at = k /\ disk'[DataCell(j, l)].file = f
        BY <3>1, <1>2 DEF Payload
      <4> QED BY <4>1, <1>1, <1>3, <1>5
    <3>2. CASE ~(j = i /\ l = k)
      <4> DEFINE c == disk[DataCell(j, l)]
      <4>1. disk'[DataCell(j, l)] = c
        BY <3>2, <1>2
      <4>2. c \in PayloadCells /\ c.at < len[c.file]
        BY <4>1, <2>2 DEF StoreInv, CountInv
      <4>3. c.file \in Files /\ c.at \in Nat
        BY <4>2 DEF PayloadCells
      <4> HIDE DEF c
      <4>4. c.at < len'[c.file]
        BY <4>2, <4>3, <1>1, <1>3, <1>5
      <4> QED BY <4>1, <4>4
    <3> QED BY <3>1, <3>2
  <2> QED BY <2>1, <2>2, <1>1 DEF CountInv
<1>8. ReleaseInv'
  BY <1>1 DEF ReleaseInv
<1> QED BY <1>6, <1>7, <1>8 DEF StoreInv

\* A release writes the number of the file that has the block.
LEMMA PublishKeeps ==
    ASSUME SerialUse, TypeOK, SerialInv, StoreInv, NEW t \in Threads, ReleaseWrite(t)
    PROVE  StoreInv'
<1>1. /\ UNCHANGED <<p_bitmap, pData, pFd, len>>
      /\ \A u \in Threads : u = t /\ pc'[u] = "idle"
      /\ \A i \in Slots : ~Opening(i) /\ ~Opening(i)'
      /\ \A i \in Slots, k \in 0 .. DataCells - 1 :
             disk'[DataCell(i, k)] = disk[DataCell(i, k)]
  BY PublishDoes
<1>2. PICK i \in p_bitmap :
                 /\ i \in Slots /\ pData[i] = req[t].file.id
                 /\ InfoAt(i)'.b_block_id = pData[i]
                 /\ InfoAt(i)'.data = SizeOf(i)
                 /\ \A j \in Slots : j # i => InfoAt(j)' = InfoAt(j)
  BY PublishDoes
<1>3. FreshInv'
  BY <1>1, <1>2 DEF StoreInv, FreshInv, SizeOf
<1>4. CountInv'
  BY <1>1 DEF StoreInv, CountInv, SizeOf
<1>5. ReleaseInv'
  BY <1>1 DEF ReleaseInv
<1> QED BY <1>3, <1>4, <1>5 DEF StoreInv

\* On a formatted device nothing has a size.
LEMMA StoreInit ==
    ASSUME SerialUse, Init
    PROVE  StoreInv
<1>1. TypeOK /\ SerialInv /\ \A i \in Slots : ~Opening(i) /\ i \notin p_bitmap
  BY InitType, SerialInit DEF Init, Opening
<1>2. \A i \in Slots : SizeOf(i) = 0
  BY DataHandles DEF Init, SizeOf, FreshFd
<1>3. \A i \in Slots : InfoAt(i).b_block_id = NoId
  <2> SUFFICES ASSUME NEW i \in Slots
               PROVE  InfoAt(i).b_block_id = NoId
    OBVIOUS
  <2>1. InfoOffset(i) \in INFO_OFFSET .. EXTRA_OFFSET - 1
    BY ConstantsAssumption DEF InfoOffset, INFO_OFFSET, EXTRA_OFFSET, Slots
  <2>2. InfoOffset(i) \in Cells /\ InfoOffset(i) # SUPER_OFFSET /\ InfoOffset(i) # BITMAP_OFFSET
    BY HeaderCells DEF BITMAP_OFFSET
  <2> QED BY <2>1, <2>2 DEF Init, Formatted, InfoAt, BlockInfo
<1>4. \A i \in Slots, k \in 0 .. DataCells - 1 : disk[DataCell(i, k)] \notin PayloadCells
  BY <1>1 DEF SerialInv, OwnerInv
<1> QED BY <1>1, <1>2, <1>3, <1>4
        DEF StoreInv, FreshInv, CountInv, ReleaseInv, Init

\* The first start clears tables that were clear.
LEMMA MountKeeps ==
    ASSUME SerialUse, TypeOK, SerialInv, StoreInv, Mount
    PROVE  StoreInv'
<1>1. /\ p_bitmap = {} /\ \A t \in Threads : pc[t] = "idle"
      /\ \A i \in Slots : ~Opening(i)
  BY DEF Mount, SerialInv, MountInv, Opening
<1>2. UNCHANGED <<disk, pc, req, len>> /\ \A i \in Slots : ~Opening(i)'
  BY <1>1 DEF Mount, history, Opening
<1>3. p_bitmap' = {}
  <2>1. {i \in p_bitmap : ~Opening(i)} = {}
    BY <1>1
  <2>2. disk[BITMAP_OFFSET] = Bitmap({})
    BY <2>1 DEF SerialInv, BitmapInv
  <2> QED BY <2>2 DEF Mount, AsBits, Bitmap
<1>4. \A i \in Slots : SizeOf(i)' = 0
  BY DataHandles DEF Mount, FreshMemory, SizeOf, FreshFd
<1>5. FreshInv'
  BY <1>1, <1>2, <1>3, <1>4 DEF StoreInv, FreshInv, InfoAt
<1>6. CountInv'
  BY <1>1, <1>2, <1>3 DEF StoreInv, CountInv
<1>7. ReleaseInv'
  BY <1>1, <1>2 DEF ReleaseInv
<1> QED BY <1>5, <1>6, <1>7 DEF StoreInv

\* Serial copies of data files open no checksum file.
LEMMA NoMetaOpen ==
    ASSUME SerialUse, SerialInv, NEW t \in Threads
    PROVE  ~OpenMeta(t)
<1>1. pc[t] \notin {"meta_read", "meta_seek", "meta_write"}
  BY DEF SerialInv, HandlerInv
<1>2. \A f \in Files : f.kind # "meta"
  BY DataFiles
<1> QED BY <1>1, <1>2
        DEF OpenMeta, OpenMetaFound, OpenMetaSeek, OpenMetaRead, OpenMetaSeekBack,
            OpenMetaWrite

\* Every step of the program that is not stopped keeps the counts.
LEMMA StoreStep ==
    ASSUME SerialUse, TypeOK, SerialInv, StoreInv, [Next]_vars, ~Stop
    PROVE  StoreInv'
<1>1. CASE Mount
  BY <1>1, MountKeeps
<1>2. ASSUME NEW t \in Threads, Scan(t) \/ ReadData(t)
      PROVE  StoreInv'
  <2>1. Quiet /\ pc'[t] \notin {"release_write"}
    <3>1. pc'[t] # "release_write"
      BY <1>2 DEF Scan, ReadData, ScanSeekInfo, ScanReadInfo, ScanSeekBitmap, ScanReadBitmap,
                  Enter, Finish, TypeOK, HandlersOK
    <3> QED BY <1>2, <3>1, QuietSteps
  <2> QED BY <2>1, QuietKeeps, OneThread
<1>3. ASSUME NEW t \in Threads, OpenMeta(t)
      PROVE  StoreInv'
  BY <1>3, NoMetaOpen
<1>4. ASSUME NEW t \in Threads, NEW s \in Sess, NEW f \in Files,
             OpenDataFound(t, s, f) \/ OpenDataPick(t, s, f)
      PROVE  StoreInv'
  <2>1. pc'[t] # "release_write"
    BY <1>4 DEF OpenDataFound, OpenDataPick, CanOpen, Idle, Enter, TypeOK, HandlersOK
  <2>2. Quiet
    BY <1>4, QuietSteps
  <2> QED BY <2>1, <2>2, QuietKeeps, OneThread
<1>5. ASSUME NEW t \in Threads, OpenDataSet(t) \/ OpenDataWrite(t)
      PROVE  StoreInv'
  BY <1>5, SetKeeps, GiveKeeps
<1>6. ASSUME NEW t \in Threads, NEW s \in Sess, NEW k \in 0 .. MaxLen - 1, ReadSeek(t, s, k)
      PROVE  StoreInv'
  <2>1. pc'[t] # "release_write"
    BY <1>6 DEF ReadSeek, Transfer, Enter, TypeOK, HandlersOK
  <2>2. Quiet
    BY <1>6, QuietSteps
  <2> QED BY <2>1, <2>2, QuietKeeps, OneThread
<1>7. ASSUME NEW t \in Threads, NEW s \in Sess, ReleaseSeek(t, s)
      PROVE  StoreInv'
  BY <1>7, QuietSteps, CarryKeeps
<1>8. ASSUME NEW t \in Threads, WriteData(t) \/ ReleaseWrite(t)
      PROVE  StoreInv'
  BY <1>8, LandKeeps, PublishKeeps
<1>9. CASE UNCHANGED vars
  <2>1. UNCHANGED <<disk, p_bitmap, pData, pFd, pc, req, len>>
    BY <1>9 DEF vars, memory, history
  <2>2. /\ \A i \in Slots : (Opening(i)' <=> Opening(i)) /\ SizeOf(i)' = SizeOf(i)
        /\ \A i \in Slots : InfoAt(i)' = InfoAt(i)
    BY <2>1 DEF Opening, SizeOf, InfoAt
  <2>3. FreshInv'
    BY <2>1, <2>2 DEF StoreInv, FreshInv
  <2>4. CountInv'
    BY <2>1, <2>2 DEF StoreInv, CountInv, TypeOK
  <2>5. ReleaseInv'
    BY <2>1, <2>2 DEF StoreInv, ReleaseInv, TypeOK
  <2> QED BY <2>3, <2>4, <2>5 DEF StoreInv
<1> QED BY <1>1, <1>2, <1>3, <1>4, <1>5, <1>6, <1>7, <1>8, <1>9, CountKeeps
        DEF Next, OpenData, Use

-----------------------------------------------------------------------------
(* The steps in the view of a client.                                      *)

\* What a client has sent changes only with the size of the file's block.
LEMMA SentKept ==
    ASSUME View, View', NEW f \in Files, p_bitmap' = p_bitmap, pData' = pData,
           \A i \in p_bitmap : pData[i] = f.id => SizeOf(i)' = SizeOf(i)
    PROVE  SentCells(f)' = SentCells(f)
<1>1. CASE \E i \in p_bitmap : pData[i] = f.id
  <2>1. PICK i \in p_bitmap : pData[i] = f.id
    BY <1>1
  <2>2. SentCells(f) = SizeOf(i)
    BY <2>1 DEF View
  <2>3. SentCells(f)' = SizeOf(i)'
    BY <2>1 DEF View
  <2> QED BY <2>1, <2>2, <2>3
<1>2. CASE \A i \in p_bitmap : pData[i] # f.id
  <2>1. SentCells(f) = 0
    BY <1>2 DEF View
  <2>2. SentCells(f)' = 0
    BY <1>2 DEF View
  <2> QED BY <2>1, <2>2
<1> QED BY <1>1, <1>2

\* What a client finds stored changes only with the length.
LEMMA StoredKept ==
    ASSUME View, View', NEW f \in Files, len'[f] = len[f]
    PROVE  Cardinality(StoredCells(f))' = Cardinality(StoredCells(f))
BY DEF View

\* What a stat answers changes only with the block_info of the file's block.
LEMMA DiskKept ==
    ASSUME View, View', NEW f \in Files, p_bitmap' = p_bitmap, pData' = pData,
           \A i \in p_bitmap : pData[i] = f.id =>
               InfoAt(i)' = InfoAt(i) /\ (Opening(i)' <=> Opening(i))
    PROVE  DiskLength(f)' = DiskLength(f)
<1>1. CASE \E i \in p_bitmap : pData[i] = f.id /\ ~Opening(i) /\ InfoAt(i).b_block_id = f.id
  <2>1. PICK i \in p_bitmap : pData[i] = f.id /\ ~Opening(i) /\ InfoAt(i).b_block_id = f.id
    BY <1>1
  <2>2. DiskLength(f) = InfoAt(i).data
    BY <2>1 DEF View
  <2>3. DiskLength(f)' = InfoAt(i)'.data
    BY <2>1 DEF View
  <2> QED BY <2>1, <2>2, <2>3
<1>2. CASE \A i \in p_bitmap : pData[i] = f.id => Opening(i) \/ InfoAt(i).b_block_id # f.id
  <2>1. DiskLength(f) = 0
    BY <1>2 DEF View
  <2>2. DiskLength(f)' = 0
    BY <1>2 DEF View
  <2> QED BY <2>1, <2>2
<1> QED BY <1>1, <1>2

\* A client notices nothing of a step that leaves cells, numbers and sizes alone.
LEMMA Unnoticed ==
    ASSUME View, View', UNCHANGED <<p_bitmap, pData, len>>, p_bitmap \subseteq Slots,
           \A i \in Slots : /\ SizeOf(i)' = SizeOf(i)
                            /\ InfoAt(i)' = InfoAt(i)
                            /\ Opening(i)' <=> Opening(i)
    PROVE  UNCHANGED Store!store
<1>1. ASSUME NEW f \in Files
      PROVE  /\ SentCells(f)' = SentCells(f)
             /\ Cardinality(StoredCells(f))' = Cardinality(StoredCells(f))
             /\ DiskLength(f)' = DiskLength(f)
  BY SentKept, StoredKept, DiskKept
<1> QED BY <1>1 DEF Store!store

\* A client notices nothing when a block is taken for a file without cells.
LEMMA SetUnnoticed ==
    ASSUME SerialUse, TypeOK, SerialInv, StoreInv, View, View',
           NEW t \in Threads, OpenDataSet(t)
    PROVE  UNCHANGED Store!store
<1>1. /\ UNCHANGED <<disk, len>>
      /\ \A i \in Slots : SizeOf(i)' = SizeOf(i) /\ ~Opening(i)
  BY SetDoes
<1>2. PICK b \in Slots \ p_bitmap, f \in Files :
         /\ \A i \in Slots : pData[i] # f.id
         /\ p_bitmap' = p_bitmap \cup {b}
         /\ pData' = [pData EXCEPT ![b] = f.id]
         /\ \A i \in Slots : Opening(i)' <=> i = b
  BY SetDoes
<1>3. /\ pData'[b] = f.id /\ \A i \in Slots : i # b => pData'[i] = pData[i]
      /\ p_bitmap \subseteq Slots /\ p_bitmap' \subseteq Slots
  BY <1>2 DEF TypeOK
<1>4. \A i \in Slots : InfoAt(i)' = InfoAt(i)
  BY <1>1 DEF InfoAt
<1>5. ASSUME NEW g \in Files
      PROVE  /\ SentCells(g)' = SentCells(g)
             /\ Cardinality(StoredCells(g))' = Cardinality(StoredCells(g))
             /\ DiskLength(g)' = DiskLength(g)
  <2>1. Cardinality(StoredCells(g))' = Cardinality(StoredCells(g))
    BY <1>1, StoredKept
  <2>2. CASE g = f
    <3>1. SentCells(g) = 0 /\ DiskLength(g) = 0
      BY <2>2, <1>2, <1>3 DEF View
    <3>2. SizeOf(b) = 0
      BY DEF StoreInv, FreshInv
    <3>3. SentCells(g)' = SizeOf(b)'
      BY <2>2, <1>2, <1>3 DEF View
    <3>4. \A i \in p_bitmap' : pData'[i] = g.id => Opening(i)'
      BY <2>2, <1>2, <1>3
    <3>5. DiskLength(g)' = 0
      BY <3>4 DEF View
    <3> QED BY <2>1, <3>1, <3>2, <3>3, <3>5, <1>1
  <2>3. CASE g # f
    <3>1. \A i \in p_bitmap' : pData'[i] = g.id =>
                i # b /\ i \in p_bitmap /\ pData[i] = g.id /\ i \in Slots
      BY <2>3, <1>2, <1>3, DataFiles
    <3>2. CASE \E i \in p_bitmap : pData[i] = g.id
      <4>1. PICK i \in p_bitmap : pData[i] = g.id
        BY <3>2
      <4>2. i \in p_bitmap' /\ pData'[i] = g.id /\ i \in Slots /\ i # b
        BY <4>1, <1>2, <1>3
      <4>3. SentCells(g) = SizeOf(i) /\ SentCells(g)' = SizeOf(i)'
        BY <4>1, <4>2 DEF View
      <4>4. DiskLength(g)' = DiskLength(g)
        <5>1. CASE InfoAt(i).b_block_id = g.id
          <6>1. DiskLength(g) = InfoAt(i).data
            BY <5>1, <4>1, <4>2, <1>1 DEF View
          <6>2. DiskLength(g)' = InfoAt(i)'.data
            BY <5>1, <4>2, <1>2, <1>4 DEF View
          <6> QED BY <6>1, <6>2, <4>2, <1>4
        <5>2. CASE InfoAt(i).b_block_id # g.id
          <6>1. \A j \in p_bitmap : pData[j] = g.id => j = i
            BY <4>1 DEF SerialInv, TablesInv
          <6>2. DiskLength(g) = 0
            BY <5>2, <6>1 DEF View
          <6>3. DiskLength(g)' = 0
            BY <5>2, <6>1, <3>1, <4>2, <1>4 DEF View
          <6> QED BY <6>2, <6>3
        <5> QED BY <5>1, <5>2
      <4> QED BY <2>1, <4>2, <4>3, <4>4, <1>1
    <3>3. CASE \A i \in p_bitmap : pData[i] # g.id
      <4>1. \A i \in p_bitmap' : pData'[i] # g.id
        BY <3>1, <3>3
      <4>2. SentCells(g) = 0 /\ DiskLength(g) = 0
        BY <3>3 DEF View
      <4>3. SentCells(g)' = 0 /\ DiskLength(g)' = 0
        BY <4>1 DEF View
      <4> QED BY <2>1, <4>2, <4>3
    <3> QED BY <3>2, <3>3
  <2> QED BY <2>2, <2>3
<1> QED BY <1>5 DEF Store!store

\* Nor when the device gives it away, with no number in its block_info yet.
LEMMA GiveUnnoticed ==
    ASSUME SerialUse, TypeOK, SerialInv, StoreInv, View, View',
           NEW t \in Threads, OpenDataWrite(t)
    PROVE  UNCHANGED Store!store
<1>1. /\ UNCHANGED <<p_bitmap, pData, pFd, len>>
      /\ \A i \in Slots : ~Opening(i)'
      /\ \A i \in Slots : InfoAt(i)' = InfoAt(i)
  BY GiveDoes
<1>2. ASSUME NEW f \in Files
      PROVE  /\ SentCells(f)' = SentCells(f)
             /\ Cardinality(StoredCells(f))' = Cardinality(StoredCells(f))
             /\ DiskLength(f)' = DiskLength(f)
  <2>1. SentCells(f)' = SentCells(f)
    BY <1>1, SentKept DEF SizeOf
  <2>2. Cardinality(StoredCells(f))' = Cardinality(StoredCells(f))
    BY <1>1, StoredKept
  <2>3. p_bitmap \subseteq Slots
    BY DEF TypeOK
  <2>4. \A i \in p_bitmap : pData[i] = f.id /\ Opening(i) => InfoAt(i).b_block_id # f.id
    BY <2>3, DataFiles DEF StoreInv, FreshInv
  <2>5. DiskLength(f)' = DiskLength(f)
    <3>1. CASE \E i \in p_bitmap : pData[i] = f.id /\ InfoAt(i).b_block_id = f.id
      <4>1. PICK i \in p_bitmap : pData[i] = f.id /\ InfoAt(i).b_block_id = f.id
        BY <3>1
      <4>2. DiskLength(f) = InfoAt(i).data
        BY <4>1, <2>4 DEF View
      <4>3. DiskLength(f)' = InfoAt(i)'.data
        BY <4>1, <2>3, <1>1 DEF View
      <4> QED BY <4>1, <4>2, <4>3, <2>3, <1>1
    <3>2. CASE \A i \in p_bitmap : pData[i] = f.id => InfoAt(i).b_block_id # f.id
      <4>1. DiskLength(f) = 0
        BY <3>2 DEF View
      <4>2. DiskLength(f)' = 0
        BY <3>2, <2>3, <1>1 DEF View
      <4> QED BY <4>1, <4>2
    <3> QED BY <3>1, <3>2
  <2> QED BY <2>1, <2>2, <2>5
<1> QED BY <1>2 DEF Store!store

\* The count of a write is an accepted cell.
LEMMA CountAccepts ==
    ASSUME SerialUse, TypeOK, SerialInv, View, View', NEW t \in Threads, NEW s \in Sess,
           NEW k \in 0 .. MaxLen - 1, WriteSeek(t, s, k)
    PROVE  \E f \in Files : Store!Accept(f)
<1>1. /\ UNCHANGED <<disk, p_bitmap, pData, len>>
      /\ \A i \in Slots : ~Opening(i) /\ ~Opening(i)'
  BY CountDoes
<1>2. PICK i \in p_bitmap, f \in Files :
                 /\ i \in Slots /\ pData[i] = f.id
                 /\ SizeOf(i)' = SizeOf(i) + 1
                 /\ \A j \in Slots : j # i => SizeOf(j)' = SizeOf(j)
  BY CountDoes
<1>3. p_bitmap \subseteq Slots /\ \A j \in Slots : InfoAt(j)' = InfoAt(j)
  BY <1>1 DEF TypeOK, InfoAt
<1>4. SentCells(f)' = SentCells(f) + 1
  <2>1. SentCells(f) = SizeOf(i)
    BY <1>2 DEF View
  <2>2. SentCells(f)' = SizeOf(i)'
    BY <1>1, <1>2 DEF View
  <2> QED BY <1>2, <2>1, <2>2
<1>5. \A g \in Files : g # f => SentCells(g)' = SentCells(g)
  <2> SUFFICES ASSUME NEW g \in Files, g # f
               PROVE  SentCells(g)' = SentCells(g)
    OBVIOUS
  <2>1. \A j \in p_bitmap : pData[j] = g.id => SizeOf(j)' = SizeOf(j)
    BY <1>2, <1>3, DataFiles
  <2> QED BY <2>1, <1>1, SentKept
<1>6. ASSUME NEW g \in Files
      PROVE  /\ Cardinality(StoredCells(g))' = Cardinality(StoredCells(g))
             /\ DiskLength(g)' = DiskLength(g)
  BY <1>1, <1>3, StoredKept, DiskKept
<1>7. [g \in Files |-> SentCells(g)]' = [[g \in Files |-> SentCells(g)] EXCEPT ![f] = @ + 1]
  BY <1>2, <1>4, <1>5
<1>8. /\ [g \in Files |-> Cardinality(StoredCells(g))]' = [g \in Files |-> Cardinality(StoredCells(g))]
      /\ [g \in Files |-> DiskLength(g)]' = [g \in Files |-> DiskLength(g)]
  BY <1>6
<1> QED BY <1>2, <1>7, <1>8 DEF Store!Accept

\* The transfer of a write lands a counted cell at the end of its file, or repeats
\* one that is there.
LEMMA LandLands ==
    ASSUME SerialUse, TypeOK, SerialInv, StoreInv, View, View',
           NEW t \in Threads, WriteData(t)
    PROVE  [\E f \in Files : Store!Land(f)]_(Store!store)
<1>0. PICK f \in Files : f = req[t].file
  BY LandDoes
<1>1. /\ UNCHANGED <<p_bitmap, pData, pFd>>
      /\ \A i \in Slots : ~Opening(i) /\ ~Opening(i)' /\ InfoAt(i)' = InfoAt(i)
      /\ pc[t] = "write" /\ f \in Files
  BY <1>0, LandDoes
<1>2. PICK i \in p_bitmap, k \in 0 .. MaxLen - 1 :
                 /\ i \in Slots /\ pData[i] = f.id
                 /\ req[t].cell = Payload(f, k)
                 /\ k <= len[f]
                 /\ len' = [len EXCEPT ![f] = IF @ < k + 1 THEN k + 1 ELSE @]
  BY <1>0, LandDoes
<1>3. k \in Nat /\ len[f] \in Nat /\ SizeOf(i) \in Nat /\ p_bitmap \subseteq Slots
  BY <1>1, <1>2, DataHandles, InsideBlock, ConstantsAssumption
     DEF TypeOK, FdEntries, SizeOf
<1>4. k < SizeOf(i)
  <2>1. Payload(f, k).at = k
    BY DEF Payload
  <2> QED BY <2>1, <1>0, <1>1, <1>2 DEF StoreInv, CountInv
<1>5. SentCells(f) = SizeOf(i)
  BY <1>1, <1>2 DEF View
<1>6. /\ len'[f] = (IF len[f] < k + 1 THEN k + 1 ELSE len[f])
      /\ \A g \in Files : g # f => len'[g] = len[g]
  BY <1>1, <1>2 DEF TypeOK
<1>7. \A j \in Slots : SizeOf(j)' = SizeOf(j)
  BY <1>1 DEF SizeOf
<1>8. ASSUME NEW g \in Files
      PROVE  SentCells(g)' = SentCells(g) /\ DiskLength(g)' = DiskLength(g)
  BY <1>1, <1>3, <1>7, SentKept, DiskKept
<1>9. /\ [g \in Files |-> SentCells(g)]' = [g \in Files |-> SentCells(g)]
      /\ [g \in Files |-> DiskLength(g)]' = [g \in Files |-> DiskLength(g)]
  BY <1>8
<1>10. \A g \in Files : g # f => Cardinality(StoredCells(g))' = Cardinality(StoredCells(g))
  BY <1>6, StoredKept
<1>11. Cardinality(StoredCells(f)) = len[f] /\ Cardinality(StoredCells(f))' = len'[f]
  BY <1>1 DEF View
<1>12. CASE k = len[f]
  <2>1. Cardinality(StoredCells(f))' = Cardinality(StoredCells(f)) + 1
    BY <1>3, <1>6, <1>11, <1>12
  <2>2. [g \in Files |-> Cardinality(StoredCells(g))]'
            = [[g \in Files |-> Cardinality(StoredCells(g))] EXCEPT ![f] = @ + 1]
    BY <2>1, <1>1, <1>10
  <2>3. Cardinality(StoredCells(f)) < SentCells(f)
    BY <1>3, <1>4, <1>5, <1>11, <1>12
  <2> QED BY <2>2, <2>3, <1>1, <1>9 DEF Store!Land
<1>13. CASE k # len[f]
  <2>1. Cardinality(StoredCells(f))' = Cardinality(StoredCells(f))
    BY <1>2, <1>3, <1>6, <1>11, <1>13
  <2>2. [g \in Files |-> Cardinality(StoredCells(g))]' = [g \in Files |-> Cardinality(StoredCells(g))]
    BY <2>1, <1>10
  <2> QED BY <2>2, <1>9 DEF Store!store
<1> QED BY <1>12, <1>13

\* The block_info that a release writes publishes what was counted.
LEMMA PublishPublishes ==
    ASSUME SerialUse, TypeOK, SerialInv, StoreInv, View, View',
           NEW t \in Threads, ReleaseWrite(t)
    PROVE  \E f \in Files : Store!Publish(f)
<1>0. PICK f \in Files : f = req[t].file
  BY PublishDoes
<1>1. /\ UNCHANGED <<p_bitmap, pData, pFd, len>>
      /\ f \in Files
      /\ \A i \in Slots : ~Opening(i) /\ ~Opening(i)'
  BY <1>0, PublishDoes
<1>2. PICK i \in p_bitmap :
                 /\ i \in Slots /\ pData[i] = f.id
                 /\ InfoAt(i)'.b_block_id = pData[i]
                 /\ InfoAt(i)'.data = SizeOf(i)
                 /\ \A j \in Slots : j # i => InfoAt(j)' = InfoAt(j)
  BY <1>0, PublishDoes
<1>3. p_bitmap \subseteq Slots /\ \A j \in Slots : SizeOf(j)' = SizeOf(j)
  BY <1>1 DEF TypeOK, SizeOf
<1>4. SentCells(f) = SizeOf(i)
  BY <1>1, <1>2 DEF View
<1>5. DiskLength(f)' = InfoAt(i)'.data
  BY <1>1, <1>2 DEF View
<1>6. \A g \in Files : g # f => DiskLength(g)' = DiskLength(g)
  <2> SUFFICES ASSUME NEW g \in Files, g # f
               PROVE  DiskLength(g)' = DiskLength(g)
    OBVIOUS
  <2>1. \A j \in p_bitmap : pData[j] = g.id =>
           InfoAt(j)' = InfoAt(j) /\ (Opening(j)' <=> Opening(j))
    BY <1>1, <1>2, <1>3, DataFiles
  <2> QED BY <2>1, <1>1, DiskKept
<1>7. ASSUME NEW g \in Files
      PROVE  /\ SentCells(g)' = SentCells(g)
             /\ Cardinality(StoredCells(g))' = Cardinality(StoredCells(g))
  BY <1>1, <1>3, SentKept, StoredKept
<1>8. [g \in Files |-> DiskLength(g)]'
         = [[g \in Files |-> DiskLength(g)] EXCEPT ![f] = [g \in Files |-> SentCells(g)][f]]
  BY <1>1, <1>2, <1>4, <1>5, <1>6
<1>9. /\ [g \in Files |-> SentCells(g)]' = [g \in Files |-> SentCells(g)]
      /\ [g \in Files |-> Cardinality(StoredCells(g))]' = [g \in Files |-> Cardinality(StoredCells(g))]
  BY <1>7
<1> QED BY <1>1, <1>8, <1>9 DEF Store!Publish

\* Every step of the file system is a step of the store or none at all.
LEMMA StoreMaps ==
    ASSUME SerialUse, TypeOK, SerialInv, StoreInv, View, View', [Next]_vars, ~Stop
    PROVE  [Store!Next]_(Store!store)
<1>1. ASSUME Quiet
      PROVE  UNCHANGED Store!store
  <2>1. UNCHANGED <<p_bitmap, pData, len>> /\ p_bitmap \subseteq Slots
    BY <1>1 DEF Quiet, TypeOK
  <2>2. \A i \in Slots : /\ SizeOf(i)' = SizeOf(i)
                         /\ InfoAt(i)' = InfoAt(i)
                         /\ Opening(i)' <=> Opening(i)
    BY <1>1 DEF Quiet, InfoAt
  <2> QED BY <2>1, <2>2, Unnoticed
<1>2. CASE Mount
  <2>1. \A f \in Files : SentCells(f) = 0 /\ DiskLength(f) = 0
    BY <1>2 DEF View, Mount, SerialInv, MountInv
  <2>2. p_bitmap' = {} /\ len' = len
    <3>1. p_bitmap = {} /\ {i \in p_bitmap : ~Opening(i)} = {}
      BY <1>2 DEF Mount, SerialInv, MountInv
    <3>2. disk[BITMAP_OFFSET] = Bitmap({})
      BY <3>1 DEF SerialInv, BitmapInv
    <3> QED BY <3>2, <1>2 DEF Mount, AsBits, Bitmap, history
  <2>3. ASSUME NEW f \in Files
        PROVE  SentCells(f)' = 0 /\ DiskLength(f)' = 0
    <3>1. \A i \in p_bitmap' : FALSE
      BY <2>2
    <3> QED BY <3>1 DEF View
  <2>4. \A f \in Files : Cardinality(StoredCells(f))' = Cardinality(StoredCells(f))
    BY <2>2, StoredKept
  <2>5. UNCHANGED Store!store
    BY <2>1, <2>3, <2>4 DEF Store!store
  <2> QED BY <2>5
<1>3. ASSUME NEW t \in Threads,
             \/ Scan(t) \/ ReadData(t)
             \/ \E s \in Sess, f \in Files : OpenDataFound(t, s, f) \/ OpenDataPick(t, s, f)
             \/ \E s \in Sess, k \in 0 .. MaxLen - 1 : ReadSeek(t, s, k)
             \/ \E s \in Sess : ReleaseSeek(t, s)
      PROVE  UNCHANGED Store!store
  BY <1>1, <1>3, QuietSteps
<1>4. ASSUME NEW t \in Threads, OpenDataSet(t) \/ OpenDataWrite(t)
      PROVE  UNCHANGED Store!store
  BY <1>4, SetUnnoticed, GiveUnnoticed
<1>5. ASSUME NEW t \in Threads, NEW s \in Sess, NEW k \in 0 .. MaxLen - 1, WriteSeek(t, s, k)
      PROVE  Store!Next
  BY <1>5, CountAccepts DEF Store!Next
<1>6. ASSUME NEW t \in Threads, WriteData(t)
      PROVE  [Store!Next]_(Store!store)
  BY <1>6, LandLands DEF Store!Next
<1>7. ASSUME NEW t \in Threads, ReleaseWrite(t)
      PROVE  Store!Next
  BY <1>7, PublishPublishes DEF Store!Next
<1>8. CASE UNCHANGED vars
  <2>1. UNCHANGED <<disk, p_bitmap, pData, pFd, pc, req, len>>
    BY <1>8 DEF vars, memory, history
  <2>2. /\ \A i \in Slots : (Opening(i)' <=> Opening(i)) /\ SizeOf(i)' = SizeOf(i)
        /\ \A i \in Slots : InfoAt(i)' = InfoAt(i)
    BY <2>1 DEF Opening, SizeOf, InfoAt
  <2>3. UNCHANGED Store!store
    BY <2>1, <2>2, Unnoticed DEF TypeOK
  <2> QED BY <2>3
<1>9. ASSUME NEW t \in Threads, OpenMeta(t)
       PROVE  FALSE
  BY <1>9, NoMetaOpen
<1> QED
  <2> SUFFICES ASSUME NEW t \in Threads, Scan(t) \/ OpenData(t) \/ Use(t)
               PROVE  [Store!Next]_(Store!store)
    BY <1>2, <1>8, <1>9 DEF Next
  <2>1. CASE Scan(t)
    BY <2>1, <1>3
  <2>2. CASE OpenData(t)
    BY <2>2, <1>3, <1>4 DEF OpenData
  <2>3. CASE Use(t)
    BY <2>3, <1>3, <1>5, <1>6, <1>7 DEF Use
  <2> QED BY <2>1, <2>2, <2>3

\* A formatted device is an empty store.
LEMMA StoreStarts ==
    ASSUME SerialUse, Init
    PROVE  Store!Init
<1>1. View
  BY InitType, SerialInit, StoreInit, ViewIs
<1>2. ASSUME NEW f \in Files
      PROVE  SentCells(f) = 0 /\ Cardinality(StoredCells(f)) = 0 /\ DiskLength(f) = 0
  <2>1. p_bitmap = {} /\ len[f] = 0
    BY DEF Init
  <2> QED BY <2>1, <1>1 DEF View
<1> QED BY <1>2 DEF Store!Init

\* In serial copies a client sees the abstract store: only its own writes add cells
\* to a file, no cell is stored that was not counted, and only a release changes
\* the length that a stat reports, to the number of cells counted.
THEOREM SerialStore == SerialDataCopies => (Spec => ImplementsStore)
<1> SUFFICES ASSUME SerialDataCopies, SerialUse
             PROVE  Spec => ImplementsStore
  BY DEF SerialDataCopies
<1>1. Init => StoreInv /\ Store!Init
  BY StoreInit, StoreStarts
<1>2. TypeOK /\ SerialInv /\ StoreInv /\ [Next]_vars => StoreInv'
  BY StoreStep, NeverStops
<1>3. TypeOK /\ SerialInv /\ StoreInv => View
  BY ViewIs
<1>4. TypeOK /\ SerialInv /\ StoreInv /\ View /\ View' /\ [Next]_vars
         => [Store!Next]_(Store!store)
  BY StoreMaps, NeverStops
<1> QED BY <1>1, <1>2, <1>3, <1>4, TypeCorrect, SerialCorrect, PTL
        DEF Spec, ImplementsStore, Store!Spec

-----------------------------------------------------------------------------
(* Files that are only appended to: the size of a handle is a length.      *)

AppendedInv == LengthInv /\ AppendInv /\ PublishedInv

\* While no handler is in a transfer, no file is being written.
LEMMA NotWriting ==
    ASSUME \A t \in Threads : pc[t] # "write"
    PROVE  \A f \in Files : ~Writing(f)
BY DEF Writing

\* Steps that move no data keep sizes, lengths and what was published.
LEMMA QuietAppends ==
    ASSUME TypeOK, AppendedInv, Quiet
    PROVE  AppendedInv'
<1>1. /\ \A f \in Files : ~Writing(f) /\ ~Writing(f)'
      /\ p_bitmap \subseteq Slots
  BY DEF Quiet, Writing, TypeOK
<1>2. LengthInv'
  BY <1>1 DEF AppendedInv, LengthInv, Quiet
<1>3. AppendInv'
  BY DEF AppendInv, Quiet
<1>4. PublishedInv'
  BY <1>1 DEF AppendedInv, PublishedInv, Quiet, InfoAt
<1> QED BY <1>2, <1>3, <1>4 DEF AppendedInv

\* A block is taken with no size, for a file of no cells.
LEMMA SetAppends ==
    ASSUME SerialUse, TypeOK, SerialInv, StoreInv, AppendedInv,
           NEW t \in Threads, OpenDataSet(t)
    PROVE  AppendedInv'
<1>1. /\ UNCHANGED <<disk, len, published>>
      /\ \A i \in Slots : SizeOf(i)' = SizeOf(i) /\ ~Opening(i)
      /\ \A u \in Threads : pc[u] = "data_set" /\ pc'[u] = "data_write"
  BY SetDoes
<1>2. PICK b \in Slots \ p_bitmap, f \in Files :
         /\ \A i \in Slots : pData[i] # f.id
         /\ p_bitmap' = p_bitmap \cup {b}
         /\ pData' = [pData EXCEPT ![b] = f.id]
         /\ \A i \in Slots : Opening(i)' <=> i = b
  BY SetDoes
<1>3. /\ pData'[b] = f.id /\ \A i \in Slots : i # b => pData'[i] = pData[i]
      /\ p_bitmap \subseteq Slots /\ p_bitmap' \subseteq Slots
  BY <1>2 DEF TypeOK
<1>4. \A g \in Files : ~Writing(g) /\ ~Writing(g)'
  BY <1>1 DEF Writing
<1>5. ASSUME NEW g \in Files, NEW i \in p_bitmap', pData'[i] = g.id
      PROVE  SizeOf(i)' = len'[g]
  <2>1. CASE i = b
    <3>1. g = f
      BY <2>1, <1>5, <1>3, DataFiles
    <3>2. ~(len[f] > 0) /\ len[f] \in Nat
      BY <1>2, <1>3 DEF SerialInv, DataInv, TypeOK
    <3>3. SizeOf(b) = 0
      BY DEF StoreInv, FreshInv
    <3> QED BY <2>1, <3>1, <3>2, <3>3, <1>1
  <2>2. CASE i # b
    <3>1. i \in p_bitmap /\ i \in Slots /\ pData[i] = g.id
      BY <2>2, <1>2, <1>3, <1>5
    <3>2. SizeOf(i) = len[g]
      BY <3>1, <1>4 DEF AppendedInv, LengthInv, TypeOK
    <3> QED BY <3>1, <3>2, <1>1
  <2> QED BY <2>1, <2>2
<1>6. LengthInv'
  <2>1. \A g \in Files : len'[g] + 0 = len'[g]
    BY <1>1 DEF TypeOK
  <2> QED BY <2>1, <1>4, <1>5 DEF LengthInv
<1>7. AppendInv'
  BY <1>1 DEF AppendInv
<1>8. PublishedInv'
  <2> SUFFICES ASSUME NEW g \in Files, published'[g] # NotPublished
               PROVE  \E i \in p_bitmap' : /\ ~Opening(i)' /\ pData'[i] = g.id
                                           /\ InfoAt(i)'.b_block_id = g.id
                                           /\ InfoAt(i)'.data = published'[g]
    BY DEF PublishedInv
  <2>1. PICK i \in p_bitmap : /\ ~Opening(i) /\ pData[i] = g.id
                              /\ InfoAt(i).b_block_id = g.id
                              /\ InfoAt(i).data = published[g]
    BY <1>1 DEF AppendedInv, PublishedInv
  <2>2. i \in Slots /\ i # b /\ i \in p_bitmap'
    BY <1>2, <1>3
  <2> QED BY <2>1, <2>2, <1>1, <1>2, <1>3 DEF InfoAt
<1> QED BY <1>6, <1>7, <1>8 DEF AppendedInv

\* Giving the block away changes no size and no length.
LEMMA GiveAppends ==
    ASSUME SerialUse, TypeOK, SerialInv, AppendedInv, NEW t \in Threads, OpenDataWrite(t)
    PROVE  AppendedInv'
<1>1. /\ UNCHANGED <<p_bitmap, pData, pFd, len, published>>
      /\ \A u \in Threads : pc[u] = "data_write" /\ pc'[u] = "idle"
      /\ \A i \in Slots : ~Opening(i)'
      /\ \A i \in Slots : InfoAt(i)' = InfoAt(i)
  BY GiveDoes
<1>2. /\ \A f \in Files : ~Writing(f) /\ ~Writing(f)'
      /\ p_bitmap \subseteq Slots
  BY <1>1 DEF Writing, TypeOK
<1>3. LengthInv'
  BY <1>1, <1>2 DEF AppendedInv, LengthInv, SizeOf
<1>4. AppendInv'
  BY <1>1 DEF AppendInv
<1>5. PublishedInv'
  BY <1>1, <1>2 DEF AppendedInv, PublishedInv
<1> QED BY <1>3, <1>4, <1>5 DEF AppendedInv

\* A write is counted before it is stored, and it is at the end of its file.
LEMMA CountAppends ==
    ASSUME SerialUse, ~Rewrites, TypeOK, SerialInv, AppendedInv, NEW t \in Threads,
           NEW s \in Sess, NEW k \in 0 .. MaxLen - 1, WriteSeek(t, s, k)
    PROVE  AppendedInv'
<1>1. /\ UNCHANGED <<disk, p_bitmap, pData, len, published>>
      /\ \A i \in Slots : ~Opening(i) /\ ~Opening(i)'
  BY CountDoes
<1>2. PICK i \in p_bitmap, f \in Files :
                 /\ i \in Slots /\ pData[i] = f.id
                 /\ k = len[f]
                 /\ SizeOf(i)' = SizeOf(i) + 1
                 /\ \A j \in Slots : j # i => SizeOf(j)' = SizeOf(j)
                 /\ \A u \in Threads : /\ pc[u] = "idle" /\ pc'[u] = "write"
                                        /\ req'[u].file = f /\ req'[u].cell = Payload(f, k)
  BY CountDoes
<1>3. /\ p_bitmap \subseteq Slots
      /\ \A g \in Files : len[g] \in Nat
      /\ \A j \in Slots : InfoAt(j)' = InfoAt(j)
  BY <1>1, ConstantsAssumption DEF TypeOK, InfoAt
<1>4. /\ \A g \in Files : ~Writing(g)
      /\ Writing(f)' /\ \A g \in Files : g # f => ~Writing(g)'
  BY <1>2 DEF Writing
<1>5. LengthInv'
  <2> SUFFICES ASSUME NEW g \in Files, NEW j \in p_bitmap', pData'[j] = g.id
               PROVE  SizeOf(j)' = len'[g] + (IF Writing(g)' THEN 1 ELSE 0)
    BY DEF LengthInv
  <2>1. j \in p_bitmap /\ pData[j] = g.id /\ j \in Slots
    BY <1>1, <1>3
  <2>2. SizeOf(j) = len[g]
    BY <2>1, <1>3, <1>4 DEF AppendedInv, LengthInv
  <2>3. CASE g = f
    <3>1. j = i
      BY <2>1, <2>3, <1>2 DEF SerialInv, TablesInv
    <3> QED BY <2>2, <2>3, <3>1, <1>1, <1>2, <1>4
  <2>4. CASE g # f
    <3>1. j # i
      BY <2>1, <2>4, <1>2, DataFiles
    <3> QED BY <2>1, <2>2, <2>4, <3>1, <1>1, <1>2, <1>3, <1>4
  <2> QED BY <2>3, <2>4
<1>6. AppendInv'
  <2>1. Payload(f, k).at = k
    BY DEF Payload
  <2> QED BY <2>1, <1>1, <1>2 DEF AppendInv
<1>7. PublishedInv'
  BY <1>1, <1>3 DEF AppendedInv, PublishedInv
<1> QED BY <1>5, <1>6, <1>7 DEF AppendedInv

\* The cell that arrives makes the file as long as its handle counts.
LEMMA LandAppends ==
    ASSUME SerialUse, TypeOK, SerialInv, AppendedInv, NEW t \in Threads, WriteData(t)
    PROVE  AppendedInv'
<1>0. PICK f \in Files : f = req[t].file
  BY LandDoes
<1>1. /\ UNCHANGED <<p_bitmap, pData, pFd, published>>
      /\ \A i \in Slots : ~Opening(i) /\ ~Opening(i)' /\ InfoAt(i)' = InfoAt(i)
      /\ pc[t] = "write"
      /\ \A u \in Threads : u = t /\ pc'[u] = "idle"
  BY LandDoes
<1>2. PICK i \in p_bitmap, k \in 0 .. MaxLen - 1 :
                 /\ i \in Slots /\ pData[i] = f.id
                 /\ req[t].cell = Payload(f, k)
                 /\ len' = [len EXCEPT ![f] = IF @ < k + 1 THEN k + 1 ELSE @]
  BY <1>0, LandDoes
<1>3. /\ p_bitmap \subseteq Slots /\ k \in Nat
      /\ \A g \in Files : len[g] \in Nat
  BY <1>2, InsideBlock, ConstantsAssumption DEF TypeOK
<1>4. k = len[f]
  <2>1. Payload(f, k).at = k
    BY DEF Payload
  <2> QED BY <2>1, <1>0, <1>1, <1>2 DEF AppendedInv, AppendInv
<1>5. len'[f] = len[f] + 1 /\ \A g \in Files : g # f => len'[g] = len[g]
  BY <1>2, <1>3, <1>4 DEF TypeOK
<1>6. /\ Writing(f) /\ \A g \in Files : g # f => ~Writing(g)
      /\ \A g \in Files : ~Writing(g)'
  BY <1>0, <1>1 DEF Writing
<1>7. LengthInv'
  <2> SUFFICES ASSUME NEW g \in Files, NEW j \in p_bitmap', pData'[j] = g.id
               PROVE  SizeOf(j)' = len'[g] + (IF Writing(g)' THEN 1 ELSE 0)
    BY DEF LengthInv
  <2>1. j \in p_bitmap /\ pData[j] = g.id /\ SizeOf(j)' = SizeOf(j)
    BY <1>1 DEF SizeOf
  <2>2. SizeOf(j) = len[g] + (IF Writing(g) THEN 1 ELSE 0)
    BY <2>1 DEF AppendedInv, LengthInv
  <2> QED BY <2>1, <2>2, <1>3, <1>5, <1>6
<1>8. AppendInv'
  BY <1>1 DEF AppendInv
<1>9. PublishedInv'
  BY <1>1, <1>3 DEF AppendedInv, PublishedInv
<1> QED BY <1>7, <1>8, <1>9 DEF AppendedInv

\* A release publishes the length of its file.
LEMMA PublishAppends ==
    ASSUME SerialUse, TypeOK, SerialInv, StoreInv, AppendedInv,
           NEW t \in Threads, ReleaseWrite(t)
    PROVE  AppendedInv'
<1>0. PICK f \in Files : f = req[t].file
  BY PublishDoes
<1>1. /\ UNCHANGED <<p_bitmap, pData, pFd, len>>
      /\ pc[t] = "release_write"
      /\ published' = [published EXCEPT ![f] = len[f]]
      /\ \A u \in Threads : u = t /\ pc'[u] = "idle"
      /\ \A i \in Slots : ~Opening(i) /\ ~Opening(i)'
  BY <1>0, PublishDoes
<1>2. PICK i \in p_bitmap :
                 /\ i \in Slots /\ pData[i] = f.id
                 /\ InfoAt(i)'.b_block_id = pData[i]
                 /\ InfoAt(i)'.data = SizeOf(i)
                 /\ \A j \in Slots : j # i => InfoAt(j)' = InfoAt(j)
  BY <1>0, PublishDoes
<1>3. /\ \A g \in Files : ~Writing(g) /\ ~Writing(g)'
      /\ p_bitmap \subseteq Slots
      /\ \A g \in Files : len[g] \in Nat
  BY <1>1, ConstantsAssumption DEF Writing, TypeOK
<1>4. SizeOf(i) = len[f]
  BY <1>2, <1>3 DEF AppendedInv, LengthInv
<1>5. LengthInv'
  BY <1>1, <1>3 DEF AppendedInv, LengthInv, SizeOf
<1>6. AppendInv'
  BY <1>1 DEF AppendInv
<1>7. PublishedInv'
  <2> SUFFICES ASSUME NEW g \in Files, published'[g] # NotPublished
               PROVE  \E j \in p_bitmap' : /\ ~Opening(j)' /\ pData'[j] = g.id
                                           /\ InfoAt(j)'.b_block_id = g.id
                                           /\ InfoAt(j)'.data = published'[g]
    BY DEF PublishedInv
  <2>1. CASE g = f
    <3>1. published'[g] = len[f]
      BY <2>1, <1>1 DEF TypeOK
    <3> QED BY <2>1, <3>1, <1>1, <1>2, <1>4
  <2>2. CASE g # f
    <3>1. published'[g] = published[g]
      BY <2>2, <1>1 DEF TypeOK
    <3>2. PICK j \in p_bitmap : /\ pData[j] = g.id
                                /\ InfoAt(j).b_block_id = g.id
                                /\ InfoAt(j).data = published[g]
      BY <3>1 DEF AppendedInv, PublishedInv
    <3>3. j # i /\ j \in Slots
      BY <2>2, <3>2, <1>2, <1>3, DataFiles
    <3> QED BY <3>1, <3>2, <3>3, <1>1, <1>2
  <2> QED BY <2>1, <2>2
<1> QED BY <1>5, <1>6, <1>7 DEF AppendedInv

\* The first start has nothing published yet.
LEMMA MountAppends ==
    ASSUME SerialUse, TypeOK, SerialInv, AppendedInv, Mount
    PROVE  AppendedInv'
<1>1. /\ p_bitmap = {} /\ \A t \in Threads : pc[t] = "idle"
      /\ {i \in p_bitmap : ~Opening(i)} = {}
  BY DEF Mount, SerialInv, MountInv
<1>2. disk[BITMAP_OFFSET] = Bitmap({})
  BY <1>1 DEF SerialInv, BitmapInv
<1>3. p_bitmap' = {} /\ UNCHANGED <<pc, published>>
  BY <1>2 DEF Mount, AsBits, Bitmap, history
<1>4. \A f \in Files : published[f] = NotPublished
  BY <1>1 DEF AppendedInv, PublishedInv
<1> QED BY <1>1, <1>3, <1>4 DEF AppendedInv, LengthInv, AppendInv, PublishedInv

\* Every step of the program that is not stopped keeps sizes and lengths together.
LEMMA AppendedStep ==
    ASSUME SerialUse, ~Rewrites, TypeOK, SerialInv, StoreInv, AppendedInv,
           [Next]_vars, ~Stop
    PROVE  AppendedInv'
<1>1. CASE Mount
  BY <1>1, MountAppends
<1>2. ASSUME NEW t \in Threads,
             \/ Scan(t) \/ ReadData(t)
             \/ \E s \in Sess, f \in Files : OpenDataFound(t, s, f) \/ OpenDataPick(t, s, f)
             \/ \E s \in Sess, k \in 0 .. MaxLen - 1 : ReadSeek(t, s, k)
             \/ \E s \in Sess : ReleaseSeek(t, s)
      PROVE  AppendedInv'
  BY <1>2, QuietSteps, QuietAppends
<1>3. ASSUME NEW t \in Threads, OpenDataSet(t) \/ OpenDataWrite(t)
      PROVE  AppendedInv'
  BY <1>3, SetAppends, GiveAppends
<1>4. ASSUME NEW t \in Threads, NEW s \in Sess, NEW k \in 0 .. MaxLen - 1, WriteSeek(t, s, k)
      PROVE  AppendedInv'
  BY <1>4, CountAppends
<1>5. ASSUME NEW t \in Threads, WriteData(t) \/ ReleaseWrite(t)
      PROVE  AppendedInv'
  BY <1>5, LandAppends, PublishAppends
<1>6. CASE UNCHANGED vars
  <2>1. UNCHANGED <<disk, p_bitmap, pData, pFd, pc, req, len, published>>
    BY <1>6 DEF vars, memory, history
  <2>2. /\ \A i \in Slots : (Opening(i)' <=> Opening(i)) /\ SizeOf(i)' = SizeOf(i)
        /\ \A i \in Slots : InfoAt(i)' = InfoAt(i)
        /\ \A f \in Files : Writing(f)' <=> Writing(f)
        /\ p_bitmap \subseteq Slots
    BY <2>1 DEF Opening, SizeOf, InfoAt, Writing, TypeOK
  <2>3. LengthInv'
    BY <2>1, <2>2 DEF AppendedInv, LengthInv
  <2>4. AppendInv'
    BY <2>1 DEF AppendedInv, AppendInv
  <2>5. PublishedInv'
    BY <2>1, <2>2 DEF AppendedInv, PublishedInv
  <2> QED BY <2>3, <2>4, <2>5 DEF AppendedInv
<1>7. ASSUME NEW t \in Threads, OpenMeta(t)
      PROVE  FALSE
  BY <1>7, NoMetaOpen
<1> QED
  <2> SUFFICES ASSUME NEW t \in Threads, Scan(t) \/ OpenData(t) \/ Use(t)
               PROVE  AppendedInv'
    BY <1>1, <1>6, <1>7 DEF Next
  <2>1. CASE Scan(t)
    BY <2>1, <1>2
  <2>2. CASE OpenData(t)
    BY <2>2, <1>2, <1>3 DEF OpenData
  <2>3. CASE Use(t)
    BY <2>3, <1>2, <1>4, <1>5 DEF Use
  <2> QED BY <2>1, <2>2, <2>3

\* A length that was published is the one the device answers.
LEMMA PublishedAnswered ==
    ASSUME SerialUse, TypeOK, SerialInv, StoreInv, PublishedInv
    PROVE  StatKept
BY LengthIs DEF PublishedInv, StatKept

-----------------------------------------------------------------------------
(* A kill and a new start.                                                 *)

\* What a client is owed is on the device, in terms of the device and of what was
\* acknowledged alone.
Kept == StatKept /\ NoLostData /\ BlocksMarked

\* A step that writes nothing and acknowledges nothing takes nothing away.
LEMMA DeviceKept ==
    ASSUME Kept, UNCHANGED <<disk, len, published>>
    PROVE  Kept'
<1>1. StatKept'
  BY DEF Kept, StatKept, DiskLength, DiskHits, DiskInfo
<1>2. \A i, f, k : Holds(i, f, k)' <=> Holds(i, f, k)
  BY DEF Holds, CellAt
<1>3. NoLostData'
  BY <1>2 DEF Kept, NoLostData
<1>4. \A f : BlocksOf(f)' = BlocksOf(f)
  BY <1>2 DEF BlocksOf
<1>5. BlocksMarked'
  BY <1>4 DEF Kept, BlocksMarked
<1> QED BY <1>1, <1>3, <1>5 DEF Kept

\* Only Mount and Stop start and stop the program, and no other step makes the
\* program forget that it has opened a data file.
LEMMA RunsOn ==
    ASSUME [Next]_vars, ~Mount, ~Stop
    PROVE  up' = up /\ mounts' = mounts /\ (block_id_use => block_id_use')
<1>1. ASSUME NEW t \in Threads, Scan(t)
      PROVE  UNCHANGED <<up, mounts, block_id_use>>
  BY <1>1 DEF Scan, ScanSeekInfo, ScanReadInfo, ScanSeekBitmap, ScanReadBitmap,
              memory, kernel
<1>2. ASSUME NEW t \in Threads, OpenMeta(t)
      PROVE  UNCHANGED <<up, mounts, block_id_use>>
  BY <1>2 DEF OpenMeta, OpenMetaFound, OpenMetaSeek, OpenMetaRead, OpenMetaSeekBack,
              OpenMetaWrite, memory, kernel
<1>3. ASSUME NEW t \in Threads, OpenData(t)
      PROVE  UNCHANGED <<up, mounts>> /\ (block_id_use => block_id_use')
  <2>1. CASE OpenDataSet(t)
    BY <2>1 DEF OpenDataSet, kernel
  <2>2. CASE ~OpenDataSet(t)
    <3>1. UNCHANGED <<up, mounts, block_id_use>>
      BY <1>3, <2>2 DEF OpenData, OpenDataFound, OpenDataPick, OpenDataWrite, memory, kernel
    <3> QED BY <3>1
  <2> QED BY <2>1, <2>2
<1>4. ASSUME NEW t \in Threads, Use(t)
      PROVE  UNCHANGED <<up, mounts, block_id_use>>
  BY <1>4 DEF Use, WriteSeek, ReadSeek, WriteData, ReadData, ReleaseSeek, ReleaseWrite,
              memory, kernel
<1>5. CASE UNCHANGED vars
  BY <1>5 DEF vars, memory, kernel
<1> QED BY <1>1, <1>2, <1>3, <1>4, <1>5 DEF Next

\* After a new start nothing is written before a data file is opened.
LEMMA NothingWritten ==
    ASSUME SerialUse, TypeOK, NothingOpen, ~block_id_use, ~block_id_use',
           \A t \in Threads : pc[t] \in Scanning \cup {"idle", "data_set"},
           [Next]_vars, ~Mount, ~Stop
    PROVE  /\ UNCHANGED <<disk, len, published>>
           /\ NothingOpen'
           /\ \A t \in Threads : pc'[t] \in Scanning \cup {"idle", "data_set"}
<1> DEFINE Goal == /\ UNCHANGED <<disk, len, published>>
                   /\ NothingOpen'
                   /\ \A t \in Threads : pc'[t] \in Scanning \cup {"idle", "data_set"}
<1>1. ASSUME UNCHANGED <<disk, len, published, open>>, NEW t \in Threads, NEW place, NEW r,
             Enter(t, place, r), place \in Scanning \cup {"idle", "data_set"}
      PROVE  Goal
  <2>1. \A u \in Threads : pc'[u] = place
    BY <1>1, Entered, OneThread
  <2> QED BY <1>1, <2>1 DEF NothingOpen
<1>2. ASSUME NEW t \in Threads, Scan(t)
      PROVE  Goal
  <2>1. UNCHANGED <<disk, len, published, open>>
    BY <1>2 DEF Scan, ScanSeekInfo, ScanReadInfo, ScanSeekBitmap, ScanReadBitmap,
                kernel, history
  <2>2. PICK place \in Scanning \cup {"idle"} : \E r : Enter(t, place, r)
    BY <1>2 DEF Scan, ScanSeekInfo, ScanReadInfo, ScanSeekBitmap, ScanReadBitmap,
                Finish, Scanning
  <2> QED BY <1>1, <2>1, <2>2
<1>3. ASSUME NEW t \in Threads, OpenData(t)
      PROVE  Goal
  <2>1. pc[t] # "data_write"
    BY DEF Scanning
  <2>2. ~OpenDataSet(t) /\ ~OpenDataWrite(t)
    BY <2>1 DEF OpenDataSet, OpenDataWrite
  <2>3. \A s \in Sess, f \in Files : ~OpenDataFound(t, s, f)
    BY DEF OpenDataFound, DataFound
  <2>4. PICK s \in Sess, f \in Files : OpenDataPick(t, s, f)
    BY <1>3, <2>2, <2>3 DEF OpenData
  <2>5. UNCHANGED <<disk, len, published, open>>
    BY <2>4 DEF OpenDataPick, kernel, history
  <2>6. PICK r : Enter(t, "data_set", r)
    BY <2>4 DEF OpenDataPick
  <2> QED BY <1>1, <2>5, <2>6
<1>4. ASSUME NEW t \in Threads, OpenMeta(t) \/ Use(t)
      PROVE  FALSE
  <2>1. pc[t] \notin {"meta_read", "meta_seek", "meta_write", "write", "read", "release_write"}
    BY DEF Scanning
  <2>2. \A f \in Files : f.kind # "meta"
    BY DataFiles
  <2>3. ~OpenMeta(t)
    BY <2>1, <2>2 DEF OpenMeta, OpenMetaFound, OpenMetaSeek, OpenMetaRead,
                      OpenMetaSeekBack, OpenMetaWrite
  <2>4. ~Use(t)
    BY <2>1 DEF Use, WriteSeek, ReadSeek, ReleaseSeek, CanUse, NothingOpen,
                WriteData, ReadData, ReleaseWrite
  <2> QED BY <1>4, <2>3, <2>4
<1>5. CASE UNCHANGED vars
  BY <1>5 DEF vars, kernel, history, NothingOpen
<1> QED BY <1>2, <1>3, <1>4, <1>5 DEF Next

\* What holds in the first start, when the program is killed, and after it.
LEMMA RestartStep ==
    ASSUME RestartedCopies, SerialUse, TypeOK, RestartInv, [Next]_vars
    PROVE  RestartInv'
<1>1. CASE FirstStart /\ ~Stop
  <2>1. SerialInv /\ StoreInv /\ AppendedInv
    BY <1>1 DEF RestartInv, AppendedInv
  <2>2. SerialInv' /\ StoreInv' /\ AppendedInv'
    BY <1>1, <2>1, SerialStep, StoreStep, AppendedStep DEF RestartedCopies
  <2>3. FirstStart'
    <3>1. CASE Mount
      BY <3>1, <2>1 DEF Mount, SerialInv, MountInv, FirstStart
    <3>2. CASE ~Mount
      BY <3>2, <1>1, RunsOn DEF FirstStart
    <3> QED BY <3>1, <3>2
  <2> QED BY <2>2, <2>3 DEF RestartInv, AppendedInv, KeptInv
<1>2. CASE FirstStart /\ Stop
  <2>1. SerialInv /\ StoreInv /\ PublishedInv
    BY <1>2 DEF RestartInv
  <2>2. Kept
    BY <2>1, PublishedAnswered, NothingLost, MarkedOnDevice DEF Kept
  <2>3. UNCHANGED <<disk, mounts, len, published>>
    BY <1>2 DEF Stop, history
  <2>4. Kept'
    BY <2>2, <2>3, DeviceKept
  <2>5. mounts' = 1 /\ ~up' /\ ~block_id_use'
    BY <1>2, <2>1, <2>3 DEF Stop, SerialInv, MountInv, FreshMemory
  <2>6. /\ NothingOpen'
        /\ \A t \in Threads : pc'[t] = "idle"
    BY <1>2 DEF Stop, NothingOpen, Closed
  <2>7. KeptInv'
    BY <2>4, <2>5, <2>6 DEF KeptInv, Kept, Alone
  <2> QED BY <2>5, <2>7 DEF RestartInv, FirstStart
<1>3. CASE ~FirstStart /\ Mount
  <2>1. /\ mounts = 1 /\ ~block_id_use /\ Alone /\ Kept /\ NothingOpen
    BY <1>3 DEF RestartInv, KeptInv, Kept, Mount, RestartedCopies
  <2>2. /\ UNCHANGED <<disk, len, published, pc, open>> /\ mounts' = 2 /\ ~block_id_use'
    BY <1>3, <2>1 DEF Mount, FreshMemory, history
  <2>3. Kept'
    BY <2>1, <2>2, DeviceKept
  <2>4. NothingOpen' /\ \A t \in Threads : pc'[t] = "idle"
    BY <2>1, <2>2 DEF NothingOpen, Alone
  <2> QED BY <2>2, <2>3, <2>4 DEF RestartInv, KeptInv, FirstStart, Kept
<1>4. CASE ~FirstStart /\ ~Mount
  <2>1. ~Stop
    BY <1>4 DEF RestartInv, KeptInv, Stop, RestartedCopies
  <2>2. up' = up /\ mounts' = mounts /\ (block_id_use => block_id_use') /\ ~FirstStart'
    BY <1>4, <2>1, RunsOn DEF FirstStart
  <2>3. CASE mounts = 1
    <3>1. ~up /\ ~block_id_use /\ Alone
      BY <1>4, <2>3 DEF RestartInv, KeptInv
    <3>2. UNCHANGED vars
      <4>1. \A t \in Threads : ~Idle(t) /\ pc[t] = "idle"
        BY <3>1 DEF Idle, Alone
      <4>2. \A t \in Threads : ~Scan(t) /\ ~OpenMeta(t) /\ ~OpenData(t) /\ ~Use(t)
        <5> SUFFICES ASSUME NEW t \in Threads
                     PROVE  ~Scan(t) /\ ~OpenMeta(t) /\ ~OpenData(t) /\ ~Use(t)
          OBVIOUS
        <5>1. ~Scan(t)
          BY <4>1 DEF Scan, ScanSeekInfo, ScanReadInfo, ScanSeekBitmap, ScanReadBitmap
        <5>2. ~OpenMeta(t)
          BY <4>1 DEF OpenMeta, OpenMetaFound, OpenMetaSeek, OpenMetaRead, OpenMetaSeekBack,
                      OpenMetaWrite, CanOpen
        <5>3. ~OpenData(t)
          BY <4>1 DEF OpenData, OpenDataFound, OpenDataPick, OpenDataSet, OpenDataWrite, CanOpen
        <5>4. ~Use(t)
          BY <4>1 DEF Use, WriteSeek, ReadSeek, WriteData, ReadData, ReleaseSeek, ReleaseWrite,
                      CanUse
        <5> QED BY <5>1, <5>2, <5>3, <5>4
      <4> QED BY <1>4, <2>1, <4>2 DEF Next
    <3>3. Kept /\ NothingOpen
      BY <1>4, <3>1 DEF RestartInv, KeptInv, Kept
    <3>4. UNCHANGED <<disk, len, published, pc, open, block_id_use>>
      BY <3>2 DEF vars, memory, kernel, history
    <3>5. Kept'
      BY <3>3, <3>4, DeviceKept
    <3>6. NothingOpen' /\ Alone' /\ \A t \in Threads : pc'[t] = "idle"
      BY <3>1, <3>3, <3>4 DEF NothingOpen, Alone
    <3> QED BY <2>2, <2>3, <3>1, <3>4, <3>5, <3>6 DEF RestartInv, KeptInv, Kept
  <2>4. CASE mounts # 1
    <3>1. mounts = 2
      BY <1>4, <2>4 DEF RestartInv, KeptInv
    <3>2. CASE block_id_use'
      BY <2>2, <3>1, <3>2 DEF RestartInv, KeptInv
    <3>3. CASE ~block_id_use'
      <4>1. /\ ~block_id_use /\ Kept /\ NothingOpen
            /\ \A t \in Threads : pc[t] \in Scanning \cup {"idle", "data_set"}
        BY <1>4, <2>2, <3>3 DEF RestartInv, KeptInv, Kept
      <4>2. /\ UNCHANGED <<disk, len, published>>
            /\ NothingOpen'
            /\ \A t \in Threads : pc'[t] \in Scanning \cup {"idle", "data_set"}
        BY <1>4, <2>1, <3>3, <4>1, NothingWritten
      <4>3. Kept'
        BY <4>1, <4>2, DeviceKept
      <4> QED BY <2>2, <3>1, <4>2, <4>3 DEF RestartInv, KeptInv, Kept
    <3> QED BY <3>2, <3>3
  <2> QED BY <2>3, <2>4
<1> QED BY <1>1, <1>2, <1>3, <1>4

\* The invariant of a program that is killed and started again.
LEMMA RestartCorrect == RestartedCopies => (Spec => [](TypeOK /\ RestartInv))
<1> SUFFICES ASSUME RestartedCopies, SerialUse
             PROVE  Spec => [](TypeOK /\ RestartInv)
  BY DEF RestartedCopies
<1>1. Init => TypeOK /\ RestartInv
  <2> SUFFICES ASSUME Init
               PROVE  TypeOK /\ RestartInv
    OBVIOUS
  <2>1. TypeOK /\ SerialInv /\ StoreInv
    BY InitType, SerialInit, StoreInit
  <2>2. FirstStart /\ LengthInv /\ AppendInv /\ PublishedInv
    BY DEF Init, FirstStart, LengthInv, AppendInv, PublishedInv
  <2> QED BY <2>1, <2>2 DEF RestartInv, KeptInv
<1>2. TypeOK /\ RestartInv /\ [Next]_vars => (TypeOK /\ RestartInv)'
  BY StepType, RestartStep
<1> QED BY <1>1, <1>2, PTL DEF Spec

\* lfs_getattrr answers the length of the last release, also after a kill and a new
\* start of the program, until a data file is opened.
THEOREM StatOutlives == RestartedCopies => (Spec => []StatSurvivesRestart)
<1> SUFFICES ASSUME RestartedCopies, SerialUse
             PROVE  Spec => []StatSurvivesRestart
  BY DEF RestartedCopies
<1>1. TypeOK /\ RestartInv => StatSurvivesRestart
  <2> SUFFICES ASSUME TypeOK, RestartInv, mounts <= 1 \/ ~block_id_use
               PROVE  StatKept
    BY DEF StatSurvivesRestart, StatKept
  <2>1. CASE FirstStart
    BY <2>1, PublishedAnswered DEF RestartInv
  <2>2. CASE ~FirstStart
    BY <2>2 DEF RestartInv, KeptInv
  <2> QED BY <2>1, <2>2
<1> QED BY <1>1, RestartCorrect, PTL

\* What was acknowledged before the kill is in blocks that the next start does not
\* give away, until a data file is opened.
THEOREM DataOutlives == RestartedCopies => (Spec => []DataSurvivesRestart)
<1> SUFFICES ASSUME RestartedCopies, SerialUse
             PROVE  Spec => []DataSurvivesRestart
  BY DEF RestartedCopies
<1>1. TypeOK /\ RestartInv => DataSurvivesRestart
  <2> SUFFICES ASSUME TypeOK, RestartInv, mounts <= 1 \/ ~block_id_use
               PROVE  NoLostData /\ BlocksMarked
    BY DEF DataSurvivesRestart
  <2>1. CASE FirstStart
    BY <2>1, NothingLost, MarkedOnDevice DEF RestartInv
  <2>2. CASE ~FirstStart
    BY <2>2 DEF RestartInv, KeptInv
  <2> QED BY <2>1, <2>2
<1> QED BY <1>1, RestartCorrect, PTL

=============================================================================
