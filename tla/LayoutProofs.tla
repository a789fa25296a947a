---------------------------- MODULE LayoutProofs ----------------------------
(***************************************************************************)
(* On every device whose size an int holds, whatever its block size, the   *)
(* transfers of different regions, blocks and files are apart, the bitmap  *)
(* has a bit for every block, and, where the division leaves over what the *)
(* rounding takes, the last block ends on the device.                      *)
(***************************************************************************)
EXTENDS Layout, TLAPS

-----------------------------------------------------------------------------
(* Arithmetic. *)

\* A quotient times its divisor is at most the dividend.
LEMMA DivBound ==
    ASSUME NEW x \in Nat, NEW u \in Nat \ {0}
    PROVE  x \div u \in Nat /\ (x \div u) * u <= x
OBVIOUS

\* Blocks of b bytes that have different numbers do not overlap.
LEMMA Rows ==
    ASSUME NEW i \in Nat, NEW j \in Nat, NEW b \in Nat, i < j
    PROVE  i * b + b <= j * b
<1>1. PICK k \in Nat : j = i + 1 + k
  <2>1. j = i + 1 + (j - i - 1) /\ j - i - 1 \in Nat
    OBVIOUS
  <2> QED BY <2>1
<1>2. j * b = i * b + b + k * b
  BY <1>1
<1>3. k * b \in Nat /\ i * b \in Nat
  OBVIOUS
<1> QED BY <1>2, <1>3

-----------------------------------------------------------------------------
(* The regions of a device of d bytes in blocks of b bytes. *)

Sizes(d, b) == /\ d \in Nat
               /\ d >= 512
               /\ d - 512 < HALF
               /\ b \in Nat

\* The cut changes nothing, and the tables take less than an int holds.
LEMMA Counts ==
    ASSUME NEW d, NEW b, Sizes(d, b)
    PROVE  /\ BLOCK_NUM(d, b) \in Nat
           /\ BLOCK_NUM(d, b) * 4129 < HALF
           /\ Cut(d) \in Nat
           /\ CutNum(d, b) = BLOCK_NUM(d, b)
<1>1. d - 512 \in Nat /\ b \in Nat /\ b + 4129 \in Nat \ {0} /\ HALF \in Nat
  BY LayoutAssumption DEF Sizes
<1>2. BLOCK_NUM(d, b) = (d - 512) \div (b + 4129)
  BY <1>1 DEF BLOCK_NUM, BLOCK_INFO_SIZE, block_info, block_extra_info
<1>3. Cut(d) = d - 512
  <2>1. d - 512 \in -HALF .. HALF - 1
    BY <1>1 DEF Sizes
  <2>2. \A x \in -HALF .. HALF - 1 : IntOf(x) = x
    BY DEF IntOf
  <2> QED BY <2>1, <2>2 DEF Cut
<1>4. CutNum(d, b) = BLOCK_NUM(d, b)
  BY <1>3 DEF CutNum, BLOCK_NUM
<1> DEFINE n == BLOCK_NUM(d, b)
<1>5. n \in Nat /\ n * (b + 4129) <= d - 512
  BY <1>1, <1>2, DivBound
<1> HIDE DEF n
<1>6. n * (b + 4129) = n * b + n * 4129 /\ n * b \in Nat
  BY <1>1, <1>5
<1>7. n * 4129 < HALF
  BY <1>1, <1>5, <1>6 DEF Sizes
<1> QED BY <1>1, <1>3, <1>4, <1>5, <1>7 DEF n

\* The regions follow each other with room for what is stored in them.
LEMMA RegionsInOrder ==
    ASSUME NEW d, NEW b, Sizes(d, b)
    PROVE  /\ BITMAP_SIZE(d, b) \in Nat \ {0}
           /\ BLOCK_NUM(d, b) <= 8 * BITMAP_SIZE(d, b)
           /\ INFO_OFFSET(d, b) \in Nat
           /\ DATA_OFFSET(d, b) \in Nat
           /\ INFO_SIZE(d, b) = BLOCK_NUM(d, b) * 32
           /\ BITMAP_OFFSET + BITMAP_SIZE(d, b) <= INFO_OFFSET(d, b)
           /\ INFO_OFFSET(d, b) + BLOCK_NUM(d, b) * 32 <= DATA_OFFSET(d, b)
           /\ DATA_OFFSET(d, b) <= BLOCK_NUM(d, b) * 4129 + 2057
<1> DEFINE n == BLOCK_NUM(d, b)
           s == BITMAP_SIZE(d, b)
           t == BITMAP_SPACE(d, b)
           v == Space(d, b, block_info)
           w == Space(d, b, block_extra_info)
<1>1. n \in Nat /\ n * 4129 < HALF /\ Cut(d) \in Nat /\ CutNum(d, b) = n
  BY Counts
<1>2. HALF \in Nat /\ HALF >= 65536
  BY LayoutAssumption
<1>a. ~(Cut(d) < 0)
  BY <1>1
<1>3. s = n \div 8 + 1 /\ t = s \div 512 + 1
  BY <1>1, <1>a DEF BITMAP_SIZE, BITMAP_SPACE
<1>4. v = (n * 32) \div 512 + 1 /\ w = (n * 4096) \div 512 + 1
  BY <1>1, <1>a DEF Space, block_info, block_extra_info
<1> HIDE DEF n, s, t, v, w
<1>5. s \in Nat \ {0} /\ n <= 8 * s /\ s <= n + 1
  BY <1>1, <1>3
<1>6. t \in Nat /\ s <= t * 512 /\ t * 512 <= s + 512
  BY <1>3, <1>5
<1>7. v \in Nat /\ n * 32 <= v * 512 /\ v * 512 <= n * 32 + 512
  BY <1>1, <1>4
<1>8. w \in Nat /\ w * 512 <= n * 4096 + 512
  BY <1>1, <1>4
<1>9. \A x \in Nat : x < HALF => IntOf(x) = x
  BY <1>2 DEF IntOf
<1>10. n * 4096 + 512 < HALF
  <2>1. CASE n >= 16
    BY <2>1, <1>1, <1>2
  <2>2. CASE n < 16
    BY <2>2, <1>1, <1>2
  <2> QED BY <2>1, <2>2, <1>1
<1>11. t * 512 \in Nat /\ t * 512 < HALF
  BY <1>1, <1>2, <1>5, <1>6, <1>10
<1>12. v * 512 \in Nat /\ v * 512 < HALF
  BY <1>1, <1>2, <1>7, <1>10
<1>13. w * 512 \in Nat /\ w * 512 < HALF
  BY <1>1, <1>2, <1>8, <1>10
<1>14. n * 32 \in Nat /\ n * 32 < HALF
  BY <1>1, <1>2
<1>15. INFO_OFFSET(d, b) = 520 + t * 512
  BY <1>9, <1>11 DEF INFO_OFFSET, BITMAP_OFFSET, super_block, t
<1>16. EXTRA_OFFSET(d, b) = INFO_OFFSET(d, b) + v * 512
  BY <1>9, <1>12 DEF EXTRA_OFFSET, v
<1>17. DATA_OFFSET(d, b) = EXTRA_OFFSET(d, b) + w * 512
  BY <1>9, <1>13 DEF DATA_OFFSET, w
<1>18. INFO_SIZE(d, b) = n * 32
  BY <1>9, <1>14 DEF INFO_SIZE, block_info, n
<1>19. /\ 520 + s <= 520 + t * 512
       /\ 520 + t * 512 + n * 32 <= 520 + t * 512 + v * 512 + w * 512
  BY <1>1, <1>5, <1>6, <1>7, <1>8, <1>11, <1>12, <1>13
<1>20. /\ s \in Nat \ {0}
       /\ n <= 8 * s
       /\ INFO_OFFSET(d, b) \in Nat
       /\ DATA_OFFSET(d, b) \in Nat
       /\ 520 + s <= INFO_OFFSET(d, b)
       /\ INFO_OFFSET(d, b) + n * 32 <= DATA_OFFSET(d, b)
  BY <1>1, <1>5, <1>11, <1>12, <1>13, <1>15, <1>16, <1>17, <1>19
<1>21. DATA_OFFSET(d, b) <= n * 4129 + 2057
  BY <1>1, <1>5, <1>6, <1>7, <1>8, <1>11, <1>12, <1>13, <1>15, <1>16, <1>17
<1> QED BY <1>18, <1>20, <1>21 DEF n, s, BITMAP_OFFSET, super_block

\* The quotient and the remainder of a division make up the dividend.
LEMMA DivMod ==
    ASSUME NEW x \in Nat, NEW u \in Nat \ {0}
    PROVE  /\ x % u \in Nat
           /\ (x \div u) * u + (x % u) = x
OBVIOUS

\* Where the division leaves over the 8 bytes of the superblock, the byte of the
\* bitmap and three sectors, the blocks end on the device.
LEMMA BlocksFit ==
    ASSUME NEW d, NEW b, Sizes(d, b), (d - 512) % (b + BLOCK_INFO_SIZE) >= 1545
    PROVE  /\ DATA_OFFSET(d, b) + BLOCK_NUM(d, b) * b <= d
           /\ BLOCK_NUM(d, b) * b \in Nat
<1> DEFINE n == BLOCK_NUM(d, b)
           r == (d - 512) % (b + 4129)
<1>1. d - 512 \in Nat /\ d \in Nat /\ b \in Nat /\ b + 4129 \in Nat \ {0}
  BY DEF Sizes
<1>2. BLOCK_INFO_SIZE = 4129
  BY DEF BLOCK_INFO_SIZE, block_info, block_extra_info
<1>3. n * (b + 4129) + r = d - 512 /\ r \in Nat /\ r >= 1545
  <2>1. n = (d - 512) \div (b + 4129) /\ r >= 1545
    BY <1>2 DEF BLOCK_NUM
  <2>2. PICK x \in Nat, u \in Nat \ {0} : x = d - 512 /\ u = b + 4129
    BY <1>1
  <2>3. /\ x % u \in Nat
        /\ (x \div u) * u + (x % u) = x
    BY DivMod
  <2>4. n = x \div u /\ r = x % u
    BY <2>1, <2>2
  <2> HIDE DEF n, r
  <2> QED BY <2>1, <2>2, <2>3, <2>4
<1>4. n \in Nat /\ DATA_OFFSET(d, b) \in Nat /\ DATA_OFFSET(d, b) <= n * 4129 + 2057
  BY Counts, RegionsInOrder
<1> HIDE DEF n, r
<1>5. n * (b + 4129) = n * b + n * 4129 /\ n * b \in Nat
  BY <1>1, <1>4
<1> QED BY <1>1, <1>3, <1>4, <1>5 DEF n

-----------------------------------------------------------------------------
(* Where transfers are. *)

Info == INFO_OFFSET(dev_size, block_size)
Data == DATA_OFFSET(dev_size, block_size)
Num == BLOCK_NUM(dev_size, block_size)
Bytes == BITMAP_SIZE(dev_size, block_size)

\* The transfers of the tables, before the blocks, and those of the blocks.
InTables(x) ==
    \/ x.owner = NoOwner /\ x.from = 0 /\ x.end = 0
    \/ x.owner = Owner("super", 0) /\ x.from = 0 /\ x.end = 520
    \/ x.owner = Owner("bitmap", 0) /\ x.from = 520 /\ x.end = 520 + Bytes
    \/ x.owner = Owner("info", 0) /\ x.from >= Info /\ x.end <= Info + Num * 32

InBlock(x, i) ==
    LET start == Data + i * block_size
    IN  \/ x.owner = Owner("meta", i) /\ x.from = start /\ x.end = start + CSM
        \/ x.owner = Owner("data", i) /\ x.from = start + CSM /\ x.end = start + block_size

Placed(x) == /\ x.from \in Int
             /\ x.end \in Int
             /\ InTables(x) \/ \E i \in 0 .. Num - 1 : InBlock(x, i)

GoodSizes == Sizes(dev_size, block_size) /\ CSM < block_size

\* The tables lie before the blocks, and apart from each other.
LEMMA TablesApart ==
    ASSUME GoodSizes, NEW x, NEW y, Placed(x), Placed(y), InTables(x), InTables(y),
           x.owner # y.owner
    PROVE  ~Overlap(x, y)
<1>1. /\ Bytes \in Nat
      /\ Info \in Nat
      /\ 520 + Bytes <= Info
  BY RegionsInOrder DEF GoodSizes, Bytes, Info, BITMAP_OFFSET, super_block
<1>2. x.from \in Int /\ x.end \in Int /\ y.from \in Int /\ y.end \in Int
  BY DEF Placed
<1> QED BY <1>1, <1>2 DEF InTables, Overlap

\* The end of a transfer of the tables is at most the start of the blocks.
LEMMA TablesFirst ==
    ASSUME GoodSizes, NEW x, Placed(x), InTables(x)
    PROVE  x.end <= Data
<1>1. /\ Bytes \in Nat
      /\ Info \in Nat
      /\ Data \in Nat
      /\ 520 + Bytes <= Info
      /\ Info + Num * 32 <= Data
  BY RegionsInOrder DEF GoodSizes, Bytes, Info, Data, Num, BITMAP_OFFSET, super_block
<1>2. Num \in Nat
  BY Counts DEF GoodSizes, Num
<1> QED BY <1>1, <1>2 DEF InTables, Placed

\* A transfer of a block is within the bytes of that block.
LEMMA WithinBlock ==
    ASSUME GoodSizes, NEW x, Placed(x), NEW i \in Nat, InBlock(x, i)
    PROVE  /\ Data + i * block_size <= x.from
           /\ x.end <= Data + i * block_size + block_size
           /\ i * block_size \in Nat
           /\ Data \in Nat
<1>1. Data \in Nat /\ block_size \in Nat /\ CSM \in Nat /\ CSM < block_size
  BY RegionsInOrder, LayoutAssumption DEF GoodSizes, Data, Sizes
<1>2. i * block_size \in Nat
  BY <1>1
<1> QED BY <1>1, <1>2 DEF InBlock

\* Transfers of different owners share no byte, wherever they are.
LEMMA PlacedApart ==
    ASSUME GoodSizes, NEW x, NEW y, Placed(x), Placed(y), x.owner # y.owner
    PROVE  ~Overlap(x, y)
<1>0. x.from \in Int /\ x.end \in Int /\ y.from \in Int /\ y.end \in Int
  BY DEF Placed
<1>1. CASE InTables(x) /\ InTables(y)
  BY <1>1, TablesApart
<1>2. ASSUME NEW i \in Nat, InTables(x), InBlock(y, i) PROVE ~Overlap(x, y)
  BY <1>0, <1>2, TablesFirst, WithinBlock DEF Overlap
<1>3. ASSUME NEW i \in Nat, InTables(y), InBlock(x, i) PROVE ~Overlap(x, y)
  BY <1>0, <1>3, TablesFirst, WithinBlock DEF Overlap
<1>4. ASSUME NEW i \in Nat, NEW j \in Nat, InBlock(x, i), InBlock(y, j)
      PROVE  ~Overlap(x, y)
  <2>1. /\ Data + i * block_size <= x.from
        /\ x.end <= Data + i * block_size + block_size
        /\ i * block_size \in Nat
        /\ Data \in Nat
    BY <1>4, WithinBlock
  <2>2. /\ Data + j * block_size <= y.from
        /\ y.end <= Data + j * block_size + block_size
        /\ j * block_size \in Nat
    BY <1>4, WithinBlock
  <2>3. block_size \in Nat /\ CSM \in Nat /\ CSM < block_size
    BY LayoutAssumption DEF GoodSizes, Sizes
  <2>4. CASE i < j
    <3>1. i * block_size + block_size <= j * block_size
      BY <2>3, <2>4, Rows
    <3> QED BY <1>0, <2>1, <2>2, <2>3, <3>1 DEF Overlap
  <2>5. CASE j < i
    <3>1. j * block_size + block_size <= i * block_size
      BY <2>3, <2>5, Rows
    <3> QED BY <1>0, <2>1, <2>2, <2>3, <3>1 DEF Overlap
  <2>6. CASE i = j
    BY <1>0, <1>4, <2>1, <2>3, <2>6 DEF Overlap, InBlock
  <2> QED BY <2>4, <2>5, <2>6
<1> QED BY <1>1, <1>2, <1>3, <1>4 DEF Placed

\* A transfer ends at the end of the last block at most.
LEMMA PlacedEnds ==
    ASSUME GoodSizes, NEW x, Placed(x)
    PROVE  x.end <= Data + Num * block_size
<1>1. /\ Data \in Nat /\ Num \in Nat /\ block_size \in Nat
      /\ x.end \in Int
  BY RegionsInOrder, Counts DEF GoodSizes, Data, Num, Sizes, Placed
<1>2. Num * block_size \in Nat
  BY <1>1
<1>3. CASE InTables(x)
  BY <1>1, <1>2, <1>3, TablesFirst
<1>4. ASSUME NEW i \in 0 .. Num - 1, InBlock(x, i)
      PROVE  x.end <= Data + Num * block_size
  <2>1. i \in Nat /\ i < Num
    BY <1>1
  <2>2. /\ x.end <= Data + i * block_size + block_size
        /\ i * block_size \in Nat
    BY <1>4, <2>1, WithinBlock
  <2>3. i * block_size + block_size <= Num * block_size
    BY <1>1, <2>1, Rows
  <2> QED BY <1>1, <1>2, <2>2, <2>3
<1> QED BY <1>3, <1>4 DEF Placed

-----------------------------------------------------------------------------
(* The invariant: the last two transfers are placed. *)

PlacedInv ==
    /\ device \in Devices
    /\ status = "down" => io = NoIO /\ prev = NoIO /\ dev_size = 0
    /\ status # "down" =>
          /\ dev_size = device.s_dev_size
          /\ block_size = device.s_block_size
          /\ Small => Placed(io) /\ Placed(prev)

\* Nothing was transferred before the first transfer.
LEMMA NothingPlaced == Placed(NoIO)
BY DEF Placed, InTables, NoIO

\* What a running program of a small device goes by.
LEMMA RunningSizes ==
    ASSUME PlacedInv, status # "down", Small
    PROVE  GoodSizes
BY LayoutAssumption DEF PlacedInv, Small, GoodSizes, Sizes

\* The invariant gives the three properties.
LEMMA PlacedGives == PlacedInv => SmallApart /\ SmallCovered /\ BlocksOnDevice
<1> SUFFICES ASSUME PlacedInv PROVE SmallApart /\ SmallCovered /\ BlocksOnDevice
  OBVIOUS
<1>1. CASE status = "down"
  BY <1>1 DEF PlacedInv, SmallApart, SmallCovered, TransfersApart, BlocksOnDevice, NoIO
<1>2. ASSUME status # "down", Small
      PROVE  TransfersApart /\ BLOCK_NUM(dev_size, block_size)
                                  <= 8 * BITMAP_SIZE(dev_size, block_size)
  <2>1. GoodSizes
    BY <1>2, RunningSizes
  <2>2. Placed(io) /\ Placed(prev)
    BY <1>2 DEF PlacedInv
  <2>3. TransfersApart
    BY <2>1, <2>2, PlacedApart DEF TransfersApart
  <2> QED BY <2>1, <2>3, RegionsInOrder DEF GoodSizes
<1>3. ASSUME status # "down", Small, Leftover >= 1545
      PROVE  io.end <= dev_size
  <2>1. GoodSizes
    BY <1>3, RunningSizes
  <2>2. Placed(io)
    BY <1>3 DEF PlacedInv
  <2>3. Data + Num * block_size <= dev_size
    BY <1>3, <2>1, BlocksFit DEF GoodSizes, Leftover, Data, Num
  <2>4. /\ Data \in Nat /\ dev_size \in Nat /\ Num * block_size \in Nat
        /\ io.end \in Int
    BY <1>3, <2>1, <2>2, RegionsInOrder, BlocksFit
       DEF GoodSizes, Sizes, Data, Num, Placed, Leftover
  <2> QED BY <2>1, <2>2, <2>3, <2>4, PlacedEnds
<1> QED BY <1>1, <1>2, <1>3 DEF SmallApart, SmallCovered, BlocksOnDevice

\* A transfer of a running program that is placed keeps the invariant.
LEMMA MoveKeeps ==
    ASSUME PlacedInv, Up, NEW owner, NEW from, NEW size, Move(owner, from, size),
           Small => Placed([owner |-> owner, from |-> from, end |-> from + size])
    PROVE  PlacedInv'
<1>1. /\ device' = device
      /\ status' = status
      /\ dev_size' = dev_size
      /\ block_size' = block_size
      /\ io' = [owner |-> owner, from |-> from, end |-> from + size]
      /\ prev' = io
  BY DEF Up, Move
<1>2. status # "down" /\ Small' = Small
  BY <1>1 DEF Up, Small
<1>3. ASSUME Small PROVE Placed(io)' /\ Placed(prev)'
  BY <1>1, <1>2, <1>3 DEF PlacedInv, Placed, InTables, InBlock, Info, Data, Num, Bytes
<1> QED BY <1>1, <1>2, <1>3 DEF PlacedInv

\* Every step keeps the invariant.
LEMMA PlacedStep == PlacedInv /\ [Next]_vars => PlacedInv'
<1> SUFFICES ASSUME PlacedInv, [Next]_vars PROVE PlacedInv'
  OBVIOUS
<1> DEFINE At(owner, from, size) == [owner |-> owner, from |-> from, end |-> from + size]
<1>1. CASE Mount
  <2>1. /\ device' = device
        /\ device \in Devices
        /\ status' = "up"
        /\ dev_size' = device.s_dev_size
        /\ block_size' = device.s_block_size
        /\ prev' = NoIO
        /\ io' = At(Owner("super", 0), 0, 520)
    BY <1>1 DEF Mount, Move, PlacedInv, SizeOf, super_block
  <2>2. Placed(NoIO)' /\ Placed(At(Owner("super", 0), 0, 520))'
    BY DEF Placed, InTables, NoIO
  <2> QED BY <2>1, <2>2 DEF PlacedInv, Placed, InTables, InBlock, Info, Data, Num, Bytes
<1>2. CASE Crash
  BY <1>2 DEF Crash, PlacedInv, Small, Placed, InTables, InBlock, Info, Data, Num, Bytes
<1>3. CASE MoveBitmap
  <2>1. ASSUME Small PROVE Placed(At(Owner("bitmap", 0), 520, Bytes))
    <3>1. Bytes \in Nat
      BY <1>3, <2>1, RunningSizes, RegionsInOrder DEF MoveBitmap, Up, GoodSizes, Bytes
    <3> QED BY <3>1 DEF Placed, InTables
  <2> QED BY <1>3, <2>1, MoveKeeps
          DEF MoveBitmap, BITMAP_OFFSET, super_block, Bytes
<1>4. CASE ReadInfo
  <2>1. ASSUME Small
        PROVE  Placed(At(Owner("info", 0), Info, INFO_SIZE(dev_size, block_size)))
    <3>1. GoodSizes
      BY <1>4, <2>1, RunningSizes DEF ReadInfo, Up
    <3>2. /\ INFO_SIZE(dev_size, block_size) = Num * 32
          /\ Info \in Nat
          /\ Num \in Nat
      BY <3>1, RegionsInOrder, Counts DEF GoodSizes, Info, Num
    <3> QED BY <3>2 DEF Placed, InTables
  <2> QED BY <1>4, <2>1, MoveKeeps DEF ReadInfo, Info
<1>5. ASSUME NEW i \in 0 .. Num - 1, WriteInfo(i) PROVE PlacedInv'
  <2>1. ASSUME Small PROVE Placed(At(Owner("info", 0), Info + i * 32, 32))
    <3>1. GoodSizes
      BY <1>5, <2>1, RunningSizes DEF WriteInfo, Up
    <3>2. Info \in Nat /\ Num \in Nat
      BY <3>1, RegionsInOrder, Counts DEF GoodSizes, Info, Num
    <3> QED BY <3>2 DEF Placed, InTables
  <2> QED BY <1>5, <2>1, MoveKeeps DEF WriteInfo, Info, block_info
<1>6. ASSUME NEW i \in 0 .. Num - 1, MoveMeta(i) PROVE PlacedInv'
  <2>1. ASSUME Small PROVE Placed(At(Owner("meta", i), Data + i * block_size, CSM))
    <3>1. GoodSizes
      BY <1>6, <2>1, RunningSizes DEF MoveMeta, Up
    <3>2. i \in Nat /\ Data \in Nat /\ block_size \in Nat /\ CSM \in Nat
      BY <3>1, RegionsInOrder, Counts, LayoutAssumption DEF GoodSizes, Data, Num, Sizes
    <3>3. i * block_size \in Nat
      BY <3>2
    <3> QED BY <3>2, <3>3 DEF Placed, InBlock
  <2> QED BY <1>6, <2>1, MoveKeeps DEF MoveMeta, Data
<1>7. ASSUME NEW i \in 0 .. Num - 1, MoveData(i) PROVE PlacedInv'
  <2>1. ASSUME Small
        PROVE  Placed(At(Owner("data", i), Data + i * block_size + CSM, block_size - CSM))
    <3>1. GoodSizes
      BY <1>7, <2>1, RunningSizes DEF MoveData, Up
    <3>2. i \in Nat /\ Data \in Nat /\ block_size \in Nat /\ CSM \in Nat
      BY <3>1, RegionsInOrder, Counts, LayoutAssumption DEF GoodSizes, Data, Num, Sizes
    <3>3. i * block_size \in Nat
      BY <3>2
    <3> QED BY <3>2, <3>3 DEF Placed, InBlock
  <2> QED BY <1>7, <2>1, MoveKeeps DEF MoveData, Area, Data
<1>8. CASE UNCHANGED vars
  BY <1>8 DEF vars, PlacedInv, Small, Placed, InTables, InBlock, Info, Data, Num, Bytes
<1> QED BY <1>1, <1>2, <1>3, <1>4, <1>5, <1>6, <1>7, <1>8 DEF Next, Num

\* The invariant holds of the program.
LEMMA PlacedCorrect == Spec => []PlacedInv
<1>1. Init => PlacedInv
  BY DEF Init, PlacedInv
<1> QED BY <1>1, PlacedStep, PTL DEF Spec

\* hdfslowfs.h and the offsets of rewrite.c: whatever the block size, the
\* transfers on a device of less than 2 GiB are apart.
THEOREM LayoutApart == Spec => []SmallApart
BY PlacedCorrect, PlacedGives, PTL

\* BITMAP_SIZE: on such a device the bitmap has a bit for every block.
THEOREM LayoutCovered == Spec => []SmallCovered
BY PlacedCorrect, PlacedGives, PTL

\* BLOCK_NUM: on such a device whose division leaves 1545 bytes over, no transfer
\* goes past the end of the device.
THEOREM LayoutFits == Spec => []BlocksOnDevice
BY PlacedCorrect, PlacedGives, PTL

=============================================================================
