------------------------------- MODULE Layout -------------------------------
(***************************************************************************)
(* The macros of lisafuse/hdfslowfs.h that place the regions on the        *)
(* device, and the transfers that the program of rewrite.c makes by them.  *)
(* Sizes and addresses are bytes.  The divisions, the casts and the widths *)
(* are those of the macros: ceil(n) is ((int)n+1), so the cast applies to  *)
(* the first operand of n only, and BITMAP_SIZE, INFO_SPACE and            *)
(* EXTRA_SPACE divide the device size cut to an int.                       *)
(*                                                                         *)
(* BitmapSizeDown, BitmapSpaceDown and AreaWhole are plausible bugs of the *)
(* definitions that follow them, which the model never uses.               *)
(***************************************************************************)
EXTENDS Integers

CONSTANTS
    HALF,     \* 2^31: an int runs from -HALF to HALF - 1
    CSM,      \* 2*MB_SIZE, the bytes of a block's checksum area
    Devices   \* the superblocks: records of s_dev_size and s_block_size

ASSUME LayoutAssumption ==
    /\ HALF \in Nat
    /\ HALF % 512 = 0
    /\ HALF >= 65536
    /\ CSM \in Nat \ {0}
    /\ \A d \in Devices : /\ d.s_dev_size \in Nat
                          /\ d.s_dev_size >= 512
                          /\ d.s_block_size \in Nat
                          /\ CSM < d.s_block_size

\* sizeof: 36 bytes of fields and 480 reserved ones, padded to 8.
super_block == 520
block_info == 32
block_extra_info == 4096
BLOCK_INFO_SIZE == 1 + block_info + block_extra_info

\* The conversion of a wider integer to int.
IntOf(x) == IF x \in -HALF .. HALF - 1 THEN x
            ELSE ((x + HALF) % (2 * HALF)) - HALF

BLOCK_NUM(d, b) == (d - 512) \div (b + BLOCK_INFO_SIZE)

\* (int)(devsize-512)/(blocksize+BLOCK_INFO_SIZE).  A negative int becomes a
\* size_t whose quotient is beyond every int.
Cut(d) == IntOf(d - 512)
CutNum(d, b) == Cut(d) \div (b + BLOCK_INFO_SIZE)

BitmapSizeDown(d, b) == IF Cut(d) < 0 THEN -HALF ELSE CutNum(d, b) \div 8

\* x86 converts a double outside the range of int to the lowest int.
BITMAP_SIZE(d, b) == IF Cut(d) < 0 THEN -HALF ELSE CutNum(d, b) \div 8 + 1

\* INFO_SPACE and EXTRA_SPACE, the sectors of a table of one entry per block.
Space(d, b, bytes) == IF Cut(d) < 0 THEN -HALF
                      ELSE (CutNum(d, b) * bytes) \div 512 + 1

BitmapSpaceDown(d, b) == BITMAP_SIZE(d, b) \div 512
BITMAP_SPACE(d, b) == BITMAP_SIZE(d, b) \div 512 + 1

BITMAP_OFFSET == super_block
INFO_SIZE(d, b) == IntOf(BLOCK_NUM(d, b) * block_info)
INFO_OFFSET(d, b) == BITMAP_OFFSET + IntOf(BITMAP_SPACE(d, b) * 512)
EXTRA_OFFSET(d, b) == INFO_OFFSET(d, b) + IntOf(Space(d, b, block_info) * 512)
DATA_OFFSET(d, b) == EXTRA_OFFSET(d, b) + IntOf(Space(d, b, block_extra_info) * 512)

-----------------------------------------------------------------------------
VARIABLES
    device,     \* the superblock of the device
    status,     \* of the program: "down", "up" or "crashed"
    dev_size,   \* the globals that main sets
    block_size,
    io,         \* the last transfer: whose bytes, the first and the one behind
    prev        \* the transfer before it

vars == <<device, status, dev_size, block_size, io, prev>>

Owner(region, block) == [region |-> region, block |-> block]
NoOwner == Owner("none", 0)
NoIO == [owner |-> NoOwner, from |-> 0, end |-> 0]

Move(owner, from, size) ==
    /\ io' = [owner |-> owner, from |-> from, end |-> from + size]
    /\ prev' = io

SizeOf(sb) == sb.s_dev_size

\* main reads the superblock and takes the sizes from it.
Mount ==
    /\ status = "down"
    /\ status' = "up"
    /\ dev_size' = SizeOf(device)
    /\ block_size' = device.s_block_size
    /\ Move(Owner("super", 0), 0, super_block)
    /\ UNCHANGED device

Up == status = "up" /\ UNCHANGED <<device, status, dev_size, block_size>>

\* The buffer of a bitmap of negative size is NULL, and the loop over its bits
\* in the first lookup follows it.
HasBuffer == BITMAP_SIZE(dev_size, block_size) > 0

Crash ==
    /\ status = "up"
    /\ ~HasBuffer
    /\ status' = "crashed"
    /\ UNCHANGED <<device, dev_size, block_size, io, prev>>

\* read_bitmap and write_bitmap.
MoveBitmap ==
    /\ Up
    /\ HasBuffer
    /\ Move(Owner("bitmap", 0), BITMAP_OFFSET, BITMAP_SIZE(dev_size, block_size))

\* getattr and readdir read the table of block_info.
ReadInfo ==
    /\ Up
    /\ HasBuffer
    /\ Move(Owner("info", 0), INFO_OFFSET(dev_size, block_size),
                              INFO_SIZE(dev_size, block_size))

\* release writes one entry of it.
WriteInfo(i) ==
    /\ Up
    /\ HasBuffer
    /\ Move(Owner("info", 0), INFO_OFFSET(dev_size, block_size) + i * block_info,
                              block_info)

\* write and read: a file fills its area at most, from the dev_offset of open.
MoveMeta(i) ==
    /\ Up
    /\ HasBuffer
    /\ Move(Owner("meta", i), DATA_OFFSET(dev_size, block_size) + i * block_size, CSM)

AreaWhole == block_size
Area == block_size - CSM
MoveData(i) ==
    /\ Up
    /\ HasBuffer
    /\ Move(Owner("data", i),
            DATA_OFFSET(dev_size, block_size) + i * block_size + CSM, Area)

Init ==
    /\ device \in Devices
    /\ status = "down"
    /\ dev_size = 0
    /\ block_size = 0
    /\ io = NoIO
    /\ prev = NoIO

Next ==
    \/ Mount
    \/ Crash
    \/ MoveBitmap
    \/ ReadInfo
    \/ \E i \in 0 .. BLOCK_NUM(dev_size, block_size) - 1 :
          WriteInfo(i) \/ MoveMeta(i) \/ MoveData(i)

Spec == Init /\ [][Next]_vars

-----------------------------------------------------------------------------
\* The sizes that an int holds.
Small == dev_size - 512 < HALF

Overlap(x, y) == x.from < y.end /\ y.from < x.end

\* No two transfers that belong to different regions, to different blocks or to
\* the two files of a block share a byte, as in the layout diagram.
TransfersApart == io.owner # prev.owner => ~Overlap(io, prev)

\* The same, on a device whose size in bytes an int holds.
SmallApart == Small => TransfersApart

\* The buffer of the bitmap, BITMAP_SIZE bytes, has a bit for every block, which
\* is what bitmap.c and its callers go by.
SmallCovered == Small /\ status = "up" =>
    BLOCK_NUM(dev_size, block_size) <= 8 * BITMAP_SIZE(dev_size, block_size)

\* The last block ends on the device.  BLOCK_NUM leaves out the 8 bytes that the
\* superblock has over 512 and the up to three sectors of rounding, so it takes
\* as many bytes that are left over after the division.
Leftover == (dev_size - 512) % (block_size + BLOCK_INFO_SIZE)
BlocksOnDevice == Small /\ Leftover >= 3 * 512 + 9 => io.end <= dev_size

=============================================================================
