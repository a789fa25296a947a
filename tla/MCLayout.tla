------------------------------ MODULE MCLayout ------------------------------
(* Layout on devices of blocks of 1024 bytes, a block taking 5153 bytes with *)
(* its share of the tables, and an int of 18 bits.  The numbers of blocks    *)
(* step over a byte of the bitmap and a sector of the block_info table; the  *)
(* sizes leave nothing over, as much as the rounding takes, or one less than *)
(* a block.  The big devices lie at the edges of the range where the cut     *)
(* size is negative.                                                         *)
EXTENDS Layout

Counts == {0, 1, 7, 8, 9, 15, 16}
Sizes == {512 + 5153 * n + r : n \in Counts, r \in {0, 1545, 5152}}
BigSizes == {HALF + 511, HALF + 512, 2 * HALF + 511, 2 * HALF + 512}

Device(size) == [s_dev_size |-> size, s_block_size |-> 1024]
MCDevices == {Device(size) : size \in Sizes \cup BigSizes}

=============================================================================
