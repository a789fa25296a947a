------------------------------ MODULE BufCopy ------------------------------
(***************************************************************************)
(* Buffer vectors of libfuse (buffer.c): fuse_buf_copy from one vector to  *)
(* another, each of memory and of file descriptors, when every system call *)
(* may fail or move less than it was asked for.  A copy is a record; its   *)
(* loops go on one system call, or one pair of them, at a time.            *)
(***************************************************************************)
EXTENDS Integers, Sequences

CONSTANTS
    Junk,       \* what memory holds before it is written
    Chunk       \* sizeof(buf) in fuse_buf_fd_to_fd

ASSUME CopyAssumption == Chunk \in Nat \ {0}

EIO == -5
EAGAIN == -11
ENOMEM == -12
EINVAL == -22

\* data is the memory, or the file from its position; without seek it is what
\* the descriptor has to give, or has taken.
Buf(fd, seek, size, data) == [fd |-> fd, seek |-> seek, size |-> size, data |-> data]
Mem(size, data) == Buf(FALSE, TRUE, size, data)
Vec(bufs) == [idx |-> 1, off |-> 0, bufs |-> bufs]

min_size(a, b) == IF a < b THEN a ELSE b

fuse_buf_size(v) ==
    LET size[n \in 0 .. Len(v.bufs)] == IF n = 0 THEN 0 ELSE size[n - 1] + v.bufs[n].size
    IN  size[Len(v.bufs)]

-----------------------------------------------------------------------------
(* One buffer.                                                             *)

Left(b, off) == IF b.seek THEN IF Len(b.data) > off THEN Len(b.data) - off ELSE 0
                ELSE Len(b.data)

Bytes(b, off, k) == IF b.seek THEN SubSeq(b.data, off + 1, off + k)
                    ELSE SubSeq(b.data, 1, k)

Consumed(b, k) ==
    IF b.seek THEN b ELSE [b EXCEPT !.data = SubSeq(@, k + 1, Len(@))]

Stored(b, off, s) ==
    IF ~b.seek THEN [b EXCEPT !.data = @ \o s]
    ELSE LET end == off + Len(s)
         IN  [b EXCEPT !.data = [i \in 1 .. (IF end > Len(@) THEN end ELSE Len(@)) |->
                IF i \in off + 1 .. end THEN s[i - off]
                ELSE IF i <= Len(@) THEN @[i] ELSE Junk]]

\* What a call returns that could move n: an error, or some of it, nothing only
\* at the end.  FUSE_BUF_FD_RETRY repeats it until it is through or fails, which
\* gives the same results.
Moves(n) == {EIO, EAGAIN} \cup (IF n = 0 THEN {0} ELSE 1 .. n)

-----------------------------------------------------------------------------
(* A copy between two of its system calls: "copy" in fuse_buf_copy, "slow" *)
(* in fuse_buf_fd_to_fd, "over" when it has returned res.  copied is that  *)
(* of fuse_buf_copy, part that of fuse_buf_fd_to_fd.                       *)

Copy(dst, src, force) ==
    [at |-> "copy", dst |-> dst, src |-> src, force |-> force,
     copied |-> 0, part |-> 0, res |-> 0]

AtEnd(v) == v.idx > Len(v.bufs)
Current(v) == v.bufs[v.idx]
Put(v, b) == [v EXCEPT !.bufs[v.idx] = b]

fuse_bufvec_advance(v, len) ==
    IF v.off + len < Current(v).size THEN [v EXCEPT !.off = @ + len]
    ELSE IF v.idx = Len(v.bufs) THEN [v EXCEPT !.idx = @ + 1, !.off = @ + len]
    ELSE [v EXCEPT !.idx = @ + 1, !.off = 0]

LenOf(c) == min_size(Current(c.src).size - c.src.off, Current(c.dst).size - c.dst.off)

\* What was copied before an error is the result.
Over(c, res) ==
    [c EXCEPT !.at = "over", !.part = 0,
              !.res = IF res >= 0 THEN c.copied + res ELSE IF c.copied = 0 THEN res ELSE c.copied]

\* fuse_buf_copy goes on with what fuse_buf_copy_one returned.  The destination
\* does not advance when the source is at its end.
After(c, res) ==
    LET src == fuse_bufvec_advance(c.src, res)
        dst == fuse_bufvec_advance(c.dst, res)
    IN  IF res < 0 THEN Over(c, res)
        ELSE IF AtEnd(src) THEN Over([c EXCEPT !.src = src], res)
        ELSE IF AtEnd(dst) \/ res < LenOf(c) THEN Over([c EXCEPT !.src = src, !.dst = dst], res)
        ELSE [c EXCEPT !.at = "copy", !.src = src, !.dst = dst, !.copied = @ + res, !.part = 0]

\* r is taken from the source, and w of it is in the destination.
Moved(c, r, w) ==
    [c EXCEPT !.src = IF r <= 0 THEN @ ELSE Put(@, Consumed(Current(@), r)),
              !.dst = IF w <= 0 THEN @
                      ELSE Put(@, Stored(Current(@), @.off + c.part,
                                         Bytes(Current(c.src), c.src.off + c.part, w)))]

LeftOf(c) == Left(Current(c.src), c.src.off + c.part)

\* fuse_buf_read, fuse_buf_write and splice.
Transfers(c) == {After(Moved(c, k, k), k) : k \in Moves(min_size(LenOf(c), LeftOf(c)))}

\* fuse_buf_splice falls back on fuse_buf_fd_to_fd when splice cannot do it.
fuse_buf_splice(c) ==
    Transfers(c) \cup {IF c.force THEN After(c, EINVAL) ELSE [c EXCEPT !.at = "slow"]}

fuse_buf_copy_one(c) ==
    IF LenOf(c) = 0 THEN {After(c, 0)}
    ELSE IF ~Current(c.src).fd /\ ~Current(c.dst).fd
         THEN {After(Moved(c, LenOf(c), LenOf(c)), LenOf(c))}
    ELSE IF Current(c.src).fd /\ Current(c.dst).fd THEN fuse_buf_splice(c)
    ELSE Transfers(c)

fuse_buf_copy(c) ==
    IF AtEnd(c.src) \/ AtEnd(c.dst) THEN {Over(c, 0)} ELSE fuse_buf_copy_one(c)

\* Read a chunk and write it.  What was read and could not be written is gone
\* from a descriptor that cannot seek.
fuse_buf_fd_to_fd(c) ==
    LET this_len == min_size(Chunk, LenOf(c) - c.part)
        Stops(d, res) == After(d, IF c.part > 0 THEN c.part ELSE res)
        Chunks(r, w) ==
            IF w <= 0 THEN Stops(Moved(c, r, w), w)
            ELSE IF w < this_len \/ c.part + w = LenOf(c)
                 THEN After(Moved(c, r, w), c.part + w)
            ELSE [Moved(c, r, w) EXCEPT !.part = @ + w]
    IN  UNION {IF r <= 0 THEN {Stops(c, r)} ELSE {Chunks(r, w) : w \in Moves(r)}
               : r \in Moves(min_size(this_len, LeftOf(c)))}

=============================================================================
