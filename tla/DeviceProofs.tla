---------------------------- MODULE DeviceProofs ----------------------------
(***************************************************************************)
(* Theorems about the descriptor of a connection, of its two sides.        *)
(*                                                                         *)
(* FuseData: what a worker moves through its pipe, for every set of        *)
(* messages, every size of them and of the answers, and every outcome of   *)
(* each system call.                                                       *)
(*                                                                         *)
(* FuseMount: for any number of servers, with and without auto_unmount,    *)
(* none takes away the mount of another that runs.                         *)
(***************************************************************************)
EXTENDS FuseData, FuseMount, SequenceTheorems, FiniteSetTheorems, TLAPS

-----------------------------------------------------------------------------
(* What a copy keeps. *)

Uniques == {m.unique : m \in Messages}
Tokens == {Junk} \cup (Uniques \X Int)
BufSet == [fd : BOOLEAN, seek : BOOLEAN, size : Nat, data : Seq(Tokens)]
VecSet == [idx : Nat, off : Nat, bufs : Seq(BufSet)]
CopySet == [at : {"none", "copy", "slow", "over"}, dst : VecSet, src : VecSet,
            force : BOOLEAN, copied : Nat, part : Nat, res : Int]

\* k tokens of u that follow the one with number a.
Run(u, a, k) == [i \in 1 .. k |-> <<u, a + i>>]

\* Memory, or a file, that was written from g on.
Filled(u, p, g, n) ==
    IF n = g THEN <<>> ELSE [i \in 1 .. n |-> IF i <= g THEN Junk ELSE <<u, p + i>>]

\* The buffer of a vector that was used last, and what comes before one.
Cur(v) == IF AtEnd(v) THEN Len(v.bufs) ELSE v.idx
Base(v, j) == IF j = 2 THEN v.bufs[1].size ELSE 0
Pos(v) == Base(v, Cur(v)) + v.off

\* Of the source x was taken from the current buffer; what is left of it, and
\* the buffers behind, goes on with the tokens of u; no more than L was or is in a
\* descriptor that cannot seek.  It may have lost some, unless rest is "all".
Source(v, x, rest, u, p, B, L) ==
    /\ v \in VecSet
    /\ Len(v.bufs) \in 1 .. 2 /\ v.idx \in 1 .. Len(v.bufs) + 1
    /\ x \in 0 .. v.bufs[Cur(v)].size
    /\ AtEnd(v) => x = v.bufs[Cur(v)].size
    /\ \A j \in 1 .. Len(v.bufs) :
         /\ Base(v, j) + v.bufs[j].size <= B
         /\ ~v.bufs[j].fd => v.bufs[j].seek /\ Len(v.bufs[j].data) = v.bufs[j].size
    /\ rest = "all" => \A j \in Cur(v) .. Len(v.bufs) :
         v.bufs[j].data = Run(u, p + Base(v, j) + (IF v.bufs[j].seek \/ j # Cur(v) THEN 0 ELSE x),
                              Len(v.bufs[j].data))
    /\ Len(v.bufs) = 1 /\ ~v.bufs[1].seek =>
         IF rest = "all" THEN Len(v.bufs[1].data) + x = L ELSE Len(v.bufs[1].data) + x <= L

\* In the destination are the first n tokens of u, behind the header in a pipe,
\* and from g on in memory or a file.
Dest(v, n, u, p, g) ==
    /\ v \in VecSet
    /\ Len(v.bufs) = 1 /\ v.idx \in 1 .. 2
    /\ n \in Nat /\ n >= g
    /\ ~v.bufs[1].fd => v.bufs[1].seek
    /\ IF v.bufs[1].seek THEN v.bufs[1].data = Filled(u, p, g, n)
       ELSE g = 0 /\ p = 0 /\ v.bufs[1].data = Run(u, -1, n + 1)

\* k of the current buffers was moved since both were at the same position.
Inner(c, k, rest, u, p, g, B, L) ==
    /\ c \in CopySet
    /\ Source(c.src, c.src.off + k, rest, u, p, B, L)
    /\ Dest(c.dst, g + c.copied + k, u, p, g)
    /\ k \in Nat
    /\ Pos(c.src) = g + c.copied
    /\ c.dst.idx = 1 /\ c.dst.off = g + c.copied
    /\ c.dst.off + k <= c.dst.bufs[1].size
    /\ ~c.dst.bufs[1].seek => c.force

\* A copy to a descriptor that stops early may lose what it has read.
RestIn(c) == IF c.force \/ ~c.dst.bufs[1].fd THEN "all" ELSE "some"

Good(c, u, p, g, B, L) ==
    /\ c \in CopySet
    /\ c.at \in {"copy", "slow"} => Inner(c, c.part, "all", u, p, g, B, L)
    /\ c.at = "copy" => c.part = 0
    /\ c.at = "slow" => /\ ~AtEnd(c.src) /\ ~c.force
                        /\ Current(c.src).fd /\ Current(c.dst).fd
    /\ c.at = "over" =>
         /\ Source(c.src, c.src.off, RestIn(c), u, p, B, L)
         /\ Dest(c.dst, g + (IF c.res > 0 THEN c.res ELSE 0), u, p, g)
         /\ c.res >= 0 => Pos(c.src) = g + c.res
         /\ g + c.res <= B
    /\ c.at # "none"

\* What no step of a copy changes.
AlikeBufs(v2, v) ==
    /\ Len(v2.bufs) = Len(v.bufs)
    /\ \A j \in 1 .. Len(v.bufs) : /\ v2.bufs[j].size = v.bufs[j].size
                                   /\ v2.bufs[j].fd = v.bufs[j].fd
                                   /\ v2.bufs[j].seek = v.bufs[j].seek
Kin(c2, c) == c2.force = c.force /\ AlikeBufs(c2.dst, c.dst) /\ AlikeBufs(c2.src, c.src)

-----------------------------------------------------------------------------
(* The inductive invariant. *)

\* It was sent, and nothing has been done for it yet.
Serves(m) == m \in Messages \ unsent /\ answers[m] = <<>> /\ stored[m] = <<>>

\* Data of m in a message that is in the pipe, or in memory.
Given(m) == IF buf.fd THEN pipe = Run(m.unique, 0, m.size)
            ELSE InPipe = <<>> /\ buf = Mem(m.size + 1, Run(m.unique, -1, m.size + 1))

\* All of m is there.
Received(m) == IF buf.fd THEN pipe = Run(m.unique, -1, m.size + 1) /\ buf.size = m.size + 1
               ELSE Given(m)

\* The copy takes n from the pipe into memory.
FromPipe(n) == /\ Len(copy.src.bufs) = 1 /\ ~copy.src.bufs[1].seek
               /\ ~copy.dst.bufs[1].fd /\ copy.dst.bufs[1].size = n

\* n of the answer was taken from vec; a copy of it goes to memory or the pipe.
Vector(n) == \E L \in Nat : /\ Source(vec, vec.off, "all", msg.unique, 0, MaxReply, L)
                            /\ Pos(vec) = n
Sends(g) == \E L \in Nat : Good(copy, msg.unique, 0, g, MaxReply, L)

\* The header and n of the answer are in the pipe.
Headed(n) == n \in 0 .. MaxReply /\ pipe = Run(msg.unique, -1, n + 1)

\* Where a copy is on its way, a READ is answered, a message is being served.
Taking == {"small", "header", "body", "written", "flat", "gathered", "fill", "rest"}
Sending == {"READ", "send", "fallback", "gathered", "fill", "more", "rest", "device"}
Serving == {"dispatch", "body", "WRITE", "written", "flat", "SETXATTR"} \cup Sending
DataPlaces == {"receive", "exit", "process"} \cup Taking \cup Serving

\* The message that is read, before msg is known.
ServesFirst == \E m \in Messages :
    /\ Serves(m)
    /\ pc = "small" => m.size = 0 /\ Good(copy, m.unique, -1, 0, 1, 1) /\ FromPipe(1)
    /\ pc = "process" => Received(m)
    /\ pc = "header" => Good(copy, m.unique, -1, 0, 1, m.size + 1) /\ FromPipe(1) /\ buf.fd

\* What the steps of any request find.
ServesMessage ==
    /\ Serves(msg)
    /\ pc \in {"dispatch", "WRITE", "written", "flat"} => Given(msg)
    /\ pc \in {"WRITE", "written", "flat"} => msg.opcode = "WRITE"
    /\ pc \in {"body", "written", "flat"} => Good(copy, msg.unique, 0, 0, msg.size, msg.size)
    /\ pc \in {"body", "flat"} => FromPipe(msg.size) /\ buf.fd
    /\ pc = "body" => msg.opcode # "WRITE"
    /\ pc = "written" => /\ copy.dst.bufs[1].fd /\ copy.dst.bufs[1].seek /\ Len(copy.src.bufs) = 1
    /\ pc \in {"written", "flat"} /\ buf.fd => ~copy.src.bufs[1].seek /\ copy.src.bufs[1].size = msg.size
    /\ pc = "SETXATTR" => msg.opcode = "SETXATTR" /\ InPipe = <<>>

\* What those of a READ find.
ServesRead ==
    /\ msg.opcode = "READ"
    /\ pc \in {"READ", "send", "fallback", "gathered"} => InPipe = <<>>
    /\ pc \in {"send", "fallback", "fill"} => Vector(0)
    /\ pc \in {"gathered", "fill"} => Sends(0)
    /\ pc = "gathered" => copy.dst.bufs[1].seek
    /\ pc = "fill" => ~copy.dst.bufs[1].seek /\ copy.force
    /\ pc = "more" => Vector(now_len)
    /\ pc = "rest" => Sends(now_len) /\ copy.dst.bufs[1].seek
    /\ pc \in {"more", "rest", "device"} => Headed(now_len)

\* A message has one answer at most, and what it says is right.
Answered(m) ==
    \/ answers[m] = <<>>
    \/ \E r \in {answers[m][1]} :
         /\ answers[m] = <<r>>
         /\ m.opcode = "WRITE" => r.error \/ r.data = Len(stored[m])
         /\ m.opcode = "READ" => /\ r.unique = Header(m.unique)
                                 /\ \E n \in 0 .. MaxReply : r.data = Data(m.unique, n)

\* What the filesystem and the kernel got is right up to now.
Recorded ==
    /\ unsent \subseteq Messages
    /\ DOMAIN answers = Messages /\ DOMAIN stored = Messages
    /\ \A m \in Messages : Answered(m) /\ \E k \in 0 .. m.size : stored[m] = Data(m.unique, k)
    /\ \A m \in unsent : answers[m] = <<>> /\ stored[m] = <<>>

DataInv ==
    /\ Recorded
    /\ pc \in DataPlaces
    /\ pc = "receive" => InPipe = <<>>
    /\ pc \notin Taking => copy.at = "none"
    /\ pc \in {"small", "process", "header"} => ServesFirst
    /\ pc \in Serving => ServesMessage
    /\ pc \in Sending => ServesRead

-----------------------------------------------------------------------------
(* Runs of tokens. *)

\* A run has its length and its tokens.
LEMMA RunIs ==
    ASSUME NEW u \in Uniques, NEW a \in Int, NEW k \in Nat
    PROVE  /\ Run(u, a, k) \in Seq(Tokens)
           /\ Len(Run(u, a, k)) = k
           /\ \A i \in 1 .. k : Run(u, a, k)[i] = <<u, a + i>>
<1>1. Run(u, a, k) \in [1 .. k -> Tokens]
  BY DEF Run, Tokens
<1>2. Run(u, a, k) \in Seq(Tokens)
  BY <1>1
<1>3. DOMAIN Run(u, a, k) = 1 .. k
  BY DEF Run
<1>4. Len(Run(u, a, k)) \in Nat /\ DOMAIN Run(u, a, k) = 1 .. Len(Run(u, a, k))
  BY <1>2
<1> QED BY <1>2, <1>3, <1>4 DEF Run

\* A sequence of tokens that follow one another is a run.
LEMMA IsRun ==
    ASSUME NEW u \in Uniques, NEW a \in Int, NEW s \in Seq(Tokens),
           \A i \in 1 .. Len(s) : s[i] = <<u, a + i>>
    PROVE  s = Run(u, a, Len(s))
<1>1. Len(s) \in Nat
  OBVIOUS
<1>2. /\ Run(u, a, Len(s)) \in Seq(Tokens) /\ Len(Run(u, a, Len(s))) = Len(s)
      /\ \A i \in 1 .. Len(s) : Run(u, a, Len(s))[i] = <<u, a + i>>
  BY <1>1, RunIs
<1> QED BY <1>2, SeqEqual

\* None of it.
LEMMA RunEmpty == ASSUME NEW u, NEW a PROVE Run(u, a, 0) = <<>>
BY DEF Run

\* A part of a run, and two that are put together.
Part(s, f, j) == SubSeq(s, f, j)
Joined(s, t) == s \o t
Sums(n, k, l) == n = k + l

\* A part of a run is a run.
LEMMA RunPiece ==
    ASSUME NEW u, NEW a, NEW k, NEW i, NEW f, NEW j, NEW b, NEW n,
           u \in Uniques, a \in Int, k \in Nat, i \in Nat, n \in Nat, j \in Int, j <= k,
           Sums(f, i, 1), Sums(j, i, n), Sums(b, a, i)
    PROVE  Part(Run(u, a, k), f, j) = Run(u, b, n)
<1>0. /\ f \in Int /\ b \in Int /\ f >= 1 /\ f <= j + 1 /\ b = a + f - 1 /\ n = j - f + 1
  BY DEF Sums
<1> DEFINE s == Run(u, a, k)
           t == SubSeq(s, f, j)
<1>1. /\ s \in Seq(Tokens) /\ Len(s) = k
      /\ \A x \in 1 .. k : s[x] = <<u, a + x>>
  BY RunIs
<1> HIDE DEF s
<1>2. \A x \in f .. j : s[x] \in Tokens
  <2>1. \A x \in 1 .. Len(s) : s[x] \in Tokens
    BY <1>1, ElementOfSeq
  <2>2. \A x \in f .. j : x \in 1 .. k
    BY <1>0
  <2> QED BY <2>1, <2>2, <1>1
<1>3. /\ t \in Seq(Tokens)
      /\ Len(t) = IF f <= j THEN j - f + 1 ELSE 0
      /\ \A x \in 1 .. j - f + 1 : t[x] = s[f + x - 1]
  BY <1>0, <1>2, SubSeqProperties
<1>4. Len(t) = n
  BY <1>0, <1>3
<1>5. \A x \in 1 .. Len(t) : t[x] = <<u, b + x>>
  <2> SUFFICES ASSUME NEW x \in 1 .. Len(t) PROVE t[x] = <<u, b + x>>
    OBVIOUS
  <2>1. t[x] = s[f + x - 1] /\ f + x - 1 \in 1 .. k
    BY <1>0, <1>3, <1>4
  <2> QED BY <2>1, <1>0, <1>1
<1> HIDE DEF t
<1>7. t = Run(u, b, Len(t))
  BY <1>0, <1>3, <1>5, IsRun
<1>8. t = Run(u, b, n)
  BY <1>4, <1>7
<1> QED BY <1>8 DEF t, s, Part

\* So is its beginning.
LEMMA RunStart ==
    ASSUME NEW u, NEW a, NEW k, NEW w,
           u \in Uniques, a \in Int, k \in Nat, w \in Nat, w <= k
    PROVE  Part(Run(u, a, k), 1, w) = Run(u, a, w)
<1>1. 0 \in Nat /\ w \in Int /\ Sums(1, 0, 1) /\ Sums(w, 0, w) /\ Sums(a, a, 0)
  BY DEF Sums
<1> QED BY <1>1, RunPiece

\* A run goes on with the one that follows it.
LEMMA RunJoined ==
    ASSUME NEW u, NEW a, NEW k, NEW b, NEW l, NEW n,
           u \in Uniques, a \in Int, k \in Nat, b \in Int, l \in Nat, n \in Nat,
           Sums(b, a, k), Sums(n, k, l)
    PROVE  Joined(Run(u, a, k), Run(u, b, l)) = Run(u, a, n)
<1> DEFINE s == Run(u, a, k)
           t == Run(u, b, l)
<1>1. /\ s \in Seq(Tokens) /\ Len(s) = k /\ \A x \in 1 .. k : s[x] = <<u, a + x>>
      /\ t \in Seq(Tokens) /\ Len(t) = l /\ \A x \in 1 .. l : t[x] = <<u, b + x>>
  BY RunIs
<1> HIDE DEF s, t
<1>2. /\ s \o t \in Seq(Tokens) /\ Len(s \o t) = n
      /\ \A x \in 1 .. n : (s \o t)[x] = IF x <= k THEN s[x] ELSE t[x - k]
  BY <1>1, ConcatProperties DEF Sums
<1>3. \A x \in 1 .. n : (s \o t)[x] = <<u, a + x>>
  <2> SUFFICES ASSUME NEW x \in 1 .. n PROVE (s \o t)[x] = <<u, a + x>>
    OBVIOUS
  <2>1. CASE x <= k
    BY <2>1, <1>1, <1>2
  <2>2. CASE x > k
    <3>1. x - k \in 1 .. l /\ b + (x - k) = a + x
      BY <2>2 DEF Sums
    <3>2. t[x - k] = <<u, b + (x - k)>>
      BY <3>1, <1>1
    <3>3. (s \o t)[x] = t[x - k]
      <4>1. (s \o t)[x] = IF x <= k THEN s[x] ELSE t[x - k]
        BY <1>2
      <4>2. ~(x <= k)
        BY <2>2
      <4> QED BY <4>1, <4>2
    <3> QED BY <3>1, <3>2, <3>3
  <2>3. x <= k \/ x > k
    BY <1>1
  <2> QED BY <2>1, <2>2, <2>3
<1>4. s \o t = Run(u, a, n)
  BY <1>2, <1>3, IsRun
<1> QED BY <1>4 DEF s, t, Joined

\* What the kernel sends is a run from its header on.
LEMMA WireIs ==
    ASSUME NEW m \in Messages
    PROVE  /\ m.unique \in Uniques /\ m.size \in Nat
           /\ \A n \in Nat : Data(m.unique, n) = Run(m.unique, 0, n)
           /\ <<Header(m.unique)>> = Run(m.unique, -1, 1)
           /\ Wire(m) = Run(m.unique, -1, m.size + 1)
<1>1. m.unique \in Uniques /\ m.size \in Nat
  BY DataAssumption DEF Uniques
<1>2. \A n \in Nat : Data(m.unique, n) = Run(m.unique, 0, n)
  BY DEF Data, Run
<1>3. <<Header(m.unique)>> = Run(m.unique, -1, 1)
  <2>1. Header(m.unique) = <<m.unique, -1 + 1>> /\ Header(m.unique) \in Tokens
    BY <1>1 DEF Header, Tokens
  <2> DEFINE s == <<Header(m.unique)>>
  <2>2. s \in Seq(Tokens) /\ Len(s) = 1 /\ s[1] = Header(m.unique)
    BY <2>1
  <2>3. \A i \in 1 .. Len(s) : s[i] = <<m.unique, -1 + i>>
    BY <2>1, <2>2
  <2>6. -1 \in Int
    OBVIOUS
  <2> HIDE DEF s
  <2>4. s = Run(m.unique, -1, Len(s))
    BY <2>2, <2>3, <2>6, <1>1, IsRun
  <2>5. s = Run(m.unique, -1, 1)
    BY <2>4, <2>2
  <2> QED BY <2>5 DEF s
<1>4. Wire(m) = Run(m.unique, -1, m.size + 1)
  <2>1. Wire(m) = Run(m.unique, -1, 1) \o Run(m.unique, 0, m.size)
    BY <1>1, <1>2, <1>3 DEF Wire
  <2>2. -1 \in Int /\ 0 \in Int /\ 1 \in Nat /\ 0 = -1 + 1
        /\ m.size + 1 \in Nat /\ m.size + 1 = 1 + m.size
    BY <1>1
  <2> DEFINE n == m.size + 1
             a == -1
  <2> HIDE DEF n, a
  <2>4. a \in Int /\ 0 \in Int /\ 1 \in Nat /\ Sums(0, a, 1) /\ n \in Nat /\ Sums(n, 1, m.size)
    BY <2>2 DEF n, a, Sums
  <2>3. Joined(Run(m.unique, a, 1), Run(m.unique, 0, m.size)) = Run(m.unique, a, n)
    BY <2>4, <1>1, RunJoined
  <2> QED BY <2>1, <2>3 DEF n, a, Joined
<1> QED BY <1>1, <1>2, <1>3, <1>4

-----------------------------------------------------------------------------
(* The source of a copy. *)

\* The current buffer of a source that is not at its end.
LEMMA SourceCurrent ==
    ASSUME NEW v, NEW x, NEW e, NEW u, NEW p, NEW B, NEW L,
           Source(v, x, e, u, p, B, L), ~AtEnd(v)
    PROVE  /\ v \in VecSet /\ Len(v.bufs) \in 1 .. 2 /\ v.idx \in 1 .. Len(v.bufs)
           /\ Cur(v) = v.idx
           /\ Current(v) = v.bufs[v.idx] /\ Current(v) \in BufSet
           /\ x \in 0 .. Current(v).size
           /\ Base(v, v.idx) \in Nat
<1>1. /\ v \in VecSet /\ Len(v.bufs) \in 1 .. 2 /\ v.idx \in 1 .. Len(v.bufs) + 1
      /\ x \in 0 .. v.bufs[Cur(v)].size
  BY DEF Source
<1>2. v.idx \in 1 .. Len(v.bufs) /\ Cur(v) = v.idx
  BY <1>1 DEF AtEnd, Cur
<1>3. v.bufs \in Seq(BufSet)
  BY <1>1 DEF VecSet
<1>4. \A j \in 1 .. Len(v.bufs) : v.bufs[j] \in BufSet
  BY <1>3, ElementOfSeq
<1>5. Base(v, v.idx) \in Nat
  BY <1>1, <1>2, <1>4 DEF Base, BufSet
<1> QED BY <1>1, <1>2, <1>4, <1>5 DEF Current

\* What is read from it are the tokens that come next.
LEMMA SourceBytes ==
    ASSUME NEW v, NEW x, NEW u, NEW p, NEW B, NEW L, NEW w, NEW l, NEW q,
           u \in Uniques, p \in Int, Source(v, x, "all", u, p, B, L), ~AtEnd(v),
           w \in Nat, w > 0, w <= Left(Current(v), x),
           Sums(l, Base(v, v.idx), x), Sums(q, p, l)
    PROVE  Bytes(Current(v), x, w) = Run(u, q, w)
<1> DEFINE b == Current(v)
           a == p + Base(v, v.idx)
<1>1. /\ v.idx \in 1 .. Len(v.bufs) /\ Cur(v) = v.idx /\ b \in BufSet
      /\ b = v.bufs[v.idx] /\ x \in Nat /\ a \in Int /\ Len(v.bufs) \in Nat
  <2>1. /\ v.idx \in 1 .. Len(v.bufs) /\ Cur(v) = v.idx /\ b \in BufSet
        /\ b = v.bufs[v.idx] /\ x \in 0 .. b.size /\ Len(v.bufs) \in 1 .. 2
        /\ Base(v, v.idx) \in Nat
    BY SourceCurrent
  <2>2. b.size \in Nat
    BY <2>1 DEF BufSet
  <2> QED BY <2>1, <2>2
<1>2. b.data = Run(u, a + (IF b.seek THEN 0 ELSE x), Len(b.data))
  <2>1. v.idx \in Cur(v) .. Len(v.bufs)
    BY <1>1
  <2>3. \A j \in Cur(v) .. Len(v.bufs) :
           v.bufs[j].data = Run(u, p + Base(v, j) + (IF v.bufs[j].seek \/ j # Cur(v) THEN 0 ELSE x),
                                Len(v.bufs[j].data))
    BY DEF Source
  <2>2. b.data = Run(u, p + Base(v, v.idx) + (IF b.seek \/ v.idx # Cur(v) THEN 0 ELSE x), Len(b.data))
    <3>1. v.bufs[v.idx].data = Run(u, p + Base(v, v.idx) + (IF v.bufs[v.idx].seek \/ v.idx # Cur(v) THEN 0 ELSE x),
                                   Len(v.bufs[v.idx].data))
      BY <2>1, <2>3
    <3>2. b = v.bufs[v.idx]
      BY <1>1
    <3> HIDE DEF b
    <3> QED BY <3>1, <3>2
  <2> QED BY <2>2, <1>1
<1>3. Len(b.data) \in Nat /\ b.seek \in BOOLEAN
  BY <1>1 DEF BufSet
<1>6. q = a + x
  <2>1. Base(v, v.idx) \in Nat
    BY SourceCurrent
  <2> QED BY <2>1, <1>1 DEF Sums
<1> HIDE DEF b, a
<1>4. CASE b.seek
  <2>1. b.data = Run(u, a, Len(b.data))
    BY <1>1, <1>2, <1>4
  <2>2. x + w <= Len(b.data)
    BY <1>1, <1>3, <1>4 DEF Left, b
  <2>5. SubSeq(b.data, x + 1, x + w) = Run(u, a + x, w)
    <3> DEFINE n == Len(b.data)
               f == x + 1
               j == x + w
               y == a + x
    <3>1. /\ a \in Int /\ n \in Nat /\ j \in Int /\ j <= n /\ x \in Nat
          /\ Sums(f, x, 1) /\ Sums(j, x, w) /\ Sums(y, a, x)
      BY <1>1, <1>3, <2>2 DEF Sums
    <3> HIDE DEF n, f, j, y
    <3>2. Part(Run(u, a, n), f, j) = Run(u, y, w)
      BY <3>1, RunPiece
    <3> QED BY <3>2, <2>1 DEF n, f, j, y, Part
  <2> QED BY <2>5, <1>4, <1>6 DEF Bytes, b, a
<1>5. CASE ~b.seek
  <2>1. b.data = Run(u, a + x, Len(b.data))
    BY <1>2, <1>5
  <2>2. w <= Len(b.data)
    BY <1>1, <1>3, <1>5 DEF Left, b
  <2>3. SubSeq(b.data, 1, w) = Run(u, a + x, w)
    <3> DEFINE n == Len(b.data)
               y == a + x
    <3>1. n \in Nat /\ y \in Int /\ w <= n
      BY <1>1, <1>3, <2>2
    <3> HIDE DEF n, y
    <3>2. Part(Run(u, y, n), 1, w) = Run(u, y, w)
      BY <3>1, RunStart
    <3> QED BY <3>2, <2>1 DEF n, y, Part
  <2> QED BY <2>3, <1>5, <1>6 DEF Bytes, b, a
<1> QED BY <1>4, <1>5

\* What Put leaves of a vector.
LEMMA PutIs ==
    ASSUME NEW v, NEW b, v \in VecSet, v.idx \in 1 .. Len(v.bufs), b \in BufSet
    PROVE  /\ Put(v, b) \in VecSet
           /\ Put(v, b).idx = v.idx /\ Put(v, b).off = v.off
           /\ Len(Put(v, b).bufs) = Len(v.bufs)
           /\ Put(v, b).bufs[v.idx] = b
           /\ \A j \in 1 .. Len(v.bufs) : j # v.idx => Put(v, b).bufs[j] = v.bufs[j]
<1>1. v.bufs \in Seq(BufSet)
  BY DEF VecSet
<1> DEFINE s == [v.bufs EXCEPT ![v.idx] = b]
<1>2. /\ s \in Seq(BufSet) /\ Len(s) = Len(v.bufs)
      /\ \A j \in 1 .. Len(v.bufs) : s[j] = IF j = v.idx THEN b ELSE v.bufs[j]
  BY <1>1, ExceptSeq
<1>3. Put(v, b) = [v EXCEPT !.bufs = s]
  BY DEF Put
<1> HIDE DEF s
<1> QED BY <1>2, <1>3 DEF VecSet

\* What is taken from a buffer is gone only if it cannot seek.
LEMMA ConsumedIs ==
    ASSUME NEW b \in BufSet, NEW r \in Nat, r > 0, ~b.seek => r <= Len(b.data)
    PROVE  /\ Consumed(b, r) \in BufSet
           /\ Consumed(b, r).fd = b.fd /\ Consumed(b, r).seek = b.seek
           /\ Consumed(b, r).size = b.size
           /\ b.seek => Consumed(b, r) = b
           /\ ~b.seek => /\ Consumed(b, r).data = SubSeq(b.data, r + 1, Len(b.data))
                         /\ Len(Consumed(b, r).data) = Len(b.data) - r
<1>1. CASE b.seek
  BY <1>1 DEF Consumed
<1>2. CASE ~b.seek
  <2>1. b.data \in Seq(Tokens) /\ Len(b.data) \in Nat
    BY DEF BufSet
  <2> DEFINE n == Len(b.data)
             t == SubSeq(b.data, r + 1, n)
  <2>2. \A i \in r + 1 .. n : b.data[i] \in Tokens
    BY <2>1
  <2>3. t \in Seq(Tokens) /\ Len(t) = IF r + 1 <= n THEN n - (r + 1) + 1 ELSE 0
    <3>1. r + 1 \in Int /\ n \in Int
      BY <2>1
    <3> QED BY <2>2, <3>1, SubSeqProperties
  <2>4. Len(t) = n - r
    BY <2>1, <2>3, <1>2
  <2>5. Consumed(b, r) = [b EXCEPT !.data = t]
    BY <1>2 DEF Consumed
  <2> HIDE DEF t
  <2>6. t \in Seq(Tokens)
    BY <2>3
  <2>7. [b EXCEPT !.data = t] \in BufSet /\ [b EXCEPT !.data = t].data = t
    BY <2>6 DEF BufSet
  <2> QED BY <2>4, <2>5, <2>7, <1>2 DEF BufSet, t
<1> QED BY <1>1, <1>2

\* After r was taken from the current buffer.
LEMMA TakenIs ==
    ASSUME NEW v, NEW x, NEW u, NEW p, NEW B, NEW L, NEW r, NEW v2,
           u \in Uniques, p \in Int, L \in Nat,
           Source(v, x, "all", u, p, B, L), ~AtEnd(v),
           r \in Nat, r > 0, r <= Left(Current(v), x),
           v2 = Put(v, Consumed(Current(v), r))
    PROVE  /\ v2.idx = v.idx /\ v2.off = v.off /\ ~AtEnd(v2) /\ Cur(v2) = v2.idx
           /\ Current(v2).size = Current(v).size /\ Current(v2).fd = Current(v).fd
           /\ Pos(v2) = Pos(v) /\ AlikeBufs(v2, v)
           /\ v2 \in VecSet
<1> DEFINE b == Current(v)
           c == Consumed(b, r)
<1>1. /\ v \in VecSet /\ Len(v.bufs) \in 1 .. 2 /\ v.idx \in 1 .. Len(v.bufs)
      /\ Cur(v) = v.idx /\ b = v.bufs[v.idx] /\ b \in BufSet
      /\ x \in 0 .. b.size /\ Base(v, v.idx) \in Nat
  BY SourceCurrent
<1>2. /\ b.size \in Nat /\ b.seek \in BOOLEAN /\ b.fd \in BOOLEAN /\ b.data \in Seq(Tokens)
      /\ Len(b.data) \in Nat /\ x \in Nat
  <2>1. b \in BufSet /\ x \in 0 .. b.size
    BY <1>1
  <2> HIDE DEF b
  <2>2. b.size \in Nat /\ b.seek \in BOOLEAN /\ b.fd \in BOOLEAN /\ b.data \in Seq(Tokens)
    BY <2>1 DEF BufSet
  <2>3. Len(b.data) \in Nat
    BY <2>2
  <2>4. x \in Nat
    BY <2>1, <2>2
  <2> QED BY <2>2, <2>3, <2>4
<1>3. ~b.seek => r <= Len(b.data)
  BY <1>2 DEF Left
<1> HIDE DEF b
<1>4. /\ c \in BufSet /\ c.fd = b.fd /\ c.seek = b.seek /\ c.size = b.size
      /\ b.seek => c = b
      /\ ~b.seek => c.data = SubSeq(b.data, r + 1, Len(b.data)) /\ Len(c.data) = Len(b.data) - r
  BY <1>1, <1>3, ConsumedIs
<1>5. v2 = Put(v, c)
  BY DEF b
<1> HIDE DEF c
<1>6. /\ v2 \in VecSet /\ v2.idx = v.idx /\ v2.off = v.off /\ Len(v2.bufs) = Len(v.bufs)
      /\ v2.bufs[v.idx] = c
      /\ \A j \in 1 .. Len(v.bufs) : j # v.idx => v2.bufs[j] = v.bufs[j]
  <2>1. v \in VecSet /\ v.idx \in 1 .. Len(v.bufs) /\ c \in BufSet
    BY <1>1, <1>4
  <2> QED BY <2>1, <1>5, PutIs
<1>7. /\ ~AtEnd(v2) /\ Cur(v2) = v2.idx
      /\ Current(v2) = c
  BY <1>1, <1>6 DEF AtEnd, Cur, Current
<1>8. \A j \in 1 .. Len(v.bufs) : /\ v2.bufs[j].size = v.bufs[j].size
                                  /\ v2.bufs[j].fd = v.bufs[j].fd
                                  /\ v2.bufs[j].seek = v.bufs[j].seek
                                  /\ v.bufs[j].seek => v2.bufs[j] = v.bufs[j]
  BY <1>1, <1>4, <1>6
<1>9. \A j \in 1 .. Len(v.bufs) : Base(v2, j) = Base(v, j)
  BY <1>8, <1>1 DEF Base
<1>10. Pos(v2) = Pos(v)
  BY <1>1, <1>6, <1>7, <1>9 DEF Pos
<1>12. AlikeBufs(v2, v)
  BY <1>6, <1>8 DEF AlikeBufs
<1> QED BY <1>4, <1>6, <1>7, <1>10, <1>12 DEF b

\* What w of it having gone on leaves.
LEMMA SourceTaken ==
    ASSUME NEW v, NEW x, NEW u, NEW p, NEW B, NEW L, NEW r, NEW w, NEW y, NEW f, NEW v2,
           u \in Uniques, p \in Int, L \in Nat,
           Source(v, x, "all", u, p, B, L), ~AtEnd(v),
           r \in Nat, r > 0, r <= Left(Current(v), x),
           w \in Nat, w <= r, Sums(y, x, w), y <= Current(v).size, f = "all" => w = r,
           v2 = Put(v, Consumed(Current(v), r))
    PROVE  Source(v2, y, f, u, p, B, L)
<1> DEFINE b == Current(v)
           c == Consumed(b, r)
<1>0. y = x + w
  BY DEF Sums
<1>1. /\ v \in VecSet /\ Len(v.bufs) \in 1 .. 2 /\ v.idx \in 1 .. Len(v.bufs)
      /\ Cur(v) = v.idx /\ b = v.bufs[v.idx] /\ b \in BufSet
      /\ x \in 0 .. b.size /\ Base(v, v.idx) \in Nat
  BY SourceCurrent
<1>2. /\ b.size \in Nat /\ b.seek \in BOOLEAN /\ b.fd \in BOOLEAN /\ b.data \in Seq(Tokens)
      /\ Len(b.data) \in Nat /\ x \in Nat
  <2>1. b \in BufSet /\ x \in 0 .. b.size
    BY <1>1
  <2> HIDE DEF b
  <2>2. b.size \in Nat /\ b.seek \in BOOLEAN /\ b.fd \in BOOLEAN /\ b.data \in Seq(Tokens)
    BY <2>1 DEF BufSet
  <2>3. Len(b.data) \in Nat
    BY <2>2
  <2>4. x \in Nat
    BY <2>1, <2>2
  <2> QED BY <2>2, <2>3, <2>4
<1>3. ~b.seek => r <= Len(b.data)
  BY <1>2 DEF Left
<1> HIDE DEF b
<1>4. /\ c \in BufSet /\ c.fd = b.fd /\ c.seek = b.seek /\ c.size = b.size
      /\ b.seek => c = b
      /\ ~b.seek => c.data = SubSeq(b.data, r + 1, Len(b.data)) /\ Len(c.data) = Len(b.data) - r
  BY <1>1, <1>3, ConsumedIs
<1>5. v2 = Put(v, c)
  BY DEF b
<1> HIDE DEF c
<1>6. /\ v2 \in VecSet /\ v2.idx = v.idx /\ v2.off = v.off /\ Len(v2.bufs) = Len(v.bufs)
      /\ v2.bufs[v.idx] = c
      /\ \A j \in 1 .. Len(v.bufs) : j # v.idx => v2.bufs[j] = v.bufs[j]
  <2>1. v \in VecSet /\ v.idx \in 1 .. Len(v.bufs) /\ c \in BufSet
    BY <1>1, <1>4
  <2> QED BY <2>1, <1>5, PutIs
<1>7. /\ ~AtEnd(v2) /\ Cur(v2) = v2.idx
      /\ Current(v2) = c
  BY <1>1, <1>6 DEF AtEnd, Cur, Current
<1>8. \A j \in 1 .. Len(v.bufs) : /\ v2.bufs[j].size = v.bufs[j].size
                                  /\ v2.bufs[j].fd = v.bufs[j].fd
                                  /\ v2.bufs[j].seek = v.bufs[j].seek
                                  /\ v.bufs[j].seek => v2.bufs[j] = v.bufs[j]
  BY <1>1, <1>4, <1>6
<1>9. \A j \in 1 .. Len(v.bufs) : Base(v2, j) = Base(v, j)
  BY <1>8, <1>1 DEF Base
<1>11. Source(v2, x + w, f, u, p, B, L)
  <2>1. /\ v2 \in VecSet /\ Len(v2.bufs) \in 1 .. 2 /\ v2.idx \in 1 .. Len(v2.bufs) + 1
        /\ x + w \in 0 .. v2.bufs[Cur(v2)].size
        /\ AtEnd(v2) => x + w = v2.bufs[Cur(v2)].size
    <3>1. v2 \in VecSet /\ Len(v2.bufs) \in 1 .. 2 /\ v2.idx \in 1 .. Len(v2.bufs)
      BY <1>1, <1>6
    <3>2. v2.idx \in 1 .. Len(v2.bufs) + 1
      BY <3>1
    <3>3. v2.bufs[Cur(v2)].size = b.size
      BY <1>4, <1>6, <1>7
    <3>4. x + w \in 0 .. b.size
      BY <1>0, <1>2 DEF b
    <3> QED BY <3>1, <3>2, <3>3, <3>4, <1>7
  <2>2. \A j \in 1 .. Len(v2.bufs) :
         /\ Base(v2, j) + v2.bufs[j].size <= B
         /\ ~v2.bufs[j].fd => v2.bufs[j].seek /\ Len(v2.bufs[j].data) = v2.bufs[j].size
    <3> SUFFICES ASSUME NEW j \in 1 .. Len(v.bufs)
                 PROVE  /\ Base(v2, j) + v2.bufs[j].size <= B
                        /\ ~v2.bufs[j].fd => v2.bufs[j].seek /\ Len(v2.bufs[j].data) = v2.bufs[j].size
      BY <1>6
    <3>1. /\ Base(v, j) + v.bufs[j].size <= B
          /\ ~v.bufs[j].fd => v.bufs[j].seek /\ Len(v.bufs[j].data) = v.bufs[j].size
      BY DEF Source
    <3> QED BY <3>1, <1>8, <1>9
  <2>3. ASSUME f = "all", NEW j \in Cur(v2) .. Len(v2.bufs)
        PROVE  v2.bufs[j].data = Run(u, p + Base(v2, j) + (IF v2.bufs[j].seek \/ j # Cur(v2) THEN 0 ELSE x + w),
                                     Len(v2.bufs[j].data))
    <3>0. j \in v.idx .. Len(v.bufs) /\ j \in 1 .. Len(v.bufs) /\ Cur(v2) = v.idx /\ j \in Cur(v) .. Len(v.bufs)
      BY <2>3, <1>1, <1>6, <1>7
    <3>1. v.bufs[j].data = Run(u, p + Base(v, j) + (IF v.bufs[j].seek \/ j # Cur(v) THEN 0 ELSE x),
                               Len(v.bufs[j].data))
      BY <3>0 DEF Source
    <3>2. CASE v.bufs[j].seek \/ j # v.idx
      <4>1. v2.bufs[j] = v.bufs[j] /\ Base(v2, j) = Base(v, j)
        BY <3>0, <3>2, <1>6, <1>8, <1>9
      <4> QED BY <4>1, <3>0, <3>1, <3>2, <1>1
    <3>3. CASE ~v.bufs[j].seek /\ j = v.idx
      <4> DEFINE a == p + Base(v, v.idx) + x
                 n == Len(b.data)
                 h == r + 1
                 d == p + Base(v, v.idx) + (x + w)
                 k == n - r
      <4>1. b.data = Run(u, a, n)
        BY <3>1, <3>3, <1>1 DEF b
      <4>6. w = r
        BY <2>3
      <4>2. /\ a \in Int /\ n \in Nat /\ n \in Int /\ n <= n /\ r \in Nat /\ k \in Nat
            /\ Sums(h, r, 1) /\ Sums(n, r, k) /\ Sums(d, a, r)
        <5> DEFINE q == p + Base(v, v.idx)
        <5>1. q \in Int /\ x \in Nat /\ n \in Nat /\ r \in Nat /\ r <= n /\ w = r
              /\ a = q + x /\ d = q + (x + w)
          <6>1. r <= n
            BY <1>1, <1>3, <3>3
          <6>2. q \in Int
            BY <1>1
          <6> HIDE DEF q
          <6> QED BY <6>1, <6>2, <4>6, <1>2 DEF q
        <5> HIDE DEF q, a, d, n
        <5> QED BY <5>1 DEF Sums
      <4>3. c.data = Part(b.data, h, n) /\ Len(c.data) = k
        BY <1>4, <3>3, <1>1 DEF Part
      <4> HIDE DEF a, n, h, d, k
      <4>4. Part(Run(u, a, n), h, n) = Run(u, d, k)
        BY <4>2, RunPiece
      <4>5. c.data = Run(u, d, Len(c.data))
        BY <4>1, <4>3, <4>4
      <4>7. v2.bufs[j] = c /\ Base(v2, j) = Base(v, v.idx) /\ ~c.seek /\ j = Cur(v2)
        BY <3>0, <3>3, <1>1, <1>4, <1>6, <1>9
      <4>8. p + Base(v2, j) + (IF v2.bufs[j].seek \/ j # Cur(v2) THEN 0 ELSE x + w) = d
        BY <4>7 DEF d
      <4> QED BY <4>5, <4>7, <4>8
    <3> QED BY <3>2, <3>3
  <2>4. ASSUME Len(v2.bufs) = 1, ~v2.bufs[1].seek
        PROVE  IF f = "all" THEN Len(v2.bufs[1].data) + (x + w) = L ELSE Len(v2.bufs[1].data) + (x + w) <= L
    <3>1. v.idx = 1 /\ Len(v.bufs) = 1 /\ ~v.bufs[1].seek /\ v2.bufs[1] = c /\ b = v.bufs[1]
      BY <2>4, <1>1, <1>6, <1>8
    <3>2. Len(b.data) + x = L
      BY <3>1 DEF Source
    <3>3. Len(c.data) = Len(b.data) - r
      BY <3>1, <1>4
    <3>4. Len(c.data) + (x + w) = L - r + w
      <4> DEFINE k == Len(c.data)
                 m == Len(b.data)
      <4>1. m \in Nat /\ m + x = L /\ k = m - r
        BY <3>2, <3>3, <1>2
      <4> HIDE DEF k, m
      <4>2. k + (x + w) = L - r + w
        BY <4>1, <1>2
      <4> QED BY <4>2 DEF k
    <3> QED BY <3>1, <3>4
  <2> QED BY <2>1, <2>2, <2>3, <2>4 DEF Source
<1> QED BY <1>0, <1>11

\* fuse_bufvec_advance of a source.
LEMMA SourceAdvanced ==
    ASSUME NEW v, NEW x, NEW k, NEW e, NEW u, NEW p, NEW B, NEW L, NEW v2,
           u \in Uniques, p \in Int, L \in Nat, k \in Nat, Sums(x, v.off, k),
           Source(v, x, e, u, p, B, L), ~AtEnd(v),
           v2 = fuse_bufvec_advance(v, k)
    PROVE  /\ Source(v2, v2.off, e, u, p, B, L)
           /\ Pos(v2) = Pos(v) + k
           /\ v2.bufs = v.bufs
<1> DEFINE b == Current(v)
           n == Len(v.bufs)
<1>0. x = v.off + k
  BY DEF Sums
<1>1. /\ v \in VecSet /\ n \in 1 .. 2 /\ v.idx \in 1 .. n /\ n \in Nat
      /\ Cur(v) = v.idx /\ b = v.bufs[v.idx] /\ b \in BufSet
      /\ x \in 0 .. b.size /\ Base(v, v.idx) \in Nat
  BY SourceCurrent
<1>2. /\ b.size \in Nat /\ v.off \in Nat /\ x \in Nat
  BY <1>1 DEF BufSet, VecSet
<1>3. Pos(v) = Base(v, v.idx) + v.off
  BY <1>1 DEF Pos
<1>4. \A j \in 1 .. n : v.bufs[j] \in BufSet
  <2>1. v.bufs \in Seq(BufSet)
    BY <1>1 DEF VecSet
  <2> QED BY <2>1, ElementOfSeq
<1> HIDE DEF b, n
<1>5. CASE x < b.size
  <2>1. v2 = [v EXCEPT !.off = x]
    BY <1>0, <1>5 DEF fuse_bufvec_advance, b
  <2>2. v2 \in VecSet /\ v2.off = x /\ v2.idx = v.idx /\ v2.bufs = v.bufs
    BY <1>1, <1>2, <2>1 DEF VecSet
  <2>3. ~AtEnd(v2) /\ Cur(v2) = Cur(v) /\ \A j : Base(v2, j) = Base(v, j)
    BY <2>2 DEF AtEnd, Cur, Base
  <2>4. Source(v2, v2.off, e, u, p, B, L)
    BY <2>2, <2>3 DEF Source
  <2>5. Pos(v2) = Pos(v) + k
    BY <1>0, <1>1, <1>2, <1>3, <2>2, <2>3 DEF Pos
  <2> QED BY <2>2, <2>4, <2>5
<1>6. CASE x = b.size /\ v.idx = n
  <2>1. v2 = [v EXCEPT !.idx = v.idx + 1, !.off = x]
    BY <1>0, <1>6, <1>2 DEF fuse_bufvec_advance, b, n
  <2>2. v2 \in VecSet /\ v2.off = x /\ v2.idx = v.idx + 1 /\ v2.bufs = v.bufs
    <3> DEFINE i == v.idx + 1
    <3>1. i \in Nat /\ x \in Nat
      BY <1>1, <1>2
    <3> HIDE DEF i
    <3>2. v2 = [v EXCEPT !.idx = i, !.off = x]
      BY <2>1 DEF i
    <3>3. v2 \in VecSet /\ v2.off = x /\ v2.idx = i /\ v2.bufs = v.bufs
      BY <1>1, <3>1, <3>2 DEF VecSet
    <3> QED BY <3>3 DEF i
  <2>3. AtEnd(v2) /\ Cur(v2) = Cur(v) /\ \A j : Base(v2, j) = Base(v, j)
    BY <1>1, <1>6, <2>2 DEF AtEnd, Cur, Base, n
  <2>4. v2.idx \in 1 .. Len(v2.bufs) + 1 /\ v2.off = v2.bufs[Cur(v2)].size
    BY <1>1, <1>6, <2>2, <2>3 DEF n
  <2>5. Source(v2, v2.off, e, u, p, B, L)
    BY <2>2, <2>3, <2>4 DEF Source
  <2>6. Pos(v2) = Pos(v) + k
    BY <1>0, <1>1, <1>2, <1>3, <2>2, <2>3 DEF Pos
  <2> QED BY <2>2, <2>5, <2>6
<1>7. CASE x = b.size /\ v.idx # n
  <2>1. v2 = [v EXCEPT !.idx = v.idx + 1, !.off = 0]
    BY <1>0, <1>7, <1>2 DEF fuse_bufvec_advance, b, n
  <2>2. v2 \in VecSet /\ v2.off = 0 /\ v2.idx = v.idx + 1 /\ v2.bufs = v.bufs
    <3> DEFINE i == v.idx + 1
    <3>1. i \in Nat /\ 0 \in Nat
      BY <1>1, <1>2
    <3> HIDE DEF i
    <3>2. v2 = [v EXCEPT !.idx = i, !.off = 0]
      BY <2>1 DEF i
    <3>3. v2 \in VecSet /\ v2.off = 0 /\ v2.idx = i /\ v2.bufs = v.bufs
      BY <1>1, <3>1, <3>2 DEF VecSet
    <3> QED BY <3>3 DEF i
  <2>3. v.idx = 1 /\ n = 2
    BY <1>1, <1>7
  <2>4. v2.idx = 2 /\ Len(v2.bufs) = 2 /\ ~AtEnd(v2) /\ Cur(v2) = 2 /\ \A j : Base(v2, j) = Base(v, j)
    BY <2>2, <2>3 DEF AtEnd, Cur, Base, n
  <2>5. v2.off \in 0 .. v2.bufs[Cur(v2)].size
    <3>1. v.bufs[2].size \in Nat
      BY <1>4, <2>3 DEF BufSet
    <3> QED BY <3>1, <2>2, <2>4
  <2>6. ASSUME e = "all", NEW j \in Cur(v2) .. Len(v2.bufs)
        PROVE  v2.bufs[j].data = Run(u, p + Base(v2, j) + (IF v2.bufs[j].seek \/ j # Cur(v2) THEN 0 ELSE v2.off),
                                     Len(v2.bufs[j].data))
    <3>1. j = 2 /\ j \in Cur(v) .. Len(v.bufs) /\ j # Cur(v)
      BY <2>3, <2>4, <1>1 DEF n
    <3>2. v.bufs[j].data = Run(u, p + Base(v, j) + (IF v.bufs[j].seek \/ j # Cur(v) THEN 0 ELSE x),
                               Len(v.bufs[j].data))
      BY <2>6, <3>1 DEF Source
    <3>3. v.bufs[j].data = Run(u, p + Base(v, j) + 0, Len(v.bufs[j].data))
      BY <3>1, <3>2
    <3>4. p + Base(v2, j) + (IF v2.bufs[j].seek \/ j # Cur(v2) THEN 0 ELSE v2.off) = p + Base(v, j) + 0
      BY <2>2, <2>4
    <3> QED BY <3>3, <3>4, <2>2
  <2>7. \A j \in 1 .. Len(v2.bufs) :
         /\ Base(v2, j) + v2.bufs[j].size <= B
         /\ ~v2.bufs[j].fd => v2.bufs[j].seek /\ Len(v2.bufs[j].data) = v2.bufs[j].size
    <3>1. \A j \in 1 .. Len(v.bufs) :
           /\ Base(v, j) + v.bufs[j].size <= B
           /\ ~v.bufs[j].fd => v.bufs[j].seek /\ Len(v.bufs[j].data) = v.bufs[j].size
      BY DEF Source
    <3> QED BY <3>1, <2>2, <2>4
  <2>8. Source(v2, v2.off, e, u, p, B, L)
    <3>1. Len(v2.bufs) \in 1 .. 2 /\ v2.idx \in 1 .. Len(v2.bufs) + 1 /\ Len(v2.bufs) # 1
      BY <2>4
    <3> QED BY <3>1, <2>2, <2>4, <2>5, <2>6, <2>7 DEF Source
  <2>9. Pos(v2) = Pos(v) + k
    <3>1. Base(v, 2) = b.size /\ Base(v, v.idx) = 0
      BY <1>1, <2>3 DEF Base
    <3> QED BY <1>0, <3>1, <1>2, <1>3, <1>7, <2>2, <2>3, <2>4 DEF Pos
  <2> QED BY <2>2, <2>8, <2>9
<1> QED BY <1>1, <1>2, <1>5, <1>6, <1>7

-----------------------------------------------------------------------------
(* The destination of a copy. *)

\* Memory that was written from the beginning on is a run.
LEMMA FilledIs ==
    ASSUME NEW u, NEW p, NEW g, NEW n,
           u \in Uniques, p \in Int, g \in Nat, n \in Nat, g <= n
    PROVE  /\ Filled(u, p, g, n) \in Seq(Tokens)
           /\ Len(Filled(u, p, g, n)) = IF n = g THEN 0 ELSE n
           /\ n # g => Filled(u, p, g, n) = [i \in 1 .. n |-> IF i <= g THEN Junk ELSE <<u, p + i>>]
           /\ g = 0 => Filled(u, p, g, n) = Run(u, p, n)
<1>1. CASE n = g
  BY <1>1 DEF Filled, Run
<1>2. CASE n # g
  <2> DEFINE s == [i \in 1 .. n |-> IF i <= g THEN Junk ELSE <<u, p + i>>]
  <2>1. s \in [1 .. n -> Tokens]
    BY DEF Tokens
  <2>2. s \in Seq(Tokens) /\ DOMAIN s = 1 .. n
    BY <2>1
  <2>3. Len(s) = n
    BY <2>2, LenProperties
  <2>4. g = 0 => s = Run(u, p, n)
    BY DEF Run
  <2> HIDE DEF s
  <2>5. Filled(u, p, g, n) = s
    BY <1>2 DEF Filled, s
  <2> QED BY <2>2, <2>3, <2>4, <2>5, <1>2 DEF s
<1> QED BY <1>1, <1>2

\* What is written goes on where the destination was.
LEMMA DestStored ==
    ASSUME NEW v, NEW n, NEW u, NEW p, NEW g, NEW w, NEW t, NEW v2, NEW k, NEW q,
           u \in Uniques, p \in Int, g \in Nat, Dest(v, n, u, p, g), v.idx = 1,
           w \in Nat, w > 0, Sums(k, n, w), Sums(q, p, n), t = Run(u, q, w),
           v2 = Put(v, Stored(Current(v), n, t))
    PROVE  /\ Dest(v2, k, u, p, g)
           /\ v2.idx = 1 /\ v2.off = v.off
           /\ v2.bufs[1].size = v.bufs[1].size /\ v2.bufs[1].fd = v.bufs[1].fd
           /\ v2.bufs[1].seek = v.bufs[1].seek
<1> DEFINE b == v.bufs[1]
           c == Stored(b, n, t)
<1>0. k = n + w /\ q = p + n
  BY DEF Sums
<1>1. /\ v \in VecSet /\ Len(v.bufs) = 1 /\ v.idx \in 1 .. Len(v.bufs) /\ n \in Nat /\ g <= n
      /\ Current(v) = b /\ k \in Nat /\ q \in Int
  BY <1>0 DEF Dest, Current
<1>2. b \in BufSet
  <2>1. v.bufs \in Seq(BufSet) /\ 1 \in 1 .. Len(v.bufs)
    BY <1>1 DEF VecSet
  <2> QED BY <2>1, ElementOfSeq
<1>3. t \in Seq(Tokens) /\ Len(t) = w /\ \A i \in 1 .. w : t[i] = <<u, q + i>>
  BY <1>1, RunIs
<1>4. /\ b.data \in Seq(Tokens) /\ b.seek \in BOOLEAN /\ b.fd \in BOOLEAN /\ b.size \in Nat
  BY <1>2 DEF BufSet
<1> HIDE DEF b
<1>5. /\ c = [b EXCEPT !.data = c.data] /\ c.data \in Seq(Tokens)
      /\ IF b.seek THEN c.data = Filled(u, p, g, k)
         ELSE g = 0 /\ p = 0 /\ c.data = Run(u, -1, k + 1)
  <2>1. CASE ~b.seek
    <3>1. g = 0 /\ p = 0 /\ b.data = Run(u, -1, n + 1)
      BY <2>1 DEF Dest, b
    <3>2. c = [b EXCEPT !.data = b.data \o t]
      BY <2>1 DEF Stored
    <3>3. c.data = b.data \o t /\ c = [b EXCEPT !.data = c.data]
      BY <3>2, <1>2 DEF BufSet
    <3>4. b.data \o t = Run(u, -1, (n + 1) + w)
      <4> DEFINE a == -1
                 l == n + 1
                 z == (n + 1) + w
      <4>1. a \in Int /\ l \in Nat /\ q \in Int /\ Sums(q, a, l) /\ z \in Nat /\ Sums(z, l, w)
        BY <1>0, <1>1, <3>1 DEF Sums
      <4> HIDE DEF a, l, z
      <4>2. Joined(Run(u, a, l), Run(u, q, w)) = Run(u, a, z)
        BY <4>1, RunJoined
      <4> QED BY <4>2, <3>1 DEF a, l, z, Joined
    <3>5. (n + 1) + w = k + 1
      BY <1>0, <1>1
    <3>6. b.data \o t \in Seq(Tokens)
      BY <1>3, <1>4, ConcatProperties
    <3> QED BY <2>1, <3>1, <3>3, <3>4, <3>5, <3>6
  <2>2. CASE b.seek
    <3>1. b.data = Filled(u, p, g, n)
      BY <2>2 DEF Dest, b
    <3>2. /\ Len(b.data) = IF n = g THEN 0 ELSE n
          /\ n # g => b.data = [i \in 1 .. n |-> IF i <= g THEN Junk ELSE <<u, p + i>>]
      BY <3>1, <1>1, FilledIs
    <3>3. n + Len(t) = k /\ k > Len(b.data) /\ k # g /\ g <= k
      BY <1>0, <1>1, <1>3, <3>2
    <3> DEFINE d == [i \in 1 .. k |-> IF i \in n + 1 .. k THEN t[i - n]
                                      ELSE IF i <= Len(b.data) THEN b.data[i] ELSE Junk]
    <3>4. c = [b EXCEPT !.data = d]
      BY <2>2, <3>3 DEF Stored
    <3>5. \A i \in 1 .. k : d[i] = IF i <= g THEN Junk ELSE <<u, p + i>>
      <4> SUFFICES ASSUME NEW i \in 1 .. k PROVE d[i] = IF i <= g THEN Junk ELSE <<u, p + i>>
        OBVIOUS
      <4>1. CASE i \in n + 1 .. k
        <5>1. i - n \in 1 .. w /\ q + (i - n) = p + i /\ ~(i <= g)
          BY <4>1, <1>0, <1>1
        <5>2. d[i] = t[i - n]
          BY <4>1
        <5> QED BY <5>1, <5>2, <1>3
      <4>2. CASE i \notin n + 1 .. k /\ n # g
        <5>1. i \in 1 .. n /\ i <= Len(b.data)
          BY <4>2, <1>1, <3>2
        <5>2. d[i] = b.data[i]
          BY <4>2, <5>1
        <5> QED BY <5>1, <5>2, <3>2, <4>2
      <4>3. CASE i \notin n + 1 .. k /\ n = g
        <5>1. i <= g /\ ~(i <= Len(b.data))
          BY <4>3, <1>1, <3>2
        <5> QED BY <5>1, <4>3
      <4> QED BY <4>1, <4>2, <4>3
    <3>6. d = [i \in 1 .. k |-> IF i <= g THEN Junk ELSE <<u, p + i>>]
      BY <3>5
    <3> HIDE DEF d
    <3>7. /\ Filled(u, p, g, k) \in Seq(Tokens)
          /\ Filled(u, p, g, k) = [i \in 1 .. k |-> IF i <= g THEN Junk ELSE <<u, p + i>>]
      <4>1. Filled(u, p, g, k) \in Seq(Tokens)
        BY <1>1, <3>3, FilledIs
      <4> QED BY <4>1, <3>3 DEF Filled
    <3>8. d = Filled(u, p, g, k) /\ d \in Seq(Tokens)
      BY <3>6, <3>7
    <3>9. c.data = d /\ c = [b EXCEPT !.data = c.data]
      BY <3>4, <1>2 DEF BufSet
    <3> QED BY <2>2, <3>8, <3>9
  <2> QED BY <2>1, <2>2
<1>6. v2 = Put(v, c)
  BY <1>1 DEF b
<1> HIDE DEF c
<1>7. c \in BufSet /\ c.fd = b.fd /\ c.seek = b.seek /\ c.size = b.size
  <2> DEFINE d == c.data
  <2>1. d \in Seq(Tokens) /\ c = [b EXCEPT !.data = d]
    BY <1>5
  <2> HIDE DEF d
  <2> QED BY <2>1, <1>2 DEF BufSet
<1>12. v \in VecSet /\ v.idx \in 1 .. Len(v.bufs) /\ c \in BufSet
  BY <1>1, <1>7
<1>8. /\ v2 \in VecSet /\ v2.idx = v.idx /\ v2.off = v.off /\ Len(v2.bufs) = Len(v.bufs)
      /\ v2.bufs[v.idx] = c
  BY <1>12, <1>6, PutIs
<1>9. v2.bufs[1] = c
  BY <1>8
<1>10. ~c.fd => c.seek
  BY <1>7 DEF Dest, b
<1>11. Dest(v2, k, u, p, g)
  <2>1. Len(v2.bufs) = 1 /\ v2.idx \in 1 .. 2
    BY <1>1, <1>8
  <2>2. k >= g
    BY <1>0, <1>1
  <2> QED BY <2>1, <2>2, <1>1, <1>5, <1>7, <1>8, <1>9, <1>10 DEF Dest
<1> QED BY <1>7, <1>8, <1>9, <1>11 DEF b

\* fuse_bufvec_advance of a destination.
LEMMA DestAdvanced ==
    ASSUME NEW v, NEW n, NEW u, NEW p, NEW g, NEW k, NEW v2,
           Dest(v, n, u, p, g), v.idx = 1, k \in Nat,
           v.off + k <= v.bufs[1].size,
           v2 = fuse_bufvec_advance(v, k)
    PROVE  /\ Dest(v2, n, u, p, g)
           /\ v2.bufs = v.bufs /\ v2.off = v.off + k
           /\ ~AtEnd(v2) => v2.idx = 1
           /\ ~AtEnd(v)
<1>1. v \in VecSet /\ Len(v.bufs) = 1
  BY DEF Dest
<1> DEFINE x == v.off + k
<1>2. x \in Nat /\ Current(v) = v.bufs[1]
  BY <1>1 DEF VecSet, Current
<1>3. ~AtEnd(v)
  BY <1>1 DEF AtEnd
<1>4. CASE x < v.bufs[1].size
  <2>1. v2 = [v EXCEPT !.off = x]
    BY <1>2, <1>4 DEF fuse_bufvec_advance
  <2> HIDE DEF x
  <2>2. v2 \in VecSet /\ v2.off = x /\ v2.idx = v.idx /\ v2.bufs = v.bufs
    BY <1>1, <1>2, <2>1 DEF VecSet
  <2> QED BY <2>2, <1>3 DEF Dest, x
<1>5. CASE ~(x < v.bufs[1].size)
  <2> DEFINE i == v.idx + 1
  <2>0. i \in Nat /\ i = 2
    OBVIOUS
  <2>1. v2 = [v EXCEPT !.idx = i, !.off = x]
    BY <1>1, <1>2, <1>5 DEF fuse_bufvec_advance
  <2> HIDE DEF x, i
  <2>5. v2 \in VecSet /\ v2.off = x /\ v2.idx = i /\ v2.bufs = v.bufs
    BY <1>1, <1>2, <2>0, <2>1 DEF VecSet
  <2>2. v2 \in VecSet /\ v2.off = x /\ v2.idx = 2 /\ v2.bufs = v.bufs
    BY <2>0, <2>5
  <2>6. Len(v2.bufs) = 1 /\ 2 > 1
    BY <1>1, <2>2
  <2>3. AtEnd(v2)
    BY <2>6, <2>2 DEF AtEnd
  <2>4. v2.idx \in 1 .. 2
    BY <2>2
  <2> QED BY <2>2, <2>3, <2>4, <1>3 DEF Dest, x
<1> QED BY <1>4, <1>5

-----------------------------------------------------------------------------
(* A copy. *)

\* A copy that ends keeps its vectors, and says what it has copied.
LEMMA OverIs ==
    ASSUME NEW c, NEW res, NEW o, c \in CopySet, res \in Int, o = Over(c, res)
    PROVE  /\ o \in CopySet /\ o.at = "over"
           /\ o.dst = c.dst /\ o.src = c.src /\ o.force = c.force
           /\ o.res = IF res >= 0 THEN c.copied + res ELSE IF c.copied = 0 THEN res ELSE c.copied
<1> DEFINE s == IF res >= 0 THEN c.copied + res ELSE IF c.copied = 0 THEN res ELSE c.copied
<1>1. s \in Int
  BY DEF CopySet
<1>2. o = [c EXCEPT !.at = "over", !.part = 0, !.res = s]
  BY DEF Over
<1> HIDE DEF s
<1>4. /\ DOMAIN c = {"at", "dst", "src", "force", "copied", "part", "res"}
      /\ c.dst \in VecSet /\ c.src \in VecSet /\ c.force \in BOOLEAN /\ c.copied \in Nat
      /\ c = [at |-> c.at, dst |-> c.dst, src |-> c.src, force |-> c.force,
              copied |-> c.copied, part |-> c.part, res |-> c.res]
  BY DEF CopySet
<1>5. o = [at |-> "over", dst |-> c.dst, src |-> c.src, force |-> c.force,
           copied |-> c.copied, part |-> 0, res |-> s]
  BY <1>2, <1>4
<1>3. o \in CopySet /\ o.at = "over" /\ o.dst = c.dst /\ o.src = c.src /\ o.force = c.force /\ o.res = s
  BY <1>1, <1>4, <1>5 DEF CopySet
<1> QED BY <1>3 DEF s

\* A source may be said to have lost something.
LEMMA SourceWeaker ==
    ASSUME NEW v, NEW x, NEW e, NEW f, NEW u, NEW p, NEW B, NEW L,
           Source(v, x, e, u, p, B, L), f = "all" => e = "all"
    PROVE  Source(v, x, f, u, p, B, L)
<1>1. Len(v.bufs) = 1 /\ ~v.bufs[1].seek => Len(v.bufs[1].data) \in Int
  <2> SUFFICES ASSUME Len(v.bufs) = 1 PROVE Len(v.bufs[1].data) \in Int
    OBVIOUS
  <2>1. v.bufs \in Seq(BufSet) /\ 1 \in 1 .. Len(v.bufs)
    BY DEF Source, VecSet
  <2>2. v.bufs[1] \in BufSet
    BY <2>1, ElementOfSeq
  <2> QED BY <2>2 DEF BufSet
<1>2. Len(v.bufs) = 1 /\ ~v.bufs[1].seek =>
         IF f = "all" THEN Len(v.bufs[1].data) + x = L ELSE Len(v.bufs[1].data) + x <= L
  <2> SUFFICES ASSUME Len(v.bufs) = 1, ~v.bufs[1].seek
               PROVE  IF f = "all" THEN Len(v.bufs[1].data) + x = L ELSE Len(v.bufs[1].data) + x <= L
    OBVIOUS
  <2> DEFINE n == Len(v.bufs[1].data)
  <2>1. IF e = "all" THEN n + x = L ELSE n + x <= L
    BY DEF Source
  <2>2. n \in Int
    BY <1>1
  <2>3. x \in Int
    <3>1. v.bufs \in Seq(BufSet) /\ Cur(v) \in 1 .. Len(v.bufs)
      BY DEF Source, VecSet, Cur, AtEnd
    <3>2. v.bufs[Cur(v)] \in BufSet
      BY <3>1, ElementOfSeq
    <3> QED BY <3>2 DEF Source, BufSet
  <2> HIDE DEF n
  <2>4. IF f = "all" THEN n + x = L ELSE n + x <= L
    BY <2>1, <2>2, <2>3
  <2> QED BY <2>4 DEF n
<1> QED BY <1>2 DEF Source

\* The position of a source is not past its end.
LEMMA SourcePos ==
    ASSUME NEW v, NEW k, NEW e, NEW u, NEW p, NEW B, NEW L,
           Source(v, v.off + k, e, u, p, B, L), k \in Nat, B \in Int
    PROVE  /\ v \in VecSet /\ Len(v.bufs) \in 1 .. 2
           /\ Cur(v) \in 1 .. Len(v.bufs)
           /\ v.bufs[Cur(v)] \in BufSet
           /\ Pos(v) \in Nat /\ Pos(v) + k <= B
<1>1. /\ v \in VecSet /\ Len(v.bufs) \in 1 .. 2 /\ v.idx \in 1 .. Len(v.bufs) + 1
      /\ v.off + k \in 0 .. v.bufs[Cur(v)].size
  BY DEF Source
<1>2. Cur(v) \in 1 .. Len(v.bufs)
  <2> DEFINE n == Len(v.bufs)
  <2>1. n \in 1 .. 2 /\ v.idx \in 1 .. n + 1 /\ Cur(v) = IF v.idx > n THEN n ELSE v.idx
    BY <1>1 DEF Cur, AtEnd
  <2> HIDE DEF n
  <2>2. Cur(v) \in 1 .. n
    BY <2>1
  <2> QED BY <2>2 DEF n
<1>3. v.bufs \in Seq(BufSet) /\ v.off \in Nat
  BY <1>1 DEF VecSet
<1>4. v.bufs[Cur(v)] \in BufSet /\ v.bufs[1] \in BufSet
  BY <1>1, <1>2, <1>3, ElementOfSeq
<1>5. Base(v, Cur(v)) \in Nat /\ v.bufs[Cur(v)].size \in Nat
  BY <1>4 DEF Base, BufSet
<1>6. Base(v, Cur(v)) + v.bufs[Cur(v)].size <= B
  BY <1>2 DEF Source
<1> DEFINE q == Base(v, Cur(v))
           s == v.bufs[Cur(v)].size
           o == v.off
<1>7. q \in Nat /\ s \in Nat /\ o \in Nat /\ q + s <= B /\ o + k \in 0 .. s /\ Pos(v) = q + o
  BY <1>1, <1>3, <1>5, <1>6 DEF Pos
<1> HIDE DEF q, s, o
<1>8. q + o \in Nat /\ (q + o) + k <= B
  BY <1>7
<1> QED BY <1>1, <1>2, <1>4, <1>7, <1>8

\* What is left of both current buffers.
LEMMA LenOfIs ==
    ASSUME NEW c, NEW k, NEW e, NEW u, NEW p, NEW g, NEW B, NEW L,
           Inner(c, k, e, u, p, g, B, L), ~AtEnd(c.src)
    PROVE  /\ LenOf(c) \in Nat /\ k <= LenOf(c)
           /\ c.src.off + LenOf(c) <= Current(c.src).size
           /\ c.dst.off + LenOf(c) <= c.dst.bufs[1].size
           /\ c.dst.bufs[1] \in BufSet /\ Current(c.dst) = c.dst.bufs[1]
           /\ c.src \in VecSet /\ c.dst \in VecSet /\ c.src.off \in Nat /\ c.dst.off \in Nat
           /\ Current(c.src) \in BufSet
<1>1. /\ c.src \in VecSet /\ c.dst \in VecSet /\ k \in Nat /\ c.dst.idx = 1 /\ Len(c.dst.bufs) = 1
      /\ Source(c.src, c.src.off + k, e, u, p, B, L)
      /\ c.dst.off + k <= c.dst.bufs[1].size
  BY DEF Inner, CopySet, Dest
<1>2. Current(c.src) \in BufSet /\ c.src.off + k \in 0 .. Current(c.src).size
  BY <1>1, SourceCurrent
<1>3. c.dst.bufs \in Seq(BufSet) /\ 1 \in 1 .. Len(c.dst.bufs) /\ c.src.off \in Nat /\ c.dst.off \in Nat
  BY <1>1 DEF VecSet
<1>4. c.dst.bufs[1] \in BufSet /\ Current(c.dst) = c.dst.bufs[1]
  BY <1>1, <1>3, ElementOfSeq DEF Current
<1>5. Current(c.src).size \in Nat /\ c.dst.bufs[1].size \in Nat
  BY <1>2, <1>4 DEF BufSet
<1> DEFINE a == Current(c.src).size - c.src.off
           b == c.dst.bufs[1].size - c.dst.off
<1>6. /\ a \in Nat /\ b \in Nat /\ k <= a /\ k <= b
      /\ LenOf(c) = IF a < b THEN a ELSE b
  <2> DEFINE s == Current(c.src).size
             x == c.src.off
             d == c.dst.bufs[1].size
             y == c.dst.off
  <2>0. /\ s \in Nat /\ x \in Nat /\ x + k <= s /\ d \in Nat /\ y \in Nat /\ y + k <= d
        /\ k \in Nat /\ a = s - x /\ b = d - y
    <3>1. x + k \in 0 .. s
      BY <1>2
    <3> HIDE DEF s, x
    <3>2. x + k <= s
      BY <3>1
    <3> USE DEF s, x
    <3> QED BY <3>2, <1>1, <1>3, <1>5
  <2> HIDE DEF s, x, d, y
  <2>1. s - x \in Nat /\ k <= s - x
    BY <2>0
  <2>2. d - y \in Nat /\ k <= d - y
    BY <2>0
  <2>3. LenOf(c) = IF a < b THEN a ELSE b
    BY <1>4 DEF LenOf, min_size
  <2> HIDE DEF a, b
  <2> QED BY <2>0, <2>1, <2>2, <2>3
<1>7. LenOf(c) \in Nat /\ k <= LenOf(c) /\ LenOf(c) <= a /\ LenOf(c) <= b
  <2> HIDE DEF a, b
  <2> QED BY <1>6, <1>1
<1>8. /\ c.src.off + LenOf(c) <= Current(c.src).size
      /\ c.dst.off + LenOf(c) <= c.dst.bufs[1].size
  <2> DEFINE l == LenOf(c)
  <2>1. l \in Nat /\ l <= a /\ l <= b
    BY <1>7
  <2> HIDE DEF l
  <2> DEFINE s == Current(c.src).size
             x == c.src.off
             d == c.dst.bufs[1].size
             y == c.dst.off
  <2>2. s \in Nat /\ x \in Nat /\ d \in Nat /\ y \in Nat /\ l <= s - x /\ l <= d - y
    BY <2>1, <1>3, <1>5
  <2> HIDE DEF s, x, d, y
  <2>3. x + l <= s /\ y + l <= d
    BY <2>1, <2>2
  <2> QED BY <2>3 DEF l, s, x, d, y
<1> QED BY <1>1, <1>2, <1>3, <1>4, <1>7, <1>8

\* The same buffers are alike.
LEMMA AlikeSame == ASSUME NEW v2, NEW v, v2.bufs = v.bufs PROVE AlikeBufs(v2, v)
BY DEF AlikeBufs

Advanced(c, v, w, s) == [c EXCEPT !.at = "copy", !.src = v, !.dst = w, !.copied = s, !.part = 0]

\* A copy that goes on to the next buffers.
LEMMA NextIs ==
    ASSUME NEW c, NEW v, NEW w, NEW s, c \in CopySet, v \in VecSet, w \in VecSet, s \in Nat,
           NEW o, o = Advanced(c, v, w, s)
    PROVE  /\ o \in CopySet /\ o.dst = w /\ o.src = v /\ o.force = c.force /\ o.copied = s
           /\ o.at = "copy" /\ o.part = 0
<1>1. /\ DOMAIN c = {"at", "dst", "src", "force", "copied", "part", "res"}
      /\ c.force \in BOOLEAN /\ c.res \in Int
  BY DEF CopySet
<1>2. o = [at |-> "copy", dst |-> w, src |-> v, force |-> c.force,
           copied |-> s, part |-> 0, res |-> c.res]
  BY <1>1 DEF Advanced
<1> QED BY <1>1, <1>2 DEF CopySet

\* What fuse_buf_copy makes of the result of a system call.
LEMMA AfterGood ==
    ASSUME NEW c, NEW k, NEW e, NEW u, NEW p, NEW g, NEW B, NEW L, NEW res, NEW o,
           u \in Uniques, p \in Int, g \in Nat, B \in Int, L \in Nat,
           Inner(c, k, e, u, p, g, B, L), ~AtEnd(c.src),
           res \in Int, res = k \/ (res < 0 /\ k = 0),
           e = "all" \/ (c.dst.bufs[1].fd /\ ~c.force /\ (res < 0 \/ k < LenOf(c))),
           o = After(c, res)
    PROVE  Good(o, u, p, g, B, L) /\ Kin(o, c)
<1> DEFINE f == RestIn(c)
<1>1. /\ c \in CopySet /\ k \in Nat
      /\ Source(c.src, c.src.off + k, e, u, p, B, L)
      /\ Dest(c.dst, g + c.copied + k, u, p, g)
      /\ Pos(c.src) = g + c.copied /\ c.dst.idx = 1 /\ c.dst.off = g + c.copied
      /\ c.dst.off + k <= c.dst.bufs[1].size
      /\ ~c.dst.bufs[1].seek => c.force
      /\ c.copied \in Nat /\ c.dst \in VecSet /\ c.src \in VecSet
  BY DEF Inner, CopySet
<1>2. f = "all" => e = "all"
  BY DEF RestIn
<1>3. Pos(c.src) + k <= B
  BY <1>1, SourcePos
<1>4. CASE res < 0
  <2>1. k = 0 /\ o = Over(c, res)
    BY <1>1, <1>4 DEF After
  <2>2. /\ o \in CopySet /\ o.at = "over"
        /\ o.dst = c.dst /\ o.src = c.src /\ o.force = c.force
        /\ o.res = IF c.copied = 0 THEN res ELSE c.copied
    <3>1. /\ o \in CopySet /\ o.at = "over"
          /\ o.dst = c.dst /\ o.src = c.src /\ o.force = c.force
          /\ o.res = IF res >= 0 THEN c.copied + res ELSE IF c.copied = 0 THEN res ELSE c.copied
      BY <1>1, <2>1, OverIs
    <3> QED BY <3>1, <1>4
  <2>3. Source(c.src, c.src.off, f, u, p, B, L)
    <3>1. c.src.off + k = c.src.off
      BY <1>1, <2>1 DEF VecSet
    <3> QED BY <3>1, <1>1, <1>2, SourceWeaker
  <2>4. /\ g + (IF o.res > 0 THEN o.res ELSE 0) = g + c.copied + k
        /\ o.res >= 0 => Pos(c.src) = g + o.res
        /\ g + o.res <= B
    BY <2>1, <2>2, <1>1, <1>3, <1>4
  <2>5. Kin(o, c)
    BY <2>2, AlikeSame DEF Kin
  <2>6. RestIn(o) = f
    BY <2>2 DEF RestIn
  <2> QED BY <2>2, <2>3, <2>4, <2>5, <2>6, <1>1 DEF Good
<1>5. CASE res = k
  <2> DEFINE vs == fuse_bufvec_advance(c.src, res)
             vd == fuse_bufvec_advance(c.dst, res)
             s == c.copied + k
             d1 == [c EXCEPT !.src = vs]
             d2 == [c EXCEPT !.src = vs, !.dst = vd]
             d3 == Advanced(c, vs, vd, s)
  <2>1. /\ Source(vs, vs.off, e, u, p, B, L) /\ Pos(vs) = Pos(c.src) + k
        /\ vs.bufs = c.src.bufs
    <3>1. vs = fuse_bufvec_advance(c.src, k)
      BY <1>5
    <3> HIDE DEF vs
    <3>2. Sums(c.src.off + k, c.src.off, k)
      BY DEF Sums
    <3> QED BY <3>1, <3>2, <1>1, SourceAdvanced
  <2>2. /\ Dest(vd, g + c.copied + k, u, p, g)
        /\ vd.bufs = c.dst.bufs /\ vd.off = c.dst.off + k
        /\ ~AtEnd(vd) => vd.idx = 1
    <3>1. vd = fuse_bufvec_advance(c.dst, k)
      BY <1>5
    <3> HIDE DEF vd
    <3> DEFINE n == g + c.copied + k
    <3>2. Dest(c.dst, n, u, p, g) /\ c.dst.idx = 1 /\ k \in Nat /\ c.dst.off + k <= c.dst.bufs[1].size
      BY <1>1
    <3> HIDE DEF n
    <3>3. Dest(vd, n, u, p, g)
      BY <3>1, <3>2, DestAdvanced
    <3>4. vd.bufs = c.dst.bufs /\ vd.off = c.dst.off + k
      BY <3>1, <3>2, <3>3, DestAdvanced
    <3>5. ~AtEnd(vd) => vd.idx = 1
      BY <3>1, <3>2, <3>3, DestAdvanced
    <3> QED BY <3>3, <3>4, <3>5 DEF n
  <2>3. vs \in VecSet /\ vd \in VecSet /\ s \in Nat
    <3> HIDE DEF vs, vd
    <3>1. vs \in VecSet
      BY <2>1 DEF Source
    <3>2. vd \in VecSet
      BY <2>2 DEF Dest
    <3>3. s \in Nat
      BY <1>1
    <3> QED BY <3>1, <3>2, <3>3
  <2>4. o = IF AtEnd(vs) THEN Over(d1, res)
            ELSE IF AtEnd(vd) \/ res < LenOf(c) THEN Over(d2, res)
            ELSE d3
    <3>1. ~(res < 0)
      BY <1>1, <1>5
    <3> QED BY <3>1, <1>5 DEF After, Advanced
  <2> HIDE DEF vs, vd
  <2>5. /\ d1 \in CopySet /\ d1.dst = c.dst /\ d1.src = vs /\ d1.force = c.force /\ d1.copied = c.copied
    BY <1>1, <2>3 DEF CopySet
  <2>6. /\ d2 \in CopySet /\ d2.dst = vd /\ d2.src = vs /\ d2.force = c.force /\ d2.copied = c.copied
    BY <1>1, <2>3 DEF CopySet
  <2> HIDE DEF s
  <2>7. /\ d3 \in CopySet /\ d3.dst = vd /\ d3.src = vs /\ d3.force = c.force /\ d3.copied = s
        /\ d3.at = "copy" /\ d3.part = 0
    BY <1>1, <2>3, NextIs
  <2>8. s \in Nat /\ g + s = g + c.copied + k /\ Pos(vs) = g + s /\ g + s <= B /\ s >= 0
        /\ (IF s > 0 THEN s ELSE 0) = s
    BY <1>1, <1>3, <2>1, <2>3 DEF s
  <2>9. Source(vs, vs.off, f, u, p, B, L)
    BY <2>1, <1>2, SourceWeaker
  <2> HIDE DEF d1, d2, d3
  <2>10. ASSUME NEW d, d \in {d1, d2}, o = Over(d, res),
                d = d1 \/ d = d2
         PROVE  Good(o, u, p, g, B, L) /\ Kin(o, c)
    <3>1. /\ d \in CopySet /\ d.src = vs /\ d.force = c.force /\ d.copied = c.copied
          /\ Dest(d.dst, g + s, u, p, g) /\ d.dst.bufs = c.dst.bufs
      BY <2>10, <2>5, <2>6, <1>1, <2>2, <2>8
    <3>2. /\ o \in CopySet /\ o.at = "over"
          /\ o.dst = d.dst /\ o.src = vs /\ o.force = c.force /\ o.res = s
      <4>1. /\ o \in CopySet /\ o.at = "over"
            /\ o.dst = d.dst /\ o.src = d.src /\ o.force = d.force
            /\ o.res = IF res >= 0 THEN d.copied + res ELSE IF d.copied = 0 THEN res ELSE d.copied
        BY <3>1, <2>10, OverIs
      <4>2. o.res = s
        BY <4>1, <3>1, <1>1, <1>5 DEF s
      <4> QED BY <3>1, <4>1, <4>2
    <3>3. Kin(o, c)
      BY <3>1, <3>2, <2>1, AlikeSame DEF Kin
    <3>4. Source(o.src, o.src.off, RestIn(o), u, p, B, L)
      <4>1. RestIn(o) = f
        BY <3>1, <3>2 DEF RestIn
      <4> QED BY <4>1, <3>2, <2>9
    <3>5. /\ Dest(o.dst, g + (IF o.res > 0 THEN o.res ELSE 0), u, p, g)
          /\ o.res >= 0 => Pos(o.src) = g + o.res
          /\ g + o.res <= B
      BY <3>1, <3>2, <2>8
    <3> QED BY <3>2, <3>3, <3>4, <3>5 DEF Good
  <2>11. CASE AtEnd(vs)
    BY <2>4, <2>10, <2>11
  <2>12. CASE ~AtEnd(vs) /\ (AtEnd(vd) \/ res < LenOf(c))
    BY <2>4, <2>10, <2>12
  <2>13. CASE ~AtEnd(vs) /\ ~(AtEnd(vd) \/ res < LenOf(c))
    <3>1. o = d3
      BY <2>4, <2>13
    <3>2. e = "all"
      BY <2>13, <1>1, <1>5
    <3>3. o \in CopySet /\ o.dst = vd /\ o.src = vs /\ o.force = c.force /\ o.copied = s
          /\ o.at = "copy" /\ o.part = 0
      BY <3>1, <2>7
    <3>4. Source(o.src, o.src.off + 0, "all", u, p, B, L)
      <4>1. vs.off + 0 = vs.off
        BY <2>3 DEF VecSet
      <4> QED BY <4>1, <2>1, <3>2, <3>3, SourceWeaker
    <3>5. /\ Dest(o.dst, g + s + 0, u, p, g)
          /\ o.dst.idx = 1 /\ o.dst.off = g + s /\ o.dst.off + 0 <= o.dst.bufs[1].size
      <4>1. g + s + 0 = g + c.copied + k /\ g + s = c.dst.off + k /\ g + s + 0 = g + s
        BY <1>1, <2>8
      <4>2. vd.off = g + s /\ g + s + 0 <= vd.bufs[1].size
        BY <4>1, <2>2, <1>1
      <4> QED BY <4>1, <4>2, <2>2, <2>13, <3>3
    <3>6. Inner(o, o.part, "all", u, p, g, B, L)
      <4>1. ~o.dst.bufs[1].seek => o.force
        BY <1>1, <2>2, <3>3
      <4>2. Pos(o.src) = g + o.copied /\ 0 \in Nat
        BY <3>3, <2>8
      <4> QED BY <3>3, <3>4, <3>5, <4>1, <4>2 DEF Inner
    <3>7. Kin(o, c)
      BY <3>3, <2>1, <2>2, AlikeSame DEF Kin
    <3> QED BY <3>3, <3>6, <3>7 DEF Good
  <2> QED BY <2>11, <2>12, <2>13
<1> QED BY <1>4, <1>5

\* A system call moves r from the source, and w of it to the destination.
LEMMA MovedInner ==
    ASSUME NEW c, NEW k, NEW e, NEW u, NEW p, NEW g, NEW B, NEW L, NEW r, NEW w, NEW n, NEW o,
           u \in Uniques, p \in Int, g \in Nat, B \in Int, L \in Nat,
           Inner(c, k, "all", u, p, g, B, L), k = c.part, ~AtEnd(c.src),
           r \in Nat, r > 0, r <= LeftOf(c), k + r <= LenOf(c),
           w \in Int, w <= r, w > 0 => Sums(n, k, w), w <= 0 => n = k,
           e = "all" => w = r,
           o = Moved(c, r, w)
    PROVE  /\ Inner(o, n, e, u, p, g, B, L)
           /\ ~AtEnd(o.src) /\ LenOf(o) = LenOf(c) /\ Kin(o, c)
           /\ o.part = c.part /\ o.at = c.at
           /\ Current(o.src).fd = Current(c.src).fd
<1> DEFINE m == IF w > 0 THEN w ELSE 0
           x == c.src.off + k
           y == x + m
           s == Put(c.src, Consumed(Current(c.src), r))
           t == Bytes(Current(c.src), x, w)
           h == g + c.copied + k
           z == g + c.copied + n
           d == IF w <= 0 THEN c.dst ELSE Put(c.dst, Stored(Current(c.dst), h, t))
<1>1. /\ c \in CopySet /\ k \in Nat
      /\ Source(c.src, x, "all", u, p, B, L)
      /\ Dest(c.dst, h, u, p, g)
      /\ Pos(c.src) = g + c.copied /\ c.dst.idx = 1 /\ c.dst.off = g + c.copied
      /\ ~c.dst.bufs[1].seek => c.force
      /\ c.copied \in Nat /\ c.part \in Nat
  BY DEF Inner, CopySet
<1>2. /\ LenOf(c) \in Nat
      /\ c.src.off + LenOf(c) <= Current(c.src).size
      /\ c.dst.off + LenOf(c) <= c.dst.bufs[1].size
      /\ c.dst.bufs[1] \in BufSet
      /\ c.src \in VecSet /\ c.dst \in VecSet /\ c.src.off \in Nat /\ c.dst.off \in Nat
      /\ Current(c.src) \in BufSet /\ Current(c.dst) = c.dst.bufs[1]
  BY LenOfIs
<1>3. /\ Current(c.src).size \in Nat /\ c.dst.bufs[1].size \in Nat
  BY <1>2 DEF BufSet
<1>4. /\ m \in Nat /\ m <= r /\ (e = "all" => m = r) /\ n = k + m /\ n \in Nat /\ Sums(y, x, m)
      /\ y <= Current(c.src).size /\ r <= Left(Current(c.src), x)
      /\ z = h + m /\ y = c.src.off + n /\ n <= LenOf(c)
  BY <1>1, <1>2, <1>3 DEF Sums, LeftOf
<1> HIDE DEF m
<1>5. /\ Source(s, y, e, u, p, B, L)
      /\ s.idx = c.src.idx /\ s.off = c.src.off /\ ~AtEnd(s)
      /\ Current(s).size = Current(c.src).size /\ Current(s).fd = Current(c.src).fd
      /\ Pos(s) = Pos(c.src) /\ AlikeBufs(s, c.src)
  <2>1. s = Put(c.src, Consumed(Current(c.src), r))
    OBVIOUS
  <2>2. /\ Source(c.src, x, "all", u, p, B, L)
        /\ m \in Nat /\ m <= r /\ Sums(y, x, m) /\ (e = "all" => m = r)
        /\ y <= Current(c.src).size /\ r <= Left(Current(c.src), x)
    BY <1>1, <1>4
  <2> HIDE DEF x, y, s
  <2>3. /\ s.idx = c.src.idx /\ s.off = c.src.off /\ ~AtEnd(s)
        /\ Current(s).size = Current(c.src).size /\ Current(s).fd = Current(c.src).fd
        /\ Pos(s) = Pos(c.src) /\ AlikeBufs(s, c.src) /\ s \in VecSet
    BY <2>1, <2>2, TakenIs
  <2>4. Source(s, y, e, u, p, B, L)
    BY <2>1, <2>2, SourceTaken
  <2> QED BY <2>3, <2>4
<1>6. Source(s, y, e, u, p, B, L)
  BY <1>5
<1>7. /\ Dest(d, z, u, p, g) /\ d.idx = 1 /\ d.off = c.dst.off
      /\ d.bufs[1].size = c.dst.bufs[1].size /\ d.bufs[1].fd = c.dst.bufs[1].fd
      /\ d.bufs[1].seek = c.dst.bufs[1].seek
  <2>1. CASE w <= 0
    <3>1. z = h
      BY <2>1, <1>1, <1>4 DEF m
    <3> QED BY <3>1, <2>1, <1>1
  <2>2. CASE ~(w <= 0)
    <3> DEFINE q == p + h
    <3>1. t = Run(u, q, w)
      <4>1. w \in Nat /\ w > 0 /\ w <= Left(Current(c.src), x)
        <5>1. Left(Current(c.src), x) \in Nat
          <6>2. Len(Current(c.src).data) \in Nat
            BY <1>2 DEF BufSet
          <6>3. x \in Nat
            BY <1>1, <1>2
          <6>1. Len(Current(c.src).data) \in Nat /\ x \in Nat
            BY <6>2, <6>3
          <6> HIDE DEF x
          <6> QED BY <6>1 DEF Left
        <5> QED BY <5>1, <2>2, <1>4
      <4> DEFINE l == Base(c.src, c.src.idx) + x
      <4>2. Sums(l, Base(c.src, c.src.idx), x) /\ Sums(q, p, l)
        <5>1. Cur(c.src) = c.src.idx /\ Base(c.src, c.src.idx) \in Nat
          BY <1>1, SourceCurrent
        <5>2. Base(c.src, c.src.idx) + c.src.off = g + c.copied
          BY <5>1, <1>1 DEF Pos
        <5> QED BY <5>1, <5>2, <1>1, <1>2 DEF Sums
      <4> HIDE DEF x, q, l
      <4> QED BY <4>1, <4>2, <1>1, SourceBytes
    <3>2. d = Put(c.dst, Stored(Current(c.dst), h, t)) /\ m = w /\ w \in Nat /\ w > 0 /\ Sums(z, h, w)
      BY <2>2, <1>4 DEF Sums, m
    <3>3. Sums(q, p, h)
      BY DEF Sums
    <3> HIDE DEF d, t, h, z, q
    <3>4. Dest(d, z, u, p, g)
      BY <3>1, <3>2, <3>3, <1>1, DestStored
    <3> QED BY <3>1, <3>2, <3>3, <3>4, <1>1, DestStored
  <2> QED BY <2>1, <2>2
<1>8. o = [c EXCEPT !.src = s, !.dst = d]
  <2>1. c.dst.off + c.part = h /\ c.src.off + c.part = x
    BY <1>1
  <2>2. ~(r <= 0)
    OBVIOUS
  <2> HIDE DEF x, h
  <2> QED BY <2>1, <2>2 DEF Moved
<1>9. s \in VecSet /\ d \in VecSet
  BY <1>6, <1>7 DEF Source, Dest
<1> HIDE DEF s, d, t
<1>10. /\ o \in CopySet /\ o.src = s /\ o.dst = d /\ o.force = c.force /\ o.copied = c.copied
       /\ o.part = c.part /\ o.at = c.at
  BY <1>1, <1>8, <1>9 DEF CopySet
<1>11. Inner(o, n, e, u, p, g, B, L)
  <2>1. Source(o.src, o.src.off + n, e, u, p, B, L)
    BY <1>4, <1>5, <1>6, <1>10
  <2>2. Dest(o.dst, g + o.copied + n, u, p, g)
    BY <1>7, <1>10
  <2>3. o.dst.off + n <= o.dst.bufs[1].size
    BY <1>2, <1>3, <1>4, <1>7, <1>10
  <2>4. Pos(o.src) = g + o.copied /\ o.dst.idx = 1 /\ o.dst.off = g + o.copied
    BY <1>1, <1>5, <1>7, <1>10
  <2>5. ~o.dst.bufs[1].seek => o.force
    BY <1>1, <1>7, <1>10
  <2> QED BY <2>1, <2>2, <2>3, <2>4, <2>5, <1>4, <1>10 DEF Inner
<1>12. Current(o.dst) = d.bufs[1]
  BY <1>7, <1>10 DEF Current
<1>13. LenOf(o) = LenOf(c)
  BY <1>2, <1>5, <1>7, <1>10, <1>12 DEF LenOf
<1>14. Kin(o, c)
  <2>2. Len(d.bufs) = 1 /\ Len(c.dst.bufs) = 1
    BY <1>1, <1>7 DEF Dest
  <2>3. AlikeBufs(d, c.dst)
    BY <2>2, <1>7 DEF AlikeBufs
  <2> QED BY <2>3, <1>5, <1>10 DEF Kin
<1> QED BY <1>5, <1>10, <1>11, <1>13, <1>14

\* A system call that moves nothing does not change the copy.
LEMMA MovedNone ==
    ASSUME NEW c, NEW r, NEW w, c \in CopySet, r <= 0, w <= 0
    PROVE  Moved(c, r, w) = c
<1>1. /\ DOMAIN c = {"at", "dst", "src", "force", "copied", "part", "res"}
      /\ c = [at |-> c.at, dst |-> c.dst, src |-> c.src, force |-> c.force,
              copied |-> c.copied, part |-> c.part, res |-> c.res]
  BY DEF CopySet
<1>2. Moved(c, r, w) = [c EXCEPT !.src = c.src, !.dst = c.dst]
  BY DEF Moved
<1> QED BY <1>1, <1>2

\* Steps of a copy change the same things.
LEMMA KinTrans ==
    ASSUME NEW a, NEW b, NEW c, Kin(a, b), Kin(b, c)
    PROVE  Kin(a, c)
<1>1. ASSUME NEW x, NEW y, NEW z, AlikeBufs(x, y), AlikeBufs(y, z) PROVE AlikeBufs(x, z)
  BY <1>1 DEF AlikeBufs
<1>2. AlikeBufs(a.dst, c.dst) /\ AlikeBufs(a.src, c.src)
  BY <1>1 DEF Kin
<1> QED BY <1>2 DEF Kin

\* One system call that moves k, or fails, and what fuse_buf_copy makes of it.
LEMMA TransferGood ==
    ASSUME NEW c, NEW u, NEW p, NEW g, NEW B, NEW L, NEW k, NEW o,
           u \in Uniques, p \in Int, g \in Nat, B \in Int, L \in Nat,
           Good(c, u, p, g, B, L), c.at = "copy", ~AtEnd(c.src),
           k \in Int, k <= LenOf(c), k > 0 => k <= LeftOf(c),
           o = After(Moved(c, k, k), k)
    PROVE  Good(o, u, p, g, B, L) /\ Kin(o, c)
<1>1. c.part = 0 /\ Inner(c, 0, "all", u, p, g, B, L) /\ c \in CopySet
  BY DEF Good
<1>2. CASE k <= 0
  <2>1. o = After(c, k)
    BY <1>1, <1>2, MovedNone
  <2>2. k = 0 \/ (k < 0 /\ 0 = 0)
    BY <1>2
  <2> QED BY <2>1, <2>2, <1>1, AfterGood
<1>3. CASE k > 0
  <2> DEFINE d == Moved(c, k, k)
  <2>1. k \in Nat /\ k > 0 /\ 0 + k <= LenOf(c) /\ k <= k /\ Sums(k, 0, k) /\ k <= LeftOf(c)
    BY <1>3 DEF Sums
  <2>2. Inner(d, k, "all", u, p, g, B, L)
    <3>1. d = Moved(c, k, k)
      OBVIOUS
    <3> HIDE DEF d
    <3> QED BY <3>1, <2>1, <1>1, <1>3, MovedInner
  <2>3. ~AtEnd(d.src) /\ Kin(d, c)
    <3>1. d = Moved(c, k, k)
      OBVIOUS
    <3> HIDE DEF d
    <3> QED BY <3>1, <2>1, <2>2, <1>1, <1>3, MovedInner
  <2> HIDE DEF d
  <2>4. o = After(d, k)
    BY DEF d
  <2>5. Good(o, u, p, g, B, L) /\ Kin(o, d)
    BY <2>1, <2>2, <2>3, <2>4, AfterGood
  <2> QED BY <2>3, <2>5, KinTrans
<1> QED BY <1>2, <1>3

\* fuse_buf_copy goes on.
LEMMA CopyGood ==
    ASSUME NEW c, NEW u, NEW p, NEW g, NEW B, NEW L, NEW o,
           u \in Uniques, p \in Int, g \in Nat, B \in Int, L \in Nat,
           Good(c, u, p, g, B, L), c.at = "copy", o \in fuse_buf_copy(c)
    PROVE  Good(o, u, p, g, B, L) /\ Kin(o, c)
<1>1. c.part = 0 /\ Inner(c, 0, "all", u, p, g, B, L) /\ c \in CopySet
  BY DEF Good
<1>2. /\ Source(c.src, c.src.off + 0, "all", u, p, B, L)
      /\ Dest(c.dst, g + c.copied + 0, u, p, g)
      /\ Pos(c.src) = g + c.copied /\ c.dst.idx = 1 /\ Len(c.dst.bufs) = 1
      /\ c.copied \in Nat /\ c.src \in VecSet /\ c.src.off \in Nat
  BY <1>1 DEF Inner, Dest, CopySet, VecSet
<1>3. ~AtEnd(c.dst)
  BY <1>2 DEF AtEnd
<1>4. CASE AtEnd(c.src)
  <2>1. o = Over(c, 0)
    BY <1>4 DEF fuse_buf_copy
  <2>2. /\ o \in CopySet /\ o.at = "over"
        /\ o.dst = c.dst /\ o.src = c.src /\ o.force = c.force
        /\ o.res = c.copied
    <3>1. /\ o \in CopySet /\ o.at = "over"
          /\ o.dst = c.dst /\ o.src = c.src /\ o.force = c.force
          /\ o.res = IF 0 >= 0 THEN c.copied + 0 ELSE IF c.copied = 0 THEN 0 ELSE c.copied
      BY <1>1, <2>1, OverIs
    <3> QED BY <3>1, <1>2
  <2>3. Source(c.src, c.src.off, RestIn(o), u, p, B, L)
    <3>1. c.src.off + 0 = c.src.off
      BY <1>2
    <3> QED BY <3>1, <1>2, SourceWeaker
  <2>4. Pos(c.src) + 0 <= B
    BY <1>2, SourcePos
  <2>5. /\ g + (IF o.res > 0 THEN o.res ELSE 0) = g + c.copied + 0
        /\ Pos(c.src) = g + o.res /\ g + o.res <= B
    BY <1>2, <2>2, <2>4
  <2>6. Kin(o, c)
    BY <2>2, AlikeSame DEF Kin
  <2> QED BY <1>2, <2>2, <2>3, <2>5, <2>6 DEF Good
<1>5. CASE ~AtEnd(c.src)
  <2>1. /\ LenOf(c) \in Nat /\ Current(c.src) \in BufSet
        /\ c.src.off + LenOf(c) <= Current(c.src).size
    BY <1>1, <1>5, LenOfIs
  <2>2. LeftOf(c) \in Nat
    <3>1. Len(Current(c.src).data) \in Nat
      BY <2>1 DEF BufSet
    <3>2. c.src.off + c.part \in Nat
      BY <1>1, <1>2
    <3> QED BY <3>1, <3>2 DEF LeftOf, Left
  <2>3. o \in fuse_buf_copy_one(c)
    BY <1>3, <1>5 DEF fuse_buf_copy
  <2>4. ASSUME o \in Transfers(c) PROVE Good(o, u, p, g, B, L) /\ Kin(o, c)
    <3>1. PICK k \in Moves(min_size(LenOf(c), LeftOf(c))) : o = After(Moved(c, k, k), k)
      BY <2>4 DEF Transfers
    <3>2. k \in Int /\ k <= LenOf(c) /\ (k > 0 => k <= LeftOf(c))
      BY <2>1, <2>2 DEF Moves, min_size, EIO, EAGAIN
    <3> QED BY <3>1, <3>2, <1>5, TransferGood
  <2>5. ASSUME NEW s \in Int, s <= 0, o = After(c, s) PROVE Good(o, u, p, g, B, L) /\ Kin(o, c)
    <3>1. s = 0 \/ (s < 0 /\ 0 = 0)
      BY <2>5
    <3> QED BY <3>1, <2>5, <1>1, <1>5, AfterGood
  <2>6. CASE o = After(c, 0)
    BY <2>5, <2>6
  <2>7. CASE /\ LenOf(c) # 0 /\ ~Current(c.src).fd /\ ~Current(c.dst).fd
             /\ o = After(Moved(c, LenOf(c), LenOf(c)), LenOf(c))
    <3>1. /\ c.src.idx \in 1 .. Len(c.src.bufs) /\ Current(c.src) = c.src.bufs[c.src.idx]
      BY <1>2, <1>5, SourceCurrent
    <3>2. Current(c.src).seek /\ Len(Current(c.src).data) = Current(c.src).size
      BY <3>1, <2>7, <1>2 DEF Source
    <3>3. LenOf(c) <= LeftOf(c)
      <4>1. c.src.off + c.part = c.src.off
        BY <1>1, <1>2
      <4>2. Current(c.src).size \in Nat
        BY <2>1 DEF BufSet
      <4> QED BY <4>1, <4>2, <3>2, <2>1, <2>7, <1>2 DEF LeftOf, Left
    <3> DEFINE k == LenOf(c)
    <3>4. k \in Int /\ k <= LenOf(c) /\ (k > 0 => k <= LeftOf(c))
      BY <2>1, <3>3
    <3>5. o = After(Moved(c, k, k), k)
      BY <2>7
    <3> HIDE DEF k
    <3> QED BY <3>4, <3>5, <1>5, TransferGood
  <2>8. CASE o \in fuse_buf_splice(c) /\ Current(c.src).fd /\ Current(c.dst).fd
    <3>1. CASE c.force /\ o = After(c, EINVAL)
      BY <2>5, <3>1 DEF EINVAL
    <3>2. CASE ~c.force /\ o = [c EXCEPT !.at = "slow"]
      <4>1. /\ o \in CopySet /\ o.at = "slow" /\ o.dst = c.dst /\ o.src = c.src
            /\ o.force = c.force /\ o.copied = c.copied /\ o.part = c.part
        BY <1>1, <3>2 DEF CopySet
      <4>2. Inner(o, o.part, "all", u, p, g, B, L)
        BY <4>1, <1>1 DEF Inner
      <4>3. Kin(o, c)
        BY <4>1, AlikeSame DEF Kin
      <4> QED BY <4>1, <4>2, <4>3, <1>5, <2>8, <3>2 DEF Good
    <3> QED BY <2>4, <2>8, <3>1, <3>2 DEF fuse_buf_splice
  <2> QED BY <2>3, <2>4, <2>6, <2>7, <2>8 DEF fuse_buf_copy_one
<1> QED BY <1>4, <1>5

\* fuse_buf_fd_to_fd goes on.
LEMMA SlowGood ==
    ASSUME NEW c, NEW u, NEW p, NEW g, NEW B, NEW L, NEW o,
           u \in Uniques, p \in Int, g \in Nat, B \in Int, L \in Nat,
           Good(c, u, p, g, B, L), c.at = "slow", o \in fuse_buf_fd_to_fd(c)
    PROVE  Good(o, u, p, g, B, L) /\ Kin(o, c)
<1> DEFINE k == c.part
           len == min_size(Chunk, LenOf(c) - k)
<1>1. /\ Inner(c, k, "all", u, p, g, B, L) /\ c \in CopySet /\ k \in Nat
      /\ ~AtEnd(c.src) /\ ~c.force /\ Current(c.src).fd /\ Current(c.dst).fd
  BY DEF Good, Inner
<1>2. /\ LenOf(c) \in Nat /\ k <= LenOf(c)
      /\ Current(c.dst) = c.dst.bufs[1] /\ Current(c.src) \in BufSet /\ c.src.off \in Nat
  BY <1>1, LenOfIs
<1>3. LeftOf(c) \in Nat
  <2>1. Len(Current(c.src).data) \in Nat
    BY <1>2 DEF BufSet
  <2>2. c.src.off + c.part \in Nat
    BY <1>1, <1>2
  <2> QED BY <2>1, <2>2 DEF LeftOf, Left
<1>4. len \in Nat /\ k + len <= LenOf(c)
  BY <1>1, <1>2, CopyAssumption DEF min_size
<1> DEFINE Stops(d, res) == After(d, IF k > 0 THEN k ELSE res)
           Chunks(r, w) ==
             IF w <= 0 THEN Stops(Moved(c, r, w), w)
             ELSE IF w < len \/ k + w = LenOf(c) THEN After(Moved(c, r, w), k + w)
             ELSE [Moved(c, r, w) EXCEPT !.part = @ + w]
<1>5. PICK r \in Moves(min_size(len, LeftOf(c))) :
        o \in IF r <= 0 THEN {Stops(c, r)} ELSE {Chunks(r, w) : w \in Moves(r)}
  BY DEF fuse_buf_fd_to_fd
<1>6. r \in Int /\ r <= len /\ (r > 0 => r <= LeftOf(c))
  BY <1>3, <1>4 DEF Moves, min_size, EIO, EAGAIN
<1> HIDE DEF len
<1>7. CASE r <= 0
  <2> DEFINE res == IF k > 0 THEN k ELSE r
  <2>1. o = After(c, res)
    BY <1>5, <1>7
  <2>2. res \in Int /\ (res = k \/ (res < 0 /\ k = 0))
    BY <1>1, <1>6, <1>7
  <2> HIDE DEF res
  <2> QED BY <2>1, <2>2, <1>1, AfterGood
<1>8. CASE r > 0
  <2>1. PICK w \in Moves(r) : o = Chunks(r, w)
    BY <1>5, <1>6, <1>8
  <2>2. w \in Int /\ w <= r /\ w # 0 /\ r \in Nat /\ r <= LeftOf(c)
        /\ k + r <= LenOf(c)
    BY <1>1, <1>2, <1>4, <1>6, <1>8 DEF Moves, EIO, EAGAIN
  <2> DEFINE d == Moved(c, r, w)
             n == IF w > 0 THEN k + w ELSE k
             e == IF w = r THEN "all" ELSE "some"
  <2>3. n \in Nat /\ (w > 0 => Sums(n, k, w)) /\ (w <= 0 => n = k) /\ (e = "all" => w = r)
    BY <1>1, <2>2 DEF Sums
  <2>4. d = Moved(c, r, w)
    OBVIOUS
  <2>12. o = IF w <= 0 THEN After(d, IF k > 0 THEN k ELSE w)
             ELSE IF w < len \/ k + w = LenOf(c) THEN After(d, k + w)
             ELSE [d EXCEPT !.part = @ + w]
    BY <2>1
  <2> HIDE DEF d, n, e, Chunks, Stops
  <2>5. Inner(d, n, e, u, p, g, B, L)
    BY <2>2, <2>3, <2>4, <1>1, <1>8, MovedInner
  <2>6. /\ ~AtEnd(d.src) /\ LenOf(d) = LenOf(c) /\ Kin(d, c)
        /\ d.part = c.part /\ d.at = c.at
        /\ Current(d.src).fd = Current(c.src).fd
    <3>1. ~AtEnd(d.src) /\ Kin(d, c)
      BY <2>2, <2>3, <2>4, <2>5, <1>1, <1>8, MovedInner
    <3>2. LenOf(d) = LenOf(c) /\ d.part = c.part /\ d.at = c.at
      BY <2>2, <2>3, <2>4, <2>5, <1>1, <1>8, MovedInner
    <3>4. Inner(c, k, "all", u, p, g, B, L) /\ ~AtEnd(c.src)
      BY <1>1
    <3>3. Current(d.src).fd = Current(c.src).fd
      BY <2>2, <2>3, <2>4, <2>5, <3>4, <1>8, MovedInner
    <3> QED BY <3>1, <3>2, <3>3
  <2>7. d.dst.bufs[1].fd /\ ~d.force /\ Current(d.dst) = d.dst.bufs[1] /\ d \in CopySet
    <3>1. Len(c.dst.bufs) = 1 /\ d.dst.idx = 1 /\ d \in CopySet
      BY <1>1, <2>5 DEF Inner, Dest
    <3> QED BY <3>1, <2>6, <1>1, <1>2 DEF Kin, AlikeBufs, Current
  <2>8. ASSUME NEW res \in Int, o = After(d, res), res = n \/ (res < 0 /\ n = 0),
               e = "all" \/ res < 0 \/ n < LenOf(d)
        PROVE  Good(o, u, p, g, B, L) /\ Kin(o, c)
    <3>1. Good(o, u, p, g, B, L) /\ Kin(o, d)
      BY <2>5, <2>6, <2>7, <2>8, AfterGood
    <3> QED BY <3>1, <2>6, KinTrans
  <2>9. CASE w <= 0
    <3> DEFINE res == IF k > 0 THEN k ELSE w
    <3>1. o = After(d, res)
      BY <2>12, <2>9
    <3>2. n = k /\ w < 0
      BY <2>2, <2>3, <2>9
    <3>3. res \in Int /\ (res = n \/ (res < 0 /\ n = 0)) /\ (res < 0 \/ n < LenOf(d))
      BY <3>2, <2>2, <2>6, <1>1, <1>2, <1>8
    <3> HIDE DEF res
    <3> QED BY <3>1, <3>3, <2>8
  <2>10. CASE w > 0 /\ (w < len \/ k + w = LenOf(c))
    <3>1. n = k + w /\ n \in Int
      BY <2>10, <2>3 DEF n
    <3>2. o = After(d, n)
      BY <2>2, <2>12, <2>10, <3>1
    <3>3. e = "all" \/ n < LenOf(d)
      BY <3>1, <2>2, <2>6, <1>1, <1>2 DEF e
    <3> QED BY <3>1, <3>2, <3>3, <2>8
  <2>11. CASE w > 0 /\ ~(w < len \/ k + w = LenOf(c))
    <3>1. w = r /\ e = "all" /\ n = k + w
      <4>1. w = r
        BY <2>2, <2>11, <1>4, <1>6
      <4> QED BY <4>1, <2>11 DEF e, n
    <3>2. o = [d EXCEPT !.part = n]
      <4>1. o = [d EXCEPT !.part = @ + w]
        BY <2>2, <2>12, <2>11
      <4>2. d.part = k
        BY <2>6
      <4> HIDE DEF k
      <4> QED BY <4>1, <4>2, <3>1
    <3>3. /\ o \in CopySet /\ o.at = "slow" /\ o.dst = d.dst /\ o.src = d.src
          /\ o.force = d.force /\ o.copied = d.copied /\ o.part = n
      BY <2>3, <2>6, <2>7, <3>2 DEF CopySet
    <3>4. Inner(o, o.part, "all", u, p, g, B, L)
      BY <3>1, <3>3, <2>5 DEF Inner
    <3>5. Kin(o, d)
      BY <3>3, AlikeSame DEF Kin
    <3>6. Kin(o, c)
      BY <3>5, <2>6, KinTrans
    <3> QED BY <3>3, <3>4, <3>6, <2>6, <2>7, <1>1 DEF Good
  <2> QED BY <2>2, <2>9, <2>10, <2>11
<1> QED BY <1>6, <1>7, <1>8

-----------------------------------------------------------------------------
(* The size of a vector, and a copy that begins. *)

\* The size of a vector is that of its one or two buffers.
LEMMA SizeIs ==
    ASSUME NEW v, v.bufs \in Seq(BufSet), Len(v.bufs) \in 1 .. 2
    PROVE  /\ fuse_buf_size(v) \in Nat
           /\ Len(v.bufs) = 1 => fuse_buf_size(v) = v.bufs[1].size
           /\ fuse_buf_size(v) = v.bufs[1].size + (IF Len(v.bufs) = 2 THEN v.bufs[2].size ELSE 0)
<1> DEFINE n == Len(v.bufs)
           P(s) == s = [i \in 0 .. n |-> IF i = 0 THEN 0 ELSE s[i - 1] + v.bufs[i].size]
           f == [i \in 0 .. n |-> IF i = 0 THEN 0 ELSE IF i = 1 THEN 0 + v.bufs[1].size
                                 ELSE 0 + v.bufs[1].size + v.bufs[2].size]
           size == CHOOSE s : P(s)
<1>1. fuse_buf_size(v) = size[n]
  BY DEF fuse_buf_size
<1>2. n \in 1 .. 2 /\ \A i \in 1 .. n : v.bufs[i] \in BufSet /\ v.bufs[i].size \in Nat
  <2>1. \A i \in 1 .. n : v.bufs[i] \in BufSet
    BY ElementOfSeq
  <2> HIDE DEF n
  <2>2. \A b \in BufSet : b.size \in Nat
    BY DEF BufSet
  <2>3. n \in 1 .. 2
    BY DEF n
  <2> QED BY <2>1, <2>2, <2>3
<1> HIDE DEF n
<1>3. P(f)
  <2> DEFINE h == [i \in 0 .. n |-> IF i = 0 THEN 0 ELSE f[i - 1] + v.bufs[i].size]
  <2>1. ASSUME NEW i \in 0 .. n PROVE f[i] = IF i = 0 THEN 0 ELSE f[i - 1] + v.bufs[i].size
    <3>1. CASE i = 0
      BY <3>1
    <3>2. CASE i = 1
      BY <3>2, <1>2
    <3>3. CASE i = 2
      BY <3>3, <1>2
    <3> QED BY <3>1, <3>2, <3>3, <1>2
  <2>2. f = h
    BY <2>1
  <2> QED BY <2>2
<1>4. P(size)
  <2> HIDE DEF P, f
  <2> QED BY <1>3
<1> HIDE DEF size
<1>5. size[0] = 0 /\ size[1] = size[0] + v.bufs[1].size
  BY <1>2, <1>4
<1>6. n = 2 => size[2] = size[1] + v.bufs[2].size
  BY <1>2, <1>4
<1>7. n = 1 \/ n = 2
  BY <1>2
<1> DEFINE s1 == v.bufs[1].size
           s2 == v.bufs[2].size
<1>8. s1 \in Nat /\ (n = 2 => s2 \in Nat)
  BY <1>2
<1>9. size[n] = s1 + (IF n = 2 THEN s2 ELSE 0)
  <2> HIDE DEF s1, s2
  <2>1. size[1] = s1
    BY <1>5, <1>8 DEF s1
  <2>2. n = 2 => size[2] = s1 + s2
    BY <1>6, <2>1 DEF s2
  <2> QED BY <2>1, <2>2, <1>7, <1>8
<1>10. size[n] \in Nat /\ (n = 1 => size[n] = s1)
  <2> HIDE DEF s1, s2
  <2> QED BY <1>7, <1>8, <1>9
<1> QED BY <1>1, <1>9, <1>10 DEF n

\* A vector of one buffer is at its beginning.
LEMMA VecIs ==
    ASSUME NEW b, NEW v, b \in BufSet, v = Vec(<<b>>)
    PROVE  /\ v \in VecSet /\ v.idx = 1 /\ v.off = 0
           /\ Len(v.bufs) = 1 /\ v.bufs[1] = b /\ v.bufs = <<b>>
           /\ ~AtEnd(v) /\ Cur(v) = 1 /\ Pos(v) = 0
<1> DEFINE s == <<b>>
<1>1. s \in Seq(BufSet) /\ Len(s) = 1 /\ s[1] = b
  OBVIOUS
<1>2. v = [idx |-> 1, off |-> 0, bufs |-> s]
  BY DEF Vec
<1> HIDE DEF s
<1>3. v \in VecSet /\ v.idx = 1 /\ v.off = 0 /\ v.bufs = s
  BY <1>1, <1>2 DEF VecSet
<1>4. ~AtEnd(v) /\ Cur(v) = 1
  <2>1. Len(v.bufs) = 1 /\ v.idx = 1
    BY <1>1, <1>3
  <2>3. ~(1 > 1)
    OBVIOUS
  <2>2. ~AtEnd(v)
    BY <2>1, <2>3 DEF AtEnd
  <2> QED BY <2>1, <2>2 DEF Cur
<1>5. Pos(v) = 0
  BY <1>3, <1>4 DEF Pos, Base
<1> QED BY <1>1, <1>3, <1>4, <1>5 DEF s

\* Memory can seek.
LEMMA MemIs ==
    ASSUME NEW n, NEW s, NEW b, n \in Nat, s \in Seq(Tokens), b = Mem(n, s)
    PROVE  b \in BufSet /\ ~b.fd /\ b.seek /\ b.size = n /\ b.data = s
BY DEF Mem, Buf, BufSet

\* What a pipe gives cannot seek.
LEMMA StreamIs ==
    ASSUME NEW n, NEW s, NEW b, n \in Nat, s \in Seq(Tokens), b = Stream(n, s)
    PROVE  b \in BufSet /\ b.fd /\ ~b.seek /\ b.size = n /\ b.data = s
BY DEF Stream, Buf, BufSet

\* A source of one buffer with a run in it.
LEMMA OneSource ==
    ASSUME NEW b, NEW v, NEW u, NEW p, NEW B, NEW L, NEW k,
           b \in BufSet, v = Vec(<<b>>), u \in Uniques, p \in Int, B \in Int, k \in Nat, L \in Nat,
           b.size <= B, b.data = Run(u, p, k), ~b.fd => b.seek /\ k = b.size, ~b.seek => k = L
    PROVE  Source(v, v.off, "all", u, p, B, L)
<1>1. /\ v \in VecSet /\ v.idx = 1 /\ v.off = 0
      /\ Len(v.bufs) = 1 /\ v.bufs[1] = b
      /\ ~AtEnd(v) /\ Cur(v) = 1
  BY VecIs
<1>2. Len(b.data) = k /\ b.size \in Nat
  <2>1. Len(Run(u, p, k)) = k
    BY RunIs
  <2>2. b.size \in Nat
    BY DEF BufSet
  <2> QED BY <2>1, <2>2
<1>3. \A j \in 1 .. Len(v.bufs) : j = 1 /\ v.bufs[j] = b /\ Base(v, j) = 0
  <2>1. \A j \in 1 .. 1 : j = 1
    OBVIOUS
  <2>2. \A j \in 1 .. Len(v.bufs) : j = 1
    BY <1>1, <2>1
  <2>3. v.bufs[1] = b /\ Base(v, 1) = 0
    BY <1>1 DEF Base
  <2> QED BY <2>2, <2>3
<1>4. \A j \in 1 .. Len(v.bufs) : /\ Base(v, j) + v.bufs[j].size <= B
                                  /\ ~v.bufs[j].fd => v.bufs[j].seek /\ Len(v.bufs[j].data) = v.bufs[j].size
  BY <1>2, <1>3
<1>5. \A j \in Cur(v) .. Len(v.bufs) :
         v.bufs[j].data = Run(u, p + Base(v, j) + (IF v.bufs[j].seek \/ j # Cur(v) THEN 0 ELSE v.off),
                              Len(v.bufs[j].data))
  <2> SUFFICES ASSUME NEW j \in 1 .. Len(v.bufs)
               PROVE v.bufs[j].data = Run(u, p + Base(v, j) + (IF v.bufs[j].seek \/ j # Cur(v) THEN 0 ELSE v.off),
                              Len(v.bufs[j].data))
    BY <1>1
  <2>1. p + Base(v, j) + (IF v.bufs[j].seek \/ j # Cur(v) THEN 0 ELSE v.off) = p
    BY <1>1, <1>3
  <2> QED BY <2>1, <1>2, <1>3
<1>6. Len(v.bufs) \in 1 .. 2 /\ v.idx \in 1 .. Len(v.bufs) + 1 /\ v.off \in 0 .. v.bufs[Cur(v)].size
  BY <1>1, <1>2
<1>7. Len(v.bufs) = 1 /\ ~v.bufs[1].seek => Len(v.bufs[1].data) + v.off = L
  BY <1>1, <1>2
<1> QED BY <1>1, <1>4, <1>5, <1>6, <1>7 DEF Source

\* A destination that nothing was written to.
LEMMA OneDest ==
    ASSUME NEW b, NEW v, NEW u, NEW p, NEW g,
           b \in BufSet, v \in VecSet, Len(v.bufs) = 1, v.bufs[1] = b, v.idx = 1, g \in Nat,
           ~b.fd => b.seek,
           IF b.seek THEN b.data = <<>> ELSE g = 0 /\ p = 0 /\ b.data = Run(u, -1, 1)
    PROVE  Dest(v, g, u, p, g)
<1>1. b.seek => b.data = Filled(u, p, g, g)
  BY DEF Filled
<1>2. ~b.seek => g = 0 /\ p = 0 /\ b.data = Run(u, -1, g + 1)
  <2>1. ASSUME g = 0 PROVE g + 1 = 1
    BY <2>1
  <2> QED BY <2>1
<1>3. v.idx \in 1 .. 2 /\ g >= g
  OBVIOUS
<1> QED BY <1>1, <1>2, <1>3 DEF Dest

\* A copy that begins, from src to behind the first g of dst.
LEMMA CopyBegun ==
    ASSUME NEW dst, NEW src, NEW force, NEW u, NEW p, NEW g, NEW B, NEW L, NEW c,
           g \in Nat, force \in BOOLEAN, Source(src, src.off, "all", u, p, B, L), Pos(src) = g,
           Dest(dst, g, u, p, g), dst.idx = 1, dst.off = g, g <= dst.bufs[1].size,
           ~dst.bufs[1].seek => force, c = Copy(dst, src, force)
    PROVE  Good(c, u, p, g, B, L)
<1>1. src \in VecSet /\ dst \in VecSet /\ src.off \in Nat
  BY DEF Source, Dest, VecSet
<1>2. /\ c \in CopySet /\ c.at = "copy" /\ c.dst = dst /\ c.src = src /\ c.force = force
      /\ c.copied = 0 /\ c.part = 0
  BY <1>1 DEF Copy, CopySet
<1>3. c.src.off + 0 = src.off /\ g + 0 + 0 = g /\ g + 0 = g /\ 0 \in Nat
  BY <1>1, <1>2
<1>4. Source(c.src, c.src.off + 0, "all", u, p, B, L)
  BY <1>2, <1>3
<1>5. Dest(c.dst, g + c.copied + 0, u, p, g)
  BY <1>2, <1>3
<1>6. /\ Pos(c.src) = g + c.copied /\ c.dst.idx = 1 /\ c.dst.off = g + c.copied
      /\ c.dst.off + 0 <= c.dst.bufs[1].size
  BY <1>2, <1>3
<1>7. Inner(c, c.part, "all", u, p, g, B, L)
  BY <1>2, <1>3, <1>4, <1>5, <1>6 DEF Inner
<1> QED BY <1>2, <1>7 DEF Good

\* A source is not longer than all of it.
LEMMA SourceSize ==
    ASSUME NEW v, NEW e, NEW u, NEW p, NEW B, NEW L,
           Source(v, v.off, e, u, p, B, L)
    PROVE  fuse_buf_size(v) \in Nat /\ Pos(v) \in Nat /\ Pos(v) <= fuse_buf_size(v)
<1>1. /\ v \in VecSet /\ Len(v.bufs) \in 1 .. 2 /\ v.idx \in 1 .. Len(v.bufs) + 1
      /\ v.off \in 0 .. v.bufs[Cur(v)].size
  BY DEF Source
<1>2. v.bufs \in Seq(BufSet) /\ v.off \in Nat
  BY <1>1 DEF VecSet
<1>3. Cur(v) \in 1 .. Len(v.bufs)
  <2> DEFINE n == Len(v.bufs)
  <2>1. n \in 1 .. 2 /\ v.idx \in 1 .. n + 1 /\ Cur(v) = IF v.idx > n THEN n ELSE v.idx
    BY <1>1 DEF Cur, AtEnd
  <2> HIDE DEF n
  <2>2. Cur(v) \in 1 .. n
    BY <2>1
  <2> QED BY <2>2 DEF n
<1>4. v.bufs[1] \in BufSet /\ (Len(v.bufs) = 2 => v.bufs[2] \in BufSet)
  BY <1>1, <1>2, ElementOfSeq
<1>5. v.bufs[1].size \in Nat /\ (Len(v.bufs) = 2 => v.bufs[2].size \in Nat)
  BY <1>4 DEF BufSet
<1>6. /\ fuse_buf_size(v) \in Nat
      /\ fuse_buf_size(v) = v.bufs[1].size + (IF Len(v.bufs) = 2 THEN v.bufs[2].size ELSE 0)
  BY <1>1, <1>2, SizeIs
<1>7. Cur(v) = 1 \/ (Cur(v) = 2 /\ Len(v.bufs) = 2)
  BY <1>1, <1>3
<1>8. CASE Cur(v) = 1
  <2>1. Pos(v) = v.off /\ v.off <= v.bufs[1].size
    BY <1>1, <1>2, <1>5, <1>8 DEF Pos, Base
  <2> QED BY <2>1, <1>2, <1>5, <1>6
<1>9. CASE Cur(v) = 2 /\ Len(v.bufs) = 2
  <2>1. Pos(v) = v.bufs[1].size + v.off /\ v.off <= v.bufs[2].size
    BY <1>1, <1>5, <1>9 DEF Pos, Base
  <2> QED BY <2>1, <1>2, <1>5, <1>6, <1>9
<1> QED BY <1>7, <1>8, <1>9

-----------------------------------------------------------------------------
(* A copy that is over. *)

\* What a copy to one buffer of a seekable kind has written.
LEMMA OutIs ==
    ASSUME NEW c, NEW u, NEW p, NEW g, NEW B, NEW L,
           Good(c, u, p, g, B, L), c.at = "over", c.dst.bufs[1].seek
    PROVE  /\ c.dst.bufs[1].data = Filled(u, p, g, g + (IF c.res > 0 THEN c.res ELSE 0))
           /\ c.res \in Int /\ g + c.res <= B
BY DEF Good, Dest, CopySet

\* The destination has n tokens from p on, the source the l from q on.
OutAndRest(c, u, p, n, q, l) == /\ c.dst.bufs[1].data = Run(u, p, n)
                                /\ c.src.bufs[1].data = Run(u, q, l)

\* All of n was taken from the pipe, and the rest is there.
LEMMA TakenAll ==
    ASSUME NEW c, NEW u, NEW p, NEW L, NEW n, NEW q, NEW l,
           u \in Uniques, p \in Int, L \in Nat, n \in Nat, l \in Nat,
           Good(c, u, p, 0, n, L), c.at = "over",
           Len(c.src.bufs) = 1, ~c.src.bufs[1].seek, ~c.dst.bufs[1].fd, c.dst.bufs[1].size = n,
           ~(c.res < fuse_buf_size(c.dst)), Sums(q, p, n), Sums(L, n, l)
    PROVE  OutAndRest(c, u, p, n, q, l)
<1>1. /\ Source(c.src, c.src.off, RestIn(c), u, p, n, L)
      /\ Dest(c.dst, 0 + (IF c.res > 0 THEN c.res ELSE 0), u, p, 0)
      /\ c.res >= 0 => Pos(c.src) = 0 + c.res
      /\ 0 + c.res <= n /\ c.res \in Int
      /\ c.dst \in VecSet /\ c.src \in VecSet
  BY DEF Good, CopySet
<1>2. Len(c.dst.bufs) = 1 /\ c.dst.bufs \in Seq(BufSet) /\ c.dst.bufs[1].seek
  BY <1>1 DEF Dest, VecSet
<1>3. fuse_buf_size(c.dst) = n
  BY <1>2, SizeIs
<1>4. c.res = n
  BY <1>1, <1>3
<1>5. c.dst.bufs[1].data = Run(u, p, n)
  <2>1. 0 + (IF c.res > 0 THEN c.res ELSE 0) = n
    BY <1>4
  <2>2. Dest(c.dst, n, u, p, 0)
    BY <1>1, <2>1
  <2>3. c.dst.bufs[1].data = Filled(u, p, 0, n)
    BY <2>2, <1>2 DEF Dest
  <2>4. Filled(u, p, 0, n) = Run(u, p, n)
    BY FilledIs
  <2> QED BY <2>3, <2>4
<1>6. RestIn(c) = "all"
  BY DEF RestIn
<1>7. c.src.idx \in 1 .. 2 /\ Cur(c.src) = 1 /\ Base(c.src, 1) = 0 /\ c.src.off \in Nat
  <2>1. c.src.idx \in 1 .. 1 + 1
    BY <1>1 DEF Source
  <2>2. Cur(c.src) = 1
    BY <2>1 DEF Cur, AtEnd
  <2> QED BY <2>1, <2>2, <1>1 DEF Base, VecSet
<1>8. c.src.off = n
  BY <1>1, <1>4, <1>7 DEF Pos
<1> DEFINE s == c.src.bufs[1].data
<1>9. s = Run(u, p + Base(c.src, 1) + (IF c.src.bufs[1].seek \/ 1 # Cur(c.src) THEN 0 ELSE c.src.off), Len(s))
      /\ Len(s) + c.src.off = L
  <2>1. 1 \in Cur(c.src) .. Len(c.src.bufs)
    BY <1>7
  <2> QED BY <2>1, <1>1, <1>6 DEF Source
<1>10. s \in Seq(Tokens)
  <2>1. c.src.bufs \in Seq(BufSet) /\ 1 \in 1 .. Len(c.src.bufs)
    BY <1>1 DEF VecSet
  <2>2. c.src.bufs[1] \in BufSet
    BY <2>1, ElementOfSeq
  <2> QED BY <2>2 DEF BufSet
<1>11. Len(s) = l
  <2>1. Len(s) \in Nat
    BY <1>10
  <2> QED BY <2>1, <1>8, <1>9 DEF Sums
<1>12. p + Base(c.src, 1) + (IF c.src.bufs[1].seek \/ 1 # Cur(c.src) THEN 0 ELSE c.src.off) = q
  BY <1>7, <1>8 DEF Sums
<1> HIDE DEF s
<1>13. s = Run(u, q, l)
  BY <1>9, <1>11, <1>12
<1> QED BY <1>5, <1>13 DEF s, OutAndRest

\* A stream of which all was used is empty.
LEMMA UsedUp ==
    ASSUME NEW c, NEW u, NEW p, NEW g, NEW B, NEW L,
           Good(c, u, p, g, B, L), c.at = "over", L \in Nat,
           Len(c.src.bufs) = 1, ~c.src.bufs[1].seek, c.src.bufs[1].size = L, AtEnd(c.src)
    PROVE  c.src.bufs[1].data = <<>>
<1>1. Source(c.src, c.src.off, RestIn(c), u, p, B, L) /\ c.src \in VecSet
  BY DEF Good, CopySet
<1>2. Cur(c.src) = 1
  BY DEF Cur
<1>3. c.src.off = L
  BY <1>1, <1>2 DEF Source
<1> DEFINE s == c.src.bufs[1].data
<1>4. s \in Seq(Tokens)
  <2>1. c.src.bufs \in Seq(BufSet) /\ 1 \in 1 .. Len(c.src.bufs)
    BY <1>1 DEF VecSet
  <2>2. c.src.bufs[1] \in BufSet
    BY <2>1, ElementOfSeq
  <2> QED BY <2>2 DEF BufSet
<1>5. Len(s) \in Nat /\ (Len(s) + c.src.off = L \/ Len(s) + c.src.off <= L)
  BY <1>1, <1>4 DEF Source
<1> HIDE DEF s
<1>6. Len(s) = 0
  BY <1>3, <1>5
<1> QED BY <1>4, <1>6, EmptySeq DEF s

\* The header of a message names it.
LEMMA SenderIs ==
    ASSUME NEW m, NEW k, m \in Messages, k \in Nat, k > 0
    PROVE  Sender(Run(m.unique, -1, k)[1]) = m
<1>1. Run(m.unique, -1, k)[1] = <<m.unique, -1 + 1>>
  <2>1. 1 \in 1 .. k
    OBVIOUS
  <2> QED BY <2>1 DEF Run
<1>2. -1 + 1 = 0
  OBVIOUS
<1>3. Run(m.unique, -1, k)[1] = Header(m.unique)
  BY <1>1, <1>2 DEF Header
<1>4. \A n \in Messages : Header(n.unique) = Header(m.unique) => n = m
  BY DataAssumption DEF Header
<1> QED BY <1>3, <1>4 DEF Sender

-----------------------------------------------------------------------------
(* What the kernel and the filesystem got. *)

\* An answer is the first of its message and changes no other's.
LEMMA AnswerIs ==
    ASSUME Recorded, Serves(msg), NEW x, NEW e, NEW d, Answer(x, e, d)
    PROVE  /\ DOMAIN answers' = Messages
           /\ answers'[msg] = <<[unique |-> x, error |-> e, data |-> d]>>
           /\ \A n \in Messages : n # msg => answers'[n] = answers[n]
<1> DEFINE r == [unique |-> x, error |-> e, data |-> d]
<1>1. answers' = [answers EXCEPT ![msg] = Append(@, r)]
  BY DEF Answer
<1> HIDE DEF r
<1>2. DOMAIN answers = Messages /\ msg \in Messages /\ answers[msg] = <<>>
  BY DEF Recorded, Serves
<1>3. answers' = [answers EXCEPT ![msg] = <<r>>]
  <2>1. Append(<<>>, r) = <<r>>
    OBVIOUS
  <2> QED BY <2>1, <1>1, <1>2
<1> QED BY <1>2, <1>3 DEF r

\* A message that is served gets an answer.
LEMMA AnswerRecorded ==
    ASSUME Recorded, Serves(msg), NEW x, NEW e, NEW d, Answer(x, e, d), unsent' = unsent,
           NEW k, k \in 0 .. msg.size, DOMAIN stored' = Messages,
           stored'[msg] = Data(msg.unique, k),
           \A n \in Messages : n # msg => stored'[n] = stored[n],
           msg.opcode = "WRITE" => e = TRUE \/ d = Len(stored'[msg]),
           msg.opcode = "READ" => x = Header(msg.unique)
                                  /\ \E n \in 0 .. MaxReply : d = Data(msg.unique, n)
    PROVE  Recorded'
<1> DEFINE r == [unique |-> x, error |-> e, data |-> d]
<1>1. /\ DOMAIN answers' = Messages
      /\ answers'[msg] = <<r>>
      /\ \A n \in Messages : n # msg => answers'[n] = answers[n]
  BY AnswerIs
<1>2. r.unique = x /\ r.error = e /\ r.data = d
  OBVIOUS
<1> HIDE DEF r
<1>3. answers'[msg][1] = r
  BY <1>1
<1>4. msg \in Messages \ unsent
  BY DEF Serves
<1>5. ASSUME NEW m, m = msg PROVE Answered(m)'
  <2>1. msg.opcode = "WRITE" => r.error \/ r.data = Len(stored'[msg])
    BY <1>2
  <2>2. msg.opcode = "READ" => /\ r.unique = Header(msg.unique)
                               /\ \E n \in 0 .. MaxReply : r.data = Data(msg.unique, n)
    BY <1>2
  <2>3. \E z \in {answers'[msg][1]} :
          /\ answers'[msg] = <<z>>
          /\ msg.opcode = "WRITE" => z.error \/ z.data = Len(stored'[msg])
          /\ msg.opcode = "READ" => /\ z.unique = Header(msg.unique)
                                    /\ \E n \in 0 .. MaxReply : z.data = Data(msg.unique, n)
    BY <1>1, <1>3, <2>1, <2>2
  <2>4. \E z \in {answers'[m][1]} :
          /\ answers'[m] = <<z>>
          /\ m.opcode = "WRITE" => z.error \/ z.data = Len(stored'[m])
          /\ m.opcode = "READ" => /\ z.unique = Header(m.unique)
                                  /\ \E n \in 0 .. MaxReply : z.data = Data(m.unique, n)
    BY <2>3, <1>5
  <2> QED BY <2>4 DEF Answered
<1>6. ASSUME NEW m \in Messages PROVE Answered(m)' /\ \E j \in 0 .. m.size : stored'[m] = Data(m.unique, j)
  <2>1. CASE m = msg
    <3>1. Answered(m)'
      BY <2>1, <1>5
    <3> QED BY <3>1, <2>1
  <2>2. CASE m # msg
    <3>1. answers'[m] = answers[m] /\ stored'[m] = stored[m]
      BY <2>2, <1>1
    <3>2. Answered(m) /\ \E j \in 0 .. m.size : stored[m] = Data(m.unique, j)
      BY DEF Recorded
    <3>3. Answered(m)'
      BY <3>1, <3>2 DEF Answered
    <3> QED BY <3>1, <3>2, <3>3
  <2> QED BY <2>1, <2>2
<1>7. \A m \in unsent : answers'[m] = <<>> /\ stored'[m] = <<>>
  <2> SUFFICES ASSUME NEW m \in unsent PROVE answers'[m] = <<>> /\ stored'[m] = <<>>
    OBVIOUS
  <2>1. m \in Messages /\ m # msg /\ answers[m] = <<>> /\ stored[m] = <<>>
    BY <1>4 DEF Recorded
  <2> QED BY <2>1, <1>1
<1>8. unsent \subseteq Messages
  BY DEF Recorded
<1> QED BY <1>1, <1>6, <1>7, <1>8 DEF Recorded

\* An answer that says nothing of what was stored.
LEMMA ReplyRecorded ==
    ASSUME Recorded, Serves(msg), NEW x, NEW e, NEW d, Answer(x, e, d),
           UNCHANGED <<unsent, stored>>,
           msg.opcode = "WRITE" => e = TRUE,
           msg.opcode = "READ" => x = Header(msg.unique)
                                  /\ \E n \in 0 .. MaxReply : d = Data(msg.unique, n)
    PROVE  Recorded'
<1>1. /\ msg \in Messages /\ stored[msg] = <<>> /\ DOMAIN stored = Messages
  BY DEF Serves, Recorded
<1>2. msg.size \in Nat /\ Data(msg.unique, 0) = <<>>
  BY <1>1, DataAssumption DEF Data
<1>3. 0 \in 0 .. msg.size /\ stored'[msg] = Data(msg.unique, 0) /\ DOMAIN stored' = Messages
      /\ unsent' = unsent /\ \A n \in Messages : n # msg => stored'[n] = stored[n]
  BY <1>1, <1>2
<1> QED BY <1>3, AnswerRecorded

\* So is an error.
LEMMA ErrorRecorded ==
    ASSUME Recorded, Serves(msg), Error, UNCHANGED <<unsent, stored>>
    PROVE  Recorded'
<1>1. Answer(Header(msg.unique), TRUE, <<>>)
  BY DEF Error
<1>2. 0 \in 0 .. MaxReply /\ <<>> = Data(msg.unique, 0)
  BY DataAssumption DEF Data
<1> QED BY <1>1, <1>2, ReplyRecorded

\* Nothing is recorded in between.
LEMMA SameRecorded ==
    ASSUME Recorded, UNCHANGED <<unsent, answers, stored>>
    PROVE  Recorded'
BY DEF Recorded, Answered

\* The thread is back in its loop.
LEMMA Returned ==
    ASSUME Recorded', Done, InPipe' = <<>>
    PROVE  DataInv'
<1>1. pc' = "receive" /\ copy' = NoCopy
  BY DEF Done
<1>2. NoCopy.at = "none"
  BY DEF NoCopy, Copy
<1> QED BY <1>1, <1>2 DEF DataInv, DataPlaces, Taking, Serving, Sending

-----------------------------------------------------------------------------
(* A message is received. *)

\* A thread begins with nothing.
LEMMA InitData == ASSUME Init PROVE DataInv
<1>1. /\ pc = "receive" /\ pipe = NoPipe /\ copy = NoCopy
      /\ unsent = Messages
      /\ answers = [m \in Messages |-> <<>>] /\ stored = [m \in Messages |-> <<>>]
  BY DEF Init
<1>2. InPipe = <<>> /\ copy.at = "none"
  BY <1>1 DEF InPipe, NoCopy, Copy
<1>3. \A m \in Messages : 0 \in 0 .. m.size /\ stored[m] = Data(m.unique, 0)
  BY <1>1, DataAssumption DEF Data
<1>4. Recorded
  BY <1>1, <1>3 DEF Recorded, Answered
<1> QED BY <1>1, <1>2, <1>4 DEF DataInv, DataPlaces, Taking, Serving, Sending

\* A message that was received is served once.
LEMMA ReceiveRecorded ==
    ASSUME Recorded, NEW m, m \in unsent, unsent' = unsent \ {m}, UNCHANGED <<answers, stored>>
    PROVE  Recorded' /\ Serves(m)'
BY DEF Recorded, Answered, Serves

\* A message that is read into memory is all there.
LEMMA ReceiveInMemoryData ==
    ASSUME DataInv, NEW m \in Messages, ReceiveInMemory(m)
    PROVE  DataInv'
<1>1. /\ pc = "receive" /\ m \in unsent /\ unsent' = unsent \ {m}
      /\ buf' = Mem(m.size + 1, Wire(m)) /\ pc' = "process"
      /\ UNCHANGED <<answers, stored, pipe, copy>>
  BY DEF ReceiveInMemory
<1>2. Recorded /\ InPipe = <<>> /\ copy.at = "none"
  BY <1>1 DEF DataInv, Taking
<1>3. Recorded' /\ Serves(m)'
  BY <1>1, <1>2, ReceiveRecorded
<1>4. InPipe' = <<>>
  BY <1>1, <1>2 DEF InPipe
<1>5. buf' = Mem(m.size + 1, Run(m.unique, -1, m.size + 1)) /\ ~buf'.fd
  BY <1>1, WireIs DEF Mem, Buf
<1>6. Received(m)'
  BY <1>4, <1>5 DEF Received, Given
<1>7. ServesFirst'
  BY <1>1, <1>3, <1>6 DEF ServesFirst
<1> QED BY <1>1, <1>2, <1>3, <1>7 DEF DataInv, DataPlaces, Taking, Serving, Sending

\* A copy from the pipe to memory begins.
PipeCopy(n, s) == Copy(Vec(<<Mem(n, <<>>)>>), Vec(<<Stream(n, s)>>), FALSE)

\* It takes n tokens from the pipe, whatever is behind them.
LEMMA PipeToMemory ==
    ASSUME NEW u, NEW p, NEW n, NEW B, NEW L, NEW s, NEW c,
           u \in Uniques, p \in Int, n \in Nat, L \in Nat, s = Run(u, p, L),
           c = PipeCopy(n, s)
    PROVE  /\ Good(c, u, p, 0, n, L) /\ c.at = "copy"
           /\ Len(c.src.bufs) = 1 /\ ~c.src.bufs[1].seek /\ c.src.bufs[1].size = n
           /\ ~c.dst.bufs[1].fd /\ c.dst.bufs[1].size = n /\ c.dst.bufs[1].seek
<1> DEFINE a == Mem(n, <<>>)
           b == Stream(n, s)
           v == Vec(<<a>>)
           w == Vec(<<b>>)
<1>1. s \in Seq(Tokens)
  BY RunIs
<1>2. a \in BufSet /\ ~a.fd /\ a.seek /\ a.size = n /\ a.data = <<>>
  <2>1. <<>> \in Seq(Tokens)
    OBVIOUS
  <2> QED BY <2>1 DEF Mem, Buf, BufSet
<1>3. b \in BufSet /\ b.fd /\ ~b.seek /\ b.size = n /\ b.data = s
  BY <1>1, StreamIs
<1> HIDE DEF a, b
<1>4. /\ v \in VecSet /\ v.idx = 1 /\ v.off = 0 /\ Len(v.bufs) = 1 /\ v.bufs[1] = a
  BY <1>2, VecIs
<1>5. /\ w \in VecSet /\ w.off = 0 /\ Len(w.bufs) = 1 /\ w.bufs[1] = b /\ Pos(w) = 0
  BY <1>3, VecIs
<1>6. c = Copy(v, w, FALSE)
  BY DEF a, b, PipeCopy
<1>7. Source(w, w.off, "all", u, p, n, L)
  <2>1. n \in Int /\ n <= n
    OBVIOUS
  <2>2. w = Vec(<<b>>) /\ b.size <= n /\ b.data = Run(u, p, L) /\ (~b.fd => b.seek /\ L = b.size) /\ (~b.seek => L = L)
    BY <1>3, <2>1
  <2> HIDE DEF w
  <2> QED BY <2>1, <2>2, <1>3, OneSource
<1> HIDE DEF v, w
<1>8. Dest(v, 0, u, p, 0)
  BY <1>2, <1>4, OneDest
<1>9. Good(c, u, p, 0, n, L)
  <2>1. 0 <= v.bufs[1].size /\ 0 \in Nat /\ v.bufs[1].seek
    BY <1>2, <1>4
  <2> QED BY <2>1, <1>4, <1>5, <1>6, <1>7, <1>8, CopyBegun
<1>10. c.src = w /\ c.dst = v /\ c.at = "copy"
  BY <1>6 DEF Copy
<1> QED BY <1>2, <1>3, <1>4, <1>5, <1>9, <1>10

\* A message that is spliced is alone in the pipe, and a small one is copied out.
LEMMA ReceiveInPipeData ==
    ASSUME DataInv, NEW m \in Messages, ReceiveInPipe(m)
    PROVE  DataInv'
<1> DEFINE all == InPipe \o Wire(m)
           n == m.size + 1
<1>1. /\ pc = "receive" /\ m \in unsent /\ unsent' = unsent \ {m}
      /\ pipe' = all
      /\ UNCHANGED <<answers, stored>>
      /\ IF IsSmall(n)
         THEN copy' = Copy(Vec(<<Mem(n, <<>>)>>), Vec(<<Stream(n, all)>>), FALSE) /\ pc' = "small"
         ELSE buf' = Stream(n, <<>>) /\ pc' = "process" /\ copy' = copy
  BY DEF ReceiveInPipe, Begin
<1>2. Recorded /\ InPipe = <<>> /\ copy.at = "none"
  BY <1>1 DEF DataInv, Taking
<1>3. Recorded' /\ Serves(m)'
  BY <1>1, <1>2, ReceiveRecorded
<1>4. m.unique \in Uniques /\ m.size \in Nat /\ Wire(m) = Run(m.unique, -1, n)
  BY WireIs
<1>5. all = Run(m.unique, -1, n)
  <2>1. -1 \in Int /\ n \in Nat
    BY <1>4
  <2> HIDE DEF n
  <2>2. Run(m.unique, -1, n) \in Seq(Tokens)
    BY <2>1, <1>4, RunIs
  <2>3. \A s \in Seq(Tokens) : <<>> \o s = s
    OBVIOUS
  <2> QED BY <1>2, <1>4, <2>2, <2>3
<1> HIDE DEF all
<1>6. CASE IsSmall(n)
  <2>1. m.size = 0 /\ n = 1
    BY <1>4, <1>6 DEF IsSmall, pagesize
  <2>2. copy' = PipeCopy(1, all) /\ pc' = "small"
    BY <1>1, <1>6, <2>1 DEF PipeCopy
  <2>3. all = Run(m.unique, -1, 1)
    BY <1>5, <2>1
  <2>4. /\ Good(copy', m.unique, -1, 0, 1, 1)
        /\ Len(copy'.src.bufs) = 1 /\ ~copy'.src.bufs[1].seek
        /\ ~copy'.dst.bufs[1].fd /\ copy'.dst.bufs[1].size = 1
    <3>1. -1 \in Int /\ 1 \in Nat
      OBVIOUS
    <3> QED BY <3>1, <2>2, <2>3, <1>4, PipeToMemory
  <2>5. ServesFirst'
    BY <2>1, <2>2, <2>4, <1>3 DEF ServesFirst, FromPipe
  <2> QED BY <2>2, <2>5, <1>3 DEF DataInv, DataPlaces, Taking, Serving, Sending
<1>7. CASE ~IsSmall(n)
  <2>1. pc' = "process" /\ buf' = Stream(n, <<>>) /\ copy' = copy
    BY <1>1, <1>7
  <2>2. buf'.fd /\ buf'.size = n
    BY <2>1 DEF Stream, Buf
  <2>3. Received(m)'
    BY <2>2, <1>1, <1>5 DEF Received
  <2>4. ServesFirst'
    BY <2>1, <2>3, <1>3 DEF ServesFirst
  <2> QED BY <2>1, <2>4, <1>2, <1>3 DEF DataInv, DataPlaces, Taking, Serving, Sending
<1> QED BY <1>6, <1>7

\* What the thread makes of a message does not depend on its place.
LEMMA ServesSame ==
    ASSUME NEW m, Serves(m), UNCHANGED <<unsent, answers, stored>>
    PROVE  Serves(m)'
BY DEF Serves

\* It is the message that is served.
LEMMA ServesMsg ==
    ASSUME NEW m, Serves(m), UNCHANGED <<unsent, answers, stored>>, msg' = m
    PROVE  Serves(msg)'
BY DEF Serves

\* There is no copy between two.
LEMMA NoCopyAt == NoCopy.at = "none"
BY DEF NoCopy, Copy

\* A small message leaves nothing in the pipe, or the session ends.
LEMMA ReceiveSmallData ==
    ASSUME DataInv, ReceiveSmall
    PROVE  DataInv'
<1>1. /\ pc = "small" /\ copy.at = "over" /\ copy' = NoCopy
      /\ UNCHANGED <<unsent, answers, stored>>
      /\ IF Short THEN pc' = "exit"
         ELSE pipe' = Rest /\ buf' = Mem(Len(Out), Out) /\ pc' = "process"
  BY DEF ReceiveSmall, Copied, kept
<1>2. Recorded /\ ServesFirst
  BY <1>1 DEF DataInv
<1>3. Recorded' /\ copy'.at = "none"
  BY <1>1, <1>2, SameRecorded, NoCopyAt
<1>4. CASE Short
  <2>1. pc' = "exit"
    BY <1>1, <1>4
  <2> QED BY <2>1, <1>3 DEF DataInv, DataPlaces, Taking, Serving, Sending
<1>5. CASE ~Short
  <2>1. PICK m \in Messages : /\ Serves(m) /\ m.size = 0
                              /\ Good(copy, m.unique, -1, 0, 1, 1) /\ FromPipe(1)
    BY <1>1, <1>2 DEF ServesFirst
  <2>2. Out = Run(m.unique, -1, 1) /\ Rest = Run(m.unique, 0, 0)
    <3> DEFINE L == m.size + 1
    <3>1. /\ -1 \in Int /\ 1 \in Nat /\ m.size \in Nat /\ L \in Nat
          /\ Sums(0, -1, 1) /\ Sums(L, 1, m.size) /\ m.unique \in Uniques
      BY WireIs DEF Sums
    <3>2. ~(copy.res < fuse_buf_size(copy.dst)) /\ Good(copy, m.unique, -1, 0, 1, L) /\ FromPipe(1)
      BY <2>1, <1>5 DEF Short
    <3>4. copy.at = "over"
      BY <1>1
    <3> HIDE DEF L
    <3> DEFINE u == m.unique
               l == m.size
               p == -1
               n == 1
               q == 0
    <3>5. /\ u \in Uniques /\ p \in Int /\ L \in Nat /\ n \in Nat /\ l \in Nat
          /\ Good(copy, u, p, 0, n, L) /\ Sums(q, p, n) /\ Sums(L, n, l)
      BY <3>1, <3>2
    <3>6. /\ Len(copy.src.bufs) = 1 /\ ~copy.src.bufs[1].seek
          /\ ~copy.dst.bufs[1].fd /\ copy.dst.bufs[1].size = n
      BY <3>2 DEF FromPipe
    <3> HIDE DEF u, l, p, n, q
    <3>7. OutAndRest(copy, u, p, n, q, l)
      BY <3>2, <3>4, <3>5, <3>6, TakenAll
    <3>3. Out = Run(m.unique, -1, 1) /\ Rest = Run(m.unique, 0, m.size)
      BY <3>7 DEF OutAndRest, Out, Rest, u, l, p, n, q
    <3> QED BY <3>3, <2>1
  <2>3. pipe' = <<>> /\ pc' = "process"
    BY <2>2, <1>1, <1>5, RunEmpty
  <2>4. buf' = Mem(m.size + 1, Run(m.unique, -1, m.size + 1)) /\ ~buf'.fd
    <3>1. Len(Run(m.unique, -1, 1)) = 1 /\ m.size + 1 = 1
      BY <2>1, RunIs, WireIs
    <3>2. buf' = Mem(1, Run(m.unique, -1, 1))
      BY <3>1, <2>2, <1>1, <1>5
    <3> QED BY <3>1, <3>2 DEF Mem, Buf
  <2>5. InPipe' = <<>>
    BY <2>3 DEF InPipe
  <2>6. Received(m)'
    BY <2>4, <2>5 DEF Received, Given
  <2>7. ServesFirst'
    BY <2>1, <2>3, <2>6, <1>1, ServesSame DEF ServesFirst
  <2> QED BY <2>3, <2>7, <1>3 DEF DataInv, DataPlaces, Taking, Serving, Sending
<1> QED BY <1>4, <1>5

-----------------------------------------------------------------------------
(* It is processed. *)

\* What is processed begins with the header of the message.
LEMMA ProcessData ==
    ASSUME DataInv, Process
    PROVE  DataInv'
<1>1. /\ pc = "process"
      /\ UNCHANGED <<unsent, answers, stored, pipe, buf>>
      /\ IF buf.fd THEN copy' = PipeCopy(1, pipe) /\ pc' = "header"
         ELSE msg' = Sender(buf.data[1]) /\ pc' = "dispatch" /\ copy' = copy
  BY DEF Process, CopyFromPipe, Begin, PipeCopy, kept
<1>2. Recorded /\ ServesFirst /\ copy.at = "none"
  BY <1>1 DEF DataInv, Taking
<1>3. Recorded'
  BY <1>1, <1>2, SameRecorded
<1>4. PICK m \in Messages : Serves(m) /\ Received(m)
  BY <1>1, <1>2 DEF ServesFirst
<1>5. m.unique \in Uniques /\ m.size + 1 \in Nat /\ m.size + 1 > 0 /\ -1 \in Int
  BY WireIs
<1>6. CASE buf.fd
  <2>1. copy' = PipeCopy(1, pipe) /\ pc' = "header" /\ pipe = Run(m.unique, -1, m.size + 1)
    BY <1>1, <1>4, <1>6 DEF Received
  <2>2. /\ Good(copy', m.unique, -1, 0, 1, m.size + 1)
        /\ Len(copy'.src.bufs) = 1 /\ ~copy'.src.bufs[1].seek
        /\ ~copy'.dst.bufs[1].fd /\ copy'.dst.bufs[1].size = 1
    <3> DEFINE L == m.size + 1
    <3>1. L \in Nat /\ pipe = Run(m.unique, -1, L) /\ 1 \in Nat
      BY <1>5, <2>1
    <3> HIDE DEF L
    <3>2. Good(copy', m.unique, -1, 0, 1, L)
      BY <3>1, <2>1, <1>5, PipeToMemory
    <3>3. /\ Len(copy'.src.bufs) = 1 /\ ~copy'.src.bufs[1].seek
          /\ ~copy'.dst.bufs[1].fd /\ copy'.dst.bufs[1].size = 1
      BY <3>1, <3>2, <2>1, <1>5, PipeToMemory
    <3> QED BY <3>2, <3>3 DEF L
  <2>3. ServesFirst'
    BY <2>1, <2>2, <1>1, <1>4, <1>6, ServesSame DEF ServesFirst, FromPipe
  <2> QED BY <2>1, <2>3, <1>3 DEF DataInv, DataPlaces, Taking, Serving, Sending
<1>7. CASE ~buf.fd
  <2>1. Given(m) /\ buf.data = Run(m.unique, -1, m.size + 1)
    BY <1>4, <1>7 DEF Received, Given, Mem, Buf
  <2>2. msg' = m /\ pc' = "dispatch" /\ copy' = copy
    BY <2>1, <1>1, <1>5, <1>7, SenderIs
  <2>3. Given(msg)'
    BY <2>1, <2>2, <1>1 DEF Given, InPipe
  <2>4. ServesMessage'
    BY <2>2, <2>3, <1>1, <1>4, ServesMsg DEF ServesMessage
  <2> QED BY <2>2, <2>4, <1>2, <1>3 DEF DataInv, DataPlaces, Taking, Serving, Sending
<1> QED BY <1>6, <1>7

\* A header that cannot be read takes the pipe with it.
LEMMA ProcessFailsData ==
    ASSUME DataInv, ProcessFails
    PROVE  DataInv'
<1>1. pipe' = NoPipe /\ Done /\ UNCHANGED <<unsent, answers, stored>>
  BY DEF ProcessFails, kept
<1>2. Recorded'
  BY <1>1, SameRecorded DEF DataInv
<1>3. InPipe' = <<>>
  BY <1>1 DEF InPipe
<1> QED BY <1>1, <1>2, <1>3, Returned

\* Behind the header the pipe holds the data of its message.
LEMMA ProcessHeaderData ==
    ASSUME DataInv, ProcessHeader
    PROVE  DataInv'
<1>1. /\ pc = "header" /\ copy.at = "over" /\ copy' = NoCopy /\ ~Short
      /\ UNCHANGED <<unsent, answers, stored, buf>>
      /\ msg' = Sender(Out[1]) /\ pipe' = Rest /\ pc' = "dispatch"
  BY DEF ProcessHeader, Copied, kept
<1>2. Recorded /\ ServesFirst
  BY <1>1 DEF DataInv
<1>3. Recorded' /\ copy'.at = "none"
  BY <1>1, <1>2, SameRecorded, NoCopyAt
<1>4. PICK m \in Messages : /\ Serves(m) /\ buf.fd
                            /\ Good(copy, m.unique, -1, 0, 1, m.size + 1) /\ FromPipe(1)
  BY <1>1, <1>2 DEF ServesFirst
<1>5. Out = Run(m.unique, -1, 1) /\ Rest = Run(m.unique, 0, m.size)
  <2> DEFINE L == m.size + 1
  <2>1. /\ -1 \in Int /\ 1 \in Nat /\ m.size \in Nat /\ L \in Nat
        /\ Sums(0, -1, 1) /\ Sums(L, 1, m.size) /\ m.unique \in Uniques
    BY WireIs DEF Sums
  <2>2. ~(copy.res < fuse_buf_size(copy.dst)) /\ Good(copy, m.unique, -1, 0, 1, L)
    BY <1>1, <1>4 DEF Short
  <2> HIDE DEF L
  <2> DEFINE u == m.unique
             l == m.size
             p == -1
             n == 1
             q == 0
  <2>3. /\ u \in Uniques /\ p \in Int /\ L \in Nat /\ n \in Nat /\ l \in Nat
        /\ Good(copy, u, p, 0, n, L) /\ Sums(q, p, n) /\ Sums(L, n, l)
    BY <2>1, <2>2
  <2>4. /\ Len(copy.src.bufs) = 1 /\ ~copy.src.bufs[1].seek
        /\ ~copy.dst.bufs[1].fd /\ copy.dst.bufs[1].size = n
    BY <1>4 DEF FromPipe
  <2>5. copy.at = "over"
    BY <1>1
  <2> HIDE DEF u, l, p, n, q
  <2>6. OutAndRest(copy, u, p, n, q, l)
    BY <2>2, <2>3, <2>4, <2>5, TakenAll
  <2> QED BY <2>6 DEF OutAndRest, Out, Rest, u, l, p, n, q
<1>6. msg' = m
  <2>1. 1 \in Nat /\ 1 > 0
    OBVIOUS
  <2> QED BY <2>1, <1>1, <1>5, SenderIs
<1>7. Given(msg)'
  BY <1>1, <1>4, <1>5, <1>6 DEF Given
<1>8. ServesMessage'
  BY <1>1, <1>4, <1>6, <1>7, ServesMsg DEF ServesMessage
<1> QED BY <1>1, <1>3, <1>8 DEF DataInv, DataPlaces, Taking, Serving, Sending

\* The request gets an error and leaves nothing in the pipe.
LEMMA RefuseData ==
    ASSUME DataInv, Refuse
    PROVE  DataInv'
<1>1. pc = "dispatch" /\ Error /\ clear_pipe /\ Done /\ UNCHANGED <<unsent, stored>>
  BY DEF Refuse
<1>2. Recorded /\ ServesMessage
  BY <1>1 DEF DataInv, Serving
<1>3. Serves(msg) /\ Given(msg)
  BY <1>1, <1>2 DEF ServesMessage
<1>4. Recorded'
  BY <1>1, <1>2, <1>3, ErrorRecorded
<1>5. InPipe' = <<>>
  BY <1>1, <1>3 DEF clear_pipe, Given, InPipe
<1> QED BY <1>1, <1>4, <1>5, Returned

\* A large message that is not a WRITE is copied out of the pipe.
LEMMA DispatchData ==
    ASSUME DataInv, Dispatch
    PROVE  DataInv'
<1>1. /\ pc = "dispatch"
      /\ UNCHANGED <<unsent, answers, stored, pipe, buf, msg>>
      /\ IF buf.fd /\ msg.opcode # "WRITE" THEN copy' = PipeCopy(msg.size, pipe) /\ pc' = "body"
         ELSE pc' = msg.opcode /\ copy' = copy
  BY DEF Dispatch, CopyFromPipe, Begin, PipeCopy, kept, request
<1>2. Recorded /\ ServesMessage /\ copy.at = "none"
  BY <1>1 DEF DataInv, Serving, Taking
<1>3. Serves(msg) /\ Given(msg)
  BY <1>1, <1>2 DEF ServesMessage
<1>4. Recorded' /\ Serves(msg)' /\ Given(msg)'
  BY <1>1, <1>2, <1>3, SameRecorded, ServesMsg DEF Given, InPipe
<1>5. msg \in Messages /\ msg.opcode \in {"WRITE", "READ", "SETXATTR"}
  BY <1>3, DataAssumption DEF Serves
<1>6. CASE buf.fd /\ msg.opcode # "WRITE"
  <2>1. copy' = PipeCopy(msg.size, pipe) /\ pc' = "body" /\ pipe = Run(msg.unique, 0, msg.size)
    BY <1>1, <1>3, <1>6 DEF Given
  <2>2. msg.unique \in Uniques /\ msg.size \in Nat /\ 0 \in Int
    BY <1>5, WireIs
  <2>3. Good(copy', msg.unique, 0, 0, msg.size, msg.size)
    BY <2>1, <2>2, PipeToMemory
  <2>4. /\ Len(copy'.src.bufs) = 1 /\ ~copy'.src.bufs[1].seek
        /\ ~copy'.dst.bufs[1].fd /\ copy'.dst.bufs[1].size = msg.size
    BY <2>1, <2>2, <2>3, PipeToMemory
  <2>5. ServesMessage'
    BY <2>1, <2>3, <2>4, <1>1, <1>4, <1>6 DEF ServesMessage, FromPipe
  <2> QED BY <2>1, <2>5, <1>4 DEF DataInv, DataPlaces, Taking, Serving, Sending
<1>7. CASE ~(buf.fd /\ msg.opcode # "WRITE")
  <2>1. pc' = msg.opcode /\ copy' = copy
    BY <1>1, <1>7
  <2>2. CASE msg.opcode = "WRITE"
    <3>1. ServesMessage'
      BY <2>1, <2>2, <1>1, <1>4 DEF ServesMessage
    <3> QED BY <2>1, <2>2, <3>1, <1>2, <1>4 DEF DataInv, DataPlaces, Taking, Serving, Sending
  <2>3. CASE msg.opcode # "WRITE"
    <3>1. InPipe' = <<>>
      BY <2>3, <1>1, <1>3, <1>7 DEF Given, InPipe
    <3>2. CASE msg.opcode = "READ"
      <4>1. ServesMessage' /\ ServesRead'
        BY <2>1, <3>1, <3>2, <1>1, <1>4 DEF ServesMessage, ServesRead
      <4> QED BY <2>1, <3>2, <4>1, <1>2, <1>4 DEF DataInv, DataPlaces, Taking, Serving, Sending
    <3>3. CASE msg.opcode = "SETXATTR"
      <4>1. ServesMessage'
        BY <2>1, <3>1, <3>3, <1>1, <1>4 DEF ServesMessage
      <4> QED BY <2>1, <3>3, <4>1, <1>2, <1>4 DEF DataInv, DataPlaces, Taking, Serving, Sending
    <3> QED BY <2>3, <3>2, <3>3, <1>5
  <2> QED BY <2>2, <2>3
<1> QED BY <1>6, <1>7

\* All of it, or the pipe is reset.
LEMMA DispatchBodyData ==
    ASSUME DataInv, DispatchBody
    PROVE  DataInv'
<1>1. /\ pc = "body" /\ copy.at = "over" /\ UNCHANGED <<unsent, stored>>
      /\ IF Short THEN Error /\ pipe' = NoPipe /\ Done
         ELSE /\ pipe' = Rest /\ pc' = msg.opcode /\ copy' = NoCopy
              /\ UNCHANGED <<answers, buf, msg>>
  BY DEF DispatchBody, Copied, request
<1>2. Recorded /\ ServesMessage
  BY <1>1 DEF DataInv, Serving
<1>3. /\ Serves(msg) /\ Good(copy, msg.unique, 0, 0, msg.size, msg.size)
      /\ FromPipe(msg.size) /\ msg.opcode # "WRITE"
  BY <1>1, <1>2 DEF ServesMessage
<1>4. msg \in Messages /\ msg.opcode \in {"READ", "SETXATTR"}
  BY <1>3, DataAssumption DEF Serves
<1>5. CASE Short
  <2>1. Error /\ pipe' = NoPipe /\ Done
    BY <1>1, <1>5
  <2>2. Recorded'
    BY <2>1, <1>1, <1>2, <1>3, ErrorRecorded
  <2>3. InPipe' = <<>>
    BY <2>1 DEF InPipe
  <2> QED BY <2>1, <2>2, <2>3, Returned
<1>6. CASE ~Short
  <2>1. /\ pipe' = Rest /\ pc' = msg.opcode /\ copy'.at = "none"
        /\ UNCHANGED <<unsent, answers, stored, buf, msg>>
    BY <1>1, <1>6, NoCopyAt
  <2>2. Rest = <<>>
    <3> DEFINE l == 0
               n == msg.size
    <3>1. /\ 0 \in Int /\ n \in Nat /\ l \in Nat
          /\ Sums(n, 0, n) /\ Sums(n, n, l) /\ msg.unique \in Uniques
      BY <1>4, WireIs DEF Sums
    <3>2. ~(copy.res < fuse_buf_size(copy.dst)) /\ Good(copy, msg.unique, 0, 0, n, n)
      BY <1>3, <1>6 DEF Short
    <3>3. copy.at = "over" /\ FromPipe(n)
      BY <1>1, <1>3
    <3> DEFINE u == msg.unique
               p == 0
    <3>6. /\ u \in Uniques /\ p \in Int /\ n \in Nat /\ l \in Nat
          /\ Good(copy, u, p, 0, n, n) /\ Sums(n, p, n) /\ Sums(n, n, l)
      BY <3>1, <3>2
    <3>7. /\ Len(copy.src.bufs) = 1 /\ ~copy.src.bufs[1].seek
          /\ ~copy.dst.bufs[1].fd /\ copy.dst.bufs[1].size = n
      BY <3>3 DEF FromPipe
    <3> HIDE DEF n, l, u, p
    <3>8. OutAndRest(copy, u, p, n, n, l)
      BY <3>2, <3>3, <3>6, <3>7, TakenAll
    <3>4. Rest = Run(msg.unique, n, l)
      BY <3>8 DEF OutAndRest, Rest, u
    <3>5. Rest = Run(msg.unique, n, 0)
      BY <3>4 DEF l
    <3> QED BY <3>5, RunEmpty
  <2>3. Recorded' /\ Serves(msg)' /\ InPipe' = <<>>
    BY <2>1, <2>2, <1>2, <1>3, SameRecorded, ServesMsg DEF InPipe
  <2>4. CASE msg.opcode = "READ"
    <3>1. ServesMessage' /\ ServesRead'
      BY <2>1, <2>3, <2>4 DEF ServesMessage, ServesRead
    <3> QED BY <2>1, <2>3, <2>4, <3>1 DEF DataInv, DataPlaces, Taking, Serving, Sending
  <2>5. CASE msg.opcode = "SETXATTR"
    <3>1. ServesMessage'
      BY <2>1, <2>3, <2>5 DEF ServesMessage
    <3> QED BY <2>1, <2>3, <2>5, <3>1 DEF DataInv, DataPlaces, Taking, Serving, Sending
  <2> QED BY <2>4, <2>5, <1>4
<1> QED BY <1>5, <1>6

\* Other requests find the pipe empty.
LEMMA SetXattrData ==
    ASSUME DataInv, SetXattr
    PROVE  DataInv'
<1>1. pc = "SETXATTR" /\ Answer(Header(msg.unique), FALSE, <<>>) /\ Done /\ UNCHANGED <<unsent, stored, pipe>>
  BY DEF SetXattr
<1>2. Recorded /\ ServesMessage
  BY <1>1 DEF DataInv, Serving
<1>3. Serves(msg) /\ msg.opcode = "SETXATTR" /\ InPipe = <<>>
  BY <1>1, <1>2 DEF ServesMessage
<1>4. msg.opcode # "WRITE" /\ msg.opcode # "READ"
  BY <1>3
<1>5. Recorded'
  BY <1>1, <1>2, <1>3, <1>4, ReplyRecorded
<1>6. InPipe' = <<>>
  BY <1>1, <1>3 DEF InPipe
<1> QED BY <1>1, <1>5, <1>6, Returned

-----------------------------------------------------------------------------
(* A copy goes on. *)

SameKinds(c2, c) ==
    /\ c2.force = c.force
    /\ c2.dst.bufs[1].fd = c.dst.bufs[1].fd /\ c2.dst.bufs[1].seek = c.dst.bufs[1].seek
    /\ c2.dst.bufs[1].size = c.dst.bufs[1].size
    /\ Len(c2.src.bufs) = Len(c.src.bufs)
    /\ c2.src.bufs[1].fd = c.src.bufs[1].fd /\ c2.src.bufs[1].seek = c.src.bufs[1].seek
    /\ c2.src.bufs[1].size = c.src.bufs[1].size

\* A step of a copy keeps the kinds and sizes of its buffers.
LEMMA KinFlags ==
    ASSUME NEW c, NEW u, NEW p, NEW g, NEW B, NEW L, NEW o,
           Good(c, u, p, g, B, L), c.at \in {"copy", "slow"}, Kin(o, c)
    PROVE  SameKinds(o, c)
<1>1. Len(c.src.bufs) \in 1 .. 2 /\ Len(c.dst.bufs) = 1
  BY DEF Good, Inner, Source, Dest
<1>2. 1 \in 1 .. Len(c.src.bufs) /\ 1 \in 1 .. Len(c.dst.bufs)
  BY <1>1
<1> QED BY <1>2 DEF Kin, AlikeBufs, SameKinds

\* Each system call of a copy moves what comes next.
LEMMA CopyingGood ==
    ASSUME NEW u, NEW p, NEW g, NEW B, NEW L,
           u \in Uniques, p \in Int, g \in Nat, B \in Int, L \in Nat,
           Good(copy, u, p, g, B, L), Copying
    PROVE  Good(copy', u, p, g, B, L) /\ SameKinds(copy', copy)
<1>1. CASE copy.at = "copy" /\ copy' \in fuse_buf_copy(copy)
  <2>1. Good(copy', u, p, g, B, L) /\ Kin(copy', copy)
    BY <1>1, CopyGood
  <2> QED BY <2>1, <1>1, KinFlags
<1>2. CASE copy.at = "slow" /\ copy' \in fuse_buf_fd_to_fd(copy)
  <2>1. Good(copy', u, p, g, B, L) /\ Kin(copy', copy)
    BY <1>2, SlowGood
  <2> QED BY <2>1, <1>2, KinFlags
<1> QED BY <1>1, <1>2 DEF Copying

\* A copy that goes on stays that of its place.
LEMMA CopyingData ==
    ASSUME DataInv, Copying
    PROVE  DataInv'
<1>1. /\ copy.at # "none"
      /\ UNCHANGED <<unsent, answers, stored, pipe, pc, buf, msg, vec, now_len>>
  BY DEF Copying, kept, request
<1>2. pc \in Taking /\ Recorded
  BY <1>1 DEF DataInv
<1>3. Recorded'
  BY <1>1, <1>2, SameRecorded
<1>4. 0 \in Nat /\ 0 \in Int /\ 1 \in Int /\ 1 \in Nat /\ -1 \in Int /\ MaxReply \in Nat /\ MaxReply \in Int
  BY DataAssumption
<1>5. CASE pc \in {"small", "header"}
  <2>1. ServesFirst
    BY <1>5 DEF DataInv
  <2>2. PICK m \in Messages :
          /\ Serves(m)
          /\ pc = "small" => m.size = 0 /\ Good(copy, m.unique, -1, 0, 1, 1) /\ FromPipe(1)
          /\ pc = "header" => Good(copy, m.unique, -1, 0, 1, m.size + 1) /\ FromPipe(1) /\ buf.fd
    BY <2>1 DEF ServesFirst
  <2>3. m.unique \in Uniques /\ m.size \in Nat /\ m.size + 1 \in Nat
    BY WireIs
  <2>4. Serves(m)'
    BY <1>1, <2>2, ServesSame
  <2>5. FromPipe(1) /\ SameKinds(copy', copy) => FromPipe(1)'
    BY DEF FromPipe, SameKinds
  <2>6. CASE pc = "small"
    <3>1. Good(copy', m.unique, -1, 0, 1, 1) /\ SameKinds(copy', copy)
      BY <2>2, <2>3, <2>6, <1>4, CopyingGood
    <3>2. ServesFirst'
      BY <3>1, <2>2, <2>4, <2>5, <2>6, <1>1 DEF ServesFirst
    <3> QED BY <3>2, <2>6, <1>1, <1>3 DEF DataInv, DataPlaces, Taking, Serving, Sending
  <2>7. CASE pc = "header"
    <3>1. Good(copy', m.unique, -1, 0, 1, m.size + 1) /\ SameKinds(copy', copy)
      <4> DEFINE L == m.size + 1
      <4>1. L \in Nat /\ Good(copy, m.unique, -1, 0, 1, L)
        BY <2>2, <2>3, <2>7
      <4> HIDE DEF L
      <4>2. Good(copy', m.unique, -1, 0, 1, L) /\ SameKinds(copy', copy)
        BY <4>1, <2>3, <1>4, CopyingGood
      <4> QED BY <4>2 DEF L
    <3>2. ServesFirst'
      BY <3>1, <2>2, <2>4, <2>5, <2>7, <1>1 DEF ServesFirst
    <3> QED BY <3>2, <2>7, <1>1, <1>3 DEF DataInv, DataPlaces, Taking, Serving, Sending
  <2> QED BY <2>6, <2>7, <1>5
<1>6. CASE pc \in {"body", "written", "flat"}
  <2>1. ServesMessage
    BY <1>6 DEF DataInv, Serving
  <2>2. Serves(msg) /\ Good(copy, msg.unique, 0, 0, msg.size, msg.size)
    BY <2>1, <1>6 DEF ServesMessage
  <2>3. msg.unique \in Uniques /\ msg.size \in Nat /\ msg.size \in Int
    BY <2>2, WireIs DEF Serves
  <2>4. Good(copy', msg.unique, 0, 0, msg.size, msg.size) /\ SameKinds(copy', copy)
    BY <2>2, <2>3, <1>4, CopyingGood
  <2>5. Good(copy, msg.unique, 0, 0, msg.size, msg.size)'
    BY <2>4, <1>1
  <2>6. Serves(msg)'
    BY <1>1, <2>2, ServesMsg
  <2>7. ServesMessage'
    BY <2>1, <2>4, <2>5, <2>6, <1>1, <1>6 DEF ServesMessage, FromPipe, Given, InPipe, SameKinds
  <2> QED BY <2>7, <1>1, <1>3, <1>6 DEF DataInv, DataPlaces, Taking, Serving, Sending
<1>7. CASE pc \in {"gathered", "fill", "rest"}
  <2>1. ServesMessage /\ ServesRead
    BY <1>7 DEF DataInv, Serving, Sending
  <2>2. Serves(msg)
    BY <2>1, <1>7 DEF ServesMessage
  <2>3. msg.unique \in Uniques
    BY <2>2, WireIs DEF Serves
  <2>4. Serves(msg)'
    BY <1>1, <2>2, ServesMsg
  <2>5. ServesMessage'
    BY <2>4, <1>1, <1>7 DEF ServesMessage
  <2>6. ASSUME NEW g \in Nat, Sends(g) PROVE Sends(g)' /\ SameKinds(copy', copy)
    <3>1. PICK L \in Nat : Good(copy, msg.unique, 0, g, MaxReply, L)
      BY <2>6 DEF Sends
    <3>2. Good(copy', msg.unique, 0, g, MaxReply, L) /\ SameKinds(copy', copy)
      BY <3>1, <2>3, <1>4, CopyingGood
    <3> QED BY <3>2, <1>1 DEF Sends
  <2>7. Vector(0) => Vector(0)'
    BY <1>1 DEF Vector
  <2>8. InPipe' = InPipe /\ (Headed(now_len) => Headed(now_len)')
    BY <1>1 DEF InPipe, Headed
  <2>9. pc = "rest" => now_len \in Nat
    BY <2>1, <1>4 DEF ServesRead, Headed
  <2>10. ServesRead'
    <3>1. CASE pc = "gathered"
      BY <3>1, <2>1, <2>6, <2>8, <1>1, <1>4 DEF ServesRead, SameKinds
    <3>2. CASE pc = "fill"
      BY <3>2, <2>1, <2>6, <2>7, <1>1, <1>4 DEF ServesRead, SameKinds
    <3>3. CASE pc = "rest"
      <4>1. Sends(now_len) /\ now_len \in Nat
        BY <3>3, <2>1, <2>9 DEF ServesRead
      <4>2. Sends(now_len)' /\ SameKinds(copy', copy)
        BY <4>1, <2>6, <1>1 DEF Sends
      <4> QED BY <3>3, <4>2, <2>1, <2>8, <1>1 DEF ServesRead, SameKinds
    <3> QED BY <3>1, <3>2, <3>3, <1>7
  <2> QED BY <2>5, <2>10, <1>1, <1>3, <1>7 DEF DataInv, DataPlaces, Taking, Serving, Sending
<1> QED BY <1>2, <1>5, <1>6, <1>7 DEF Taking

-----------------------------------------------------------------------------
(* WRITE. *)

\* Behind the header come the data.
LEMMA TailRun ==
    ASSUME NEW u, NEW n, u \in Uniques, n \in Nat
    PROVE  Tail(Run(u, -1, n + 1)) = Run(u, 0, n)
<1> DEFINE k == n + 1
           a == -1
           s == Run(u, a, k)
<1>1. /\ a \in Int /\ k \in Nat /\ k > 0 /\ k <= k /\ 1 \in Nat /\ n \in Nat
      /\ Sums(2, 1, 1) /\ Sums(k, 1, n) /\ Sums(0, a, 1)
  BY DEF Sums
<1>2. k \in Int
  BY <1>1
<1> HIDE DEF k, a
<1>3. s \in Seq(Tokens) /\ Len(s) = k
  BY <1>1, RunIs
<1>4. Part(s, 2, k) = Run(u, 0, n)
  BY <1>1, <1>2, RunPiece
<1> HIDE DEF s
<1>5. Tail(s) = SubSeq(s, 2, k)
  BY <1>1, <1>3
<1>6. Tail(s) = Run(u, 0, n)
  BY <1>4, <1>5 DEF Part
<1> QED BY <1>6 DEF s, k, a

\* The data of a WRITE, from the pipe or behind the header.
LEMMA WriteDataIs ==
    ASSUME NEW u, NEW n, msg \in Messages, u = msg.unique, n = msg.size, Given(msg)
    PROVE  /\ Source(WriteData, WriteData.off, "all", u, 0, n, n)
           /\ Pos(WriteData) = 0 /\ ~AtEnd(WriteData) /\ Len(WriteData.bufs) = 1
           /\ buf.fd => ~WriteData.bufs[1].seek /\ WriteData.bufs[1].size = n
           /\ ~buf.fd => Tail(buf.data) = Run(u, 0, n)
<1>1. u \in Uniques /\ n \in Nat /\ n \in Int /\ 0 \in Int /\ n <= n
  BY WireIs
<1>2. Run(u, 0, n) \in Seq(Tokens)
  BY <1>1, RunIs
<1>3. \E b \in BufSet : /\ WriteData = Vec(<<b>>) /\ b.size = n /\ b.data = Run(u, 0, n)
                        /\ b.fd = buf.fd /\ (buf.fd => ~b.seek) /\ (~b.fd => b.seek)
  <2>1. CASE buf.fd
    <3> DEFINE b == Stream(n, pipe)
    <3>1. pipe = Run(u, 0, n)
      BY <2>1 DEF Given
    <3>2. b \in BufSet /\ b.fd /\ ~b.seek /\ b.size = n /\ b.data = pipe
      BY <3>1, <1>1, <1>2, StreamIs
    <3>3. WriteData = Vec(<<b>>)
      BY <2>1 DEF WriteData
    <3>4. b.fd = buf.fd
      BY <3>1, <2>1, <1>1 DEF Stream, Buf, Given
    <3> HIDE DEF b
    <3> QED BY <3>1, <3>2, <3>3, <3>4, <2>1
  <2>2. CASE ~buf.fd
    <3> DEFINE b == Mem(n, Tail(buf.data))
    <3>1. buf = Mem(n + 1, Run(u, -1, n + 1))
      BY <2>2 DEF Given
    <3>2. buf.data = Run(u, -1, n + 1) /\ buf.fd = FALSE
      BY <3>1 DEF Mem, Buf
    <3>3. Tail(buf.data) = Run(u, 0, n)
      BY <3>2, <1>1, TailRun
    <3>4. b \in BufSet /\ ~b.fd /\ b.seek /\ b.size = n /\ b.data = Run(u, 0, n)
      BY <3>3, <1>1, <1>2, MemIs
    <3>5. b.fd = FALSE
      BY DEF Mem, Buf
    <3>6. WriteData = Vec(<<b>>)
      BY <2>2 DEF WriteData
    <3> HIDE DEF b
    <3> QED BY <2>2, <3>2, <3>4, <3>5, <3>6
  <2> QED BY <2>1, <2>2
<1>4. PICK b \in BufSet : /\ WriteData = Vec(<<b>>) /\ b.size = n /\ b.data = Run(u, 0, n)
                          /\ b.fd = buf.fd /\ (buf.fd => ~b.seek) /\ (~b.fd => b.seek)
  BY <1>3
<1>5. Source(WriteData, WriteData.off, "all", u, 0, n, n)
  <2>1. ~b.fd => b.seek /\ n = b.size
    BY <1>4
  <2>2. b.size <= n /\ (~b.seek => n = n)
    BY <1>1, <1>4
  <2> QED BY <2>1, <2>2, <1>1, <1>4, OneSource
<1>6. Pos(WriteData) = 0 /\ ~AtEnd(WriteData) /\ Len(WriteData.bufs) = 1 /\ WriteData.bufs[1] = b
  BY <1>4, VecIs
<1>7. ~buf.fd => Tail(buf.data) = Run(u, 0, n)
  <2> SUFFICES ASSUME ~buf.fd PROVE Tail(buf.data) = Run(u, 0, n)
    OBVIOUS
  <2>1. buf = Mem(n + 1, Run(u, -1, n + 1))
    BY DEF Given
  <2>2. buf.data = Run(u, -1, n + 1)
    BY <2>1 DEF Mem, Buf
  <2> QED BY <2>2, <1>1, TailRun
<1> QED BY <1>4, <1>5, <1>6, <1>7

\* The data of a WRITE are copied to a file, or to memory first.
LEMMA WriteBufData ==
    ASSUME DataInv, WriteBuf
    PROVE  DataInv'
<1> DEFINE u == msg.unique
           n == msg.size
           dst == Buf(TRUE, TRUE, n, <<>>)
<1>1. /\ pc = "WRITE" /\ UNCHANGED <<unsent, answers, stored, pipe, buf, msg>>
      /\ \/ copy' = Copy(Vec(<<dst>>), WriteData, FALSE) /\ pc' = "written"
         \/ buf.fd /\ copy' = Copy(Vec(<<Mem(n, <<>>)>>), WriteData, FALSE) /\ pc' = "flat"
  BY DEF WriteBuf, Begin, kept, request
<1>2. Recorded /\ ServesMessage
  BY <1>1 DEF DataInv, Serving
<1>3. Serves(msg) /\ Given(msg) /\ msg.opcode = "WRITE" /\ msg \in Messages
  BY <1>1, <1>2 DEF ServesMessage, Serves
<1>4. Recorded' /\ Serves(msg)' /\ Given(msg)'
  BY <1>1, <1>2, <1>3, SameRecorded, ServesMsg DEF Given, InPipe
<1>5. u \in Uniques /\ n \in Nat /\ 0 \in Int /\ 0 \in Nat /\ 0 <= n
  BY <1>3, WireIs
<1> HIDE DEF u, n
<1>6. /\ Source(WriteData, WriteData.off, "all", u, 0, n, n)
      /\ Pos(WriteData) = 0 /\ Len(WriteData.bufs) = 1
      /\ buf.fd => ~WriteData.bufs[1].seek /\ WriteData.bufs[1].size = n
  BY <1>3, WriteDataIs DEF u, n
<1>7. CASE copy' = Copy(Vec(<<dst>>), WriteData, FALSE) /\ pc' = "written"
  <2>1. dst \in BufSet /\ dst.fd /\ dst.seek /\ dst.size = n /\ dst.data = <<>>
    <3>1. <<>> \in Seq(Tokens)
      OBVIOUS
    <3> QED BY <3>1, <1>5 DEF Buf, BufSet
  <2> HIDE DEF dst
  <2> DEFINE v == Vec(<<dst>>)
  <2>2. v \in VecSet /\ v.idx = 1 /\ v.off = 0 /\ Len(v.bufs) = 1 /\ v.bufs[1] = dst
    BY <2>1, VecIs
  <2>3. copy' = Copy(v, WriteData, FALSE)
    BY <1>7
  <2> HIDE DEF v
  <2>4. Dest(v, 0, u, 0, 0)
    BY <2>1, <2>2, <1>5, OneDest
  <2>5. Good(copy', u, 0, 0, n, n)
    <3>1. 0 <= v.bufs[1].size /\ v.bufs[1].seek /\ FALSE \in BOOLEAN
      BY <2>1, <2>2, <1>5
    <3> QED BY <3>1, <2>2, <2>3, <2>4, <1>5, <1>6, CopyBegun
  <2>6. copy'.dst = v /\ copy'.src = WriteData
    BY <2>3 DEF Copy
  <2>7. Good(copy, msg.unique, 0, 0, msg.size, msg.size)'
    BY <2>5, <1>1 DEF u, n
  <2>8. ServesMessage'
    BY <2>1, <2>2, <2>6, <2>7, <1>1, <1>3, <1>4, <1>6, <1>7 DEF ServesMessage, n
  <2> QED BY <2>8, <1>4, <1>7 DEF DataInv, DataPlaces, Taking, Serving, Sending
<1>8. CASE buf.fd /\ copy' = Copy(Vec(<<Mem(n, <<>>)>>), WriteData, FALSE) /\ pc' = "flat"
  <2>1. copy' = PipeCopy(n, pipe) /\ pipe = Run(u, 0, n)
    BY <1>3, <1>8 DEF PipeCopy, WriteData, Given, u, n
  <2>2. Good(copy', u, 0, 0, n, n)
    BY <2>1, <1>5, PipeToMemory
  <2>3. /\ Len(copy'.src.bufs) = 1 /\ ~copy'.src.bufs[1].seek /\ copy'.src.bufs[1].size = n
        /\ ~copy'.dst.bufs[1].fd /\ copy'.dst.bufs[1].size = n
    BY <2>1, <2>2, <1>5, PipeToMemory
  <2>4. Good(copy, msg.unique, 0, 0, msg.size, msg.size)'
    BY <2>2, <1>1 DEF u, n
  <2>5. ServesMessage'
    BY <2>3, <2>4, <1>1, <1>3, <1>4, <1>8 DEF ServesMessage, FromPipe, n
  <2> QED BY <2>5, <1>4, <1>8 DEF DataInv, DataPlaces, Taking, Serving, Sending
<1> QED BY <1>1, <1>7, <1>8

\* What the filesystem got of it, and what it says.
Written(o) == \E k \in 0 .. msg.size : /\ o.file = Data(msg.unique, k)
                                       /\ o.res \in Int /\ (o.res >= 0 => o.res = k)

\* A WRITE says how much of its data was stored.
LEMMA WrittenRecorded ==
    ASSUME Recorded, Serves(msg), msg.opcode = "WRITE", NEW o, Written(o),
           stored' = [stored EXCEPT ![msg] = o.file],
           IF o.res >= 0 THEN Answer(Header(msg.unique), FALSE, o.res) ELSE Error,
           unsent' = unsent
    PROVE  Recorded'
<1>1. PICK k \in 0 .. msg.size : o.file = Data(msg.unique, k) /\ o.res \in Int /\ (o.res >= 0 => o.res = k)
  BY DEF Written
<1>2. msg \in Messages /\ DOMAIN stored = Messages
  BY DEF Serves, Recorded
<1>3. DOMAIN stored' = Messages /\ stored'[msg] = Data(msg.unique, k)
      /\ \A n \in Messages : n # msg => stored'[n] = stored[n]
  BY <1>1, <1>2
<1>4. k \in Nat /\ msg.unique \in Uniques /\ msg.size \in Nat
  BY <1>1, <1>2, WireIs
<1>5. Len(stored'[msg]) = k
  BY <1>3, <1>4, <1>2, WireIs, RunIs
<1>6. CASE o.res >= 0
  <2>1. Answer(Header(msg.unique), FALSE, k)
    BY <1>1, <1>6
  <2> QED BY <2>1, <1>1, <1>3, <1>5, AnswerRecorded
<1>7. CASE ~(o.res >= 0)
  <2>1. Answer(Header(msg.unique), TRUE, <<>>)
    BY <1>7 DEF Error
  <2> QED BY <2>1, <1>1, <1>3, AnswerRecorded
<1> QED BY <1>6, <1>7

\* What a filesystem writes that was given the first l of the data in memory.
LEMMA WritesMemIs ==
    ASSUME msg \in Messages, NEW l, l \in 0 .. msg.size, NEW o, o \in WritesMem,
           Flat.res \in Int, Flat.res > 0 => Flat.res = l,
           Flat.res > 0 => Flat.data = Run(msg.unique, 0, l)
    PROVE  Written(o) /\ o.src = Flat.src
<1>1. msg.unique \in Uniques /\ msg.size \in Nat /\ \A n \in Nat : Data(msg.unique, n) = Run(msg.unique, 0, n)
  BY WireIs
<1>2. 0 \in 0 .. msg.size /\ Data(msg.unique, 0) = <<>>
  BY <1>1 DEF Data
<1>3. CASE Flat.res <= 0
  <2>1. o = [res |-> Flat.res, src |-> Flat.src, file |-> <<>>]
    BY <1>3 DEF WritesMem
  <2>2. o.res = Flat.res /\ o.src = Flat.src /\ o.file = <<>>
    BY <2>1
  <2>3. o.res \in Int /\ o.res >= 0 => o.res = 0
    BY <2>2, <1>3
  <2>4. o.res \in Int
    BY <2>2
  <2> QED BY <2>2, <2>3, <2>4, <1>2 DEF Written
<1>4. CASE ~(Flat.res <= 0)
  <2>1. PICK k \in {EIO} \cup 1 .. Flat.res :
          o = [res |-> k, src |-> Flat.src,
               file |-> IF k < 0 THEN <<>> ELSE SubSeq(Flat.data, 1, k)]
    BY <1>4 DEF WritesMem
  <2>2. o.res = k /\ o.src = Flat.src /\ o.file = IF k < 0 THEN <<>> ELSE SubSeq(Flat.data, 1, k)
    BY <2>1
  <2>3. Flat.res = l /\ Flat.data = Run(msg.unique, 0, l) /\ l \in Nat /\ k \in Int
    BY <1>4, <2>1 DEF EIO
  <2>4. CASE k < 0
    <3>1. o.file = <<>> /\ o.res \in Int /\ ~(o.res >= 0)
      BY <2>2, <2>3, <2>4
    <3> QED BY <3>1, <2>2, <1>2 DEF Written
  <2>5. CASE ~(k < 0)
    <3>1. k \in 1 .. l /\ k \in Nat /\ k <= l /\ k \in 0 .. msg.size
      BY <2>1, <2>3, <2>5, <1>1 DEF EIO
    <3>2. Part(Run(msg.unique, 0, l), 1, k) = Run(msg.unique, 0, k)
      <4>1. 0 \in Int
        OBVIOUS
      <4> QED BY <4>1, <3>1, <2>3, <1>1, RunStart
    <3>3. o.file = Data(msg.unique, k)
      BY <3>1, <3>2, <2>2, <2>3, <2>5, <1>1 DEF Part
    <3> QED BY <3>1, <3>3, <2>2, <2>3 DEF Written
  <2> QED BY <2>4, <2>5
<1> QED BY <1>3, <1>4

\* After the copy of a WRITE nothing of it is left in the pipe.
LEMMA DrainedIs ==
    ASSUME ServesMessage, pc \in {"written", "flat"}, copy.at = "over",
           pipe' = PipeAfter(copy.src)
    PROVE  InPipe' = <<>>
<1> DEFINE u == msg.unique
           n == msg.size
<1>1. /\ Serves(msg) /\ Given(msg) /\ Good(copy, u, 0, 0, n, n)
      /\ Len(copy.src.bufs) = 1
      /\ buf.fd => ~copy.src.bufs[1].seek /\ copy.src.bufs[1].size = n
  BY DEF ServesMessage, FromPipe
<1>2. n \in Nat
  BY <1>1, WireIs DEF Serves
<1> HIDE DEF u, n
<1>3. CASE ~buf.fd
  BY <1>1, <1>3 DEF PipeAfter, Given, InPipe
<1>4. CASE buf.fd
  <2>1. AtEnd(copy.src) => copy.src.bufs[1].data = <<>>
    BY <1>1, <1>2, <1>4, UsedUp
  <2> QED BY <2>1, <1>4 DEF PipeAfter, InPipe
<1> QED BY <1>3, <1>4

\* A WRITE stores the beginning of its data and leaves nothing in the pipe.
LEMMA do_write_bufData ==
    ASSUME DataInv, do_write_buf
    PROVE  DataInv'
<1> DEFINE u == msg.unique
           n == msg.size
<1>1. Done /\ unsent' = unsent
  BY DEF do_write_buf
<1>2. PICK o \in IF pc = "WRITE" THEN WriteFails \cup (IF buf.fd THEN {} ELSE WritesMem)
                 ELSE IF Copied("written") THEN WritesBuf
                 ELSE IF Copied("flat") THEN WritesMem
                 ELSE {} :
        /\ stored' = [stored EXCEPT ![msg] = o.file]
        /\ IF o.res >= 0 THEN Answer(Header(msg.unique), FALSE, o.res) ELSE Error
        /\ pipe' = PipeAfter(o.src)
  BY DEF do_write_buf
<1>3. \/ pc = "WRITE" /\ o \in WriteFails
      \/ pc = "WRITE" /\ ~buf.fd /\ o \in WritesMem
      \/ pc = "written" /\ copy.at = "over" /\ o \in WritesBuf
      \/ pc = "flat" /\ copy.at = "over" /\ o \in WritesMem
  BY <1>2 DEF Copied
<1>4. Recorded /\ ServesMessage
  BY <1>3 DEF DataInv, Serving
<1>5. Serves(msg) /\ Given(msg) /\ msg.opcode = "WRITE" /\ msg \in Messages
  BY <1>3, <1>4 DEF ServesMessage, Serves
<1>6. u \in Uniques /\ n \in Nat /\ \A k \in Nat : Data(u, k) = Run(u, 0, k)
  BY <1>5, WireIs
<1>7. 0 \in 0 .. n /\ Data(u, 0) = <<>>
  BY <1>6 DEF Data
<1>8. Written(o) /\ InPipe' = <<>>
  <2>1. CASE pc = "WRITE" /\ o \in WriteFails
    <3>1. o.res = -12 /\ o.src = WriteData /\ o.file = <<>>
      BY <2>1 DEF WriteFails, ENOMEM
    <3>2. Written(o)
      <4>1. o.res \in Int /\ ~(o.res >= 0)
        BY <3>1
      <4> QED BY <4>1, <3>1, <1>7 DEF Written
    <3>3. ~AtEnd(WriteData)
      BY <1>5, WriteDataIs
    <3> QED BY <3>1, <3>2, <3>3, <1>2, <1>5 DEF PipeAfter, InPipe, Given
  <2>2. CASE pc = "WRITE" /\ ~buf.fd /\ o \in WritesMem
    <3>1. Flat.res = n /\ Flat.data = Tail(buf.data)
      BY <2>2 DEF Flat
    <3>2. Tail(buf.data) = Run(u, 0, n)
      BY <2>2, <1>5, WriteDataIs
    <3>3. Written(o)
      <4>1. n \in 0 .. msg.size /\ n \in Int
        BY <1>6
      <4> QED BY <4>1, <3>1, <3>2, <2>2, <1>5, WritesMemIs
    <3> QED BY <3>3, <2>2, <1>2, <1>5 DEF PipeAfter, InPipe, Given
  <2>3. CASE pc = "written" /\ copy.at = "over" /\ o \in WritesBuf
    <3>1. o.res = copy.res /\ o.src = copy.src /\ o.file = copy.dst.bufs[1].data
      BY <2>3 DEF WritesBuf, Out
    <3>2. InPipe' = <<>>
      BY <3>1, <2>3, <1>2, <1>4, DrainedIs
    <3>3. Good(copy, u, 0, 0, n, n) /\ copy.dst.bufs[1].seek
      BY <2>3, <1>4 DEF ServesMessage
    <3> DEFINE k == IF copy.res > 0 THEN copy.res ELSE 0
    <3>4. copy.dst.bufs[1].data = Filled(u, 0, 0, 0 + k) /\ copy.res \in Int /\ 0 + copy.res <= n
      BY <3>3, <2>3, OutIs
    <3>5. k \in 0 .. n /\ k \in Nat /\ 0 + k = k /\ (copy.res >= 0 => copy.res = k)
      BY <3>4, <1>6
    <3>6. copy.dst.bufs[1].data = Filled(u, 0, 0, k)
      BY <3>4, <3>5
    <3> HIDE DEF k
    <3>7. Filled(u, 0, 0, k) = Run(u, 0, k)
      <4>1. 0 \in Int /\ 0 \in Nat /\ 0 <= k
        BY <3>5
      <4> QED BY <4>1, <3>5, <1>6, FilledIs
    <3>8. o.file = Data(u, k)
      BY <3>1, <3>5, <3>6, <3>7, <1>6
    <3> QED BY <3>1, <3>2, <3>4, <3>5, <3>8 DEF Written
  <2>4. CASE pc = "flat" /\ copy.at = "over" /\ o \in WritesMem
    <3>1. Good(copy, u, 0, 0, n, n) /\ ~copy.dst.bufs[1].fd /\ buf.fd
      BY <2>4, <1>4 DEF ServesMessage, FromPipe
    <3>2. copy.dst.bufs[1].seek
      BY <3>1, <2>4 DEF Good, Dest
    <3> DEFINE k == IF copy.res > 0 THEN copy.res ELSE 0
    <3>3. copy.dst.bufs[1].data = Filled(u, 0, 0, 0 + k) /\ copy.res \in Int /\ 0 + copy.res <= n
      BY <3>1, <3>2, <2>4, OutIs
    <3>4. k \in 0 .. n /\ k \in Nat /\ 0 + k = k /\ (copy.res > 0 => copy.res = k)
      BY <3>3, <1>6
    <3>5. copy.dst.bufs[1].data = Filled(u, 0, 0, k)
      BY <3>3, <3>4
    <3>6. Flat.res = copy.res /\ Flat.src = copy.src /\ Flat.data = copy.dst.bufs[1].data
      BY <3>1 DEF Flat, Out
    <3> HIDE DEF k
    <3>7. Filled(u, 0, 0, k) = Run(u, 0, k)
      <4>1. 0 \in Int /\ 0 \in Nat /\ 0 <= k
        BY <3>4
      <4> QED BY <4>1, <3>4, <1>6, FilledIs
    <3>8. Flat.data = Run(msg.unique, 0, k) /\ Flat.res \in Int /\ (Flat.res > 0 => Flat.res = k)
      BY <3>3, <3>4, <3>5, <3>6, <3>7
    <3>9. Written(o) /\ o.src = copy.src
      <4>1. k \in 0 .. msg.size
        BY <3>4
      <4>2. Written(o)
        BY <4>1, <3>8, <2>4, <1>5, WritesMemIs
      <4>3. o.src = Flat.src
        BY <4>1, <4>2, <3>8, <2>4, <1>5, WritesMemIs
      <4> QED BY <4>2, <4>3, <3>6
    <3>10. InPipe' = <<>>
      BY <3>9, <2>4, <1>2, <1>4, DrainedIs
    <3> QED BY <3>9, <3>10
  <2> QED BY <2>1, <2>2, <2>3, <2>4, <1>3
<1>9. Recorded'
  BY <1>1, <1>2, <1>4, <1>5, <1>8, WrittenRecorded
<1> QED BY <1>1, <1>8, <1>9, Returned

-----------------------------------------------------------------------------
(* READ. *)

\* An answer of memory and a file.
LEMMA TwoSource ==
    ASSUME NEW a, NEW b, NEW v, NEW u, NEW B, NEW k,
           a \in BufSet, b \in BufSet, v = Vec(<<a, b>>), u \in Uniques, B \in Int, k \in Nat,
           a.size = 1, 1 + b.size <= B, ~a.fd, a.seek, b.fd, b.seek,
           a.data = Run(u, 0, 1), b.data = Run(u, 1, k)
    PROVE  Source(v, v.off, "all", u, 0, B, 0) /\ Pos(v) = 0
<1> DEFINE s == <<a, b>>
<1>1. s \in Seq(BufSet) /\ Len(s) = 2 /\ s[1] = a /\ s[2] = b
  OBVIOUS
<1>2. v = [idx |-> 1, off |-> 0, bufs |-> s]
  BY DEF Vec
<1> HIDE DEF s
<1>3. v \in VecSet /\ v.idx = 1 /\ v.off = 0 /\ v.bufs = s
  BY <1>1, <1>2 DEF VecSet
<1>4. ~AtEnd(v) /\ Cur(v) = 1
  <2>1. Len(v.bufs) = 2 /\ v.idx = 1
    BY <1>1, <1>3
  <2>3. ~(1 > 2)
    OBVIOUS
  <2>2. ~AtEnd(v)
    BY <2>1, <2>3 DEF AtEnd
  <2> QED BY <2>1, <2>2 DEF Cur
<1>5. Base(v, 1) = 0 /\ Base(v, 2) = 1
  BY <1>1, <1>3 DEF Base
<1>6. Pos(v) = 0
  BY <1>3, <1>4, <1>5 DEF Pos
<1>7. /\ 1 \in Nat /\ 0 \in Int /\ 1 \in Int /\ b.size \in Nat
      /\ Len(a.data) = 1 /\ Len(b.data) = k
  <2>0. 0 \in Int /\ 1 \in Int /\ 1 \in Nat
    OBVIOUS
  <2>1. Len(Run(u, 0, 1)) = 1
    BY <2>0, RunIs
  <2>2. Len(Run(u, 1, k)) = k
    BY <2>0, RunIs
  <2>3. b.size \in Nat
    BY DEF BufSet
  <2> QED BY <2>0, <2>1, <2>2, <2>3
<1>8. Len(v.bufs) = 2 /\ v.bufs[1] = a /\ v.bufs[2] = b
  BY <1>1, <1>3
<1>9. \A j \in 1 .. 2 : j = 1 \/ j = 2
  OBVIOUS
<1>10. \A j \in 1 .. Len(v.bufs) :
         /\ Base(v, j) + v.bufs[j].size <= B
         /\ ~v.bufs[j].fd => v.bufs[j].seek /\ Len(v.bufs[j].data) = v.bufs[j].size
  <2>1. 0 + 1 <= B /\ 1 + b.size <= B
    BY <1>7
  <2> SUFFICES ASSUME NEW j \in 1 .. Len(v.bufs)
               PROVE  /\ Base(v, j) + v.bufs[j].size <= B
                      /\ ~v.bufs[j].fd => v.bufs[j].seek /\ Len(v.bufs[j].data) = v.bufs[j].size
    OBVIOUS
  <2>2. CASE j = 1
    BY <2>1, <2>2, <1>5, <1>7, <1>8
  <2>3. CASE j = 2
    BY <2>1, <2>3, <1>5, <1>8
  <2> QED BY <2>2, <2>3, <1>8, <1>9
<1>11. \A j \in Cur(v) .. Len(v.bufs) :
         v.bufs[j].data = Run(u, 0 + Base(v, j) + (IF v.bufs[j].seek \/ j # Cur(v) THEN 0 ELSE v.off),
                              Len(v.bufs[j].data))
  <2> SUFFICES ASSUME NEW j \in 1 .. 2
               PROVE v.bufs[j].data = Run(u, 0 + Base(v, j) + (IF v.bufs[j].seek \/ j # Cur(v) THEN 0 ELSE v.off),
                              Len(v.bufs[j].data))
    BY <1>4, <1>8
  <2>1. v.bufs[j].seek
    BY <1>8, <1>9
  <2>2. CASE j = 1
    <3>1. 0 + Base(v, j) + (IF v.bufs[j].seek \/ j # Cur(v) THEN 0 ELSE v.off) = 0
      BY <2>1, <2>2, <1>5
    <3> QED BY <3>1, <2>2, <1>7, <1>8
  <2>3. CASE j = 2
    <3>1. 0 + Base(v, j) + (IF v.bufs[j].seek \/ j # Cur(v) THEN 0 ELSE v.off) = 1
      BY <2>1, <2>3, <1>5
    <3> QED BY <3>1, <2>3, <1>7, <1>8
  <2> QED BY <2>2, <2>3, <1>9
<1>12. /\ Len(v.bufs) \in 1 .. 2 /\ v.idx \in 1 .. Len(v.bufs) + 1
       /\ v.off \in 0 .. v.bufs[Cur(v)].size /\ v.bufs[Cur(v)] = a
  BY <1>3, <1>4, <1>8
<1>13. ~(Len(v.bufs) = 1 /\ ~v.bufs[1].seek)
  BY <1>8
<1> QED BY <1>3, <1>4, <1>6, <1>10, <1>11, <1>12, <1>13 DEF Source

\* Whatever the filesystem answers with gives the data in order.
LEMMA AnswersSource ==
    ASSUME NEW u, NEW v, u \in Uniques, v \in Answers(u)
    PROVE  \E L \in Nat : Source(v, v.off, "all", u, 0, MaxReply, L) /\ Pos(v) = 0
<1>1. MaxReply \in Nat /\ MaxReply \in Int /\ 0 \in Int /\ 0 \in Nat
  BY DataAssumption
<1> DEFINE One(n) == {Vec(<<Mem(n, Data(u, n))>>)}
           File(n, seek, k) == Vec(<<Buf(TRUE, seek, n, SubSeq(Data(u, n), 1, k))>>)
           Other(n) == {File(n, seek, k) : seek \in BOOLEAN, k \in 0 .. n}
           Both(n) == {Vec(<<Mem(1, SubSeq(Data(u, n), 1, 1)),
                             Buf(TRUE, TRUE, n - 1, SubSeq(Data(u, n), 2, k))>>) : k \in 1 .. n}
           All(n) == One(n) \cup Other(n) \cup Both(n)
<1>2. PICK n \in 0 .. MaxReply :
        \/ v = Vec(<<Mem(n, Data(u, n))>>)
        \/ \E seek \in BOOLEAN, k \in 0 .. n : v = Vec(<<Buf(TRUE, seek, n, SubSeq(Data(u, n), 1, k))>>)
        \/ \E k \in 1 .. n : v = Vec(<<Mem(1, SubSeq(Data(u, n), 1, 1)),
                                       Buf(TRUE, TRUE, n - 1, SubSeq(Data(u, n), 2, k))>>)
  <2>1. Answers(u) = UNION {All(n) : n \in 0 .. MaxReply}
    BY DEF Answers
  <2> HIDE DEF All
  <2>2. PICK n \in 0 .. MaxReply : v \in All(n)
    BY <2>1
  <2> USE DEF All
  <2> HIDE DEF One, Other, Both
  <2>3. v \in One(n) \/ v \in Other(n) \/ v \in Both(n)
    BY <2>2
  <2>4. v \in One(n) => v = Vec(<<Mem(n, Data(u, n))>>)
    BY DEF One
  <2>5. v \in Other(n) => \E seek \in BOOLEAN, k \in 0 .. n : v = Vec(<<Buf(TRUE, seek, n, SubSeq(Data(u, n), 1, k))>>)
    <3> HIDE DEF File
    <3>1. v \in Other(n) => \E seek \in BOOLEAN, k \in 0 .. n : v = File(n, seek, k)
      BY DEF Other
    <3> QED BY <3>1 DEF File
  <2>6. v \in Both(n) => \E k \in 1 .. n : v = Vec(<<Mem(1, SubSeq(Data(u, n), 1, 1)),
                                       Buf(TRUE, TRUE, n - 1, SubSeq(Data(u, n), 2, k))>>)
    BY Zenon DEF Both
  <2> QED BY <2>3, <2>4, <2>5, <2>6
<1>3. n \in Nat /\ n <= MaxReply /\ Data(u, n) = Run(u, 0, n)
  BY <1>1, <1>2 DEF Data, Run
<1>4. \A k \in 0 .. n : SubSeq(Data(u, n), 1, k) = Run(u, 0, k)
  <2> SUFFICES ASSUME NEW k \in 0 .. n PROVE SubSeq(Data(u, n), 1, k) = Run(u, 0, k)
    OBVIOUS
  <2>1. k \in Nat /\ k <= n
    BY <1>3
  <2>2. Part(Run(u, 0, n), 1, k) = Run(u, 0, k)
    BY <2>1, <1>1, <1>3, RunStart
  <2> QED BY <2>2, <1>3 DEF Part
<1>5. CASE v = Vec(<<Mem(n, Data(u, n))>>)
  <2> DEFINE b == Mem(n, Data(u, n))
  <2>1. Run(u, 0, n) \in Seq(Tokens)
    BY <1>1, <1>3, RunIs
  <2>2. b \in BufSet /\ ~b.fd /\ b.seek /\ b.size = n /\ b.data = Run(u, 0, n)
    BY <2>1, <1>3, MemIs
  <2>3. v = Vec(<<b>>)
    BY <1>5
  <2> HIDE DEF b
  <2>4. Source(v, v.off, "all", u, 0, MaxReply, 0)
    <3>1. b.size <= MaxReply /\ (~b.fd => b.seek /\ n = b.size) /\ (~b.seek => n = 0)
      BY <2>2, <1>3
    <3> QED BY <3>1, <2>2, <2>3, <1>1, <1>3, OneSource
  <2>5. Pos(v) = 0
    BY <2>2, <2>3, VecIs
  <2> QED BY <2>4, <2>5, <1>1
<1>6. ASSUME NEW seek \in BOOLEAN, NEW k \in 0 .. n,
             v = Vec(<<Buf(TRUE, seek, n, SubSeq(Data(u, n), 1, k))>>)
      PROVE  \E L \in Nat : Source(v, v.off, "all", u, 0, MaxReply, L) /\ Pos(v) = 0
  <2> DEFINE b == Buf(TRUE, seek, n, SubSeq(Data(u, n), 1, k))
  <2>1. k \in Nat /\ Run(u, 0, k) \in Seq(Tokens)
    <3>1. k \in Nat
      BY <1>3
    <3> QED BY <3>1, <1>1, RunIs
  <2>2. b \in BufSet /\ b.fd /\ b.size = n /\ b.data = Run(u, 0, k)
    BY <2>1, <1>3, <1>4 DEF Buf, BufSet
  <2>3. v = Vec(<<b>>)
    BY <1>6
  <2> HIDE DEF b
  <2>4. Source(v, v.off, "all", u, 0, MaxReply, k)
    <3>1. b.size <= MaxReply /\ (~b.fd => b.seek /\ k = b.size) /\ (~b.seek => k = k)
      BY <2>2, <1>3
    <3> QED BY <3>1, <2>1, <2>2, <2>3, <1>1, <1>3, OneSource
  <2>5. Pos(v) = 0
    BY <2>2, <2>3, VecIs
  <2> QED BY <2>1, <2>4, <2>5
<1>7. ASSUME NEW k \in 1 .. n,
             v = Vec(<<Mem(1, SubSeq(Data(u, n), 1, 1)),
                       Buf(TRUE, TRUE, n - 1, SubSeq(Data(u, n), 2, k))>>)
      PROVE  \E L \in Nat : Source(v, v.off, "all", u, 0, MaxReply, L) /\ Pos(v) = 0
  <2> DEFINE a == Mem(1, SubSeq(Data(u, n), 1, 1))
             b == Buf(TRUE, TRUE, n - 1, SubSeq(Data(u, n), 2, k))
             l == k - 1
  <2>1. k \in Nat /\ k \in Int /\ k <= n /\ l \in Nat /\ n - 1 \in Nat /\ 1 \in 0 .. n /\ 1 \in Nat /\ 1 \in Int
    BY <1>3
  <2>2. Sums(2, 1, 1) /\ Sums(k, 1, l) /\ Sums(1, 0, 1)
    BY <2>1 DEF Sums
  <2> HIDE DEF l
  <2>3. Part(Run(u, 0, n), 2, k) = Run(u, 1, l)
    BY <2>1, <2>2, <1>1, <1>3, RunPiece
  <2>4. Run(u, 0, 1) \in Seq(Tokens) /\ Run(u, 1, l) \in Seq(Tokens)
    BY <2>1, <1>1, RunIs
  <2>5. a \in BufSet /\ ~a.fd /\ a.seek /\ a.size = 1 /\ a.data = Run(u, 0, 1)
    <3>1. SubSeq(Data(u, n), 1, 1) = Run(u, 0, 1)
      BY <2>1, <1>4
    <3>2. a = Mem(1, Run(u, 0, 1))
      BY <3>1
    <3> HIDE DEF a
    <3> QED BY <3>2, <2>1, <2>4, MemIs
  <2>6. b \in BufSet /\ b.fd /\ b.seek /\ b.size = n - 1 /\ b.data = Run(u, 1, l)
    <3>1. SubSeq(Data(u, n), 2, k) = Run(u, 1, l)
      BY <2>3, <1>3 DEF Part
    <3> QED BY <3>1, <2>1, <2>4 DEF Buf, BufSet
  <2>7. v = Vec(<<a, b>>)
    BY <1>7
  <2> HIDE DEF a, b
  <2>8. 1 + b.size <= MaxReply
    BY <2>6, <1>1, <1>3
  <2>9. Source(v, v.off, "all", u, 0, MaxReply, 0)
    BY <2>1, <2>5, <2>6, <2>7, <2>8, <1>1, TwoSource
  <2>10. Pos(v) = 0
    BY <2>1, <2>5, <2>6, <2>7, <2>8, <2>9, <1>1, TwoSource
  <2> QED BY <2>9, <2>10, <1>1
<1> QED BY <1>2, <1>5, <1>6, <1>7

\* A READ has an error, or an answer that is sent.
LEMMA ReadData ==
    ASSUME DataInv, Read
    PROVE  DataInv'
<1>1. /\ pc = "READ" /\ UNCHANGED <<unsent, stored, pipe>>
      /\ \/ Error /\ Done
         \/ vec' \in Answers(msg.unique) /\ pc' = "send" /\ UNCHANGED <<answers, buf, msg, now_len, copy>>
  BY DEF Read
<1>2. Recorded /\ ServesMessage /\ ServesRead /\ copy.at = "none"
  BY <1>1 DEF DataInv, Serving, Sending, Taking
<1>3. Serves(msg) /\ msg.opcode = "READ" /\ InPipe = <<>> /\ msg \in Messages
  BY <1>1, <1>2 DEF ServesMessage, ServesRead, Serves
<1>4. InPipe' = <<>>
  BY <1>1, <1>3 DEF InPipe
<1>5. CASE Error /\ Done
  <2>1. Recorded'
    BY <1>1, <1>2, <1>3, <1>5, ErrorRecorded
  <2> QED BY <2>1, <1>4, <1>5, Returned
<1>6. CASE vec' \in Answers(msg.unique) /\ pc' = "send" /\ UNCHANGED <<answers, buf, msg, now_len, copy>>
  <2>1. Recorded' /\ Serves(msg)'
    BY <1>1, <1>2, <1>3, <1>6, SameRecorded, ServesMsg
  <2>2. \E L \in Nat : Source(vec', vec'.off, "all", msg.unique, 0, MaxReply, L) /\ Pos(vec') = 0
    BY <1>3, <1>6, AnswersSource, WireIs
  <2>3. Vector(0)'
    BY <2>2, <1>6 DEF Vector
  <2>4. ServesMessage' /\ ServesRead'
    BY <2>1, <2>3, <1>3, <1>4, <1>6 DEF ServesMessage, ServesRead
  <2> QED BY <2>1, <2>4, <1>2, <1>6 DEF DataInv, DataPlaces, Taking, Serving, Sending
<1> QED BY <1>1, <1>5, <1>6

\* A copy of the answer to one buffer of the size of it.
LEMMA AnswerCopied ==
    ASSUME NEW u, NEW b, NEW v, NEW force, NEW L, NEW c,
           L \in Nat, b \in BufSet, b.size \in Nat, v = Vec(<<b>>), force \in BOOLEAN,
           Source(vec, vec.off, "all", u, 0, MaxReply, L), Pos(vec) = 0,
           ~b.fd => b.seek, ~b.seek => force,
           IF b.seek THEN b.data = <<>> ELSE b.data = Run(u, -1, 1),
           c = Copy(v, vec, force)
    PROVE  Good(c, u, 0, 0, MaxReply, L)
<1>1. v \in VecSet /\ v.idx = 1 /\ v.off = 0 /\ Len(v.bufs) = 1 /\ v.bufs[1] = b
  BY VecIs
<1>2. 0 \in Nat /\ 0 <= v.bufs[1].size
  BY <1>1
<1>3. Dest(v, 0, u, 0, 0)
  BY <1>1, <1>2, OneDest
<1>4. ~v.bufs[1].seek => force
  BY <1>1
<1> QED BY <1>1, <1>2, <1>3, <1>4, CopyBegun

\* A copy that begins has the buffer it was given.
LEMMA CopyIs ==
    ASSUME NEW b, NEW v, NEW w, NEW force, NEW c, b \in BufSet, v = Vec(<<b>>), c = Copy(v, w, force)
    PROVE  c.dst.bufs[1] = b /\ c.force = force
<1>1. c.dst = v /\ c.force = force
  BY DEF Copy
<1>2. v.bufs[1] = b
  BY VecIs
<1> QED BY <1>1, <1>2

\* The header goes into an empty pipe, and the answer behind it.
LEMMA SendInPipeData ==
    ASSUME DataInv, SendInPipe
    PROVE  DataInv'
<1> DEFINE headed == Append(InPipe, Header(msg.unique))
           b == Stream(Total, headed)
<1>1. /\ pc = "send" /\ pc' = "fill" /\ pipe' = headed
      /\ copy' = Copy(Vec(<<b>>), vec, TRUE)
      /\ UNCHANGED <<unsent, answers, stored, buf, msg, vec, now_len>>
  BY DEF SendInPipe, Begin, kept, request
<1>2. Recorded /\ ServesMessage /\ ServesRead
  BY <1>1 DEF DataInv, Serving, Sending
<1>3. Serves(msg) /\ msg.opcode = "READ" /\ InPipe = <<>> /\ msg \in Messages /\ Vector(0)
  BY <1>1, <1>2 DEF ServesMessage, ServesRead, Serves
<1>4. Recorded' /\ Serves(msg)'
  BY <1>1, <1>2, <1>3, SameRecorded, ServesMsg
<1>5. PICK L \in Nat : Source(vec, vec.off, "all", msg.unique, 0, MaxReply, L) /\ Pos(vec) = 0
  BY <1>3 DEF Vector
<1>6. Total \in Nat
  BY <1>5, SourceSize DEF Total
<1>7. headed = Run(msg.unique, -1, 1) /\ headed \in Seq(Tokens)
  <2>1. headed = <<Header(msg.unique)>>
    BY <1>3
  <2>2. msg.unique \in Uniques /\ <<Header(msg.unique)>> = Run(msg.unique, -1, 1)
    BY <1>3, WireIs
  <2>3. -1 \in Int /\ 1 \in Nat
    OBVIOUS
  <2>4. Run(msg.unique, -1, 1) \in Seq(Tokens)
    BY <2>2, <2>3, RunIs
  <2> QED BY <2>1, <2>2, <2>4
<1> HIDE DEF headed
<1>8. b \in BufSet /\ b.fd /\ ~b.seek /\ b.size = Total /\ b.data = headed
  BY <1>6, <1>7, StreamIs
<1> HIDE DEF b
<1> DEFINE v == Vec(<<b>>)
           force == TRUE
<1>9. copy' = Copy(v, vec, force)
  BY <1>1
<1>10. v = Vec(<<b>>)
  OBVIOUS
<1>11. force \in BOOLEAN /\ force /\ b.size \in Nat /\ (~b.fd => b.seek)
       /\ (~b.seek => force) /\ IF b.seek THEN b.data = <<>> ELSE b.data = Run(msg.unique, -1, 1)
  BY <1>6, <1>7, <1>8
<1> HIDE DEF v, force
<1>12. Good(copy', msg.unique, 0, 0, MaxReply, L)
  BY <1>5, <1>8, <1>9, <1>10, <1>11, AnswerCopied
<1>13. copy'.dst.bufs[1] = b /\ copy'.force = force
  BY <1>8, <1>9, <1>10, CopyIs
<1>14. Sends(0)' /\ Vector(0)'
  BY <1>1, <1>3, <1>12 DEF Sends, Vector
<1>15. ServesMessage' /\ ServesRead'
  BY <1>1, <1>3, <1>4, <1>8, <1>11, <1>13, <1>14 DEF ServesMessage, ServesRead
<1> QED BY <1>1, <1>4, <1>15 DEF DataInv, DataPlaces, Taking, Serving, Sending

\* An answer in memory is sent as it is, or gathered.
LEMMA SendInMemoryData ==
    ASSUME DataInv, SendInMemory
    PROVE  DataInv'
<1>1. /\ pc \in {"send", "fallback"} /\ UNCHANGED <<unsent, stored, pipe>>
      /\ \/ OneInMemory /\ Answer(Header(msg.unique), FALSE, vec.bufs[1].data) /\ Done
         \/ Error /\ Done
         \/ /\ copy' = Copy(Vec(<<Mem(Total, <<>>)>>), vec, FALSE) /\ pc' = "gathered"
            /\ UNCHANGED <<answers, buf, msg, vec, now_len>>
  BY DEF SendInMemory, Begin, request
<1>2. Recorded /\ ServesMessage /\ ServesRead
  BY <1>1 DEF DataInv, Serving, Sending
<1>3. Serves(msg) /\ msg.opcode = "READ" /\ InPipe = <<>> /\ msg \in Messages /\ Vector(0)
  BY <1>1, <1>2 DEF ServesMessage, ServesRead, Serves
<1>4. InPipe' = <<>>
  BY <1>1, <1>3 DEF InPipe
<1>5. PICK L \in Nat : Source(vec, vec.off, "all", msg.unique, 0, MaxReply, L) /\ Pos(vec) = 0
  BY <1>3 DEF Vector
<1>6. CASE OneInMemory /\ Answer(Header(msg.unique), FALSE, vec.bufs[1].data) /\ Done
  <2> DEFINE b == vec.bufs[1]
  <2>1. Len(vec.bufs) = 1 /\ vec.idx = 1 /\ vec.off = 0 /\ ~b.fd
    BY <1>6 DEF OneInMemory
  <2>2. Cur(vec) = 1 /\ Base(vec, 1) = 0
    <3>1. ~AtEnd(vec)
      BY <2>1 DEF AtEnd
    <3> QED BY <3>1, <2>1 DEF Cur, Base
  <2>3. b \in BufSet
    <3>1. vec.bufs \in Seq(BufSet)
      BY <1>5 DEF Source, VecSet
    <3> QED BY <3>1, <2>1, ElementOfSeq
  <2>4. 0 + b.size <= MaxReply /\ b.seek /\ Len(b.data) = b.size
    BY <1>5, <2>1, <2>2 DEF Source
  <2>5. b.data = Run(msg.unique, 0 + 0 + 0, Len(b.data))
    <3>1. 1 \in Cur(vec) .. Len(vec.bufs)
      BY <2>1, <2>2
    <3>2. b.data = Run(msg.unique, 0 + Base(vec, 1) + (IF vec.bufs[1].seek \/ 1 # Cur(vec) THEN 0 ELSE vec.off), Len(b.data))
      BY <3>1, <1>5 DEF Source
    <3> QED BY <3>2, <2>2, <2>4
  <2>6. b.size \in Nat
    BY <2>3 DEF BufSet
  <2> HIDE DEF b
  <2>7. b.size \in 0 .. MaxReply
    BY <2>4, <2>6, DataAssumption
  <2>8. b.data = Data(msg.unique, b.size)
    BY <2>4, <2>5, <2>6, <1>3, WireIs
  <2>9. Answer(Header(msg.unique), FALSE, b.data)
    BY <1>6 DEF b
  <2>10. Recorded'
    BY <2>7, <2>8, <2>9, <1>1, <1>2, <1>3, ReplyRecorded
  <2> QED BY <2>10, <1>4, <1>6, Returned
<1>7. CASE Error /\ Done
  <2>1. Recorded'
    BY <1>1, <1>2, <1>3, <1>7, ErrorRecorded
  <2> QED BY <2>1, <1>4, <1>7, Returned
<1>8. CASE /\ copy' = Copy(Vec(<<Mem(Total, <<>>)>>), vec, FALSE) /\ pc' = "gathered"
           /\ UNCHANGED <<answers, buf, msg, vec, now_len>>
  <2> DEFINE b == Mem(Total, <<>>)
             v == Vec(<<b>>)
  <2>1. Recorded' /\ Serves(msg)'
    BY <1>1, <1>2, <1>3, <1>8, SameRecorded, ServesMsg
  <2>2. Total \in Nat
    BY <1>5, SourceSize DEF Total
  <2>3. b \in BufSet /\ ~b.fd /\ b.seek /\ b.size = Total /\ b.data = <<>>
    <3>1. <<>> \in Seq(Tokens)
      OBVIOUS
    <3> QED BY <3>1, <2>2 DEF Mem, Buf, BufSet
  <2> HIDE DEF b
  <2> DEFINE force == FALSE
  <2>4. copy' = Copy(v, vec, force) /\ v = Vec(<<b>>)
    BY <1>8 DEF b
  <2>5. force \in BOOLEAN /\ b.size \in Nat /\ (~b.fd => b.seek)
        /\ (~b.seek => force) /\ IF b.seek THEN b.data = <<>> ELSE b.data = Run(msg.unique, -1, 1)
    BY <2>2, <2>3
  <2> HIDE DEF v, force
  <2>6. Good(copy', msg.unique, 0, 0, MaxReply, L)
    BY <2>3, <2>4, <2>5, <1>5, AnswerCopied
  <2>7. copy'.dst.bufs[1] = b
    BY <2>3, <2>4, CopyIs
  <2>8. Sends(0)'
    BY <2>6, <1>8 DEF Sends
  <2>9. ServesMessage' /\ ServesRead'
    BY <2>1, <2>3, <2>7, <2>8, <1>3, <1>4, <1>8 DEF ServesMessage, ServesRead
  <2> QED BY <2>1, <2>9, <1>8 DEF DataInv, DataPlaces, Taking, Serving, Sending
<1> QED BY <1>1, <1>6, <1>7, <1>8

\* What was gathered is the beginning of the answer.
LEMMA SendGatheredData ==
    ASSUME DataInv, SendGathered
    PROVE  DataInv'
<1>1. /\ pc = "gathered" /\ copy.at = "over" /\ Done /\ UNCHANGED <<unsent, stored, pipe>>
      /\ IF copy.res < 0 THEN Error ELSE Answer(Header(msg.unique), FALSE, SubSeq(Out, 1, copy.res))
  BY DEF SendGathered, Copied
<1>2. Recorded /\ ServesMessage /\ ServesRead
  BY <1>1 DEF DataInv, Serving, Sending
<1>3. /\ Serves(msg) /\ msg.opcode = "READ" /\ InPipe = <<>> /\ msg \in Messages
      /\ Sends(0) /\ copy.dst.bufs[1].seek
  BY <1>1, <1>2 DEF ServesMessage, ServesRead, Serves
<1>4. InPipe' = <<>>
  BY <1>1, <1>3 DEF InPipe
<1>5. PICK L \in Nat : Good(copy, msg.unique, 0, 0, MaxReply, L)
  BY <1>3 DEF Sends
<1>6. CASE copy.res < 0
  <2>1. Recorded'
    BY <1>1, <1>2, <1>3, <1>6, ErrorRecorded
  <2> QED BY <2>1, <1>1, <1>4, Returned
<1>7. CASE ~(copy.res < 0)
  <2>1. /\ copy.dst.bufs[1].data = Filled(msg.unique, 0, 0, 0 + (IF copy.res > 0 THEN copy.res ELSE 0))
        /\ copy.res \in Int /\ 0 + copy.res <= MaxReply
    BY <1>1, <1>3, <1>5, OutIs
  <2> DEFINE k == copy.res
  <2>2. 0 + (IF copy.res > 0 THEN copy.res ELSE 0) = k /\ k \in 0 .. MaxReply /\ k \in Nat /\ k <= k /\ 0 <= k
    BY <2>1, <1>7, DataAssumption
  <2>3. Out = Filled(msg.unique, 0, 0, k)
    BY <2>1, <2>2 DEF Out
  <2>4. Answer(Header(msg.unique), FALSE, SubSeq(Out, 1, k))
    BY <1>1, <1>7
  <2> HIDE DEF k
  <2>5. msg.unique \in Uniques /\ 0 \in Int /\ 0 \in Nat
    BY <1>3, WireIs
  <2>6. Out = Run(msg.unique, 0, k)
    BY <2>2, <2>3, <2>5, FilledIs
  <2>7. Part(Run(msg.unique, 0, k), 1, k) = Run(msg.unique, 0, k)
    BY <2>2, <2>5, RunStart
  <2>8. SubSeq(Out, 1, k) = Data(msg.unique, k)
    BY <2>2, <2>6, <2>7, <1>3, WireIs DEF Part
  <2>9. \E n \in 0 .. MaxReply : SubSeq(Out, 1, k) = Data(msg.unique, n)
    BY <2>2, <2>8
  <2>10. Recorded'
    BY <2>4, <2>9, <1>1, <1>2, <1>3, ReplyRecorded
  <2> QED BY <2>10, <1>1, <1>4, Returned
<1> QED BY <1>6, <1>7

\* The pipe holds the header and what was copied, or is reset.
LEMMA FillData ==
    ASSUME DataInv, Fill
    PROVE  DataInv'
<1>1. /\ pc = "fill" /\ copy.at = "over" /\ UNCHANGED <<unsent, stored>>
      /\ \/ /\ pipe' = NoPipe /\ pc' = "fallback" /\ copy' = NoCopy
            /\ UNCHANGED <<answers, buf, msg, vec, now_len>>
         \/ Error /\ pipe' = NoPipe /\ Done
         \/ /\ copy.res \notin {EAGAIN, EINVAL} /\ ~(copy.res < 0 /\ copy.res \notin {EAGAIN, EINVAL})
            /\ pipe' = Out /\ vec' = copy.src /\ now_len' = copy.res
            /\ pc' \in {"more", "device"} /\ copy' = NoCopy
            /\ UNCHANGED <<answers, buf, msg>>
  <2>1. pc = "fill" /\ copy.at = "over" /\ UNCHANGED <<unsent, stored>>
    BY DEF Fill, Copied
  <2>2. CASE copy.res \in {EAGAIN, EINVAL}
    BY <2>1, <2>2 DEF Fill, request
  <2>3. CASE copy.res < 0 /\ copy.res \notin {EAGAIN, EINVAL}
    BY <2>1, <2>3 DEF Fill
  <2>4. CASE copy.res \notin {EAGAIN, EINVAL} /\ ~(copy.res < 0 /\ copy.res \notin {EAGAIN, EINVAL})
    BY <2>1, <2>4 DEF Fill
  <2> QED BY <2>2, <2>3, <2>4
<1>2. Recorded /\ ServesMessage /\ ServesRead
  BY <1>1 DEF DataInv, Serving, Sending
<1>3. /\ Serves(msg) /\ msg.opcode = "READ" /\ msg \in Messages
      /\ Vector(0) /\ Sends(0) /\ ~copy.dst.bufs[1].seek /\ copy.force
  BY <1>1, <1>2 DEF ServesMessage, ServesRead, Serves
<1>4. CASE /\ pipe' = NoPipe /\ pc' = "fallback" /\ copy' = NoCopy
           /\ UNCHANGED <<answers, buf, msg, vec, now_len>>
  <2>1. Recorded' /\ Serves(msg)'
    BY <1>1, <1>2, <1>3, <1>4, SameRecorded, ServesMsg
  <2>2. InPipe' = <<>> /\ Vector(0)' /\ copy'.at = "none"
    BY <1>3, <1>4, NoCopyAt DEF InPipe, Vector
  <2>3. ServesMessage' /\ ServesRead'
    BY <2>1, <2>2, <1>3, <1>4 DEF ServesMessage, ServesRead
  <2> QED BY <2>1, <2>2, <2>3, <1>4 DEF DataInv, DataPlaces, Taking, Serving, Sending
<1>5. CASE Error /\ pipe' = NoPipe /\ Done
  <2>1. Recorded'
    BY <1>1, <1>2, <1>3, <1>5, ErrorRecorded
  <2>2. InPipe' = <<>>
    BY <1>5 DEF InPipe
  <2> QED BY <2>1, <2>2, <1>5, Returned
<1>6. CASE /\ copy.res \notin {EAGAIN, EINVAL} /\ ~(copy.res < 0 /\ copy.res \notin {EAGAIN, EINVAL})
           /\ pipe' = Out /\ vec' = copy.src /\ now_len' = copy.res
           /\ pc' \in {"more", "device"} /\ copy' = NoCopy
           /\ UNCHANGED <<answers, buf, msg>>
  <2>1. Recorded' /\ Serves(msg)' /\ copy'.at = "none"
    BY <1>1, <1>2, <1>3, <1>6, SameRecorded, ServesMsg, NoCopyAt
  <2>2. PICK L \in Nat : Good(copy, msg.unique, 0, 0, MaxReply, L)
    BY <1>3 DEF Sends
  <2>3. RestIn(copy) = "all"
    BY <1>3 DEF RestIn
  <2>4. /\ Source(copy.src, copy.src.off, "all", msg.unique, 0, MaxReply, L)
        /\ Dest(copy.dst, 0 + (IF copy.res > 0 THEN copy.res ELSE 0), msg.unique, 0, 0)
        /\ copy.res >= 0 => Pos(copy.src) = 0 + copy.res
        /\ 0 + copy.res <= MaxReply /\ copy.res \in Int
    BY <2>2, <2>3, <1>1 DEF Good, CopySet
  <2> DEFINE n == copy.res
  <2>5. /\ n >= 0 /\ n \in 0 .. MaxReply /\ n \in Nat
        /\ 0 + (IF copy.res > 0 THEN copy.res ELSE 0) = n /\ 0 + copy.res = n
    BY <2>4, <1>6, DataAssumption
  <2>6. Dest(copy.dst, n, msg.unique, 0, 0) /\ Pos(copy.src) = n /\ now_len' = n
    BY <2>4, <2>5, <1>6
  <2> HIDE DEF n
  <2>7. Out = Run(msg.unique, -1, n + 1)
    BY <2>6, <1>3 DEF Dest, Out
  <2>8. Headed(now_len)'
    BY <2>5, <2>6, <2>7, <1>6 DEF Headed
  <2>9. Vector(now_len)'
    BY <2>4, <2>6, <1>6 DEF Vector
  <2>10. ServesMessage' /\ ServesRead'
    BY <2>1, <2>8, <2>9, <1>3, <1>6 DEF ServesMessage, ServesRead
  <2> QED BY <2>1, <2>10, <1>6 DEF DataInv, DataPlaces, Taking, Serving, Sending
<1> QED BY <1>1, <1>4, <1>5, <1>6

\* The rest goes behind what is in the pipe.
LEMMA PlacedIs ==
    ASSUME NEW n, NEW v, n \in Nat, Total \in Nat, now_len = n, v = Placed
    PROVE  /\ v \in VecSet /\ Len(v.bufs) = 1 /\ v.idx = 1 /\ v.off = n
           /\ v.bufs[1] \in BufSet /\ v.bufs[1].seek /\ ~v.bufs[1].fd
           /\ v.bufs[1].size = Total /\ v.bufs[1].data = <<>>
<1> DEFINE b == Mem(Total, <<>>)
<1>1. b \in BufSet /\ ~b.fd /\ b.seek /\ b.size = Total /\ b.data = <<>>
  <2>1. <<>> \in Seq(Tokens)
    OBVIOUS
  <2> QED BY <2>1 DEF Mem, Buf, BufSet
<1>2. v = [Vec(<<b>>) EXCEPT !.off = n]
  BY DEF Placed
<1> HIDE DEF b
<1> DEFINE w == Vec(<<b>>)
<1>3. w \in VecSet /\ w.idx = 1 /\ Len(w.bufs) = 1 /\ w.bufs[1] = b
  BY <1>1, VecIs
<1>4. v = [w EXCEPT !.off = n]
  BY <1>2
<1> HIDE DEF w
<1>5. v \in VecSet /\ v.idx = w.idx /\ v.off = n /\ v.bufs = w.bufs
  BY <1>3, <1>4 DEF VecSet
<1> QED BY <1>1, <1>3, <1>5

\* The rest of an answer is copied to behind the place of what the pipe has.
LEMMA MoreData ==
    ASSUME DataInv, More
    PROVE  DataInv'
<1>1. /\ pc = "more" /\ UNCHANGED <<unsent, stored>>
      /\ \/ Error /\ pipe' = NoPipe /\ Done
         \/ /\ copy' = Copy(Placed, vec, FALSE) /\ pc' = "rest"
            /\ UNCHANGED <<answers, pipe, buf, msg, vec, now_len>>
  BY DEF More, request
<1>2. Recorded /\ ServesMessage /\ ServesRead
  BY <1>1 DEF DataInv, Serving, Sending
<1>3. /\ Serves(msg) /\ msg.opcode = "READ" /\ msg \in Messages
      /\ Vector(now_len) /\ Headed(now_len)
  BY <1>1, <1>2 DEF ServesMessage, ServesRead, Serves
<1>4. CASE Error /\ pipe' = NoPipe /\ Done
  <2>1. Recorded'
    BY <1>1, <1>2, <1>3, <1>4, ErrorRecorded
  <2>2. InPipe' = <<>>
    BY <1>4 DEF InPipe
  <2> QED BY <2>1, <2>2, <1>4, Returned
<1>5. CASE /\ copy' = Copy(Placed, vec, FALSE) /\ pc' = "rest"
           /\ UNCHANGED <<answers, pipe, buf, msg, vec, now_len>>
  <2>1. Recorded' /\ Serves(msg)' /\ Headed(now_len)'
    BY <1>1, <1>2, <1>3, <1>5, SameRecorded, ServesMsg DEF Headed
  <2>2. PICK L \in Nat : Source(vec, vec.off, "all", msg.unique, 0, MaxReply, L) /\ Pos(vec) = now_len
    BY <1>3 DEF Vector
  <2>3. Total \in Nat /\ now_len \in Nat /\ now_len <= Total
    BY <2>2, SourceSize DEF Total
  <2> DEFINE v == Placed
             n == now_len
             force == FALSE
  <2>4. /\ n \in Nat /\ n = now_len /\ force \in BOOLEAN /\ n <= Total /\ Pos(vec) = n
        /\ copy' = Copy(v, vec, force) /\ v = Placed
    BY <2>2, <2>3, <1>5
  <2> HIDE DEF v, n, force
  <2>5. /\ v \in VecSet /\ Len(v.bufs) = 1 /\ v.idx = 1 /\ v.off = n
        /\ v.bufs[1] \in BufSet /\ v.bufs[1].seek /\ ~v.bufs[1].fd
        /\ v.bufs[1].size = Total /\ v.bufs[1].data = <<>>
    BY <2>3, <2>4, PlacedIs
  <2>6. Dest(v, n, msg.unique, 0, n)
    BY <2>4, <2>5, OneDest
  <2>7. n <= v.bufs[1].size /\ (~v.bufs[1].seek => force)
    BY <2>4, <2>5
  <2>8. Good(copy', msg.unique, 0, n, MaxReply, L)
    BY <2>2, <2>4, <2>5, <2>6, <2>7, CopyBegun
  <2>9. copy'.dst = v
    BY <2>4 DEF Copy
  <2>10. Sends(now_len)'
    BY <2>4, <2>8, <1>5 DEF Sends
  <2>11. ServesMessage' /\ ServesRead'
    BY <2>1, <2>5, <2>9, <2>10, <1>3, <1>5 DEF ServesMessage, ServesRead
  <2> QED BY <2>1, <2>11, <1>5 DEF DataInv, DataPlaces, Taking, Serving, Sending
<1> QED BY <1>1, <1>4, <1>5

\* What is behind the header in the pipe, and behind that.
LEMMA HeadedIs ==
    ASSUME NEW u, NEW n, u \in Uniques, n \in Nat, pipe = Run(u, -1, n + 1)
    PROVE  /\ pipe[1] = Header(u)
           /\ SubSeq(pipe, 2, n + 1) = Run(u, 0, n)
           /\ SubSeq(pipe, n + 2, Len(pipe)) = <<>>
<1> DEFINE k == n + 1
           a == -1
           f == n + 2
<1>1. /\ a \in Int /\ k \in Nat /\ k \in Int /\ k <= k /\ 1 \in Nat /\ 0 \in Nat /\ k > 0
      /\ Sums(2, 1, 1) /\ Sums(k, 1, n) /\ Sums(0, a, 1)
      /\ Sums(f, k, 1) /\ Sums(k, k, 0) /\ Sums(n, a, k)
  BY DEF Sums
<1>2. pipe = Run(u, a, k) /\ a + 1 = 0 /\ 1 \in 1 .. k
  BY <1>1
<1> HIDE DEF k, a, f
<1>3. pipe[1] = <<u, a + 1>> /\ Len(pipe) = k
  BY <1>1, <1>2, RunIs
<1>4. Part(Run(u, a, k), 2, k) = Run(u, 0, n)
  BY <1>1, RunPiece
<1>5. Part(Run(u, a, k), f, k) = Run(u, n, 0)
  BY <1>1, RunPiece
<1>6. SubSeq(pipe, 2, k) = Run(u, 0, n) /\ SubSeq(pipe, f, k) = <<>>
  BY <1>2, <1>4, <1>5, RunEmpty DEF Part
<1>7. pipe[1] = Header(u)
  BY <1>2, <1>3 DEF Header
<1> QED BY <1>3, <1>6, <1>7 DEF k, f

\* What the pipe had and the rest make one answer without a hole.
LEMMA MoreRestData ==
    ASSUME DataInv, MoreRest
    PROVE  DataInv'
<1> DEFINE back == SubSeq(pipe, 2, now_len + 1)
           all == [i \in 1 .. now_len + copy.res |->
                     IF i <= now_len THEN back[i] ELSE IF i \in DOMAIN Out THEN Out[i] ELSE Junk]
<1>1. /\ pc = "rest" /\ copy.at = "over" /\ UNCHANGED <<unsent, stored>>
      /\ \/ pc' = "device" /\ copy' = NoCopy /\ UNCHANGED <<answers, pipe, buf, msg, vec, now_len>>
         \/ /\ ~(copy.res <= 0) /\ Done
            /\ \/ /\ Answer(Header(msg.unique), FALSE, all)
                  /\ pipe' = SubSeq(pipe, now_len + 2, Len(pipe))
               \/ pipe' = NoPipe /\ (Error \/ UNCHANGED answers)
  BY DEF MoreRest, Copied, request
<1> HIDE DEF all
<1>2. Recorded /\ ServesMessage /\ ServesRead
  BY <1>1 DEF DataInv, Serving, Sending
<1>3. /\ Serves(msg) /\ msg.opcode = "READ" /\ msg \in Messages
      /\ Sends(now_len) /\ Headed(now_len) /\ copy.dst.bufs[1].seek
  BY <1>1, <1>2 DEF ServesMessage, ServesRead, Serves
<1>4. now_len \in Nat /\ pipe = Run(msg.unique, -1, now_len + 1) /\ msg.unique \in Uniques
  BY <1>3, WireIs, DataAssumption DEF Headed
<1>5. CASE pc' = "device" /\ copy' = NoCopy /\ UNCHANGED <<answers, pipe, buf, msg, vec, now_len>>
  <2>1. Recorded' /\ Serves(msg)' /\ Headed(now_len)' /\ copy'.at = "none"
    BY <1>1, <1>2, <1>3, <1>5, SameRecorded, ServesMsg, NoCopyAt DEF Headed
  <2>2. ServesMessage' /\ ServesRead'
    BY <2>1, <1>3, <1>5 DEF ServesMessage, ServesRead
  <2> QED BY <2>1, <2>2, <1>5 DEF DataInv, DataPlaces, Taking, Serving, Sending
<1>6. CASE /\ ~(copy.res <= 0) /\ Done /\ Answer(Header(msg.unique), FALSE, all)
           /\ pipe' = SubSeq(pipe, now_len + 2, Len(pipe))
  <2>1. PICK L \in Nat : Good(copy, msg.unique, 0, now_len, MaxReply, L)
    BY <1>3 DEF Sends
  <2>2. /\ copy.dst.bufs[1].data = Filled(msg.unique, 0, now_len, now_len + (IF copy.res > 0 THEN copy.res ELSE 0))
        /\ copy.res \in Int /\ now_len + copy.res <= MaxReply
    BY <2>1, <1>1, <1>3, OutIs
  <2> DEFINE n == now_len + copy.res
  <2>3. /\ n \in Nat /\ n \in 0 .. MaxReply /\ n # now_len /\ now_len <= n
        /\ now_len + (IF copy.res > 0 THEN copy.res ELSE 0) = n
    BY <2>2, <1>4, <1>6, DataAssumption
  <2>4. Out = Filled(msg.unique, 0, now_len, n)
    BY <2>2, <2>3 DEF Out
  <2>5. all = [i \in 1 .. n |-> IF i <= now_len THEN back[i] ELSE IF i \in DOMAIN Out THEN Out[i] ELSE Junk]
    BY DEF all
  <2> HIDE DEF n
  <2>6. Out = [i \in 1 .. n |-> IF i <= now_len THEN Junk ELSE <<msg.unique, 0 + i>>]
    BY <2>3, <2>4 DEF Filled
  <2>7. back = Run(msg.unique, 0, now_len)
    BY <1>4, HeadedIs
  <2> HIDE DEF back
  <2>8. \A i \in 1 .. now_len : back[i] = <<msg.unique, 0 + i>>
    BY <2>7 DEF Run
  <2>9. \A i \in 1 .. n : all[i] = <<msg.unique, 0 + i>>
    <3> SUFFICES ASSUME NEW i \in 1 .. n PROVE all[i] = <<msg.unique, 0 + i>>
      OBVIOUS
    <3>1. CASE i <= now_len
      <4>1. i \in 1 .. now_len
        BY <3>1, <2>3, <1>4
      <4>2. all[i] = back[i]
        BY <3>1, <2>5
      <4> QED BY <4>1, <4>2, <2>8
    <3>2. CASE ~(i <= now_len)
      <4>1. Out[i] = <<msg.unique, 0 + i>> /\ i \in DOMAIN Out
        BY <3>2, <2>6
      <4>2. all[i] = Out[i]
        BY <3>2, <4>1, <2>5
      <4> QED BY <4>1, <4>2
    <3> QED BY <3>1, <3>2
  <2>10. all = Run(msg.unique, 0, n)
    BY <2>5, <2>9 DEF Run
  <2>11. all = Data(msg.unique, n)
    BY <2>3, <2>10, <1>3, WireIs
  <2>12. \E k \in 0 .. MaxReply : all = Data(msg.unique, k)
    BY <2>3, <2>11
  <2>13. Recorded'
    BY <2>12, <1>1, <1>2, <1>3, <1>6, ReplyRecorded
  <2>14. pipe' = <<>>
    BY <1>4, <1>6, HeadedIs
  <2>15. InPipe' = <<>>
    BY <2>14 DEF InPipe
  <2> QED BY <2>13, <2>15, <1>6, Returned
<1>7. CASE Done /\ pipe' = NoPipe /\ (Error \/ UNCHANGED answers)
  <2>1. Recorded'
    <3>1. CASE Error
      BY <3>1, <1>1, <1>2, <1>3, ErrorRecorded
    <3>2. CASE UNCHANGED answers
      BY <3>2, <1>1, <1>2, SameRecorded
    <3> QED BY <3>1, <3>2, <1>7
  <2>2. InPipe' = <<>>
    BY <1>7 DEF InPipe
  <2> QED BY <2>1, <2>2, <1>7, Returned
<1> QED BY <1>1, <1>5, <1>6, <1>7

\* The device takes the header and what is behind it, or the pipe is reset.
LEMMA DeviceData ==
    ASSUME DataInv, Device
    PROVE  DataInv'
<1>1. /\ pc = "device" /\ Done /\ UNCHANGED <<unsent, stored>>
      /\ \/ /\ Answer(pipe[1], FALSE, SubSeq(pipe, 2, now_len + 1))
            /\ pipe' = SubSeq(pipe, now_len + 2, Len(pipe))
         \/ pipe' = NoPipe /\ UNCHANGED answers
  BY DEF Device
<1>2. Recorded /\ ServesMessage /\ ServesRead
  BY <1>1 DEF DataInv, Serving, Sending
<1>3. Serves(msg) /\ msg.opcode = "READ" /\ msg \in Messages /\ Headed(now_len)
  BY <1>1, <1>2 DEF ServesMessage, ServesRead, Serves
<1>4. /\ now_len \in Nat /\ now_len \in 0 .. MaxReply
      /\ pipe = Run(msg.unique, -1, now_len + 1) /\ msg.unique \in Uniques
  BY <1>3, WireIs, DataAssumption DEF Headed
<1>5. CASE /\ Answer(pipe[1], FALSE, SubSeq(pipe, 2, now_len + 1))
           /\ pipe' = SubSeq(pipe, now_len + 2, Len(pipe))
  <2>1. pipe[1] = Header(msg.unique) /\ SubSeq(pipe, 2, now_len + 1) = Run(msg.unique, 0, now_len)
        /\ pipe' = <<>>
    BY <1>4, <1>5, HeadedIs
  <2>2. SubSeq(pipe, 2, now_len + 1) = Data(msg.unique, now_len)
    BY <2>1, <1>3, <1>4, WireIs
  <2>3. \E k \in 0 .. MaxReply : SubSeq(pipe, 2, now_len + 1) = Data(msg.unique, k)
    BY <2>2, <1>4
  <2>4. Recorded'
    BY <2>1, <2>3, <1>1, <1>2, <1>3, <1>5, ReplyRecorded
  <2>5. InPipe' = <<>>
    BY <2>1 DEF InPipe
  <2> QED BY <2>4, <2>5, <1>1, Returned
<1>6. CASE pipe' = NoPipe /\ UNCHANGED answers
  <2>1. Recorded'
    BY <1>1, <1>2, <1>6, SameRecorded
  <2>2. InPipe' = <<>>
    BY <1>6 DEF InPipe
  <2> QED BY <2>1, <2>2, <1>1, Returned
<1> QED BY <1>1, <1>5, <1>6

-----------------------------------------------------------------------------
(* Every step. *)

\* A step that changes nothing.
LEMMA UnchangedData ==
    ASSUME DataInv, UNCHANGED vars
    PROVE  DataInv'
<1>1. UNCHANGED <<unsent, answers, stored, pipe, pc, buf, msg, vec, now_len, copy>>
  BY DEF vars, kept, request
<1>2. Recorded'
  BY <1>1, SameRecorded DEF DataInv
<1>3. /\ (pc \in Taking) = (pc' \in Taking) /\ (pc \in Serving) = (pc' \in Serving)
      /\ (pc \in Sending) = (pc' \in Sending) /\ (pc \in DataPlaces) = (pc' \in DataPlaces)
  BY <1>1
<1>4. InPipe' = InPipe
  BY <1>1 DEF InPipe
<1>5. ServesFirst => ServesFirst'
  BY <1>1, <1>4 DEF ServesFirst, Serves, Received, Given, FromPipe
<1>6. ServesMessage => ServesMessage'
  BY <1>1, <1>4 DEF ServesMessage, Serves, Given, FromPipe
<1>7. ServesRead => ServesRead'
  BY <1>1, <1>4 DEF ServesRead, Vector, Sends, Headed
<1> QED BY <1>1, <1>2, <1>3, <1>4, <1>5, <1>6, <1>7 DEF DataInv

\* Whatever a system call or a request does, the invariant is kept.
THEOREM DataNext == DataInv /\ [Next]_vars => DataInv'
<1> SUFFICES ASSUME DataInv, [Next]_vars PROVE DataInv'
  OBVIOUS
<1>1. CASE Copying
  BY <1>1, CopyingData
<1>2. ASSUME NEW m \in Messages, ReceiveInMemory(m) PROVE DataInv'
  BY <1>2, ReceiveInMemoryData
<1>3. ASSUME NEW m \in Messages, ReceiveInPipe(m) PROVE DataInv'
  BY <1>3, ReceiveInPipeData
<1>4. CASE ReceiveSmall
  BY <1>4, ReceiveSmallData
<1>5. CASE Process
  BY <1>5, ProcessData
<1>6. CASE ProcessFails
  BY <1>6, ProcessFailsData
<1>7. CASE ProcessHeader
  BY <1>7, ProcessHeaderData
<1>8. CASE Refuse
  BY <1>8, RefuseData
<1>9. CASE Dispatch
  BY <1>9, DispatchData
<1>10. CASE DispatchBody
  BY <1>10, DispatchBodyData
<1>11. CASE SetXattr
  BY <1>11, SetXattrData
<1>12. CASE WriteBuf
  BY <1>12, WriteBufData
<1>13. CASE do_write_buf
  BY <1>13, do_write_bufData
<1>14. CASE Read
  BY <1>14, ReadData
<1>15. CASE SendInPipe
  BY <1>15, SendInPipeData
<1>16. CASE SendInMemory
  BY <1>16, SendInMemoryData
<1>17. CASE SendGathered
  BY <1>17, SendGatheredData
<1>18. CASE Fill
  BY <1>18, FillData
<1>19. CASE More
  BY <1>19, MoreData
<1>20. CASE MoreRest
  BY <1>20, MoreRestData
<1>21. CASE Device
  BY <1>21, DeviceData
<1>22. CASE UNCHANGED vars
  BY <1>22, UnchangedData
<1> QED BY <1>1, <1>2, <1>3, <1>4, <1>5, <1>6, <1>7, <1>8, <1>9, <1>10, <1>11, <1>12, <1>13,
           <1>14, <1>15, <1>16, <1>17, <1>18, <1>19, <1>20, <1>21, <1>22 DEF Next

\* So it holds in every behaviour: a message is where the thread takes it to be.
THEOREM DataInvariant == Spec => []DataInv
<1>1. Init => DataInv
  BY InitData
<1> QED BY <1>1, DataNext, PTL DEF Spec

\* A shorter answer is a prefix of a longer one.
LEMMA DataPrefix ==
    ASSUME NEW m \in Messages, NEW k \in Nat, NEW n \in Nat, k <= n
    PROVE  /\ IsPrefix(Data(m.unique, k), Data(m.unique, n))
           /\ Len(Data(m.unique, k)) = k
<1>1. /\ m.unique \in Uniques /\ 0 \in Int
      /\ Data(m.unique, k) = Run(m.unique, 0, k) /\ Data(m.unique, n) = Run(m.unique, 0, n)
  BY WireIs
<1> DEFINE s == Run(m.unique, 0, k)
           t == Run(m.unique, 0, n)
<1>2. s \in Seq(Tokens) /\ Len(s) = k /\ \A i \in 1 .. k : s[i] = <<m.unique, 0 + i>>
  BY <1>1, RunIs
<1>3. t \in Seq(Tokens) /\ Len(t) = n /\ \A i \in 1 .. n : t[i] = <<m.unique, 0 + i>>
  BY <1>1, RunIs
<1>4. Part(s, 1, k) = s /\ Part(t, 1, k) = s
  BY <1>1, RunStart
<1> HIDE DEF s, t
<1>5. IsPrefix(s, t)
  BY <1>2, <1>3, <1>4 DEF IsPrefix, Part
<1> QED BY <1>1, <1>2, <1>5 DEF s, t

\* A thread that is ready for a message has nothing of an older one in its pipe.
THEOREM DataPipeDrained == Spec => []PipeDrained
<1>1. DataInv => PipeDrained
  BY DEF DataInv, PipeDrained
<1> QED BY <1>1, DataInvariant, PTL

\* Each WRITE stores the beginning of its own data, as much of it as it says.
THEOREM DataWritesExact == Spec => []WritesExact
<1>1. DataInv => WritesExact
  <2> SUFFICES ASSUME Recorded, NEW m \in Messages, m.opcode = "WRITE"
               PROVE  /\ IsPrefix(stored[m], Data(m.unique, m.size))
                      /\ \A i \in DOMAIN answers[m] :
                            ~answers[m][i].error => answers[m][i].data = Len(stored[m])
    BY DEF DataInv, WritesExact
  <2>1. Answered(m) /\ \E k \in 0 .. m.size : stored[m] = Data(m.unique, k)
    BY DEF Recorded
  <2>2. IsPrefix(stored[m], Data(m.unique, m.size))
    <3>1. PICK k \in 0 .. m.size : stored[m] = Data(m.unique, k)
      BY <2>1
    <3>2. k \in Nat /\ m.size \in Nat /\ k <= m.size
      BY WireIs
    <3> QED BY <3>1, <3>2, DataPrefix
  <2>3. ASSUME NEW i \in DOMAIN answers[m]
        PROVE ~answers[m][i].error => answers[m][i].data = Len(stored[m])
    <3>1. CASE answers[m] = <<>>
      BY <3>1, <2>3
    <3>2. CASE answers[m] # <<>>
      <4>1. answers[m] = <<answers[m][1]>>
            /\ (answers[m][1].error \/ answers[m][1].data = Len(stored[m]))
        BY <3>2, <2>1 DEF Answered
      <4>2. i = 1
        BY <4>1, <2>3
      <4> QED BY <4>1, <4>2
    <3> QED BY <3>1, <3>2
  <2> QED BY <2>2, <2>3
<1> QED BY <1>1, DataInvariant, PTL

\* Each READ gets one answer at most, its own and without a hole.
THEOREM DataRepliesExact == Spec => []RepliesExact
<1>1. DataInv => RepliesExact
  <2> SUFFICES ASSUME Recorded, NEW m \in Messages, m.opcode = "READ"
               PROVE  /\ Len(answers[m]) <= 1
                      /\ \A i \in DOMAIN answers[m] :
                            /\ answers[m][i].unique = Header(m.unique)
                            /\ IsPrefix(answers[m][i].data, Data(m.unique, MaxReply))
    BY DEF DataInv, RepliesExact
  <2>1. Answered(m)
    BY DEF Recorded
  <2>2. CASE answers[m] = <<>>
    BY <2>2
  <2>3. CASE answers[m] # <<>>
    <3>1. /\ answers[m] = <<answers[m][1]>> /\ answers[m][1].unique = Header(m.unique)
          /\ \E n \in 0 .. MaxReply : answers[m][1].data = Data(m.unique, n)
      BY <2>1, <2>3 DEF Answered
    <3>2. PICK n \in 0 .. MaxReply : answers[m][1].data = Data(m.unique, n)
      BY <3>1
    <3>3. n \in Nat /\ MaxReply \in Nat /\ n <= MaxReply
      BY DataAssumption
    <3>4. IsPrefix(answers[m][1].data, Data(m.unique, MaxReply))
      BY <3>2, <3>3, DataPrefix
    <3>5. Len(answers[m]) = 1 /\ \A i \in DOMAIN answers[m] : i = 1
      BY <3>1
    <3> QED BY <3>1, <3>4, <3>5
  <2> QED BY <2>2, <2>3
<1> QED BY <1>1, DataInvariant, PTL

-----------------------------------------------------------------------------
(* Processes and connections.                                              *)

\* Servers, their helpers and the person are different processes, and there are
\* no others.
LEMMA Processes ==
    /\ Servers \subseteq Procs
    /\ Person \in Procs
    /\ Person \notin Servers
    /\ \A s \in Servers : Helper(s) \in Procs /\ Helper(s) \in Helpers
                          /\ Helper(s) \notin Servers /\ Helper(s) # Person
    /\ \A s, t \in Servers : Helper(s) = Helper(t) => s = t
    /\ \A p \in Procs : p \in Servers \/ p = Person \/ \E s \in Servers : p = Helper(s)
    /\ \A p \in Helpers : \E s \in Servers : p = Helper(s)
    /\ NoOne \notin Procs
<1>1. \A s, t : Helper(s) = Helper(t) => s = t
  BY DEF Helper
<1>2. \A s : Helper(s) # NoOne
  BY DEF Helper, NoOne
<1> QED BY <1>1, <1>2, MountAssumption DEF Procs, Helpers

\* A connection names its server and the try that made it.
LEMMA Connections ==
    ASSUME MountTypeOK, NEW s \in Servers
    PROVE  /\ Conn(s) \in Servers \X Nat
           /\ Conn(s)[1] = s
           /\ Conn(s)[2] = tries[s]
           /\ \A c \in Servers \X Nat :
                 /\ c[1] \in Servers /\ c[2] \in Nat
                 /\ c = Conn(c[1]) <=> c[2] = tries[c[1]]
BY DEF MountTypeOK, Conn

-----------------------------------------------------------------------------
(* The invariant.                                                          *)

\* Who has a descriptor is at a place where it is needed.
Holding ==
    \A s \in Servers :
        /\ s \in holds => at[s] \in {"add", "wait", "serve", "poll"}
        /\ Helper(s) \in holds <=> at[Helper(s)] \in {"add", "send"}
        /\ at[s] \in {"new", "stat", "mount"} => at[Helper(s)] = "none"

\* At most one server is about to mount, and a helper works for a server that
\* waits for it.
Alone ==
    /\ \A s, t \in Servers : at[s] \in Starting /\ at[t] \in Starting => s = t
    /\ \A s \in Servers : at[Helper(s)] \in {"check", "mount", "add", "send"} =>
          at[s] = "wait" /\ s \notin holds

\* Whoever is about to mount has seen that nothing is mounted; what is mounted
\* while it starts is dead, or its own.
About(s) == at[s] = "mount" \/ at[Helper(s)] = "mount"
Entering(s) == at[s] = "add" \/ at[Helper(s)] \in {"add", "send"}
Idle(s) ==
    \/ at[s] = "stat"
    \/ at[s] = "wait" /\ s \notin holds /\ at[Helper(s)] \notin {"add", "send"}
OneAtMost == mounts = <<>> \/ Len(mounts) = 1
Clear ==
    /\ OneAtMost
    /\ \A s \in Servers :
        /\ About(s) => mounts = <<>>
        /\ Entering(s) => mounts = <<>> \/ mounts[1] = Conn(s)
        /\ Idle(s) => mounts = <<>> \/ ~Live(mounts[1])

\* The places of a process that goes by what it saw.
Unmounting == {"lock", "may", "detach"}

Relies(p) ==
    /\ at[p] \in IF p \in Servers THEN Unmounting \cup {"add"} ELSE Unmounting
    /\ ~raced[p]

\* Unless a mount went since it looked, the connection of a server that unmounts
\* is mounted, and a helper that unmounts finds a mount: if it is the only one,
\* it is dead.
OwnThere(s) == Relies(s) => Mounted(Conn(s))
DeadThere(h) ==
    Relies(h) => mounts # <<>> /\ (Len(mounts) = 1 => ~Live(mounts[1]))
Seen == (\A s \in Servers : OwnThere(s)) /\ (\A h \in Helpers : DeadThere(h))

MountInv ==
    /\ MountTypeOK
    /\ Holding
    /\ Seen
    /\ ~orphaned => Alone /\ Clear

-----------------------------------------------------------------------------
(* Types.                                                                  *)

\* A mount on top, and a mount less, leave a sequence of connections.
LEMMA PushPop ==
    ASSUME MountTypeOK
    PROVE  /\ \A c \in Servers \X Nat : Append(mounts, c) \in Seq(Servers \X Nat)
           /\ mounts # <<>> => SubSeq(mounts, 1, Len(mounts) - 1) \in Seq(Servers \X Nat)
<1>1. mounts \in Seq(Servers \X Nat)
  BY DEF MountTypeOK
<1>2. ASSUME mounts # <<>> PROVE SubSeq(mounts, 1, Len(mounts) - 1) \in Seq(Servers \X Nat)
  BY <1>1, <1>2, SubSeqProperties, EmptySeq, LenProperties
<1> QED BY <1>1, <1>2, AppendProperties

\* A step of one process leaves the others where they are.
LEMMA Turns ==
    ASSUME MountTypeOK, NEW p \in Procs, NEW place \in Places, To(p, place)
    PROVE  /\ at' \in [Procs -> Places]
           /\ at'[p] = place
           /\ \A q \in Procs : q # p => at'[q] = at[q]
BY DEF MountTypeOK, To

\* The places by name, without the list of them.
LEMMA PlaceNames ==
    /\ {"new", "stat", "mount", "add", "wait", "serve", "poll", "off"} \subseteq Places
    /\ {"none", "check", "send", "watch", "mounted", "connected"} \subseteq Places
    /\ {"lock", "may", "detach", "remove"} \subseteq Places
BY DEF Places

\* Looking, and unmounting, leave a flag for each process.
LEMMA Flags ==
    ASSUME MountTypeOK, NEW p \in Procs
    PROVE  /\ Looked(p) => raced' \in [Procs -> BOOLEAN]
           /\ Gone(p) => raced' \in [Procs -> BOOLEAN]
BY DEF MountTypeOK, Looked, Gone

\* A server that asks its helper waits while the helper checks.
LEMMA Helped ==
    ASSUME MountTypeOK, NEW s \in Servers, AskHelper(s)
    PROVE  /\ at' \in [Procs -> Places]
           /\ at'[s] = "wait" /\ at'[Helper(s)] = "check"
           /\ \A q \in Procs : q # s /\ q # Helper(s) => at'[q] = at[q]
           /\ tries' \in [Servers -> Nat]
           /\ \A t \in Servers : t # s => tries'[t] = tries[t]
BY Processes, PlaceNames DEF MountTypeOK, AskHelper

\* An entry that is made is one more, or none if the file is a link.
LEMMA EntryNumber ==
    ASSUME MountTypeOK, EntryMade
    PROVE  mtab' \in Nat /\ mtab' >= mtab
BY DEF MountTypeOK, EntryMade

\* Only helpers are among those that failed.
LEMMA Failures ==
    ASSUME MountTypeOK, NEW p, Fail(p)
    PROVE  failed' \subseteq Helpers
BY DEF MountTypeOK, Fail

\* Every step of mount.c and fusermount.c keeps the types: a process is at a
\* place of its program, and /etc/mtab never has fewer than no entries.
LEMMA TypeStep ==
    ASSUME MountTypeOK, MountNext
    PROVE  MountTypeOK'
<1> USE Processes, Turns, PlaceNames
<1> USE DEF machine, table, procs, history, mountVars
<1>1. ASSUME NEW s \in Servers, Start(s) PROVE MountTypeOK'
  BY <1>1 DEF Start, MountTypeOK
<1>2. ASSUME NEW s \in Servers, Stop(s) PROVE MountTypeOK'
  BY <1>2 DEF Stop, MountTypeOK
<1>3. ASSUME NEW s \in Servers, Kill(s) PROVE MountTypeOK'
  <2>1. at' \in [Procs -> Places]
    BY <1>3 DEF Kill
  <2>2. mtab' \in Nat /\ holds' \subseteq Servers \cup Helpers
    BY <1>3, EntryNumber DEF Kill, MountTypeOK
  <2>3. lost' \in BOOLEAN /\ orphaned' \in BOOLEAN
    BY <1>3, Zenon DEF Kill, MountTypeOK
  <2> QED BY <1>3, <2>1, <2>2, <2>3 DEF Kill, MountTypeOK
<1>4. ASSUME NEW s \in Servers, Stat(s) PROVE MountTypeOK'
  <2>1. at' \in [Procs -> Places] /\ tries' \in [Servers -> Nat]
    BY <1>4, Helped DEF Stat, MountTypeOK
  <2> QED BY <1>4, <2>1 DEF Stat, MountTypeOK
<1>5. ASSUME NEW s \in Servers, MountSys(s) PROVE MountTypeOK'
  <2>1. at' \in [Procs -> Places] /\ tries' \in [Servers -> Nat]
    BY <1>5, Helped DEF MountSys, MountTypeOK
  <2>2. mounts' \in Seq(Servers \X Nat)
    <3>1. Conn(s) \in Servers \X Nat
      BY Connections
    <3>2. Append(mounts, Conn(s)) \in Seq(Servers \X Nat)
      BY <3>1, PushPop
    <3> QED BY <1>5, <3>2 DEF MountSys, Push, MountTypeOK
  <2>3. raced' \in [Procs -> BOOLEAN]
    BY <1>5, Flags DEF MountSys, MountTypeOK
  <2> QED BY <1>5, <2>1, <2>2, <2>3 DEF MountSys, MountTypeOK
<1>6. ASSUME NEW s \in Servers, AddEntry(s) PROVE MountTypeOK'
  <2>1. at' \in [Procs -> Places]
    BY <1>6 DEF AddEntry
  <2>2. mounts' \in Seq(Servers \X Nat)
    BY <1>6, PushPop DEF AddEntry, Pop, MountTypeOK
  <2>3. raced' \in [Procs -> BOOLEAN]
    BY <1>6, Flags DEF AddEntry, MountTypeOK
  <2>4. early' \in BOOLEAN
    BY <1>6, Zenon DEF AddEntry, MountTypeOK
  <2>5. mtab' \in Nat
    BY <1>6, EntryNumber DEF AddEntry, MountTypeOK
  <2> QED BY <1>6, <2>1, <2>2, <2>3, <2>4, <2>5 DEF AddEntry, MountTypeOK
<1>7. ASSUME NEW s \in Servers, Receive(s) PROVE MountTypeOK'
  <2>1. at' \in [Procs -> Places]
    BY <1>7 DEF Receive, To, MountTypeOK
  <2>2. tries' \in [Servers -> Nat]
    BY <1>7 DEF Receive, MountTypeOK
  <2> QED BY <1>7, <2>1, <2>2 DEF Receive, MountTypeOK
<1>8. ASSUME NEW s \in Servers, Poll(s) PROVE MountTypeOK'
  <2>1. at' \in [Procs -> Places]
    BY <1>8 DEF Poll
  <2>2. raced' \in [Procs -> BOOLEAN]
    BY <1>8, Flags DEF Poll, MountTypeOK
  <2> QED BY <1>8, <2>1, <2>2 DEF Poll, MountTypeOK
<1>9. ASSUME NEW s \in Servers, HelperChecks(s) PROVE MountTypeOK'
  BY <1>9 DEF HelperChecks, MountTypeOK
<1>10. ASSUME NEW s \in Servers, HelperMounts(s) PROVE MountTypeOK'
  <2>1. at' \in [Procs -> Places]
    BY <1>10 DEF HelperMounts
  <2>2. mounts' \in Seq(Servers \X Nat)
    <3>1. Conn(s) \in Servers \X Nat
      BY Connections
    <3>2. Append(mounts, Conn(s)) \in Seq(Servers \X Nat)
      BY <3>1, PushPop
    <3> QED BY <1>10, <3>2 DEF HelperMounts, Push, MountTypeOK
  <2> QED BY <1>10, <2>1, <2>2 DEF HelperMounts, MountTypeOK
<1>11. ASSUME NEW s \in Servers, HelperAdds(s) PROVE MountTypeOK'
  <2>1. at' \in [Procs -> Places]
    BY <1>11 DEF HelperAdds, GivesUp
  <2>2. mtab' \in Nat /\ holds' \subseteq Servers \cup Helpers
    BY <1>11, EntryNumber DEF HelperAdds, MountTypeOK
  <2>3. lost' \in BOOLEAN
    BY <1>11, Zenon DEF HelperAdds, MountTypeOK
  <2>4. failed' \subseteq Helpers
    BY <1>11, Failures DEF HelperAdds, GivesUp, MountTypeOK
  <2> QED BY <1>11, <2>1, <2>2, <2>3, <2>4 DEF HelperAdds, MountTypeOK
<1>12. ASSUME NEW s \in Servers, HelperSends(s) PROVE MountTypeOK'
  <2>1. at' \in [Procs -> Places]
    BY <1>12 DEF HelperSends, GivesUp
  <2>2. failed' \subseteq Helpers
    BY <1>12, Failures DEF HelperSends, GivesUp, MountTypeOK
  <2>3. holds' \subseteq Servers \cup Helpers
    BY <1>12 DEF HelperSends, MountTypeOK
  <2> QED BY <1>12, <2>1, <2>2, <2>3 DEF HelperSends, MountTypeOK
<1>13. ASSUME NEW s \in Servers, Awake(s) PROVE MountTypeOK'
  BY <1>13 DEF Awake, MountTypeOK
<1>14. ASSUME NEW s \in Servers, StillMounted(s) PROVE MountTypeOK'
  <2>1. at' \in [Procs -> Places]
    BY <1>14 DEF StillMounted, GivesUp
  <2>2. failed' \subseteq Helpers
    BY <1>14, Failures DEF StillMounted, GivesUp, MountTypeOK
  <2> QED BY <1>14, <2>1, <2>2 DEF StillMounted, MountTypeOK
<1>15. ASSUME NEW s \in Servers, NotConnected(s) PROVE MountTypeOK'
  <2>1. at' \in [Procs -> Places]
    BY <1>15 DEF NotConnected, GivesUp
  <2>2. raced' \in [Procs -> BOOLEAN]
    BY <1>15, Flags DEF NotConnected, MountTypeOK
  <2>3. failed' \subseteq Helpers
    BY <1>15, Failures DEF NotConnected, GivesUp, MountTypeOK
  <2> QED BY <1>15, <2>1, <2>2, <2>3 DEF NotConnected, MountTypeOK
<1>16. ASSUME NEW p \in Procs PROVE Ended(p) \in Places
  BY DEF Ended
<1>17. ASSUME NEW p \in Procs, UnmountStep(p) PROVE MountTypeOK'
  <2>1. CASE Lock(p)
    <3>1. at' \in [Procs -> Places] /\ mtablock' \in Procs \cup {NoOne}
      BY <2>1 DEF Lock, MountTypeOK
    <3>2. unlocked' \in BOOLEAN
      BY <2>1, Zenon DEF Lock, MountTypeOK
    <3> QED BY <2>1, <3>1, <3>2 DEF Lock, MountTypeOK
  <2>2. CASE May(p)
    <3>1. at' \in [Procs -> Places] /\ mtablock' \in Procs \cup {NoOne}
      BY <1>16, <2>2 DEF May, End, MountTypeOK
    <3>2. failed' \subseteq Helpers
      BY <2>2, Failures DEF May, MountTypeOK
    <3> QED BY <2>2, <3>1, <3>2 DEF May, MountTypeOK
  <2>3. CASE Detach(p)
    <3>1. at' \in [Procs -> Places]
      BY <1>16, <2>3 DEF Detach, End
    <3>2. mounts' \in Seq(Servers \X Nat)
      BY <2>3, PushPop DEF Detach, Pop, MountTypeOK
    <3>3. raced' \in [Procs -> BOOLEAN]
      BY <2>3, Flags DEF Detach, MountTypeOK
    <3>4. early' \in BOOLEAN
      BY <2>3, Zenon DEF Detach, MountTypeOK
    <3>5. mtablock' \in Procs \cup {NoOne}
      BY <2>3 DEF Detach, End, MountTypeOK
    <3>6. failed' \subseteq Helpers
      BY <2>3, Failures DEF Detach, MountTypeOK
    <3> QED BY <2>3, <3>1, <3>2, <3>3, <3>4, <3>5, <3>6 DEF Detach, MountTypeOK
  <2>4. CASE RemoveEntry(p)
    <3>1. at' \in [Procs -> Places] /\ mtablock' \in Procs \cup {NoOne}
      BY <1>16, <2>4 DEF RemoveEntry, End, MountTypeOK
    <3>2. stale' \in BOOLEAN
      BY <2>4, Zenon DEF RemoveEntry, MountTypeOK
    <3>3. mtab' \in Nat
      BY <2>4 DEF RemoveEntry, MountTypeOK
    <3> QED BY <2>4, <3>1, <3>2, <3>3 DEF RemoveEntry, MountTypeOK
  <2> QED BY <1>17, <2>1, <2>2, <2>3, <2>4 DEF UnmountStep
<1>18. CASE PersonUnmounts
  BY <1>18 DEF PersonUnmounts, MountTypeOK
<1> QED BY <1>1, <1>2, <1>3, <1>4, <1>5, <1>6, <1>7, <1>8, <1>9, <1>10, <1>11, <1>12,
           <1>13, <1>14, <1>15, <1>17, <1>18
        DEF MountNext, ServerStep, HelperStep, StopGone

-----------------------------------------------------------------------------
(* Holding: where each process with a descriptor is.                       *)

\* No step leaves a descriptor with a process that has no use for it.
LEMMA HoldingStep ==
    ASSUME MountTypeOK, MountTypeOK', Holding, MountNext
    PROVE  Holding'
<1> USE Processes, Turns, PlaceNames
<1> USE DEF machine, table, procs, history, mountVars, Holding, Starting
<1>1. ASSUME NEW s \in Servers, Start(s) PROVE Holding'
  BY <1>1 DEF Start
<1>2. ASSUME NEW s \in Servers, Stop(s) PROVE Holding'
  BY <1>2 DEF Stop
<1>3. ASSUME NEW s \in Servers, Kill(s) PROVE Holding'
  BY <1>3 DEF Kill
<1>4. ASSUME NEW s \in Servers, Stat(s) PROVE Holding'
  <2>1. CASE AskHelper(s)
    BY <1>4, <2>1, Helped DEF Stat
  <2> QED BY <1>4, <2>1 DEF Stat
<1>5. ASSUME NEW s \in Servers, MountSys(s) PROVE Holding'
  <2>1. CASE AskHelper(s)
    BY <1>5, <2>1, Helped DEF MountSys
  <2> QED BY <1>5, <2>1 DEF MountSys
<1>6. ASSUME NEW s \in Servers, AddEntry(s) PROVE Holding'
  BY <1>6 DEF AddEntry
<1>7. ASSUME NEW s \in Servers, Receive(s) PROVE Holding'
  BY <1>7 DEF Receive, MountTypeOK
<1>8. ASSUME NEW s \in Servers, Poll(s) PROVE Holding'
  BY <1>8 DEF Poll
<1>9. ASSUME NEW s \in Servers, HelperChecks(s) PROVE Holding'
  BY <1>9 DEF HelperChecks
<1>10. ASSUME NEW s \in Servers, HelperMounts(s) PROVE Holding'
  BY <1>10 DEF HelperMounts
<1>11. ASSUME NEW s \in Servers, HelperAdds(s) PROVE Holding'
  BY <1>11 DEF HelperAdds, GivesUp
<1>12. ASSUME NEW s \in Servers, HelperSends(s) PROVE Holding'
  BY <1>12 DEF HelperSends, GivesUp
<1>13. ASSUME NEW s \in Servers, Awake(s) PROVE Holding'
  BY <1>13 DEF Awake
<1>14. ASSUME NEW s \in Servers, StillMounted(s) PROVE Holding'
  BY <1>14 DEF StillMounted, GivesUp
<1>15. ASSUME NEW s \in Servers, NotConnected(s) PROVE Holding'
  BY <1>15 DEF NotConnected, GivesUp
<1>16. ASSUME NEW p \in Procs PROVE Ended(p) \in {"none", "off"} /\ Ended(p) \in Places
  BY DEF Ended
<1>17. ASSUME NEW p \in Procs, UnmountStep(p) PROVE Holding'
  <2>1. CASE Lock(p)
    BY <2>1 DEF Lock
  <2>2. CASE May(p)
    BY <1>16, <2>2 DEF May, End
  <2>3. CASE Detach(p)
    BY <1>16, <2>3 DEF Detach, End
  <2>4. CASE RemoveEntry(p)
    BY <1>16, <2>4 DEF RemoveEntry, End
  <2> QED BY <1>17, <2>1, <2>2, <2>3, <2>4 DEF UnmountStep
<1>18. CASE PersonUnmounts
  BY <1>18 DEF PersonUnmounts
<1> QED BY <1>1, <1>2, <1>3, <1>4, <1>5, <1>6, <1>7, <1>8, <1>9, <1>10, <1>11, <1>12,
           <1>13, <1>14, <1>15, <1>17, <1>18
        DEF MountNext, ServerStep, HelperStep, StopGone

\* A second server does not begin while one mounts, and a helper that mounts
\* has a server that waits, unless a server was killed before it had its descriptor.
LEMMA AloneStep ==
    ASSUME MountTypeOK, MountTypeOK', Holding, Alone, MountNext, ~orphaned'
    PROVE  Alone'
<1> USE Processes, Turns, PlaceNames
<1> USE DEF machine, table, procs, history, mountVars, Holding, Alone, Starting
<1>1. ASSUME NEW s \in Servers, Start(s) PROVE Alone'
  BY <1>1 DEF Start
<1>2. ASSUME NEW s \in Servers, Stop(s) PROVE Alone'
  BY <1>2 DEF Stop
<1>3. ASSUME NEW s \in Servers, Kill(s) PROVE Alone'
  <2>1. ~(at[s] = "wait" /\ s \notin holds)
    BY <1>3, Zenon DEF Kill
  <2>2. To(s, "off") /\ holds' = holds \ {s}
    BY <1>3 DEF Kill
  <2>3. \A q \in Procs : q # s => at'[q] = at[q]
    BY <2>2
  <2>4. at'[s] = "off"
    BY <2>2
  <2> QED BY <2>1, <2>2, <2>3, <2>4
<1>4. ASSUME NEW s \in Servers, Stat(s) \/ MountSys(s), AskHelper(s) PROVE Alone'
  <2>1. at[s] \in {"stat", "mount"} /\ s \notin holds
    BY <1>4 DEF Stat, MountSys
  <2>2. ~To(s, "add")
    BY <1>4, Helped
  <2>3. holds' = holds
    BY <1>4, <2>2 DEF Stat, MountSys
  <2> QED BY <1>4, <2>1, <2>3, Helped
<1>5. ASSUME NEW s \in Servers, Stat(s) \/ MountSys(s), ~AskHelper(s) PROVE Alone'
  BY <1>5 DEF Stat, MountSys
<1>6. ASSUME NEW s \in Servers, AddEntry(s) PROVE Alone'
  BY <1>6 DEF AddEntry
<1>7. ASSUME NEW s \in Servers, Receive(s) PROVE Alone'
  <2>1. CASE at' = [at EXCEPT ![Helper(s)] = "check"] /\ s \notin holds
    <3>1. at[s] = "wait" /\ holds' = holds
      BY <1>7 DEF Receive
    <3>2. To(Helper(s), "check")
      BY <2>1 DEF To
    <3>3. at'[Helper(s)] = "check" /\ \A q \in Procs : q # Helper(s) => at'[q] = at[q]
      BY <3>2
    <3> QED BY <2>1, <3>1, <3>3
  <2>2. CASE To(s, "serve") /\ s \in holds
    BY <1>7, <2>2 DEF Receive
  <2>3. CASE To(s, "off")
    BY <1>7, <2>3 DEF Receive
  <2> QED BY <1>7, <2>1, <2>2, <2>3 DEF Receive
<1>8. ASSUME NEW s \in Servers, Poll(s) PROVE Alone'
  BY <1>8 DEF Poll
<1>9. ASSUME NEW s \in Servers, HelperChecks(s) PROVE Alone'
  BY <1>9 DEF HelperChecks
<1>10. ASSUME NEW s \in Servers, HelperMounts(s) PROVE Alone'
  BY <1>10 DEF HelperMounts
<1>11. ASSUME NEW s \in Servers, HelperAdds(s) PROVE Alone'
  BY <1>11 DEF HelperAdds, GivesUp
<1>12. ASSUME NEW s \in Servers, HelperSends(s) PROVE Alone'
  BY <1>12 DEF HelperSends, GivesUp
<1>13. ASSUME NEW s \in Servers, Awake(s) PROVE Alone'
  BY <1>13 DEF Awake
<1>14. ASSUME NEW s \in Servers, StillMounted(s) PROVE Alone'
  BY <1>14 DEF StillMounted, GivesUp
<1>15. ASSUME NEW s \in Servers, NotConnected(s) PROVE Alone'
  BY <1>15 DEF NotConnected, GivesUp
<1>16. ASSUME NEW p \in Procs PROVE Ended(p) \in {"none", "off"} /\ Ended(p) \in Places
  BY DEF Ended
<1>17. ASSUME NEW p \in Procs, UnmountStep(p) PROVE Alone'
  <2>1. CASE Lock(p)
    BY <2>1 DEF Lock
  <2>2. CASE May(p)
    BY <1>16, <2>2 DEF May, End
  <2>3. CASE Detach(p)
    BY <1>16, <2>3 DEF Detach, End
  <2>4. CASE RemoveEntry(p)
    BY <1>16, <2>4 DEF RemoveEntry, End
  <2> QED BY <1>17, <2>1, <2>2, <2>3, <2>4 DEF UnmountStep
<1>18. CASE PersonUnmounts
  BY <1>18 DEF PersonUnmounts
<1> QED BY <1>1, <1>2, <1>3, <1>4, <1>5, <1>6, <1>7, <1>8, <1>9, <1>10, <1>11, <1>12,
           <1>13, <1>14, <1>15, <1>17, <1>18
        DEF MountNext, ServerStep, HelperStep, StopGone

-----------------------------------------------------------------------------
(* Clear: one mount at most, and who may still add one.                    *)

\* With one mount at most, what is on top is the mount, and below it is none.
LEMMA Tops ==
    ASSUME MountTypeOK, Clear
    PROVE  /\ mounts # <<>> =>
                 /\ mounts[1] \in Servers \X Nat
                 /\ Len(mounts) = 1
                 /\ Uppermost = mounts[1]
                 /\ SubSeq(mounts, 1, Len(mounts) - 1) = <<>>
           /\ DeadTop <=> mounts # <<>> /\ ~Live(mounts[1])
           /\ \A c : Mounted(c) <=> mounts # <<>> /\ mounts[1] = c
<1>1. mounts \in Seq(Servers \X Nat)
  BY DEF MountTypeOK
<1>2. CASE mounts = <<>>
  BY <1>2 DEF DeadTop, Mounted
<1>3. CASE mounts # <<>>
  <2>1. Len(mounts) = 1
    BY <1>3 DEF Clear, OneAtMost
  <2>2. mounts[1] \in Servers \X Nat /\ DOMAIN mounts = 1..1
    <3>1. DOMAIN mounts = 1..Len(mounts)
      BY <1>1, LenProperties
    <3> QED BY <1>1, <2>1, <3>1, ElementOfSeq
  <2>3. SubSeq(mounts, 1, Len(mounts) - 1) = <<>>
    BY <1>1, <2>1, SubSeqEmpty
  <2> QED BY <1>3, <2>1, <2>2, <2>3 DEF DeadTop, Mounted, Uppermost
<1> QED BY <1>2, <1>3

\* The first mount is the only one.
LEMMA Pushed ==
    ASSUME MountTypeOK, NEW c \in Servers \X Nat, mounts = <<>>, Push(c)
    PROVE  mounts' # <<>> /\ Len(mounts') = 1 /\ mounts'[1] = c
BY DEF MountTypeOK, Push

\* Nothing brings a mount back whose descriptors are closed.
LEMMA DeadStaysDead ==
    ASSUME MountTypeOK, Clear, mounts # <<>>, mounts' = mounts, tries' = tries,
           holds' \subseteq holds, Live(mounts[1])'
    PROVE  Live(mounts[1])
BY Tops DEF Live, Conn

\* A process that moves to a place from which it does not mount, and keeps or
\* closes what it has, leaves the mount as it is for those that mount.
LEMMA Leaves ==
    ASSUME MountTypeOK, Clear, NEW p \in Procs, NEW place \in Places, To(p, place),
           place \notin Starting \cup {"send"},
           p \in Helpers => at[p] \notin {"add", "send"},
           mounts' = mounts, tries' = tries, holds' \subseteq holds,
           holds \ holds' \subseteq {p}
    PROVE  Clear'
<1> USE Processes
<1>1. at'[p] = place /\ \A q \in Procs : q # p => at'[q] = at[q]
  BY Turns
<1>2. OneAtMost'
  BY DEF Clear, OneAtMost
<1>3. ASSUME NEW s \in Servers
      PROVE  /\ About(s)' => About(s)
             /\ Entering(s)' => Entering(s)
             /\ Idle(s)' => Idle(s)
  <2>1. CASE p = s
    BY <1>1, <2>1 DEF About, Entering, Idle, Starting
  <2>2. CASE p = Helper(s)
    BY <1>1, <2>2 DEF About, Entering, Idle, Starting
  <2>3. CASE p # s /\ p # Helper(s)
    BY <1>1, <2>3 DEF About, Entering, Idle, Starting
  <2> QED BY <2>1, <2>2, <2>3
<1>4. ASSUME NEW s \in Servers PROVE Conn(s)' = Conn(s)
  BY DEF Conn
<1>5. mounts # <<>> /\ Live(mounts[1])' => Live(mounts[1])
  BY DeadStaysDead
<1> QED BY <1>2, <1>3, <1>4, <1>5 DEF Clear

\* When nothing is mounted, anybody may mount.
LEMMA Emptied ==
    ASSUME mounts' = <<>>
    PROVE  Clear'
BY DEF Clear, OneAtMost

\* fuse_mount_sys and check_perm look at the mount point before mount(2), and
\* between the two nobody else mounts.
LEMMA ClearStep ==
    ASSUME MountTypeOK, MountTypeOK', Holding, Alone, Clear, MountNext, ~orphaned'
    PROVE  Clear'
<1> USE Processes, PlaceNames
<1> USE DEF machine, table, procs, history, mountVars, Starting
<1>1. ASSUME NEW s \in Servers, Start(s) PROVE Clear'
  <2>1. at'[s] = "stat" /\ \A q \in Procs : q # s => at'[q] = at[q]
    BY <1>1, Turns DEF Start
  <2>2. at[s] = "new" /\ mounts' = mounts /\ tries' = tries /\ holds' = holds
    BY <1>1 DEF Start
  <2>3. ASSUME NEW t \in Servers
        PROVE  /\ About(t)' => About(t)
               /\ Entering(t)' => Entering(t)
               /\ Conn(t)' = Conn(t)
    BY <2>1, <2>2 DEF About, Entering, Conn
  <2>4. ASSUME NEW t \in Servers, Idle(t)' PROVE Idle(t) \/ t = s
    BY <2>1, <2>2, <2>4 DEF Idle
  <2>5. mounts = <<>> \/ ~Live(mounts[1])
    BY <1>1, Tops DEF Start
  <2>6. mounts = <<>> \/ ~Live(mounts[1])'
    BY <2>2, <2>5, DeadStaysDead
  <2> QED BY <2>2, <2>3, <2>4, <2>6 DEF Clear, OneAtMost
<1>2. ASSUME NEW s \in Servers, Stop(s) PROVE Clear'
  BY <1>2, Leaves DEF Stop
<1>3. ASSUME NEW s \in Servers, Kill(s) PROVE Clear'
  BY <1>3, Leaves DEF Kill
<1>4. ASSUME NEW s \in Servers, Stat(s) PROVE Clear'
  <2>1. CASE To(s, "off") /\ UNCHANGED tries
    BY <1>4, <2>1, Leaves DEF Stat
  <2>2. CASE ~DeadTop
    <3>1. Idle(s)
      BY <1>4 DEF Stat, Idle
    <3>2. mounts = <<>>
      BY <2>2, <3>1, Tops DEF Clear
    <3> QED BY <1>4, <3>2, Emptied DEF Stat
  <2> QED BY <1>4, <2>1, <2>2 DEF Stat
<1>5. ASSUME NEW s \in Servers, MountSys(s) PROVE Clear'
  <2>1. mounts = <<>>
    BY <1>5 DEF MountSys, Clear, About
  <2>2. CASE UNCHANGED mounts
    BY <2>1, <2>2, Emptied
  <2>3. CASE Push(Conn(s)) /\ To(s, "add") /\ tries' = tries
    <3>1. at[s] = "mount" /\ tries' = tries
      BY <1>5, <2>3 DEF MountSys
    <3>2. mounts' # <<>> /\ Len(mounts') = 1 /\ mounts'[1] = Conn(s)
      BY <2>1, <2>3, Connections, Pushed
    <3>3. at'[s] = "add" /\ \A q \in Procs : q # s => at'[q] = at[q]
      BY <2>3, Turns
    <3>4. at[Helper(s)] \notin {"mount", "add", "send"}
      BY <3>1 DEF Alone
    <3>5. ~About(s)' /\ ~Idle(s)' /\ Conn(s)' = Conn(s)
      BY <3>1, <3>3, <3>4 DEF About, Idle, Conn
    <3>6. ASSUME NEW t \in Servers, t # s PROVE ~About(t)' /\ ~Entering(t)' /\ ~Idle(t)'
      <4>1. at[t] \notin Starting /\ at[Helper(t)] \notin {"mount", "add", "send"}
        BY <3>1, <3>6 DEF Alone
      <4> QED BY <3>3, <3>6, <4>1 DEF About, Entering, Idle
    <3> QED BY <3>2, <3>5, <3>6 DEF Clear, OneAtMost
  <2> QED BY <1>5, <2>2, <2>3 DEF MountSys
<1>6. ASSUME NEW s \in Servers, AddEntry(s) PROVE Clear'
  <2>1. CASE To(s, "serve") /\ UNCHANGED <<mounts, holds, raced>>
    BY <1>6, <2>1, Leaves DEF AddEntry
  <2>2. CASE mounts' = <<>>
    BY <2>2, Emptied
  <2>3. CASE mounts # <<>> /\ Pop
    BY <2>2, <2>3, Tops DEF Pop
  <2> QED BY <1>6, <2>1, <2>2, <2>3 DEF AddEntry
<1>7. ASSUME NEW s \in Servers, Receive(s) PROVE Clear'
  <2>1. CASE s \in holds \/ tries[s] # 1
    BY <1>7, <2>1, Leaves DEF Receive
  <2>2. CASE s \notin holds /\ tries[s] = 1
    <3>1. /\ at[s] = "wait" /\ at[Helper(s)] \in {"none", "watch"}
          /\ mounts' = mounts /\ holds' = holds
          /\ tries' = [tries EXCEPT ![s] = 2]
          /\ at' = [at EXCEPT ![Helper(s)] = "check"]
      BY <1>7, <2>2 DEF Receive
    <3>2. Idle(s)
      BY <2>2, <3>1 DEF Idle
    <3>3. at'[Helper(s)] = "check" /\ \A q \in Procs : q # Helper(s) => at'[q] = at[q]
      BY <3>1 DEF MountTypeOK
    <3>4. ~About(s)' /\ ~Entering(s)'
      BY <3>1, <3>3 DEF About, Entering
    <3>5. ASSUME NEW t \in Servers, t # s PROVE ~About(t)' /\ ~Entering(t)' /\ ~Idle(t)'
      <4>1. at[t] \notin Starting /\ at[Helper(t)] \notin {"mount", "add", "send"}
        BY <3>1, <3>5 DEF Alone, Starting
      <4> QED BY <3>3, <3>5, <4>1 DEF About, Entering, Idle, Starting
    <3>6. mounts = <<>> \/ ~Live(mounts[1])
      BY <3>2 DEF Clear
    <3>7. mounts = <<>> \/ ~Live(mounts[1])'
      <4>1. SUFFICES ASSUME mounts # <<>>, Live(mounts[1])' PROVE FALSE
        OBVIOUS
      <4>2. mounts[1] \in Servers \X Nat
        BY <4>1, Tops
      <4>3. mounts[1] = <<mounts[1][1], tries'[mounts[1][1]]>>
            /\ {mounts[1][1], Helper(mounts[1][1])} \cap holds # {}
        BY <3>1, <4>1 DEF Live, Conn
      <4>4. mounts[1][1] # s
        BY <2>2, <3>1, <4>3 DEF Holding
      <4>5. tries'[mounts[1][1]] = tries[mounts[1][1]]
        BY <3>1, <4>2, <4>4 DEF MountTypeOK
      <4> QED BY <3>6, <4>1, <4>3, <4>5 DEF Live, Conn
    <3> QED BY <3>1, <3>4, <3>5, <3>7 DEF Clear, OneAtMost
  <2> QED BY <2>1, <2>2
<1>8. ASSUME NEW s \in Servers, Poll(s) PROVE Clear'
  BY <1>8, Leaves DEF Poll
<1>9. ASSUME NEW s \in Servers, HelperChecks(s) PROVE Clear'
  <2>1. CASE To(Helper(s), "none")
    BY <1>9, <2>1, Leaves DEF HelperChecks
  <2>2. CASE ~DeadTop
    <3>1. Idle(s)
      BY <1>9 DEF HelperChecks, Idle, Alone
    <3>2. mounts = <<>>
      BY <2>2, <3>1, Tops DEF Clear
    <3> QED BY <1>9, <3>2, Emptied DEF HelperChecks
  <2> QED BY <1>9, <2>1, <2>2 DEF HelperChecks
<1>10. ASSUME NEW s \in Servers, HelperMounts(s) PROVE Clear'
  <2>1. CASE To(Helper(s), "none") /\ UNCHANGED <<mounts, holds>>
    BY <1>10, <2>1, Leaves DEF HelperMounts
  <2>2. CASE Push(Conn(s)) /\ To(Helper(s), "add")
    <3>1. at[Helper(s)] = "mount" /\ tries' = tries
      BY <1>10 DEF HelperMounts
    <3>2. mounts = <<>>
      BY <3>1 DEF Clear, About
    <3>3. mounts' # <<>> /\ Len(mounts') = 1 /\ mounts'[1] = Conn(s)
      BY <2>2, <3>2, Connections, Pushed
    <3>4. at'[Helper(s)] = "add"
          /\ \A q \in Procs : q # Helper(s) => at'[q] = at[q]
      BY <2>2, Turns
    <3>5. at[s] = "wait"
      BY <3>1 DEF Alone
    <3>6. ~About(s)' /\ ~Idle(s)' /\ Conn(s)' = Conn(s)
      BY <3>1, <3>4, <3>5 DEF About, Idle, Conn
    <3>7. ASSUME NEW t \in Servers, t # s PROVE ~About(t)' /\ ~Entering(t)' /\ ~Idle(t)'
      <4>1. at[t] \notin Starting /\ at[Helper(t)] \notin {"mount", "add", "send"}
        BY <3>5, <3>7 DEF Alone
      <4> QED BY <3>4, <3>7, <4>1 DEF About, Entering, Idle
    <3> QED BY <3>3, <3>6, <3>7 DEF Clear, OneAtMost
  <2> QED BY <1>10, <2>1, <2>2 DEF HelperMounts
<1>11. ASSUME NEW s \in Servers, HelperAdds(s) PROVE Clear'
  <2>1. /\ at[Helper(s)] = "add" /\ at[s] = "wait" /\ s \notin holds
        /\ mounts' = mounts /\ tries' = tries
    BY <1>11 DEF HelperAdds, Alone
  <2>2. at'[Helper(s)] \in {"send", "none"}
        /\ \A q \in Procs : q # Helper(s) => at'[q] = at[q]
    BY <1>11, Turns DEF HelperAdds, GivesUp
  <2>3. ASSUME NEW t \in Servers, t # s PROVE ~About(t)' /\ ~Entering(t)' /\ ~Idle(t)'
    <3>1. at[t] \notin Starting /\ at[Helper(t)] \notin {"mount", "add", "send"}
      BY <2>1, <2>3 DEF Alone
    <3> QED BY <2>2, <2>3, <3>1 DEF About, Entering, Idle
  <2>4. ~About(s)' /\ Entering(s) /\ Conn(s)' = Conn(s)
    BY <2>1, <2>2 DEF About, Entering, Conn
  <2>5. mounts = <<>> \/ mounts[1] = Conn(s)
    BY <2>4 DEF Clear
  <2>6. ASSUME Idle(s)', mounts # <<>> PROVE ~Live(mounts[1])'
    <3>1. s \notin holds' /\ Helper(s) \notin holds'
      <4>1. at'[Helper(s)] = "none" /\ at'[s] = "wait"
        BY <2>1, <2>2, <2>6 DEF Idle
      <4>2. CASE To(Helper(s), "send")
        BY <4>1, <4>2, Turns
      <4>3. CASE holds' = holds \ {Helper(s)}
        BY <2>1, <4>3
      <4> QED BY <1>11, <4>2, <4>3 DEF HelperAdds
    <3>2. mounts'[1][1] = s
      BY <2>1, <2>5, <2>6 DEF Conn
    <3> QED BY <3>1, <3>2 DEF Live
  <2> QED BY <2>1, <2>3, <2>4, <2>5, <2>6 DEF Clear, OneAtMost
<1>12. ASSUME NEW s \in Servers, HelperSends(s) PROVE Clear'
  <2>1. /\ at[Helper(s)] = "send" /\ at[s] = "wait" /\ s \notin holds
        /\ mounts' = mounts /\ tries' = tries
    BY <1>12 DEF HelperSends, Alone
  <2>2. at'[Helper(s)] \in {"watch", "none"}
        /\ \A q \in Procs : q # Helper(s) => at'[q] = at[q]
    BY <1>12, Turns DEF HelperSends, GivesUp
  <2>3. ASSUME NEW t \in Servers, t # s PROVE ~About(t)' /\ ~Entering(t)' /\ ~Idle(t)'
    <3>1. at[t] \notin Starting /\ at[Helper(t)] \notin {"mount", "add", "send"}
      BY <2>1, <2>3 DEF Alone
    <3> QED BY <2>2, <2>3, <3>1 DEF About, Entering, Idle
  <2>4. ~About(s)' /\ ~Entering(s)' /\ Entering(s) /\ Conn(s)' = Conn(s)
    BY <2>1, <2>2 DEF About, Entering, Conn
  <2>5. mounts = <<>> \/ mounts[1] = Conn(s)
    BY <2>4 DEF Clear
  <2>6. ASSUME Idle(s)', mounts # <<>> PROVE ~Live(mounts[1])'
    <3>1. s \notin holds' /\ Helper(s) \notin holds'
      <4>1. s \notin holds'
        BY <2>1, <2>2, <2>6 DEF Idle
      <4> QED BY <1>12, <4>1 DEF HelperSends
    <3>2. mounts'[1][1] = s
      BY <2>1, <2>5, <2>6 DEF Conn
    <3> QED BY <3>1, <3>2 DEF Live
  <2> QED BY <2>1, <2>3, <2>4, <2>5, <2>6 DEF Clear, OneAtMost
<1>13. ASSUME NEW s \in Servers, Awake(s) PROVE Clear'
  BY <1>13, Leaves DEF Awake
<1>14. ASSUME NEW s \in Servers, StillMounted(s) PROVE Clear'
  BY <1>14, Leaves DEF StillMounted, GivesUp
<1>15. ASSUME NEW s \in Servers, NotConnected(s) PROVE Clear'
  BY <1>15, Leaves DEF NotConnected, GivesUp
<1>16. ASSUME NEW p \in Procs PROVE Ended(p) \in {"none", "off"} /\ Ended(p) \in Places
  BY DEF Ended
<1>17. ASSUME NEW p \in Procs, UnmountStep(p) PROVE Clear'
  <2>1. CASE Lock(p)
    BY <2>1, Leaves DEF Lock
  <2>2. CASE May(p)
    BY <1>16, <2>2, Leaves DEF May, End
  <2>3. CASE Detach(p)
    <3>1. CASE End(p) /\ UNCHANGED mounts
      BY <1>16, <2>3, <3>1, Leaves DEF Detach, End
    <3>2. CASE mounts # <<>> /\ Pop
      BY <3>2, Tops, Emptied DEF Pop
    <3> QED BY <2>3, <3>1, <3>2 DEF Detach
  <2>4. CASE RemoveEntry(p)
    BY <1>16, <2>4, Leaves DEF RemoveEntry, End
  <2> QED BY <1>17, <2>1, <2>2, <2>3, <2>4 DEF UnmountStep
<1>18. CASE PersonUnmounts
  BY <1>18, Leaves DEF PersonUnmounts
<1> QED BY <1>1, <1>2, <1>3, <1>4, <1>5, <1>6, <1>7, <1>8, <1>9, <1>10, <1>11, <1>12,
           <1>13, <1>14, <1>15, <1>17, <1>18
        DEF MountNext, ServerStep, HelperStep, StopGone

-----------------------------------------------------------------------------
(* Seen: what a process that unmounts relies on.                           *)

\* No connection without a descriptor gets one again.
NoneRevived ==
    \A s \in Servers : {s, Helper(s)} \cap holds' # {} =>
        {s, Helper(s)} \cap holds # {} /\ tries'[s] = tries[s]

\* The same mounts, none of them revived, or one more on top.
Grows == (mounts' = mounts /\ NoneRevived) \/ \E c \in Servers \X Nat : Push(c)

\* A mount on top of others hides none, and is not the only one.
LEMMA Grown ==
    ASSUME MountTypeOK, Grows
    PROVE  /\ \A c : Mounted(c) => Mounted(c)'
           /\ mounts # <<>> => mounts' # <<>>
           /\ mounts # <<>> /\ Len(mounts') = 1 => mounts' = mounts /\ NoneRevived
<1>1. mounts \in Seq(Servers \X Nat)
  BY DEF MountTypeOK
<1>2. CASE mounts' = mounts /\ NoneRevived
  BY <1>2 DEF Mounted
<1>3. ASSUME NEW c \in Servers \X Nat, Push(c)
      PROVE  /\ \A d : Mounted(d) => Mounted(d)'
             /\ mounts' # <<>>
             /\ mounts # <<>> => Len(mounts') # 1
  <2>1. /\ Len(mounts') = Len(mounts) + 1
        /\ \A i \in 1 .. Len(mounts) : mounts'[i] = mounts[i]
        /\ DOMAIN mounts = 1 .. Len(mounts) /\ DOMAIN mounts' = 1 .. Len(mounts')
        /\ Len(mounts) \in Nat
    BY <1>1, <1>3 DEF Push
  <2>2. mounts # <<>> => Len(mounts) # 0
    BY <1>1
  <2>3. mounts' # <<>>
    BY <1>1, <1>3 DEF Push
  <2> QED BY <2>1, <2>2, <2>3 DEF Mounted
<1> QED BY <1>2, <1>3 DEF Grows

\* What is dead stays dead.
LEMMA StaysDead ==
    ASSUME MountTypeOK, NoneRevived, NEW c \in Servers \X Nat, Live(c)'
    PROVE  Live(c)
<1>1. c[1] \in Servers
  OBVIOUS
<1>2. {c[1], Helper(c[1])} \cap holds' # {} /\ c = <<c[1], tries'[c[1]]>>
  BY DEF Live, Conn
<1>3. {c[1], Helper(c[1])} \cap holds # {} /\ tries'[c[1]] = tries[c[1]]
  BY <1>1, <1>2 DEF NoneRevived
<1> QED BY <1>2, <1>3 DEF Live, Conn

\* A process goes by what it saw before, or no longer.
Keeps(q) == Relies(q)' => Relies(q) /\ (q \in Servers => tries'[q] = tries[q])

\* While mounts only come, and what is dead stays dead, a process that keeps to
\* what it saw is right.
LEMMA Stays ==
    ASSUME MountTypeOK, Seen, Grows, NEW q \in Servers \cup Helpers, Keeps(q)
    PROVE  /\ q \in Servers => OwnThere(q)'
           /\ q \in Helpers => DeadThere(q)'
<1>1. ASSUME q \in Servers, Relies(q)' PROVE Mounted(Conn(q))'
  <2>1. Relies(q) /\ tries'[q] = tries[q]
    BY <1>1 DEF Keeps
  <2>2. Mounted(Conn(q))
    BY <1>1, <2>1 DEF Seen, OwnThere
  <2>3. Conn(q)' = Conn(q)
    BY <2>1 DEF Conn
  <2>4. \A c : Mounted(c) => Mounted(c)'
    BY Grown
  <2> QED BY <2>2, <2>3, <2>4 DEF Mounted
<1>2. ASSUME q \in Helpers, Relies(q)'
      PROVE  mounts' # <<>> /\ (Len(mounts') = 1 => ~Live(mounts[1])')
  <2>1. Relies(q)
    BY <1>2 DEF Keeps
  <2>2. mounts # <<>> /\ (Len(mounts) = 1 => ~Live(mounts[1]))
    BY <1>2, <2>1 DEF Seen, DeadThere
  <2>3. ASSUME Len(mounts') = 1 PROVE ~Live(mounts[1])'
    <3>1. mounts' = mounts /\ NoneRevived
      BY <2>2, <2>3, Grown
    <3>2. mounts[1] \in Servers \X Nat
      <4>1. mounts \in Seq(Servers \X Nat) /\ Len(mounts) = 1
        BY <2>3, <3>1 DEF MountTypeOK
      <4> QED BY <4>1
    <3>3. Live(mounts[1])' => Live(mounts[1])
      BY <3>1, <3>2, StaysDead
    <3> QED BY <2>2, <2>3, <3>1, <3>3
  <2> QED BY <2>2, <2>3, Grown
<1> QED BY <1>1, <1>2 DEF OwnThere, DeadThere

\* What one process relies on after its step, and the others as before.
LEMMA SeenBy ==
    ASSUME MountTypeOK, Seen, Grows, NEW p,
           \A q \in Procs \ {p} : Keeps(q),
           p \in Servers => OwnThere(p)', p \in Helpers => DeadThere(p)'
    PROVE  Seen'
<1>1. \A q \in Servers \cup Helpers : q \in Procs
  BY DEF Procs
<1>2. ASSUME NEW q \in Servers PROVE OwnThere(q)'
  BY <1>1, Stays
<1>3. ASSUME NEW q \in Helpers PROVE DeadThere(q)'
  BY <1>1, Stays
<1> QED BY <1>2, <1>3 DEF Seen

\* A step of a process that does not begin to go by what it saw.
LEMMA Walks ==
    ASSUME MountTypeOK, Seen, NEW p \in Procs, NEW place \in Places, To(p, place),
           p = Person \/ (Relies(p)' => Relies(p)),
           mounts' = mounts, tries' = tries, NoneRevived,
           \A q \in Procs : q # p => raced'[q] = raced[q]
    PROVE  Seen'
<1>1. \A q \in Procs : q # p => at'[q] = at[q]
  BY Turns
<1>2. \A q \in Procs \ {p} : Keeps(q)
  BY <1>1 DEF Keeps, Relies
<1>3. Grows
  BY DEF Grows
<1>4. ASSUME p # Person PROVE (p \in Servers => OwnThere(p)') /\ (p \in Helpers => DeadThere(p)')
  <2>1. Keeps(p)
    BY <1>4 DEF Keeps
  <2> QED BY <1>3, <2>1, Stays
<1>5. p = Person => p \notin Servers /\ p \notin Helpers
  BY Processes
<1> QED BY <1>2, <1>3, <1>4, <1>5, SeenBy

\* A step that closes descriptors at most.
LEMMA Closes ==
    ASSUME holds' \subseteq holds, tries' = tries
    PROVE  NoneRevived
BY DEF NoneRevived

\* A step to a place where it relies on nothing, or that relies on what the
\* process relied on before.
LEMMA Turned ==
    ASSUME MountTypeOK, Seen, NEW p \in Procs, NEW place \in Places, To(p, place),
           \/ p = Person
           \/ place \notin Unmounting \cup {"add"}
           \/ place \in Unmounting /\ at[p] \in Unmounting,
           mounts' = mounts, tries' = tries, holds' \subseteq holds, raced' = raced
    PROVE  Seen'
<1>1. at'[p] = place
  BY Turns
<1>2. p = Person \/ (Relies(p)' => Relies(p))
  BY <1>1 DEF Relies
<1> QED BY <1>2, Closes, Walks

\* A server that asks its helper had no descriptor.
LEMMA Asks ==
    ASSUME MountTypeOK, Holding, Seen, NEW s \in Servers, AskHelper(s),
           at[s] \in {"stat", "mount"}, holds' = holds, mounts' = mounts, raced' = raced
    PROVE  Seen'
<1> USE Processes
<1>1. /\ at'[s] = "wait" /\ at'[Helper(s)] = "check"
      /\ \A q \in Procs : q # s /\ q # Helper(s) => at'[q] = at[q]
      /\ \A t \in Servers : t # s => tries'[t] = tries[t]
  BY Helped
<1>2. \A q \in Procs \ {s} : Keeps(q)
  BY <1>1 DEF Keeps, Relies, Unmounting
<1>3. ~Relies(s)'
  BY <1>1 DEF Relies, Unmounting
<1>4. {s, Helper(s)} \cap holds = {}
  BY DEF Holding
<1>5. Grows
  BY <1>1, <1>4 DEF Grows, NoneRevived
<1> QED BY <1>2, <1>3, <1>5, SeenBy DEF OwnThere

\* After an unmount all others that have looked may be wrong.
LEMMA Alike ==
    ASSUME MountTypeOK, Seen, NEW p \in Procs, Gone(p), at'[p] \notin Unmounting \cup {"add"}
    PROVE  Seen'
<1>1. \A q \in Procs : ~Relies(q)'
  BY DEF Gone, Relies
<1> QED BY <1>1 DEF Seen, OwnThere, DeadThere, Procs

\* What fuse_kern_unmount and should_auto_unmount saw of the mount point stays
\* true until they unmount, or somebody else unmounts.
LEMMA SeenStep ==
    ASSUME MountTypeOK, MountTypeOK', Holding, Seen, MountNext
    PROVE  Seen'
<1> USE Processes, PlaceNames
<1> USE DEF machine, table, procs, history, mountVars, Unmounting
<1>1. ASSUME NEW s \in Servers, Start(s) PROVE Seen'
  BY <1>1, Turned DEF Start
<1>2. ASSUME NEW s \in Servers, Stop(s) PROVE Seen'
  BY <1>2, Turned DEF Stop
<1>3. ASSUME NEW s \in Servers, Kill(s) PROVE Seen'
  BY <1>3, Turned DEF Kill
<1>4. ASSUME NEW s \in Servers, Stat(s) PROVE Seen'
  <2>1. CASE AskHelper(s)
    BY <1>4, <2>1, Asks DEF Stat
  <2>2. CASE ~AskHelper(s)
    BY <1>4, <2>2, Turned DEF Stat
  <2> QED BY <2>1, <2>2
<1>5. ASSUME NEW s \in Servers, MountSys(s) PROVE Seen'
  <2>1. CASE AskHelper(s) /\ UNCHANGED <<mounts, holds, raced>>
    BY <1>5, <2>1, Asks DEF MountSys
  <2>2. CASE To(s, "off") /\ UNCHANGED <<mounts, holds, tries, raced>>
    BY <1>5, <2>2, Turned DEF MountSys
  <2>3. CASE /\ Push(Conn(s)) /\ holds' = holds \cup {s} /\ Looked(s)
             /\ To(s, "add") /\ UNCHANGED tries
    <3>1. Conn(s) \in Servers \X Nat
      BY Connections
    <3>2. \A q \in Procs \ {s} : Keeps(q)
      <4>1. \A q \in Procs : q # s => at'[q] = at[q]
        BY <2>3, Turns
      <4>2. \A q \in Procs : q # s => raced'[q] = raced[q]
        BY <2>3 DEF Looked, MountTypeOK
      <4> QED BY <2>3, <4>1, <4>2 DEF Keeps, Relies
    <3>3. Grows
      BY <2>3, <3>1 DEF Grows
    <3>4. Mounted(Conn(s))'
      <4>1. Conn(s)' = Conn(s)
        BY <2>3 DEF Conn
      <4>2. mounts \in Seq(Servers \X Nat) /\ mounts' = Append(mounts, Conn(s))
        BY <2>3 DEF Push, MountTypeOK
      <4>3. mounts'[Len(mounts) + 1] = Conn(s) /\ Len(mounts) + 1 \in DOMAIN mounts'
        BY <3>1, <4>2, AppendProperties
      <4> QED BY <4>1, <4>3 DEF Mounted
    <3> QED BY <3>2, <3>3, <3>4, SeenBy DEF OwnThere
  <2> QED BY <1>5, <2>1, <2>2, <2>3 DEF MountSys
<1>6. ASSUME NEW s \in Servers, AddEntry(s) PROVE Seen'
  <2>1. CASE UNCHANGED <<mounts, raced>>
    BY <1>6, <2>1, Turned DEF AddEntry
  <2>2. CASE To(s, "off") /\ Gone(s)
    BY <1>6, <2>2, Turns, Alike
  <2> QED BY <1>6, <2>1, <2>2 DEF AddEntry
<1>7. ASSUME NEW s \in Servers, Receive(s) PROVE Seen'
  <2>1. CASE s \in holds \/ tries[s] # 1
    BY <1>7, <2>1, Turned DEF Receive
  <2>2. CASE s \notin holds /\ tries[s] = 1
    <3>1. /\ at[Helper(s)] \in {"none", "watch"} /\ at[s] = "wait"
          /\ mounts' = mounts /\ holds' = holds /\ raced' = raced
          /\ tries' = [tries EXCEPT ![s] = 2]
          /\ To(Helper(s), "check")
      BY <1>7, <2>2 DEF Receive, To
    <3>2. at'[Helper(s)] = "check" /\ \A q \in Procs : q # Helper(s) => at'[q] = at[q]
      BY <3>1, Turns
    <3>3. \A t \in Servers : t # s => tries'[t] = tries[t]
      BY <3>1 DEF MountTypeOK
    <3>4. {s, Helper(s)} \cap holds = {}
      BY <2>2, <3>1 DEF Holding
    <3>5. Grows
      BY <3>1, <3>3, <3>4 DEF Grows, NoneRevived
    <3>6. ~Relies(s)' /\ ~Relies(Helper(s))'
      BY <3>1, <3>2 DEF Relies
    <3>7. \A q \in Procs \ {Helper(s)} : Keeps(q)
      BY <3>1, <3>2, <3>3, <3>6 DEF Keeps, Relies
    <3> QED BY <3>5, <3>6, <3>7, SeenBy DEF DeadThere
  <2> QED BY <2>1, <2>2
<1>8. ASSUME NEW s \in Servers, Poll(s) PROVE Seen'
  <2>1. CASE To(s, "off") /\ UNCHANGED raced
    BY <1>8, <2>1, Turned DEF Poll
  <2>2. CASE Mounted(Conn(s)) /\ To(s, IF root THEN "detach" ELSE "lock") /\ Looked(s)
    <3>1. mounts' = mounts /\ tries' = tries /\ holds' \subseteq holds
      BY <1>8 DEF Poll
    <3>2. \A q \in Procs : q # s => at'[q] = at[q]
      BY <2>2, Turns
    <3>3. \A q \in Procs : q # s => raced'[q] = raced[q]
      BY <2>2 DEF Looked, MountTypeOK
    <3>4. \A q \in Procs \ {s} : Keeps(q)
      BY <3>1, <3>2, <3>3 DEF Keeps, Relies
    <3>5. OwnThere(s)'
      BY <2>2, <3>1 DEF OwnThere, Mounted, Conn
    <3>6. Grows
      BY <3>1, Closes DEF Grows
    <3> QED BY <3>4, <3>5, <3>6, SeenBy
  <2> QED BY <1>8, <2>1, <2>2 DEF Poll
<1>9. ASSUME NEW s \in Servers, HelperChecks(s) PROVE Seen'
  BY <1>9, Turned DEF HelperChecks
<1>10. ASSUME NEW s \in Servers, HelperMounts(s) PROVE Seen'
  <2>1. CASE To(Helper(s), "none") /\ UNCHANGED <<mounts, holds>>
    BY <1>10, <2>1, Turned DEF HelperMounts
  <2>2. CASE Push(Conn(s)) /\ To(Helper(s), "add")
    <3>1. tries' = tries /\ raced' = raced
      BY <1>10 DEF HelperMounts
    <3>2. at'[Helper(s)] = "add" /\ \A q \in Procs : q # Helper(s) => at'[q] = at[q]
      BY <2>2, Turns
    <3>3. \A q \in Procs \ {Helper(s)} : Keeps(q)
      BY <3>1, <3>2 DEF Keeps, Relies
    <3>4. ~Relies(Helper(s))'
      BY <3>2 DEF Relies
    <3>5. Grows
      BY <2>2, Connections DEF Grows
    <3> QED BY <3>3, <3>4, <3>5, SeenBy DEF DeadThere
  <2> QED BY <1>10, <2>1, <2>2 DEF HelperMounts
<1>11. ASSUME NEW s \in Servers, HelperAdds(s) PROVE Seen'
  BY <1>11, Turned DEF HelperAdds, GivesUp
<1>12. ASSUME NEW s \in Servers, HelperSends(s) PROVE Seen'
  <2>1. /\ at[Helper(s)] = "send" /\ Helper(s) \in holds
        /\ mounts' = mounts /\ tries' = tries /\ raced' = raced
        /\ holds' \subseteq holds \cup {s}
    BY <1>12 DEF HelperSends, Holding
  <2>2. NoneRevived
    BY <2>1 DEF NoneRevived
  <2>3. PICK place \in {"watch", "none"} : To(Helper(s), place)
    BY <1>12 DEF HelperSends, GivesUp
  <2>4. ~Relies(Helper(s))'
    BY <2>3, Turns DEF Relies
  <2> QED BY <2>1, <2>2, <2>3, <2>4, Walks
<1>13. ASSUME NEW s \in Servers, Awake(s) PROVE Seen'
  BY <1>13, Turned DEF Awake
<1>14. ASSUME NEW s \in Servers, StillMounted(s) PROVE Seen'
  BY <1>14, Turned DEF StillMounted, GivesUp
<1>15. ASSUME NEW s \in Servers, NotConnected(s) PROVE Seen'
  <2>1. CASE To(Helper(s), "none") /\ UNCHANGED raced
    BY <1>15, <2>1, Turned DEF NotConnected
  <2>2. CASE DeadTop /\ To(Helper(s), "lock") /\ Looked(Helper(s))
    <3>1. mounts' = mounts /\ tries' = tries /\ holds' = holds
      BY <1>15 DEF NotConnected
    <3>2. \A q \in Procs : q # Helper(s) => at'[q] = at[q]
      BY <2>2, Turns
    <3>3. \A q \in Procs : q # Helper(s) => raced'[q] = raced[q]
      BY <2>2 DEF Looked, MountTypeOK
    <3>4. \A q \in Procs \ {Helper(s)} : Keeps(q)
      BY <3>1, <3>2, <3>3 DEF Keeps, Relies
    <3>5. mounts # <<>> /\ (Len(mounts) = 1 => ~Live(mounts[1]))
      BY <2>2 DEF DeadTop, Uppermost
    <3>6. DeadThere(Helper(s))'
      BY <3>1, <3>5 DEF DeadThere, Live, Conn
    <3>7. Grows
      BY <3>1, Closes DEF Grows
    <3> QED BY <3>4, <3>6, <3>7, SeenBy
  <2> QED BY <1>15, <2>1, <2>2 DEF NotConnected, GivesUp
<1>16. ASSUME NEW p \in Procs PROVE Ended(p) \in {"none", "off"} /\ Ended(p) \in Places
  BY DEF Ended
<1>17. ASSUME NEW p \in Procs, UnmountStep(p) PROVE Seen'
  <2>1. CASE Lock(p)
    BY <2>1, Turned DEF Lock
  <2>2. CASE May(p)
    BY <1>16, <2>2, Turned DEF May, End
  <2>3. CASE Detach(p)
    <3>1. CASE End(p) /\ UNCHANGED <<mounts, raced>>
      BY <1>16, <2>3, <3>1, Turned DEF Detach, End
    <3>2. CASE Gone(p)
      <4>1. at'[p] \notin Unmounting \cup {"add"}
        BY <1>16, <2>3, Turns DEF Detach, End
      <4> QED BY <3>2, <4>1, Alike
    <3> QED BY <2>3, <3>1, <3>2 DEF Detach
  <2>4. CASE RemoveEntry(p)
    BY <1>16, <2>4, Turned DEF RemoveEntry, End
  <2> QED BY <1>17, <2>1, <2>2, <2>3, <2>4 DEF UnmountStep
<1>18. CASE PersonUnmounts
  BY <1>18, Turned DEF PersonUnmounts
<1> QED BY <1>1, <1>2, <1>3, <1>4, <1>5, <1>6, <1>7, <1>8, <1>9, <1>10, <1>11, <1>12,
           <1>13, <1>14, <1>15, <1>17, <1>18
        DEF MountNext, ServerStep, HelperStep, StopGone

-----------------------------------------------------------------------------
(* The theorems.                                                           *)

\* A server that was killed before it had its descriptor stays so.
LEMMA Orphans ==
    ASSUME MountTypeOK, MountNext, orphaned
    PROVE  orphaned'
BY Zenon DEF MountNext, ServerStep, HelperStep, UnmountStep, Start, Stop, Kill, Stat,
     MountSys, AddEntry,
     Receive, StopGone, Poll, HelperChecks, HelperMounts, HelperAdds, HelperSends,
     Awake, StillMounted, NotConnected, history, Lock, May, Detach, RemoveEntry, PersonUnmounts

\* The invariant holds when no program has been started.
LEMMA InitInv == MountInit => MountInv
<1> SUFFICES ASSUME MountInit PROVE MountInv
  OBVIOUS
<1> USE Processes, PlaceNames
<1>1. MountTypeOK
  <2>1. at \in [Procs -> Places]
    BY DEF MountInit
  <2>2. mounts \in Seq(Servers \X Nat)
    BY EmptySeq DEF MountInit
  <2>3. raced \in [Procs -> BOOLEAN] /\ tries \in [Servers -> Nat]
    BY DEF MountInit
  <2> QED BY <2>1, <2>2, <2>3 DEF MountInit, MountTypeOK, NoOne
<1>2. ASSUME NEW s \in Servers PROVE at[s] = "new" /\ at[Helper(s)] = "none"
  BY MountAssumption DEF MountInit
<1>3. Holding
  <2>1. holds = {}
    BY DEF MountInit
  <2> SUFFICES ASSUME NEW s \in Servers
               PROVE  /\ s \in holds => at[s] \in {"add", "wait", "serve", "poll"}
                      /\ Helper(s) \in holds <=> at[Helper(s)] \in {"add", "send"}
                      /\ at[s] \in {"new", "stat", "mount"} => at[Helper(s)] = "none"
    BY Zenon DEF Holding
  <2>2. at[Helper(s)] = "none"
    BY <1>2
  <2> QED BY <2>1, <2>2
<1>4. Alone
  BY <1>2 DEF Alone, Starting
<1>5. Clear
  BY DEF MountInit, Clear, OneAtMost
<1>6. Seen
  <2>1. ASSUME NEW s \in Servers PROVE ~Relies(s)
    <3>1. at[s] = "new"
      BY <1>2
    <3> QED BY <3>1 DEF Relies, Unmounting
  <2>2. ASSUME NEW s \in Servers PROVE ~Relies(Helper(s))
    <3>1. at[Helper(s)] = "none"
      BY <1>2
    <3> QED BY <3>1 DEF Relies, Unmounting
  <2> QED BY <2>1, <2>2 DEF Seen, OwnThere, DeadThere
<1> QED BY <1>1, <1>3, <1>4, <1>5, <1>6 DEF MountInv

\* The invariant is inductive.
LEMMA StepInv ==
    ASSUME MountInv, [MountNext]_mountVars
    PROVE  MountInv'
<1>1. CASE MountNext
  <2>1. MountTypeOK' /\ Holding'
    BY <1>1, TypeStep, HoldingStep DEF MountInv
  <2>2. Seen'
    BY <1>1, <2>1, SeenStep DEF MountInv
  <2>3. ASSUME ~orphaned' PROVE Alone' /\ Clear'
    <3>1. ~orphaned
      BY <1>1, <2>3, Orphans DEF MountInv
    <3> QED BY <1>1, <2>1, <2>3, <3>1, AloneStep, ClearStep DEF MountInv
  <2> QED BY <2>1, <2>2, <2>3 DEF MountInv
<1>2. CASE UNCHANGED mountVars
  <2> USE <1>2 DEF mountVars, machine, table, procs, history
  <2>1. MountTypeOK' = MountTypeOK
    BY DEF MountTypeOK
  <2>2. Holding' = Holding
    BY DEF Holding
  <2>3. Alone' = Alone
    BY DEF Alone
  <2>4. Clear' = Clear
    BY DEF Clear, OneAtMost, About, Entering, Idle, Live, Conn
  <2>5. Seen' = Seen
    BY DEF Seen, OwnThere, DeadThere, Relies, Mounted, Live, Conn
  <2>6. orphaned' = orphaned
    OBVIOUS
  <2> QED BY <2>1, <2>2, <2>3, <2>4, <2>5, <2>6 DEF MountInv
<1> QED BY <1>1, <1>2

\* Only a failed entry of a server, and umount2, take a mount away.
LEMMA Takers ==
    ASSUME MountTypeOK, MountNext, Len(mounts') < Len(mounts)
    PROVE  \/ \E s \in Servers : AddEntry(s)
           \/ \E p \in Procs : Detach(p)
<1> USE DEF machine, table, procs, history
<1>1. ASSUME NEW s \in Servers, NEW c \in Servers \X Nat, Push(c) PROVE FALSE
  BY <1>1 DEF Push, MountTypeOK
<1>2. ASSUME NEW s \in Servers, MountSys(s) \/ HelperMounts(s) PROVE FALSE
  BY <1>1, <1>2, Connections DEF MountSys, HelperMounts
<1>3. ASSUME NEW s \in Servers,
             \/ Start(s) \/ Stop(s) \/ Kill(s) \/ Stat(s) \/ Receive(s) \/ Poll(s)
             \/ HelperChecks(s) \/ HelperAdds(s) \/ HelperSends(s)
             \/ Awake(s) \/ StillMounted(s) \/ NotConnected(s)
      PROVE  mounts' = mounts
  BY <1>3, Zenon DEF Start, Stop, Kill, Stat, Receive, Poll, HelperChecks, HelperAdds,
              HelperSends, Awake, StillMounted, NotConnected
<1>4. ASSUME NEW p \in Procs, Lock(p) \/ May(p) \/ RemoveEntry(p) PROVE mounts' = mounts
  BY <1>4 DEF Lock, May, RemoveEntry
<1>5. PersonUnmounts => mounts' = mounts
  BY DEF PersonUnmounts
<1>6. mounts' = mounts => FALSE
  BY DEF MountTypeOK
<1> QED BY <1>2, <1>3, <1>4, <1>5, <1>6 DEF MountNext, ServerStep, HelperStep, UnmountStep,
     StopGone

\* A descriptor keeps a connection alive, with the server or on its way to it.
LEMMA ServedLives ==
    ASSUME NEW c, Served(c)
    PROVE  Live(c)
BY DEF Served, Live

\* What a process took away was its own or one that nobody served; or else there
\* were two mounts.
LEMMA Taken ==
    ASSUME MountInv, MountNext, NEW p \in Servers \cup Helpers, TakesAway(p)
    PROVE  \/ p \in Servers /\ Uppermost = Conn(p)
           \/ ~Served(Uppermost)
           \/ raced[p]
           \/ orphaned /\ Len(mounts) > 1
<1>1. p \in Procs
  BY DEF Procs
<1>2. Len(mounts') < Len(mounts) /\ at'[p] # at[p]
  BY DEF TakesAway
<1>3. MountTypeOK /\ Seen /\ (orphaned \/ Clear)
  BY Zenon DEF MountInv
<1>4. mounts \in Seq(Servers \X Nat) /\ mounts # <<>>
  BY <1>2, <1>3 DEF MountTypeOK
<1>5. Len(mounts) = 1 \/ Len(mounts) > 1
  <2>1. Len(mounts) \in Nat /\ Len(mounts) # 0
    BY <1>4
  <2> DEFINE n == Len(mounts)
  <2>2. n \in Nat /\ n # 0
    BY <2>1
  <2> HIDE DEF n
  <2>3. n = 1 \/ n > 1
    BY <2>2
  <2> QED BY <2>3, Zenon DEF n
<1>6. CASE Len(mounts) > 1
  <2> DEFINE n == Len(mounts)
  <2>1. n \in Nat /\ n > 1
    BY <1>4, <1>6, LenProperties
  <2> HIDE DEF n
  <2>2. n # 1
    BY <2>1
  <2>3. Len(mounts) # 1
    BY <2>2 DEF n
  <2>4. ~Clear
    BY <1>4, <2>3, Zenon DEF Clear, OneAtMost
  <2> QED BY <1>3, <1>6, <2>4, Zenon
<1>7. CASE Len(mounts) = 1 /\ ~raced[p]
  <2>1. Uppermost = mounts[1] /\ DOMAIN mounts = {1}
    BY <1>4, <1>7 DEF Uppermost
  <2>2. ASSUME NEW s \in Servers, AddEntry(s) PROVE Relies(p)
    <3>1. at[s] = "add" /\ (To(s, "serve") \/ To(s, "off"))
      BY <2>2 DEF AddEntry
    <3>2. p = s
      BY <1>1, <1>2, <1>3, <3>1, Processes, Turns, PlaceNames
    <3> QED BY <1>7, <3>1, <3>2 DEF Relies
  <2>3. ASSUME NEW q \in Procs, Detach(q) PROVE Relies(p)
    <3>1. Ended(q) \in Places
      BY PlaceNames DEF Ended
    <3>2. at[q] = "detach" /\ (To(q, "remove") \/ To(q, Ended(q)))
      BY <2>3 DEF Detach, End
    <3>3. p = q
      BY <1>1, <1>2, <1>3, <3>1, <3>2, Turns, PlaceNames
    <3> QED BY <1>7, <3>2, <3>3 DEF Relies, Unmounting
  <2>4. Relies(p)
    <3>1. (\E s \in Servers : AddEntry(s)) \/ (\E q \in Procs : Detach(q))
      BY <1>2, <1>3, Takers
    <3> QED BY <2>2, <2>3, <3>1
  <2>5. CASE p \in Servers
    BY <1>3, <2>1, <2>4, <2>5 DEF Seen, OwnThere, Mounted
  <2>6. CASE p \in Helpers
    BY <1>3, <1>7, <2>1, <2>4, <2>6, ServedLives DEF Seen, DeadThere
  <2> QED BY <2>5, <2>6
<1> QED BY <1>5, <1>6, <1>7, Zenon

\* A server, its helper and the person that unmounts are always at a place of
\* their programs, and the mounts, the entries of /etc/mtab and the descriptors
\* that mount.c and fusermount.c pass around are of their types.
THEOREM MountTypes == MountSpec => []MountTypeOK
<1>1. MountInv => MountTypeOK
  BY DEF MountInv
<1> QED BY <1>1, InitInv, StepInv, PTL DEF MountSpec

\* For any number of servers, with auto_unmount or without, and whoever unmounts
\* by hand: fuse_kern_unmount and the helper's unmount_fuse_locked take away no
\* mount but the server's own or a dead one, unless somebody else unmounted since
\* they looked.  When a server was killed before it had its descriptor, they may
\* take the live one of two mounts; the only mount they still do not.
THEOREM LiveMountsKept == MountSpec => LiveKept
<1>1. MountInv /\ [MountNext]_mountVars =>
        [\A p \in Servers \cup Helpers : TakesAway(p) =>
            \/ p \in Servers /\ Uppermost = Conn(p)
            \/ ~Served(Uppermost)
            \/ raced[p]
            \/ orphaned /\ Len(mounts) > 1]_mountVars
  BY Taken
<1> QED BY <1>1, InitInv, StepInv, PTL DEF MountSpec, LiveKept

-----------------------------------------------------------------------------
(* /etc/mtab.                                                              *)

Adding == {p \in Procs : at[p] = "add"}
Removing == {p \in Procs : at[p] = "remove"}

\* An entry is missing for each process that still has to add one, and there is
\* one too many for each that still has to remove one; more are missing only if
\* one was never made, and more are too many only if one was left.
InStep ==
    mtabFile /\ ~early =>
        /\ Cardinality(Adding) <= Len(mounts)
        /\ ~lost => mtab + Cardinality(Adding) >= Len(mounts) + Cardinality(Removing)
        /\ ~stale => mtab + Cardinality(Adding) <= Len(mounts) + Cardinality(Removing)
Counted == IsFiniteSet(Adding) /\ IsFiniteSet(Removing) /\ InStep

\* As long as the lock can be taken, users take turns, and the entry that
\* may_unmount found is there.
TakesTurns ==
    mtabFile /\ ~root /\ ~unlocked =>
        \A p \in Procs :
            /\ at[p] \in {"may", "detach", "remove"} => mtablock = p
            /\ at[p] \in {"detach", "remove"} => mtab > 0

MtabInv == MountTypeOK /\ Holding /\ Counted /\ TakesTurns

\* A sequence without its last element is shorter by one.
LEMMA FrontLength ==
    ASSUME NEW S, NEW s \in Seq(S), s # <<>>
    PROVE  Len(SubSeq(s, 1, Len(s) - 1)) = Len(s) - 1
<1> DEFINE n == Len(s) - 1
<1>1. n \in Int /\ n >= 0
  OBVIOUS
<1>2. \A i \in 1 .. n : s[i] \in S
  OBVIOUS
<1> HIDE DEF n
<1>3. Len(SubSeq(s, 1, n)) = IF 1 <= n THEN n - 1 + 1 ELSE 0
  BY <1>1, <1>2, SubSeqProperties
<1>4. Len(SubSeq(s, 1, n)) = n
  BY <1>1, <1>3
<1> QED BY <1>4 DEF n

\* An unmount leaves one mount less.
LEMMA Shorter ==
    ASSUME MountTypeOK, mounts # <<>>
    PROVE  Len(SubSeq(mounts, 1, Len(mounts) - 1)) = Len(mounts) - 1
<1>1. mounts \in Seq(Servers \X Nat)
  BY DEF MountTypeOK
<1> QED BY <1>1, FrontLength

\* A step of one process adds it to those that add or remove, or takes it away.
LEMMA Members ==
    ASSUME MountTypeOK, NEW p \in Procs, NEW place \in Places, To(p, place)
    PROVE  /\ Adding' = IF place = "add" THEN Adding \cup {p} ELSE Adding \ {p}
           /\ Removing' = IF place = "remove" THEN Removing \cup {p} ELSE Removing \ {p}
BY Turns DEF Adding, Removing

\* The numbers of both are numbers, and change with each member.
LEMMA Numbers ==
    ASSUME Counted, MountTypeOK, NEW p \in Procs
    PROVE  /\ Cardinality(Adding) \in Nat /\ Cardinality(Removing) \in Nat
           /\ IsFiniteSet(Adding \cup {p}) /\ IsFiniteSet(Adding \ {p})
           /\ IsFiniteSet(Removing \cup {p}) /\ IsFiniteSet(Removing \ {p})
           /\ at[p] = "add" =>
                 /\ Cardinality(Adding) # 0
                 /\ Cardinality(Adding \ {p}) = Cardinality(Adding) - 1
           /\ at[p] # "add" =>
                 /\ Cardinality(Adding \ {p}) = Cardinality(Adding)
                 /\ Cardinality(Adding \cup {p}) = Cardinality(Adding) + 1
           /\ at[p] = "remove" =>
                 /\ Cardinality(Removing) # 0
                 /\ Cardinality(Removing \ {p}) = Cardinality(Removing) - 1
           /\ at[p] # "remove" =>
                 /\ Cardinality(Removing \ {p}) = Cardinality(Removing)
                 /\ Cardinality(Removing \cup {p}) = Cardinality(Removing) + 1
<1>1. IsFiniteSet(Adding) /\ IsFiniteSet(Removing)
  BY DEF Counted
<1>2. at[p] = "add" <=> p \in Adding
  BY DEF Adding
<1>3. at[p] = "remove" <=> p \in Removing
  BY DEF Removing
<1>4. Cardinality(Adding) \in Nat /\ Cardinality(Removing) \in Nat
  BY <1>1, FS_CardinalityType
<1>5. /\ IsFiniteSet(Adding \cup {p})
      /\ Cardinality(Adding \cup {p}) = IF p \in Adding THEN Cardinality(Adding) ELSE Cardinality(Adding) + 1
  BY <1>1, FS_AddElement
<1>6. /\ IsFiniteSet(Adding \ {p})
      /\ Cardinality(Adding \ {p}) = IF p \in Adding THEN Cardinality(Adding) - 1 ELSE Cardinality(Adding)
  BY <1>1, FS_RemoveElement
<1>7. /\ IsFiniteSet(Removing \cup {p})
      /\ Cardinality(Removing \cup {p}) = IF p \in Removing THEN Cardinality(Removing) ELSE Cardinality(Removing) + 1
  BY <1>1, FS_AddElement
<1>8. /\ IsFiniteSet(Removing \ {p})
      /\ Cardinality(Removing \ {p}) = IF p \in Removing THEN Cardinality(Removing) - 1 ELSE Cardinality(Removing)
  BY <1>1, FS_RemoveElement
<1>9. p \in Adding => Cardinality(Adding) # 0
  BY <1>1, FS_EmptySet
<1>10. p \in Removing => Cardinality(Removing) # 0
  BY <1>1, FS_EmptySet
<1> QED BY <1>2, <1>3, <1>4, <1>5, <1>6, <1>7, <1>8, <1>9, <1>10

\* A process that neither adds nor removes does not count.
LEMMA Uncounted ==
    ASSUME MountTypeOK, Counted, NEW p \in Procs, NEW place \in Places, To(p, place),
           at[p] \notin {"add", "remove"}, place \notin {"add", "remove"},
           mounts' = mounts, mtab' = mtab, mtabFile' = mtabFile,
           ~lost' => ~lost, ~stale' => ~stale, ~early' => ~early
    PROVE  Counted'
<1>1. Adding' = Adding /\ Removing' = Removing
  BY Turns DEF Adding, Removing
<1> QED BY <1>1 DEF Counted, InStep

\* A mount that still needs an entry.
LEMMA CountMount ==
    ASSUME MountTypeOK, Counted, NEW p \in Procs, NEW c \in Servers \X Nat, Push(c),
           To(p, "add"), at[p] \notin {"add", "remove"},
           mtab' = mtab, mtabFile' = mtabFile,
           ~lost' => ~lost, ~stale' => ~stale, ~early' => ~early
    PROVE  Counted'
<1>1. Len(mounts') = Len(mounts) + 1 /\ Len(mounts) \in Nat
  BY DEF Push, MountTypeOK
<1>2. Adding' = Adding \cup {p} /\ Removing' = Removing \ {p}
  BY Members, PlaceNames
<1>3. /\ Cardinality(Adding') = Cardinality(Adding) + 1
      /\ Cardinality(Removing') = Cardinality(Removing)
      /\ IsFiniteSet(Adding') /\ IsFiniteSet(Removing')
      /\ Cardinality(Adding) \in Nat /\ Cardinality(Removing) \in Nat
  BY <1>2, Numbers
<1>4. mtab \in Nat
  BY DEF MountTypeOK
<1>5. InStep
  BY DEF Counted
<1>6. InStep'
  BY <1>1, <1>3, <1>4, <1>5 DEF InStep
<1> QED BY <1>3, <1>6 DEF Counted

\* A process that was to add an entry and does not any longer.
LEMMA Added ==
    ASSUME MountTypeOK, Counted, NEW p \in Procs, at[p] = "add",
           NEW place \in Places, To(p, place), place \notin {"add", "remove"}
    PROVE  /\ Cardinality(Adding') = Cardinality(Adding) - 1
           /\ Cardinality(Removing') = Cardinality(Removing)
           /\ IsFiniteSet(Adding') /\ IsFiniteSet(Removing')
           /\ Cardinality(Adding) \in Nat \ {0} /\ Cardinality(Removing) \in Nat
<1>1. Adding' = Adding \ {p} /\ Removing' = Removing \ {p}
  BY Members
<1> QED BY <1>1, Numbers

\* An entry that was made.
LEMMA CountEntry ==
    ASSUME MountTypeOK, Counted, NEW p \in Procs, at[p] = "add",
           NEW place \in Places, To(p, place), place \notin {"add", "remove"},
           EntryMade, mounts' = mounts, mtabFile' = mtabFile,
           ~lost' => ~lost, ~stale' => ~stale, ~early' => ~early
    PROVE  Counted'
<1>1. mtab \in Nat /\ Len(mounts) \in Nat
  BY DEF MountTypeOK
<1>2. mtabFile => mtab' = mtab + 1
  BY DEF EntryMade
<1> QED BY <1>1, <1>2, Added DEF Counted, InStep

\* One that was given up.
LEMMA CountLost ==
    ASSUME MountTypeOK, Counted, NEW p \in Procs, at[p] = "add",
           NEW place \in Places, To(p, place), place \notin {"add", "remove"},
           mounts' = mounts, mtab' = mtab, mtabFile' = mtabFile,
           lost', ~stale' => ~stale, ~early' => ~early
    PROVE  Counted'
<1>1. mtab \in Nat /\ Len(mounts) \in Nat
  BY DEF MountTypeOK
<1> QED BY <1>1, Added DEF Counted, InStep

\* A server that asks its helper, and the helper, do not count.
LEMMA CountAsk ==
    ASSUME MountTypeOK, Counted, NEW s \in Servers, AskHelper(s),
           at[s] \notin {"add", "remove"}, at[Helper(s)] = "none",
           UNCHANGED <<mounts, mtab, mtabFile, lost, stale, early>>
    PROVE  Counted'
<1>1. Adding' = Adding /\ Removing' = Removing
  BY Helped, Processes DEF Adding, Removing
<1> QED BY <1>1 DEF Counted, InStep

\* The step of a process after which the numbers still agree.
LEMMA CountedStep ==
    ASSUME MountTypeOK, MountTypeOK', Holding, Counted, MountNext
    PROVE  Counted'
<1> USE Processes, PlaceNames
<1> USE DEF machine, table, procs, history, mountVars
<1>1. ASSUME NEW s \in Servers, Start(s) PROVE Counted'
  BY <1>1, Uncounted DEF Start
<1>2. ASSUME NEW s \in Servers, Stop(s) PROVE Counted'
  BY <1>2, Uncounted DEF Stop
<1>3. ASSUME NEW s \in Servers, Kill(s) PROVE Counted'
  <2>1. /\ To(s, "off") /\ mounts' = mounts /\ mtabFile' = mtabFile
        /\ stale' = stale /\ early' = early
    BY <1>3 DEF Kill
  <2>2. CASE at[s] = "add" /\ EntryMade /\ lost' = lost
    BY <2>1, <2>2, CountEntry
  <2>3. CASE at[s] = "add" /\ lost' = (lost \/ at[s] = "add") /\ mtab' = mtab
    <3>1. lost'
      BY <2>3, Zenon
    <3> QED BY <2>1, <2>3, <3>1, CountLost
  <2>4. CASE at[s] # "add"
    <3>1. mtab' = mtab /\ (~lost' => ~lost) /\ at[s] # "remove"
      BY <1>3, <2>4 DEF Kill, Starting
    <3> QED BY <2>1, <2>4, <3>1, Uncounted
  <2> QED BY <1>3, <2>2, <2>3, <2>4 DEF Kill
<1>4. ASSUME NEW s \in Servers, Stat(s) PROVE Counted'
  <2>1. CASE AskHelper(s)
    BY <1>4, <2>1, CountAsk DEF Stat, Holding
  <2>2. CASE ~AskHelper(s)
    BY <1>4, <2>2, Uncounted DEF Stat
  <2> QED BY <2>1, <2>2
<1>5. ASSUME NEW s \in Servers, MountSys(s) PROVE Counted'
  <2>1. CASE AskHelper(s) /\ UNCHANGED mounts
    BY <1>5, <2>1, CountAsk DEF MountSys, Holding
  <2>2. CASE To(s, "off") /\ UNCHANGED mounts
    BY <1>5, <2>2, Uncounted DEF MountSys
  <2>3. CASE Push(Conn(s)) /\ To(s, "add")
    BY <1>5, <2>3, CountMount, Connections DEF MountSys
  <2> QED BY <1>5, <2>1, <2>2, <2>3 DEF MountSys
<1>6. ASSUME NEW s \in Servers, AddEntry(s) PROVE Counted'
  <2>1. /\ at[s] = "add" /\ mtabFile' = mtabFile /\ lost' = lost /\ stale' = stale
        /\ Len(mounts) \in Nat
    BY <1>6 DEF AddEntry, MountTypeOK
  <2>2. ~early' => ~early
    BY <1>6, Zenon DEF AddEntry
  <2>3. CASE EntryMade /\ To(s, "serve") /\ mounts' = mounts
    BY <2>1, <2>2, <2>3, CountEntry
  <2>4. CASE mtab' = mtab /\ To(s, "off")
    <3>1. /\ Cardinality(Adding') = Cardinality(Adding) - 1
          /\ Cardinality(Removing') = Cardinality(Removing)
          /\ IsFiniteSet(Adding') /\ IsFiniteSet(Removing')
          /\ Cardinality(Adding) \in Nat \ {0} /\ Cardinality(Removing) \in Nat
      BY <2>1, <2>4, Added
    <3>2. mounts = <<>> \/ Len(mounts') = Len(mounts) - 1
      <4>1. mounts = <<>> \/ mounts' = SubSeq(mounts, 1, Len(mounts) - 1)
        BY <1>6, <2>4, Turns, <2>1 DEF AddEntry, Pop
      <4>2. ASSUME mounts # <<>> PROVE Len(SubSeq(mounts, 1, Len(mounts) - 1)) = Len(mounts) - 1
        BY <4>2, Shorter
      <4> QED BY <4>1, <4>2
    <3>3. mtab \in Nat
      BY DEF MountTypeOK
    <3> QED BY <2>1, <2>2, <2>4, <3>1, <3>2, <3>3 DEF Counted, InStep
  <2> QED BY <1>6, <2>3, <2>4 DEF AddEntry
<1>7. ASSUME NEW s \in Servers, Receive(s) PROVE Counted'
  <2>1. CASE s \in holds \/ tries[s] # 1
    BY <1>7, <2>1, Uncounted DEF Receive
  <2>2. CASE s \notin holds /\ tries[s] = 1
    <3>1. To(Helper(s), "check") /\ at[Helper(s)] \in {"none", "watch"}
      BY <1>7, <2>2 DEF Receive, To
    <3> QED BY <1>7, <3>1, Uncounted DEF Receive
  <2> QED BY <2>1, <2>2
<1>8. ASSUME NEW s \in Servers, Poll(s) PROVE Counted'
  BY <1>8, Uncounted DEF Poll
<1>9. ASSUME NEW s \in Servers, HelperChecks(s) PROVE Counted'
  BY <1>9, Uncounted DEF HelperChecks
<1>10. ASSUME NEW s \in Servers, HelperMounts(s) PROVE Counted'
  <2>1. CASE To(Helper(s), "none") /\ UNCHANGED <<mounts, holds>>
    BY <1>10, <2>1, Uncounted DEF HelperMounts
  <2>2. CASE Push(Conn(s)) /\ To(Helper(s), "add")
    BY <1>10, <2>2, CountMount, Connections DEF HelperMounts
  <2> QED BY <1>10, <2>1, <2>2 DEF HelperMounts
<1>11. ASSUME NEW s \in Servers, HelperAdds(s) PROVE Counted'
  <2>1. CASE EntryMade /\ To(Helper(s), "send") /\ UNCHANGED <<holds, lost>>
    BY <1>11, <2>1, CountEntry DEF HelperAdds
  <2>2. CASE To(Helper(s), "none") /\ lost' /\ mtab' = mtab
    BY <1>11, <2>2, CountLost DEF HelperAdds
  <2> QED BY <1>11, <2>1, <2>2 DEF HelperAdds, GivesUp
<1>12. ASSUME NEW s \in Servers, HelperSends(s) PROVE Counted'
  BY <1>12, Uncounted DEF HelperSends, GivesUp
<1>13. ASSUME NEW s \in Servers, Awake(s) PROVE Counted'
  BY <1>13, Uncounted DEF Awake
<1>14. ASSUME NEW s \in Servers, StillMounted(s) PROVE Counted'
  BY <1>14, Uncounted DEF StillMounted, GivesUp
<1>15. ASSUME NEW s \in Servers, NotConnected(s) PROVE Counted'
  BY <1>15, Uncounted DEF NotConnected, GivesUp
<1>16. ASSUME NEW p \in Procs PROVE Ended(p) \in {"none", "off"} /\ Ended(p) \in Places
  BY DEF Ended
<1>17. ASSUME NEW p \in Procs, UnmountStep(p) PROVE Counted'
  <2>1. CASE Lock(p)
    BY <2>1, Uncounted DEF Lock
  <2>2. CASE May(p)
    BY <1>16, <2>2, Uncounted DEF May, End
  <2>3. CASE Detach(p)
    <3>1. /\ at[p] = "detach" /\ mtab' = mtab /\ mtabFile' = mtabFile
          /\ lost' = lost /\ stale' = stale
      BY <2>3 DEF Detach
    <3>2. ~early' => ~early
      BY <2>3, Zenon DEF Detach
    <3>3. CASE End(p) /\ mounts' = mounts
      BY <1>16, <3>1, <3>2, <3>3, Uncounted DEF End
    <3>4. CASE mounts # <<>> /\ Pop /\ (IF mtabFile THEN To(p, "remove") /\ UNCHANGED mtablock ELSE End(p))
      <4>1. Len(mounts') = Len(mounts) - 1 /\ Len(mounts) \in Nat
        BY <3>4, Shorter DEF Pop, MountTypeOK
      <4>2. CASE ~mtabFile
        <5>1. To(p, Ended(p))
          BY <3>4, <4>2 DEF End
        <5>2. Adding' = Adding \ {p} /\ Removing' = Removing \ {p}
          BY <1>16, <5>1, Members
        <5>3. IsFiniteSet(Adding') /\ IsFiniteSet(Removing')
          BY <5>2, Numbers
        <5> QED BY <3>1, <4>2, <5>3 DEF Counted, InStep
      <4>3. CASE mtabFile
        <5>1. To(p, "remove")
          BY <3>4, <4>3
        <5>2. /\ Cardinality(Adding') = Cardinality(Adding)
              /\ Cardinality(Removing') = Cardinality(Removing) + 1
              /\ IsFiniteSet(Adding') /\ IsFiniteSet(Removing')
              /\ Cardinality(Adding) \in Nat /\ Cardinality(Removing) \in Nat
          <6>1. Adding' = Adding \ {p} /\ Removing' = Removing \cup {p}
            BY <5>1, Members
          <6> QED BY <3>1, <6>1, Numbers
        <5>3. ASSUME ~early' PROVE Cardinality(Adding) = 0
          <6>1. mounts' # mounts
            BY <4>1
          <6>2. ~ \E q \in Procs : at[q] = "add"
            BY <2>3, <5>3, <6>1, Zenon DEF Detach
          <6>3. Adding = {}
            BY <6>2 DEF Adding
          <6> QED BY <6>3, FS_EmptySet
        <5>4. mtab \in Nat
          BY DEF MountTypeOK
        <5>5. Len(mounts) # 0
          BY <3>4 DEF MountTypeOK
        <5> QED BY <3>1, <3>2, <4>1, <5>2, <5>3, <5>4, <5>5 DEF Counted, InStep
      <4> QED BY <4>2, <4>3
    <3> QED BY <2>3, <3>3, <3>4 DEF Detach
  <2>4. CASE RemoveEntry(p)
    <3>1. /\ at[p] = "remove" /\ To(p, Ended(p)) /\ mounts' = mounts
          /\ mtabFile' = mtabFile /\ lost' = lost /\ early' = early
      BY <2>4 DEF RemoveEntry, End
    <3>2. /\ Cardinality(Adding') = Cardinality(Adding)
          /\ Cardinality(Removing') = Cardinality(Removing) - 1
          /\ IsFiniteSet(Adding') /\ IsFiniteSet(Removing')
          /\ Cardinality(Adding) \in Nat /\ Cardinality(Removing) \in Nat \ {0}
      <4>1. Adding' = Adding \ {p} /\ Removing' = Removing \ {p}
        BY <1>16, <3>1, Members
      <4> QED BY <3>1, <4>1, Numbers
    <3>3. mtab \in Nat /\ Len(mounts) \in Nat
      BY DEF MountTypeOK
    <3>4. CASE mtab' = (IF mtab = 0 THEN 0 ELSE mtab - 1) /\ stale' = stale
      BY <3>1, <3>2, <3>3, <3>4 DEF Counted, InStep
    <3>5. CASE mtab' = mtab /\ stale' = TRUE
      BY <3>1, <3>2, <3>3, <3>5 DEF Counted, InStep
    <3> QED BY <2>4, <3>4, <3>5 DEF RemoveEntry
  <2> QED BY <1>17, <2>1, <2>2, <2>3, <2>4 DEF UnmountStep
<1>18. CASE PersonUnmounts
  BY <1>18, Uncounted DEF PersonUnmounts
<1> QED BY <1>1, <1>2, <1>3, <1>4, <1>5, <1>6, <1>7, <1>8, <1>9, <1>10, <1>11, <1>12,
           <1>13, <1>14, <1>15, <1>17, <1>18
        DEF MountNext, ServerStep, HelperStep, StopGone

\* A step that is not one of an unmount, of another process than those that
\* unmount, and that removes no entry.
LEMMA Apart ==
    ASSUME MountTypeOK, TakesTurns, NEW p \in Procs, NEW place \in Places, To(p, place),
           place \notin {"may", "detach", "remove"},
           mtablock' = mtablock \/ (mtabFile => mtablock \in {NoOne, p}),
           mtab' \in Nat, mtab' >= mtab, mtabFile' = mtabFile, root' = root,
           ~unlocked' => ~unlocked
    PROVE  TakesTurns'
<1> SUFFICES ASSUME mtabFile, ~root, ~unlocked, NEW q \in Procs, at'[q] \in {"may", "detach", "remove"}
             PROVE  mtablock' = q /\ (at'[q] \in {"detach", "remove"} => mtab' > 0)
  BY DEF TakesTurns
<1>1. q # p /\ at'[q] = at[q]
  BY Turns
<1>2. mtablock = q /\ (at[q] \in {"detach", "remove"} => mtab > 0)
  BY <1>1 DEF TakesTurns
<1>3. q # NoOne
  BY Processes
<1>4. mtab \in Nat
  BY DEF MountTypeOK
<1> QED BY <1>1, <1>2, <1>3, <1>4

\* lock_umount, may_unmount and unlock_umount: the check of the entry and its
\* removal are with one process.
LEMMA TurnsStep ==
    ASSUME MountTypeOK, MountTypeOK', Holding, TakesTurns, MountNext
    PROVE  TakesTurns'
<1> USE Processes, PlaceNames
<1> USE DEF machine, table, procs, history, mountVars
<1>0. mtab \in Nat /\ mtab' \in Nat
  BY DEF MountTypeOK
<1> USE <1>0
<1>1. ASSUME NEW s \in Servers, Start(s) PROVE TakesTurns'
  BY <1>1, Apart DEF Start
<1>2. ASSUME NEW s \in Servers, Stop(s) PROVE TakesTurns'
  BY <1>2, Apart DEF Stop
<1>3. ASSUME NEW s \in Servers, Kill(s) PROVE TakesTurns'
  <2>1. mtab' >= mtab
    BY <1>3, EntryNumber DEF Kill
  <2> QED BY <1>3, <2>1, Apart DEF Kill
<1>4. ASSUME NEW s \in Servers, AskHelper(s), UNCHANGED <<mtab, mtabFile, root, mtablock, unlocked>>
      PROVE  TakesTurns'
  <2>1. \A q \in Procs : at'[q] \in {"may", "detach", "remove"} => at'[q] = at[q]
    BY <1>4, Helped
  <2> QED BY <1>4, <2>1 DEF TakesTurns
<1>5. ASSUME NEW s \in Servers, Stat(s) \/ MountSys(s) PROVE TakesTurns'
  <2>1. CASE AskHelper(s)
    BY <1>4, <1>5, <2>1 DEF Stat, MountSys
  <2>2. CASE ~AskHelper(s)
    BY <1>5, <2>2, Apart DEF Stat, MountSys
  <2> QED BY <2>1, <2>2
<1>6. ASSUME NEW s \in Servers, AddEntry(s) PROVE TakesTurns'
  <2>1. mtab' >= mtab
    BY <1>6, EntryNumber DEF AddEntry
  <2> QED BY <1>6, <2>1, Apart DEF AddEntry
<1>7. ASSUME NEW s \in Servers, Receive(s) PROVE TakesTurns'
  <2>1. CASE s \in holds \/ tries[s] # 1
    BY <1>7, <2>1, Apart DEF Receive
  <2>2. CASE s \notin holds /\ tries[s] = 1
    <3>1. To(Helper(s), "check")
      BY <1>7, <2>2 DEF Receive, To
    <3> QED BY <1>7, <3>1, Apart DEF Receive
  <2> QED BY <2>1, <2>2
<1>8. ASSUME NEW s \in Servers, Poll(s) PROVE TakesTurns'
  <2>1. CASE root
    BY <1>8, <2>1 DEF Poll, TakesTurns
  <2>2. CASE ~root
    BY <1>8, <2>2, Apart DEF Poll
  <2> QED BY <2>1, <2>2
<1>9. ASSUME NEW s \in Servers, HelperChecks(s) PROVE TakesTurns'
  BY <1>9, Apart DEF HelperChecks
<1>10. ASSUME NEW s \in Servers, HelperMounts(s) PROVE TakesTurns'
  BY <1>10, Apart DEF HelperMounts
<1>11. ASSUME NEW s \in Servers, HelperAdds(s) PROVE TakesTurns'
  <2>1. mtab' >= mtab
    BY <1>11, EntryNumber DEF HelperAdds
  <2> QED BY <1>11, <2>1, Apart DEF HelperAdds, GivesUp
<1>12. ASSUME NEW s \in Servers, HelperSends(s) PROVE TakesTurns'
  BY <1>12, Apart DEF HelperSends, GivesUp
<1>13. ASSUME NEW s \in Servers, Awake(s) PROVE TakesTurns'
  BY <1>13, Apart DEF Awake
<1>14. ASSUME NEW s \in Servers, StillMounted(s) PROVE TakesTurns'
  BY <1>14, Apart DEF StillMounted, GivesUp
<1>15. ASSUME NEW s \in Servers, NotConnected(s) PROVE TakesTurns'
  BY <1>15, Apart DEF NotConnected, GivesUp
<1>16. ASSUME NEW p \in Procs PROVE Ended(p) \in {"none", "off"} /\ Ended(p) \in Places
  BY DEF Ended
<1>17. ASSUME NEW p \in Procs, UnmountStep(p) PROVE TakesTurns'
  <2>1. CASE ~mtabFile \/ root
    <3>1. mtabFile' = mtabFile /\ root' = root
      BY <1>17 DEF UnmountStep, Lock, May, Detach, RemoveEntry
    <3> QED BY <2>1, <3>1 DEF TakesTurns
  <2>2. CASE unlocked \/ unlocked'
    <3>1. unlocked' = unlocked \/ unlocked' = TRUE
      BY <1>17 DEF UnmountStep, Lock, May, Detach, RemoveEntry
    <3>2. unlocked'
      BY <2>2, <3>1, Zenon
    <3> QED BY <3>2 DEF TakesTurns
  <2>3. CASE mtabFile /\ ~root /\ ~unlocked /\ ~unlocked'
    <3>1. \A q \in Procs : at[q] \in {"may", "detach", "remove"} => mtablock = q
          /\ (at[q] \in {"detach", "remove"} => mtab > 0)
      BY <2>3 DEF TakesTurns
    <3>2. CASE Lock(p)
      <4>1. /\ at[p] = "lock" /\ mtablock = NoOne /\ mtablock' = p /\ To(p, "may")
            /\ mtab' = mtab /\ mtabFile' = mtabFile /\ root' = root
        BY <2>3, <3>2 DEF Lock
      <4>2. \A q \in Procs : at[q] \notin {"may", "detach", "remove"}
        BY <3>1, <4>1
      <4>3. at'[p] = "may" /\ \A q \in Procs : q # p => at'[q] = at[q]
        BY <4>1, Turns
      <4> QED BY <4>1, <4>2, <4>3 DEF TakesTurns
    <3>3. CASE at[p] \in {"may", "detach"} /\ at'[p] \in {"detach", "remove"}
               /\ (\A q \in Procs : q # p => at'[q] = at[q])
               /\ mtab > 0 /\ mtab' = mtab /\ mtablock' = mtablock
      BY <3>1, <3>3 DEF TakesTurns
    <3>4. ASSUME at[p] \in {"may", "detach", "remove"}, End(p) PROVE TakesTurns'
      <4>1. mtablock = p
        BY <3>1, <3>4
      <4>2. \A q \in Procs : q # p => at[q] \notin {"may", "detach", "remove"}
        BY <3>1, <4>1
      <4>3. at'[p] \in {"none", "off"} /\ \A q \in Procs : q # p => at'[q] = at[q]
        BY <1>16, <3>4, Turns DEF End
      <4> QED BY <4>2, <4>3 DEF TakesTurns
    <3>5. CASE May(p)
      <4>1. CASE End(p)
        BY <3>4, <3>5, <4>1 DEF May
      <4>2. CASE ~End(p)
        <5>1. /\ at[p] = "may" /\ mtab > 0 /\ mtab' = mtab /\ mtablock' = mtablock
              /\ To(p, "detach")
          BY <2>3, <3>5, <4>2 DEF May, EntryFound
        <5> QED BY <3>3, <5>1, Turns
      <4> QED BY <4>1, <4>2
    <3>6. CASE Detach(p)
      <4>1. CASE End(p)
        BY <3>4, <3>6, <4>1 DEF Detach
      <4>2. CASE ~End(p)
        <5>1. /\ at[p] = "detach" /\ mtab' = mtab /\ mtablock' = mtablock
              /\ To(p, "remove")
          BY <2>3, <3>6, <4>2 DEF Detach
        <5> QED BY <3>1, <3>3, <5>1, Turns
      <4> QED BY <4>1, <4>2
    <3>7. CASE RemoveEntry(p)
      BY <3>4, <3>7 DEF RemoveEntry
    <3> QED BY <1>17, <3>2, <3>5, <3>6, <3>7 DEF UnmountStep
  <2> QED BY <2>1, <2>2, <2>3, Zenon
<1>18. CASE PersonUnmounts
  BY <1>18, Apart DEF PersonUnmounts
<1> QED BY <1>1, <1>2, <1>3, <1>4, <1>5, <1>6, <1>7, <1>8, <1>9, <1>10, <1>11, <1>12,
           <1>13, <1>14, <1>15, <1>17, <1>18
        DEF MountNext, ServerStep, HelperStep, StopGone

\* Nothing is mounted and there is no entry when no program has been started.
LEMMA InitMtab == MountInit => MtabInv
<1> SUFFICES ASSUME MountInit PROVE MtabInv
  OBVIOUS
<1>1. MountTypeOK /\ Holding
  BY InitInv DEF MountInv
<1>2. \A p \in Procs : at[p] \in {"none", "new"}
  BY DEF MountInit
<1>3. Adding = {} /\ Removing = {}
  BY <1>2 DEF Adding, Removing
<1>4. mtab = 0 /\ Len(mounts) = 0
  BY DEF MountInit
<1>5. Counted
  BY <1>3, <1>4, FS_EmptySet DEF Counted, InStep
<1>6. TakesTurns
  BY <1>2 DEF TakesTurns
<1> QED BY <1>1, <1>5, <1>6 DEF MtabInv

\* The invariant of /etc/mtab is inductive.
LEMMA StepMtab ==
    ASSUME MtabInv, [MountNext]_mountVars
    PROVE  MtabInv'
<1>1. CASE MountNext
  BY <1>1, TypeStep, HoldingStep, CountedStep, TurnsStep DEF MtabInv
<1>2. CASE UNCHANGED mountVars
  <2> USE <1>2 DEF mountVars, machine, table, procs, history
  <2>1. MountTypeOK' = MountTypeOK
    BY DEF MountTypeOK
  <2>2. Holding' = Holding
    BY DEF Holding
  <2>3. Counted' = Counted
    BY DEF Counted, InStep, Adding, Removing
  <2>4. TakesTurns' = TakesTurns
    BY DEF TakesTurns
  <2> QED BY <2>1, <2>2, <2>3, <2>4 DEF MtabInv
<1> QED BY <1>1, <1>2

\* For any number of servers: when nobody is between a mount or an unmount and
\* its entry, and no mount went before its entry was made, /etc/mtab has no fewer
\* entries than mounts unless one was never made, and no more unless the removal
\* of one failed; and as long as nobody goes on without the lock of lock_umount,
\* the entry that may_unmount found is there until its finder removes it.
THEOREM MtabKept == MountSpec => []MtabAgrees
<1>1. MtabInv => MtabAgrees
  <2> SUFFICES ASSUME MtabInv PROVE MtabAgrees
    OBVIOUS
  <2>1. ASSUME mtabFile, ~Between, ~early
        PROVE  (lost \/ mtab >= Len(mounts)) /\ (stale \/ mtab <= Len(mounts))
    <3>1. Adding = {} /\ Removing = {}
      BY <2>1 DEF Between, Adding, Removing
    <3>2. Cardinality(Adding) = 0 /\ Cardinality(Removing) = 0
      BY <3>1, FS_EmptySet
    <3>3. mtab \in Nat /\ Len(mounts) \in Nat
      BY DEF MtabInv, MountTypeOK
    <3> QED BY <2>1, <3>2, <3>3 DEF MtabInv, Counted, InStep
  <2> QED BY <2>1 DEF MtabInv, TakesTurns, MtabAgrees
<1> QED BY <1>1, InitMtab, StepMtab, PTL DEF MountSpec

=============================================================================
