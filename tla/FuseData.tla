------------------------------ MODULE FuseData ------------------------------
(***************************************************************************)
(* The data of requests and replies in libfuse (fuse_lowlevel.c, and the   *)
(* buffers of fuse.c): a worker reads messages into a pipe of its own or   *)
(* into memory, takes from it what a request needs, and puts the data of a *)
(* READ back through the same pipe.  The pipe is kept from one request to  *)
(* the next, so whatever a request leaves in it is read as the next.       *)
(*                                                                         *)
(* A token stands for a header or for a page of data.                      *)
(***************************************************************************)
EXTENDS BufCopy, SequencesExt, FiniteSets

CONSTANTS
    Messages,   \* what the kernel sends: [unique, opcode, size], in any order
    MaxReply,   \* bound: tokens in the answer to a READ
    SPLICE_READ, SPLICE_WRITE,  \* conn.want
    NoPipe

ASSUME DataAssumption ==
    /\ \A m \in Messages : m.opcode \in {"WRITE", "READ", "SETXATTR"} /\ m.size \in Nat
    /\ \A m, n \in Messages : m.unique = n.unique => m = n
    /\ SPLICE_READ \in BOOLEAN /\ SPLICE_WRITE \in BOOLEAN
    /\ MaxReply \in Nat

VARIABLES
    unsent,     \* messages that the kernel has not sent
    answers,    \* what it got for each request
    stored,     \* what the filesystem wrote for each WRITE
    broken_splice_nonblock,
    pipe,       \* se->pipe_key: what is in the pipe of the thread
    pc,
    buf,        \* the fuse_buf that was received
    msg,        \* in: the message it begins with
    vec,        \* the fuse_bufvec of the reply
    now_len,    \* how much of it is in the pipe
    copy        \* the fuse_buf_copy that the step at pc began, or is to end

kept == <<unsent, answers, stored, broken_splice_nonblock>>
request == <<buf, msg, vec, now_len>>
vars == <<kept, pipe, pc, request, copy>>

pagesize == 1
NoBuf == Mem(0, <<>>)
NoVec == Vec(<<>>)
NoCopy == [Copy(NoVec, NoVec, FALSE) EXCEPT !.at = "none"]
NoMsg == [unique |-> 0, opcode |-> "none", size |-> 0]

Header(u) == <<u, 0>>
Data(u, n) == [i \in 1 .. n |-> <<u, i>>]
Wire(m) == <<Header(m.unique)>> \o Data(m.unique, m.size)
Sender(token) == CHOOSE m \in Messages : Header(m.unique) = token

Init ==
    /\ unsent = Messages
    /\ answers = [m \in Messages |-> <<>>]
    /\ stored = [m \in Messages |-> <<>>]
    /\ broken_splice_nonblock = FALSE
    /\ pipe = NoPipe
    /\ pc = "receive"
    /\ buf = NoBuf
    /\ msg = NoMsg
    /\ vec = NoVec
    /\ now_len = 0
    /\ copy = NoCopy

Stream(size, data) == Buf(TRUE, FALSE, size, data)
InPipe == IF pipe = NoPipe THEN <<>> ELSE pipe

Answer(unique, error, data) ==
    answers' = [answers EXCEPT ![msg] = Append(@, [unique |-> unique, error |-> error,
                                                  data |-> data])]
Error == Answer(Header(msg.unique), TRUE, <<>>)

\* The thread goes back to its loop.
Done ==
    /\ pc' = "receive"
    /\ buf' = NoBuf /\ msg' = NoMsg /\ vec' = NoVec /\ now_len' = 0 /\ copy' = NoCopy

-----------------------------------------------------------------------------
(* fuse_buf_copy begins at a step, and a later one has what it returned.   *)

Begin(dst, src, force, place) ==
    /\ copy' = Copy(Vec(<<dst>>), src, force)
    /\ pc' = place

Copying ==
    /\ \/ copy.at = "copy" /\ copy' \in fuse_buf_copy(copy)
       \/ copy.at = "slow" /\ copy' \in fuse_buf_fd_to_fd(copy)
    /\ UNCHANGED <<kept, pipe, pc, request>>

Copied(place) == pc = place /\ copy.at = "over"
Out == copy.dst.bufs[1].data
Rest == copy.src.bufs[1].data

\* fuse_ll_copy_from_pipe: all of n, or an error.
CopyFromPipe(n, place) == Begin(Mem(n, <<>>), Vec(<<Stream(n, pipe)>>), FALSE, place)
Short == copy.res < fuse_buf_size(copy.dst)

-----------------------------------------------------------------------------
(* fuse_session_receive_buf_int.                                           *)

ReceiveInMemory(m) ==
    /\ pc = "receive"
    /\ m \in unsent
    /\ unsent' = unsent \ {m}
    /\ buf' = Mem(m.size + 1, Wire(m))
    /\ pc' = "process"
    /\ UNCHANGED <<answers, stored, broken_splice_nonblock, pipe, msg, vec, now_len, copy>>

IsSmall(n) == n < 1 + pagesize

\* A small message is copied out of the pipe at once.
ReceiveInPipe(m) ==
    LET all == InPipe \o Wire(m)
        n == m.size + 1
    IN  /\ pc = "receive"
        /\ SPLICE_READ
        /\ m \in unsent
        /\ unsent' = unsent \ {m}
        /\ pipe' = all
        /\ IF IsSmall(n)
           THEN Begin(Mem(n, <<>>), Vec(<<Stream(n, all)>>), FALSE, "small") /\ UNCHANGED buf
           ELSE buf' = Stream(n, <<>>) /\ pc' = "process" /\ UNCHANGED copy
        /\ UNCHANGED <<answers, stored, broken_splice_nonblock, msg, vec, now_len>>

\* If that fails the thread ends the session.
ReceiveSmall ==
    /\ Copied("small")
    /\ IF Short THEN pipe' = NoPipe /\ pc' = "exit" /\ UNCHANGED buf
       ELSE pipe' = Rest /\ buf' = Mem(Len(Out), Out) /\ pc' = "process"
    /\ copy' = NoCopy
    /\ UNCHANGED <<kept, msg, vec, now_len>>

-----------------------------------------------------------------------------
(* fuse_session_process_buf_int.                                           *)

Process ==
    /\ pc = "process"
    /\ IF buf.fd THEN CopyFromPipe(1, "header") /\ UNCHANGED msg
       ELSE msg' = Sender(buf.data[1]) /\ pc' = "dispatch" /\ UNCHANGED copy
    /\ UNCHANGED <<kept, pipe, buf, vec, now_len>>

\* There is no memory for the header, or it cannot be read.
ProcessFails ==
    /\ \/ pc = "process" /\ buf.fd
       \/ Copied("header") /\ Short
    /\ pipe' = NoPipe
    /\ Done
    /\ UNCHANGED kept

ProcessHeader ==
    /\ Copied("header")
    /\ ~Short
    /\ msg' = Sender(Out[1])
    /\ pipe' = Rest
    /\ pc' = "dispatch"
    /\ copy' = NoCopy
    /\ UNCHANGED <<kept, buf, vec, now_len>>

clear_pipe == pipe' = IF buf.fd THEN NoPipe ELSE pipe

\* No memory for the request, or it is one that is not allowed or not known.
Refuse ==
    /\ pc = "dispatch"
    /\ Error
    /\ clear_pipe
    /\ Done
    /\ UNCHANGED <<unsent, stored, broken_splice_nonblock>>

\* A large message that is not a WRITE is read to its end first.
Dispatch ==
    /\ pc = "dispatch"
    /\ IF buf.fd /\ msg.opcode # "WRITE" THEN CopyFromPipe(msg.size, "body")
       ELSE pc' = msg.opcode /\ UNCHANGED copy
    /\ UNCHANGED <<kept, pipe, request>>

DispatchBody ==
    /\ Copied("body")
    /\ IF Short THEN Error /\ pipe' = NoPipe /\ Done
       ELSE /\ pipe' = Rest
            /\ pc' = msg.opcode
            /\ copy' = NoCopy
            /\ UNCHANGED <<answers, request>>
    /\ UNCHANGED <<unsent, stored, broken_splice_nonblock>>

\* Any other operation.
SetXattr ==
    /\ pc = "SETXATTR"
    /\ Answer(Header(msg.unique), FALSE, <<>>)
    /\ Done
    /\ UNCHANGED <<unsent, stored, broken_splice_nonblock, pipe>>

-----------------------------------------------------------------------------
(* WRITE.                                                                  *)

PipeAfterKept(v) == IF ~buf.fd THEN pipe ELSE v.bufs[1].data

\* do_write_buf resets a pipe that was not read to the end of the data.
PipeAfter(v) == IF ~buf.fd THEN pipe ELSE IF AtEnd(v) THEN v.bufs[1].data ELSE NoPipe

WriteData == IF buf.fd THEN Vec(<<Stream(msg.size, pipe)>>)
             ELSE Vec(<<Mem(msg.size, Tail(buf.data))>>)

\* fuse_fs_write_buf for a filesystem that takes buffers: it copies them to a
\* file.  For one that takes memory what is in a pipe is copied out first.
WriteBuf ==
    /\ pc = "WRITE"
    /\ \/ Begin(Buf(TRUE, TRUE, msg.size, <<>>), WriteData, FALSE, "written")
       \/ buf.fd /\ Begin(Mem(msg.size, <<>>), WriteData, FALSE, "flat")
    /\ UNCHANGED <<kept, pipe, request>>

WritesBuf == {[res |-> copy.res, src |-> copy.src, file |-> Out]}

Flat == IF buf.fd THEN [res |-> copy.res, src |-> copy.src, data |-> Out]
        ELSE [res |-> msg.size, src |-> WriteData, data |-> Tail(buf.data)]
WritesWhole ==
    IF Flat.res <= 0 THEN {[res |-> Flat.res, src |-> Flat.src, file |-> <<>>]}
    ELSE {[res |-> k, src |-> Flat.src,
           file |-> [i \in 1 .. k |-> IF i <= Flat.res THEN Flat.data[i] ELSE Junk]] :
             k \in 1 .. msg.size}

WritesMem ==
    IF Flat.res <= 0 THEN {[res |-> Flat.res, src |-> Flat.src, file |-> <<>>]}
    ELSE {[res |-> k, src |-> Flat.src,
           file |-> IF k < 0 THEN <<>> ELSE SubSeq(Flat.data, 1, k)] :
             k \in {EIO} \cup 1 .. Flat.res}

\* There is no path, or no memory.
WriteFails == {[res |-> ENOMEM, src |-> WriteData, file |-> <<>>]}

do_write_buf ==
    /\ \E o \in IF pc = "WRITE" THEN WriteFails \cup (IF buf.fd THEN {} ELSE WritesMem)
               ELSE IF Copied("written") THEN WritesBuf
               ELSE IF Copied("flat") THEN WritesMem
               ELSE {} :
         /\ stored' = [stored EXCEPT ![msg] = o.file]
         /\ IF o.res >= 0 THEN Answer(Header(msg.unique), FALSE, o.res) ELSE Error
         /\ pipe' = PipeAfter(o.src)
    /\ Done
    /\ UNCHANGED <<unsent, broken_splice_nonblock>>

-----------------------------------------------------------------------------
(* READ.                                                                   *)

\* The filesystem answers from memory, from a file that may be shorter than it
\* says, from a descriptor that cannot seek, or from memory and a file.
Answers(u) ==
    UNION {LET d == Data(u, n)
           IN  {Vec(<<Mem(n, d)>>)}
                 \cup {Vec(<<Buf(TRUE, seek, n, SubSeq(d, 1, k))>>) : seek \in BOOLEAN, k \in 0 .. n}
                 \cup {Vec(<<Mem(1, SubSeq(d, 1, 1)), Buf(TRUE, TRUE, n - 1, SubSeq(d, 2, k))>>)
                        : k \in 1 .. n}
           : n \in 0 .. MaxReply}

\* fuse_fs_read_buf.
Read ==
    /\ pc = "READ"
    /\ \/ Error /\ Done
       \/ /\ vec' \in Answers(msg.unique)
          /\ pc' = "send"
          /\ UNCHANGED <<answers, buf, msg, now_len, copy>>
    /\ UNCHANGED <<unsent, stored, broken_splice_nonblock, pipe>>

Total == fuse_buf_size(vec)
ToPipe == SPLICE_WRITE /\ ~broken_splice_nonblock /\ Total >= 2 * pagesize

\* fuse_send_data_iov: the header goes into the pipe, unless the pipe is missing
\* or too small, and then the data.
SendInPipe ==
    LET headed == Append(InPipe, Header(msg.unique))
    IN  /\ pc = "send"
        /\ ToPipe
        /\ pipe' = headed
        /\ Begin(Stream(Total, headed), vec, TRUE, "fill")
        /\ UNCHANGED <<kept, request>>

\* fuse_send_data_iov_fallback.
OneInMemory == Len(vec.bufs) = 1 /\ vec.idx = 1 /\ vec.off = 0 /\ ~vec.bufs[1].fd
SendInMemory ==
    /\ pc \in {"send", "fallback"}
    /\ IF OneInMemory THEN Answer(Header(msg.unique), FALSE, vec.bufs[1].data) /\ Done
       ELSE \/ Error /\ Done
            \/ Begin(Mem(Total, <<>>), vec, FALSE, "gathered") /\ UNCHANGED <<answers, request>>
    /\ UNCHANGED <<unsent, stored, broken_splice_nonblock, pipe>>

SendGathered ==
    /\ Copied("gathered")
    /\ IF copy.res < 0 THEN Error
       ELSE Answer(Header(msg.unique), FALSE, SubSeq(Out, 1, copy.res))
    /\ Done
    /\ UNCHANGED <<unsent, stored, broken_splice_nonblock, pipe>>

\* When splice cannot do it the pipe goes, with the header that is in it.
Fill ==
    /\ Copied("fill")
    /\ CASE copy.res \in {EAGAIN, EINVAL} ->
              /\ broken_splice_nonblock' = (broken_splice_nonblock \/ copy.res = EAGAIN)
              /\ pipe' = NoPipe
              /\ pc' = "fallback"
              /\ copy' = NoCopy
              /\ UNCHANGED <<answers, request>>
         [] copy.res < 0 /\ copy.res \notin {EAGAIN, EINVAL} ->
              Error /\ pipe' = NoPipe /\ Done /\ UNCHANGED broken_splice_nonblock
         [] OTHER ->
              /\ pipe' = Out
              /\ vec' = copy.src
              /\ now_len' = copy.res
              /\ pc' = IF copy.res # 0 /\ copy.res < Total THEN "more" ELSE "device"
              /\ copy' = NoCopy
              /\ UNCHANGED <<answers, buf, msg, broken_splice_nonblock>>
    /\ UNCHANGED <<unsent, stored>>

PlacedFirst == Vec(<<Mem(Total, <<>>)>>)

\* The rest goes behind the place of what is in the pipe.
Placed == [Vec(<<Mem(Total, <<>>)>>) EXCEPT !.off = now_len]

\* "Trickiest case: got more data."
More ==
    /\ pc = "more"
    /\ \/ Error /\ pipe' = NoPipe /\ Done
       \/ /\ copy' = Copy(Placed, vec, FALSE)
          /\ pc' = "rest"
          /\ UNCHANGED <<answers, pipe, request>>
    /\ UNCHANGED <<unsent, stored, broken_splice_nonblock>>

\* What is in the pipe is read back in front of it.
MoreRest ==
    /\ Copied("rest")
    /\ IF copy.res <= 0
       THEN pc' = "device" /\ copy' = NoCopy /\ UNCHANGED <<answers, pipe, request>>
       ELSE /\ Done
            /\ \/ /\ \E back \in {SubSeq(pipe, 2, now_len + 1)} :
                      Answer(Header(msg.unique), FALSE,
                              [i \in 1 .. now_len + copy.res |->
                                  IF i <= now_len THEN back[i]
                                  ELSE IF i \in DOMAIN Out THEN Out[i] ELSE Junk])
                  /\ pipe' = SubSeq(pipe, now_len + 2, Len(pipe))
               \/ pipe' = NoPipe /\ (Error \/ UNCHANGED answers)
    /\ UNCHANGED <<unsent, stored, broken_splice_nonblock>>

\* The pipe goes to the device as one reply, or the kernel does not take it.
Device ==
    /\ pc = "device"
    /\ \/ /\ Answer(pipe[1], FALSE, SubSeq(pipe, 2, now_len + 1))
          /\ pipe' = SubSeq(pipe, now_len + 2, Len(pipe))
       \/ pipe' = NoPipe /\ UNCHANGED answers
    /\ Done
    /\ UNCHANGED <<unsent, stored, broken_splice_nonblock>>

Next ==
    \/ Copying
    \/ \E m \in Messages : ReceiveInMemory(m) \/ ReceiveInPipe(m)
    \/ ReceiveSmall \/ Process \/ ProcessFails \/ ProcessHeader
    \/ Refuse \/ Dispatch \/ DispatchBody
    \/ SetXattr \/ WriteBuf \/ do_write_buf
    \/ Read \/ SendInPipe \/ SendInMemory \/ SendGathered
    \/ Fill \/ More \/ MoreRest \/ Device

Spec == Init /\ [][Next]_vars

-----------------------------------------------------------------------------
\* "Need to reset the pipe if ->write_buf() didn't consume all data": whatever
\* failed or was cut short in a request, nothing of it is left in the pipe when
\* the thread receives the next.
PipeDrained == pc = "receive" => InPipe = <<>>

\* The filesystem gets the data of the request it serves, from its beginning,
\* and the kernel is told how much of it was written.
WritesExact == \A m \in Messages : m.opcode = "WRITE" =>
    /\ IsPrefix(stored[m], Data(m.unique, m.size))
    /\ \A i \in DOMAIN answers[m] :
          ~answers[m][i].error => answers[m][i].data = Len(stored[m])

\* Each READ gets one reply, that of its own, with the data in order and without
\* a hole, however it was split between the pipe and memory.
RepliesExact == \A m \in Messages : m.opcode = "READ" =>
    /\ Len(answers[m]) <= 1
    /\ \A i \in DOMAIN answers[m] :
          /\ answers[m][i].unique = Header(m.unique)
          /\ IsPrefix(answers[m][i].data, Data(m.unique, MaxReply))

=============================================================================
