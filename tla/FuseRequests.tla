---------------------------- MODULE FuseRequests ----------------------------
(***************************************************************************)
(* Requests and interrupts of libfuse (fuse_lowlevel.c, and the interrupt  *)
(* callback of fuse.c): what a worker does with a message from the time it *)
(* has read it to the time its request is freed.  The workers come and go  *)
(* in FuseLoop, which extends this module.                                 *)
(*                                                                         *)
(* A step is what a thread does under one lock or between two of them.     *)
(***************************************************************************)
EXTENDS Naturals, Sequences, SequencesExt

CONSTANTS
    Workers,    \* the threads that may serve requests
    Reqs,       \* requests that are answered, each is sent at most once
    Blocking,   \* those whose operation waits until a signal interrupts it
    Forgets,    \* FORGET messages
    Nobody      \* no thread

ASSUME RequestsAssumption ==
    /\ Blocking \subseteq Reqs
    /\ Reqs \cap Forgets = {}
    /\ Nobody \notin Workers

VARIABLES
    device,     \* the kernel: messages that can be read
    sent,       \* requests and forgets it has sent
    asked,      \* requests it has sent an interrupt for
    answered,   \* requests it has the reply of
    list,       \* se->list: the requests in service
    interrupts, \* se->interrupts: interrupts that found no request
    req,        \* struct fuse_req of each request
    intr_data,  \* fuse_intr_data on the stack of the thread that serves it
    wpc,        \* where each worker is
    msg         \* the message it has read

kernel == <<device, sent, asked, answered>>
session == <<list, interrupts, req, intr_data>>
requestVars == <<kernel, session, wpc, msg>>

Op(r) == [kind |-> "op", id |-> r]
Forget(g) == [kind |-> "forget", id |-> g]
Intr(r) == [kind |-> "interrupt", id |-> r]
NoMsg == [kind |-> "none", id |-> Nobody]
Messages == {Op(r) : r \in Reqs} \cup {Forget(g) : g \in Forgets}
              \cup {Intr(r) : r \in Reqs}

\* A request without storage has ctr 0.
Freed == [ctr |-> 0, interrupted |-> FALSE, func |-> FALSE, lock |-> Nobody]
Requests == [ctr : Nat, interrupted : BOOLEAN, func : BOOLEAN,
             lock : Workers \cup {Nobody}]

\* The places inside fuse_session_process_buf_int.
Serving == {"process", "prepare", "op", "blocked", "finish", "unset", "reply",
            "free", "forget", "intr_lock", "intr_func", "intr_put"}
Places == Serving \cup {"none", "top", "read", "got", "after", "gone"}

RequestsTypeOK ==
    /\ device \subseteq Messages
    /\ sent \subseteq Reqs \cup Forgets
    /\ asked \subseteq Reqs
    /\ answered \subseteq Reqs
    /\ list \subseteq Reqs \cup Forgets
    /\ interrupts \in Seq(Reqs)
    /\ req \in [Reqs -> Requests]
    /\ intr_data \in [Reqs -> {"none", "armed", "finished"}]
    /\ wpc \in [Workers -> Places]
    /\ msg \in [Workers -> Messages \cup {NoMsg}]

RequestsInit ==
    /\ device = {}
    /\ sent = {}
    /\ asked = {}
    /\ answered = {}
    /\ list = {}
    /\ interrupts = <<>>
    /\ req = [r \in Reqs |-> Freed]
    /\ intr_data = [r \in Reqs |-> "none"]
    /\ msg = [w \in Workers |-> NoMsg]

-----------------------------------------------------------------------------
(* The kernel.                                                             *)

Send(m) ==
    /\ m.id \notin sent
    /\ sent' = sent \cup {m.id}
    /\ device' = device \cup {m}
    /\ UNCHANGED <<asked, answered, session, wpc, msg>>

\* One INTERRUPT for a request that was read and is not answered.
SendInterrupt(r) ==
    /\ r \in sent \ (answered \cup asked)
    /\ Op(r) \notin device
    /\ asked' = asked \cup {r}
    /\ device' = device \cup {Intr(r)}
    /\ UNCHANGED <<sent, answered, session, wpc, msg>>

-----------------------------------------------------------------------------
(* The worker w serves msg[w].                                             *)

Goto(w, place) == wpc' = [wpc EXCEPT ![w] = place]
At(w, place, kind) == wpc[w] = place /\ msg[w].kind = kind

\* check_interrupt: an interrupt that came before its request is noted in it;
\* else the first one that waits is answered with EAGAIN, and the kernel sends
\* it again while its request is not answered.
check_interrupt(id) ==
    \/ \E i \in DOMAIN interrupts :
          /\ interrupts[i] = id
          /\ interrupts' = RemoveAt(interrupts, i)
          /\ UNCHANGED device
    \/ interrupts = <<>> /\ UNCHANGED <<interrupts, device>>
    \/ /\ interrupts # <<>>
       /\ id \notin ToSet(interrupts)
       /\ interrupts' = Tail(interrupts)
       /\ device' = IF Head(interrupts) \in answered THEN device
                    ELSE device \cup {Intr(Head(interrupts))}

\* fuse_session_process_buf_int for all but interrupts.
Register(w) ==
    LET id == msg[w].id
    IN  /\ wpc[w] = "process"
        /\ msg[w].kind # "interrupt"
        /\ check_interrupt(id)
        /\ list' = list \cup {id}
        /\ IF msg[w].kind = "op"
           THEN /\ req' = [req EXCEPT ![id] =
                             [Freed EXCEPT !.ctr = 1,
                                           !.interrupted = id \in ToSet(interrupts)]]
                /\ Goto(w, "prepare")
           ELSE /\ UNCHANGED req
                /\ Goto(w, "forget")
        /\ UNCHANGED <<sent, asked, answered, intr_data, msg>>

\* fuse_lib_forget and the end of its request; a forget has no reply.
ForgetDone(w) ==
    /\ wpc[w] = "forget"
    /\ list' = list \ {msg[w].id}
    /\ Goto(w, "after")
    /\ UNCHANGED <<kernel, interrupts, req, intr_data, msg>>

\* fuse_prepare_interrupt.  If the request is interrupted by now, the callback
\* is called in this thread, where it returns at once.
Prepare(w) ==
    LET r == msg[w].id
    IN  /\ wpc[w] = "prepare"
        /\ req[r].lock = Nobody
        /\ req' = [req EXCEPT ![r].func = TRUE]
        /\ intr_data' = [intr_data EXCEPT ![r] = "armed"]
        /\ Goto(w, "op")
        /\ UNCHANGED <<kernel, list, interrupts, msg>>

\* The operation of the filesystem ends, or waits for a signal.
OpStep(w) ==
    /\ wpc[w] = "op"
    /\ Goto(w, IF msg[w].id \in Blocking THEN "blocked" ELSE "finish")
    /\ UNCHANGED <<kernel, session, msg>>

\* fuse_do_finish_interrupt, up to the broadcast.
Finish(w) ==
    /\ wpc[w] = "finish"
    /\ intr_data' = [intr_data EXCEPT ![msg[w].id] = "finished"]
    /\ Goto(w, "unset")
    /\ UNCHANGED <<kernel, list, interrupts, req, msg>>

UnsetUnlocked(w) ==
    LET r == msg[w].id
    IN  /\ wpc[w] = "unset"
        /\ req' = [req EXCEPT ![r].func = FALSE]
        /\ intr_data' = [intr_data EXCEPT ![r] = "none"]
        /\ Goto(w, "reply")
        /\ UNCHANGED <<kernel, list, interrupts, msg>>

\* fuse_req_interrupt_func(req, NULL, NULL) waits for a callback that runs;
\* then the fuse_intr_data is gone with the stack frame.
Unset(w) ==
    LET r == msg[w].id
    IN  /\ wpc[w] = "unset"
        /\ req[r].lock = Nobody
        /\ req' = [req EXCEPT ![r].func = FALSE]
        /\ intr_data' = [intr_data EXCEPT ![r] = "none"]
        /\ Goto(w, "reply")
        /\ UNCHANGED <<kernel, list, interrupts, msg>>

\* send_reply_iov: the reply, then fuse_free_req.
Reply(w) ==
    /\ wpc[w] = "reply"
    /\ answered' = answered \cup {msg[w].id}
    /\ Goto(w, "free")
    /\ UNCHANGED <<device, sent, asked, session, msg>>

Dropped(q) == IF q.ctr = 1 THEN Freed ELSE [q EXCEPT !.ctr = @ - 1]

fuse_free_req(w) ==
    LET r == msg[w].id
    IN  /\ wpc[w] = "free"
        /\ list' = list \ {r}
        /\ req' = [req EXCEPT ![r] = Dropped([@ EXCEPT !.func = FALSE])]
        /\ Goto(w, "after")
        /\ UNCHANGED <<kernel, interrupts, intr_data, msg>>

-----------------------------------------------------------------------------
(* do_interrupt and find_interrupted.                                      *)

FindUncounted(w) ==
    LET r == msg[w].id
    IN  /\ At(w, "process", "interrupt")
        /\ \/ /\ r \in list
              /\ Goto(w, "intr_lock")
              /\ UNCHANGED <<interrupts, req>>
           \/ /\ r \notin list
              /\ interrupts' = IF r \in ToSet(interrupts) THEN interrupts
                               ELSE Append(interrupts, r)
              /\ Goto(w, "after")
              /\ UNCHANGED req
        /\ UNCHANGED <<kernel, list, intr_data, msg>>

FindForgets(w) ==
    LET r == msg[w].id
    IN  /\ At(w, "process", "interrupt")
        /\ \/ /\ r \in list
              /\ req' = [req EXCEPT ![r].ctr = @ + 1]
              /\ Goto(w, "intr_lock")
           \/ /\ r \notin list
              /\ Goto(w, "after")
              /\ UNCHANGED req
        /\ UNCHANGED <<kernel, list, interrupts, intr_data, msg>>

\* A request in service is held with a count; an interrupt whose request is
\* not there is kept, once.
Find(w) ==
    LET r == msg[w].id
    IN  /\ At(w, "process", "interrupt")
        /\ \/ /\ r \in list
              /\ req' = [req EXCEPT ![r].ctr = @ + 1]
              /\ Goto(w, "intr_lock")
              /\ UNCHANGED interrupts
           \/ /\ r \notin list
              /\ interrupts' = IF r \in ToSet(interrupts) THEN interrupts
                               ELSE Append(interrupts, r)
              /\ Goto(w, "after")
              /\ UNCHANGED req
        /\ UNCHANGED <<kernel, list, intr_data, msg>>

\* "Ugh, ugly locking": with the lock of the request, note the interrupt and
\* take its callback.
Interrupt(w) ==
    LET r == msg[w].id
    IN  /\ wpc[w] = "intr_lock"
        /\ req[r].lock = Nobody
        /\ req' = [req EXCEPT ![r].interrupted = TRUE, ![r].lock = w]
        /\ Goto(w, IF req[r].func THEN "intr_func" ELSE "intr_put")
        /\ UNCHANGED <<kernel, list, interrupts, intr_data, msg>>

fuse_interruptOnce(w) ==
    LET r == msg[w].id
        server == {u \in Workers : msg[u] = Op(r) /\ wpc[u] = "blocked"}
    IN  /\ wpc[w] = "intr_func"
        /\ wpc' = [u \in Workers |-> IF u = w THEN "intr_put"
                                     ELSE IF u \in server THEN "finish" ELSE wpc[u]]
        /\ UNCHANGED <<kernel, session, msg>>

\* fuse_interrupt, one round of its loop: a signal to the thread that serves
\* the request, which is lost on it unless it waits in a system call.
fuse_interrupt(w) ==
    LET r == msg[w].id
        server == {u \in Workers : msg[u] = Op(r) /\ wpc[u] = "blocked"}
    IN  /\ wpc[w] = "intr_func"
        /\ wpc' = IF intr_data[r] # "armed" THEN [wpc EXCEPT ![w] = "intr_put"]
                  ELSE [u \in Workers |-> IF u \in server THEN "finish" ELSE wpc[u]]
        /\ UNCHANGED <<kernel, session, msg>>

\* The rest of find_interrupted: unlock the request, then drop the count.
Put(w) ==
    LET r == msg[w].id
    IN  /\ wpc[w] = "intr_put"
        /\ req' = [req EXCEPT ![r] = Dropped([@ EXCEPT !.lock = Nobody])]
        /\ Goto(w, "after")
        /\ UNCHANGED <<kernel, list, interrupts, intr_data, msg>>

Serve(w) ==
    \/ Register(w) \/ ForgetDone(w)
    \/ Prepare(w) \/ OpStep(w) \/ Finish(w) \/ Unset(w)
    \/ Reply(w) \/ fuse_free_req(w)
    \/ Find(w) \/ Interrupt(w) \/ fuse_interrupt(w) \/ Put(w)

-----------------------------------------------------------------------------
Handling(w, r) == msg[w] = Intr(r) /\ wpc[w] \in {"intr_lock", "intr_func", "intr_put"}

\* fuse_free_req and find_interrupted share a request by its count: a thread
\* that carries an interrupt to a request never touches one that is freed.
RequestsHeld == \A w \in Workers, r \in Reqs :
    Handling(w, r) => req[r].ctr > 0

\* The callback works on data on the stack of the serving thread: it never
\* runs when that frame is gone.
CallbackDataLive == \A w \in Workers :
    wpc[w] = "intr_func" => intr_data[msg[w].id] # "none"

\* An interrupt is noted in its request, or on its way to it.
Delivered(r) ==
    \/ req[r].interrupted
    \/ Intr(r) \in device
    \/ \E w \in Workers : msg[w] = Intr(r) /\ wpc[w] \in {"got", "process", "intr_lock"}

=============================================================================
