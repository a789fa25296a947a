------------------------------ MODULE FuseLoop ------------------------------
(***************************************************************************)
(* The thread pool of libfuse (fuse_loop_mt.c): workers that read messages *)
(* and serve them as in FuseRequests, the thread that waits for the end of *)
(* the session, and the ways in which a session ends.                      *)
(***************************************************************************)
EXTENDS FuseRequests, Integers, FiniteSets

CONSTANTS
    max_threads,
    MaxIdles,   \* the values of max_idle, -1 for no limit
    Exiting     \* requests whose operation calls fuse_session_exit

ASSUME LoopAssumption ==
    /\ IsFiniteSet(Workers)
    /\ max_threads \in Nat \ {0}
    /\ max_threads <= Cardinality(Workers)
    /\ MaxIdles \subseteq Nat \cup {-1}
    /\ Exiting \subseteq Reqs \ Blocking

VARIABLES
    unmounted,  \* the kernel: reads of the device fail with ENODEV
    signalled,  \* SIGTERM or SIGINT was delivered
    exited,     \* se->exited
    max_idle,
    workers,    \* the list from mt->main
    numworker,
    numavail,
    unstarted,  \* history: a thread could not be started
    exit,       \* mt->exit
    cancelled,  \* the threads that pthread_cancel was called on
    finish,     \* the semaphore
    main        \* where the thread is that runs fuse_session_loop_mt

pool == <<workers, numworker, numavail, unstarted>>
ending == <<exit, cancelled, finish, main>>
vars == <<requestVars, unmounted, signalled, exited, max_idle, pool, ending>>

TypeOK ==
    /\ RequestsTypeOK
    /\ unmounted \in BOOLEAN
    /\ signalled \in BOOLEAN
    /\ exited \in BOOLEAN
    /\ max_idle \in MaxIdles
    /\ workers \subseteq Workers
    /\ numworker \in 0 .. max_threads
    /\ numavail \in Int
    /\ unstarted \in BOOLEAN
    /\ exit \in BOOLEAN
    /\ cancelled \subseteq Workers
    /\ finish \in Nat
    /\ main \in {"check", "sem_wait", "cancel", "join", "done"}

\* The first worker is started before the loop waits.
Init ==
    /\ RequestsInit
    /\ workers = {CHOOSE w \in Workers : TRUE}
    /\ wpc = [w \in Workers |-> IF w \in workers THEN "top" ELSE "none"]
    /\ numworker = 1
    /\ numavail = 1
    /\ unstarted = FALSE
    /\ max_idle \in MaxIdles
    /\ unmounted = FALSE
    /\ signalled = FALSE
    /\ exited = FALSE
    /\ exit = FALSE
    /\ cancelled = {}
    /\ finish = 0
    /\ main = "check"

-----------------------------------------------------------------------------
(* fuse_do_work.                                                           *)

\* The thread function returns, with or without a post to main.
Leave(w) == Goto(w, "gone") /\ UNCHANGED finish
Post(w) == Goto(w, "gone") /\ finish' = finish + 1

Top(w) ==
    /\ wpc[w] = "top"
    /\ IF exited THEN Post(w) ELSE Goto(w, "read") /\ UNCHANGED finish
    /\ UNCHANGED <<kernel, session, msg, unmounted, signalled, exited, max_idle,
                   pool, exit, cancelled, main>>

\* fuse_session_receive_buf_int.  A message that is read after the session was
\* flagged is dropped.
ReadMsg(w) == \E m \in device :
    /\ wpc[w] = "read"
    /\ device' = device \ {m}
    /\ IF exited THEN Post(w) /\ UNCHANGED msg
       ELSE /\ msg' = [msg EXCEPT ![w] = m]
            /\ Goto(w, "got")
            /\ UNCHANGED finish
    /\ UNCHANGED <<sent, asked, answered, session, unmounted, signalled, exited,
                   max_idle, pool, exit, cancelled, main>>

ReadGone(w) ==
    /\ wpc[w] = "read"
    /\ unmounted
    /\ exited' = TRUE
    /\ Post(w)
    /\ UNCHANGED <<kernel, session, msg, unmounted, signalled, max_idle, pool,
                   exit, cancelled, main>>

\* The read is the only point where a worker can be cancelled.
Cancelled(w) ==
    /\ wpc[w] = "read"
    /\ w \in cancelled
    /\ Leave(w)
    /\ UNCHANGED <<kernel, session, msg, unmounted, signalled, exited, max_idle,
                   pool, exit, cancelled, main>>

IsForget(w) == msg[w].kind = "forget"

AvailableAll(w) == numavail - 1

\* A forget does not count as work.
Available(w) == IF IsForget(w) THEN numavail ELSE numavail - 1

StartsThreadLate(avail) == avail < 0 /\ numworker < max_threads

\* The last one that is available starts the next thread.
StartsThread(avail) == avail = 0 /\ numworker < max_threads

Started(w) == \E u \in Workers \ workers :
    /\ wpc[u] = "none"
    /\ wpc' = [wpc EXCEPT ![w] = "process", ![u] = "top"]
    /\ workers' = workers \cup {u}
    /\ numavail' = Available(w) + 1
    /\ numworker' = numworker + 1
    /\ UNCHANGED unstarted

\* fuse_loop_start_thread may fail, which nobody looks at.
Account(w) ==
    /\ wpc[w] = "got"
    /\ \/ exit /\ Leave(w) /\ UNCHANGED pool
       \/ ~exit /\ StartsThread(Available(w)) /\ Started(w) /\ UNCHANGED finish
       \/ /\ ~exit
          /\ Goto(w, "process")
          /\ numavail' = Available(w)
          /\ unstarted' = (unstarted \/ StartsThread(Available(w)))
          /\ UNCHANGED <<workers, numworker, finish>>
    /\ UNCHANGED <<kernel, session, msg, unmounted, signalled, exited, max_idle,
                   exit, cancelled, main>>

Idle(avail) == max_idle # -1 /\ avail > max_idle /\ numworker > 1

\* The worker has served its message: it is one too many, or it goes on.
After(w) ==
    LET avail == IF IsForget(w) THEN numavail ELSE numavail + 1
    IN  /\ wpc[w] = "after"
        /\ msg' = [msg EXCEPT ![w] = NoMsg]
        /\ IF ~Idle(avail)
           THEN /\ Goto(w, "top")
                /\ numavail' = avail
                /\ UNCHANGED <<workers, numworker, finish>>
           ELSE IF exit
           THEN /\ Leave(w)
                /\ numavail' = avail
                /\ UNCHANGED <<workers, numworker>>
           ELSE /\ Goto(w, "none")
                /\ workers' = workers \ {w}
                /\ numavail' = avail - 1
                /\ numworker' = numworker - 1
                /\ UNCHANGED finish
        /\ UNCHANGED <<kernel, session, unmounted, signalled, exited, max_idle,
                       unstarted, exit, cancelled, main>>

\* An operation of the filesystem calls fuse_session_exit.
OpExits(w) ==
    /\ wpc[w] = "op"
    /\ msg[w].id \in Exiting
    /\ ~exited
    /\ exited' = TRUE
    /\ UNCHANGED <<requestVars, unmounted, signalled, max_idle, pool, ending>>

-----------------------------------------------------------------------------
(* fuse_session_loop_mt_312 after it has started the first worker.         *)

Loop ==
    /\ main \in {"check", "sem_wait"}
    /\ \/ /\ main = "check"
          /\ main' = IF exited THEN "cancel" ELSE "sem_wait"
          /\ UNCHANGED finish
       \/ /\ main = "sem_wait"
          /\ finish > 0
          /\ finish' = finish - 1
          /\ main' = "check"
    /\ UNCHANGED <<requestVars, unmounted, signalled, exited, max_idle, pool,
                   exit, cancelled>>

CancelAll ==
    /\ main = "cancel"
    /\ cancelled' = workers
    /\ exit' = TRUE
    /\ main' = "join"
    /\ UNCHANGED <<requestVars, unmounted, signalled, exited, max_idle, pool, finish>>

\* fuse_join_worker, and fuse_session_reset when none is left.
Join ==
    /\ main = "join"
    /\ IF workers = {}
       THEN /\ main' = "done"
            /\ exited' = FALSE
            /\ UNCHANGED workers
       ELSE /\ \E w \in workers : /\ wpc[w] = "gone"
                                  /\ workers' = workers \ {w}
            /\ UNCHANGED <<main, exited>>
    /\ UNCHANGED <<requestVars, unmounted, signalled, max_idle, numworker, numavail,
                   unstarted, exit, cancelled, finish>>

-----------------------------------------------------------------------------
(* From outside.                                                           *)

\* exit_handler runs in the main thread, whose sem_wait it interrupts; in the
\* moment before sem_wait it only sets the flag.
Signal ==
    /\ ~signalled
    /\ main # "done"
    /\ signalled' = TRUE
    /\ exited' = TRUE
    /\ main' \in IF main = "sem_wait" THEN {"check", "sem_wait"} ELSE {main}
    /\ UNCHANGED <<requestVars, unmounted, max_idle, pool, exit, cancelled, finish>>

Unmount ==
    /\ ~unmounted
    /\ unmounted' = TRUE
    /\ UNCHANGED <<requestVars, signalled, exited, max_idle, pool, ending>>

Kernel ==
    /\ ~unmounted
    /\ \/ \E r \in Reqs : Send(Op(r)) \/ SendInterrupt(r)
       \/ \E g \in Forgets : Send(Forget(g))
    /\ UNCHANGED <<unmounted, signalled, exited, max_idle, pool, ending>>

ServeStep(w) ==
    /\ Serve(w)
    /\ UNCHANGED <<unmounted, signalled, exited, max_idle, pool, ending>>

Read(w) == ReadMsg(w) \/ ReadGone(w) \/ Cancelled(w)
WorkerStep(w) == Top(w) \/ Account(w) \/ After(w) \/ ServeStep(w)
MainStep == Loop \/ CancelAll \/ Join

Next ==
    \/ Kernel \/ Signal \/ Unmount \/ MainStep
    \/ \E w \in Workers : Read(w) \/ WorkerStep(w) \/ OpExits(w)

\* Threads run, a read returns when there is something to read, and the
\* operation of a filesystem ends unless it is one of Blocking.  Nothing makes
\* the kernel send, interrupt or unmount.
Fairness ==
    /\ \A w \in Workers : WF_vars(Read(w)) /\ WF_vars(WorkerStep(w))
    /\ WF_vars(MainStep)

Spec == Init /\ [][Next]_vars
FairSpec == Spec /\ Fairness

-----------------------------------------------------------------------------
\* Until the session ends the counters are those of the list: numworker its
\* threads, numavail those that are not busy with more than a forget.
Busy(w) == wpc[w] \in Serving \cup {"after"} /\ ~IsForget(w)
PoolCounts == ~exit =>
    /\ numworker = Cardinality(workers)
    /\ numavail = Cardinality({w \in workers : ~Busy(w)})

\* "Hence it is not possible for interrupts to be lost": while a request is in
\* service, an interrupt that was sent for it reaches it, in whatever order the
\* two were read, unless the session was told to end.
InterruptNotLost == ~exited => \A r \in asked \cap list : Delivered(r)

\* As long as fewer than max_threads operations wait for a signal, every
\* request is answered, by a thread that is started for it if need be; unless
\* one could not be started, and every other waits.
NobodyReads == unstarted /\ \A w \in workers : wpc[w] = "blocked"
Answered == \A r \in Reqs \ Blocking :
    r \in sent ~> r \in answered \/ exited \/ main = "done" \/ NobodyReads

\* "It will cause any running event loops to terminate": after an unmount, and,
\* if idle threads are kept, after fuse_session_exit in an operation, the main
\* thread joins every worker and returns, unless an operation waits for ever.
Stuck == \E w \in Workers : wpc[w] = "blocked"
LoopEnds == unmounted \/ (exited /\ ~signalled /\ max_idle = -1)
                ~> main = "done" \/ Stuck

\* An interrupt that finds the callback of its request ends the operation.
InterruptEnds == \A r \in Blocking :
    (\E w \in Workers : At(w, "intr_func", "interrupt") /\ msg[w].id = r)
        ~> r \in answered

=============================================================================
