------------------------------ MODULE FuseTree ------------------------------
(***************************************************************************)
(* The path-based handlers of libfuse (fuse.c) over the node table: how a  *)
(* request turns a node number into a path, keeps that path true while the *)
(* filesystem works on it, and waits for others in lockq.  A step is what  *)
(* a thread does under f->lock, one call of the filesystem, or a reply.    *)
(*                                                                         *)
(* The kernel and the filesystem are external: the kernel sends what its   *)
(* own locks and caches allow, the filesystem has one directory under its  *)
(* root.                                                                   *)
(***************************************************************************)
EXTENDS NodeTree

CONSTANTS
    Threads,    \* numbers; requests go to the lowest that is free
    Names,
    Dir, File,  \* what the filesystem holds at first, one below the other
    Root,
    NoFile,
    NoPath,
    OpSets,     \* bound: operations; a behaviour has those of one set
    Refuses,    \* operations whose reply the kernel may refuse with ENOENT
    CloseRace,  \* TRUE: a file may be closed while it is opened once more
    MaxReqs     \* bound: requests that the kernel sends

ASSUME TreeAssumption ==
    /\ Threads \subseteq Nat
    /\ Refuses \subseteq {"lookup", "mknod", "link", "open", "create"}
    /\ UNION OpSets \subseteq
         {"lookup", "getattr", "open", "release", "create", "mknod", "link",
          "unlink", "rmdir", "rename", "copy", "forget"}
    /\ CloseRace \in BOOLEAN
    /\ MaxReqs \in Nat \ {0}

NodeIds == 1 .. 3 + MaxReqs
Hidden == 1 .. MaxReqs
AllNames == Names \cup Hidden
Dirs == {Root, Dir}

VARIABLES
    node,       \* f->id_table and f->name_table
    ctr,        \* f->ctr
    hidectr,    \* f->hidectr
    lockq,      \* f->lockq, the threads of its elements
    pc,
    req,        \* the request that each thread serves
    loc,        \* the variables of its handler and of its queue element
    fs,         \* the filesystem: what each directory holds by name
    opened,     \* the files that the filesystem opened for a node in use
    dentries,   \* the kernel: names it has cached
    know,       \* lookups it remembers of each node
    kfile,      \* what it takes the node to be
    files,      \* open files it has of each node
    ops,        \* the operations that it requests
    sent        \* how many of them it has sent

table == <<node, ctr>>
kernel == <<dentries, know, kfile, files, ops>>
vars == <<table, hidectr, lockq, pc, req, loc, fs, opened, kernel, sent>>

NoReq == [op |-> "none", ino |-> NoNode, name |-> NoName, ino2 |-> NoNode,
          name2 |-> NoName, node |-> NoNode, node2 |-> NoNode, count |-> 0]

Start == [path1 |-> NoPath, wnode1 |-> NoNode, first |-> FALSE,
          path2 |-> NoPath, wnode2 |-> NoNode, second |-> FALSE,
          done |-> FALSE, err |-> "none", found |-> NoNode, file |-> NoFile,
          hidden |-> 0]

\* The directory and the file, of the same name, were looked up once; the file
\* may be open.
Init ==
    \E x \in {CHOOSE name \in Names : TRUE}, n \in {0, 1} :
        /\ node = [m \in 1 .. 3 |->
              CASE m = ROOT -> [Node(NoName, NoNode) EXCEPT !.nlookup = 1, !.refctr = 2]
                [] m = 2 -> [Node(x, ROOT) EXCEPT !.nlookup = 1, !.refctr = 2]
                [] m = 3 -> [Node(x, 2) EXCEPT !.nlookup = 1, !.refctr = 1, !.open_count = n]]
        /\ ctr = 3
        /\ hidectr = 0
        /\ lockq = <<>>
        /\ pc = [t \in Threads |-> "idle"]
        /\ req = [t \in Threads |-> NoReq]
        /\ loc = [t \in Threads |-> Start]
        /\ fs = [d \in Dirs |-> [name \in AllNames |->
                    IF name # x THEN NoFile ELSE IF d = Root THEN Dir ELSE File]]
        /\ opened = [m \in NodeIds |-> IF m = 3 /\ n = 1 THEN {File} ELSE {}]
        /\ dentries = {[dir |-> ROOT, name |-> x, node |-> 2],
                       [dir |-> 2, name |-> x, node |-> 3]}
        /\ know = [m \in NodeIds |-> IF m \in 2 .. 3 THEN 1 ELSE 0]
        /\ kfile = [m \in NodeIds |-> CASE m = ROOT -> Root [] m = 2 -> Dir
                                        [] m = 3 -> File [] OTHER -> NoFile]
        /\ files = [m \in NodeIds |-> IF m = 3 THEN n ELSE 0]
        /\ ops \in OpSets
        /\ sent = 0

Op(t) == req[t].op
Goto(t, place) == pc' = [pc EXCEPT ![t] = place]
Set(t, l) == loc' = [loc EXCEPT ![t] = l]

\* The thread is done with its request; l is what loc is otherwise.
Ends(t, l) ==
    /\ Goto(t, "idle")
    /\ req' = [req EXCEPT ![t] = NoReq]
    /\ loc' = [l EXCEPT ![t] = Start]

-----------------------------------------------------------------------------
(* The kernel sends a request.                                             *)

Handed(n) == n = ROOT \/ know[n] > 0
IsDir(n) == Handed(n) /\ kfile[n] \in Dirs
Searchable == {n \in NodeIds : IsDir(n)}
Cached(d, name) == {e \in dentries : e.dir = d /\ e.name = name}
CachedNode(d, name) ==
    IF Cached(d, name) = {} THEN NoNode ELSE (CHOOSE e \in Cached(d, name) : TRUE).node

\* It waits for the answer of t.
Asks(t) ==
    /\ pc[t] \notin {"idle", "close", "forget", "forget_wait", "leave", "leave2"}
    /\ pc[t] = "unlink_hidden" => Op(t) = "release"
    /\ Op(t) # "forget"
Uses(t, n) == Asks(t) /\ n \in {req[t].ino, req[t].ino2, req[t].node, req[t].node2}

\* The lock of a directory, for one that changes it or many that search it.
Changes(t) == CASE Op(t) \in {"create", "mknod", "unlink"} -> {req[t].ino}
                [] Op(t) = "link" -> {req[t].ino2}
                [] Op(t) = "rename" -> {req[t].ino, req[t].ino2}
                [] Op(t) = "rmdir" -> {req[t].ino, req[t].node}
                [] OTHER -> {}
Changing(d) == \E t \in Threads : Asks(t) /\ d \in Changes(t)
Searched(d) == \E t \in Threads : Asks(t) /\ Op(t) = "lookup" /\ req[t].ino = d
                                    /\ req[t].node = NoNode
Locked(d) == Changing(d) \/ Searched(d)
Asking(op, n) == \E t \in Threads : Asks(t) /\ Op(t) = op /\ req[t].ino = n
Copying(n) == \E t \in Threads : Asks(t) /\ Op(t) = "copy" /\ n \in {req[t].ino, req[t].ino2}
Removing(n) == \E t \in Threads : Asks(t) /\ Op(t) \in {"unlink", "rename"}
                                    /\ n \in {req[t].node, req[t].node2}

Send(r, place) ==
    /\ r.op \in ops
    /\ sent' = sent + 1
    /\ \E t \in Threads : /\ pc[t] = "idle"
                          /\ \A u \in Threads : pc[u] = "idle" => t <= u
                          /\ req' = [req EXCEPT ![t] = r]
                          /\ Goto(t, place)

On(op, n) == [NoReq EXCEPT !.op = op, !.ino = n]
InDir(op, d, name) ==
    [NoReq EXCEPT !.op = op, !.ino = d, !.name = name, !.node = CachedNode(d, name)]

\* A name that is cached is looked up again without the lock.
SendLookup(d, name) ==
    /\ Cached(d, name) = {} =>
          ~Changing(d) /\ \A t \in Threads : ~(Asks(t) /\ Op(t) = "lookup"
                                      /\ req[t].ino = d /\ req[t].name = name)
    /\ Send(InDir("lookup", d, name), "lock")
    /\ UNCHANGED kernel

SendGetattr(n) ==
    /\ know[n] > 0
    /\ Send(On("getattr", n), "lock")
    /\ UNCHANGED kernel

SendOpen(n) ==
    /\ know[n] > 0 /\ ~IsDir(n)
    /\ \E e \in dentries : e.node = n
    /\ CloseRace \/ ~Asking("release", n)
    /\ Send(On("open", n), "lock")
    /\ UNCHANGED kernel

SendRelease(n) ==
    /\ files[n] > 0
    /\ CloseRace \/ ~Asking("open", n)
    /\ ~Copying(n)
    /\ Send(On("release", n), "lock")
    /\ files' = [files EXCEPT ![n] = @ - 1]
    /\ UNCHANGED <<dentries, know, kfile, ops>>

SendNew(op, d, name) ==
    /\ ~Locked(d)
    /\ Cached(d, name) = {}
    /\ fs[kfile[d]][name] = NoFile
    /\ Send([InDir(op, d, name) EXCEPT !.count = sent + 1], "lock")
    /\ UNCHANGED kernel

SendCreate(d, name) == SendNew("create", d, name)
SendMknod(d, name) == SendNew("mknod", d, name)

\* The file is locked against a change of its name, and against another link.
SendLink(n, d, name) ==
    /\ \E e \in dentries : e.node = n
    /\ ~IsDir(n)
    /\ ~Locked(d) /\ ~Removing(n) /\ ~Asking("link", n)
    /\ Cached(d, name) = {}
    /\ fs[kfile[d]][name] = NoFile
    /\ Send([On("link", n) EXCEPT !.ino2 = d, !.name2 = name], "lock")
    /\ UNCHANGED kernel

SendCopy(n, n2) ==
    /\ files[n] > 0 /\ files[n2] > 0
    /\ Send([On("copy", n) EXCEPT !.ino2 = n2], "lock")
    /\ UNCHANGED kernel

SendUnlink(d, name) ==
    /\ ~Locked(d)
    /\ Cached(d, name) # {}
    /\ ~IsDir(CachedNode(d, name))
    /\ ~Asking("link", CachedNode(d, name))
    /\ Send(InDir("unlink", d, name), "lock")
    /\ UNCHANGED kernel

SendRmdir(d, name) ==
    /\ Cached(d, name) # {}
    /\ IsDir(CachedNode(d, name))
    /\ ~Locked(d) /\ ~Locked(CachedNode(d, name))
    /\ Send(InDir("rmdir", d, name), "lock")
    /\ UNCHANGED kernel

\* No directory is moved below itself, or put in the place of anything.
SendRename(d, name, d2, name2) ==
    LET n == CachedNode(d, name)
        n2 == CachedNode(d2, name2)
    IN  /\ n # NoNode /\ n # d2
        /\ ~Locked(d) /\ ~Locked(d2)
        /\ <<d, name>> # <<d2, name2>>
        /\ IF n2 = NoNode THEN fs[kfile[d2]][name2] = NoFile
           ELSE ~IsDir(n) /\ ~IsDir(n2) /\ n2 # n /\ ~Asking("link", n2)
        /\ ~Asking("link", n)
        /\ Send([InDir("rename", d, name) EXCEPT !.ino2 = d2, !.name2 = name2,
                                                 !.node2 = n2], "lock")
        /\ UNCHANGED kernel

\* A node that is not in use is evicted with its name.
SendForget(n) ==
    /\ know[n] > 0
    /\ files[n] = 0
    /\ \A t \in Threads : ~Uses(t, n)
    /\ \A e \in dentries : e.dir # n
    /\ Send([On("forget", n) EXCEPT !.count = know[n]], "forget")
    /\ know' = [know EXCEPT ![n] = 0]
    /\ dentries' = {e \in dentries : e.node # n}
    /\ UNCHANGED <<kfile, files, ops>>

Kernel ==
    /\ sent < MaxReqs
    /\ \E t \in Threads : pc[t] = "idle"
    /\ \/ \E d \in Searchable, name \in Names :
             \/ SendLookup(d, name) \/ SendCreate(d, name) \/ SendMknod(d, name)
             \/ \E n \in NodeIds : SendLink(n, d, name)
             \/ SendUnlink(d, name) \/ SendRmdir(d, name)
       \/ \E d, d2 \in Searchable, name, name2 \in Names : SendRename(d, name, d2, name2)
       \/ \E n \in NodeIds \ {ROOT} :
             \/ SendGetattr(n) \/ SendOpen(n) \/ SendRelease(n) \/ SendForget(n)
             \/ \E n2 \in NodeIds : SendCopy(n, n2)
    /\ UNCHANGED <<table, hidectr, lockq, loc, fs, opened>>

-----------------------------------------------------------------------------
(* get_path, get_path2 and the queue.                                      *)

Try1(tab, r) == try_get_path(tab, r.ino, r.name, r.op \in {"unlink", "rmdir", "rename"})
Try2(tab, r) == try_get_path(tab, r.ino2, r.name2, r.op = "rename")
TwoPaths(t) == Op(t) \in {"rename", "link"}

\* A release goes on without a path; the others answer with the error.  A copy
\* has two paths but takes one after the other.
AfterPath(t, err) ==
    Goto(t, IF Op(t) = "copy" /\ err = "none" THEN "lock2"
            ELSE IF err = "none" \/ Op(t) = "release" THEN "fs" ELSE "answer")
AfterSecond(t, err) == Goto(t, IF err = "none" THEN "answer" ELSE "free")

\* try_get_path2 and what follows it: a is the first path, b the last.
GotPath(t, a, b, both) ==
    /\ node' = IF both /\ b.err # "none" THEN unlock_path(b.tab, req[t].ino, a.wnode) ELSE b.tab
    /\ IF b.err = "none"
       THEN Set(t, [Start EXCEPT !.path1 = a.path, !.wnode1 = a.wnode,
                                 !.path2 = IF both THEN b.path ELSE NoPath,
                                 !.wnode2 = IF both THEN b.wnode ELSE NoNode])
       ELSE Set(t, [Start EXCEPT !.err = b.err])
    /\ IF b.err = "again"
       THEN lockq' = Append(lockq, t) /\ Goto(t, "wait")
       ELSE AfterPath(t, b.err) /\ UNCHANGED lockq

GetPath(t) ==
    /\ pc[t] = "lock"
    /\ \E a \in {Try1(node, req[t])} :
       LET both == TwoPaths(t) /\ a.err = "none"
       IN  \E b \in {IF both THEN Try2(a.tab, req[t]) ELSE a} :
           GotPath(t, a, b, both)
    /\ UNCHANGED <<ctr, hidectr, req, fs, opened, kernel, sent>>

\* The second get_path of fuse_lib_copy_file_range.
GetSecond(t) ==
    LET b == Try2(node, req[t])
    IN  /\ pc[t] = "lock2"
        /\ node' = b.tab
        /\ Set(t, IF b.err = "none" THEN [loc[t] EXCEPT !.path2 = b.path]
                  ELSE IF b.err = "again" THEN loc[t] ELSE [loc[t] EXCEPT !.err = b.err])
        /\ IF b.err = "again" THEN lockq' = Append(lockq, t) /\ Goto(t, "wait2")
           ELSE AfterSecond(t, b.err) /\ UNCHANGED lockq
        /\ UNCHANGED <<ctr, hidectr, req, fs, opened, kernel, sent>>

\* The node and the lookups that a thread forgets.
Forgotten(t) == IF Op(t) = "forget" THEN [node |-> req[t].ino, count |-> req[t].count]
                ELSE [node |-> loc[t].found, count |-> 1]

UnlockFirst(s, t) ==
    IF s.loc[t].first
    THEN [tab |-> unlock_path(s.tab, req[t].ino, s.loc[t].wnode1),
          loc |-> [s.loc EXCEPT ![t].first = FALSE]]
    ELSE s
UnlockSecond(s, t) ==
    IF s.loc[t].second
    THEN [tab |-> unlock_path(s.tab, req[t].ino2, s.loc[t].wnode2),
          loc |-> [s.loc EXCEPT ![t].second = FALSE]]
    ELSE s
queue_element_unlock(s, t) == UnlockSecond(UnlockFirst(s, t), t)

TryFirst(s, t) ==
    LET a == Try1(s.tab, req[t])
    IN  IF s.loc[t].first \/ pc[t] = "wait2"
        THEN [tab |-> s.tab, loc |-> s.loc, err |-> "none"]
        ELSE [tab |-> a.tab, err |-> a.err,
              loc |-> IF a.err # "none" THEN s.loc
                      ELSE [s.loc EXCEPT ![t].first = TRUE, ![t].path1 = a.path,
                                         ![t].wnode1 = a.wnode]]
TrySecond(s, t) ==
    LET b == Try2(s.tab, req[t])
    IN  IF ~(TwoPaths(t) \/ pc[t] = "wait2") \/ s.loc[t].second
        THEN [tab |-> s.tab, loc |-> s.loc, err |-> "none"]
        ELSE [tab |-> b.tab, err |-> b.err,
              loc |-> IF b.err # "none" THEN s.loc
                      ELSE [s.loc EXCEPT ![t].second = TRUE, ![t].path2 = b.path,
                                         ![t].wnode2 = b.wnode]]

Done(s, t, err) == [s EXCEPT !.loc[t].done = TRUE, !.loc[t].err = err]
Pass(r) == [tab |-> r.tab, loc |-> r.loc]

\* Only the first in the queue keeps one path while it lacks the other.
Keeps(t) == t = Head(lockq)

\* The outcome for t, when its first path gave a and its second b.
Woken(s, t, a, b) ==
    IF pc[t] = "forget_wait"
    THEN IF s.tab[Forgotten(t).node].treelock = 0 THEN [s EXCEPT !.loc[t].done = TRUE] ELSE s
    ELSE IF a.err = "stale" THEN Done(queue_element_unlock(Pass(a), t), t, "stale")
    ELSE IF b.err = "stale" THEN Done(queue_element_unlock(Pass(b), t), t, "stale")
    ELSE IF a.err = "none" /\ b.err = "none" THEN Done(Pass(b), t, "none")
    ELSE IF Keeps(t) THEN Pass(b)
    ELSE queue_element_unlock(Pass(b), t)

\* Woken(s, t, ...); each bound variable has one value.
queue_element_wakeup(before, t) ==
    CHOOSE r \in UNION {{Woken(s, t, a, b) : b \in {TrySecond(Pass(a), t)}} :
                           <<s, a>> \in {<<s, TryFirst(s, t)>> : s \in {before}}} : TRUE

wake_up_queuedHead(tab, l) ==
    FoldLeft(queue_element_wakeup, [tab |-> tab, loc |-> l],
             SubSeq(lockq, 1, IF lockq = <<>> THEN 0 ELSE 1))

wake_up_queued(tab, l) == FoldLeft(queue_element_wakeup, [tab |-> tab, loc |-> l], lockq)

\* The end of wait_path.
Wake(t) ==
    /\ pc[t] \in {"wait", "wait2"}
    /\ loc[t].done
    /\ lockq' = Remove(lockq, t)
    /\ IF pc[t] = "wait" THEN AfterPath(t, loc[t].err) ELSE AfterSecond(t, loc[t].err)
    /\ Set(t, [loc[t] EXCEPT !.first = FALSE, !.second = FALSE, !.done = FALSE])
    /\ UNCHANGED <<table, hidectr, req, fs, opened, kernel, sent>>

\* free_path, free_path_wrlock and free_path2; a release may have no path.
FreePath(t) ==
    /\ pc[t] \in {"free", "leave"} \/ (pc[t] = "fs" /\ Op(t) = "getattr")
    /\ \E one \in {unlock_path(node, req[t].ino, loc[t].wnode1)} :
       \E all \in {IF TwoPaths(t) THEN unlock_path(one, req[t].ino2, loc[t].wnode2) ELSE one} :
       \E woken \in {IF loc[t].path1 = NoPath THEN [tab |-> node, loc |-> loc]
                     ELSE wake_up_queued(all, [loc EXCEPT ![t].path1 = NoPath,
                              ![t].path2 = IF TwoPaths(t) THEN NoPath ELSE @])} :
           /\ node' = woken.tab
           /\ IF pc[t] = "leave" /\ Op(t) # "copy" THEN Ends(t, woken.loc)
              ELSE IF pc[t] = "leave" THEN loc' = woken.loc /\ Goto(t, "leave2") /\ UNCHANGED req
              ELSE loc' = woken.loc /\ Goto(t, "answer") /\ UNCHANGED req
    /\ UNCHANGED <<ctr, hidectr, lockq, fs, opened, kernel, sent>>

\* The second free_path of fuse_lib_copy_file_range.
FreeSecond(t) ==
    /\ pc[t] = "leave2"
    /\ \E one \in {unlock_path(node, req[t].ino2, NoNode)} :
       \E woken \in {wake_up_queued(one, [loc EXCEPT ![t].path2 = NoPath])} :
          node' = woken.tab /\ Ends(t, woken.loc)
    /\ UNCHANGED <<ctr, hidectr, lockq, fs, opened, kernel, sent>>

-----------------------------------------------------------------------------
(* The handlers between the two.                                           *)

Resolve(path) ==
    FoldLeft(LAMBDA f, name : IF f \in Dirs THEN fs[f][name] ELSE NoFile, Root, path)
Parent(path) == Resolve(Front(path))
Failed(t, place) ==
    /\ Set(t, [loc[t] EXCEPT !.err = "failed"])
    /\ Goto(t, place)
    /\ UNCHANGED fs

\* lookup_path, or fuse_fs_open: the filesystem finds the file or not.
FsLookup(t) ==
    LET file == Resolve(loc[t].path1)
        fails == IF Op(t) = "lookup" THEN "free" ELSE "answer"
    IN  /\ pc[t] = "fs"
        /\ Op(t) \in {"lookup", "open"}
        /\ IF file = NoFile THEN Failed(t, fails)
           ELSE /\ Set(t, [loc[t] EXCEPT !.file = file])
                /\ Goto(t, IF Op(t) = "lookup" THEN "find" ELSE "count")
                /\ UNCHANGED fs
        /\ UNCHANGED <<table, hidectr, lockq, req, opened, kernel, sent>>

\* The entry that a request asks for, and its path.
Wanted(t) == IF Op(t) = "link" THEN [dir |-> req[t].ino2, name |-> req[t].name2]
             ELSE [dir |-> req[t].ino, name |-> req[t].name]
NewPath(t) == IF Op(t) = "link" THEN loc[t].path2 ELSE loc[t].path1

\* A file that the filesystem creates is told apart by the number of its request.
NewFile(t) == IF Op(t) = "link" THEN Resolve(loc[t].path1) ELSE req[t].count

\* The name is made, and lookup_path finds it or fails.
FsCreate(t) ==
    LET path == NewPath(t)
        fails == IF Op(t) = "create" THEN "answer" ELSE "free"
    IN  /\ pc[t] = "fs"
        /\ Op(t) \in {"create", "mknod", "link"}
        /\ \/ Failed(t, fails)
           \/ /\ Parent(path) # NoFile
              /\ NewFile(t) # NoFile
              /\ fs' = [fs EXCEPT ![Parent(path)][Last(path)] = NewFile(t)]
              /\ \/ Set(t, [loc[t] EXCEPT !.file = NewFile(t)]) /\ Goto(t, "find")
                 \/ Set(t, [loc[t] EXCEPT !.err = "failed"]) /\ Goto(t, fails)
        /\ UNCHANGED <<table, hidectr, lockq, req, opened, kernel, sent>>

FindNode(t) ==
    LET tab == find_node(node, Wanted(t).dir, Wanted(t).name, ctr + 1)
    IN  /\ pc[t] = "find"
        /\ node' = tab
        /\ ctr' = IF ctr + 1 \in DOMAIN tab THEN ctr + 1 ELSE ctr
        /\ Set(t, [loc[t] EXCEPT !.found = lookup_node(tab, Wanted(t).dir, Wanted(t).name)])
        /\ Goto(t, IF Op(t) = "create" THEN "count" ELSE "free")
        /\ UNCHANGED <<hidectr, lockq, req, fs, opened, kernel, sent>>

Target(t) == IF Op(t) = "create" THEN loc[t].found ELSE req[t].ino

CountOpen(t) ==
    /\ pc[t] = "count"
    /\ node' = [node EXCEPT ![Target(t)].open_count = @ + 1]
    /\ opened' = [opened EXCEPT ![Target(t)] = @ \cup {loc[t].file}]
    /\ Goto(t, "answer")
    /\ UNCHANGED <<ctr, hidectr, lockq, req, loc, fs, kernel, sent>>

\* The name that unlink or rename takes away.
Victim(t) == IF Op(t) = "unlink"
             THEN [dir |-> req[t].ino, name |-> req[t].name, path |-> loc[t].path1]
             ELSE [dir |-> req[t].ino2, name |-> req[t].name2, path |-> loc[t].path2]
VictimNode(t) == lookup_node(node, Victim(t).dir, Victim(t).name)

IsOpen(t) ==
    /\ pc[t] = "fs"
    /\ Op(t) \in {"unlink", "rename"}
    /\ Goto(t, IF is_open(node, Victim(t).dir, Victim(t).name) THEN "hide" ELSE Op(t))
    /\ UNCHANGED <<table, hidectr, lockq, req, loc, fs, opened, kernel, sent>>

\* hide_node: hidden_name and the rename in the filesystem, then rename_node.
Hide(t) ==
    LET path == Victim(t).path
        dir == Parent(path)
    IN  /\ pc[t] = "hide"
        /\ hidectr' = hidectr + 1
        /\ \/ Failed(t, "free")
           \/ /\ Resolve(path) # NoFile
              /\ fs' = [fs EXCEPT ![dir][Last(path)] = NoFile,
                                  ![dir][hidectr + 1] = Resolve(path)]
              /\ Set(t, [loc[t] EXCEPT !.hidden = hidectr + 1])
              /\ Goto(t, "hidden")
        /\ UNCHANGED <<table, lockq, req, opened, kernel, sent>>

HideNode(t) ==
    LET n == VictimNode(t)
        tab == rename_node(node, Victim(t).dir, Victim(t).name, Victim(t).dir,
                           loc[t].hidden)
    IN  /\ pc[t] = "hidden"
        /\ node' = [tab EXCEPT ![n].is_hidden = TRUE]
        /\ Goto(t, IF Op(t) = "rename" THEN "rename" ELSE "free")
        /\ UNCHANGED <<ctr, hidectr, lockq, req, loc, fs, opened, kernel, sent>>

FsUnlink(t) ==
    LET path == loc[t].path1
    IN  /\ pc[t] = "unlink"
        /\ \/ Failed(t, "free")
           \/ /\ Resolve(path) # NoFile
              /\ fs' = [fs EXCEPT ![Parent(path)][Last(path)] = NoFile]
              /\ Goto(t, "remove")
              /\ UNCHANGED loc
        /\ UNCHANGED <<table, hidectr, lockq, req, opened, kernel, sent>>

FsRmdir(t) ==
    LET path == loc[t].path1
    IN  /\ pc[t] = "fs"
        /\ Op(t) = "rmdir"
        /\ \/ Failed(t, "free")
           \/ /\ Resolve(path) \in Dirs
              /\ \A name \in AllNames : fs[Resolve(path)][name] = NoFile
              /\ fs' = [fs EXCEPT ![Parent(path)][Last(path)] = NoFile]
              /\ Goto(t, "remove")
              /\ UNCHANGED loc
        /\ UNCHANGED <<table, hidectr, lockq, req, opened, kernel, sent>>

\* Two names of one file stay as they are.
FsRename(t) ==
    LET old == loc[t].path1
        new == loc[t].path2
        file == Resolve(old)
    IN  /\ pc[t] = "rename"
        /\ \/ Failed(t, "free")
           \/ /\ file # NoFile
              /\ Parent(new) # NoFile
              /\ fs' = IF Resolve(new) = file THEN fs
                       ELSE [[fs EXCEPT ![Parent(old)][Last(old)] = NoFile]
                                 EXCEPT ![Parent(new)][Last(new)] = file]
              /\ Goto(t, "remove")
              /\ UNCHANGED loc
        /\ UNCHANGED <<table, hidectr, lockq, req, opened, kernel, sent>>

MoveNode(t) ==
    /\ pc[t] = "remove"
    /\ node' = IF Op(t) = "rename"
               THEN rename_node(node, req[t].ino, req[t].name, req[t].ino2, req[t].name2)
               ELSE remove_node(node, req[t].ino, req[t].name)
    /\ Goto(t, "free")
    /\ UNCHANGED <<ctr, hidectr, lockq, req, loc, fs, opened, kernel, sent>>

\* fuse_do_release: the last one of a hidden file unlinks it.
CloseNode(t) ==
    LET n == Target(t)
        last == node[n].open_count = 1
    IN  /\ pc[t] = "close" \/ (pc[t] = "fs" /\ Op(t) = "release")
        /\ node' = [node EXCEPT ![n].open_count = @ - 1,
                                ![n].is_hidden = @ /\ ~last]
        /\ opened' = [opened EXCEPT ![n] = IF last THEN {} ELSE @]
        /\ Goto(t, IF LeftHidden(node[n]) THEN "unlink_hidden"
                   ELSE IF Op(t) = "release" THEN "free"
                   ELSE IF Op(t) = "create" THEN "forget" ELSE "leave")
        /\ UNCHANGED <<ctr, hidectr, lockq, req, loc, fs, kernel, sent>>

UnlinkHidden(t) ==
    LET path == loc[t].path1
    IN  /\ pc[t] = "unlink_hidden"
        /\ fs' = IF path = NoPath \/ Resolve(path) = NoFile THEN fs
                 ELSE [fs EXCEPT ![Parent(path)][Last(path)] = NoFile]
        /\ Goto(t, CASE Op(t) = "release" -> "free"
                     [] Op(t) = "create" -> "forget"
                     [] OTHER -> "leave")
        /\ UNCHANGED <<table, hidectr, lockq, req, loc, opened, kernel, sent>>

\* forget_node waits while the node is locked, if nothing is to be left of it.
Forget(t) ==
    LET n == Forgotten(t).node
        waits == node[n].nlookup = Forgotten(t).count /\ node[n].treelock # 0
    IN  /\ pc[t] = "forget" \/ (pc[t] = "forget_wait" /\ loc[t].done)
        /\ IF waits
           THEN /\ lockq' = IF pc[t] = "forget" THEN Append(lockq, t) ELSE lockq
                /\ Goto(t, "forget_wait")
                /\ Set(t, [loc[t] EXCEPT !.done = FALSE])
                /\ UNCHANGED <<node, req>>
           ELSE /\ lockq' = Remove(lockq, t)
                /\ node' = DropLookups(node, n, Forgotten(t).count)
                /\ IF Op(t) = "create" THEN Goto(t, "leave") /\ UNCHANGED <<req, loc>>
                   ELSE Ends(t, loc)
        /\ UNCHANGED <<ctr, hidectr, fs, opened, kernel, sent>>

-----------------------------------------------------------------------------
(* Replies, and what the kernel makes of them.                             *)

\* open, create and copy_file_range answer before they give their paths back.
HoldsOn(t) == Op(t) \in {"open", "create", "copy"} /\ loc[t].path1 # NoPath

Hashed(d, name, n) == [dir |-> d, name |-> name, node |-> n]

\* A name that was cached stays if it is still that of its node.
Entered(t) ==
    LET r == req[t]
    IN  IF r.node = NoNode
        THEN dentries \cup {Hashed(Wanted(t).dir, Wanted(t).name, loc[t].found)}
        ELSE IF r.node = loc[t].found THEN dentries
        ELSE {e \in dentries : e.node # r.node /\ e.dir # r.node}

Understood(t) ==
    LET r == req[t]
        n == loc[t].found
    IN  CASE r.op \in {"lookup", "create", "mknod", "link"} ->
               /\ know' = [know EXCEPT ![n] = @ + 1]
               /\ kfile' = IF r.node \in {NoNode, n} THEN [kfile EXCEPT ![n] = loc[t].file]
                           ELSE kfile
               /\ dentries' = Entered(t)
               /\ files' = IF r.op = "create" THEN [files EXCEPT ![n] = @ + 1] ELSE files
               /\ UNCHANGED ops
          [] r.op = "open" ->
               /\ files' = [files EXCEPT ![r.ino] = @ + 1]
               /\ UNCHANGED <<dentries, know, kfile, ops>>
          [] r.op = "unlink" ->
               /\ dentries' = dentries \ {Hashed(r.ino, r.name, r.node)}
               /\ UNCHANGED <<know, kfile, files, ops>>
          [] r.op = "rmdir" ->
               /\ dentries' = dentries \ {Hashed(r.ino, r.name, r.node)}
               /\ kfile' = [kfile EXCEPT ![r.node] = NoFile]
               /\ UNCHANGED <<know, files, ops>>
          [] r.op = "rename" ->
               /\ dentries' = (dentries \ {Hashed(r.ino, r.name, r.node),
                                           Hashed(r.ino2, r.name2, r.node2)})
                                 \cup {Hashed(r.ino2, r.name2, r.node)}
               /\ UNCHANGED <<know, kfile, files, ops>>
          [] OTHER -> UNCHANGED kernel

Answer(t) ==
    /\ pc[t] = "answer"
    /\ IF loc[t].err = "none" THEN Understood(t)
       ELSE /\ dentries' = IF Op(t) = "lookup" /\ req[t].node # NoNode
                           THEN {e \in dentries : e.node # req[t].node /\ e.dir # req[t].node}
                           ELSE dentries
            /\ UNCHANGED <<know, kfile, files, ops>>
    /\ IF HoldsOn(t) THEN Goto(t, "leave") /\ UNCHANGED <<req, loc>> ELSE Ends(t, loc)
    /\ UNCHANGED <<table, hidectr, lockq, fs, opened, sent>>

\* A reply that the kernel refuses is undone.
Refuse(t) ==
    /\ pc[t] = "answer"
    /\ Op(t) \in Refuses
    /\ loc[t].err = "none"
    /\ Goto(t, IF Op(t) \in {"open", "create"} THEN "close" ELSE "forget")
    /\ UNCHANGED <<table, hidectr, lockq, req, loc, fs, opened, kernel, sent>>

Step(t) ==
    \/ GetPath(t) \/ GetSecond(t) \/ Wake(t) \/ FreePath(t) \/ FreeSecond(t)
    \/ FsLookup(t) \/ FsCreate(t) \/ FindNode(t) \/ CountOpen(t)
    \/ IsOpen(t) \/ Hide(t) \/ HideNode(t) \/ FsUnlink(t) \/ FsRmdir(t) \/ FsRename(t) \/ MoveNode(t)
    \/ CloseNode(t) \/ UnlinkHidden(t) \/ Forget(t)
    \/ Answer(t) \/ Refuse(t)

Next == Kernel \/ \E t \in Threads : Step(t)

Spec == Init /\ [][Next]_vars

-----------------------------------------------------------------------------
Has1(t) == loc[t].path1 # NoPath /\ (pc[t] = "wait" => loc[t].first)
Has2(t) == loc[t].path2 # NoPath /\ (pc[t] \in {"wait", "wait2"} => loc[t].second)

\* While a request holds a path, the names from its node up to the root are
\* still those of the path, whatever is renamed and unlinked meanwhile.
Behind(name) == IF name = NoName THEN <<>> ELSE <<name>>
Names1(t) == PathOf(node, req[t].ino) \o Behind(req[t].name)
Names2(t) == PathOf(node, req[t].ino2) \o Behind(req[t].name2)
HeldPathsTrue == \A t \in Threads :
    /\ Has1(t) => ~Stale(node, req[t].ino) /\ loc[t].path1 = Names1(t)
    /\ Has2(t) => ~Stale(node, req[t].ino2) /\ loc[t].path2 = Names2(t)

\* The number in each node is that of the paths held through it: one writer
\* and nobody else, or the readers, with the offset or without it.
LocksCounted ==
    LET line1 == [t \in Threads |-> IF Has1(t) THEN ToSet(Line(node, req[t].ino)) ELSE {}]
        line2 == [t \in Threads |-> IF Has2(t) THEN ToSet(Line(node, req[t].ino2)) ELSE {}]
        Readers(n) == Cardinality({t \in Threads : n \in line1[t]})
                        + Cardinality({t \in Threads : n \in line2[t]})
        Writers(n) == Cardinality({t \in Threads : Has1(t) /\ loc[t].wnode1 = n})
                        + Cardinality({t \in Threads : Has2(t) /\ loc[t].wnode2 = n})
    IN  \A n \in DOMAIN node \ {ROOT} :
          \E w \in {Writers(n)}, r \in {Readers(n)} :
             IF w > 0 THEN w = 1 /\ r = 0 /\ node[n].treelock = TREELOCK_WRITE
             ELSE node[n].treelock \in {r} \cup (IF r > 0 THEN {r + TREELOCK_WAIT_OFFSET} ELSE {})

\* A node counts the lookups that the kernel remembers, is about to be told
\* or has told to forget; it is there as long as they or its children need it.
Told(n) == {t \in Threads : loc[t].found = n /\ pc[t] # "leave"}
Returned(n) == FoldSet(LAMBDA t, k : k + req[t].count, 0,
                       {t \in Threads : Op(t) = "forget" /\ req[t].ino = n})
LookupsCounted == \A n \in NodeIds \ {ROOT} :
    LET lookups == know[n] + Cardinality(Told(n)) + Returned(n)
        children == Cardinality(Children(node, n))
    IN  IF n \notin DOMAIN node THEN lookups = 0
        ELSE /\ node[n].nlookup = lookups
             /\ node[n].refctr = children + (IF lookups > 0 THEN 1 ELSE 0)

\* "Only removed when the file is finally released": while a file is open, its
\* node leads to it in the filesystem, unless a thread is moving that path.
Moving(line) == \E i \in DOMAIN line : node[line[i]].treelock = TREELOCK_WRITE
OpenFilesKept == \A n \in {m \in DOMAIN node : opened[m] # {}} :
    \E line \in {Line(node, n)} :
       ~Moving(line) => ~Stale(node, n) /\ opened[n] = {Resolve(PathOf(node, n))}

\* No hidden file is left behind: each is that of an open node, or is about to
\* get its node or to be unlinked.
HiddenFilesOwned == \A d \in Dirs, h \in Hidden : fs[d][h] # NoFile =>
    \/ \E n \in DOMAIN node : node[n].is_hidden /\ fs[d][h] \in opened[n]
    \/ \E t \in Threads : pc[t] \in {"hidden", "unlink_hidden"}

Runs(t) == pc[t] \notin {"idle", "wait", "wait2", "forget_wait"} \/ loc[t].done

\* Threads sleep in the queue only while another runs that will wake them, but
\* for a rename at its head that has one of its paths and not the other, and for
\* a copy, which always waits for its second path with the first.
HasOneOfTwo(t) == loc[t].first \/ loc[t].second \/ pc[t] = "wait2"
QueueMoves == lockq # <<>> =>
    \/ HasOneOfTwo(Head(lockq))
    \/ \E t \in Threads : pc[t] = "wait2" \/ Runs(t)

\* "Only let the first element be partially locked otherwise there could be a
\* deadlock": with that, threads never all sleep in the queue.
NoDeadlock == lockq # <<>> => \E t \in Threads : Runs(t)

=============================================================================
