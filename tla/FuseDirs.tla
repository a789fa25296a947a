------------------------------ MODULE FuseDirs ------------------------------
(***************************************************************************)
(* Directory handles of libfuse (fuse.c): opendir, readdir, readdirplus    *)
(* and releasedir of one directory that changes while it is read.  A       *)
(* filesystem names entries either all at once, which libfuse keeps in the *)
(* handle for later requests, or from an offset until the reply is full.   *)
(* A step is what a thread does in one call of the filesystem, one reply,  *)
(* or between taking and giving up the lock of a handle.                   *)
(***************************************************************************)
EXTENDS Naturals, Sequences, SequencesExt, FiniteSets

CONSTANTS
    Threads,
    Nobody,     \* no thread
    Handles,
    NoDh,       \* a handle without storage
    Names,      \* numbers, in the order of the directory
    Long,       \* names that take twice the room in a reply
    Sizes,      \* room that the kernel has for a reply: for every entry
    Modes,      \* of {"list", "offsets"}: what filesystems there are
    Plus,       \* READDIRPLUS, and a filesystem that gives all attributes
    MaxReqs     \* bound: requests that the kernel sends

\* struct fuse_dh: the list of all entries, whether it is filled, and the reply.
Entries == [name : Names, off : Nat, ino : BOOLEAN]
Dhs == [first : Seq(Names), filled : BOOLEAN, contents : Seq(Entries),
        error : BOOLEAN, lock : Threads \cup {Nobody}]

ASSUME DirsAssumption ==
    /\ Threads \subseteq Nat /\ IsFiniteSet(Threads) /\ Nobody \notin Threads
    /\ NoDh \notin Handles /\ NoDh \notin Dhs
    /\ Names \subseteq Nat \ {0} /\ IsFiniteSet(Names) /\ Long \subseteq Names
    /\ Sizes \subseteq Nat \ {0, 1}
    /\ Modes \subseteq {"list", "offsets"}
    /\ Plus \in BOOLEAN
    /\ MaxReqs \in Nat

VARIABLES
    dir,        \* the filesystem: the names in the directory
    mode,       \* how it fills
    fsopen,     \* the handles that it has open
    dh,         \* struct fuse_dh of each handle
    nlookup,    \* node->nlookup of each name, 0 without a node
    pc,
    req,        \* the request that each thread serves
    open,       \* the kernel: open directory files
    pos,        \* their offsets
    known,      \* lookups it remembers of each name
    got,        \* the reader of each: entries since it began or rewound
    atend,      \* it was told that there are no more
    seen,       \* names that were in the directory at any time since then
    stays,      \* names that were there all the time
    sent        \* how many requests the kernel has sent

kernel == <<open, pos, known>>
reader == <<got, atend, seen, stays>>
vars == <<dir, mode, fsopen, dh, nlookup, pc, req, kernel, reader, sent>>

NoReq == [op |-> "none", h |-> NoDh, off |-> 0, size |-> 0]
NewDh == [first |-> <<>>, filled |-> FALSE, contents |-> <<>>, error |-> FALSE,
          lock |-> Nobody]

Init ==
    /\ dir \in SUBSET Names
    /\ mode \in Modes
    /\ fsopen = {}
    /\ dh = [h \in Handles |-> NoDh]
    /\ nlookup = [n \in Names |-> 0]
    /\ pc = [t \in Threads |-> "idle"]
    /\ req = [t \in Threads |-> NoReq]
    /\ open = {}
    /\ pos = [h \in Handles |-> 0]
    /\ known = [n \in Names |-> 0]
    /\ got = [h \in Handles |-> <<>>]
    /\ atend = {}
    /\ seen = [h \in Handles |-> {}]
    /\ stays = [h \in Handles |-> {}]
    /\ sent = 0

Goto(t, place) == pc' = [pc EXCEPT ![t] = place]
Ends(t) == Goto(t, "idle") /\ req' = [req EXCEPT ![t] = NoReq]

-----------------------------------------------------------------------------
(* The directory and the kernel.                                           *)

Create(n) ==
    /\ n \notin dir
    /\ dir' = dir \cup {n}
    /\ seen' = [h \in Handles |-> IF h \in open THEN seen[h] \cup {n} ELSE {}]
    /\ UNCHANGED <<mode, fsopen, dh, nlookup, pc, req, kernel, got, atend, stays, sent>>

Unlink(n) ==
    /\ n \in dir
    /\ dir' = dir \ {n}
    /\ stays' = [h \in Handles |-> stays[h] \ {n}]
    /\ UNCHANGED <<mode, fsopen, dh, nlookup, pc, req, kernel, got, atend, seen, sent>>

\* It sends one request at a time for an open file, and does not see that a
\* thread still holds the lock of the handle after its reply.
Waits(h) == \E t \in Threads : req[t].h = h /\ pc[t] # "unlock"

Send(op, h, off, size) ==
    /\ sent < MaxReqs
    /\ sent' = sent + 1
    /\ ~Waits(h)
    /\ \E t \in Threads :
         /\ pc[t] = "idle"
         /\ \A u \in Threads : pc[u] = "idle" => t <= u
         /\ req' = [req EXCEPT ![t] = [op |-> op, h |-> h, off |-> off, size |-> size]]
         /\ Goto(t, op)
    /\ UNCHANGED <<dir, mode, fsopen, dh, nlookup, known>>

\* A reader begins to see the directory as it is, or nothing any more.
Begins(h, names) ==
    /\ pos' = [pos EXCEPT ![h] = 0]
    /\ got' = [got EXCEPT ![h] = <<>>]
    /\ atend' = atend \ {h}
    /\ seen' = [seen EXCEPT ![h] = names]
    /\ stays' = [stays EXCEPT ![h] = names]

SendOpendir(h) ==
    /\ h \notin open
    /\ Send("opendir", h, 0, 0)
    /\ UNCHANGED <<open, pos, reader>>

SendReaddir(h) ==
    /\ h \in open \ atend
    /\ \E size \in Sizes : Send("readdir", h, pos[h], size)
    /\ UNCHANGED <<open, pos, reader>>

SendReleasedir(h) ==
    /\ h \in open
    /\ Send("releasedir", h, 0, 0)
    /\ open' = open \ {h}
    /\ Begins(h, {})

Rewinddir(h) ==
    /\ h \in open
    /\ pos[h] # 0
    /\ ~Waits(h)
    /\ Begins(h, dir)
    /\ UNCHANGED <<dir, mode, fsopen, dh, nlookup, pc, req, open, known, sent>>

\* forget_node for all that the kernel remembers.
Forget(n) ==
    /\ known[n] > 0
    /\ known' = [known EXCEPT ![n] = 0]
    /\ nlookup' = [nlookup EXCEPT ![n] = @ - known[n]]
    /\ UNCHANGED <<dir, mode, fsopen, dh, pc, req, open, pos, reader, sent>>

-----------------------------------------------------------------------------
(* opendir and releasedir.                                                 *)

\* No memory, no path, or the filesystem fails; or there is a new handle.
Opendir(t) ==
    LET h == req[t].h
    IN  /\ pc[t] = "opendir"
        /\ \/ Ends(t) /\ UNCHANGED <<dh, fsopen>>
           \/ /\ dh' = [dh EXCEPT ![h] = NewDh]
              /\ fsopen' = fsopen \cup {h}
              /\ Goto(t, "reply_open")
              /\ UNCHANGED req
        /\ UNCHANGED <<dir, mode, nlookup, kernel, reader, sent>>

ReplyOpen(t) ==
    /\ pc[t] = "reply_open"
    /\ open' = open \cup {req[t].h}
    /\ Begins(req[t].h, dir)
    /\ Ends(t)
    /\ UNCHANGED <<dir, mode, fsopen, dh, nlookup, known, sent>>

\* "The opendir syscall was interrupted, so it must be cancelled."
CancelOpen(t) ==
    /\ pc[t] = "reply_open"
    /\ dh' = [dh EXCEPT ![req[t].h] = NoDh]
    /\ fsopen' = fsopen \ {req[t].h}
    /\ Ends(t)
    /\ UNCHANGED <<dir, mode, nlookup, kernel, reader, sent>>

Releasedir(t) ==
    /\ pc[t] = "releasedir"
    /\ fsopen' = fsopen \ {req[t].h}
    /\ Goto(t, "wait_reader")
    /\ UNCHANGED <<dir, mode, dh, nlookup, req, kernel, reader, sent>>

WaitReaderNot(t) ==
    /\ pc[t] = "wait_reader"
    /\ Goto(t, "free")
    /\ UNCHANGED <<dir, mode, fsopen, dh, nlookup, req, kernel, reader, sent>>

\* The lock is taken and given up, so that the last reader is done with it.
WaitReader(t) ==
    /\ pc[t] = "wait_reader"
    /\ dh[req[t].h].lock = Nobody
    /\ Goto(t, "free")
    /\ UNCHANGED <<dir, mode, fsopen, dh, nlookup, req, kernel, reader, sent>>

FreeDh(t) ==
    /\ pc[t] = "free"
    /\ dh' = [dh EXCEPT ![req[t].h] = NoDh]
    /\ Ends(t)
    /\ UNCHANGED <<dir, mode, fsopen, nlookup, kernel, reader, sent>>

-----------------------------------------------------------------------------
(* readdir and readdirplus: fuse_readdir_common.                           *)

\* Entries and the offsets behind them.  The kernel is told a node for ino.
Entry(name, off, ino) == [name |-> name, off |-> off, ino |-> ino]

Room(entries) ==
    Len(entries) + Cardinality({i \in DOMAIN entries : entries[i].name \in Long})

\* The filler, and the loop over the list, take what fits: newlen <= needlen.
Fits(entries, needlen) ==
    LET k == CHOOSE k \in 0 .. Len(entries) :
                /\ Room(SubSeq(entries, 1, k)) <= needlen
                /\ k < Len(entries) => Room(SubSeq(entries, 1, k + 1)) > needlen
    IN  SubSeq(entries, 1, k)

Ascending(s) == \A i, j \in DOMAIN s : i < j => s[i] < s[j]
InOrder(names) == CHOOSE s \in [1 .. Cardinality(names) -> names] : Ascending(s)

CountsKnown(names) == [n \in Names |-> IF n \in names /\ nlookup[n] = 0 THEN 1 ELSE nlookup[n]]

\* do_lookup of fill_dir_plus, before it is clear that the entry fits.
Counts(names) == [n \in Names |-> IF n \in names THEN nlookup[n] + 1 ELSE nlookup[n]]

\* The filesystem fills from an offset, by the numbers of the names, until the
\* filler says that the reply is full.
FillOffsets(off, size) ==
    LET names == InOrder({n \in dir : n > off})
        fit == Fits([i \in DOMAIN names |-> Entry(names[i], names[i], Plus)], size)
        asked == IF Len(fit) < Len(names) THEN Len(fit) + 1 ELSE Len(fit)
    IN  [dh |-> [NewDh EXCEPT !.contents = fit], tried |-> {names[i] : i \in 1 .. asked}]

\* It names all of the directory, if there is anything in it.
FillList == [dh |-> [NewDh EXCEPT !.first = InOrder(dir), !.filled = dir # {}], tried |-> dir]

\* The path, the filesystem, a lookup or the memory for an entry may fail.
readdir_fill(off, size) ==
    {[dh |-> [NewDh EXCEPT !.error = TRUE], tried |-> some] : some \in {{}, dir}}
      \cup {IF mode = "list" THEN FillList ELSE FillOffsets(off, size)}

\* readdir_fill_from_list: ino 0 tells the kernel to ignore what is known of it.
fill_from_list(first, off, size) ==
    IF off >= Len(first) THEN <<>>
    ELSE Fits([i \in 1 .. Len(first) - off |-> Entry(first[off + i], off + i, FALSE)], size)

RefillsNever(d, off) == ~d.filled

\* "Directory contents need to be refreshed on rewinddir()."
Refills(d, off) == off = 0 \/ ~d.filled

LockDh(t) ==
    LET h == req[t].h
    IN  /\ pc[t] = "readdir"
        /\ dh[h].lock = Nobody
        /\ dh' = [dh EXCEPT ![h].lock = t]
        /\ Goto(t, "fill")
        /\ UNCHANGED <<dir, mode, fsopen, nlookup, req, kernel, reader, sent>>

\* full is FALSE when there is no memory for the entries of a list.
Readdir(t) ==
    LET r == req[t]
        fills == IF Refills(dh[r.h], r.off) THEN readdir_fill(r.off, r.size)
                 ELSE {[dh |-> [dh[r.h] EXCEPT !.error = FALSE], tried |-> {}]}
    IN  /\ pc[t] = "fill"
        /\ \E f \in fills, full \in BOOLEAN :
             /\ nlookup' = IF Plus THEN Counts(f.tried) ELSE nlookup
             /\ dh' = [dh EXCEPT ![r.h] =
                  IF ~f.dh.filled THEN [f.dh EXCEPT !.lock = t]
                  ELSE IF ~full THEN [f.dh EXCEPT !.lock = t, !.error = TRUE]
                  ELSE [f.dh EXCEPT !.lock = t,
                                    !.contents = fill_from_list(f.dh.first, r.off, r.size)]]
        /\ Goto(t, "reply")
        /\ UNCHANGED <<dir, mode, fsopen, req, kernel, reader, sent>>

\* The kernel gets an error, the end, or entries to go on behind.  What was sent
\* is not read again.
ReplyDir(t) ==
    LET h == req[t].h
        new == dh[h].contents
        told == {new[i].name : i \in {j \in DOMAIN new : new[j].ino}}
    IN  /\ pc[t] = "reply"
        /\ IF dh[h].error THEN UNCHANGED <<pos, known, got, atend>>
           ELSE IF new = <<>> THEN atend' = atend \cup {h} /\ UNCHANGED <<pos, known, got>>
           ELSE /\ pos' = [pos EXCEPT ![h] = Last(new).off]
                /\ known' = [n \in Names |-> IF n \in told THEN known[n] + 1 ELSE known[n]]
                /\ got' = [got EXCEPT ![h] = @ \o [i \in DOMAIN new |-> new[i].name]]
                /\ UNCHANGED atend
        /\ dh' = [dh EXCEPT ![h].contents = <<>>, ![h].error = FALSE]
        /\ Goto(t, "unlock")
        /\ UNCHANGED <<dir, mode, fsopen, nlookup, req, open, seen, stays, sent>>

UnlockDh(t) ==
    /\ pc[t] = "unlock"
    /\ dh' = [dh EXCEPT ![req[t].h].lock = Nobody]
    /\ Ends(t)
    /\ UNCHANGED <<dir, mode, fsopen, nlookup, kernel, reader, sent>>

Kernel ==
    \/ \E h \in Handles : SendOpendir(h) \/ SendReaddir(h) \/ SendReleasedir(h) \/ Rewinddir(h)
    \/ \E n \in Names : Forget(n)

Changes == \E n \in Names : Create(n) \/ Unlink(n)

Step(t) ==
    \/ Opendir(t) \/ ReplyOpen(t) \/ CancelOpen(t)
    \/ Releasedir(t) \/ WaitReader(t) \/ FreeDh(t)
    \/ LockDh(t) \/ Readdir(t) \/ ReplyDir(t) \/ UnlockDh(t)

Next == Kernel \/ Changes \/ \E t \in Threads : Step(t)

Spec == Init /\ [][Next]_vars

-----------------------------------------------------------------------------
\* A reader that goes through a directory while it changes gets no entry twice,
\* none that was never there, and at the end all that were there all the time.
EntriesOnce == \A h \in Handles :
    /\ IsInjective(got[h])
    /\ ToSet(got[h]) \subseteq seen[h]
    /\ h \in atend => stays[h] \subseteq ToSet(got[h])

\* "Every entry returned by readdirplus has its lookup count incremented": no
\* node goes while the kernel knows it, or is about to.
Telling(n) == {t \in Threads : pc[t] = "reply" /\ ~dh[req[t].h].error /\
                 \E i \in DOMAIN dh[req[t].h].contents :
                    dh[req[t].h].contents[i] = Entry(n, n, TRUE)}
KnownCounted == \A n \in Names : known[n] + Cardinality(Telling(n)) <= nlookup[n]

\* A handle is there while a thread uses it, even if that only has to give up
\* its lock, and goes, in the filesystem too, when the kernel has no use for it.
Using(h) == {t \in Threads : req[t].h = h /\ pc[t] # "opendir"}
HandlesKept == \A h \in Handles :
    /\ Using(h) # {} => dh[h] # NoDh
    /\ dh[h] # NoDh \/ h \in fsopen => h \in open \/ Using(h) # {}

=============================================================================
