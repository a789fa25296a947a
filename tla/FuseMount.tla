----------------------------- MODULE FuseMount -----------------------------
(***************************************************************************)
(* A mount point of libfuse: the servers that mount a file system on it    *)
(* (fuse_main_real, mount.c), the helper that each of them may start       *)
(* (fusermount3), and somebody who unmounts by hand.  A server is one run  *)
(* of the program.                                                         *)
(*                                                                         *)
(* A mount, its entry in /etc/mtab and the descriptor of its connection    *)
(* come and go in separate steps of several processes, which only know the *)
(* path.  KeepsDescriptor, DetachUnchecked and PollIgnored are plausible   *)
(* bugs of the definitions that follow them, which the model never uses.   *)
(***************************************************************************)
EXTENDS Naturals, Sequences

CONSTANTS
    Servers,
    AutoUnmount,   \* the servers with -o auto_unmount
    Person         \* runs fusermount3 -u, or umount, once

NoOne == <<>>
Helper(s) == <<"helper", s>>
Helpers == {Helper(s) : s \in Servers}

ASSUME MountAssumption ==
    /\ AutoUnmount \subseteq Servers
    /\ Person \notin Servers \cup Helpers
    /\ Servers \cap Helpers = {}
    /\ NoOne \notin Servers \cup {Person}

Procs == Servers \cup Helpers \cup {Person}

VARIABLES
    root,      \* everybody is root, or the same user
    mtabFile,  \* /etc/mtab is a file of its own, not a link to /proc/mounts
    mounts,    \* the kernel: connections mounted on the path, the topmost last
    mtab,      \* the entries for the path in the file
    at,        \* where each process is
    holds,     \* the processes with a descriptor of their server's connection
    tries,     \* how often each server has started a helper
    mtablock,  \* who has the lock of lock_umount
    raced,     \* history: a mount went since the process looked
    lost,      \* history: a mount has no entry
    stale,     \* history: an entry was left when its mount was gone
    early,     \* history: a mount was unmounted before it had its entry
    unlocked,  \* history: somebody went on without the lock
    orphaned,  \* history: a server was killed before it got its connection
    failed     \* history: the helpers that an error or a signal ended

machine == <<root, mtabFile>>
table == <<mounts, mtab>>
procs == <<at, holds, tries, mtablock>>
history == <<raced, lost, stale, early, unlocked, orphaned, failed>>
mountVars == <<machine, table, procs, history>>

Places == {"new", "stat", "mount", "add", "wait", "serve", "poll", "off",
           "none", "check", "send", "watch", "mounted", "connected",
           "lock", "may", "detach", "remove"}

MountTypeOK ==
    /\ root \in BOOLEAN
    /\ mtabFile \in BOOLEAN
    /\ mounts \in Seq(Servers \X Nat)
    /\ mtab \in Nat
    /\ at \in [Procs -> Places]
    /\ holds \subseteq Servers \cup Helpers
    /\ tries \in [Servers -> Nat]
    /\ mtablock \in Procs \cup {NoOne}
    /\ raced \in [Procs -> BOOLEAN]
    /\ lost \in BOOLEAN
    /\ stale \in BOOLEAN
    /\ early \in BOOLEAN
    /\ unlocked \in BOOLEAN
    /\ orphaned \in BOOLEAN
    /\ failed \subseteq Helpers

Conn(s) == <<s, tries[s]>>
Live(c) == c = Conn(c[1]) /\ {c[1], Helper(c[1])} \cap holds # {}
Mounted(c) == \E i \in DOMAIN mounts : mounts[i] = c
Uppermost == mounts[Len(mounts)]
DeadTop == mounts # <<>> /\ ~Live(Uppermost)

To(p, place) == at' = [at EXCEPT ![p] = place]
Push(c) == mounts' = Append(mounts, c)
Pop == mounts' = SubSeq(mounts, 1, Len(mounts) - 1)

\* From now on the others that have looked at the mount point may be wrong.
Gone(p) == raced' = [q \in Procs |-> q # p]
Looked(p) == raced' = [raced EXCEPT ![p] = FALSE]

-----------------------------------------------------------------------------
(* Mounting: fuse_kern_mount and the helper's mount_fuse.                  *)

Starting == {"stat", "mount", "add", "wait"}

\* One server at a time: nobody mounts over a file system that is served.
Start(s) ==
    /\ at[s] = "new"
    /\ mounts = <<>> \/ DeadTop
    /\ \A t \in Servers : at[t] \notin Starting
    /\ To(s, "stat")
    /\ UNCHANGED <<machine, table, holds, tries, mtablock, history>>

\* fuse_mount_fusermount, the first time.
AskHelper(s) ==
    /\ at' = [at EXCEPT ![s] = "wait", ![Helper(s)] = "check"]
    /\ tries' = [tries EXCEPT ![s] = 1]

\* fuse_mount_sys up to mount(2): a mount point that is dead, or a device that
\* does not open, ends the server.
Stat(s) ==
    /\ at[s] = "stat"
    /\ \/ To(s, "off") /\ UNCHANGED tries
       \/ ~DeadTop /\ root /\ s \notin AutoUnmount /\ To(s, "mount") /\ UNCHANGED tries
       \/ ~DeadTop /\ (root => s \in AutoUnmount) /\ AskHelper(s)
    /\ UNCHANGED <<machine, table, holds, mtablock, history>>

\* What root is not permitted either is left to the helper.
MountSys(s) ==
    /\ at[s] = "mount"
    /\ \/ To(s, "off") /\ UNCHANGED <<mounts, holds, tries, raced>>
       \/ AskHelper(s) /\ UNCHANGED <<mounts, holds, raced>>
       \/ /\ Push(Conn(s))
          /\ holds' = holds \cup {s}
          /\ Looked(s)
          /\ To(s, "add")
          /\ UNCHANGED tries
    /\ UNCHANGED <<machine, mtab, mtablock, lost, stale, early, unlocked, orphaned, failed>>

\* fuse_mnt_add_mount has nothing to add if the file is a link.
EntryMade == mtab' = IF mtabFile THEN mtab + 1 ELSE mtab

\* fuse_mnt_resolve_path and fuse_mnt_add_mount, and the unmount if one fails.
AddEntry(s) ==
    /\ at[s] = "add"
    /\ \/ EntryMade /\ To(s, "serve") /\ UNCHANGED <<mounts, holds, raced>>
       \/ /\ IF mounts = <<>> THEN UNCHANGED <<mounts, raced>> ELSE Pop /\ Gone(s)
          /\ holds' = holds \ {s}
          /\ To(s, "off")
          /\ UNCHANGED mtab
    /\ early' = (early \/ (mounts' # mounts /\ \E q \in Procs \ {s} : at[q] = "add"))
    /\ UNCHANGED <<machine, tries, mtablock, lost, stale, unlocked, orphaned, failed>>

\* receive_fd has the descriptor or the end of the socket.  A server without
\* auto_unmount waits for the helper to end.  The second try is without the
\* subtype, which fuse_main_real gives every server.
Receive(s) ==
    /\ at[s] = "wait"
    /\ at[Helper(s)] \in {"none"} \cup (IF s \in AutoUnmount THEN {"watch"} ELSE {})
    /\ IF s \in holds THEN To(s, "serve") /\ UNCHANGED tries
       ELSE IF tries[s] = 1
       THEN /\ at' = [at EXCEPT ![Helper(s)] = "check"]
            /\ tries' = [tries EXCEPT ![s] = 2]
       ELSE To(s, "off") /\ UNCHANGED tries
    /\ UNCHANGED <<machine, table, holds, mtablock, history>>

\* check_perm, which may refuse.
HelperChecks(s) ==
    /\ at[Helper(s)] = "check"
    /\ \/ To(Helper(s), "none")
       \/ ~DeadTop /\ To(Helper(s), "mount")
    /\ UNCHANGED <<machine, table, holds, tries, mtablock, history>>

HelperMounts(s) ==
    /\ at[Helper(s)] = "mount"
    /\ \/ To(Helper(s), "none") /\ UNCHANGED <<mounts, holds>>
       \/ Push(Conn(s)) /\ holds' = holds \cup {Helper(s)} /\ To(Helper(s), "add")
    /\ UNCHANGED <<machine, mtab, tries, mtablock, history>>

\* A helper that ends before it is done.
Fail(p) == failed' = failed \cup ({p} \cap Helpers)
GivesUp(s) == To(Helper(s), "none") /\ Fail(Helper(s))

\* "Can't clean up mount in a non-racy way": without its entry it stays.  That
\* is also so when chdir fails.
HelperAdds(s) ==
    /\ at[Helper(s)] = "add"
    /\ \/ EntryMade /\ To(Helper(s), "send") /\ UNCHANGED <<holds, lost, failed>>
       \/ GivesUp(s) /\ holds' = holds \ {Helper(s)} /\ lost' = TRUE /\ UNCHANGED mtab
    /\ UNCHANGED <<machine, mounts, tries, mtablock, raced, stale, early, unlocked, orphaned>>

KeepsDescriptor(s) ==
    /\ at[Helper(s)] = "send"
    /\ \/ /\ at[s] = "wait"
          /\ holds' = holds \cup {s}
          /\ To(Helper(s), IF s \in AutoUnmount THEN "watch" ELSE "none")
          /\ UNCHANGED failed
       \/ holds' = holds \ {Helper(s)} /\ GivesUp(s)
    /\ UNCHANGED <<machine, table, tries, mtablock, raced, lost, stale, early, unlocked, orphaned>>

\* send_fd: what is in the socket of a server is with the server.  sendmsg may
\* fail, and the signal of a socket without reader ends the helper; so does a
\* failing chdir before it watches.
HelperSends(s) ==
    /\ at[Helper(s)] = "send"
    /\ \/ /\ at[s] = "wait"
          /\ holds' = (holds \ {Helper(s)}) \cup {s}
          /\ \/ /\ To(Helper(s), IF s \in AutoUnmount THEN "watch" ELSE "none")
                /\ UNCHANGED failed
             \/ s \in AutoUnmount /\ GivesUp(s)
       \/ holds' = holds \ {Helper(s)} /\ GivesUp(s)
    /\ UNCHANGED <<machine, table, tries, mtablock, raced, lost, stale, early, unlocked, orphaned>>

-----------------------------------------------------------------------------
(* Unmounting: unmount_fuse of the helper, which a user's server and the   *)
(* person run as well, and fuse_mnt_umount of a server that is root.       *)

Ended(p) == IF p \in Helpers THEN "none" ELSE "off"
End(p) ==
    /\ To(p, Ended(p))
    /\ mtablock' = IF mtablock = p THEN NoOne ELSE mtablock

\* lock_umount has nothing to lock if the file is a link.  When the lock cannot
\* be taken the unmount goes on without.
Lock(p) ==
    /\ at[p] = "lock"
    /\ \/ mtabFile /\ mtablock = NoOne /\ mtablock' = p /\ UNCHANGED unlocked
       \/ ~mtabFile /\ UNCHANGED <<mtablock, unlocked>>
       \/ mtabFile /\ unlocked' = TRUE /\ UNCHANGED mtablock
    /\ To(p, "may")
    /\ UNCHANGED <<machine, table, holds, tries, raced, lost, stale, early, orphaned, failed>>

\* may_unmount, for users: there is an entry of this user.  Users and file may
\* be unreadable.
EntryFound == IF mtabFile THEN mtab > 0 ELSE mounts # <<>>
May(p) ==
    /\ at[p] = "may"
    /\ \/ (root \/ EntryFound) /\ To(p, "detach") /\ UNCHANGED <<mtablock, failed>>
       \/ ~root /\ ~EntryFound /\ End(p) /\ UNCHANGED failed
       \/ ~root /\ End(p) /\ Fail(p)
    /\ UNCHANGED <<machine, table, holds, tries, raced, lost, stale, early, unlocked, orphaned>>

DetachUnchecked(p) ==
    /\ at[p] = "detach"
    /\ mounts' = SubSeq(mounts, 1, IF mounts = <<>> THEN 0 ELSE Len(mounts) - 1)
    /\ Gone(p)
    /\ IF mtabFile THEN To(p, "remove") /\ UNCHANGED mtablock ELSE End(p)
    /\ early' = (early \/ (mounts' # mounts /\ \E q \in Procs : at[q] = "add"))
    /\ UNCHANGED <<machine, mtab, holds, tries, lost, stale, unlocked, orphaned, failed>>

\* umount2 takes what is on top.  chdir_to_parent, the fork of umount, or the
\* umount2 of the person, who is not lazy, may fail.
Detach(p) ==
    /\ at[p] = "detach"
    /\ \/ mounts = <<>> /\ End(p) /\ UNCHANGED <<mounts, raced, failed>>
       \/ End(p) /\ Fail(p) /\ UNCHANGED <<mounts, raced>>
       \/ /\ mounts # <<>>
          /\ Pop
          /\ Gone(p)
          /\ IF mtabFile THEN To(p, "remove") /\ UNCHANGED mtablock ELSE End(p)
          /\ UNCHANGED failed
    /\ early' = (early \/ (mounts' # mounts /\ \E q \in Procs : at[q] = "add"))
    /\ UNCHANGED <<machine, mtab, holds, tries, lost, stale, unlocked, orphaned>>

\* chdir and fuse_mnt_remove_mount, or the second half of umount.  When one of
\* them fails the entry stays.
RemoveEntry(p) ==
    /\ at[p] = "remove"
    /\ \/ mtab' = (IF mtab = 0 THEN 0 ELSE mtab - 1) /\ UNCHANGED stale
       \/ stale' = TRUE /\ UNCHANGED mtab
    /\ End(p)
    /\ UNCHANGED <<machine, mounts, holds, tries, raced, lost, early, unlocked, orphaned, failed>>

-----------------------------------------------------------------------------
(* The end of a server.                                                    *)

\* The loop ends by a signal, an error or an exit, or could not begin.
Stop(s) ==
    /\ at[s] = "serve"
    /\ To(s, "poll")
    /\ UNCHANGED <<machine, table, holds, tries, mtablock, history>>

\* The loop ends because reads return ENODEV.
StopGone(s) == ~Mounted(Conn(s)) /\ Stop(s)

PollIgnored(s) ==
    /\ at[s] = "poll"
    /\ holds' = holds \ {s}
    /\ To(s, IF root THEN "detach" ELSE "lock")
    /\ Looked(s)
    /\ UNCHANGED <<machine, table, tries, mtablock, lost, stale, early, unlocked, orphaned, failed>>

\* fuse_kern_unmount: nothing is left to do for a connection that is gone, and
\* nothing is done if there is no process for it.
Poll(s) ==
    /\ at[s] = "poll"
    /\ holds' = holds \ {s}
    /\ \/ Mounted(Conn(s)) /\ To(s, IF root THEN "detach" ELSE "lock") /\ Looked(s)
       \/ To(s, "off") /\ UNCHANGED raced
    /\ UNCHANGED <<machine, table, tries, mtablock, lost, stale, early, unlocked, orphaned, failed>>

\* A crash or a kill.  The program that makes the entry may have run or not;
\* those that unmount go on without the server.
Kill(s) ==
    /\ at[s] \in Starting \cup {"serve", "poll"}
    /\ holds' = holds \ {s}
    /\ To(s, "off")
    /\ \/ at[s] = "add" /\ EntryMade /\ UNCHANGED lost
       \/ lost' = (lost \/ at[s] = "add") /\ UNCHANGED mtab
    /\ orphaned' = (orphaned \/ (at[s] = "wait" /\ s \notin holds))
    /\ UNCHANGED <<machine, mounts, tries, mtablock, raced, stale, early, unlocked, failed>>

-----------------------------------------------------------------------------
(* The helper of a server with auto_unmount, and the person.               *)

\* The control socket is closed.
Awake(s) ==
    /\ at[Helper(s)] = "watch"
    /\ at[s] = "off"
    /\ To(Helper(s), "mounted")
    /\ UNCHANGED <<machine, table, holds, tries, mtablock, history>>

\* should_auto_unmount, first half: check_is_mount, whose child may fail.
StillMounted(s) ==
    /\ at[Helper(s)] = "mounted"
    /\ \/ To(Helper(s), IF mounts = <<>> THEN "none" ELSE "connected") /\ UNCHANGED failed
       \/ GivesUp(s)
    /\ UNCHANGED <<machine, table, holds, tries, mtablock, raced, lost, stale, early, unlocked, orphaned>>

\* Second half: does opening it fail with ENOTCONN, or with another error?
NotConnected(s) ==
    /\ at[Helper(s)] = "connected"
    /\ \/ DeadTop /\ To(Helper(s), "lock") /\ Looked(Helper(s)) /\ UNCHANGED failed
       \/ ~DeadTop /\ To(Helper(s), "none") /\ UNCHANGED <<raced, failed>>
       \/ GivesUp(s) /\ UNCHANGED raced
    /\ UNCHANGED <<machine, table, holds, tries, mtablock, lost, stale, early, unlocked, orphaned>>

PersonUnmounts ==
    /\ at[Person] = "new"
    /\ To(Person, "lock")
    /\ UNCHANGED <<machine, table, holds, tries, mtablock, history>>

-----------------------------------------------------------------------------
MountInit ==
    /\ root \in BOOLEAN
    /\ mtabFile \in BOOLEAN
    /\ mounts = <<>>
    /\ mtab = 0
    /\ at = [p \in Procs |-> IF p \in Helpers THEN "none" ELSE "new"]
    /\ holds = {}
    /\ tries = [s \in Servers |-> 0]
    /\ mtablock = NoOne
    /\ raced = [p \in Procs |-> FALSE]
    /\ lost = FALSE
    /\ stale = FALSE
    /\ early = FALSE
    /\ unlocked = FALSE
    /\ orphaned = FALSE
    /\ failed = {}

ServerStep(s) == Stat(s) \/ MountSys(s) \/ AddEntry(s) \/ Receive(s) \/ StopGone(s) \/ Poll(s)
HelperStep(s) ==
    \/ HelperChecks(s) \/ HelperMounts(s) \/ HelperAdds(s) \/ HelperSends(s)
    \/ Awake(s) \/ StillMounted(s) \/ NotConnected(s)
UnmountStep(p) == Lock(p) \/ May(p) \/ Detach(p) \/ RemoveEntry(p)

MountNext ==
    \/ \E s \in Servers : Start(s) \/ Stop(s) \/ Kill(s) \/ ServerStep(s) \/ HelperStep(s)
    \/ \E p \in Procs : UnmountStep(p)
    \/ PersonUnmounts

\* Processes run.  Nothing makes a server start, stop or die, or the person
\* unmount.
MountFairness ==
    /\ \A s \in Servers : WF_mountVars(ServerStep(s)) /\ WF_mountVars(HelperStep(s))
    /\ \A p \in Procs : WF_mountVars(UnmountStep(p))

MountSpec == MountInit /\ [][MountNext]_mountVars
FairMountSpec == MountSpec /\ MountFairness

-----------------------------------------------------------------------------
\* "So we unmount here only in abnormal case where fuse process has died
\* without unmount happening": a helper, and a server that ends, take away no
\* mount but their own or a dead one, whoever unmounted and mounted before they
\* looked, unless somebody unmounts after they did.  From when a server was
\* killed before it got its connection its mount may come to lie over a live
\* one: of two mounts on the path they may then take the live one.
Served(c) == c = Conn(c[1]) /\ (c[1] \in holds \/ (at[c[1]] = "wait" /\ Live(c)))
TakesAway(p) == Len(mounts') < Len(mounts) /\ at'[p] # at[p]
LiveKept ==
    [][\A p \in Servers \cup Helpers : TakesAway(p) =>
         \/ p \in Servers /\ Uppermost = Conn(p)
         \/ ~Served(Uppermost)
         \/ raced[p]
         \/ orphaned /\ Len(mounts) > 1]_mountVars

\* When no process is between its two steps, /etc/mtab has an entry for each
\* mount, unless one was never written, and no other, unless the removal of one
\* has failed; a mount that was unmounted before its entry was made excuses
\* both.  And the entry that may_unmount found is there until whoever found it
\* removes it, unless somebody went on without the lock: the check and the
\* update are atomic.
Between == \E p \in Procs : at[p] \in {"add", "remove"}
MtabAgrees ==
    /\ mtabFile /\ ~Between /\ ~early =>
          (lost \/ mtab >= Len(mounts)) /\ (stale \/ mtab <= Len(mounts))
    /\ \A p \in Procs :
          mtabFile /\ ~root /\ at[p] \in {"detach", "remove"} => unlocked \/ mtab > 0

\* "automatic release of the mountpoint if filesystem terminates for any
\* reason": what a server with auto_unmount leaves behind is unmounted, unless
\* an error or a signal ended its helper.  Two more ways keep it mounted: a mount
\* of a server killed before it got its connection lay over it, and was taken in
\* its place; or its entry was taken by a process without the lock for the one
\* that another mount never had.
CrashCleaned ==
    \A s \in AutoUnmount :
        at[s] = "off" /\ Mounted(Conn(s)) ~>
            ~Mounted(Conn(s)) \/ Helper(s) \in failed \/ orphaned \/ (unlocked /\ lost)

=============================================================================
