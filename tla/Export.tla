------------------------------- MODULE Export -------------------------------
(***************************************************************************)
(* The export of HDFS blocks, three programs that hand each other files:   *)
(* readhdfs walks the namespace and writes filesblk, the blocks of every   *)
(* file with the hosts of their replicas; init of MFS reads filesblk,      *)
(* gives every block a number on the device and splits the blocks into     *)
(* one list per DataNode; write2Client reads the list of its node.         *)
(*                                                                         *)
(* A file is the sequence of its lines.  Namespace, fsck and the hosts are *)
(* those of HDFS.                                                          *)
(*                                                                         *)
(* KeepFile, WithReplicas and HostOfNext are plausible bugs of the         *)
(* definitions that follow them, which the model never uses.               *)
(***************************************************************************)
EXTENDS Integers, SequencesExt

CONSTANTS
    Root,       \* the directory readhdfs starts from
    Dirs,       \* the directories below it, and itself
    Files,      \* the files in them
    Children,   \* per directory: the sequence of its entries
    Blocks,     \* per file: the sequence of the names fsck gives its blocks
    HostLists   \* the sequences of hosts a block may have, empty if it is lost

\* The namespace is a tree, and a block is a part of one file.
ASSUME ExportAssumption ==
    /\ Root \in Dirs
    /\ Dirs \cap Files = {}
    /\ Children \in [Dirs -> Seq(Dirs \cup Files)]
    /\ \A d, e \in Dirs : \A i \in DOMAIN Children[d], j \in DOMAIN Children[e] :
          Children[d][i] = Children[e][j] => d = e /\ i = j
    /\ \A d \in Dirs : Root \notin ToSet(Children[d])
    /\ \A some \in SUBSET Dirs :
          Root \in some /\ (\A d \in some : ToSet(Children[d]) \cap Dirs \subseteq some) => some = Dirs
    /\ \A f \in Files : \E d \in Dirs : f \in ToSet(Children[d])
    /\ Blocks \in [Files -> Seq(STRING)]
    /\ \A f, g \in Files : \A i \in DOMAIN Blocks[f], j \in DOMAIN Blocks[g] :
          Blocks[f][i] = Blocks[g][j] => f = g /\ i = j
    /\ HostLists \subseteq Seq(STRING)

Names == UNION {ToSet(Blocks[f]) : f \in Files}

\* The lines of filesblk.  A path starts with "hdfs://" and never with "file",
\* so it is not what init takes for the line of a file.
PathLine(f) == [kind |-> "path", text |-> f]
BlockLine == [kind |-> "block", text |-> "block"]
NameLine(b) == [kind |-> "name", text |-> b]
HostLine(h) == [kind |-> "host", text |-> h]

Nodes == {"slave1", "slave2", "node"}

VARIABLES
    program,    \* which of the three programs runs
    hosts,      \* per block: its hosts, as hdfsGetHosts answers
    dirs,       \* readhdfs: the stack of directories still to list
    infos,      \* readhdfs: the rest of the listing of a directory
    files,      \* readhdfs: the files found, all of them before the first block
    words,      \* readhdfs: the blocks of a file still to write
    next,       \* the position each program has reached in what it goes through
    filesblk,   \* the lines readhdfs wrote
    path_vec,   \* init: the block names read
    datanode,   \* init: the host line read for each of them
    lists,      \* the lines of the lists slave1, slave2 and node
    shown       \* write2Client: the names and numbers it printed

found == <<dirs, infos, files>>
read == <<path_vec, datanode, lists>>
vars == <<program, hosts, found, words, next, filesblk, read, shown>>

-----------------------------------------------------------------------------
(* readhdfs.cpp *)

ListDirectory ==
    /\ program = "readhdfs"
    /\ infos = <<>>
    /\ dirs # <<>>
    /\ infos' = Children[Last(dirs)]
    /\ dirs' = Front(dirs)
    /\ UNCHANGED <<program, hosts, files, words, next, filesblk, read, shown>>

KeepFile ==
    /\ program = "readhdfs"
    /\ infos # <<>>
    /\ files' = IF Head(infos) \in Files THEN Append(files, Head(infos)) ELSE files
    /\ infos' = Tail(infos)
    /\ UNCHANGED <<program, hosts, dirs, words, next, filesblk, read, shown>>

\* What is not a file is a directory.
KeepInfo ==
    /\ program = "readhdfs"
    /\ infos # <<>>
    /\ IF Head(infos) \in Files
       THEN files' = Append(files, Head(infos)) /\ UNCHANGED dirs
       ELSE dirs' = Append(dirs, Head(infos)) /\ UNCHANGED files
    /\ infos' = Tail(infos)
    /\ UNCHANGED <<program, hosts, words, next, filesblk, read, shown>>

Walked == dirs = <<>> /\ infos = <<>>

WriteFile ==
    /\ program = "readhdfs"
    /\ Walked
    /\ words = <<>>
    /\ next < Len(files)
    /\ filesblk' = Append(filesblk, PathLine(files[next + 1]))
    /\ words' = Blocks[files[next + 1]]
    /\ next' = next + 1
    /\ UNCHANGED <<program, hosts, found, read, shown>>

WithReplicas(b) ==
    FlattenSeq([k \in DOMAIN hosts[b] |-> <<BlockLine, NameLine(b), HostLine(hosts[b][k])>>])

\* For every block its name and its hosts, none if hdfsGetHosts has none.
LinesOf(b) ==
    <<BlockLine, NameLine(b)>> \o [k \in DOMAIN hosts[b] |-> HostLine(hosts[b][k])]

WriteBlock ==
    /\ program = "readhdfs"
    /\ words # <<>>
    /\ filesblk' = filesblk \o LinesOf(Head(words))
    /\ words' = Tail(words)
    /\ UNCHANGED <<program, hosts, found, next, read, shown>>

-----------------------------------------------------------------------------
(* init.cpp *)

RunInit ==
    /\ program = "readhdfs"
    /\ Walked
    /\ words = <<>>
    /\ next = Len(files)
    /\ program' = "init"
    /\ next' = 0
    /\ UNCHANGED <<hosts, found, words, filesblk, read, shown>>

\* The line fgets leaves in the buffer: at the end of the file, what was there.
LineAt(n) == filesblk[IF n <= Len(filesblk) THEN n ELSE Len(filesblk)].text

NameAfter(n) == LineAt(n + 1)

\* The first of the hosts is taken, whatever the line is.
HostOfNext(n) == LineAt(n + 3)
HostAfter(n) == LineAt(n + 2)

ReadLine ==
    /\ program = "init"
    /\ next < Len(filesblk)
    /\ IF filesblk[next + 1].kind = "block"
         THEN /\ path_vec' = Append(path_vec, NameAfter(next + 1))
              /\ datanode' = Append(datanode, HostAfter(next + 1))
              /\ next' = next + 3
         ELSE /\ next' = next + 1
              /\ UNCHANGED <<path_vec, datanode>>
    /\ UNCHANGED <<program, hosts, found, words, filesblk, lists, shown>>

\* The blocks that have not been put on a list yet start behind these.
Assigned == (Len(lists["slave1"]) + Len(lists["slave2"]) + Len(lists["node"])) \div 2

NumberOf(n, to) == n

ListOf(host) == IF host \in {"slave1", "slave2"} THEN host ELSE "node"

Assign ==
    LET n == Assigned + 1
        to == ListOf(datanode[n])
    IN  /\ program = "init"
        /\ next >= Len(filesblk)
        /\ n <= Len(path_vec)
        /\ lists' = [lists EXCEPT ![to] = @ \o <<path_vec[n], NumberOf(n, to)>>]
        /\ UNCHANGED <<program, hosts, found, words, next, filesblk, path_vec, datanode, shown>>

-----------------------------------------------------------------------------
(* write2Client.cpp *)

RunWrite ==
    /\ program = "init"
    /\ next >= Len(filesblk)
    /\ Assigned = Len(path_vec)
    /\ program' = "write2Client"
    /\ next' = 0
    /\ UNCHANGED <<hosts, found, words, filesblk, read, shown>>

\* getinfo takes two lines of ./slave1 at a time, and prints them.
Show ==
    LET list == lists["slave1"]
    IN  /\ program = "write2Client"
        /\ next < Len(list)
        /\ shown' = Append(shown, <<list[next + 1], list[next + 2]>>)
        /\ next' = next + 2
        /\ UNCHANGED <<program, hosts, found, words, filesblk, read>>

Init ==
    /\ program = "readhdfs"
    /\ hosts \in [Names -> HostLists]
    /\ dirs = <<Root>>
    /\ infos = <<>>
    /\ files = <<>>
    /\ words = <<>>
    /\ next = 0
    /\ filesblk = <<>>
    /\ path_vec = <<>>
    /\ datanode = <<>>
    /\ lists = [n \in Nodes |-> <<>>]
    /\ shown = <<>>

Next == \/ ListDirectory
        \/ KeepInfo
        \/ WriteFile
        \/ WriteBlock
        \/ RunInit
        \/ ReadLine
        \/ Assign
        \/ RunWrite
        \/ Show

Spec == Init /\ [][Next]_vars

-----------------------------------------------------------------------------
(* What the lists are for. *)

Located(b) == hosts[b] # <<>>
Entries(list) == {<<list[2 * k - 1], list[2 * k]>> : k \in 1 .. Len(list) \div 2}
AllEntries == UNION {Entries(lists[n]) : n \in Nodes}
Listed == program = "write2Client"

\* init takes the line after a block's name for its host, whatever it is.  Behind
\* a block without replicas that is the first line of the next block, if there is
\* one in the file: that one's name is then skipped with its hosts.
BehindLost(b) == \E n \in 3 .. Len(filesblk) :
    /\ filesblk[n] = NameLine(b)
    /\ \E lost \in Names : ~Located(lost) /\ filesblk[n - 2] = NameLine(lost)

\* Every block that has a host is on the list of its first one, wherever in the
\* namespace its file is, but for a block that filesblk has directly behind one
\* without replicas; while every block has a replica, that is all of them.
LocatedBlocksListed == Listed => \A f \in Files : \A j \in DOMAIN Blocks[f] :
    LET b == Blocks[f][j]
    IN  Located(b) => \/ BehindLost(b)
                      \/ \E e \in Entries(lists[ListOf(hosts[b][1])]) : e[1] = b

\* Over all the lists, and through replicas, the walk of the directories and the
\* reading of the lines, init lists no block twice and gives no two the same place
\* on the device.
ListedOnce == \A d, e \in AllEntries : d[1] = e[1] \/ d[2] = e[2] => d = e

\* A DataNode is in the end shown its list: of the blocks that have a replica only
\* such as have their first one there, and all of those, with the places that init
\* gave them, but for a block directly behind a lost one.
NodeSeesItsBlocks == Listed /\ next = Len(lists["slave1"]) =>
    /\ ToSet(shown) = Entries(lists["slave1"])
    /\ \A e \in ToSet(shown) : Located(e[1]) => hosts[e[1]][1] = "slave1"
    /\ \A b \in Names : Located(b) /\ hosts[b][1] = "slave1" =>
          BehindLost(b) \/ \E e \in ToSet(shown) : e[1] = b

=============================================================================
