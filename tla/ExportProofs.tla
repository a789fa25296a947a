---------------------------- MODULE ExportProofs ----------------------------
(***************************************************************************)
(* The lists of the export are right for every namespace, every division   *)
(* of the files into blocks and every choice of hosts.                     *)
(*                                                                         *)
(* ExportInv is inductive.  It says what each program leaves to the next   *)
(* one: readhdfs all files, each once, and for each block the line it      *)
(* starts with, its name and its first host; init the names in the order   *)
(* of these lines; the lists what init numbered.                           *)
(***************************************************************************)
EXTENDS Export, SequenceTheorems, TLAPS

\* A line of filesblk is one of four kinds; the text of a line that starts a block
\* is no name.
Texts == Files \cup STRING \cup {"block"}
Line == [kind : {"path", "block", "name", "host"}, text : Texts]

TypeOK ==
    /\ program \in {"readhdfs", "init", "write2Client"}
    /\ hosts \in [Names -> HostLists]
    /\ dirs \in Seq(Dirs)
    /\ infos \in Seq(Dirs \cup Files)
    /\ files \in Seq(Files)
    /\ words \in Seq(Names)
    /\ next \in Nat
    /\ filesblk \in Seq(Line)
    /\ path_vec \in Seq(Names)
    /\ datanode \in Seq(Texts)
    /\ DOMAIN lists = Nodes
    /\ \A n \in Nodes : lists[n] \in Seq(Names \cup Nat)
    /\ shown \in Seq((Names \cup Nat) \X (Names \cup Nat))

-----------------------------------------------------------------------------
(* What readhdfs has found and written. *)

EntriesOf(listed) == UNION {ToSet(Children[d]) : d \in listed}
Seen == ToSet(dirs) \cup ToSet(infos) \cup ToSet(files)

\* The directories in listed have been listed: their entries, and the root, are
\* listed too, or still to list, or found files, and nothing else is.
WalkOf(listed) ==
    /\ listed \cap (ToSet(dirs) \cup ToSet(infos)) = {}
    /\ Seen \cup listed = {Root} \cup EntriesOf(listed)

Apart ==
    /\ IsInjective(dirs) /\ IsInjective(infos) /\ IsInjective(files)
    /\ ToSet(dirs) \cap ToSet(infos) = {}
    /\ ToSet(infos) \cap ToSet(files) = {}

WalkInv == Apart /\ \E listed \in SUBSET Dirs : WalkOf(listed)

BlockLines == {n \in DOMAIN filesblk : filesblk[n].kind = "block"}
NameAt(n) == filesblk[n + 1].text
Written == {NameAt(n) : n \in BlockLines}

\* Behind the line that starts a block is its name, and then its first host.
Told(n) ==
    /\ n + 1 \in DOMAIN filesblk
    /\ filesblk[n + 1].kind = "name"
    /\ NameAt(n) \in Names
    /\ Located(NameAt(n)) => /\ n + 2 \in DOMAIN filesblk
                             /\ filesblk[n + 2] = HostLine(hosts[NameAt(n)][1])

LinesInv ==
    /\ \A n \in BlockLines : Told(n)
    /\ \A m, n \in BlockLines : NameAt(m) = NameAt(n) => m = n

Begun == UNION {ToSet(Blocks[files[k]]) : k \in 1 .. next}

\* The blocks of the files begun are written, or still to write.
WriteInv ==
    /\ ~Walked => next = 0 /\ words = <<>> /\ filesblk = <<>>
    /\ next <= Len(files)
    /\ Written \cup ToSet(words) = Begun
    /\ Written \cap ToSet(words) = {}
    /\ IsInjective(words)

ReadhdfsInv ==
    /\ WalkInv
    /\ WriteInv
    /\ path_vec = <<>> /\ datanode = <<>> /\ lists = [n \in Nodes |-> <<>>] /\ shown = <<>>

-----------------------------------------------------------------------------
(* What init has read and assigned, and what write2Client has shown. *)

ReadTo(k) == {NameAt(n) : n \in BlockLines \cap 1 .. k}

\* The host of a block without one is whatever line comes next.
PathsInv ==
    /\ Len(path_vec) = Len(datanode)
    /\ IsInjective(path_vec)
    /\ \A k \in DOMAIN path_vec : Located(path_vec[k]) => datanode[k] = hosts[path_vec[k]][1]

Entry(i) == <<path_vec[i], i>>
OfNode(node) == {i \in 1 .. Assigned : ListOf(datanode[i]) = node}

AssignInv ==
    /\ Assigned <= Len(path_vec)
    /\ \A node \in Nodes : /\ Len(lists[node]) % 2 = 0
                           /\ Entries(lists[node]) = {Entry(i) : i \in OfNode(node)}

\* Of the blocks whose first line is passed only those behind a lost one are not
\* taken.
InitInv ==
    /\ Written = Names
    /\ ToSet(path_vec) \subseteq ReadTo(next)
    /\ \A b \in ReadTo(next) : b \in ToSet(path_vec) \/ BehindLost(b)
    /\ shown = <<>>

FirstEntries(list, n) == {<<list[2 * k - 1], list[2 * k]>> : k \in 1 .. n}

ShowInv ==
    /\ \A b \in Names : b \in ToSet(path_vec) \/ BehindLost(b)
    /\ Assigned = Len(path_vec)
    /\ next \in 0 .. Len(lists["slave1"])
    /\ next % 2 = 0
    /\ ToSet(shown) = FirstEntries(lists["slave1"], next \div 2)

ExportInv ==
    /\ TypeOK
    /\ LinesInv
    /\ PathsInv
    /\ AssignInv
    /\ program = "readhdfs" => ReadhdfsInv
    /\ program = "init" => InitInv
    /\ program = "write2Client" => ShowInv

-----------------------------------------------------------------------------
(* Sequences. *)

LEMMA FrontOf ==
    ASSUME NEW S, NEW s \in Seq(S), s # <<>>
    PROVE  /\ Front(s) \in Seq(S)
           /\ Last(s) \in S
           /\ ToSet(s) = ToSet(Front(s)) \cup {Last(s)}
           /\ IsInjective(s) => IsInjective(Front(s)) /\ Last(s) \notin ToSet(Front(s))
<1>1. PICK n \in Nat : n = Len(s)
  OBVIOUS
<1>2. n > 0 /\ DOMAIN s = 1 .. n
  BY <1>1
<1>3. Front(s) = [i \in 1 .. n - 1 |-> s[i]]
  BY <1>1, <1>2 DEF Front
<1>4. Last(s) = s[n]
  BY <1>1 DEF Last
<1>5. Front(s) \in Seq(S) /\ DOMAIN Front(s) = 1 .. n - 1
  BY <1>1, <1>2, <1>3
<1>6. ToSet(s) = ToSet(Front(s)) \cup {Last(s)}
  <2>1. ASSUME NEW i \in 1 .. n
        PROVE  s[i] = Last(s) \/ \E j \in 1 .. n - 1 : s[i] = Front(s)[j]
    <3>1. CASE i = n
      BY <3>1, <1>4
    <3>2. CASE i # n
      <4>1. i \in 1 .. n - 1
        BY <3>2
      <4> QED
        BY <4>1, <1>3
    <3> QED
      BY <3>1, <3>2
  <2>2. ASSUME NEW j \in 1 .. n - 1
        PROVE  Front(s)[j] = s[j] /\ j \in 1 .. n
    BY <1>3
  <2>3. n \in 1 .. n
    BY <1>2
  <2> QED
    BY <2>1, <2>2, <2>3, <1>2, <1>4, <1>5 DEF ToSet
<1>7. ASSUME IsInjective(s)
      PROVE  IsInjective(Front(s)) /\ Last(s) \notin ToSet(Front(s))
  <2>1. \A i, j \in 1 .. n : s[i] = s[j] => i = j
    BY <1>7, <1>2 DEF IsInjective
  <2>2. \A j \in 1 .. n - 1 : Front(s)[j] = s[j] /\ j \in 1 .. n /\ j # n
    BY <1>3
  <2>3. n \in 1 .. n
    BY <1>2
  <2>4. \A j \in 1 .. n - 1 : Front(s)[j] # s[n]
    BY <2>1, <2>2, <2>3
  <2> QED
    BY <2>1, <2>2, <2>4, <1>4, <1>5 DEF IsInjective, ToSet
<1> QED
  BY <1>1, <1>2, <1>4, <1>5, <1>6, <1>7

LEMMA TailOf ==
    ASSUME NEW S, NEW s \in Seq(S), s # <<>>
    PROVE  /\ Tail(s) \in Seq(S)
           /\ Head(s) \in S
           /\ ToSet(s) = ToSet(Tail(s)) \cup {Head(s)}
           /\ IsInjective(s) => IsInjective(Tail(s)) /\ Head(s) \notin ToSet(Tail(s))
<1>1. PICK n \in Nat : n = Len(s)
  OBVIOUS
<1>2. n > 0 /\ DOMAIN s = 1 .. n
  BY <1>1
<1>3. /\ Tail(s) \in Seq(S) /\ Len(Tail(s)) = n - 1
      /\ \A i \in 1 .. n - 1 : Tail(s)[i] = s[i + 1]
  BY <1>1, <1>2
<1>4. Head(s) = s[1]
  BY <1>1
<1>5. DOMAIN Tail(s) = 1 .. n - 1
  BY <1>3
<1>6. ToSet(s) = ToSet(Tail(s)) \cup {Head(s)}
  <2>1. ASSUME NEW i \in 1 .. n
        PROVE  s[i] = Head(s) \/ \E j \in 1 .. n - 1 : s[i] = Tail(s)[j]
    <3>1. CASE i = 1
      BY <3>1, <1>4
    <3>2. CASE i # 1
      <4>1. i - 1 \in 1 .. n - 1 /\ (i - 1) + 1 = i
        BY <3>2
      <4>2. Tail(s)[i - 1] = s[i]
        BY <4>1, <1>3
      <4> QED
        BY <4>1, <4>2
    <3> QED
      BY <3>1, <3>2
  <2>2. ASSUME NEW j \in 1 .. n - 1
        PROVE  Tail(s)[j] = s[j + 1] /\ j + 1 \in 1 .. n
    BY <1>3
  <2>3. 1 \in 1 .. n
    BY <1>2
  <2>4. ToSet(s) = {s[i] : i \in 1 .. n} /\ ToSet(Tail(s)) = {Tail(s)[j] : j \in 1 .. n - 1}
    BY <1>2, <1>5 DEF ToSet
  <2>5. ToSet(s) \subseteq ToSet(Tail(s)) \cup {Head(s)}
    BY <2>1, <2>4
  <2>6. ToSet(Tail(s)) \cup {Head(s)} \subseteq ToSet(s)
    BY <2>2, <2>3, <2>4, <1>4
  <2> QED
    BY <2>5, <2>6
<1>7. ASSUME IsInjective(s)
      PROVE  IsInjective(Tail(s)) /\ Head(s) \notin ToSet(Tail(s))
  <2>1. \A i, j \in 1 .. n : s[i] = s[j] => i = j
    BY <1>7, <1>2 DEF IsInjective
  <2>2. \A j \in 1 .. n - 1 : Tail(s)[j] = s[j + 1] /\ j + 1 \in 1 .. n /\ j + 1 # 1
    BY <1>3
  <2>3. 1 \in 1 .. n
    BY <1>2
  <2>4. \A j \in 1 .. n - 1 : Tail(s)[j] # s[1]
    BY <2>1, <2>2, <2>3
  <2>5. \A i, j \in 1 .. n - 1 : i + 1 = j + 1 => i = j
    OBVIOUS
  <2>6. \A i, j \in 1 .. n - 1 : Tail(s)[i] = Tail(s)[j] => i = j
    BY <2>1, <2>2, <2>5
  <2> QED
    BY <2>4, <2>6, <1>4, <1>5 DEF IsInjective, ToSet
<1> QED
  BY <1>1, <1>2, <1>3, <1>4, <1>6, <1>7

LEMMA AppendTo ==
    ASSUME NEW S, NEW s \in Seq(S), NEW e \in S
    PROVE  /\ Append(s, e) \in Seq(S)
           /\ ToSet(Append(s, e)) = ToSet(s) \cup {e}
           /\ IsInjective(s) /\ e \notin ToSet(s) => IsInjective(Append(s, e))
<1>1. PICK n \in Nat : n = Len(s)
  OBVIOUS
<1>2. DOMAIN s = 1 .. n
  BY <1>1
<1>3. /\ Append(s, e) \in Seq(S) /\ Len(Append(s, e)) = n + 1
      /\ \A i \in 1 .. n : Append(s, e)[i] = s[i]
      /\ Append(s, e)[n + 1] = e
  BY <1>1
<1>4. DOMAIN Append(s, e) = 1 .. n + 1
  BY <1>3
<1>5. /\ \A i \in 1 .. n : i \in 1 .. n + 1
      /\ n + 1 \in 1 .. n + 1
      /\ \A i \in 1 .. n + 1 : i # n + 1 => i \in 1 .. n
  OBVIOUS
<1>6. ToSet(Append(s, e)) = ToSet(s) \cup {e}
  BY <1>2, <1>3, <1>4, <1>5 DEF ToSet
<1>7. ASSUME IsInjective(s), e \notin ToSet(s)
      PROVE  IsInjective(Append(s, e))
  <2>1. \A i, j \in 1 .. n : s[i] = s[j] => i = j
    BY <1>7, <1>2 DEF IsInjective
  <2>2. \A i \in 1 .. n : s[i] # e
    BY <1>7, <1>2 DEF ToSet
  <2> QED
    BY <2>1, <2>2, <1>3, <1>4, <1>5 DEF IsInjective
<1> QED
  BY <1>3, <1>6, <1>7

LEMMA ConcatOf ==
    ASSUME NEW S, NEW s \in Seq(S), NEW t \in Seq(S), NEW m \in Nat, NEW l \in Nat,
           m = Len(s), l = Len(t)
    PROVE  /\ s \o t \in Seq(S) /\ Len(s \o t) = m + l /\ DOMAIN (s \o t) = 1 .. m + l
           /\ \A i \in 1 .. m : (s \o t)[i] = s[i]
           /\ \A i \in 1 .. l : (s \o t)[m + i] = t[i]
<1>1. s \o t \in Seq(S) /\ Len(s \o t) = m + l
  BY ConcatProperties
<1>2. \A i \in 1 .. m + l : (s \o t)[i] = IF i <= m THEN s[i] ELSE t[i - m]
  BY ConcatProperties
<1>3. \A i \in 1 .. l : m + i \in 1 .. m + l /\ ~(m + i <= m) /\ (m + i) - m = i
  OBVIOUS
<1>4. \A i \in 1 .. m : i \in 1 .. m + l /\ i <= m
  OBVIOUS
<1> QED
  BY <1>1, <1>2, <1>3, <1>4

LEMMA NoElements == ToSet(<<>>) = {} /\ IsInjective(<<>>)
  BY DEF ToSet, IsInjective

-----------------------------------------------------------------------------
(* The walk of readhdfs. *)

\* An entry is in one place: no directory it is not an entry of has it, and what
\* the root and the listed directories gave is not in a directory still to list.
LEMMA NewEntries ==
    ASSUME NEW listed \in SUBSET Dirs, NEW d \in Dirs \ listed
    PROVE  /\ d \in {Root} \cup EntriesOf(listed) =>
                ToSet(Children[d]) \cap ({Root} \cup EntriesOf(listed)) = {}
           /\ IsInjective(Children[d])
           /\ Root \notin ToSet(Children[d])
           /\ EntriesOf(listed \cup {d}) = EntriesOf(listed) \cup ToSet(Children[d])
<1>1. \A e, f \in Dirs : \A i \in DOMAIN Children[e], j \in DOMAIN Children[f] :
         Children[e][i] = Children[f][j] => e = f /\ i = j
  BY ExportAssumption
<1>2. Root \notin ToSet(Children[d])
  BY ExportAssumption
<1>3. IsInjective(Children[d])
  BY <1>1 DEF IsInjective
<1>4. \A e \in listed : ToSet(Children[d]) \cap ToSet(Children[e]) = {}
  BY <1>1 DEF ToSet
<1>5. ToSet(Children[d]) \cap EntriesOf(listed) = {}
  BY <1>4 DEF EntriesOf
<1>6. EntriesOf(listed \cup {d}) = EntriesOf(listed) \cup ToSet(Children[d])
  BY DEF EntriesOf
<1> QED
  BY <1>2, <1>3, <1>5, <1>6

LEMMA ListDirectoryWalks ==
    ASSUME TypeOK, WalkInv, ListDirectory
    PROVE  /\ WalkInv'
           /\ dirs' \in Seq(Dirs) /\ infos' \in Seq(Dirs \cup Files)
<1>1. PICK listed \in SUBSET Dirs : WalkOf(listed)
  BY DEF WalkInv
<1>2. /\ dirs \in Seq(Dirs) /\ dirs # <<>> /\ infos = <<>> /\ files \in Seq(Files)
      /\ dirs' = Front(dirs) /\ infos' = Children[Last(dirs)] /\ files' = files
  BY DEF ListDirectory, TypeOK
<1>3. PICK d : d = Last(dirs)
  OBVIOUS
<1>4. /\ dirs' \in Seq(Dirs) /\ d \in Dirs
      /\ ToSet(dirs) = ToSet(dirs') \cup {d}
      /\ IsInjective(dirs) => IsInjective(dirs') /\ d \notin ToSet(dirs')
  BY <1>2, <1>3, FrontOf
<1>5. infos' = Children[d] /\ infos' \in Seq(Dirs \cup Files)
  BY <1>2, <1>3, <1>4, ExportAssumption
<1>6. ToSet(infos) = {}
  BY <1>2, NoElements
<1>7. /\ IsInjective(dirs) /\ IsInjective(files)
      /\ listed \cap ToSet(dirs) = {}
      /\ ToSet(dirs) \cup ToSet(files) \cup listed = {Root} \cup EntriesOf(listed)
  BY <1>1, <1>6 DEF WalkInv, Apart, WalkOf, Seen
<1>8. d \notin listed /\ d \in {Root} \cup EntriesOf(listed)
  BY <1>4, <1>7
<1>9. /\ ToSet(infos') \cap ({Root} \cup EntriesOf(listed)) = {}
      /\ IsInjective(infos')
      /\ EntriesOf(listed \cup {d}) = EntriesOf(listed) \cup ToSet(infos')
  BY <1>4, <1>5, <1>8, NewEntries
<1>10. Apart'
  <2>1. IsInjective(dirs') /\ IsInjective(files')
    BY <1>2, <1>4, <1>7
  <2>2. ToSet(dirs') \cap ToSet(infos') = {} /\ ToSet(infos') \cap ToSet(files') = {}
    BY <1>2, <1>4, <1>7, <1>9
  <2> QED
    BY <2>1, <2>2, <1>9 DEF Apart
<1>11. WalkOf(listed \cup {d})'
  <2>1. (listed \cup {d}) \cap (ToSet(dirs') \cup ToSet(infos')) = {}
    BY <1>4, <1>7, <1>8, <1>9
  <2>2. Seen' \cup (listed \cup {d}) = {Root} \cup EntriesOf(listed \cup {d})
    BY <1>2, <1>4, <1>7, <1>9 DEF Seen
  <2> QED
    BY <2>1, <2>2 DEF WalkOf, EntriesOf
<1>12. listed \cup {d} \in SUBSET Dirs
  BY <1>4
<1> QED
  BY <1>4, <1>5, <1>10, <1>11, <1>12 DEF WalkInv

LEMMA KeepInfoWalks ==
    ASSUME TypeOK, WalkInv, KeepInfo
    PROVE  /\ WalkInv'
           /\ dirs' \in Seq(Dirs) /\ infos' \in Seq(Dirs \cup Files) /\ files' \in Seq(Files)
<1>1. PICK listed \in SUBSET Dirs : WalkOf(listed)
  BY DEF WalkInv
<1>2. /\ dirs \in Seq(Dirs) /\ infos \in Seq(Dirs \cup Files) /\ files \in Seq(Files)
      /\ infos # <<>> /\ infos' = Tail(infos)
  BY DEF KeepInfo, TypeOK
<1>3. PICK e : e = Head(infos)
  OBVIOUS
<1>4. /\ infos' \in Seq(Dirs \cup Files) /\ e \in Dirs \cup Files
      /\ ToSet(infos) = ToSet(infos') \cup {e}
      /\ IsInjective(infos) => IsInjective(infos') /\ e \notin ToSet(infos')
  BY <1>2, <1>3, TailOf
<1>5. /\ Apart
      /\ listed \cap (ToSet(dirs) \cup ToSet(infos)) = {}
      /\ Seen \cup listed = {Root} \cup EntriesOf(listed)
  BY <1>1 DEF WalkInv, WalkOf
<1>6. ToSet(dirs) \subseteq Dirs /\ ToSet(files) \subseteq Files
  BY <1>2 DEF ToSet
<1>7. Dirs \cap Files = {}
  BY ExportAssumption
<1>8. CASE e \in Files
  <2>1. files' = Append(files, e) /\ dirs' = dirs
    BY <1>3, <1>8 DEF KeepInfo
  <2>2. /\ files' \in Seq(Files)
        /\ ToSet(files') = ToSet(files) \cup {e}
        /\ IsInjective(files) /\ e \notin ToSet(files) => IsInjective(files')
    BY <2>1, <1>2, <1>8, AppendTo
  <2>3. Apart'
    BY <2>1, <2>2, <1>4, <1>5 DEF Apart
  <2>4. Seen' = Seen
    BY <2>1, <2>2, <1>4 DEF Seen
  <2>5. WalkOf(listed)'
    <3>1. listed \cap (ToSet(dirs') \cup ToSet(infos')) = {}
      BY <2>1, <1>4, <1>5
    <3> QED
      BY <3>1, <2>4, <1>5 DEF WalkOf, EntriesOf
  <2> QED
    BY <2>1, <2>2, <2>3, <2>5, <1>2, <1>4 DEF WalkInv
<1>9. CASE e \notin Files
  <2>1. dirs' = Append(dirs, e) /\ files' = files /\ e \in Dirs
    BY <1>3, <1>4, <1>9 DEF KeepInfo
  <2>2. /\ dirs' \in Seq(Dirs)
        /\ ToSet(dirs') = ToSet(dirs) \cup {e}
        /\ IsInjective(dirs) /\ e \notin ToSet(dirs) => IsInjective(dirs')
    BY <2>1, <1>2, AppendTo
  <2>3. Apart'
    BY <2>1, <2>2, <1>4, <1>5 DEF Apart
  <2>4. Seen' = Seen
    BY <2>1, <2>2, <1>4 DEF Seen
  <2>5. WalkOf(listed)'
    <3>1. listed \cap (ToSet(dirs') \cup ToSet(infos')) = {}
      BY <2>2, <1>4, <1>5
    <3> QED
      BY <3>1, <2>4, <1>5 DEF WalkOf, EntriesOf
  <2> QED
    BY <2>1, <2>2, <2>3, <2>5, <1>2, <1>4 DEF WalkInv
<1> QED
  BY <1>8, <1>9

\* When nothing is left to list, what was listed is closed under entries: it is
\* every directory, and every file has been found.
LEMMA WalkComplete ==
    ASSUME TypeOK, WalkInv, Walked
    PROVE  ToSet(files) = Files
<1>1. PICK listed \in SUBSET Dirs : WalkOf(listed)
  BY DEF WalkInv
<1>2. ToSet(dirs) = {} /\ ToSet(infos) = {}
  BY NoElements DEF Walked
<1>3. ToSet(files) \subseteq Files
  BY DEF TypeOK, ToSet
<1>4. ToSet(files) \cup listed = {Root} \cup EntriesOf(listed)
  BY <1>1, <1>2 DEF WalkOf, Seen
<1>5. Root \in Dirs /\ Dirs \cap Files = {}
  BY ExportAssumption
<1>6. Root \in listed
  BY <1>3, <1>4, <1>5
<1>7. \A d \in listed : ToSet(Children[d]) \cap Dirs \subseteq listed
  BY <1>3, <1>4, <1>5 DEF EntriesOf
<1>8. listed = Dirs
  BY <1>6, <1>7, ExportAssumption
<1>9. ASSUME NEW f \in Files
      PROVE  f \in ToSet(files)
  <2>1. PICK d \in Dirs : f \in ToSet(Children[d])
    BY ExportAssumption
  <2>2. f \in EntriesOf(listed)
    BY <2>1, <1>8 DEF EntriesOf
  <2> QED
    BY <2>2, <1>4, <1>5
<1> QED
  BY <1>3, <1>9

-----------------------------------------------------------------------------
(* The lines that readhdfs writes. *)

LEMMA MoreLines ==
    ASSUME TypeOK, LinesInv, NEW more \in Seq(Line),
           filesblk' = filesblk \o more, hosts' = hosts
    PROVE  /\ filesblk' \in Seq(Line)
           /\ \A n \in BlockLines : n \in BlockLines' /\ NameAt(n)' = NameAt(n) /\ Told(n)'
           /\ \A n \in BlockLines' \ BlockLines : \E k \in DOMAIN more :
                 n = Len(filesblk) + k /\ more[k].kind = "block"
<1>1. PICK m \in Nat : m = Len(filesblk)
  BY DEF TypeOK
<1>2. PICK l \in Nat : l = Len(more)
  OBVIOUS
<1>3. /\ filesblk \in Seq(Line) /\ DOMAIN filesblk = 1 .. m /\ DOMAIN more = 1 .. l
      /\ filesblk' \in Seq(Line) /\ DOMAIN filesblk' = 1 .. m + l
      /\ \A i \in 1 .. m : filesblk'[i] = filesblk[i]
      /\ \A i \in 1 .. l : filesblk'[m + i] = more[i]
  <2>1. filesblk \in Seq(Line)
    BY DEF TypeOK
  <2> QED
    BY <2>1, <1>1, <1>2, ConcatOf
<1>4. ASSUME NEW n \in BlockLines
      PROVE  n \in BlockLines' /\ NameAt(n)' = NameAt(n) /\ Told(n)'
  <2>1. n \in 1 .. m /\ filesblk[n].kind = "block" /\ Told(n)
    BY <1>3 DEF BlockLines, LinesInv
  <2>2. n + 1 \in 1 .. m
    BY <2>1, <1>3 DEF Told
  <2>3. \A i \in 1 .. m : i \in 1 .. m + l
    OBVIOUS
  <2>4. NameAt(n)' = NameAt(n)
    BY <2>2, <1>3 DEF NameAt
  <2>5. n \in BlockLines'
    BY <2>1, <2>3, <1>3 DEF BlockLines
  <2>6. PICK b : b = NameAt(n)
    OBVIOUS
  <2>7. /\ b \in Names /\ filesblk[n + 1].kind = "name"
        /\ hosts[b] # <<>> => n + 2 \in 1 .. m /\ filesblk[n + 2] = HostLine(hosts[b][1])
    BY <2>1, <2>6, <1>3 DEF Told, Located
  <2>8. Told(n)'
    <3>1. NameAt(n)' = b
      BY <2>4, <2>6
    <3>2. n + 1 \in DOMAIN filesblk' /\ filesblk'[n + 1].kind = "name"
      BY <2>2, <2>3, <2>7, <1>3
    <3>3. hosts'[b] # <<>> => n + 2 \in DOMAIN filesblk' /\ filesblk'[n + 2] = HostLine(hosts'[b][1])
      BY <2>3, <2>7, <1>3
    <3> QED
      BY <3>1, <3>2, <3>3, <2>7 DEF Told, Located
  <2> QED
    BY <2>4, <2>5, <2>8
<1>5. ASSUME NEW n \in BlockLines', n \notin BlockLines
      PROVE  \E k \in DOMAIN more : n = Len(filesblk) + k /\ more[k].kind = "block"
  <2>1. n \in 1 .. m + l /\ filesblk'[n].kind = "block"
    BY <1>3 DEF BlockLines
  <2>2. n \notin 1 .. m
    BY <2>1, <1>3, <1>5 DEF BlockLines
  <2>3. n - m \in 1 .. l /\ n = m + (n - m)
    BY <2>1, <2>2
  <2>4. more[n - m].kind = "block"
    BY <2>1, <2>3, <1>3
  <2> QED
    BY <2>3, <2>4, <1>1, <1>3
<1> QED
  BY <1>3, <1>4, <1>5

LEMMA PathLineAppended ==
    ASSUME TypeOK, LinesInv, NEW f \in Files,
           filesblk' = Append(filesblk, PathLine(f)), hosts' = hosts
    PROVE  filesblk' \in Seq(Line) /\ LinesInv' /\ Written' = Written
<1>1. PICK more : more = <<PathLine(f)>>
  OBVIOUS
<1>2. PathLine(f) \in Line /\ PathLine(f).kind # "block"
  BY DEF PathLine, Line, Texts
<1>3. more \in Seq(Line) /\ DOMAIN more = {1} /\ more[1] = PathLine(f)
  BY <1>1, <1>2
<1>4. filesblk' = filesblk \o more
  BY <1>1, <1>2, AppendIsConcat DEF TypeOK
<1>5. /\ filesblk' \in Seq(Line)
      /\ \A n \in BlockLines : n \in BlockLines' /\ NameAt(n)' = NameAt(n) /\ Told(n)'
      /\ \A n \in BlockLines' \ BlockLines : \E k \in DOMAIN more :
            n = Len(filesblk) + k /\ more[k].kind = "block"
  BY <1>3, <1>4, MoreLines
<1>6. BlockLines' = BlockLines
  BY <1>2, <1>3, <1>5
<1>7. LinesInv'
  <2>1. \A n \in BlockLines' : Told(n)'
    BY <1>5, <1>6
  <2>2. \A m, n \in BlockLines' : NameAt(m)' = NameAt(n)' => m = n
    BY <1>5, <1>6 DEF LinesInv
  <2> QED
    BY <2>1, <2>2 DEF LinesInv
<1>8. Written' = Written
  BY <1>5, <1>6 DEF Written
<1> QED
  BY <1>5, <1>7, <1>8

LEMMA LinesOfBlock ==
    ASSUME TypeOK, NEW b \in Names
    PROVE  /\ hosts[b] \in Seq(STRING)
           /\ LinesOf(b) \in Seq(Line) /\ Len(LinesOf(b)) = 2 + Len(hosts[b])
           /\ LinesOf(b)[1] = BlockLine /\ LinesOf(b)[2] = NameLine(b)
           /\ \A k \in DOMAIN hosts[b] : LinesOf(b)[2 + k] = HostLine(hosts[b][k])
<1>1. PICK s : s = hosts[b]
  OBVIOUS
<1>2. s \in Seq(STRING)
  BY <1>1, ExportAssumption DEF TypeOK
<1>3. PICK l \in Nat : l = Len(s)
  BY <1>2
<1>4. DOMAIN s = 1 .. l
  BY <1>2, <1>3
<1>5. PICK tail : tail = [k \in 1 .. l |-> HostLine(s[k])]
  OBVIOUS
<1>6. PICK first : first = <<BlockLine, NameLine(b)>>
  OBVIOUS
<1>7. b \in STRING
  BY ExportAssumption DEF Names, ToSet
<1>8. BlockLine \in Line /\ NameLine(b) \in Line /\ \A k \in 1 .. l : HostLine(s[k]) \in Line
  <2>1. \A k \in 1 .. l : s[k] \in STRING
    BY <1>2, <1>4
  <2>2. \A x \in STRING : NameLine(x) \in Line /\ HostLine(x) \in Line
    BY DEF NameLine, HostLine, Line, Texts
  <2>3. BlockLine \in Line
    BY DEF BlockLine, Line, Texts
  <2> QED
    BY <2>1, <2>2, <2>3, <1>7
<1>9. first \in Seq(Line) /\ Len(first) = 2 /\ first[1] = BlockLine /\ first[2] = NameLine(b)
  BY <1>6, <1>8
<1>10. tail \in Seq(Line) /\ Len(tail) = l /\ \A k \in 1 .. l : tail[k] = HostLine(s[k])
  BY <1>5, <1>8
<1>11. LinesOf(b) = first \o tail
  BY <1>1, <1>4, <1>5, <1>6 DEF LinesOf
<1>12. /\ LinesOf(b) \in Seq(Line) /\ Len(LinesOf(b)) = 2 + l
       /\ \A i \in 1 .. 2 : LinesOf(b)[i] = first[i]
       /\ \A k \in 1 .. l : LinesOf(b)[2 + k] = tail[k]
  <2>1. PICK two \in Nat : two = 2
    OBVIOUS
  <2>2. first \in Seq(Line) /\ tail \in Seq(Line) /\ two = Len(first) /\ l = Len(tail)
    BY <2>1, <1>9, <1>10
  <2>3. /\ first \o tail \in Seq(Line) /\ Len(first \o tail) = two + l
        /\ \A i \in 1 .. two : (first \o tail)[i] = first[i]
        /\ \A k \in 1 .. l : (first \o tail)[two + k] = tail[k]
    BY <2>2, ConcatOf
  <2> QED
    BY <2>1, <2>3, <1>11
<1>13. LinesOf(b)[1] = BlockLine /\ LinesOf(b)[2] = NameLine(b)
  BY <1>9, <1>12
<1>14. \A k \in 1 .. l : LinesOf(b)[2 + k] = HostLine(s[k])
  BY <1>10, <1>12
<1> QED
  BY <1>1, <1>2, <1>3, <1>4, <1>12, <1>13, <1>14

LEMMA BlockLinesAppended ==
    ASSUME TypeOK, LinesInv, NEW b \in Names, b \notin Written,
           filesblk' = filesblk \o LinesOf(b), hosts' = hosts
    PROVE  filesblk' \in Seq(Line) /\ LinesInv' /\ Written' = Written \cup {b}
<1>1. PICK more : more = LinesOf(b)
  OBVIOUS
<1>2. PICK l \in Nat : l = Len(hosts[b])
  BY LinesOfBlock
<1>3. PICK m \in Nat : m = Len(filesblk)
  BY DEF TypeOK
<1>4. /\ more \in Seq(Line) /\ DOMAIN more = 1 .. 2 + l
      /\ more[1] = BlockLine /\ more[2] = NameLine(b)
      /\ \A k \in 1 .. l : more[2 + k] = HostLine(hosts[b][k])
  BY <1>1, <1>2, LinesOfBlock
<1>5. /\ filesblk' \in Seq(Line)
      /\ \A n \in BlockLines : n \in BlockLines' /\ NameAt(n)' = NameAt(n) /\ Told(n)'
      /\ \A n \in BlockLines' \ BlockLines : \E k \in DOMAIN more :
            n = m + k /\ more[k].kind = "block"
  BY <1>1, <1>3, <1>4, MoreLines
<1>6. DOMAIN filesblk' = 1 .. m + 2 + l /\ \A k \in 1 .. 2 + l : filesblk'[m + k] = more[k]
  <2>1. filesblk \in Seq(Line) /\ more \in Seq(Line) /\ Len(more) = 2 + l /\ 2 + l \in Nat
    BY <1>4 DEF TypeOK
  <2>2. /\ DOMAIN filesblk' = 1 .. m + (2 + l)
        /\ \A k \in 1 .. 2 + l : filesblk'[m + k] = more[k]
    BY <2>1, <1>1, <1>3, ConcatOf
  <2> QED
    BY <2>2
<1>7. \A k \in 1 .. 2 + l : k # 1 => more[k].kind # "block"
  <2>1. more[2].kind # "block"
    BY <1>4 DEF NameLine
  <2>2. \A k \in 1 .. l : more[2 + k].kind # "block"
    <3>1. \A h : HostLine(h).kind # "block"
      BY DEF HostLine
    <3> QED
      BY <3>1, <1>4
  <2>3. \A k \in 1 .. 2 + l : k # 1 /\ k # 2 => k - 2 \in 1 .. l /\ 2 + (k - 2) = k
    OBVIOUS
  <2> QED
    BY <2>1, <2>2, <2>3
<1>8. m + 1 \in BlockLines' /\ m + 1 \notin BlockLines
  <2>1. more[1].kind = "block"
    BY <1>4 DEF BlockLine
  <2>2. 1 \in 1 .. 2 + l /\ m + 1 \in 1 .. m + 2 + l
    OBVIOUS
  <2>3. m + 1 \notin DOMAIN filesblk
    BY <1>3 DEF TypeOK
  <2> QED
    BY <2>1, <2>2, <2>3, <1>6 DEF BlockLines
<1>9. BlockLines' = BlockLines \cup {m + 1}
  BY <1>4, <1>5, <1>7, <1>8
<1>10. filesblk'[m + 2] = NameLine(b) /\ m + 2 \in DOMAIN filesblk'
  BY <1>4, <1>6
<1>11. NameAt(m + 1)' = b
  <2>1. (m + 1) + 1 = m + 2
    OBVIOUS
  <2> QED
    BY <2>1, <1>10 DEF NameAt, NameLine
<1>12. Told(m + 1)'
  <2>1. (m + 1) + 1 = m + 2 /\ (m + 1) + 2 = m + 3
    OBVIOUS
  <2>2. filesblk'[m + 2].kind = "name"
    BY <1>10 DEF NameLine
  <2>3. hosts[b] # <<>> => m + 3 \in DOMAIN filesblk' /\ filesblk'[m + 3] = HostLine(hosts[b][1])
    <3>1. SUFFICES ASSUME hosts[b] # <<>>
                   PROVE  m + 3 \in DOMAIN filesblk' /\ filesblk'[m + 3] = HostLine(hosts[b][1])
      OBVIOUS
    <3>2. hosts[b] \in Seq(STRING)
      BY LinesOfBlock
    <3>3. 1 \in 1 .. l
      BY <3>1, <3>2, <1>2
    <3>4. 3 \in 1 .. 2 + l /\ m + 3 \in 1 .. m + 2 + l /\ 2 + 1 = 3
      BY <3>3
    <3>5. more[3] = HostLine(hosts[b][1])
      BY <3>3, <3>4, <1>4
    <3> QED
      BY <3>4, <3>5, <1>6
  <2> QED
    BY <2>1, <2>2, <2>3, <1>10, <1>11 DEF Told, Located
<1>13. LinesInv'
  <2>1. \A n \in BlockLines' : Told(n)'
    BY <1>5, <1>9, <1>12
  <2>2. \A n \in BlockLines : NameAt(n) # b
    BY DEF Written
  <2>3. \A n, k \in BlockLines' : NameAt(n)' = NameAt(k)' => n = k
    BY <2>2, <1>5, <1>9, <1>11 DEF LinesInv
  <2> QED
    BY <2>1, <2>3 DEF LinesInv
<1>14. Written' = Written \cup {b}
  BY <1>5, <1>9, <1>11 DEF Written
<1> QED
  BY <1>5, <1>13, <1>14

-----------------------------------------------------------------------------
(* The steps of readhdfs. *)

LEMMA LinesFrame ==
    ASSUME LinesInv, filesblk' = filesblk, hosts' = hosts
    PROVE  LinesInv' /\ Written' = Written
<1>1. BlockLines' = BlockLines
  BY DEF BlockLines
<1>2. \A n : NameAt(n)' = NameAt(n) /\ (Told(n) => Told(n)')
  BY DEF NameAt, Told, Located
<1>3. LinesInv'
  BY <1>1, <1>2 DEF LinesInv
<1>4. Written' = Written
  BY <1>1, <1>2 DEF Written
<1> QED
  BY <1>3, <1>4

LEMMA PathsFrame ==
    ASSUME PathsInv, path_vec' = path_vec, datanode' = datanode, hosts' = hosts
    PROVE  PathsInv'
  BY DEF PathsInv, Located

LEMMA AssignFrame ==
    ASSUME AssignInv, path_vec' = path_vec, datanode' = datanode, lists' = lists
    PROVE  AssignInv'
<1>1. Assigned' = Assigned
  BY DEF Assigned
<1>2. \A node : OfNode(node)' = OfNode(node)
  BY <1>1 DEF OfNode
<1>3. \A i : Entry(i)' = Entry(i)
  BY DEF Entry
<1> QED
  BY <1>1, <1>2, <1>3 DEF AssignInv

\* Before the walk is over nothing is written.
LEMMA NothingWritten ==
    ASSUME TypeOK', next' = 0, words' = <<>>, filesblk' = <<>>
    PROVE  WriteInv'
<1>1. BlockLines' = {}
  BY DEF BlockLines
<1>2. Written' = {}
  BY <1>1 DEF Written
<1>3. ToSet(words') = {} /\ IsInjective(words')
  BY NoElements
<1>4. Begun' = {}
  BY DEF Begun
<1>5. next' <= Len(files')
  BY DEF TypeOK
<1> QED
  BY <1>2, <1>3, <1>4, <1>5 DEF WriteInv

LEMMA WalkSteps ==
    ASSUME ExportInv, ListDirectory \/ KeepInfo
    PROVE  ExportInv'
<1>1. /\ program = "readhdfs" /\ ReadhdfsInv /\ TypeOK /\ LinesInv /\ PathsInv /\ AssignInv
  BY DEF ExportInv, ListDirectory, KeepInfo
<1>2. /\ program' = program /\ hosts' = hosts /\ words' = words /\ next' = next
      /\ filesblk' = filesblk /\ path_vec' = path_vec /\ datanode' = datanode
      /\ lists' = lists /\ shown' = shown
  BY DEF ListDirectory, KeepInfo, read
<1>3. /\ WalkInv'
      /\ dirs' \in Seq(Dirs) /\ infos' \in Seq(Dirs \cup Files) /\ files' \in Seq(Files)
  <2>1. CASE ListDirectory
    <3>1. files' = files
      BY <2>1 DEF ListDirectory
    <3> QED
      BY <2>1, <3>1, <1>1, ListDirectoryWalks DEF ReadhdfsInv, TypeOK
  <2>2. CASE KeepInfo
    BY <2>2, <1>1, KeepInfoWalks DEF ReadhdfsInv
  <2> QED
    BY <2>1, <2>2
<1>4. TypeOK'
  BY <1>1, <1>2, <1>3 DEF TypeOK
<1>5. ~Walked
  BY DEF ListDirectory, KeepInfo, Walked
<1>6. WriteInv'
  BY <1>1, <1>2, <1>4, <1>5, NothingWritten DEF ReadhdfsInv, WriteInv
<1>7. ReadhdfsInv'
  BY <1>1, <1>2, <1>3, <1>6 DEF ReadhdfsInv
<1>8. LinesInv' /\ PathsInv' /\ AssignInv'
  BY <1>1, <1>2, LinesFrame, PathsFrame, AssignFrame
<1> QED
  BY <1>1, <1>2, <1>4, <1>7, <1>8 DEF ExportInv

\* The blocks of a file are its own.
LEMMA BlocksOfFile ==
    ASSUME NEW f \in Files
    PROVE  /\ Blocks[f] \in Seq(Names)
           /\ IsInjective(Blocks[f])
           /\ \A g \in Files : g # f => ToSet(Blocks[f]) \cap ToSet(Blocks[g]) = {}
<1>1. \A g, h \in Files : \A i \in DOMAIN Blocks[g], j \in DOMAIN Blocks[h] :
         Blocks[g][i] = Blocks[h][j] => g = h /\ i = j
  BY ExportAssumption
<1>2. IsInjective(Blocks[f])
  BY <1>1 DEF IsInjective
<1>3. \A g \in Files : g # f => ToSet(Blocks[f]) \cap ToSet(Blocks[g]) = {}
  BY <1>1 DEF ToSet
<1>4. Blocks[f] \in Seq(STRING)
  BY ExportAssumption
<1>5. \A i \in DOMAIN Blocks[f] : Blocks[f][i] \in Names
  BY DEF Names, ToSet
<1>6. Blocks[f] \in Seq(Names)
  BY <1>4, <1>5
<1> QED
  BY <1>2, <1>3, <1>6

LEMMA WriteFileStep ==
    ASSUME ExportInv, WriteFile
    PROVE  ExportInv'
<1>1. /\ program = "readhdfs" /\ ReadhdfsInv /\ TypeOK /\ LinesInv /\ PathsInv /\ AssignInv
  BY DEF ExportInv, WriteFile
<1>2. /\ program' = program /\ hosts' = hosts /\ dirs' = dirs /\ infos' = infos /\ files' = files
      /\ path_vec' = path_vec /\ datanode' = datanode /\ lists' = lists /\ shown' = shown
  BY DEF WriteFile, found, read
<1>3. PICK k \in Nat : k = next
  BY <1>1 DEF TypeOK
<1>4. PICK f : f = files[k + 1]
  OBVIOUS
<1>5. /\ Walked /\ words = <<>> /\ k < Len(files) /\ next' = k + 1
      /\ filesblk' = Append(filesblk, PathLine(f)) /\ words' = Blocks[f]
  BY <1>3, <1>4 DEF WriteFile
<1>6. PICK n \in Nat : n = Len(files) /\ DOMAIN files = 1 .. n /\ files \in Seq(Files)
  BY <1>1 DEF TypeOK
<1>7. k + 1 \in 1 .. n /\ f \in Files
  BY <1>4, <1>5, <1>6
<1>8. filesblk' \in Seq(Line) /\ LinesInv' /\ Written' = Written
  BY <1>1, <1>2, <1>5, <1>7, PathLineAppended
<1>9. TypeOK'
  BY <1>1, <1>2, <1>5, <1>7, <1>8, BlocksOfFile DEF TypeOK
<1>10. Written = Begun
  BY <1>1, <1>5, NoElements DEF ReadhdfsInv, WriteInv
<1>11. Begun = UNION {ToSet(Blocks[files[i]]) : i \in 1 .. k}
  BY <1>3 DEF Begun
<1>12. Begun' = Begun \cup ToSet(words')
  <2>1. Begun' = UNION {ToSet(Blocks[files[i]]) : i \in 1 .. k + 1}
    BY <1>2, <1>5 DEF Begun
  <2>2. 1 .. k + 1 = 1 .. k \cup {k + 1}
    OBVIOUS
  <2> QED
    BY <2>1, <2>2, <1>4, <1>5, <1>11
<1>13. Begun \cap ToSet(words') = {}
  <2>1. \A i, j \in 1 .. n : files[i] = files[j] => i = j
    BY <1>1, <1>6 DEF ReadhdfsInv, WalkInv, Apart, IsInjective
  <2>2. \A i \in 1 .. k : files[i] # f /\ files[i] \in Files
    <3>1. \A i \in 1 .. k : i \in 1 .. n /\ i # k + 1
      BY <1>7
    <3> QED
      BY <3>1, <2>1, <1>4, <1>6, <1>7
  <2>3. \A i \in 1 .. k : ToSet(Blocks[f]) \cap ToSet(Blocks[files[i]]) = {}
    BY <2>2, <1>7, BlocksOfFile
  <2> QED
    BY <2>3, <1>5, <1>11
<1>14. WriteInv'
  <2>1. Walked'
    BY <1>2, <1>5 DEF Walked
  <2>2. next' <= Len(files')
    BY <1>2, <1>5, <1>6
  <2>3. IsInjective(words')
    BY <1>5, <1>7, BlocksOfFile
  <2>4. Written' \cup ToSet(words') = Begun' /\ Written' \cap ToSet(words') = {}
    BY <1>8, <1>10, <1>12, <1>13
  <2> QED
    BY <2>1, <2>2, <2>3, <2>4 DEF WriteInv
<1>15. WalkInv'
  BY <1>1, <1>2 DEF ReadhdfsInv, WalkInv, Apart, WalkOf, Seen
<1>16. ReadhdfsInv'
  BY <1>1, <1>2, <1>14, <1>15 DEF ReadhdfsInv
<1>17. PathsInv' /\ AssignInv'
  BY <1>1, <1>2, PathsFrame, AssignFrame
<1> QED
  BY <1>1, <1>2, <1>8, <1>9, <1>16, <1>17 DEF ExportInv

LEMMA WriteBlockStep ==
    ASSUME ExportInv, WriteBlock
    PROVE  ExportInv'
<1>1. /\ program = "readhdfs" /\ ReadhdfsInv /\ TypeOK /\ LinesInv /\ PathsInv /\ AssignInv
  BY DEF ExportInv, WriteBlock
<1>2. /\ program' = program /\ hosts' = hosts /\ dirs' = dirs /\ infos' = infos /\ files' = files
      /\ next' = next /\ path_vec' = path_vec /\ datanode' = datanode /\ lists' = lists
      /\ shown' = shown
  BY DEF WriteBlock, found, read
<1>3. PICK b : b = Head(words)
  OBVIOUS
<1>4. /\ words \in Seq(Names) /\ words # <<>> /\ words' = Tail(words)
      /\ filesblk' = filesblk \o LinesOf(b)
  BY <1>1, <1>3 DEF WriteBlock, TypeOK
<1>5. /\ words' \in Seq(Names) /\ b \in Names
      /\ ToSet(words) = ToSet(words') \cup {b}
      /\ IsInjective(words) => IsInjective(words') /\ b \notin ToSet(words')
  BY <1>3, <1>4, TailOf
<1>6. WriteInv
  BY <1>1 DEF ReadhdfsInv
<1>7. b \notin Written
  BY <1>5, <1>6 DEF WriteInv
<1>8. filesblk' \in Seq(Line) /\ LinesInv' /\ Written' = Written \cup {b}
  BY <1>1, <1>2, <1>4, <1>5, <1>7, BlockLinesAppended
<1>9. TypeOK'
  BY <1>1, <1>2, <1>5, <1>8 DEF TypeOK
<1>10. WriteInv'
  <2>1. Walked'
    BY <1>2, <1>4, <1>6 DEF WriteInv, Walked
  <2>2. Begun' = Begun
    BY <1>2 DEF Begun
  <2>3. /\ Written \cup ToSet(words) = Begun
        /\ Written \cap ToSet(words) = {}
        /\ IsInjective(words) /\ next <= Len(files)
    BY <1>6 DEF WriteInv
  <2>4. Written' \cup ToSet(words') = Begun' /\ Written' \cap ToSet(words') = {}
    BY <2>2, <2>3, <1>5, <1>8
  <2> QED
    BY <2>1, <2>3, <2>4, <1>2, <1>5 DEF WriteInv
<1>11. WalkInv'
  BY <1>1, <1>2 DEF ReadhdfsInv, WalkInv, Apart, WalkOf, Seen
<1>12. ReadhdfsInv'
  BY <1>1, <1>2, <1>10, <1>11 DEF ReadhdfsInv
<1>13. PathsInv' /\ AssignInv'
  BY <1>1, <1>2, PathsFrame, AssignFrame
<1> QED
  BY <1>1, <1>2, <1>8, <1>9, <1>12, <1>13 DEF ExportInv

-----------------------------------------------------------------------------
(* The steps of init. *)

LEMMA RunInitStep ==
    ASSUME ExportInv, RunInit
    PROVE  ExportInv'
<1>1. /\ ReadhdfsInv /\ TypeOK /\ LinesInv /\ PathsInv /\ AssignInv
      /\ Walked /\ words = <<>> /\ next = Len(files)
  BY DEF ExportInv, RunInit
<1>2. /\ program' = "init" /\ next' = 0
      /\ hosts' = hosts /\ dirs' = dirs /\ infos' = infos /\ files' = files /\ words' = words
      /\ filesblk' = filesblk /\ path_vec' = path_vec /\ datanode' = datanode
      /\ lists' = lists /\ shown' = shown
  BY DEF RunInit, found, read
<1>3. TypeOK'
  BY <1>1, <1>2 DEF TypeOK
<1>4. LinesInv' /\ PathsInv' /\ AssignInv' /\ Written' = Written
  BY <1>1, <1>2, LinesFrame, PathsFrame, AssignFrame
<1>5. Written = Names
  <2>1. Written = Begun
    BY <1>1, NoElements DEF ReadhdfsInv, WriteInv
  <2>2. ToSet(files) = Files
    BY <1>1, WalkComplete DEF ReadhdfsInv
  <2>3. DOMAIN files = 1 .. next
    BY <1>1 DEF TypeOK
  <2>4. Files = {files[k] : k \in 1 .. next}
    BY <2>2, <2>3 DEF ToSet
  <2>5. Begun = Names
    BY <2>4 DEF Begun, Names
  <2> QED
    BY <2>1, <2>5
<1>6. ToSet(path_vec') = {}
  BY <1>1, <1>2, NoElements DEF ReadhdfsInv
<1>7. ReadTo(next)' = {}
  BY <1>2 DEF ReadTo
<1>8. InitInv'
  <2>1. shown' = <<>>
    BY <1>1, <1>2 DEF ReadhdfsInv
  <2> QED
    BY <2>1, <1>4, <1>5, <1>6, <1>7 DEF InitInv
<1> QED
  BY <1>2, <1>3, <1>4, <1>8 DEF ExportInv

LEMMA LineTexts ==
    ASSUME TypeOK, filesblk # <<>>, NEW n \in Nat \ {0}
    PROVE  LineAt(n) \in Texts
<1>1. PICK m \in Nat : m = Len(filesblk) /\ DOMAIN filesblk = 1 .. m /\ m > 0
  BY DEF TypeOK
<1>2. \A i \in 1 .. m : filesblk[i] \in Line
  BY <1>1 DEF TypeOK
<1>3. PICK i \in 1 .. m : LineAt(n) = filesblk[i].text
  BY <1>1 DEF LineAt
<1>4. \A line \in Line : line.text \in Texts
  BY DEF Line
<1> QED
  BY <1>2, <1>3, <1>4

LEMMA AssignedNat ==
    ASSUME TypeOK
    PROVE  \E x, y, z \in Nat :
              /\ x = Len(lists["slave1"]) /\ y = Len(lists["slave2"]) /\ z = Len(lists["node"])
              /\ x + y + z \in Nat
              /\ Assigned = (x + y + z) \div 2 /\ Assigned \in Nat
<1>1. "slave1" \in Nodes /\ "slave2" \in Nodes /\ "node" \in Nodes
  BY DEF Nodes
<1>2. \A l \in Nodes : Len(lists[l]) \in Nat
  BY DEF TypeOK
<1>3. PICK x \in Nat : x = Len(lists["slave1"])
  BY <1>1, <1>2
<1>4. PICK y \in Nat : y = Len(lists["slave2"])
  BY <1>1, <1>2
<1>5. PICK z \in Nat : z = Len(lists["node"])
  BY <1>1, <1>2
<1>6. x + y + z \in Nat /\ (x + y + z) \div 2 \in Nat
  OBVIOUS
<1>7. Assigned = (x + y + z) \div 2
  BY <1>3, <1>4, <1>5 DEF Assigned
<1> QED
  BY <1>3, <1>4, <1>5, <1>6, <1>7

\* What is on the lists stays when more is read.
LEMMA AssignGrows ==
    ASSUME TypeOK, AssignInv, NEW b \in Names, NEW h \in Texts, Len(path_vec) = Len(datanode),
           path_vec' = Append(path_vec, b), datanode' = Append(datanode, h), lists' = lists
    PROVE  AssignInv'
<1>1. PICK n \in Nat : n = Len(path_vec) /\ n = Len(datanode)
  BY DEF TypeOK
<1>2. PICK a : a = Assigned
  OBVIOUS
<1>3. Assigned' = a
  BY <1>2 DEF Assigned
<1>4. /\ Len(path_vec') = n + 1
      /\ \A i \in 1 .. n : path_vec'[i] = path_vec[i]
      /\ \A i \in 1 .. n : datanode'[i] = datanode[i]
  BY <1>1 DEF TypeOK
<1>5. a \in Nat
  BY <1>2, AssignedNat
<1>6. a <= n /\ \A i \in 1 .. a : i \in 1 .. n
  BY <1>1, <1>2, <1>5 DEF AssignInv
<1>7. \A node : OfNode(node)' = OfNode(node)
  BY <1>2, <1>3, <1>4, <1>6 DEF OfNode
<1>8. \A i \in 1 .. a : Entry(i)' = Entry(i)
  BY <1>4, <1>6 DEF Entry
<1>9. \A node : {Entry(i) : i \in OfNode(node)}' = {Entry(i) : i \in OfNode(node)}
  <2>1. \A node : OfNode(node) \subseteq 1 .. a
    BY <1>2 DEF OfNode
  <2> QED
    BY <2>1, <1>7, <1>8
<1>10. a <= Len(path_vec')
  BY <1>4, <1>5, <1>6
<1> QED
  BY <1>3, <1>9, <1>10 DEF AssignInv

\* A block whose first line stands where the host of a lost one would be.
LEMMA LostBefore ==
    ASSUME TypeOK, LinesInv, NEW k \in Nat, k + 3 \in BlockLines,
           filesblk[k + 2].kind = "name", NameAt(k + 1) \in Names, ~Located(NameAt(k + 1))
    PROVE  BehindLost(NameAt(k + 3))
<1>1. PICK m \in Nat : m = Len(filesblk) /\ DOMAIN filesblk = 1 .. m
  BY DEF TypeOK
<1>2. Told(k + 3)
  BY DEF LinesInv
<1>3. k + 4 \in 3 .. m /\ k + 2 \in 1 .. m /\ k + 4 \in 1 .. m /\ (k + 4) - 2 = k + 2
      /\ (k + 3) + 1 = k + 4 /\ (k + 1) + 1 = k + 2
  BY <1>1, <1>2 DEF Told
<1>4. filesblk[k + 2] \in Line /\ filesblk[k + 4] \in Line
  BY <1>1, <1>3 DEF TypeOK
<1>5. filesblk[k + 2] = NameLine(NameAt(k + 1))
  BY <1>3, <1>4 DEF Line, NameLine, NameAt
<1>6. filesblk[k + 4] = NameLine(NameAt(k + 3))
  BY <1>2, <1>3, <1>4 DEF Line, NameLine, NameAt, Told
<1> QED
  BY <1>1, <1>3, <1>5, <1>6 DEF BehindLost

LEMMA ReadBlock ==
    ASSUME ExportInv, program = "init", ReadLine, filesblk[next + 1].kind = "block"
    PROVE  ExportInv'
<1>1. /\ InitInv /\ TypeOK /\ LinesInv /\ PathsInv /\ AssignInv
  BY DEF ExportInv
<1>2. PICK k \in Nat : k = next
  BY <1>1 DEF TypeOK
<1>3. PICK m \in Nat : m = Len(filesblk) /\ DOMAIN filesblk = 1 .. m
  BY <1>1 DEF TypeOK
<1>4. PICK b : b = NameAt(k + 1)
  OBVIOUS
<1>5. PICK h : h = HostAfter(k + 1)
  OBVIOUS
<1>6. k < m /\ k + 1 \in 1 .. m /\ filesblk # <<>>
  BY <1>1, <1>2, <1>3 DEF ReadLine, TypeOK
<1>7. k + 1 \in BlockLines
  BY <1>2, <1>3, <1>6 DEF BlockLines
<1>8. Told(k + 1)
  BY <1>1, <1>7 DEF LinesInv
<1>9. (k + 1) + 1 = k + 2 /\ (k + 1) + 2 = k + 3
  OBVIOUS
<1>10. /\ k + 2 \in 1 .. m /\ filesblk[k + 2].kind = "name" /\ b \in Names
       /\ Located(b) => k + 3 \in 1 .. m /\ filesblk[k + 3] = HostLine(hosts[b][1])
  BY <1>3, <1>4, <1>8, <1>9 DEF Told
<1>11. NameAfter(k + 1) = b
  BY <1>3, <1>4, <1>9, <1>10 DEF NameAfter, LineAt, NameAt
<1>12. Located(b) => h = hosts[b][1]
  <2>1. Located(b) => h = filesblk[k + 3].text
    BY <1>3, <1>5, <1>9, <1>10 DEF HostAfter, LineAt
  <2> QED
    BY <2>1, <1>10 DEF HostLine
<1>13. h \in Texts
  <2>1. (k + 1) + 2 \in Nat \ {0}
    OBVIOUS
  <2> QED
    BY <2>1, <1>1, <1>5, <1>6, LineTexts DEF HostAfter
<1>14. /\ path_vec' = Append(path_vec, b) /\ datanode' = Append(datanode, h) /\ next' = k + 3
       /\ program' = program /\ hosts' = hosts /\ dirs' = dirs /\ infos' = infos /\ files' = files
       /\ words' = words /\ filesblk' = filesblk /\ lists' = lists /\ shown' = shown
  BY <1>2, <1>5, <1>9, <1>11 DEF ReadLine, found
<1>15. /\ path_vec \in Seq(Names) /\ datanode \in Seq(Texts)
       /\ Len(path_vec) = Len(datanode) /\ IsInjective(path_vec)
       /\ \A i \in DOMAIN path_vec : Located(path_vec[i]) => datanode[i] = hosts[path_vec[i]][1]
  BY <1>1 DEF TypeOK, PathsInv
<1>16. b \notin ToSet(path_vec)
  <2>1. \A n \in BlockLines \cap 1 .. k : NameAt(n) # b
    <3>1. \A n \in 1 .. k : n # k + 1
      OBVIOUS
    <3> QED
      BY <3>1, <1>1, <1>4, <1>7 DEF LinesInv
  <2>2. b \notin ReadTo(k)
    BY <2>1 DEF ReadTo
  <2> QED
    BY <2>2, <1>1, <1>2 DEF InitInv
<1>17. /\ path_vec' \in Seq(Names) /\ ToSet(path_vec') = ToSet(path_vec) \cup {b}
       /\ IsInjective(path_vec') /\ datanode' \in Seq(Texts)
  BY <1>10, <1>13, <1>14, <1>15, <1>16, AppendTo
<1>18. TypeOK'
  <2>1. next' \in Nat
    BY <1>14
  <2>2. path_vec' \in Seq(Names) /\ datanode' \in Seq(Texts)
    BY <1>17
  <2>3. /\ program' = program /\ hosts' = hosts /\ dirs' = dirs /\ infos' = infos
        /\ files' = files /\ words' = words /\ filesblk' = filesblk
        /\ lists' = lists /\ shown' = shown
    BY <1>14
  <2> QED
    BY <2>1, <2>2, <2>3, <1>1 DEF TypeOK
<1>19. LinesInv' /\ Written' = Written
  BY <1>1, <1>14, LinesFrame
<1>20. PathsInv'
  <2>1. PICK n \in Nat : n = Len(path_vec) /\ n = Len(datanode)
                         /\ DOMAIN path_vec = 1 .. n
    BY <1>15
  <2>2. /\ DOMAIN path_vec' = 1 .. n + 1 /\ Len(path_vec') = n + 1 /\ Len(datanode') = n + 1
        /\ path_vec'[n + 1] = b /\ datanode'[n + 1] = h
        /\ \A i \in 1 .. n : path_vec'[i] = path_vec[i] /\ datanode'[i] = datanode[i]
    BY <2>1, <1>10, <1>13, <1>14, <1>15
  <2>3. \A i \in 1 .. n + 1 : i \in 1 .. n \/ i = n + 1
    OBVIOUS
  <2>4. ASSUME NEW i \in DOMAIN path_vec', hosts[path_vec'[i]] # <<>>
        PROVE  datanode'[i] = hosts[path_vec'[i]][1]
    <3>1. CASE i = n + 1
      BY <3>1, <2>2, <2>4, <1>12 DEF Located
    <3>2. CASE i \in 1 .. n
      BY <3>2, <2>1, <2>2, <2>4, <1>15 DEF Located
    <3> QED
      BY <3>1, <3>2, <2>2, <2>3, <2>4
  <2> QED
    BY <2>2, <2>4, <1>14, <1>17 DEF PathsInv, Located
<1>21. AssignInv'
  BY <1>1, <1>10, <1>13, <1>14, <1>15, AssignGrows
<1>22. InitInv'
  <2>1. BlockLines' = BlockLines /\ \A n : NameAt(n)' = NameAt(n)
    BY <1>14 DEF BlockLines, NameAt
  <2>2. ReadTo(k + 3)' = ReadTo(k + 3)
    BY <2>1 DEF ReadTo
  <2>3. ReadTo(k) \cup {b} \subseteq ReadTo(k + 3)
    <3>1. \A n \in 1 .. k : n \in 1 .. k + 3
      OBVIOUS
    <3>2. k + 1 \in 1 .. k + 3
      OBVIOUS
    <3> QED
      BY <3>1, <3>2, <1>4, <1>7 DEF ReadTo
  <2>4. ASSUME NEW c \in ReadTo(k + 3)
        PROVE  c \in ReadTo(k) \cup {b} \/ BehindLost(c)
    <3>1. PICK n \in BlockLines \cap 1 .. k + 3 : c = NameAt(n)
      BY DEF ReadTo
    <3>2. k + 2 \notin BlockLines
      BY <1>10 DEF BlockLines
    <3>3. n \in 1 .. k \/ n = k + 1 \/ n = k + 3
      BY <3>1, <3>2
    <3>4. CASE n = k + 3
      <4>1. filesblk[k + 3].kind = "block"
        BY <3>1, <3>4 DEF BlockLines
      <4>2. ~Located(b)
        BY <4>1, <1>10 DEF HostLine
      <4>3. BehindLost(NameAt(k + 3))
        BY <3>1, <3>4, <4>2, <1>1, <1>4, <1>9, <1>10, LostBefore
      <4> QED
        BY <3>1, <3>4, <4>3
    <3> QED
      BY <3>1, <3>3, <3>4, <1>4 DEF ReadTo
  <2>5. /\ Written = Names /\ ToSet(path_vec) \subseteq ReadTo(k) /\ shown = <<>>
        /\ \A c \in ReadTo(k) : c \in ToSet(path_vec) \/ BehindLost(c)
    BY <1>1, <1>2 DEF InitInv
  <2>6. \A c : BehindLost(c)' <=> BehindLost(c)
    BY <1>14 DEF BehindLost, Located
  <2>7. ToSet(path_vec') \subseteq ReadTo(next)'
    BY <2>2, <2>3, <2>5, <1>14, <1>17
  <2>8. \A c \in ReadTo(next)' : c \in ToSet(path_vec') \/ BehindLost(c)'
    BY <2>2, <2>4, <2>5, <2>6, <1>14, <1>17
  <2> QED
    BY <2>5, <2>7, <2>8, <1>14, <1>19 DEF InitInv
<1> QED
  BY <1>14, <1>18, <1>19, <1>20, <1>21, <1>22 DEF ExportInv

LEMMA ReadOther ==
    ASSUME ExportInv, program = "init", ReadLine, filesblk[next + 1].kind # "block"
    PROVE  ExportInv'
<1>1. /\ InitInv /\ TypeOK /\ LinesInv /\ PathsInv /\ AssignInv
  BY DEF ExportInv
<1>2. PICK k \in Nat : k = next
  BY <1>1 DEF TypeOK
<1>3. /\ path_vec' = path_vec /\ datanode' = datanode /\ next' = k + 1
      /\ program' = program /\ hosts' = hosts /\ dirs' = dirs /\ infos' = infos /\ files' = files
      /\ words' = words /\ filesblk' = filesblk /\ lists' = lists /\ shown' = shown
  BY <1>2 DEF ReadLine, found
<1>4. TypeOK'
  BY <1>1, <1>2, <1>3 DEF TypeOK
<1>5. LinesInv' /\ Written' = Written /\ PathsInv' /\ AssignInv'
  BY <1>1, <1>3, LinesFrame, PathsFrame, AssignFrame
<1>6. BlockLines' = BlockLines /\ \A n : NameAt(n)' = NameAt(n)
  BY <1>3 DEF BlockLines, NameAt
<1>7. ReadTo(k + 1)' = ReadTo(k)
  <2>1. k + 1 \notin BlockLines
    BY <1>2 DEF BlockLines
  <2>2. 1 .. k + 1 = 1 .. k \cup {k + 1}
    OBVIOUS
  <2> QED
    BY <2>1, <2>2, <1>6 DEF ReadTo
<1>8. InitInv'
  BY <1>1, <1>2, <1>3, <1>5, <1>7 DEF InitInv, BehindLost, Located
<1> QED
  BY <1>3, <1>4, <1>5, <1>8 DEF ExportInv

LEMMA EntryAppended ==
    ASSUME NEW S, NEW list \in Seq(S), NEW x \in S, NEW y \in S, Len(list) % 2 = 0
    PROVE  /\ list \o <<x, y>> \in Seq(S)
           /\ Len(list \o <<x, y>>) = Len(list) + 2
           /\ Entries(list \o <<x, y>>) = Entries(list) \cup {<<x, y>>}
<1>1. PICK m \in Nat : m = Len(list)
  OBVIOUS
<1>2. PICK two \in Nat : two = 2
  OBVIOUS
<1>3. PICK pair : pair = <<x, y>>
  OBVIOUS
<1>4. PICK more : more = list \o pair
  OBVIOUS
<1>5. pair \in Seq(S) /\ Len(pair) = two /\ pair[1] = x /\ pair[2] = y
  BY <1>2, <1>3
<1>6. /\ more \in Seq(S) /\ Len(more) = m + two
      /\ \A i \in 1 .. m : more[i] = list[i]
      /\ \A i \in 1 .. two : more[m + i] = pair[i]
  <2>1. list \in Seq(S) /\ pair \in Seq(S) /\ m = Len(list) /\ two = Len(pair)
    BY <1>1, <1>5
  <2>2. /\ list \o pair \in Seq(S) /\ Len(list \o pair) = m + two
        /\ \A i \in 1 .. m : (list \o pair)[i] = list[i]
        /\ \A i \in 1 .. two : (list \o pair)[m + i] = pair[i]
    BY <2>1, ConcatOf
  <2> QED
    BY <2>2, <1>4
<1>7. more[m + 1] = x /\ more[m + 2] = y
  BY <1>2, <1>5, <1>6
<1>8. PICK h \in Nat : m = 2 * h
  BY <1>1
<1>9. m \div 2 = h /\ (m + 2) \div 2 = h + 1
  BY <1>8
<1>10. \A k \in 1 .. h : <<more[2 * k - 1], more[2 * k]>> = <<list[2 * k - 1], list[2 * k]>>
  <2>1. \A k \in 1 .. h : 2 * k - 1 \in 1 .. m /\ 2 * k \in 1 .. m
    BY <1>8
  <2> QED
    BY <2>1, <1>6
<1>11. <<more[2 * (h + 1) - 1], more[2 * (h + 1)]>> = <<x, y>>
  <2>1. 2 * (h + 1) - 1 = m + 1 /\ 2 * (h + 1) = m + 2
    BY <1>8
  <2> QED
    BY <2>1, <1>7
<1>12. 1 .. h + 1 = 1 .. h \cup {h + 1}
  OBVIOUS
<1>13. Entries(list) = {<<list[2 * k - 1], list[2 * k]>> : k \in 1 .. h}
  BY <1>1, <1>9 DEF Entries
<1>14. Entries(more) = {<<more[2 * k - 1], more[2 * k]>> : k \in 1 .. h + 1}
  BY <1>2, <1>6, <1>9 DEF Entries
<1>15. Entries(more) = Entries(list) \cup {<<x, y>>}
  <2>1. PICK e : e = [k \in 1 .. h + 1 |-> <<more[2 * k - 1], more[2 * k]>>]
    OBVIOUS
  <2>2. Entries(more) = {e[k] : k \in 1 .. h + 1}
    BY <2>1, <1>14
  <2>3. \A k \in 1 .. h : k \in 1 .. h + 1 /\ e[k] = <<list[2 * k - 1], list[2 * k]>>
    BY <2>1, <1>10, <1>12
  <2>4. Entries(list) = {e[k] : k \in 1 .. h}
    BY <2>3, <1>13
  <2>5. e[h + 1] = <<x, y>>
    <3>1. h + 1 \in 1 .. h + 1
      OBVIOUS
    <3> QED
      BY <3>1, <2>1, <1>11
  <2> QED
    BY <2>2, <2>4, <2>5, <1>12
<1> QED
  BY <1>1, <1>2, <1>3, <1>4, <1>6, <1>15

LEMMA AssignStep ==
    ASSUME ExportInv, Assign
    PROVE  ExportInv'
<1>1. /\ program = "init" /\ InitInv /\ TypeOK /\ LinesInv /\ PathsInv /\ AssignInv
  BY DEF ExportInv, Assign
<1>2. PICK a \in Nat : a = Assigned
  BY <1>1, AssignedNat
<1>3. PICK to : to = ListOf(datanode[a + 1])
  OBVIOUS
<1>4. PICK b : b = path_vec[a + 1]
  OBVIOUS
<1>5. to \in Nodes
  BY <1>3 DEF ListOf, Nodes
<1>6. a + 1 <= Len(path_vec) /\ b \in Names
  BY <1>1, <1>2, <1>4 DEF Assign, TypeOK
<1>7. /\ lists' = [lists EXCEPT ![to] = @ \o <<b, a + 1>>]
      /\ program' = program /\ hosts' = hosts /\ dirs' = dirs /\ infos' = infos /\ files' = files
      /\ words' = words /\ next' = next /\ filesblk' = filesblk
      /\ path_vec' = path_vec /\ datanode' = datanode /\ shown' = shown
  BY <1>2, <1>3, <1>4 DEF Assign, NumberOf, found
<1>8. /\ DOMAIN lists = Nodes /\ \A n \in Nodes : lists[n] \in Seq(Names \cup Nat)
      /\ \A n \in Nodes : Len(lists[n]) % 2 = 0
  BY <1>1 DEF TypeOK, AssignInv
<1>9. /\ DOMAIN lists' = Nodes
      /\ lists'[to] = lists[to] \o <<b, a + 1>>
      /\ \A n \in Nodes : n # to => lists'[n] = lists[n]
  BY <1>5, <1>7, <1>8
<1>10. /\ lists'[to] \in Seq(Names \cup Nat)
       /\ Len(lists'[to]) = Len(lists[to]) + 2
       /\ Entries(lists'[to]) = Entries(lists[to]) \cup {<<b, a + 1>>}
  <2>1. PICK list : list = lists[to]
    OBVIOUS
  <2>2. PICK n : n = a + 1
    OBVIOUS
  <2>3. PICK S : S = Names \cup Nat
    OBVIOUS
  <2>4. list \in Seq(S) /\ Len(list) % 2 = 0 /\ b \in S /\ n \in S
    BY <2>1, <2>2, <2>3, <1>5, <1>6, <1>8
  <2>5. /\ list \o <<b, n>> \in Seq(S)
        /\ Len(list \o <<b, n>>) = Len(list) + 2
        /\ Entries(list \o <<b, n>>) = Entries(list) \cup {<<b, n>>}
    BY <2>4, EntryAppended
  <2> QED
    BY <2>1, <2>2, <2>3, <2>5, <1>9
<1>11. Assigned' = a + 1
  <2>1. PICK x, y, z \in Nat :
            /\ x = Len(lists["slave1"]) /\ y = Len(lists["slave2"]) /\ z = Len(lists["node"])
            /\ x + y + z \in Nat
            /\ a = (x + y + z) \div 2
    BY <1>1, <1>2, AssignedNat
  <2>2. \A n \in Nodes : Len(lists'[n]) = IF n = to THEN Len(lists[n]) + 2 ELSE Len(lists[n])
    BY <1>9, <1>10
  <2>3. Len(lists'["slave1"]) + Len(lists'["slave2"]) + Len(lists'["node"]) = (x + y + z) + 2
    <3>1. /\ Len(lists'["slave1"]) = IF to = "slave1" THEN x + 2 ELSE x
          /\ Len(lists'["slave2"]) = IF to = "slave2" THEN y + 2 ELSE y
          /\ Len(lists'["node"]) = IF to = "node" THEN z + 2 ELSE z
      BY <2>1, <2>2 DEF Nodes
    <3>2. CASE to = "slave1"
      BY <3>1, <3>2
    <3>3. CASE to = "slave2"
      BY <3>1, <3>3
    <3>4. CASE to = "node"
      BY <3>1, <3>4
    <3> QED
      BY <3>2, <3>3, <3>4, <1>5 DEF Nodes
  <2>4. \A n \in Nat : (n + 2) \div 2 = n \div 2 + 1
    OBVIOUS
  <2> QED
    BY <2>1, <2>3, <2>4 DEF Assigned
<1>12. AssignInv'
  <2>1. a + 1 <= Len(path_vec')
    BY <1>6, <1>7
  <2>2. \A i : Entry(i)' = Entry(i)
    BY <1>7 DEF Entry
  <2>3. 1 .. a + 1 = 1 .. a \cup {a + 1}
    OBVIOUS
  <2>4. /\ OfNode(to)' = OfNode(to) \cup {a + 1}
        /\ \A n \in Nodes : n # to => OfNode(n)' = OfNode(n)
    BY <2>3, <1>2, <1>3, <1>7, <1>11 DEF OfNode
  <2>5. ASSUME NEW n \in Nodes
        PROVE  Len(lists'[n]) % 2 = 0 /\ Entries(lists'[n]) = {Entry(i) : i \in OfNode(n)}'
    <3>1. Entries(lists[n]) = {Entry(i) : i \in OfNode(n)} /\ Len(lists[n]) % 2 = 0
      BY <1>1 DEF AssignInv
    <3>2. {Entry(i) : i \in OfNode(n)}' = {Entry(i) : i \in OfNode(n)'}
      BY <2>2
    <3>3. CASE n # to
      BY <3>1, <3>2, <3>3, <2>4, <1>9
    <3>4. CASE n = to
      <4>1. Entry(a + 1) = <<b, a + 1>>
        BY <1>4 DEF Entry
      <4>2. {Entry(i) : i \in OfNode(n)'} = {Entry(i) : i \in OfNode(n)} \cup {<<b, a + 1>>}
        BY <4>1, <3>4, <2>4
      <4>3. Len(lists'[n]) % 2 = 0
        <5>1. \A x \in Nat : x % 2 = 0 => (x + 2) % 2 = 0
          OBVIOUS
        <5>2. Len(lists[n]) \in Nat
          BY <1>8
        <5> QED
          BY <5>1, <5>2, <3>1, <3>4, <1>10
      <4> QED
        BY <4>2, <4>3, <3>1, <3>2, <3>4, <1>10
    <3> QED
      BY <3>3, <3>4
  <2> QED
    BY <2>1, <2>5, <1>11 DEF AssignInv
<1>13. TypeOK'
  <2>1. \A n \in Nodes : lists'[n] \in Seq(Names \cup Nat)
    BY <1>8, <1>9, <1>10
  <2> QED
    BY <2>1, <1>1, <1>7, <1>9 DEF TypeOK
<1>14. LinesInv' /\ Written' = Written /\ PathsInv'
  BY <1>1, <1>7, LinesFrame, PathsFrame
<1>15. InitInv'
  <2>1. BlockLines' = BlockLines /\ \A n : NameAt(n)' = NameAt(n)
    BY <1>7 DEF BlockLines, NameAt
  <2>2. ReadTo(next)' = ReadTo(next)
    BY <2>1, <1>7 DEF ReadTo
  <2> QED
    BY <2>2, <1>1, <1>7, <1>14 DEF InitInv, BehindLost, Located
<1> QED
  BY <1>1, <1>7, <1>12, <1>13, <1>14, <1>15 DEF ExportInv

-----------------------------------------------------------------------------
(* The steps of write2Client. *)

LEMMA RunWriteStep ==
    ASSUME ExportInv, RunWrite
    PROVE  ExportInv'
<1>1. /\ InitInv /\ TypeOK /\ LinesInv /\ PathsInv /\ AssignInv
      /\ next >= Len(filesblk) /\ Assigned = Len(path_vec)
  BY DEF ExportInv, RunWrite
<1>2. /\ program' = "write2Client" /\ next' = 0
      /\ hosts' = hosts /\ dirs' = dirs /\ infos' = infos /\ files' = files /\ words' = words
      /\ filesblk' = filesblk /\ path_vec' = path_vec /\ datanode' = datanode
      /\ lists' = lists /\ shown' = shown
  BY DEF RunWrite, found, read
<1>3. TypeOK'
  BY <1>1, <1>2 DEF TypeOK
<1>4. LinesInv' /\ PathsInv' /\ AssignInv' /\ Written' = Written
  BY <1>1, <1>2, LinesFrame, PathsFrame, AssignFrame
<1>5. ReadTo(next) = Names
  <2>1. \A n \in BlockLines : n \in 1 .. next
    BY <1>1 DEF BlockLines, TypeOK
  <2>2. ReadTo(next) = Written
    BY <2>1 DEF ReadTo, Written
  <2> QED
    BY <2>2, <1>1 DEF InitInv
<1>6. ShowInv'
  <2>1. \A b : BehindLost(b)' <=> BehindLost(b)
    BY <1>2 DEF BehindLost, Located
  <2>2. \A b \in Names : b \in ToSet(path_vec') \/ BehindLost(b)
    BY <1>1, <1>2, <1>5 DEF InitInv
  <2>3. Assigned' = Len(path_vec')
    BY <1>1, <1>2 DEF Assigned
  <2>4. next' \in 0 .. Len(lists'["slave1"]) /\ next' % 2 = 0 /\ next' \div 2 = 0
    <3>1. Len(lists["slave1"]) \in Nat
      BY <1>1 DEF TypeOK, Nodes
    <3> QED
      BY <3>1, <1>2
  <2>5. ToSet(shown') = {}
    BY <1>1, <1>2, NoElements DEF InitInv
  <2>6. FirstEntries(lists["slave1"], next \div 2)' = {}
    <3>1. \A list : FirstEntries(list, 0) = {}
      BY DEF FirstEntries
    <3>2. FirstEntries(lists["slave1"], next \div 2)' = FirstEntries(lists'["slave1"], 0)
      BY <2>4
    <3> QED
      BY <3>1, <3>2
  <2> QED
    BY <2>1, <2>2, <2>3, <2>4, <2>5, <2>6 DEF ShowInv
<1> QED
  BY <1>2, <1>3, <1>4, <1>6 DEF ExportInv

LEMMA ShowStep ==
    ASSUME ExportInv, Show
    PROVE  ExportInv'
<1>1. /\ program = "write2Client" /\ ShowInv /\ TypeOK /\ LinesInv /\ PathsInv /\ AssignInv
  BY DEF ExportInv, Show
<1>2. PICK list : list = lists["slave1"]
  OBVIOUS
<1>3. PICK m \in Nat : m = Len(list) /\ list \in Seq(Names \cup Nat) /\ m % 2 = 0
  BY <1>1, <1>2 DEF TypeOK, AssignInv, Nodes
<1>4. PICK k \in Nat : k = next
  BY <1>1 DEF TypeOK
<1>5. k < m /\ k % 2 = 0
  BY <1>1, <1>2, <1>3, <1>4 DEF Show, ShowInv
<1>6. PICK h \in Nat : k = 2 * h
  BY <1>4, <1>5
<1>7. k + 2 <= m
  BY <1>3, <1>5
<1>8. /\ next' = k + 2 /\ shown' = Append(shown, <<list[k + 1], list[k + 2]>>)
      /\ program' = program /\ hosts' = hosts /\ dirs' = dirs /\ infos' = infos /\ files' = files
      /\ words' = words /\ filesblk' = filesblk
      /\ path_vec' = path_vec /\ datanode' = datanode /\ lists' = lists
  BY <1>2, <1>4 DEF Show, found, read
<1>9. PICK e : e = <<list[k + 1], list[k + 2]>>
  OBVIOUS
<1>10. e \in (Names \cup Nat) \X (Names \cup Nat)
  <2>1. k + 1 \in 1 .. m /\ k + 2 \in 1 .. m
    BY <1>7
  <2>2. list[k + 1] \in Names \cup Nat /\ list[k + 2] \in Names \cup Nat
    BY <2>1, <1>3
  <2> QED
    BY <2>2, <1>9
<1>11. /\ shown' \in Seq((Names \cup Nat) \X (Names \cup Nat))
       /\ ToSet(shown') = ToSet(shown) \cup {e}
  <2>1. shown \in Seq((Names \cup Nat) \X (Names \cup Nat)) /\ shown' = Append(shown, e)
    BY <1>1, <1>8, <1>9 DEF TypeOK
  <2> QED
    BY <2>1, <1>10, AppendTo
<1>12. TypeOK'
  BY <1>1, <1>8, <1>11 DEF TypeOK
<1>13. LinesInv' /\ PathsInv' /\ AssignInv' /\ Written' = Written
  BY <1>1, <1>8, LinesFrame, PathsFrame, AssignFrame
<1>14. ShowInv'
  <2>1. k \div 2 = h /\ (k + 2) \div 2 = h + 1
    BY <1>6
  <2>2. ToSet(shown) = FirstEntries(list, h)
    BY <2>1, <1>1, <1>2, <1>4 DEF ShowInv
  <2>3. FirstEntries(list, h + 1) = FirstEntries(list, h) \cup {e}
    <3>1. 1 .. h + 1 = 1 .. h \cup {h + 1}
      OBVIOUS
    <3>2. 2 * (h + 1) - 1 = k + 1 /\ 2 * (h + 1) = k + 2
      BY <1>6
    <3>3. <<list[2 * (h + 1) - 1], list[2 * (h + 1)]>> = e
      BY <3>2, <1>9
    <3> QED
      BY <3>1, <3>3 DEF FirstEntries
  <2>4. FirstEntries(lists["slave1"], next \div 2)' = FirstEntries(list, h + 1)
    BY <2>1, <1>2, <1>8 DEF FirstEntries
  <2>5. next' \in 0 .. Len(lists'["slave1"]) /\ next' % 2 = 0
    <3>1. (k + 2) % 2 = 0 /\ k + 2 \in 0 .. m
      BY <1>5, <1>7
    <3> QED
      BY <3>1, <1>2, <1>3, <1>8
  <2>6. Assigned' = Len(path_vec')
    BY <1>1, <1>8 DEF ShowInv, Assigned
  <2>7. \A b \in Names : b \in ToSet(path_vec') \/ BehindLost(b)'
    BY <1>1, <1>8 DEF ShowInv, BehindLost, Located
  <2> QED
    BY <2>2, <2>3, <2>4, <2>5, <2>6, <2>7, <1>11 DEF ShowInv
<1> QED
  BY <1>1, <1>8, <1>12, <1>13, <1>14 DEF ExportInv

-----------------------------------------------------------------------------
(* The invariant, and what follows from it. *)

LEMMA ExportStarts ==
    ASSUME Init
    PROVE  ExportInv
<1>1. /\ program = "readhdfs" /\ hosts \in [Names -> HostLists]
      /\ dirs = <<Root>> /\ infos = <<>> /\ files = <<>> /\ words = <<>> /\ next = 0
      /\ filesblk = <<>> /\ path_vec = <<>> /\ datanode = <<>>
      /\ lists = [n \in Nodes |-> <<>>] /\ shown = <<>>
  BY DEF Init
<1>2. Root \in Dirs
  BY ExportAssumption
<1>3. TypeOK
  BY <1>1, <1>2 DEF TypeOK
<1>4. BlockLines = {} /\ Written = {}
  BY <1>1 DEF BlockLines, Written
<1>5. LinesInv
  BY <1>4 DEF LinesInv
<1>6. PathsInv
  BY <1>1, NoElements DEF PathsInv
<1>7. AssignInv
  <2>1. /\ lists["slave1"] = <<>> /\ lists["slave2"] = <<>> /\ lists["node"] = <<>>
        /\ \A n \in Nodes : lists[n] = <<>>
    BY <1>1 DEF Nodes
  <2>2. Assigned = 0
    BY <2>1 DEF Assigned
  <2>3. \A n : OfNode(n) = {}
    BY <2>2 DEF OfNode
  <2>4. Entries(<<>>) = {}
    BY DEF Entries
  <2>5. Len(<<>>) = 0 /\ 0 % 2 = 0
    OBVIOUS
  <2> QED
    BY <2>1, <2>2, <2>3, <2>4, <2>5, <1>1 DEF AssignInv
<1>8. WalkInv
  <2>1. ToSet(dirs) = {Root} /\ IsInjective(dirs)
    BY <1>1 DEF ToSet, IsInjective
  <2>2. ToSet(infos) = {} /\ ToSet(files) = {} /\ IsInjective(infos) /\ IsInjective(files)
    BY <1>1, NoElements
  <2>3. EntriesOf({}) = {}
    BY DEF EntriesOf
  <2>4. WalkOf({})
    BY <2>1, <2>2, <2>3 DEF WalkOf, Seen
  <2> QED
    BY <2>1, <2>2, <2>4 DEF WalkInv, Apart
<1>9. WriteInv
  <2>1. ToSet(words) = {} /\ IsInjective(words)
    BY <1>1, NoElements
  <2>2. Begun = {}
    BY <1>1 DEF Begun
  <2>3. next <= Len(files)
    BY <1>1
  <2> QED
    BY <2>1, <2>2, <2>3, <1>1, <1>4 DEF WriteInv
<1> QED
  BY <1>1, <1>3, <1>5, <1>6, <1>7, <1>8, <1>9 DEF ExportInv, ReadhdfsInv

LEMMA ExportSteps ==
    ASSUME ExportInv, [Next]_vars
    PROVE  ExportInv'
<1>1. CASE ListDirectory \/ KeepInfo
  BY <1>1, WalkSteps
<1>2. CASE WriteFile
  BY <1>2, WriteFileStep
<1>3. CASE WriteBlock
  BY <1>3, WriteBlockStep
<1>4. CASE RunInit
  BY <1>4, RunInitStep
<1>5. CASE ReadLine
  <2>1. program = "init"
    BY <1>5 DEF ReadLine
  <2> QED
    BY <2>1, <1>5, ReadBlock, ReadOther
<1>6. CASE Assign
  BY <1>6, AssignStep
<1>7. CASE RunWrite
  BY <1>7, RunWriteStep
<1>8. CASE Show
  BY <1>8, ShowStep
<1>9. CASE UNCHANGED vars
  <2>1. /\ program' = program /\ hosts' = hosts /\ dirs' = dirs /\ infos' = infos
        /\ files' = files /\ words' = words /\ next' = next /\ filesblk' = filesblk
        /\ path_vec' = path_vec /\ datanode' = datanode /\ lists' = lists /\ shown' = shown
    BY <1>9 DEF vars, found, read
  <2>2. TypeOK /\ LinesInv /\ PathsInv /\ AssignInv
    BY DEF ExportInv
  <2>3. TypeOK'
    BY <2>1, <2>2 DEF TypeOK
  <2>4. LinesInv' /\ PathsInv' /\ AssignInv' /\ Written' = Written
    BY <2>1, <2>2, LinesFrame, PathsFrame, AssignFrame
  <2>5. BlockLines' = BlockLines /\ \A n : NameAt(n)' = NameAt(n)
    BY <2>1 DEF BlockLines, NameAt
  <2>6. ReadhdfsInv => ReadhdfsInv'
    <3>1. WalkInv => WalkInv'
      BY <2>1 DEF WalkInv, Apart, WalkOf, Seen
    <3>2. Begun' = Begun
      BY <2>1 DEF Begun
    <3>3. WriteInv => WriteInv'
      BY <2>1, <2>4, <3>2 DEF WriteInv, Walked
    <3> QED
      BY <2>1, <3>1, <3>3 DEF ReadhdfsInv
  <2>7. InitInv => InitInv'
    <3>1. ReadTo(next)' = ReadTo(next)
      BY <2>1, <2>5 DEF ReadTo
    <3> QED
      BY <2>1, <2>4, <3>1 DEF InitInv, BehindLost, Located
  <2>8. ShowInv => ShowInv'
    BY <2>1 DEF ShowInv, BehindLost, Located, Assigned
  <2> QED
    BY <2>1, <2>3, <2>4, <2>6, <2>7, <2>8 DEF ExportInv
<1> QED
  BY <1>1, <1>2, <1>3, <1>4, <1>5, <1>6, <1>7, <1>8, <1>9 DEF Next

LEMMA ExportCorrect == Spec => []ExportInv
<1>1. Init => ExportInv
  BY ExportStarts
<1>2. ExportInv /\ [Next]_vars => ExportInv'
  BY ExportSteps
<1> QED
  BY <1>1, <1>2, PTL DEF Spec

\* In the end a block that init did not skip is on the list of its first host.
LEMMA OnItsList ==
    ASSUME ExportInv, program = "write2Client", NEW b \in Names, Located(b), ~BehindLost(b)
    PROVE  \E e \in Entries(lists[ListOf(hosts[b][1])]) : e[1] = b
<1>1. ShowInv /\ TypeOK /\ PathsInv /\ AssignInv
  BY DEF ExportInv
<1>2. b \in ToSet(path_vec)
  BY <1>1 DEF ShowInv
<1>3. PICK i \in 1 .. Assigned : path_vec[i] = b /\ i \in DOMAIN path_vec
  <2>1. DOMAIN path_vec = 1 .. Assigned
    BY <1>1 DEF TypeOK, ShowInv
  <2> QED
    BY <2>1, <1>2 DEF ToSet
<1>4. datanode[i] = hosts[b][1]
  BY <1>1, <1>3 DEF PathsInv
<1>5. PICK n \in Nodes : n = ListOf(hosts[b][1])
  BY DEF ListOf, Nodes
<1>6. i \in OfNode(n)
  BY <1>3, <1>4, <1>5 DEF OfNode
<1>7. Entry(i) \in Entries(lists[n])
  BY <1>1, <1>6 DEF AssignInv
<1>8. Entry(i)[1] = b
  BY <1>3 DEF Entry
<1> QED
  BY <1>5, <1>7, <1>8

\* readhdfs and init: a block with a replica, wherever in the namespace its file is,
\* ends on the list of the node of its first replica, but for one directly behind a
\* block without replicas.
THEOREM ExportLists == Spec => []LocatedBlocksListed
<1>1. ExportInv => LocatedBlocksListed
  <2> SUFFICES ASSUME ExportInv, program = "write2Client",
                      NEW f \in Files, NEW j \in DOMAIN Blocks[f],
                      Located(Blocks[f][j]), ~BehindLost(Blocks[f][j])
               PROVE  \E e \in Entries(lists[ListOf(hosts[Blocks[f][j]][1])]) : e[1] = Blocks[f][j]
    BY DEF LocatedBlocksListed, Listed
  <2>1. Blocks[f][j] \in Names
    BY DEF Names, ToSet
  <2> QED
    BY <2>1, OnItsList
<1> QED
  BY <1>1, ExportCorrect, PTL

\* init: however many replicas and directories, no block is on the lists twice, and
\* no two blocks have one place on the device.
THEOREM ExportOnce == Spec => []ListedOnce
<1>1. ExportInv => ListedOnce
  <2> SUFFICES ASSUME ExportInv, NEW d \in AllEntries, NEW e \in AllEntries,
                      d[1] = e[1] \/ d[2] = e[2]
               PROVE  d = e
    BY DEF ListedOnce
  <2>1. TypeOK /\ PathsInv /\ AssignInv
    BY DEF ExportInv
  <2>2. Assigned \in Nat
    BY <2>1, AssignedNat
  <2>3. \A i \in 1 .. Assigned : i \in DOMAIN path_vec
    BY <2>1, <2>2 DEF TypeOK, AssignInv
  <2>4. \A x \in AllEntries : \E i \in 1 .. Assigned : x = <<path_vec[i], i>>
    <3>1. \A x \in AllEntries : \E n \in Nodes : x \in {Entry(i) : i \in OfNode(n)}
      BY <2>1 DEF AllEntries, AssignInv
    <3>2. \A n : OfNode(n) \subseteq 1 .. Assigned
      BY DEF OfNode
    <3> QED
      BY <3>1, <3>2 DEF Entry
  <2>5. PICK i \in 1 .. Assigned : d = <<path_vec[i], i>>
    BY <2>4
  <2>6. PICK j \in 1 .. Assigned : e = <<path_vec[j], j>>
    BY <2>4
  <2>7. path_vec[i] = path_vec[j] => i = j
    BY <2>1, <2>3 DEF PathsInv, IsInjective
  <2> QED
    BY <2>5, <2>6, <2>7
<1> QED
  BY <1>1, ExportCorrect, PTL

\* getinfo: what slave1 is shown in the end is its list: of the blocks with a replica
\* only those that have their first one there, and all of those but the ones directly
\* behind a block without replicas.
THEOREM ExportShown == Spec => []NodeSeesItsBlocks
<1>1. ExportInv => NodeSeesItsBlocks
  <2> SUFFICES ASSUME ExportInv, program = "write2Client", next = Len(lists["slave1"])
               PROVE  /\ ToSet(shown) = Entries(lists["slave1"])
                      /\ \A e \in ToSet(shown) : Located(e[1]) => hosts[e[1]][1] = "slave1"
                      /\ \A b \in Names : Located(b) /\ hosts[b][1] = "slave1" =>
                            BehindLost(b) \/ \E e \in ToSet(shown) : e[1] = b
    BY DEF NodeSeesItsBlocks, Listed
  <2>1. TypeOK /\ PathsInv /\ AssignInv /\ ShowInv
    BY DEF ExportInv
  <2>2. ToSet(shown) = Entries(lists["slave1"])
    BY <2>1 DEF ShowInv, FirstEntries, Entries
  <2>3. Assigned \in Nat
    BY <2>1, AssignedNat
  <2>4. \A i \in 1 .. Assigned : i \in DOMAIN path_vec
    BY <2>1, <2>3 DEF TypeOK, AssignInv
  <2>5. "slave1" \in Nodes
    BY DEF Nodes
  <2>6. ASSUME NEW e \in ToSet(shown), Located(e[1])
        PROVE  hosts[e[1]][1] = "slave1"
    <3>1. PICK i \in OfNode("slave1") : e = Entry(i)
      BY <2>1, <2>2, <2>5 DEF AssignInv
    <3>2. i \in 1 .. Assigned /\ ListOf(datanode[i]) = "slave1"
      BY <3>1 DEF OfNode
    <3>3. datanode[i] = "slave1"
      BY <3>2 DEF ListOf
    <3>4. e[1] = path_vec[i]
      BY <3>1 DEF Entry
    <3>5. datanode[i] = hosts[path_vec[i]][1]
      BY <3>2, <3>4, <2>1, <2>4, <2>6 DEF PathsInv
    <3> QED
      BY <3>3, <3>4, <3>5
  <2>7. ASSUME NEW b \in Names, Located(b), hosts[b][1] = "slave1", ~BehindLost(b)
        PROVE  \E e \in ToSet(shown) : e[1] = b
    <3>1. ListOf(hosts[b][1]) = "slave1"
      BY <2>7 DEF ListOf
    <3> QED
      BY <3>1, <2>2, <2>7, OnItsList
  <2> QED
    BY <2>2, <2>6, <2>7
<1> QED
  BY <1>1, ExportCorrect, PTL

=============================================================================
