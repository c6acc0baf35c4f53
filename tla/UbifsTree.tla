----------------------------- MODULE UbifsTree -----------------------------
(***************************************************************************)
(* mkfs.ubifs: the device table (devtable.c) and the walk over the host's  *)
(* tree that makes inode, directory entry and data nodes (add_directory    *)
(* and what it calls).                                                     *)
(*                                                                         *)
(* A host tree is a sequence of entries, each naming its directory by its  *)
(* place in the sequence (0 is the root).  A name is a sequence, so that   *)
(* the names a table line counts up ("tty" and 1) can meet written ones.   *)
(* The hash tables are sets of entries: Containers is about them.          *)
(***************************************************************************)
EXTENDS Integers, Sequences, FiniteSets, FiniteSetsExt, SequencesExt

CONSTANTS UtHosts,          \* sequences of [dir, name, t, host, nlink, uid, gid, blocks, size, rdev]
          UtTables,         \* sequences of lines [path, name, t, uid, gid, dev, start, inc, count]
          UtSquash,         \* squash_owner may be one of these
          UtRootIno, UtFirstIno

VARIABLES ut_pc, ut_host, ut_lines, ut_squash,
          ut_root,          \* -r was given
          ut_line,          \* the lines of the table read so far
          ut_table,         \* path_htbl: [path, name, t, uid, gid, dev]
          ut_stack,         \* the calls of add_directory, innermost last
          ut_map,           \* hash_table: [host, inum, nlink, e]
          ut_inum, ut_sq,   \* c->highest_inum, c->max_sqnum
          ut_nodes,         \* what was written
          ut_skipped        \* the host entries a failing readdir did not give

utVars == <<ut_pc, ut_host, ut_lines, ut_squash, ut_root, ut_line, ut_table, ut_stack, ut_map, ut_inum, ut_sq, ut_nodes,
            ut_skipped>>
utInput == <<ut_host, ut_lines, ut_squash, ut_root>>

UtOff ==
    /\ ut_pc = "off" /\ ut_host = <<>> /\ ut_lines = <<>> /\ ut_squash = FALSE /\ ut_root = TRUE /\ ut_line = 0 /\ ut_table = {}
    /\ ut_stack = <<>> /\ ut_map = <<>> /\ ut_inum = 0 /\ ut_sq = 0 /\ ut_nodes = <<>> /\ ut_skipped = {}

UtInit ==
    /\ ut_host \in UtHosts /\ ut_lines \in UtTables /\ ut_squash \in UtSquash
    /\ ut_root \in IF ut_host = <<>> THEN BOOLEAN ELSE {TRUE}
    /\ ut_pc = "table" /\ ut_line = 0 /\ ut_table = {} /\ ut_stack = <<>> /\ ut_map = <<>>
    /\ ut_inum = UtFirstIno /\ ut_sq = 0 /\ ut_nodes = <<>> /\ ut_skipped = {}

Root == 0
Below(d) == {i \in DOMAIN ut_host : ut_host[i].dir = d}
PathOf(i) == LET f[k \in 0 .. Len(ut_host)] == IF k = Root THEN <<>> ELSE Append(f[ut_host[k].dir], ut_host[k].name)
             IN  f[i]

Fail == ut_pc' = "failed" /\ UNCHANGED <<utInput, ut_line, ut_table, ut_stack, ut_map, ut_inum, ut_sq, ut_nodes, ut_skipped>>

(* interpret_table_entry: one name, or count names with the minor number   *)
(* going up.  A name may be referred to once.                              *)
Rows(l) ==
    IF l.count = 0 THEN {[path |-> l.path, name |-> l.name, t |-> l.t, uid |-> l.uid, gid |-> l.gid, dev |-> l.dev]}
    ELSE {[path |-> l.path, name |-> Append(l.name, i), t |-> l.t, uid |-> l.uid, gid |-> l.gid,
           dev |-> <<l.dev[1], l.dev[2] + (i - l.start) * l.inc>>] : i \in l.start .. l.start + l.count - 1}
Twice(rows) == \E r \in rows, q \in ut_table : r.path = q.path /\ r.name = q.name
BadLine(l) ==
    \/ l.path = <<>> /\ l.name = <<>>
    \/ l.t \notin {"dir", "reg", "fifo", "chr", "blk"}
    \/ l.inc # 0 /\ l.count = 0
    \/ Twice(Rows(l))
TableLine ==
    /\ ut_pc = "table" /\ ut_line < Len(ut_lines)
    /\ LET l == ut_lines[ut_line + 1]
       IN  IF BadLine(l) THEN Fail
           ELSE /\ ut_table' = ut_table \cup Rows(l) /\ ut_line' = ut_line + 1
                /\ UNCHANGED <<ut_pc, utInput, ut_stack, ut_map, ut_inum, ut_sq, ut_nodes, ut_skipped>>

(* A call of add_directory: dir is the host's directory, None for one only *)
(* the table knows.  The sequence number of its creation is drawn first.   *)
None == -1
Named(table, path) == {r \in table : r.path = path}
DueAtOnce(path) == Named(ut_table, path)
Frame(path, dir, inum, name, st, sq) ==
    [path |-> path, inum |-> inum, name |-> name, st |-> st, creat |-> sq, nlink |-> 2, size |-> <<>>,
     left |-> IF dir = None THEN {} ELSE Below(dir), reading |-> dir # None,
     due |-> IF dir = None THEN DueAtOnce(path) ELSE {}]
RootSt == IF ut_root THEN [uid |-> 7, gid |-> 7] ELSE [uid |-> 0, gid |-> 0]

(* write_data.  Without -r the root is a directory of nobody's host, and   *)
(* its name a null pointer: with a device table, be it empty,       *)
(* add_directory looks for the string before address 0, which ends the     *)
(* program.                                                                *)
TableEnd ==
    /\ ut_pc = "table" /\ ut_line = Len(ut_lines) /\ (ut_root \/ ut_lines = <<>>)
    /\ ut_pc' = "walk" /\ ut_sq' = ut_sq + 1
    /\ ut_stack' = <<Frame(<<>>, IF ut_root THEN Root ELSE None, UtRootIno, <<>>, RootSt, ut_sq + 1)>>
    /\ UNCHANGED <<utInput, ut_line, ut_table, ut_map, ut_inum, ut_nodes, ut_skipped>>
NoRoot == ut_pc = "table" /\ ut_line = Len(ut_lines) /\ ~ut_root /\ Fail

Top == ut_stack[Len(ut_stack)]
TopBecomes(f) == ut_stack' = [ut_stack EXCEPT ![Len(ut_stack)] = f]

(* prepare_node numbers the nodes as they are made. *)
InoNode(inum, t, st, nlink, size, creat) ==
    [k |-> "ino", inum |-> inum, t |-> t, uid |-> st.uid, gid |-> st.gid, nlink |-> nlink, size |-> size,
     creat |-> creat]
DentNode(dir, name, inum, t) == [k |-> "dent", inum |-> dir, name |-> name, child |-> inum, t |-> t]
DataNode(inum, block) == [k |-> "data", inum |-> inum, block |-> block]
Numbered(nodes, sq) == [i \in DOMAIN nodes |-> [sq |-> sq + i, n |-> nodes[i]]]
Write(nodes, sq) == ut_nodes' = ut_nodes \o Numbered(nodes, sq) /\ ut_sq' = sq + Len(nodes)

(* add_file: blocks of zeroes are holes. *)
BlockNo(blocks, b) == b - 1
FileNodes(inum, blocks) ==
    LET with == SelectSeq([i \in DOMAIN blocks |-> i], LAMBDA i : blocks[i] = "data")
    IN  [j \in DOMAIN with |-> DataNode(inum, BlockNo(blocks, with[j]))]

(* add_non_dir, for an inode whose links are known: its creation number,   *)
(* its data and its inode node.                                            *)
CreatLate(sq, nodes) == sq + Len(nodes) + 1  \* mutant: drawn after the data was written
CreatFirst(sq, nodes) == sq + 1
InodeNodes(inum, e, nlink, sq) ==
    LET data == IF e.t = "reg" THEN FileNodes(inum, e.blocks) ELSE <<>>
    IN  Append(data, InoNode(inum, e.t, e, nlink, Len(e.blocks), CreatFirst(sq, data)))

(* A file of several links is only noted; it is written when its links     *)
(* have been counted, and its inode number, just drawn, is given back when *)
(* it has one already.                                                     *)
SameHost(a, b) == a = b
Mapping(e) == {i \in DOMAIN ut_map : SameHost(ut_map[i].host, e.host)}
Note(e, inum) ==
    IF Mapping(e) = {} THEN Append(ut_map, [host |-> e.host, inum |-> inum, nlink |-> 1, e |-> e])
    ELSE LET i == CHOOSE j \in Mapping(e) : TRUE
         IN  [ut_map EXCEPT ![i] = [@ EXCEPT !.nlink = @ + 1, !.e = e]]

NumberOf(e, new) == IF Mapping(e) = {} THEN new ELSE ut_map[CHOOSE j \in Mapping(e) : TRUE].inum

(* What became of a non-directory: nodes written, inode number, and the    *)
(* directory entry of it.                                                  *)
AddNonDir(f, name, e) ==
    LET new == ut_inum + 1
        dent(inum) == <<DentNode(f.inum, name, inum, e.t)>>
    IN  IF e.nlink > 1
        THEN /\ ut_map' = Note(e, new)
             /\ ut_inum' = IF Mapping(e) = {} THEN new ELSE ut_inum
             /\ Write(dent(NumberOf(e, new)), ut_sq)
        ELSE /\ ut_inum' = new /\ UNCHANGED ut_map
             /\ Write(InodeNodes(new, e, 1, ut_sq) \o dent(new), ut_sq + 1)

(* One round of the readdir loop: the owner is squashed, the device table  *)
(* overrides and its entry is used up.  A file that grew or shrank since   *)
(* lstat ends the program.                                                 *)
Squashed(e) == IF ut_squash THEN [e EXCEPT !.uid = 0, !.gid = 0] ELSE e
Overridden(e, r) == [e EXCEPT !.uid = r.uid, !.gid = r.gid]
UsedUp(table, r) == table \ {r}
Descend(f, name, st, dir) ==
    /\ ut_inum' = ut_inum + 1 /\ ut_sq' = ut_sq + 1
    /\ ut_stack' = Append([ut_stack EXCEPT ![Len(ut_stack)] = f],
                          Frame(Append(f.path, name), dir, ut_inum + 1, name, st, ut_sq + 1))
    /\ UNCHANGED <<ut_map, ut_nodes>>
Entered(f, name) == [f EXCEPT !.size = Append(@, name)]
ReadEntry ==
    /\ ut_pc = "walk" /\ Top.reading
    /\ \E i \in Top.left :
          LET e == Squashed(ut_host[i])
              rows == {r \in Named(ut_table, Top.path) : r.name = e.name}
              r == CHOOSE x \in rows : TRUE
              st == IF rows = {} THEN e ELSE Overridden(e, r)
              f == [Top EXCEPT !.left = @ \ {i}]
          IN  IF rows # {} /\ (e.t \in {"chr", "blk", "fifo"} \/ r.t # e.t) THEN Fail
              ELSE IF e.t = "reg" /\ e.nlink = 1 /\ e.size # Len(e.blocks) THEN Fail
              ELSE /\ IF e.t = "dir" THEN Descend(f, e.name, [uid |-> st.uid, gid |-> st.gid], i)
                      ELSE AddNonDir(f, e.name, st) /\ TopBecomes(Entered(f, e.name))
                   /\ ut_table' = IF rows = {} THEN ut_table ELSE UsedUp(ut_table, r)
                   /\ UNCHANGED <<ut_pc, utInput, ut_line, ut_skipped>>

(* The end of the loop, also when readdir fails: err is set, but what      *)
(* follows overwrites it.  Then come the entries of the table that are     *)
(* left.                                                                   *)
ReadEnd ==
    /\ ut_pc = "walk" /\ Top.reading
    /\ ut_skipped' = ut_skipped \cup Top.left
    /\ TopBecomes([Top EXCEPT !.reading = FALSE, !.left = {}, !.due = Named(ut_table, Top.path)])
    /\ UNCHANGED <<ut_pc, utInput, ut_line, ut_table, ut_map, ut_inum, ut_sq, ut_nodes>>

(* One round of the loop over the table's names.  The owner is the table's *)
(* and the group the root directory's: the code sets st_uid twice.         *)
MakeEntry ==
    /\ ut_pc = "walk" /\ ~Top.reading
    /\ \E r \in Top.due :
          LET f == [Top EXCEPT !.due = @ \ {r}]
              e == [t |-> r.t, uid |-> r.uid, gid |-> RootSt.gid, nlink |-> 1, blocks |-> <<>>, host |-> <<0, 0>>]
          IN  IF r.t = "reg" THEN Fail
              ELSE /\ IF r.t = "dir" THEN Descend(f, r.name, [uid |-> r.uid, gid |-> RootSt.gid], None)
                      ELSE AddNonDir(f, r.name, e) /\ TopBecomes(Entered(f, r.name))
                   /\ UNCHANGED <<ut_pc, utInput, ut_line, ut_table, ut_skipped>>

(* The end of add_directory: the directory's inode, and in the caller the  *)
(* entry of it.                                                            *)
NlinkMore(f) == f.nlink + 1
Return ==
    /\ ut_pc = "walk" /\ ~Top.reading /\ Top.due = {}
    /\ LET ino == InoNode(Top.inum, "dir", Top.st, Top.nlink, Top.size, Top.creat)
           f == ut_stack[Len(ut_stack) - 1]
       IN  IF Len(ut_stack) = 1 THEN Write(<<ino>>, ut_sq) /\ ut_stack' = <<>> /\ ut_pc' = "links"
           ELSE /\ Write(<<ino, DentNode(f.inum, Top.name, Top.inum, "dir")>>, ut_sq)
                /\ ut_stack' = Append(SubSeq(ut_stack, 1, Len(ut_stack) - 2),
                                      Entered([f EXCEPT !.nlink = NlinkMore(f)], Top.name))
                /\ UNCHANGED ut_pc
    /\ UNCHANGED <<utInput, ut_line, ut_table, ut_map, ut_inum, ut_skipped>>

(* add_multi_linked_files, in the order of the hash table. *)
AddMultiLinked ==
    /\ ut_pc = "links" /\ ut_map # <<>>
    /\ \E i \in DOMAIN ut_map :
          LET m == ut_map[i]
          IN  IF m.e.t = "reg" /\ m.e.size # Len(m.e.blocks) THEN Fail
              ELSE /\ Write(InodeNodes(m.inum, m.e, m.nlink, ut_sq), ut_sq + 1)
                   /\ ut_map' = RemoveAt(ut_map, i)
                   /\ UNCHANGED <<ut_pc, utInput, ut_line, ut_table, ut_stack, ut_inum, ut_skipped>>
LinksEnd ==
    /\ ut_pc = "links" /\ ut_map = <<>> /\ ut_pc' = "exit"
    /\ UNCHANGED <<utInput, ut_line, ut_table, ut_stack, ut_map, ut_inum, ut_sq, ut_nodes, ut_skipped>>

(* A call into the host's file system that fails ends the program. *)
HostFails == ut_pc \in {"walk", "links"} /\ Fail

UtNext ==
    \/ TableLine \/ TableEnd \/ NoRoot \/ ReadEntry \/ ReadEnd \/ MakeEntry \/ Return \/ AddMultiLinked \/ LinksEnd
    \/ HostFails

Nodes(k) == {ut_nodes[i].n : i \in {j \in DOMAIN ut_nodes : ut_nodes[j].n.k = k}}
Made == ut_pc = "exit"

(* In a finished tree every directory entry leads to exactly one inode     *)
(* node, of the type the entry gives, every inode but the root has an      *)
(* entry, and no number is above the one the master node will give as the  *)
(* highest (add_directory, add_non_dir with numbers drawn and given back). *)
EntriesLead ==
    Made =>
        /\ \A d \in Nodes("dent") : \E n \in Nodes("ino") : n.inum = d.child /\ n.t = d.t
        /\ \A n \in Nodes("ino") : n.inum = UtRootIno \/ \E d \in Nodes("dent") : d.child = n.inum
        /\ \A i, j \in DOMAIN ut_nodes :
              ut_nodes[i].n.k = "ino" /\ ut_nodes[j].n.k = "ino" /\ ut_nodes[i].n.inum = ut_nodes[j].n.inum => i = j
        /\ \A n \in Nodes("ino") : n.inum <= ut_inum

(* The link count of a file is the number of entries that lead to it, and  *)
(* of a directory two and one for each subdirectory (im->use_nlink, nlink  *)
(* of add_directory): what the kernel's checks require.                    *)
LinksCounted ==
    Made => \A n \in Nodes("ino") :
        n.nlink = IF n.t # "dir" THEN Cardinality({d \in Nodes("dent") : d.child = n.inum})
                  ELSE 2 + Cardinality({d \in Nodes("dent") : d.inum = n.inum /\ d.t = "dir"})

(* Two entries share an inode only if they are hard links of one host      *)
(* file: same device and same inode number (lookup_inum_mapping).          *)
HostAt(d) == {i \in DOMAIN ut_host : ut_host[i].name = d.name}
SharedIfLinked ==
    Made => \A d, e \in Nodes("dent") :
        d.child = e.child /\ d # e =>
            \E i \in HostAt(d), j \in HostAt(e) : ut_host[i].host = ut_host[j].host /\ ut_host[i].nlink > 1

(* The data nodes of a file are those of its blocks that hold something,   *)
(* under the number of the block, however many holes come before           *)
(* (add_file).                                                             *)
BlocksInPlace ==
    Made => \A i \in DOMAIN ut_host : ut_host[i].t = "reg" /\ ut_host[i].blocks # <<>> =>
        \A d \in Nodes("dent") : d.name = ut_host[i].name /\ d.t = "reg" =>
            {n.block : n \in {x \in Nodes("data") : x.inum = d.child}}
                = {b - 1 : b \in {x \in DOMAIN ut_host[i].blocks : ut_host[i].blocks[x] = "data"}}

(* The number an inode gives as that of its creation comes before those of *)
(* all its nodes, its directory entries included: the kernel tells a       *)
(* reused inode number by it (creat_sqnum, dir_creat_sqnum).               *)
CreatedFirst ==
    \A i \in DOMAIN ut_nodes : ut_nodes[i].n.k = "ino" =>
        \A j \in DOMAIN ut_nodes : ut_nodes[j].n.inum = ut_nodes[i].n.inum => ut_nodes[i].n.creat < ut_nodes[j].sq

(* No directory gets two entries of one name, and the size of each is that *)
(* of its entries: a name of the table that the host has too is used up    *)
(* when the host's is read (override_attributes).                          *)
NamesOnceInDir ==
    /\ \A i, j \in DOMAIN ut_nodes :
          LET a == ut_nodes[i].n
              b == ut_nodes[j].n
          IN  a.k = "dent" /\ b.k = "dent" /\ i # j => <<a.inum, a.name>> # <<b.inum, b.name>>
    /\ Made => \A n \in Nodes("ino") : n.t = "dir" =>
          {n.size[i] : i \in DOMAIN n.size} = {d.name : d \in {x \in Nodes("dent") : x.inum = n.inum}}

(* A successful run leaves out nothing of the host's tree but what readdir *)
(* did not give and what lies below, and no name of the table in a         *)
(* directory the image has (add_directory).                                *)
DirNo(path) ==
    LET f[k \in 0 .. Len(path)] ==
            IF k = 0 THEN {UtRootIno}
            ELSE {d.child : d \in {x \in Nodes("dent") : x.inum \in f[k - 1] /\ x.name = path[k]}}
    IN  f[Len(path)]
Missed(i) == \E j \in ut_skipped : IsPrefix(PathOf(j), PathOf(i))
AllMade ==
    Made =>
        /\ \A i \in DOMAIN ut_host : DirNo(PathOf(i)) # {} \/ Missed(i)
        /\ \A l \in ToSet(ut_lines) : \A r \in Rows(l) : DirNo(r.path) # {} => DirNo(Append(r.path, r.name)) # {}

(* The owner and group of an entry that readdir gives are those that the   *)
(* device table names, where it names the entry, else root if owners are   *)
(* squashed, else the host's; of a file of several links the entry that    *)
(* was read last decides, so those are left out (override_attributes after *)
(* the squashing, 1477-1490).  An entry that the table makes has the owner *)
(* it names; nothing is said of its group, which is the root directory's   *)
(* where devtable.c:27 says that the table gives it (1536-1537).           *)
TableRows == UNION {Rows(l) : l \in ToSet(ut_lines)}
InoAt(path) == {n \in Nodes("ino") : n.inum \in DirNo(path)}
OwnersRight ==
    Made =>
        /\ \A i \in DOMAIN ut_host : ~Missed(i) /\ (ut_host[i].t = "dir" \/ ut_host[i].nlink = 1) =>
              LET rows == {r \in TableRows : Append(r.path, r.name) = PathOf(i)}
                  st == IF rows # {} THEN CHOOSE r \in rows : TRUE ELSE Squashed(ut_host[i])
              IN  \A n \in InoAt(PathOf(i)) : n.uid = st.uid /\ n.gid = st.gid
        /\ \A r \in TableRows : r.t # "reg" => \A n \in InoAt(Append(r.path, r.name)) : n.uid = r.uid
=============================================================================
