----------------------------- MODULE Jffs2Image -----------------------------
(***************************************************************************)
(* mkfs.jffs2.c: the image written for a tree of file system entries.      *)
(*                                                                         *)
(* The tree is a sequence of entries, each with its parent (an earlier     *)
(* index, 0 for the root), name, type, inode and link count on the host,   *)
(* size as lstat gave it, bytes that can be read, symlink target and       *)
(* extended attributes.  A node is what its fields say and where it lies;  *)
(* compression is one of the outcomes jffs2_compress may have.             *)
(***************************************************************************)
EXTENDS Integers, Sequences, FiniteSets, FiniteSetsExt, SequencesExt

CONSTANTS JiInputs,         \* [tree, root, clean, padto, old, unread]
          JiEb, JiPage,     \* erase_block_size, page_size
          JiRi, JiRd, JiRx, JiRef,  \* the sizes of the raw structures
          JiCm,             \* cleanmarker_size
          JiMin,            \* JFFS2_MIN_DATA_LEN
          JiMaxSize         \* JFFS2_MAX_FILE_SIZE

VARIABLES ji_pc, ji_in,
          ji_todo,          \* what recursive_populate_directory has still to do
          ji_out,           \* nodes in the order they were written
          ji_ofs,           \* out_ofs
          ji_ino, ji_version,
          ji_inos,          \* e->ino of each entry
          ji_links,         \* the hardlinks tree: the entries in it
          ji_xids,          \* the distinct attributes so far; the index is the xid
          ji_xseqno,
          ji_off, ji_left   \* write_regular_file: offset, bytes of the page left

jiVars == <<ji_pc, ji_in, ji_todo, ji_out, ji_ofs, ji_ino, ji_version, ji_inos, ji_links,
            ji_xids, ji_xseqno, ji_off, ji_left>>

Tree == ji_in.tree
Entries == DOMAIN Tree
Files(d) == SelectSeq([i \in Entries |-> i], LAMBDA i : Tree[i].parent = d)

JiOff ==
    /\ ji_pc = "off" /\ ji_in = <<>> /\ ji_todo = <<>> /\ ji_out = <<>> /\ ji_ofs = 0
    /\ ji_ino = 0 /\ ji_version = 0 /\ ji_inos = <<>> /\ ji_links = {} /\ ji_xids = <<>>
    /\ ji_xseqno = 0 /\ ji_off = 0 /\ ji_left = 0

JiInit ==
    /\ ji_in \in JiInputs
    /\ ji_pc = "parse" /\ ji_todo = <<>> /\ ji_out = <<>> /\ ji_ofs = 0
    /\ ji_ino = 0 /\ ji_version = 0 /\ ji_inos = [i \in Entries |-> 0] /\ ji_links = {}
    /\ ji_xids = <<>> /\ ji_xseqno = 0 /\ ji_off = 0 /\ ji_left = 0

-----------------------------------------------------------------------------
(* The output: [out, ofs].                                                 *)
Word(n) == ((n + 3) \div 4) * 4
BlockEnd(n) == ((n + JiEb - 1) \div JiEb) * JiEb

Marked(o) ==
    IF ji_in.clean /\ o.ofs % JiEb = 0
    THEN [out |-> Append(o.out, [k |-> "clean", ofs |-> o.ofs, len |-> JiCm]), ofs |-> Word(o.ofs + JiCm)]
    ELSE o
PadBlockIfLessThan(o, req) ==
    LET m == Marked(o)
    IN  Marked(IF (m.ofs % JiEb) + req > JiEb THEN [m EXCEPT !.ofs = BlockEnd(@)] ELSE m)

(* A node of len bytes, for which room for req bytes is made before. *)
Emit(o, node, len, req) ==
    LET p == PadBlockIfLessThan(o, req)
    IN  [out |-> Append(p.out, [ofs |-> p.ofs, len |-> len] @@ node), ofs |-> Word(p.ofs + len)]
Output == [out |-> ji_out, ofs |-> ji_ofs]
Written(o) == ji_out' = o.out /\ ji_ofs' = o.ofs

(* write_dirent. *)
InoOf(inos, d) == IF d = 0 THEN 1 ELSE inos[d]
WriteDirent(o, e, inos) ==
    Emit(o, [k |-> "dirent", pino |-> InoOf(inos, Tree[e].parent), version |-> ji_version,
             ino |-> inos[e], name |-> Tree[e].name, type |-> Tree[e].type],
         JiRd + Len(Tree[e].name), JiRd + Len(Tree[e].name))

(* The inode node of write_pipe, write_special_file and write_symlink. *)
DataLen(e) == CASE Tree[e].type = "lnk" -> Len(Tree[e].target)
                [] Tree[e].type \in {"chr", "blk"} -> 2
                [] OTHER -> 0
WriteInode(o, e, inos) ==
    Emit(o, [k |-> "inode", ino |-> inos[e], version |-> 1, offset |-> 0, dsize |-> DataLen(e),
             target |-> Tree[e].target], JiRi + DataLen(e), JiRi + DataLen(e))

(* find_hardlink: the entry with e's device and inode, if it was met. *)
SameInode(f, e) == Tree[f].host[2] = Tree[e].host[2]    \* mutant: the device is not compared
SameHost(f, e) == Tree[f].host = Tree[e].host
FindHardlink(e) ==
    LET S == {f \in ji_links : SameHost(f, e)} IN IF S = {} THEN 0 ELSE ji_inos[CHOOSE f \in S : TRUE]

(* write_xattr_entry: a reference for each attribute, to the xattr node of *)
(* its value, written when the value is new.  ji_in.unread are the         *)
(* attributes that are passed over without an error: with a prefix that is *)
(* not supported or not asked for, or that llistxattr or lgetxattr do not  *)
(* give.                                                                   *)
Found(xids, x) == \E k \in DOMAIN xids : xids[k] = x
XidOf(xids, x) == Max({k \in DOMAIN xids : xids[k] = x})

WriteXattr(s, ino, x) ==
    LET xids == IF Found(s.xids, x) THEN s.xids ELSE Append(s.xids, x)
        o == IF Found(s.xids, x) THEN s.o
             ELSE Emit(s.o, [k |-> "xattr", xid |-> Len(xids), value |-> x], JiRx + Len(x), JiRx + Len(x))
    IN  [o |-> Emit(o, [k |-> "xref", ino |-> ino, xid |-> XidOf(xids, x), xseqno |-> s.seq + 2],
                    JiRef, JiRef),
         xids |-> xids, seq |-> s.seq + 2]
Readable(xs) == SelectSeq(xs, LAMBDA x : x \notin ji_in.unread)
WriteXattrs(o, ino, xs) ==
    LET s == FoldLeft(LAMBDA a, x : WriteXattr(a, ino, x), [o |-> o, xids |-> ji_xids, seq |-> ji_xseqno],
                      Readable(xs))
    IN  Written(s.o) /\ ji_xids' = s.xids /\ ji_xseqno' = s.seq

-----------------------------------------------------------------------------
(* The order of recursive_populate_directory: the attributes of the        *)
(* directory, its entries, then each of its directories that has entries.  *)
RECURSIVE Populate(_)
Populate(d) ==
    LET files == Files(d)
        subs == SelectSeq(files, LAMBDA c : Tree[c].type = "dir" /\ Files(c) # <<>>)
    IN  <<<<"xattrs", d>>>> \o [k \in DOMAIN files |-> <<"entry", files[k]>>]
        \o FlattenSeq([k \in DOMAIN subs |-> Populate(subs[k])])

(* parse_image, process_buffer: the greatest inode number in use in the    *)
(* image to be extended; create_target_filesystem.                         *)
HighIno(old) == Max({n.ino : n \in {m \in old : m.k = "inode"}} \cup {0})

Parse ==
    /\ ji_pc = "parse"
    /\ ji_ino' = Max({1, HighIno(ji_in.old)})
    /\ ji_todo' = Populate(0) /\ ji_pc' = "populate"
    /\ UNCHANGED <<ji_in, ji_out, ji_ofs, ji_version, ji_inos, ji_links, ji_xids, ji_xseqno, ji_off, ji_left>>

Item == Head(ji_todo)
Entry == Item[2]
Doing(what) == ji_pc = "populate" /\ ji_todo # <<>> /\ Item[1] = what

DirXattrs ==
    /\ Doing("xattrs")
    /\ WriteXattrs(Output, InoOf(ji_inos, Entry), IF Entry = 0 THEN ji_in.root ELSE Tree[Entry].xattrs)
    /\ ji_todo' = Tail(ji_todo)
    /\ UNCHANGED <<ji_pc, ji_in, ji_ino, ji_version, ji_inos, ji_links, ji_off, ji_left>>

(* A further name of an inode that was written: only its directory entry.  *)
Linked(e) == Tree[e].nlink >= 1 /\ FindHardlink(e) # 0
Hardlink ==
    /\ Doing("entry") /\ Linked(Entry)
    /\ LET inos == [ji_inos EXCEPT ![Entry] = FindHardlink(Entry)]
       IN  /\ ji_inos' = inos
           /\ Written(WriteDirent(Output, Entry, inos))
    /\ ji_version' = ji_version + 1
    /\ ji_todo' = Tail(ji_todo)
    /\ UNCHANGED <<ji_pc, ji_in, ji_ino, ji_links, ji_xids, ji_xseqno, ji_off, ji_left>>

(* find_hardlink enters an entry it did not find. *)
Entered(e) ==
    IF Tree[e].nlink >= 1 /\ ~(\E f \in ji_links : SameHost(f, e)) THEN ji_links \cup {e} ELSE ji_links

Special ==
    /\ Doing("entry") /\ ~Linked(Entry) /\ Tree[Entry].type # "reg"
    /\ LET inos == [ji_inos EXCEPT ![Entry] = ji_ino + 1]
       IN  /\ ji_inos' = inos /\ ji_ino' = ji_ino + 1
           /\ WriteXattrs(WriteInode(WriteDirent(Output, Entry, inos), Entry, inos), ji_ino + 1,
                          Tree[Entry].xattrs)
    /\ ji_version' = ji_version + 1
    /\ ji_links' = Entered(Entry)
    /\ ji_todo' = Tail(ji_todo)
    /\ UNCHANGED <<ji_pc, ji_in, ji_off, ji_left>>

(* write_regular_file: a file that is too large is left out, its           *)
(* attributes are not.                                                     *)
TooLarge ==
    /\ Doing("entry") /\ ~Linked(Entry) /\ Tree[Entry].type = "reg" /\ Tree[Entry].size >= JiMaxSize
    /\ WriteXattrs(Output, ji_inos[Entry], Tree[Entry].xattrs)
    /\ ji_links' = Entered(Entry)
    /\ ji_todo' = Tail(ji_todo)
    /\ UNCHANGED <<ji_pc, ji_in, ji_ino, ji_version, ji_inos, ji_off, ji_left>>

Regular ==
    /\ Doing("entry") /\ ~Linked(Entry) /\ Tree[Entry].type = "reg" /\ Tree[Entry].size < JiMaxSize
    /\ LET inos == [ji_inos EXCEPT ![Entry] = ji_ino + 1]
       IN  ji_inos' = inos /\ Written(WriteDirent(Output, Entry, inos))
    /\ ji_ino' = ji_ino + 1 /\ ji_version' = ji_version + 1
    /\ ji_links' = Entered(Entry)
    /\ ji_pc' = "data" /\ ji_off' = 0 /\ ji_left' = 0
    /\ UNCHANGED <<ji_in, ji_todo, ji_xids, ji_xseqno>>

(* One node of data.  jffs2_compress stores what fits in the rest of the   *)
(* block as it is, or more, at half its size.                              *)
FileNodes(e) == SelectSeq(ji_out, LAMBDA n : n.k = "inode" /\ n.ino = ji_inos[e])
Outcomes(space, len) ==
    {[d |-> space, c |-> space]}
    \cup {[d |-> d, c |-> d \div 2] : d \in {Min({len, 2 * space})} \ {1}}

FileSize(r) == r.d

DataNode ==
    /\ ji_pc = "data" /\ ji_off < Tree[Entry].bytes
    /\ LET len == IF ji_left = 0 THEN Min({JiPage, Tree[Entry].bytes - ji_off}) ELSE ji_left
           p == PadBlockIfLessThan(Output, JiRi + JiMin)
           space == Min({len, JiEb - (p.ofs % JiEb) - JiRi})
       IN  \E r \in Outcomes(space, len) :
             /\ Written(Emit(p, [k |-> "inode", ino |-> ji_inos[Entry], offset |-> ji_off, dsize |-> r.d,
                                 version |-> Len(FileNodes(Entry)) + 1, target |-> <<>>],
                             JiRi + r.c, 0))
             /\ ji_off' = ji_off + FileSize(r) /\ ji_left' = len - r.d
    /\ UNCHANGED <<ji_pc, ji_in, ji_todo, ji_ino, ji_version, ji_inos, ji_links, ji_xids, ji_xseqno>>

(* At the end of the file: a node without data if there was none. *)
DataEnd ==
    /\ ji_pc = "data" /\ ji_off >= Tree[Entry].bytes
    /\ LET empty == [k |-> "inode", ino |-> ji_inos[Entry], offset |-> 0, dsize |-> 0, version |-> 1,
                     target |-> <<>>]
       IN  WriteXattrs(IF FileNodes(Entry) = <<>> THEN Emit(Output, empty, JiRi, JiRi) ELSE Output,
                       ji_inos[Entry], Tree[Entry].xattrs)
    /\ ji_pc' = "populate" /\ ji_todo' = Tail(ji_todo)
    /\ UNCHANGED <<ji_in, ji_ino, ji_version, ji_inos, ji_links, ji_off, ji_left>>

(* The end of create_target_filesystem: padding, with cleanmarkers in the  *)
(* blocks that are added.                                                  *)
RECURSIVE PadTo(_)
PadTo(o) ==
    IF o.ofs >= ji_in.padto THEN o
    ELSE PadTo([out |-> Append(o.out, [k |-> "clean", ofs |-> o.ofs, len |-> JiCm]),
                ofs |-> BlockEnd(o.ofs + JiCm)])
Finish ==
    /\ ji_pc = "populate" /\ ji_todo = <<>>
    /\ Written(CASE ji_in.padto = -1 -> [Output EXCEPT !.ofs = BlockEnd(@)]
                 [] ji_in.padto > 0 /\ ji_in.clean -> PadTo([Output EXCEPT !.ofs = BlockEnd(@)])
                 [] OTHER -> [Output EXCEPT !.ofs = Max({@, ji_in.padto})])
    /\ ji_pc' = "done"
    /\ UNCHANGED <<ji_in, ji_todo, ji_ino, ji_version, ji_inos, ji_links, ji_xids, ji_xseqno, ji_off, ji_left>>

JiNext == Parse \/ DirXattrs \/ Hardlink \/ Special \/ TooLarge \/ Regular \/ DataNode \/ DataEnd \/ Finish

-----------------------------------------------------------------------------
Nodes == {ji_out[i] : i \in DOMAIN ji_out}
Stored == {e \in Entries : ji_inos[e] # 0}
Of(kind) == {n \in Nodes : n.k = kind}

(* Nodes lie one behind the other, none crosses the end of an eraseblock,  *)
(* and with cleanmarkers every block that holds anything begins with one   *)
(* (pad_block_if_less_than).                                               *)
NodesInBlocks ==
    ji_pc \notin {"off", "read"} =>
        /\ \A i \in DOMAIN ji_out :
              /\ ji_out[i].ofs \div JiEb = (ji_out[i].ofs + ji_out[i].len - 1) \div JiEb
              /\ i > 1 => ji_out[i].ofs >= ji_out[i - 1].ofs + ji_out[i - 1].len
        /\ ji_in.clean => \A n \in Nodes : \E c \in Of("clean") : c.ofs = (n.ofs \div JiEb) * JiEb

(* The data nodes of a file, by version, give every byte that was read     *)
(* once and in order, whatever was compressed.                             *)
FilesWhole ==
    ji_pc = "done" =>
        \A e \in Stored : Tree[e].type = "reg" =>
            LET ns == FileNodes(e)
            IN  /\ ns # <<>> /\ ns[1].offset = 0
                /\ \A k \in DOMAIN ns :
                      /\ ns[k].version = k
                      /\ k > 1 => ns[k].offset = ns[k - 1].offset + ns[k - 1].dsize
                /\ ns[Len(ns)].offset + ns[Len(ns)].dsize = Tree[e].bytes

(* Two names share an inode of the image exactly if they are links to one  *)
(* file of the host.                                                       *)
LinksShared ==
    ji_pc = "done" =>
        \A e, f \in Stored : e # f =>
            (ji_inos[e] = ji_inos[f]
                <=> Tree[e].host = Tree[f].host /\ Tree[e].nlink >= 1 /\ Tree[f].nlink >= 1)

(* No inode number of the image that is extended is used again, nor the    *)
(* root's (process_buffer).                                                *)
InosFresh ==
    ji_pc \notin {"off", "read"} => \A e \in Stored : ji_inos[e] > 1 /\ \A n \in ji_in.old : n.k = "inode" => ji_inos[e] # n.ino

(* What a mount of the image finds is the tree: each stored entry is       *)
(* reached from its directory's inode under its name, each directory entry *)
(* stands for such an entry, its inode is in the image, and the versions   *)
(* of the entries of the image are distinct.                               *)
TreeInImage ==
    ji_pc = "done" =>
        /\ {<<d.pino, d.name, d.ino, d.type>> : d \in Of("dirent")}
              = {<<InoOf(ji_inos, Tree[e].parent), Tree[e].name, ji_inos[e], Tree[e].type>> : e \in Stored}
        /\ \A d \in Of("dirent") : \E n \in Of("inode") : n.ino = d.ino
        /\ \A d \in Of("dirent") : \A c \in Of("dirent") : c.version = d.version => c = d

(* Each attribute value is stored once, every reference is to a node       *)
(* written before it, and the references of an entry are to its attributes *)
(* that can be read, to all of them.                                       *)
XattrsOnce ==
    ji_pc = "done" =>
        /\ \A x, y \in Of("xattr") : x.value = y.value => x = y
        /\ \A r \in Of("xref") : \E x \in Of("xattr") : x.xid = r.xid /\ x.ofs < r.ofs
        /\ \A e \in Stored : {x.value : x \in {y \in Of("xattr") :
                                 \E r \in Of("xref") : r.ino = ji_inos[e] /\ r.xid = y.xid}}
              = ToSet(Readable(Tree[e].xattrs))

-----------------------------------------------------------------------------
(***************************************************************************)
(* mkfs.jffs2 writes an image and jffs2reader lists it.                    *)
(***************************************************************************)

CONSTANTS JrImages, JrInf, JrMaxLinks, JrMaxTurns

VARIABLES jr_pc, jr_img, jr_ino, jr_path, jr_n, jr_lr, jr_mp, jr_vmint, jr_vmaxt, jr_vmax,
          jr_vcur, jr_dir, jr_turns, jr_stack, jr_out

readerVars == <<jr_pc, jr_img, jr_ino, jr_path, jr_n, jr_lr, jr_mp, jr_vmint, jr_vmaxt, jr_vmax,
                jr_vcur, jr_dir, jr_turns, jr_stack, jr_out>>

Reader == INSTANCE Jffs2Reader

(* The image as the reader meets it: padding is what is no node. *)
Items ==
    FlattenSeq([i \in DOMAIN ji_out |->
        IF ji_out[i].ofs = (IF i = 1 THEN 0 ELSE Word(ji_out[i - 1].ofs + ji_out[i - 1].len))
        THEN <<ji_out[i]>> ELSE <<Reader!Pad, ji_out[i]>>])

RtOff == JiOff /\ Reader!JrOff
RtInit == (JiInit /\ Reader!JrOff) \/ (JiOff /\ Reader!JrInit)

Read ==
    /\ ji_pc = "done" /\ ji_pc' = "read"
    /\ jr_img' = Items /\ jr_pc' = "collect" /\ jr_path' = <<>> /\ jr_stack' = <<>> /\ jr_out' = {}
    /\ Reader!Collecting(1)
    /\ UNCHANGED <<ji_in, ji_todo, ji_out, ji_ofs, ji_ino, ji_version, ji_inos, ji_links,
                   ji_xids, ji_xseqno, ji_off, ji_left>>

RtNext ==
    \/ JiNext /\ UNCHANGED readerVars
    \/ Read
    \/ Reader!JrNext /\ UNCHANGED jiVars
RtEnded == Reader!JrEnded

ListedByVersion == Reader!ListedByVersion
PathsResolve == Reader!PathsResolve
UpLeadsUp == Reader!UpLeadsUp
ScansBounded == Reader!ScansBounded

-----------------------------------------------------------------------------
RECURSIVE PathOf(_)
PathOf(e) == IF e = 0 THEN <<>> ELSE Append(PathOf(Tree[e].parent), Tree[e].name)

First == CHOOSE e \in Entries : PathOf(e)[1] = ji_out[CHOOSE i \in DOMAIN ji_out :
             ji_out[i].k = "dirent" /\ ji_out[i].version = 0].name /\ Tree[e].parent = 0

(* jffs2reader.c:35 promises a listing of the whole file system.  Of an    *)
(* image of mkfs.jffs2 it lists nothing but paths of the tree that it was  *)
(* made from, each with its inode, and it lists them all, except that      *)
(* nothing is said of the entry that mkfs.jffs2 writes first and of what   *)
(* is below it: write_dirent numbers versions from 0, and collectdir asks  *)
(* for one above 0.                                                        *)
ListsTheTree ==
    ji_pc = "read" /\ jr_pc \in {"exit", "died"} /\ Stored # {} =>
        LET listed == {<<p[1], p[2]>> : p \in jr_out}
            paths(S) == {<<PathOf(e), ji_inos[e]>> : e \in S}
        IN  /\ listed \subseteq paths(Stored)
            /\ paths({e \in Stored : PathOf(e)[1] # Tree[First].name}) \subseteq listed
=============================================================================
