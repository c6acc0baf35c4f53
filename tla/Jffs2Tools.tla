----------------------------- MODULE Jffs2Tools -----------------------------
(***************************************************************************)
(* sumtool.c: the nodes of a JFFS2 image, block by block, into a new image *)
(* whose blocks end in a summary of their nodes.                           *)
(*                                                                         *)
(* A node of the input has a type, a length, a name length, whether it     *)
(* passes its checks and whether it is accurate, that is not obsolete; a   *)
(* junk word is a word without the magic number or with a wrong header.    *)
(***************************************************************************)
EXTENDS Integers, Sequences, FiniteSets, FiniteSetsExt, SequencesExt

CONSTANTS StImages,         \* sequences of blocks, a block a sequence of nodes
          StEb,             \* erase_block_size
          StSum,            \* sizeof(struct jffs2_raw_summary)
          StMarker,         \* sizeof(struct jffs2_sum_marker)
          StRi, StMin,      \* sizeof(struct jffs2_raw_inode), JFFS2_MIN_DATA_LEN
          StCm,             \* cleanmarker_size
          StCommands        \* [markers (-n not given), given (-c given), padto]

VARIABLES st_pc, st_in, st_cmd,
          st_block, st_at,  \* the input: block and node
          st_found,         \* found_cleanmarkers
          st_cm,            \* cleanmarker_size
          st_list,          \* sum_list: the summary of the block so far
          st_buf,           \* data_buffer: what it holds, with offsets
          st_ofs,           \* data_ofs
          st_out            \* the blocks written: [nodes, sum, len]

stVars == <<st_pc, st_in, st_cmd, st_block, st_at, st_found, st_cm, st_list, st_buf, st_ofs, st_out>>

StOff ==
    /\ st_pc = "off" /\ st_in = <<>> /\ st_cmd = <<>> /\ st_block = 0 /\ st_at = 0
    /\ st_found = FALSE /\ st_cm = 0 /\ st_list = <<>> /\ st_buf = <<>> /\ st_ofs = 0 /\ st_out = <<>>

StInit ==
    /\ st_in \in StImages /\ st_cmd \in StCommands
    /\ st_pc = "load" /\ st_block = 0 /\ st_at = 1
    /\ st_found = st_cmd.given /\ st_cm = StCm
    /\ st_list = <<>> /\ st_buf = <<>> /\ st_ofs = 0 /\ st_out = <<>>

Word(n) == ((n + 3) \div 4) * 4

(* The size of a summary entry, by type. *)
EntrySize(n) == CASE n.k = "inode" -> 6 [] n.k = "dirent" -> 8 + n.name [] n.k = "xattr" -> 6 [] n.k = "xref" -> 2
SumSize(list) == LET f[k \in 0 .. Len(list)] == IF k = 0 THEN 0 ELSE f[k - 1] + EntrySize(list[k].node)
                 IN  f[Len(list)]

(* load_next_block.  A read that fails returns -1, which is not the end:   *)
(* the loop of main goes round again.                                      *)
LoadBlock ==
    /\ st_pc = "load"
    /\ IF st_block = Len(st_in) THEN st_pc' = "flush" /\ UNCHANGED <<st_block, st_at>>
       ELSE st_pc' = "scan" /\ st_block' = st_block + 1 /\ st_at' = 1
    /\ UNCHANGED <<st_in, st_cmd, st_found, st_cm, st_list, st_buf, st_ofs, st_out>>
LoadFails == st_pc = "load" /\ UNCHANGED stVars

(* dump_sum_records and write_buff_to_file: the summary, padded so that    *)
(* the marker ends the block, and the block.  Without a record there is no *)
(* summary and the block ends where its data does.  Data and summary that  *)
(* do not fit (the code computes a negative padding) are a block that is   *)
(* too long.                                                               *)
Dumped(b) ==
    IF b.list = <<>> THEN IF b.ofs = 0 THEN b.out ELSE Append(b.out, [nodes |-> b.buf, sum |-> <<>>, len |-> b.ofs])
    ELSE Append(b.out, [nodes |-> b.buf, sum |-> b.list,
                        len |-> Max({StEb, b.ofs + StSum + SumSize(b.list) + StMarker})])
Emptied(b) == [list |-> <<>>, buf |-> <<>>, ofs |-> 0, out |-> Dumped(b)]
Buffer == [list |-> st_list, buf |-> st_buf, ofs |-> st_ofs, out |-> st_out]
Becomes(b) == st_list' = b.list /\ st_buf' = b.buf /\ st_ofs' = b.ofs /\ st_out' = b.out

(* pad_block_if_less_than.  The request is counted twice. *)
NoRoom(b, req, plus) ==
    b.ofs + req > StEb - Word(req + plus + SumSize(b.list) + StSum + StMarker)
Marking == st_cmd.markers /\ st_found
PadBlockIfLessThan(b, req, plus) ==
    LET c == IF NoRoom(b, req, plus) THEN Emptied(b) ELSE b
    IN  IF Marking /\ c.ofs = 0 THEN [c EXCEPT !.buf = <<[k |-> "clean", ofs |-> 0]>>, !.ofs = Word(st_cm)] ELSE c

(* write_inode_to_buff and the like: add_sum_mem notes where the node is   *)
(* going to lie, so after room was made for it.                            *)
OffsetBefore(b, c) == b.ofs             \* mutant: the offset is taken before room is made
OffsetIn(b, c) == c.ofs
Copied(b, n) ==
    LET c == PadBlockIfLessThan(b, n.len, EntrySize(n))
    IN  [list |-> Append(c.list, [node |-> n, ofs |-> OffsetIn(b, c)]),
         buf |-> Append(c.buf, [k |-> n.k, ofs |-> c.ofs, node |-> n]),
         ofs |-> Word(c.ofs + n.len), out |-> c.out]

(* create_summed_image: one node of the input.  An obsolete one is made    *)
(* accurate for the check of its header, and copied like that.             *)
Node == st_in[st_block][st_at]
Scanning == st_pc = "scan" /\ st_at <= Len(st_in[st_block])

Copy ==
    /\ Scanning /\ Node.k \in {"inode", "dirent", "xattr", "xref"} /\ Node.crc
    /\ Becomes(Copied(Buffer, [Node EXCEPT !.acc = TRUE]))
    /\ st_at' = st_at + 1
    /\ UNCHANGED <<st_pc, st_in, st_cmd, st_block, st_found, st_cm>>

Skip ==
    /\ Scanning /\ (Node.k \in {"junk", "padding", "unknown"} \/ (Node.k # "clean" /\ ~Node.crc))
    /\ st_at' = st_at + 1
    /\ UNCHANGED <<st_pc, st_in, st_cmd, st_block, st_found, st_cm, st_list, st_buf, st_ofs, st_out>>

(* The first cleanmarker gives the size of those that are written. *)
CleanMarker ==
    /\ Scanning /\ Node.k = "clean"
    /\ st_found' = TRUE
    /\ st_cm' = IF ~st_found /\ st_cmd.markers THEN Node.len ELSE st_cm
    /\ st_at' = st_at + 1
    /\ UNCHANGED <<st_pc, st_in, st_cmd, st_block, st_list, st_buf, st_ofs, st_out>>

BlockDone ==
    /\ st_pc = "scan" /\ st_at > Len(st_in[st_block])
    /\ st_pc' = "load"
    /\ UNCHANGED <<st_in, st_cmd, st_block, st_at, st_found, st_cm, st_list, st_buf, st_ofs, st_out>>

(* flush_buffers: the last block gets a summary only if it is nearly full, *)
(* nothing is written for a cleanmarker alone.                             *)
FlushFull(b) == b.ofs + StRi + 2 * StMin > StEb - Word(SumSize(b.list) + StSum + StMarker)
Flushed(b) ==
    IF (IF Marking THEN b.ofs = st_cm ELSE b.ofs = 0) THEN b
    ELSE IF FlushFull(b) THEN Emptied(b)
    ELSE [list |-> <<>>, buf |-> <<>>, ofs |-> 0,
          out |-> LET len == IF st_cmd.padto THEN StEb ELSE b.ofs
                  IN  IF len = 0 THEN b.out ELSE Append(b.out, [nodes |-> b.buf, sum |-> <<>>, len |-> len])]
Flush ==
    /\ st_pc = "flush"
    /\ Becomes(Flushed(Buffer))
    /\ st_pc' = "exit"
    /\ UNCHANGED <<st_in, st_cmd, st_block, st_at, st_found, st_cm>>

StNext == LoadBlock \/ LoadFails \/ Copy \/ Skip \/ CleanMarker \/ BlockDone \/ Flush

-----------------------------------------------------------------------------
Valid(n) == n.k \in {"inode", "dirent", "xattr", "xref"} /\ n.crc
RECURSIVE Join(_)
Join(ss) == IF ss = <<>> THEN <<>> ELSE Head(ss) \o Join(Tail(ss))
NodesIn(items) == LET own == SelectSeq(items, LAMBDA i : i.k # "clean") IN [k \in DOMAIN own |-> own[k].node]

(* The new image holds exactly the good nodes of the old one, in their     *)
(* order, none lost when a block is closed or at the end; the obsolete     *)
(* ones among them are accurate in the new image.                          *)
NodesKept ==
    st_pc = "exit" =>
        LET good == SelectSeq(Join(st_in), Valid)
        IN  Join([k \in DOMAIN st_out |-> NodesIn(st_out[k].nodes)])
                = [k \in DOMAIN good |-> [good[k] EXCEPT !.acc = TRUE]]

(* Every block but the last is as long as an eraseblock, so that what      *)
(* follows it starts on a block; none is longer.                           *)
BlocksWhole ==
    st_pc # "off" =>
        /\ st_ofs <= StEb
        /\ \A k \in DOMAIN st_out : /\ st_out[k].len <= StEb
                                    /\ k < Len(st_out) \/ st_pc # "exit" => st_out[k].len = StEb

(* A summary lists the nodes of its block, each at the offset where it     *)
(* lies, as the kernel trusts it without a scan.                           *)
SummaryTrue ==
    st_pc # "off" =>
        \A k \in DOMAIN st_out : st_out[k].sum # <<>> =>
            LET own == SelectSeq(st_out[k].nodes, LAMBDA i : i.k # "clean")
            IN  /\ Len(own) = Len(st_out[k].sum)
                /\ \A j \in DOMAIN own : st_out[k].sum[j].ofs = own[j].ofs /\ st_out[k].sum[j].node = own[j].node

-----------------------------------------------------------------------------
(***************************************************************************)
(* jffs2dump.c: the walk that reports an image (-c), the walk that writes  *)
(* it in the other byte order (-e), and the peeling of the spare areas.    *)
(* An image is a sequence of words.  A node is its header word, which      *)
(* holds its length in words and whether its three checksums are right,    *)
(* and body words, which are not erased and not the magic number.          *)
(***************************************************************************)

CONSTANTS JdImages,         \* sequences of nodes
          JdPage, JdOob,    \* -d and -o, in words
          JdOlds            \* numbers of words in the output file before

VARIABLES jd_pc, jd_nodes, jd_opts,
          jd_raw,           \* words of the file still to be peeled
          jd_img,           \* data
          jd_p,             \* p, from 1
          jd_end,           \* byte order the tool was told the image has
          jd_empty, jd_dirty,
          jd_old,           \* words of the output file that were there before
          jd_out,           \* words written
          jd_fault,         \* the open or a write of the output failed
          jd_pass           \* conversions done: the second reads the first

jdVars == <<jd_pc, jd_nodes, jd_opts, jd_raw, jd_img, jd_p, jd_end, jd_empty, jd_dirty, jd_old, jd_out,
            jd_fault, jd_pass>>

(* Kinds of words.  An "ffff" word is a header whose type is erased. *)
DumpWord(k) == [k |-> k, len |-> 1, hdr |-> TRUE, node |-> TRUE, data |-> TRUE, acc |-> TRUE, end |-> "own"]
Headers == {"inode", "dirent", "xattr", "xref", "summary", "clean", "padding", "unknown", "ffff"}
Layout(nodes) == FoldLeft(LAMBDA w, n : w \o <<n>> \o [i \in 1 .. n.len - 1 |-> DumpWord("body")], <<>>, nodes)
Other(e) == IF e = "own" THEN "other" ELSE "own"

JdOff ==
    /\ jd_pc = "off" /\ jd_nodes = <<>> /\ jd_opts = {} /\ jd_raw = <<>> /\ jd_img = <<>> /\ jd_p = 1
    /\ jd_end = "own" /\ jd_empty = 0 /\ jd_dirty = 0 /\ jd_old = 0 /\ jd_out = <<>>
    /\ jd_fault = FALSE /\ jd_pass = 0

(* The file: the image, or with the spare areas the pages of the image     *)
(* with theirs.                                                            *)
JdInit ==
    /\ jd_nodes \in JdImages /\ jd_opts \in SUBSET {"c", "r", "oob"}
    /\ "oob" \in jd_opts => Len(Layout(jd_nodes)) % JdPage = 0
    /\ jd_raw = LET words == Layout(jd_nodes)
                    page(i) == SubSeq(words, (i - 1) * JdPage + 1, i * JdPage)
                IN  IF "oob" \in jd_opts
                    THEN FlattenSeq([i \in 1 .. Len(words) \div JdPage |-> page(i) \o [j \in 1 .. JdOob |-> DumpWord("oob")]])
                    ELSE words
    /\ jd_pc = "read" /\ jd_img = <<>> /\ jd_p = 1 /\ jd_end = "own"
    /\ jd_empty = 0 /\ jd_dirty = 0 /\ jd_old \in JdOlds /\ jd_out = <<>>
    /\ jd_fault = FALSE /\ jd_pass = 0

After == IF "c" \in jd_opts THEN "dump" ELSE "open"
ReadAll ==
    /\ jd_pc = "read" /\ "oob" \notin jd_opts
    /\ jd_img' = jd_raw /\ jd_raw' = <<>> /\ jd_pc' = After
    /\ UNCHANGED <<jd_nodes, jd_opts, jd_p, jd_end, jd_empty, jd_dirty, jd_old, jd_out, jd_fault, jd_pass>>
Peel ==
    /\ jd_pc = "read" /\ "oob" \in jd_opts
    /\ jd_img' = jd_img \o SubSeq(jd_raw, 1, JdPage)
    /\ jd_raw' = SubSeq(jd_raw, JdPage + JdOob + 1, Len(jd_raw))
    /\ jd_pc' = IF jd_raw' = <<>> THEN After ELSE "read"
    /\ UNCHANGED <<jd_nodes, jd_opts, jd_p, jd_end, jd_empty, jd_dirty, jd_old, jd_out, jd_fault, jd_pass>>

This == jd_img[jd_p]
Magic(w) == w.k \in Headers /\ w.end = jd_end

(* do_dumpcontent: the words a step passes, and which of them it counts. *)
Erased(w) == w.k = "empty" \/ (Magic(w) /\ w.hdr /\ w.k = "ffff")
Whole(w) == Magic(w) /\ w.hdr /\ w.k # "ffff"
Wrong(w) == w.k \in {"inode", "dirent", "xattr", "summary"} /\ ~(w.node /\ w.data)
Width(w) == IF Whole(w) THEN w.len ELSE 1
DirtyIn(w) == IF Whole(w) THEN IF Wrong(w) \/ w.k = "unknown" THEN w.len ELSE 0
              ELSE IF Erased(w) THEN 0 ELSE 1

(* An obsolete node is made accurate in the image that is held. *)
DumpNode ==
    /\ jd_pc = "dump" /\ jd_p <= Len(jd_img)
    /\ jd_empty' = jd_empty + (IF Erased(This) THEN 1 ELSE 0)
    /\ jd_dirty' = jd_dirty + DirtyIn(This)
    /\ jd_p' = jd_p + Width(This)
    /\ jd_img' = IF Magic(This) THEN [jd_img EXCEPT ![jd_p].acc = TRUE] ELSE jd_img
    /\ UNCHANGED <<jd_pc, jd_nodes, jd_opts, jd_raw, jd_end, jd_old, jd_out, jd_fault, jd_pass>>
DumpEnd ==
    /\ jd_pc = "dump" /\ jd_p > Len(jd_img)
    /\ jd_pc' = "open" /\ jd_p' = 1
    /\ UNCHANGED <<jd_nodes, jd_opts, jd_raw, jd_img, jd_end, jd_empty, jd_dirty, jd_old, jd_out, jd_fault, jd_pass>>

(* do_endianconvert opens the file without truncating it; if that fails,   *)
(* it only says so, and main ends with status 0.                           *)
OpenOutput ==
    /\ jd_pc = "open" /\ jd_pc' = "convert"
    /\ UNCHANGED <<jd_nodes, jd_opts, jd_raw, jd_img, jd_p, jd_end, jd_empty, jd_dirty, jd_old, jd_out, jd_fault, jd_pass>>
OpenFails ==
    /\ jd_pc = "open" /\ jd_pc' = "exit" /\ jd_fault' = TRUE
    /\ UNCHANGED <<jd_nodes, jd_opts, jd_raw, jd_img, jd_p, jd_end, jd_empty, jd_dirty, jd_old, jd_out, jd_pass>>

(* The header a node gets, and what is handed to write: one word, the      *)
(* header and then the rest of the node, or nothing for a reference, an    *)
(* unknown and an obsolete node, which are passed over.                    *)
Converted(w) ==
    [w EXCEPT !.end = Other(w.end), !.hdr = TRUE, !.node = TRUE,
              !.data = w.data \/ "r" \in jd_opts \/ w.k = "summary"]
Body == SubSeq(jd_img, jd_p + 1, jd_p + This.len - 1)
Pieces ==
    IF This.k = "empty" \/ (Magic(This) /\ This.k = "ffff" /\ This.acc) THEN <<<<This>>>>
    ELSE IF ~Magic(This) THEN <<<<[This EXCEPT !.end = Other(This.end)]>>>>
    ELSE IF This.k \in {"xref", "unknown"} \/ ~This.acc THEN <<>>
    ELSE <<<<Converted(This)>>, Body>>

(* No result of write is looked at: each may have stored less.  Bound: in  *)
(* a run of the model this happens for one node.                           *)
Starts(piece) == {SubSeq(piece, 1, n) : n \in 0 .. Len(piece)}
Outcomes == CASE Len(Pieces) = 0 -> {<<>>}
              [] Len(Pieces) = 1 -> Starts(Pieces[1])
              [] OTHER -> {h \o b : h \in Starts(Pieces[1]), b \in Starts(Pieces[2])}

ConvertNode ==
    /\ jd_pc = "convert" /\ jd_p <= Len(jd_img)
    /\ \E stored \in IF jd_fault THEN {FlattenSeq(Pieces)} ELSE Outcomes :
          /\ jd_out' = jd_out \o stored
          /\ jd_fault' = (jd_fault \/ stored # FlattenSeq(Pieces))
    /\ jd_p' = jd_p + (IF Magic(This) THEN This.len ELSE 1)
    /\ UNCHANGED <<jd_pc, jd_nodes, jd_opts, jd_raw, jd_img, jd_end, jd_empty, jd_dirty, jd_old, jd_pass>>

(* A summary that is damaged may hold an entry of an unknown type. *)
ConvertDies ==
    /\ jd_pc = "convert" /\ jd_p <= Len(jd_img) /\ Magic(This) /\ This.acc
    /\ This.k = "summary" /\ ~This.data
    /\ jd_pc' = "died"
    /\ UNCHANGED <<jd_nodes, jd_opts, jd_raw, jd_img, jd_p, jd_end, jd_empty, jd_dirty, jd_old, jd_out, jd_fault, jd_pass>>

(* The output file: what was written, and behind it what is left of the    *)
(* old contents.                                                           *)
OutputFile == jd_out \o [i \in 1 .. jd_old - Len(jd_out) |-> DumpWord("junk")]

(* The tool is run again on a file that it wrote without a fault, told the *)
(* other byte order, with an output file of its own.                       *)
ConvertEnd ==
    /\ jd_pc = "convert" /\ jd_p > Len(jd_img)
    /\ jd_pass' = jd_pass + 1
    /\ IF jd_pass = 0 /\ ~jd_fault
       THEN /\ jd_pc' = "open" /\ jd_img' = OutputFile /\ jd_out' = <<>>
            /\ jd_end' = Other(jd_end) /\ jd_p' = 1
       ELSE /\ jd_pc' = "exit" /\ UNCHANGED <<jd_img, jd_out, jd_end, jd_p>>
    /\ UNCHANGED <<jd_nodes, jd_opts, jd_raw, jd_empty, jd_dirty, jd_old, jd_fault>>

JdNext == ReadAll \/ Peel \/ DumpNode \/ DumpEnd \/ OpenOutput \/ OpenFails \/ ConvertNode \/ ConvertDies \/ ConvertEnd

-----------------------------------------------------------------------------
Total(S) == MapThenSumSet(LAMBDA i : jd_nodes[i].len, S)

(* The report adds up: the empty space is the erased words, and the dirty  *)
(* space the unknown nodes, those with any checksum wrong and the words    *)
(* that are no node, each once and in full, whether a node was passed as a *)
(* whole or, for a wrong header checksum, word by word.                    *)
DumpAddsUp ==
    jd_pc = "dump" /\ jd_p > Len(jd_img) =>
        /\ jd_p = Len(jd_img) + 1
        /\ jd_empty = Total({i \in DOMAIN jd_nodes : jd_nodes[i].k = "empty"
                                \/ (jd_nodes[i].k = "ffff" /\ jd_nodes[i].hdr)})
        /\ jd_dirty = Total({i \in DOMAIN jd_nodes :
              \/ jd_nodes[i].k \in {"junk", "unknown"}
              \/ jd_nodes[i].k # "empty" /\ ~jd_nodes[i].hdr
              \/ jd_nodes[i].k \in {"inode", "dirent", "xattr", "summary"} /\ ~(jd_nodes[i].node /\ jd_nodes[i].data)})

Convertible == \A i \in DOMAIN jd_nodes : /\ jd_nodes[i].k \notin {"xref", "unknown"}
                                          /\ jd_nodes[i].acc \/ "c" \in jd_opts \/ jd_nodes[i].k \in {"junk", "empty"}

(* Where no node is passed over and no write fails, the file that a        *)
(* conversion leaves has every node at its place, so that the offsets in   *)
(* the summaries and the eraseblocks still fit.  It is as long as the      *)
(* image unless the old file was longer, whose end is then left in it      *)
(* (no O_TRUNC at jffs2dump.c:495).                                        *)
LayoutKept ==
    jd_pass = 1 /\ jd_pc = "open" /\ Convertible =>
        LET words == Layout(jd_nodes)
        IN  /\ Len(jd_img) = Max({Len(words), jd_old})
            /\ \A i \in DOMAIN words : jd_img[i].k = words[i].k /\ jd_img[i].len = words[i].len

(* Converting twice without a failing write gives the image back, but for  *)
(* the checksums, which are new; the checksum of the data stays wrong      *)
(* where it was, unless -r asks for it.  Behind the image there is only    *)
(* what was left in the first output file.                                 *)
TwiceSame ==
    jd_pass = 2 /\ ~jd_fault /\ Convertible /\ (\A i \in DOMAIN jd_nodes : jd_nodes[i].k # "ffff") =>
        LET words == Layout(jd_nodes)
        IN  /\ Len(jd_out) = Max({Len(words), jd_old})
            /\ \A i \in DOMAIN words :
                  /\ jd_out[i].k = words[i].k /\ jd_out[i].end = words[i].end
                  /\ jd_out[i].k \in {"inode", "dirent", "xattr"} =>
                        jd_out[i].hdr /\ jd_out[i].node /\ jd_out[i].data = (words[i].data \/ "r" \in jd_opts)
=============================================================================
