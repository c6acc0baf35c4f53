---------------------------- MODULE MCFileSystems ----------------------------
(***************************************************************************)
(* The programs that build, convert and read images of file systems, one   *)
(* of which is run: their state spaces side by side.                       *)
(***************************************************************************)
EXTENDS Integers, Sequences, FiniteSets

VARIABLES tool, ji_pc, ji_in, ji_todo, ji_out, ji_ofs, ji_ino, ji_version, ji_inos,
    ji_links, ji_xids, ji_xseqno, ji_off, ji_left, jr_pc, jr_img, jr_ino, jr_path, jr_n,
    jr_lr, jr_mp, jr_vmint, jr_vmaxt, jr_vmax, jr_vcur, jr_dir, jr_turns, jr_stack,
    jr_out, st_pc, st_in, st_cmd, st_block, st_at, st_found, st_cm, st_list, st_buf,
    st_ofs, st_out, jc_pc, jc_mode, jc_check, jc_list, jc_prio, jc_disabled, jc_alloc,
    jc_size, jc_left, jc_piece, jc_best, jc_res, jc_tried, jc_short, jc_calls, jc_options,
    rc_pc, rc_in, rc_space, rc_out, rc_pos, rc_last, rc_read, rc_dec, jd_pc, jd_nodes,
    jd_opts, jd_raw, jd_img, jd_p, jd_end, jd_empty, jd_dirty, jd_old, jd_out, jd_fault, jd_pass, jt_pc,
    jt_host, jt_at, jt_squash, jt_squashed, jt_e, jt_files, jt_lines, jt_status, ht_pc,
    ht_table, ht_prime, ht_limit, ht_count, ht_itr, ht_map, ht_seen, ht_due, ht_ops,
    ut_pc, ut_host, ut_lines, ut_squash, ut_root, ut_line, ut_table, ut_stack, ut_map,
    ut_inum, ut_sq, ut_nodes, ut_skipped, ul_pc, ul_in, ul_fanout, ul_flash, ul_lnum, ul_offs,
    ul_buf, ul_flags, ul_index, ul_lpt, ul_lst, ul_level, ul_root, ul_idxsz, ul_gc,
    ul_ihead, ul_mst, ul_lost, lt_pc, lt_shape, lt_geo, lt_main, lt_lnum, lt_len, lt_buf,
    lt_flash, lt_ltab, lt_cnt, lt_i, lt_row, lt_below, lt_root, lt_at, pb_pc, pb_geo,
    pb_lsave, pb_kind, pb_buf, pb_p, pb_b, pb_fill, pb_done, uc_pc, uc_len, uc_type,
    uc_favor, uc_percent, uc_lzo, uc_zlib, uc_out, uc_zbuf, uc_ret, uc_retlen, uc_errs,
    uo_pc, uo_given, uo_vol, uo_place, uo_c, uo_lnum, uo_asked, uo_wrote, uo_areas, rb_pc,
    rb_t, rb_in, rb_node, rb_parent

rtVars == <<ji_pc, ji_in, ji_todo, ji_out, ji_ofs, ji_ino, ji_version, ji_inos, ji_links,
    ji_xids, ji_xseqno, ji_off, ji_left, jr_pc, jr_img, jr_ino, jr_path, jr_n, jr_lr,
    jr_mp, jr_vmint, jr_vmaxt, jr_vmax, jr_vcur, jr_dir, jr_turns, jr_stack, jr_out>>
stVars == <<st_pc, st_in, st_cmd, st_block, st_at, st_found, st_cm, st_list, st_buf,
    st_ofs, st_out>>
jcVars == <<jc_pc, jc_mode, jc_check, jc_list, jc_prio, jc_disabled, jc_alloc, jc_size,
    jc_left, jc_piece, jc_best, jc_res, jc_tried, jc_short, jc_calls, jc_options>>
rcVars == <<rc_pc, rc_in, rc_space, rc_out, rc_pos, rc_last, rc_read, rc_dec>>
jdVars == <<jd_pc, jd_nodes, jd_opts, jd_raw, jd_img, jd_p, jd_end, jd_empty, jd_dirty,
    jd_old, jd_out, jd_fault, jd_pass>>
jtVars == <<jt_pc, jt_host, jt_at, jt_squash, jt_squashed, jt_e, jt_files, jt_lines,
    jt_status>>
htVars == <<ht_pc, ht_table, ht_prime, ht_limit, ht_count, ht_itr, ht_map, ht_seen,
    ht_due, ht_ops>>
utVars == <<ut_pc, ut_host, ut_lines, ut_squash, ut_root, ut_line, ut_table, ut_stack,
    ut_map, ut_inum, ut_sq, ut_nodes, ut_skipped>>
ulVars == <<ul_pc, ul_in, ul_fanout, ul_flash, ul_lnum, ul_offs, ul_buf, ul_flags,
    ul_index, ul_lpt, ul_lst, ul_level, ul_root, ul_idxsz, ul_gc, ul_ihead, ul_mst,
    ul_lost>>
ltVars == <<lt_pc, lt_shape, lt_geo, lt_main, lt_lnum, lt_len, lt_buf, lt_flash, lt_ltab,
    lt_cnt, lt_i, lt_row, lt_below, lt_root, lt_at>>
pbVars == <<pb_pc, pb_geo, pb_lsave, pb_kind, pb_buf, pb_p, pb_b, pb_fill, pb_done>>
ucVars == <<uc_pc, uc_len, uc_type, uc_favor, uc_percent, uc_lzo, uc_zlib, uc_out,
    uc_zbuf, uc_ret, uc_retlen, uc_errs>>
uoVars == <<uo_pc, uo_given, uo_vol, uo_place, uo_c, uo_lnum, uo_asked, uo_wrote,
    uo_areas>>
rbVars == <<rb_pc, rb_t, rb_in, rb_node, rb_parent>>
allVars == <<tool, rtVars, stVars, jcVars, rcVars, jdVars, jtVars, htVars, utVars, ulVars,
    ltVars, pbVars, ucVars, uoVars, rbVars>>

Jffs2Node(k, len, hdr, node, data, acc) ==
    [k |-> k, len |-> len, hdr |-> hdr, node |-> node, data |-> data, acc |-> acc, end |-> "own"]
Jffs2DumpNodes ==
    {Jffs2Node("inode", 3, h, n, d, a) : h, n, d, a \in BOOLEAN}
    \cup {Jffs2Node("summary", 3, TRUE, TRUE, d, TRUE) : d \in BOOLEAN}
    \cup {Jffs2Node(k, l, h, TRUE, TRUE, TRUE) : k \in {"dirent", "xattr", "xref", "clean", "padding", "unknown"},
                                               l \in {2}, h \in BOOLEAN}
    \cup {Jffs2Node(k, 1, TRUE, TRUE, TRUE, TRUE) : k \in {"empty", "junk", "ffff"}}
Jffs2DumpImages ==
    {<<x, y>> : x \in Jffs2DumpNodes, y \in {n \in Jffs2DumpNodes : n.hdr /\ (n.node \/ n.data) /\ (n.data => n.acc)}}
    \cup {<<x, y, z>> : x \in {n \in Jffs2DumpNodes : n.len = 1}, y \in Jffs2DumpNodes,
                        z \in {n \in Jffs2DumpNodes : n.k = "padding"}}

TreeEntry(path, t, uid, w, rdev) == [path |-> path, t |-> t, uid |-> uid, w |-> w, rdev |-> rdev]
TreeHosts ==
    {<<TreeEntry(<<>>, "d", 7, TRUE, <<0, 0>>), TreeEntry(<<<<"dev">>>>, "d", 7, TRUE, <<0, 0>>)>>
     \o rest : rest \in {<<>>,
        <<TreeEntry(<<<<"dev">>, <<"tty">>>>, "c", 7, TRUE, <<4, 1>>),
          TreeEntry(<<<<"dev">>, <<"tty", 1>>>>, "c", 7, FALSE, <<4, 2>>),
          TreeEntry(<<<<"etc">>>>, "l", 7, TRUE, <<0, 0>>)>>}}
TreeLine(path, t, major, minor, start, inc, count) ==
    [path |-> path, t |-> t, uid |-> 5, w |-> TRUE, major |-> major, minor |-> minor,
     start |-> start, inc |-> inc, count |-> count]
TreeLines ==
    {TreeLine(<<<<"dev">>>>, "d", 0, 0, 0, 1, 0), TreeLine(<<<<"dev">>>>, "p", 0, 0, 0, 1, 0),
     TreeLine(<<<<"dev">>, <<"tty">>>>, "c", 5, 0, 0, 1, 0), TreeLine(<<<<"dev">>, <<"tty">>>>, "b", 5, 2, 0, 1, 0),
     TreeLine(<<<<"dev">>, <<"tty">>>>, "c", 5, 2, 1, 2, 2),
     TreeLine(<<<<"dev">>, <<"tty", 1>>>>, "c", 6, 1, 0, 1, 0),
     TreeLine(<<<<"new">>>>, "d", 0, 0, 0, 1, 0), TreeLine(<<<<"new">>, <<"p">>>>, "p", 0, 0, 0, 1, 0),
     TreeLine(<<<<"etc">>>>, "l", 0, 0, 0, 1, 0), TreeLine(<<<<"etc">>>>, "f", 0, 0, 0, 1, 0)}

Jffs2Dirent(pino, name, ino, version, type) ==
    [k |-> "dirent", pino |-> pino, name |-> name, ino |-> ino, version |-> version, type |-> type]
Jffs2Inode(ino, version, target) == [k |-> "inode", ino |-> ino, version |-> version, target |-> target]
Jffs2Pad == [k |-> "pad"]
Jffs2Other == [k |-> "other"]
Jffs2Entries == {Jffs2Dirent(1, p[1], p[2], v, "reg") : p \in {<<"a", 0>>, <<"a", 2>>, <<"b", 2>>}, v \in {1, 2, 4}}
Jffs2Lists ==
    {s \in UNION {[1 .. n -> Jffs2Entries \cup {Jffs2Pad}] : n \in 1 .. 4} :
        \A i \in DOMAIN s : \A j \in DOMAIN s \ {i} :
            IF s[i].k = "pad" THEN j = i + 1 => s[j].k # "pad"
            ELSE s[j].k = "dirent" => s[i].version # s[j].version}
Jffs2Nested ==
    {<<Jffs2Dirent(1, "d", 2, 1, "dir"), Jffs2Dirent(2, "e", 3, v, "dir"), Jffs2Dirent(3, "l", 5, 6, "lnk"),
       Jffs2Other, Jffs2Dirent(2, "m", 6, 5, "lnk"), Jffs2Dirent(3, "f", 4, 7, "reg"), Jffs2Inode(2, 1, <<>>),
       Jffs2Inode(3, 1, <<>>), Jffs2Inode(4, 2, <<>>), Jffs2Inode(4, 1, <<>>), Jffs2Inode(5, 1, target),
       Jffs2Inode(6, 1, <<"l">>)>> :
        v \in {2, 9}, target \in {<<"..">>, <<"f">>, <<"l">>, <<"..", "m">>, <<"/", "d", "e", "f">>}}
Jffs2Images == {s \o <<Jffs2Inode(2, 1, <<>>)>> : s \in Jffs2Lists} \cup Jffs2Nested

HostEntry(parent, name, type, host, nlink, size, bytes, target, xattrs) ==
    [parent |-> parent, name |-> name, type |-> type, host |-> host, nlink |-> nlink, size |-> size,
     bytes |-> bytes, target |-> target, xattrs |-> xattrs]
HostFile(parent, name, ino, nlink, bytes) ==
    HostEntry(parent, name, "reg", <<1, ino>>, nlink, bytes, bytes, <<>>, <<>>)
HostDir(parent, name, ino, xattrs) ==
    HostEntry(parent, name, "dir", <<1, ino>>, 2, 0, 0, <<>>, xattrs)
HostTrees ==
    {<<>>,
     <<HostFile(0, "a", 10, 1, 3), HostDir(0, "d", 11, <<>>), HostFile(2, "f", 12, 2, 20),
       HostFile(0, "g", 12, 2, 20), HostEntry(0, "l", "lnk", <<1, 13>>, 1, 2, 0, <<"d", "f">>, <<>>),
       HostEntry(2, "c", "chr", <<0, 0>>, 0, 0, 0, <<>>, <<>>),
       HostEntry(2, "b", "blk", <<0, 0>>, 0, 0, 0, <<>>, <<>>)>>,
     <<HostDir(0, "d", 10, <<"u1">>), HostDir(1, "e", 11, <<"u1", "u22">>), HostFile(0, "x", 5, 1, 7),
       HostEntry(0, "y", "reg", <<2, 5>>, 1, 7, 9, <<>>, <<"u22">>), HostDir(0, "z", 14, <<>>),
       HostFile(5, "v", 15, 1, 0), HostEntry(2, "w", "fifo", <<1, 16>>, 1, 0, 0, <<>>, <<"u3">>)>>,
     <<HostFile(0, "big", 10, 2, 50), HostFile(0, "a", 11, 1, 33), HostDir(0, "d", 12, <<>>),
       HostFile(3, "big2", 10, 2, 50), HostDir(3, "k", 13, <<>>), HostFile(5, "q", 14, 1, 5)>>}
Jffs2Inputs ==
    [tree : HostTrees, root : {<<"u1">>}, clean : BOOLEAN, padto : {-1, 600}, old : {{}}, unread : {{}}]
    \cup [tree : HostTrees, root : {<<"u1">>}, clean : {TRUE}, padto : {0}, old : {{}},
          unread : {{"u22"}, {"u1", "u3"}}]
    \cup [tree : HostTrees, root : {<<>>}, clean : BOOLEAN, padto : {0}, unread : {{}},
          old : {{[k |-> "inode", ino |-> 3], [k |-> "inode", ino |-> 9], [k |-> "dirent", ino |-> 9]}}]

UbiEntry(dir, name, t, host, nlink, blocks, size) ==
    [dir |-> dir, name |-> <<name>>, t |-> t, host |-> host, nlink |-> nlink, uid |-> 3, gid |-> 3,
     blocks |-> blocks, size |-> size, rdev |-> <<0, 0>>]
UbiHosts ==
    {<<>>,
     <<UbiEntry(0, "dev", "dir", <<1, 10>>, 2, <<>>, 0), UbiEntry(1, "tty", "chr", <<1, 11>>, 1, <<>>, 0),
       UbiEntry(0, "f", "reg", <<1, 12>>, 1, <<"zero", "data", "zero", "data">>, 4),
       UbiEntry(0, "l", "lnk", <<1, 13>>, 1, <<>>, 0)>>,
     <<UbiEntry(0, "d", "dir", <<1, 10>>, 2, <<>>, 0), UbiEntry(1, "a", "reg", <<1, 11>>, 2, <<"data", "data">>, 2),
       UbiEntry(0, "b", "reg", <<1, 11>>, 2, <<"data", "data">>, 2), UbiEntry(0, "c", "fifo", <<2, 11>>, 2, <<>>, 0)>>,
     <<UbiEntry(0, "d", "dir", <<1, 10>>, 3, <<>>, 0), UbiEntry(1, "e", "dir", <<1, 11>>, 2, <<>>, 0),
       UbiEntry(2, "g", "reg", <<1, 12>>, 1, <<"data">>, 2), UbiEntry(1, "h", "reg", <<1, 13>>, 1, <<>>, 0)>>}
UbiLine(path, name, t, dev, start, inc, count) ==
    [path |-> path, name |-> name, t |-> t, uid |-> 5, gid |-> 6, dev |-> dev, start |-> start, inc |-> inc,
     count |-> count]
UbiDev == <<<<"dev">>>>
UbiTables ==
    LET lines == {UbiLine(<<>>, <<"dev">>, "dir", <<0, 0>>, 0, 0, 0), UbiLine(<<>>, <<"d">>, "dir", <<0, 0>>, 0, 0, 0),
                  UbiLine(<<>>, <<"f">>, "reg", <<0, 0>>, 0, 0, 0), UbiLine(<<>>, <<"d">>, "sock", <<0, 0>>, 0, 0, 0),
                  UbiLine(UbiDev, <<"tty">>, "chr", <<4, 0>>, 0, 0, 0), UbiLine(UbiDev, <<"tty">>, "chr", <<4, 1>>, 1, 1, 2),
                  UbiLine(UbiDev, <<"tty", 1>>, "blk", <<5, 0>>, 0, 0, 0), UbiLine(UbiDev, <<"p">>, "fifo", <<0, 0>>, 0, 1, 0)}
    IN  {<<>>} \cup {<<a>> : a \in lines} \cup {<<a, b>> : a, b \in lines}

UbiNodes ==
    {[i \in 1 .. n |-> [key |-> (i * a) % b, name |-> (i * 7) % 17, len |-> 9 + ((i * c) % 32)]] :
        n \in 1 .. 16, a \in {1, 5}, b \in {4, 17}, c \in {3, 5, 11}}

UbifsGiven == [io : {1, 512}, leb : {15360}, max : {17, 24, 80}, log : {-1, 2, 5}, orph : {-1, 3},
               fanout : {8}, bud : {-1, 1000000}, rp : {100000}, yes : BOOLEAN]
              \cup {[io |-> 8, leb |-> 15360, max |-> 400, log |-> -1, orph |-> 1, fanout |-> 3, bud |-> 237 * 15360, rp |-> 0,
                     yes |-> FALSE],
                    [io |-> -1, leb |-> -1, max |-> -1, log |-> -1, orph |-> -1, fanout |-> 3, bud |-> -1, rp |-> 0,
                     yes |-> FALSE]}
NoVolume == [io |-> 0, leb |-> 0, rsvd |-> 0, mapped |-> {}]
UbifsVolumes == {[io |-> 512, leb |-> 15872, rsvd |-> 26, mapped |-> m] : m \in {{}, {25}}} \cup {NoVolume}
UbifsPlaces == {<<<<"/", "a">>, <<"/", "a", "b">>>>, <<<<"/", "a", "b">>, <<"/", "a">>>>, <<<<"/", "c", "/", "a">>, <<"/", "c">>>>,
                <<<<"/">>, <<"/">>>>, <<<<"/", "c">>, <<"/", "a">>>>}
SumNode(k, len, name, crc) == [k |-> k, len |-> len, name |-> name, crc |-> crc, acc |-> k # "xattr"]
SumNodes ==
    {SumNode("inode", n, 0, TRUE) : n \in {12, 15, 22}} \cup {SumNode("dirent", 13, 1, TRUE), SumNode("dirent", 16, 4, FALSE),
     SumNode("xattr", 12, 0, TRUE), SumNode("xref", 8, 0, TRUE), SumNode("junk", 4, 0, FALSE)}
SumBlock(first) == {<<SumNode("clean", 4, 0, TRUE)>> \o s : s \in {t \in [1 .. 3 -> SumNodes] : t[1] = first}}
SumImages ==
    {<<a, b>> : a \in SumBlock(SumNode("inode", 22, 0, TRUE)),
                b \in {s \in SumBlock(SumNode("dirent", 13, 1, TRUE)) : s[4].k \in {"dirent", "junk"}}}
    \cup {<<>>, <<<<>>>>} \cup {<<s>> : s \in UNION {[1 .. n -> SumNodes \cup {SumNode("clean", 6, 0, TRUE)}] : n \in 1 .. 2}}

RT == INSTANCE Jffs2Image WITH
        JiInputs <- Jffs2Inputs, JiEb <- 48, JiPage <- 16, JiRi <- 12, JiRd <- 8, JiRx <- 8, JiRef
        <- 8, JiCm <- 4, JiMin <- 8, JiMaxSize <- 40, JrImages <- Jffs2Images, JrInf <- 99,
        JrMaxLinks <- 3, JrMaxTurns <- 160
ST == INSTANCE Jffs2Tools WITH
        StImages <- SumImages, StEb <- 72, StSum <- 8, StMarker <- 4, StRi <- 8, StMin <- 4, StCm
        <- 4, StCommands <- {[markers |-> TRUE, given |-> FALSE, padto |-> FALSE], [markers |->
        TRUE, given |-> TRUE, padto |-> TRUE], [markers |-> FALSE, given |-> FALSE, padto |->
        FALSE]}, JdImages <- Jffs2DumpImages, JdPage <- 2, JdOob <- 1, JdOlds <- {0, 8}
JC == INSTANCE Compressors WITH
        JcNames <- <<"zlib", "rtime", "lzo">>, JcPriority <- [zlib |-> 60, rtime |-> 50, lzo |->
        80], JcLzo <- "lzo", JcPieces <- {<<4, 4>>, <<5, 3>>}, JcMaxCalls <- 2, JcMaxOptions <- 2,
        RcInputs <- UNION {[1 .. n -> {"a", "b"}] : n \in 0 .. 7}, RcSpaces <- {5, 7}, RcMaxRun <-
        3, UcLens <- {1, 10, 20}, UcOut <- {4, 5, 10, 12, 16, 20, 21}, UcFavors <- {1, 20, 50},
        UcMin <- 8
JT == INSTANCE Jffs2Tree WITH
        JtHosts <- TreeHosts, JtLines <- TreeLines, JtMaxLines <- 3, JtSquash <- {<<FALSE,
        FALSE>>, <<TRUE, FALSE>>, <<TRUE, TRUE>>}
HT == INSTANCE Containers WITH
        HtKeys <- {"a", "b", "c", "d"}, HtHash <- [a |-> 1, b |-> 3, c |-> 5, d |-> 4], HtPrimes
        <- <<2, 3, 5>>, HtMaxOps <- 8, RbNodes <- 8, RbTwin <- 3
UT == INSTANCE UbifsTree WITH
        UtHosts <- UbiHosts, UtTables <- UbiTables, UtSquash <- BOOLEAN, UtRootIno <- 1,
        UtFirstIno <- 64
UL == INSTANCE UbifsLayout WITH
        UlInputs <- UbiNodes, UlLeb <- 64, UlMinIo <- 32, UlFanouts <- {3, 4}, UlIdx <- 8,
        UlBranch <- 8, UlPad <- 16, UlMinWrite <- 24, UlMaxNode <- 40, UlLog <- 2, UlLptFirst <-
        5, UlLptUsed <- 1, UlLptLast <- 7, UlMainFirst <- 9, UlMaxLebs <- 22
LT == INSTANCE UbifsLpt WITH
        LtShapes <- [leb : {96, 128, 256}, io : {8, 32}, max : {20, 70, 200}, lsave : {4, 16}],
        LtMains <- {1, 4, 5, 16, 17, 23, 64}, LtLptFirst <- 5, LtOverhead <- 6, PbShapes <- {[leb
        |-> 128, io |-> 8, max |-> 30, lsave |-> 4], [leb |-> 15360, io |-> 8, max |-> 300, lsave
        |-> 20], [leb |-> 2097152, io |-> 2048, max |-> 5000, lsave |-> 20]}, PbAll <- 60, PbKinds
        <- {"pnode", "nnode", "ltab", "lsave"}, PbFills <- {"none", "one", "all", "odd"}
UO == INSTANCE UbifsOptions WITH
        UoGiven <- UbifsGiven, UoVolumes <- UbifsVolumes, UoPlaces <- UbifsPlaces, None <-
        NoVolume

Init ==
    \/ tool = "jffs2" /\ RT!RtInit /\ ST!StOff /\ JC!JcOff /\ JC!RcOff /\ ST!JdOff
       /\ JT!JtOff /\ HT!HtOff /\ UT!UtOff /\ UL!UlOff /\ LT!LtOff /\ LT!PbOff /\ JC!UcOff
       /\ UO!UoOff /\ HT!RbOff
    \/ tool = "sumtool" /\ ST!StInit /\ RT!RtOff /\ JC!JcOff /\ JC!RcOff /\ ST!JdOff
       /\ JT!JtOff /\ HT!HtOff /\ UT!UtOff /\ UL!UlOff /\ LT!LtOff /\ LT!PbOff /\ JC!UcOff
       /\ UO!UoOff /\ HT!RbOff
    \/ tool = "jffs2 compressors" /\ JC!JcInit /\ RT!RtOff /\ ST!StOff /\ JC!RcOff
       /\ ST!JdOff /\ JT!JtOff /\ HT!HtOff /\ UT!UtOff /\ UL!UlOff /\ LT!LtOff /\ LT!PbOff
       /\ JC!UcOff /\ UO!UoOff /\ HT!RbOff
    \/ tool = "rtime" /\ JC!RcInit /\ RT!RtOff /\ ST!StOff /\ JC!JcOff /\ ST!JdOff
       /\ JT!JtOff /\ HT!HtOff /\ UT!UtOff /\ UL!UlOff /\ LT!LtOff /\ LT!PbOff /\ JC!UcOff
       /\ UO!UoOff /\ HT!RbOff
    \/ tool = "jffs2dump" /\ ST!JdInit /\ RT!RtOff /\ ST!StOff /\ JC!JcOff /\ JC!RcOff
       /\ JT!JtOff /\ HT!HtOff /\ UT!UtOff /\ UL!UlOff /\ LT!LtOff /\ LT!PbOff /\ JC!UcOff
       /\ UO!UoOff /\ HT!RbOff
    \/ tool = "mkfs.jffs2 tree" /\ JT!JtInit /\ RT!RtOff /\ ST!StOff /\ JC!JcOff
       /\ JC!RcOff /\ ST!JdOff /\ HT!HtOff /\ UT!UtOff /\ UL!UlOff /\ LT!LtOff /\ LT!PbOff
       /\ JC!UcOff /\ UO!UoOff /\ HT!RbOff
    \/ tool = "hashtable" /\ HT!HtInit /\ RT!RtOff /\ ST!StOff /\ JC!JcOff /\ JC!RcOff
       /\ ST!JdOff /\ JT!JtOff /\ UT!UtOff /\ UL!UlOff /\ LT!LtOff /\ LT!PbOff /\ JC!UcOff
       /\ UO!UoOff /\ HT!RbOff
    \/ tool = "mkfs.ubifs tree" /\ UT!UtInit /\ RT!RtOff /\ ST!StOff /\ JC!JcOff
       /\ JC!RcOff /\ ST!JdOff /\ JT!JtOff /\ HT!HtOff /\ UL!UlOff /\ LT!LtOff /\ LT!PbOff
       /\ JC!UcOff /\ UO!UoOff /\ HT!RbOff
    \/ tool = "mkfs.ubifs layout" /\ UL!UlInit /\ RT!RtOff /\ ST!StOff /\ JC!JcOff
       /\ JC!RcOff /\ ST!JdOff /\ JT!JtOff /\ HT!HtOff /\ UT!UtOff /\ LT!LtOff /\ LT!PbOff
       /\ JC!UcOff /\ UO!UoOff /\ HT!RbOff
    \/ tool = "mkfs.ubifs lpt" /\ LT!LtInit /\ RT!RtOff /\ ST!StOff /\ JC!JcOff
       /\ JC!RcOff /\ ST!JdOff /\ JT!JtOff /\ HT!HtOff /\ UT!UtOff /\ UL!UlOff /\ LT!PbOff
       /\ JC!UcOff /\ UO!UoOff /\ HT!RbOff
    \/ tool = "mkfs.ubifs pack" /\ LT!PbInit /\ RT!RtOff /\ ST!StOff /\ JC!JcOff
       /\ JC!RcOff /\ ST!JdOff /\ JT!JtOff /\ HT!HtOff /\ UT!UtOff /\ UL!UlOff /\ LT!LtOff
       /\ JC!UcOff /\ UO!UoOff /\ HT!RbOff
    \/ tool = "mkfs.ubifs compr" /\ JC!UcInit /\ RT!RtOff /\ ST!StOff /\ JC!JcOff
       /\ JC!RcOff /\ ST!JdOff /\ JT!JtOff /\ HT!HtOff /\ UT!UtOff /\ UL!UlOff /\ LT!LtOff
       /\ LT!PbOff /\ UO!UoOff /\ HT!RbOff
    \/ tool = "mkfs.ubifs options" /\ UO!UoInit /\ RT!RtOff /\ ST!StOff /\ JC!JcOff
       /\ JC!RcOff /\ ST!JdOff /\ JT!JtOff /\ HT!HtOff /\ UT!UtOff /\ UL!UlOff /\ LT!LtOff
       /\ LT!PbOff /\ JC!UcOff /\ HT!RbOff
    \/ tool = "rbtree" /\ HT!RbInit /\ RT!RtOff /\ ST!StOff /\ JC!JcOff /\ JC!RcOff
       /\ ST!JdOff /\ JT!JtOff /\ HT!HtOff /\ UT!UtOff /\ UL!UlOff /\ LT!LtOff /\ LT!PbOff
       /\ JC!UcOff /\ UO!UoOff

Next ==
    /\ UNCHANGED tool
    /\ \/ tool = "jffs2" /\ RT!RtNext
          /\ UNCHANGED <<stVars, jcVars, rcVars, jdVars, jtVars, htVars, utVars, ulVars,
                          ltVars, pbVars, ucVars, uoVars, rbVars>>
       \/ tool = "sumtool" /\ ST!StNext
          /\ UNCHANGED <<rtVars, jcVars, rcVars, jdVars, jtVars, htVars, utVars, ulVars,
                          ltVars, pbVars, ucVars, uoVars, rbVars>>
       \/ tool = "jffs2 compressors" /\ JC!JcNext
          /\ UNCHANGED <<rtVars, stVars, rcVars, jdVars, jtVars, htVars, utVars, ulVars,
                          ltVars, pbVars, ucVars, uoVars, rbVars>>
       \/ tool = "rtime" /\ JC!RcNext
          /\ UNCHANGED <<rtVars, stVars, jcVars, jdVars, jtVars, htVars, utVars, ulVars,
                          ltVars, pbVars, ucVars, uoVars, rbVars>>
       \/ tool = "jffs2dump" /\ ST!JdNext
          /\ UNCHANGED <<rtVars, stVars, jcVars, rcVars, jtVars, htVars, utVars, ulVars,
                          ltVars, pbVars, ucVars, uoVars, rbVars>>
       \/ tool = "mkfs.jffs2 tree" /\ JT!JtNext
          /\ UNCHANGED <<rtVars, stVars, jcVars, rcVars, jdVars, htVars, utVars, ulVars,
                          ltVars, pbVars, ucVars, uoVars, rbVars>>
       \/ tool = "hashtable" /\ HT!HtNext
          /\ UNCHANGED <<rtVars, stVars, jcVars, rcVars, jdVars, jtVars, utVars, ulVars,
                          ltVars, pbVars, ucVars, uoVars, rbVars>>
       \/ tool = "mkfs.ubifs tree" /\ UT!UtNext
          /\ UNCHANGED <<rtVars, stVars, jcVars, rcVars, jdVars, jtVars, htVars, ulVars,
                          ltVars, pbVars, ucVars, uoVars, rbVars>>
       \/ tool = "mkfs.ubifs layout" /\ UL!UlNext
          /\ UNCHANGED <<rtVars, stVars, jcVars, rcVars, jdVars, jtVars, htVars, utVars,
                          ltVars, pbVars, ucVars, uoVars, rbVars>>
       \/ tool = "mkfs.ubifs lpt" /\ LT!LtNext
          /\ UNCHANGED <<rtVars, stVars, jcVars, rcVars, jdVars, jtVars, htVars, utVars,
                          ulVars, pbVars, ucVars, uoVars, rbVars>>
       \/ tool = "mkfs.ubifs pack" /\ LT!PbNext
          /\ UNCHANGED <<rtVars, stVars, jcVars, rcVars, jdVars, jtVars, htVars, utVars,
                          ulVars, ltVars, ucVars, uoVars, rbVars>>
       \/ tool = "mkfs.ubifs compr" /\ JC!UcNext
          /\ UNCHANGED <<rtVars, stVars, jcVars, rcVars, jdVars, jtVars, htVars, utVars,
                          ulVars, ltVars, pbVars, uoVars, rbVars>>
       \/ tool = "mkfs.ubifs options" /\ UO!UoNext
          /\ UNCHANGED <<rtVars, stVars, jcVars, rcVars, jdVars, jtVars, htVars, utVars,
                          ulVars, ltVars, pbVars, ucVars, rbVars>>
       \/ tool = "rbtree" /\ HT!RbNext
          /\ UNCHANGED <<rtVars, stVars, jcVars, rcVars, jdVars, jtVars, htVars, utVars,
                          ulVars, ltVars, pbVars, ucVars, uoVars>>

Ended ==
    \/ tool = "jffs2" /\ RT!RtEnded
    \/ tool = "sumtool" /\ st_pc = "exit"
    \/ tool = "jffs2 compressors" /\ jc_pc = "idle"
    \/ tool = "rtime" /\ rc_pc \in {"failed", "exit"}
    \/ tool = "jffs2dump" /\ jd_pc \in {"died", "exit"}
    \/ tool = "mkfs.jffs2 tree" /\ jt_pc \in {"died", "exit"}
    \/ tool = "hashtable" /\ HT!HtEnded
    \/ tool = "mkfs.ubifs tree" /\ ut_pc \in {"failed", "exit"}
    \/ tool = "mkfs.ubifs layout" /\ ul_pc \in {"failed", "exit"}
    \/ tool = "mkfs.ubifs lpt" /\ lt_pc \in {"failed", "exit"}
    \/ tool = "mkfs.ubifs pack" /\ pb_pc = "done"
    \/ tool = "mkfs.ubifs compr" /\ (uc_pc = "done" /\ uc_errs >= 2)
    \/ tool = "mkfs.ubifs options" /\ uo_pc = "exit"
    \/ tool = "rbtree" /\ FALSE

Spec == Init /\ [][Next \/ (Ended /\ UNCHANGED allVars)]_allVars

(* An image of mkfs.jffs2 holds the tree that it was made from: whole      *)
(* files, links and names where they belong, fresh inode numbers, each     *)
(* attribute once, and no node across eraseblocks (mkfs.jffs2.c).          *)
Jffs2Holds ==
    /\ RT!NodesInBlocks /\ RT!LinksShared /\ RT!FilesWhole /\ RT!InosFresh
    /\ RT!TreeInImage /\ RT!XattrsOnce

(* jffs2reader lists of each name the newest entry unless that is a        *)
(* deletion, resolves the paths that it lists, ends where no entry lies    *)
(* right behind padding, and lists what mkfs.jffs2 wrote, where nothing is *)
(* said of the entry of version 0 and what is below it (jffs2reader.c).    *)
Jffs2Reads ==
    /\ RT!ListedByVersion /\ RT!PathsResolve /\ RT!UpLeadsUp /\ RT!ScansBounded
    /\ RT!ListsTheTree

(* sumtool keeps every node and ends each eraseblock with a summary that   *)
(* is true of it (sumtool.c); what jffs2dump counts adds up to the image;  *)
(* its conversion, where no write fails, keeps every node at its place if  *)
(* none is passed over, and done twice gives the image back but for the    *)
(* checksums, with what a longer output file held before behind it         *)
(* (jffs2dump.c).                                                          *)
Jffs2Converts ==
    /\ ST!NodesKept /\ ST!BlocksWhole /\ ST!SummaryTrue /\ ST!DumpAddsUp
    /\ ST!LayoutKept /\ ST!TwiceSame

(* The compressor that is chosen is the best by its mode, in a list that   *)
(* stays sorted, from buffers that are large enough (compr.c); rtime       *)
(* decompresses what it compressed and stays in its space (compr_rtime.c); *)
(* the type that mkfs.ubifs stores tells how to read the data, and lzo is  *)
(* favoured as asked (mkfs.ubifs/compr.c).                                 *)
Compressed ==
    /\ JC!ListSorted /\ JC!BestChosen /\ JC!CallProgress /\ JC!BuffersCover
    /\ JC!RtimeRoundTrip /\ JC!RtimeFits /\ JC!TypeTellsData /\ JC!LzoFavoured

(* The tree that an image is made from is the one of the host changed as   *)
(* the device table says, once per name, and its owners are squashed       *)
(* (mkfs.jffs2.c); what mkfs.ubifs adds to the tree leads somewhere, is    *)
(* shared if it is linked, is counted and owned as it should, the group of *)
(* what the table creates excepted, and comes from the table where the     *)
(* table creates it (mkfs.ubifs.c, devtable.c).                            *)
TreesBuilt ==
    /\ JT!TableDecides /\ JT!HostSquashed /\ JT!NamesOnce /\ UT!SharedIfLinked
    /\ UT!EntriesLead /\ UT!LinksCounted /\ UT!BlocksInPlace /\ UT!CreatedFirst
    /\ UT!NamesOnceInDir /\ UT!AllMade /\ UT!OwnersRight

(* The LEBs that mkfs.ubifs writes can be scanned, their properties are    *)
(* true, the index finds every node and is in order, and every LEB of the  *)
(* image is written (mkfs.ubifs.c).                                        *)
UbifsIndexed ==
    /\ UL!LebsScan /\ UL!LpropsTrue /\ UL!IndexFinds /\ UL!IndexOrdered
    /\ UL!ImageComplete

(* The tree of LEB properties has the size that was planned for it, finds  *)
(* every LEB and describes its own LEBs (mkfs.ubifs/lpt.c); fields of any  *)
(* width read back as they were packed; the areas tile the volume, the log *)
(* suffices, a volume in use is not overwritten and the output is outside  *)
(* of the tree (mkfs.ubifs.c).                                             *)
UbifsSpace ==
    /\ LT!LptFinds /\ LT!LptFits /\ LT!LtabTrue /\ LT!NumbersFit
    /\ LT!FieldsReadBack /\ LT!NodesSized /\ UO!AreasTile /\ UO!LogSuffices
    /\ UO!NotOverwritten /\ UO!OutputOutside

(* The hash table of the device table is a map with a true count that an   *)
(* iteration meets once each (hashtable.c, hashtable_itr.c), and the       *)
(* red-black tree stays linked, ordered and balanced and is walked in      *)
(* order (rbtree.c).                                                       *)
TablesKept ==
    /\ HT!TableIsMap /\ HT!CountTrue /\ HT!IterationOnce /\ HT!RbLinked
    /\ HT!RbOrdered /\ HT!RbBalanced /\ HT!RbWalks
=============================================================================
