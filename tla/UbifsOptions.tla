---------------------------- MODULE UbifsOptions ----------------------------
(***************************************************************************)
(* mkfs.ubifs.c: what is done before and after the image is written - the  *)
(* options and their defaults, the checks, the target (a file or a UBI     *)
(* volume, which may hold something), the areas of the file system.        *)
(* Paths are sequences of characters as realpath returns them.             *)
(***************************************************************************)
EXTENDS LptGeometry, Sequences, SequencesExt

CONSTANTS UoGiven,          \* what is given for -m -e -c -l -p -f -j -R -y: records, -1 where nothing is
          UoVolumes,        \* {None} and volumes [io, leb, rsvd, mapped]
          UoPlaces,         \* <<directory of the output, root directory>>
          None

VARIABLES uo_pc, uo_given, uo_vol, uo_place,
          uo_c,             \* [io, leb, max, log, orph, fanout, bud, rp]
          uo_lnum,          \* of check_volume_empty
          uo_asked,         \* "no", "yes": the answer of the prompt
          uo_wrote,         \* the target was written
          uo_areas          \* [lpt_first, lpt_lebs, main_first, main_lebs]

uoVars == <<uo_pc, uo_given, uo_vol, uo_place, uo_c, uo_lnum, uo_asked, uo_wrote, uo_areas>>
uoIn == <<uo_given, uo_vol, uo_place>>

SbLebs == 1
MstLebs == 2
LogLnum == 3
MinLogLebs == 2
MinOrphLebs == 1
MinFanout == 3
MinLebCnt == 17
MinLebSz == 15360
MaxLebSz == 2097152
RefSz == 64
CsSz == 32
IdxSz == 28
BranchSz == 12
KeyLen == 8
MaxKeyLen == 16
BlockSize == 4096
MaxDataNodeSz == 4144
MaxBuds == 8 * 1024 * 1024

UoOff ==
    /\ uo_pc = "off" /\ uo_given = <<>> /\ uo_vol = None /\ uo_place = <<>> /\ uo_c = <<>> /\ uo_lnum = 0
    /\ uo_asked = "" /\ uo_wrote = FALSE /\ uo_areas = <<>>
UoInit ==
    /\ uo_pc = "options" /\ uo_given \in UoGiven /\ uo_vol \in UoVolumes /\ uo_place \in UoPlaces /\ uo_c = <<>>
    /\ uo_lnum = 0 /\ uo_asked = "" /\ uo_wrote = FALSE /\ uo_areas = <<>>

(* calc_min_log_lebs: a reference for each bud, the commit start node and  *)
(* one LEB more.                                                           *)
CalcMinLogLebs(c, heads) ==
    LET size == RoundUp(RefSz, c.io) * Ceil(c.bud, c.leb) + RoundUp(CsSz + RefSz * (heads + 2), c.io)
    IN  Ceil(size, c.leb) + 1

(* add_space_overhead: the opposite of what the kernel takes off. *)
AddSpaceOverhead(rp, fanout) ==
    LET f == IF fanout > 3 THEN fanout \div 2 ELSE 2
    IN  (rp * (MaxDataNodeSz + ((IdxSz + (BranchSz + KeyLen) * fanout) * 3) \div (f - 1))) \div BlockSize

(* get_options: a UBI volume tells the unit and LEB sizes whatever was     *)
(* given.  (No jhead_cnt and no LPT are known yet: both count as 0.)       *)
Or(x, d) == IF x = -1 THEN d ELSE x
FromTarget(g) == IF uo_vol = None THEN [io |-> g.io, leb |-> g.leb, max |-> g.max]
                 ELSE [io |-> uo_vol.io, leb |-> uo_vol.leb, max |-> Or(g.max, uo_vol.rsvd)]
DefaultBuds(t, log, orph) ==
    LET lebs == t.max - SbLebs - MstLebs - orph - Or(log, MinLogLebs) - MinLptLebs
        eighth == (IF lebs < 0 THEN -((-lebs) \div 8) ELSE lebs \div 8) * t.leb
    IN  Max({Min({eighth, MaxBuds}), 4 * t.leb})
DefaultLog(c) == CalcMinLogLebs(c, 0) + 2
Settled(g) ==
    LET t == FromTarget(g)
        c == [io |-> t.io, leb |-> t.leb, max |-> t.max, orph |-> Or(g.orph, 1), fanout |-> Or(g.fanout, 8),
              bud |-> Or(g.bud, DefaultBuds(t, g.log, Or(g.orph, 1)))]
    IN  [io |-> Max({8, t.io}), leb |-> t.leb, max |-> t.max, orph |-> c.orph, fanout |-> c.fanout, bud |-> c.bud,
         log |-> Or(g.log, DefaultLog(c)), rp |-> AddSpaceOverhead(g.rp, c.fanout)]

(* is_contained: the one path is looked for in the other one. *)
IsContained(file, dir) == \E i \in 1 .. Len(file) - Len(dir) + 1 : SubSeq(file, i, i + Len(dir) - 1) = dir

(* validate_options. *)
Valid(c) ==
    /\ ~IsContained(uo_place[1], uo_place[2])
    /\ \E k \in 0 .. 30 : c.io = 2 ^ k
    /\ c.leb >= c.io /\ c.leb >= MinLebSz /\ c.leb % c.io = 0 /\ c.leb % 8 = 0 /\ c.leb <= MaxLebSz
    /\ c.max >= MinLebCnt
    /\ c.fanout >= MinFanout /\ c.fanout <= (c.leb - IdxSz) \div (BranchSz + MaxKeyLen)
    /\ c.log >= MinLogLebs /\ c.log < c.max - MinLebCnt
    /\ c.orph >= MinOrphLebs /\ c.orph < c.max - MinLebCnt
    /\ SbLebs + MstLebs + c.log + c.orph + 4 <= c.max
    /\ c.log >= CalcMinLogLebs(c, 0)
    /\ c.rp \div c.leb < c.max \div 2
GetOptions ==
    /\ uo_pc = "options"
    /\ LET t == FromTarget(uo_given)
       IN  \/ (t.io = -1 \/ t.leb = -1 \/ t.max = -1) /\ uo_pc' = "exit" /\ UNCHANGED uo_c
           \/ /\ t.io # -1 /\ t.leb # -1 /\ t.max # -1 /\ uo_c' = Settled(uo_given)
              /\ uo_pc' = IF Valid(uo_c') THEN "open" ELSE "exit"
    /\ UNCHANGED <<uoIn, uo_lnum, uo_asked, uo_wrote, uo_areas>>
(* The device table is read last (UbifsTree); it may be refused. *)
BadTable ==
    /\ uo_pc = "options" /\ uo_pc' = "exit" /\ UNCHANGED <<uoIn, uo_c, uo_lnum, uo_asked, uo_wrote, uo_areas>>

(* open_target: a file is emptied; a volume is opened exclusively and      *)
(* looked at LEB by LEB unless -y is given.  An error of the look counts   *)
(* as "not empty".                                                         *)
LooksAt(v) == v.rsvd
OpenTarget ==
    /\ uo_pc = "open"
    /\ \/ uo_vol = None /\ uo_pc' = "init" /\ uo_wrote' = TRUE
       \/ uo_vol # None /\ uo_pc' = (IF uo_given.yes THEN "init" ELSE "look") /\ UNCHANGED uo_wrote
       \/ uo_pc' = "exit" /\ UNCHANGED uo_wrote
    /\ UNCHANGED <<uoIn, uo_c, uo_lnum, uo_asked, uo_areas>>
CheckVolumeEmpty ==
    /\ uo_pc = "look"
    /\ \/ uo_lnum = LooksAt(uo_vol) /\ uo_pc' = "init" /\ UNCHANGED uo_lnum
       \/ uo_lnum < LooksAt(uo_vol) /\ uo_lnum \in uo_vol.mapped /\ uo_pc' = "prompt" /\ UNCHANGED uo_lnum
       \/ uo_lnum < LooksAt(uo_vol) /\ uo_lnum \notin uo_vol.mapped /\ uo_lnum' = uo_lnum + 1 /\ UNCHANGED uo_pc
       \/ uo_lnum < LooksAt(uo_vol) /\ uo_pc' = "prompt" /\ UNCHANGED uo_lnum
    /\ UNCHANGED <<uoIn, uo_c, uo_asked, uo_wrote, uo_areas>>
Prompt ==
    /\ uo_pc = "prompt" /\ uo_asked' \in {"yes", "no"} /\ uo_pc' = IF uo_asked' = "yes" THEN "init" ELSE "exit"
    /\ UNCHANGED <<uoIn, uo_c, uo_lnum, uo_wrote, uo_areas>>

(* init: the areas, one behind the other. *)
BeforeMain(c) == LogLnum + c.log + c.orph
AreaInit ==
    /\ uo_pc = "init"
    /\ LET g == CalcDfltLptGeom([leb |-> uo_c.leb, io |-> uo_c.io, max |-> uo_c.max, lsave |-> 256],
                                uo_c.max - SbLebs - MstLebs - (uo_c.log + uo_c.orph))
       IN  \/ g = NoGeometry /\ uo_pc' = "close" /\ UNCHANGED uo_areas
           \/ /\ g # NoGeometry /\ uo_pc' = "write"
              /\ uo_areas' = [lpt_first |-> LogLnum + uo_c.log, lpt_lebs |-> g.lpt,
                              main_first |-> BeforeMain(uo_c) + g.lpt, main_lebs |-> g.main]
    /\ UNCHANGED <<uoIn, uo_c, uo_lnum, uo_asked, uo_wrote>>

(* write_data ... write_orphan_area (UbifsLayout), all of it or a part. *)
WriteImage ==
    /\ uo_pc = "write" /\ uo_pc' = "close" /\ uo_wrote' = TRUE
    /\ UNCHANGED <<uoIn, uo_c, uo_lnum, uo_asked, uo_areas>>
CloseTarget ==
    /\ uo_pc = "close" /\ uo_pc' = "exit"
    /\ UNCHANGED <<uoIn, uo_c, uo_lnum, uo_asked, uo_wrote, uo_areas>>

UoNext ==
    \/ GetOptions \/ BadTable \/ OpenTarget \/ CheckVolumeEmpty \/ Prompt \/ AreaInit \/ WriteImage \/ CloseTarget

(* The areas of an accepted file system lie one behind the other without   *)
(* a gap and without an overlap - super block, master, log, LPT, orphans,  *)
(* main area - and end with the last LEB; the LPT's size, which is only    *)
(* known after the options were checked, is part of it (init,              *)
(* calc_dflt_lpt_geom).                                                    *)
AreasTile ==
    uo_areas # <<>> =>
        /\ uo_areas.lpt_lebs >= MinLptLebs /\ uo_areas.main_lebs > 0
        /\ uo_areas.lpt_first = SbLebs + MstLebs + uo_c.log
        /\ uo_areas.main_first = uo_areas.lpt_first + uo_areas.lpt_lebs + uo_c.orph
        /\ uo_areas.main_first + uo_areas.main_lebs = uo_c.max

(* A log whose size the program picked has room for what the journal of    *)
(* the image needs, with the journal head it has (jhead_cnt is 1 from init *)
(* on) - the size was picked when the number of heads was not set and the  *)
(* I/O unit not yet rounded up to 8 (get_options, calc_min_log_lebs).      *)
LogSuffices ==
    uo_areas # <<>> /\ uo_given.log = -1 => uo_c.log >= CalcMinLogLebs(uo_c, 1)

(* A UBI volume with any mapped LEB, also one behind those the new file    *)
(* system would use, is only written after -y or a "yes" (open_target,     *)
(* check_volume_empty); and what was refused is never written.             *)
NotOverwritten ==
    uo_wrote /\ uo_vol # None /\ uo_vol.mapped # {} => uo_given.yes \/ uo_asked = "yes"

(* An output that is written does not lie in or below the directory the    *)
(* image is made of (validate_options, is_contained).                      *)
OutputOutside ==
    uo_wrote => LET file == uo_place[1]
                    dir == uo_place[2]
                IN  ~(IsPrefix(dir, file) /\ (Len(file) = Len(dir) \/ dir = <<"/">> \/ file[Len(dir) + 1] = "/"))
=============================================================================
