------------------------------ MODULE Ubinize -------------------------------
(***************************************************************************)
(* iniparser_load (libiniparser.c) and the dictionary it fills             *)
(* (dictionary.c).  A line is a section header, a "key = value", a blank   *)
(* or comment line, or none of these; a key's line may end in a backslash  *)
(* and goes on with the text of the next.                                  *)
(***************************************************************************)
EXTENDS Integers, Sequences, FiniteSets, FiniteSetsExt, SequencesExt

CONSTANTS IniFiles,         \* sequences of [kind, name, val, more]
          DictMinSz,        \* DICTMINSZ
          IniMaxCalls       \* bound on the calls after the load

VARIABLES ini_pc, ini_file, ini_at,
          ini_section, ini_errs,
          ini_last,         \* the continued line so far, <<>> for none
          ini_slot,         \* key, val and hash: a sequence as long as d->size
          ini_n,            \* d->n
          ini_map,          \* what was set: key -> value
          ini_calls

iniVars == <<ini_pc, ini_file, ini_at, ini_section, ini_errs, ini_last, ini_slot, ini_n,
             ini_map, ini_calls>>

Empty == [key |-> <<>>, val |-> <<>>, hash |-> 0]

IniOff ==
    /\ ini_pc = "off" /\ ini_file = <<>> /\ ini_at = 0 /\ ini_section = "" /\ ini_errs = 0
    /\ ini_last = <<>> /\ ini_slot = <<>> /\ ini_n = 0 /\ ini_map = <<>> /\ ini_calls = 0

IniInit ==
    /\ ini_file \in IniFiles
    /\ ini_pc = "loading" /\ ini_at = 1 /\ ini_section = "" /\ ini_errs = 0 /\ ini_last = <<>>
    /\ ini_slot = [i \in 1 .. DictMinSz |-> Empty] /\ ini_n = 0       \* dictionary_new(0)
    /\ ini_map = <<>> /\ ini_calls = 0

(* dictionary_hash: any function will do, keys may share a value. *)
Hash(key) == Len(key)

Slots == DOMAIN ini_slot
SlotsOf(key) ==
    {i \in Slots : ini_slot[i].key # <<>> /\ ini_slot[i].hash = Hash(key) /\ ini_slot[i].key = key}

(* dictionary_get. *)
Get(key, def) ==
    IF SlotsOf(key) = {} THEN def
    ELSE ini_slot[CHOOSE i \in SlotsOf(key) : \A j \in SlotsOf(key) : i <= j].val

(* dictionary_set: replace, or double when full and take the first free    *)
(* slot.                                                                   *)
Grown == IF ini_n = Len(ini_slot) THEN ini_slot \o [i \in 1 .. Len(ini_slot) |-> Empty] ELSE ini_slot
FreeSlot(slot) == CHOOSE i \in DOMAIN slot : /\ slot[i].key = <<>>
                                             /\ \A j \in 1 .. i - 1 : slot[j].key # <<>>

DictSet(key, val) ==
    /\ IF SlotsOf(key) # {}
       THEN /\ ini_slot' = [i \in Slots |-> IF i \in SlotsOf(key) THEN [ini_slot[i] EXCEPT !.val = val]
                                            ELSE ini_slot[i]]
            /\ UNCHANGED ini_n
       ELSE /\ ini_slot' = [Grown EXCEPT ![FreeSlot(Grown)] =
                               [key |-> key, val |-> val, hash |-> Hash(key)]]
            /\ ini_n' = ini_n + 1
    /\ ini_map' = [k \in DOMAIN ini_map \cup {key} |-> IF k = key THEN val ELSE ini_map[k]]

(* dictionary_unset. *)
DictUnset(key) ==
    /\ ini_slot' = [i \in Slots |-> IF i \in SlotsOf(key) THEN Empty ELSE ini_slot[i]]
    /\ ini_n' = ini_n - Cardinality(SlotsOf(key))
    /\ ini_map' = [k \in DOMAIN ini_map \ {key} |-> ini_map[k]]

DictKeep == UNCHANGED <<ini_slot, ini_n, ini_map>>

(* One turn of the loop of iniparser_load.  A result of dictionary_set     *)
(* takes the place of the errors counted so far.                           *)
Line == ini_file[ini_at]

Continued ==
    /\ ini_pc = "loading" /\ ini_at <= Len(ini_file) /\ Line.more
    /\ ini_last' = Append(ini_last, Line)
    /\ ini_at' = ini_at + 1
    /\ DictKeep /\ UNCHANGED <<ini_pc, ini_file, ini_section, ini_errs, ini_calls>>

CountError(errs) == errs + 1

LoadLine ==
    /\ ini_pc = "loading" /\ ini_at <= Len(ini_file) /\ ~Line.more
    /\ LET whole == Append(ini_last, Line)
           first == whole[1]
       IN  /\ CASE first.kind = "section" ->
                      /\ DictSet(<<first.name>>, <<>>)
                      /\ ini_section' = first.name /\ ini_errs' = 0
                [] first.kind = "value" ->
                      /\ DictSet(<<ini_section, first.name>>, [k \in DOMAIN whole |-> whole[k].val])
                      /\ ini_errs' = 0 /\ UNCHANGED ini_section
                [] first.kind = "blank" -> DictKeep /\ UNCHANGED <<ini_section, ini_errs>>
                [] first.kind = "error" ->
                      DictKeep /\ ini_errs' = CountError(ini_errs) /\ UNCHANGED ini_section
    /\ ini_last' = <<>> /\ ini_at' = ini_at + 1
    /\ UNCHANGED <<ini_pc, ini_file, ini_calls>>

LoadEnd ==
    /\ ini_pc = "loading" /\ ini_at > Len(ini_file)
    /\ ini_pc' = IF ini_errs # 0 THEN "null" ELSE "loaded"
    /\ DictKeep /\ UNCHANGED <<ini_file, ini_at, ini_section, ini_errs, ini_last, ini_calls>>

(* The program's own calls: iniparser_set, iniparser_unset. *)
Keys == DOMAIN ini_map \cup {<<"s", "new">>, <<"new">>}
Call ==
    /\ ini_pc = "loaded" /\ ini_calls < IniMaxCalls
    /\ \E key \in Keys : DictSet(key, <<"set">>) \/ DictUnset(key)
    /\ ini_calls' = ini_calls + 1
    /\ UNCHANGED <<ini_pc, ini_file, ini_at, ini_section, ini_errs, ini_last>>

IniNext == Continued \/ LoadLine \/ LoadEnd \/ Call

(* iniparser_getnsec, iniparser_getsecname: the keys without a colon, by   *)
(* slot.                                                                   *)
SectionNames == LET secs == SelectSeq(ini_slot, LAMBDA s : Len(s.key) = 1)
                IN  [k \in DOMAIN secs |-> secs[k].key[1]]

-----------------------------------------------------------------------------
(* Through every growth, replacement and removal the arrays are the map    *)
(* that was asked for: dictionary_get returns for each key what was set    *)
(* last, finds nothing else, and no key has two slots.                     *)
DictIsMap ==
    ini_pc # "off" =>
        /\ \A key \in DOMAIN ini_map : Get(key, <<"none">>) = ini_map[key]
        /\ {ini_slot[i].key : i \in Slots} \subseteq DOMAIN ini_map \cup {<<>>}
        /\ ini_n = Cardinality(DOMAIN ini_map)
        /\ ini_n = Cardinality({i \in Slots : ini_slot[i].key # <<>>})

OwnLine(k) == k = 1 \/ ~ini_file[k - 1].more     \* not the continuation of another

(* The sections are listed in the order in which the file names them       *)
(* first, which is the order ubinize writes its volumes in.                *)
SectionOrder ==
    LET headers(n) == {k \in DOMAIN ini_file : /\ OwnLine(k) /\ ini_file[k].kind = "section"
                                               /\ ini_file[k].name = n}
    IN  ini_pc = "loaded" /\ ini_calls = 0 =>
            \A a, b \in DOMAIN SectionNames :
                a < b => \E k \in headers(SectionNames[a]) :
                             \A j \in headers(SectionNames[b]) : k < j

(* A file with a syntax error after its last good line is refused.  (An    *)
(* error before a good line is forgotten, see errs in iniparser_load.)     *)
LateErrorRefused ==
    ini_pc = "loaded" =>
        \A k \in DOMAIN ini_file :
            ini_file[k].kind = "error" /\ OwnLine(k) =>
                \E j \in k + 1 .. Len(ini_file) :
                    OwnLine(j) /\ ini_file[j].kind \in {"section", "value"}

-----------------------------------------------------------------------------
(***************************************************************************)
(* ubinize.c with libubigen.c: an UBI image from the sections of an ini    *)
(* file.  A byte of an image file is its offset; the headers of a physical *)
(* eraseblock are the fields the attach code of UBI relies on.             *)
(***************************************************************************)

CONSTANTS UnLeb,            \* leb_size
          UnMaxVols,        \* max_volumes
          UnInputs          \* sequences of [mode, type, img, id, size, name, align, flags]

VARIABLES un_pc, un_in,
          un_i,             \* the section at hand
          un_vi,            \* the ubigen_vol_info of the sections so far
          un_vtbl,          \* the volume table: ID -> record or NoRec
          un_auto,          \* autoresize_was_already
          un_out,           \* PEB -> [vol, lnum, from, len, used, vtbl], a sequence from PEB 2 on
          un_layout,        \* PEBs 0 and 1
          un_left, un_lnum, \* ubigen_write_volume: bytes left, LEB number
          un_exists, un_status

unVars == <<un_pc, un_in, un_i, un_vi, un_vtbl, un_auto, un_out, un_layout, un_left, un_lnum,
            un_exists, un_status>>

NoRec == [reserved |-> 0, align |-> 0, pad |-> 0, type |-> "", name |-> ""]
Zeroed == [id |-> 0, type |-> "", bytes |-> 0, name |-> "", align |-> 0, auto |-> FALSE,
           usable |-> 0, used |-> 0, img |-> 0]

UnOff ==
    /\ un_pc = "off" /\ un_in = <<>> /\ un_i = 0 /\ un_vi = <<>> /\ un_vtbl = <<>>
    /\ un_auto = FALSE /\ un_out = <<>> /\ un_layout = <<>> /\ un_left = 0 /\ un_lnum = 0
    /\ un_exists = FALSE /\ un_status = -1

(* parse_opt opens the output, main creates an empty volume table. *)
UnInit ==
    /\ un_in \in UnInputs
    /\ un_pc = "sections" /\ un_i = 1 /\ un_vi = <<>>
    /\ un_vtbl = [v \in 0 .. UnMaxVols - 1 |-> NoRec]
    /\ un_auto = FALSE /\ un_out = <<>> /\ un_layout = <<>> /\ un_left = 0 /\ un_lnum = 0
    /\ un_exists = TRUE /\ un_status = -1

UnKeepFile == UNCHANGED <<un_out, un_layout>>
UnKeepVol == UNCHANGED <<un_vi, un_vtbl, un_auto, un_left, un_lnum>>

(* The labels out_free .. out: the output is removed, err is returned. *)
Out(err) == un_pc' = "exit" /\ un_exists' = FALSE /\ un_status' = err

(* lines 490-508: no section, or more than volumes; err is still 0. *)
Sections ==
    /\ un_pc = "sections"
    /\ IF Len(un_in) = 0 \/ Len(un_in) > UnMaxVols THEN Out(0)
       ELSE un_pc' = "section" /\ UNCHANGED <<un_exists, un_status>>
    /\ UnKeepFile /\ UnKeepVol /\ UNCHANGED <<un_in, un_i>>

(* read_section: the checks, and the record it fills.  img = 0: no image,  *)
(* size, align = -1: no such key.                                          *)
Refused(s) ==
    \/ s.mode = "" \/ (s.type \notin {"", "static", "dynamic"})
    \/ s.type = "static" /\ s.img = 0
    \/ s.id < 0 \/ s.id >= UnMaxVols
    \/ s.size = 0 \/ (s.size > 0 /\ s.img > s.size) \/ (s.size = -1 /\ s.img = 0)
    \/ s.name = "" \/ (s.flags \notin {"", "autoresize"})

VolSize(s) == IF s.size = -1 THEN s.img ELSE s.size
AlignOf(s) == IF s.align = -1 THEN 1 ELSE s.align
UsableAll(align) == UnLeb           \* mutant: the padding is not taken off
Usable(align) == UnLeb - (UnLeb % align)
Ebs(bytes, leb) == (bytes + leb - 1) \div leb

Described(s) ==
    LET usable == Usable(AlignOf(s)) IN
    [id |-> s.id, type |-> IF s.type = "" THEN "dynamic" ELSE s.type, bytes |-> VolSize(s),
     name |-> s.name, align |-> AlignOf(s), auto |-> s.flags = "autoresize", usable |-> usable,
     used |-> Ebs(IF s.type = "static" THEN s.img ELSE VolSize(s), usable), img |-> s.img]

(* One section up to ubigen_add_volume.  A section of another mode returns *)
(* 1, which main takes for a success: its record stays zeroed.  A zero     *)
(* alignment divides by zero, and the name of a zeroed record is NULL.     *)
SameVolume(a, b) == a.id = b.id
Clash(vi) == \E j \in DOMAIN un_vi : SameVolume(vi, un_vi[j]) \/ vi.name = un_vi[j].name

Crash == un_pc' = "crash" /\ UNCHANGED <<un_exists, un_status>>

Reserved(bytes) == Ebs(bytes, UnLeb)
AddRecord(vi) ==                    \* ubigen_add_volume
    [un_vtbl EXCEPT ![vi.id] = [reserved |-> Reserved(vi.bytes), align |-> vi.align,
                                pad |-> UnLeb % vi.align, type |-> vi.type, name |-> vi.name]]

Section ==
    /\ un_pc = "section" /\ un_i <= Len(un_in)
    /\ LET s == un_in[un_i]
           skipped == s.mode \notin {"", "ubi"}
           vi == IF skipped THEN Zeroed ELSE Described(s)
           same == un_vi # <<>> /\ SameVolume(vi, un_vi[1])     \* compared first
       IN  IF ~skipped /\ Refused(s)
           THEN Out(-1) /\ UnKeepVol
           ELSE IF (~skipped /\ s.align = 0) \/ (skipped /\ ~same) THEN Crash /\ UnKeepVol
           ELSE IF Clash(vi) THEN Out(IF skipped THEN 1 ELSE 0) /\ UnKeepVol
           ELSE IF vi.auto /\ un_auto                   \* returns at once
           THEN un_pc' = "exit" /\ un_status' = -1 /\ UNCHANGED un_exists /\ UnKeepVol
           ELSE IF vi.align >= UnLeb THEN Out(-1) /\ UnKeepVol
           ELSE /\ un_vi' = Append(un_vi, vi) /\ un_vtbl' = AddRecord(vi)
                /\ un_auto' = (un_auto \/ vi.auto)
                /\ un_left' = vi.img /\ un_lnum' = 0
                /\ un_pc' = "volume" /\ UNCHANGED <<un_exists, un_status>>
    /\ UnKeepFile /\ UNCHANGED <<un_in, un_i>>

(* ubigen_write_volume: one PEB.  The read or the write may fall short; an *)
(* image that cannot be opened any more ends with err = 0.                 *)
VidHdr(vi, lnum, from, len) ==
    [vol |-> vi.id, lnum |-> lnum, from |-> from, len |-> len,
     used |-> IF vi.type = "static" THEN vi.used ELSE 0]

WriteLeb ==
    /\ un_pc = "volume" /\ un_left > 0
    /\ LET vi == un_vi[un_i]
           len == Min({un_left, vi.usable})
       IN  \/ /\ un_out' = Append(un_out, VidHdr(vi, un_lnum, vi.img - un_left, len))
              /\ un_left' = un_left - len /\ un_lnum' = un_lnum + 1
              /\ UNCHANGED <<un_pc, un_exists, un_status>>
           \/ Out(-1) /\ UNCHANGED <<un_out, un_left, un_lnum>>
           \/ un_lnum = 0 /\ Out(0) /\ UNCHANGED <<un_out, un_left, un_lnum>>
    /\ UNCHANGED <<un_in, un_i, un_vi, un_vtbl, un_auto, un_layout>>

NextSection ==
    /\ un_pc = "volume" /\ un_left = 0
    /\ un_i' = un_i + 1 /\ un_pc' = "section"
    /\ UnKeepFile /\ UnKeepVol /\ UNCHANGED <<un_in, un_exists, un_status>>

(* ubigen_write_layout_vol: two copies, in PEBs 0 and 1. *)
Layout ==
    /\ un_pc = "section" /\ un_i > Len(un_in)
    /\ \/ /\ un_layout' = <<[lnum |-> 0, vtbl |-> un_vtbl], [lnum |-> 1, vtbl |-> un_vtbl]>>
          /\ un_pc' = "exit" /\ un_status' = 0 /\ UNCHANGED un_exists
       \/ /\ \E n \in 0 .. 1 : un_layout' = SubSeq(<<[lnum |-> 0, vtbl |-> un_vtbl]>>, 1, n)
          /\ Out(-1)
    /\ UnKeepVol /\ UNCHANGED <<un_in, un_i, un_out>>

UnNext == Sections \/ Section \/ WriteLeb \/ NextSection \/ Layout

-----------------------------------------------------------------------------
Written == un_pc = "exit" /\ un_exists /\ un_status = 0

LebsOf(id) == {p \in DOMAIN un_out : un_out[p].vol = id}

(* An image ubinize leaves with status 0 reads back, as UBI attaches it,   *)
(* as what the ini file describes: two whole layout copies, each volume's  *)
(* LEBs numbered from 0 without a gap or a double, none longer than the    *)
(* volume's usable LEB, and together the bytes of the image file; a static *)
(* volume's used_ebs is their number.                                      *)
ImageReadsBack ==
    Written =>
        /\ Len(un_layout) = 2 /\ un_layout[1].vtbl = un_layout[2].vtbl
        /\ \A k \in DOMAIN un_in :
              LET s == un_in[k]
                  rec == un_layout[1].vtbl[s.id]
                  mine == LebsOf(s.id)
                  usable == UnLeb - (UnLeb % rec.align)
              IN  /\ rec.name = s.name /\ rec.align = (IF s.align = -1 THEN 1 ELSE s.align)
                  /\ {un_out[p].lnum : p \in mine} = 0 .. Cardinality(mine) - 1
                  /\ \A p \in mine : un_out[p].from = un_out[p].lnum * usable
                                     /\ un_out[p].len <= usable
                  /\ MapThenSumSet(LAMBDA p : un_out[p].len, mine) = s.img
                  /\ s.type = "static" => \A p \in mine : un_out[p].used = Cardinality(mine)

(* No volume has more LEBs in the image than physical eraseblocks reserved *)
(* in its record, when its alignment divides the LEB size.  (With padding  *)
(* it may: reserved_pebs is computed from the whole LEB size.)             *)
ReservedCovers ==
    Written =>
        \A k \in DOMAIN un_in :
            LET rec == un_layout[1].vtbl[un_in[k].id] IN
            rec.pad = 0 => Cardinality(LebsOf(un_in[k].id)) <= rec.reserved

(* A run that does not complete the image leaves no file behind, but for   *)
(* the return at a second autoresize flag.                                 *)
NoHalfImage ==
    un_pc = "exit" /\ un_exists =>
        \/ Len(un_layout) = 2 /\ un_i > Len(un_in)
        \/ un_auto /\ un_in[un_i].flags = "autoresize"
=============================================================================
