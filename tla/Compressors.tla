---------------------------- MODULE Compressors -----------------------------
(***************************************************************************)
(* compr.c: the compressors of mkfs.jffs2, the choice among them for each  *)
(* piece of data, and their buffers.  A compressor that succeeds has       *)
(* stored d bytes of data in c bytes, c within the space it was given; it  *)
(* may be any compressor that keeps to this.                               *)
(***************************************************************************)
EXTENDS Integers, Sequences, FiniteSets, FiniteSetsExt, SequencesExt

CONSTANTS JcNames,          \* the compressors, in the order of registration
          JcPriority,       \* the priority each registers with
          JcLzo,            \* the one that is LZO
          JcPieces,         \* <<datalen, cdatalen>> of the calls
          JcMaxCalls, JcMaxOptions

VARIABLES jc_pc,
          jc_mode, jc_check,
          jc_list,          \* jffs2_compressor_list
          jc_prio, jc_disabled,
          jc_alloc,         \* bytes allocated for compr_buf, -1 for none
          jc_size,          \* compr_buf_size
          jc_left,          \* compressors the loop of the call has still to try
          jc_piece, jc_best, jc_res,
          jc_tried,         \* the outcomes of this call
          jc_short,         \* a compressor was given less memory than it may fill
          jc_calls, jc_options

jcBuffers == <<jc_alloc, jc_size>>
jcList == <<jc_list, jc_prio, jc_disabled>>
jcVars == <<jc_pc, jc_mode, jc_check, jcList, jcBuffers, jc_left, jc_piece, jc_best,
            jc_res, jc_tried, jc_short, jc_calls, jc_options>>

Names == {JcNames[i] : i \in DOMAIN JcNames}
None == [who |-> "none", d |-> 0, c |-> 0]

JcOff ==
    /\ jc_pc = "off" /\ jc_mode = "" /\ jc_check = 0 /\ jc_list = <<>> /\ jc_prio = <<>>
    /\ jc_disabled = {} /\ jc_alloc = <<>> /\ jc_size = <<>>
    /\ jc_left = <<>> /\ jc_piece = <<>> /\ jc_best = None /\ jc_res = None /\ jc_tried = {} /\ jc_short = FALSE
    /\ jc_calls = 0 /\ jc_options = 0

(* The place of a compressor in the list: before the first of a lower      *)
(* priority.                                                               *)
Inserted(list, prio, n) ==
    LET at == {i \in DOMAIN list : prio[list[i]] < prio[n]}
    IN  IF at = {} THEN Append(list, n) ELSE InsertAt(list, Min(at), n)

(* jffs2_register_compressor, in jffs2_compressors_init. *)
JcInit ==
    /\ jc_pc = "options" /\ jc_mode = "priority" /\ jc_check = 0
    /\ jc_prio = JcPriority /\ jc_disabled = {JcLzo}
    /\ jc_list = FoldLeft(LAMBDA l, n : Inserted(l, JcPriority, n), <<>>, JcNames)
    /\ jc_alloc = [n \in Names |-> -1] /\ jc_size = [n \in Names |-> 0]
    /\ jc_left = <<>> /\ jc_piece = <<>> /\ jc_best = None /\ jc_res = None /\ jc_tried = {} /\ jc_short = FALSE
    /\ jc_calls = 0 /\ jc_options = 0

(* The options -m, -x, -X, -t and -y. *)
SetMode ==
    /\ \E m \in {"none", "priority", "size", "favourlzo"} : jc_mode' = m
    /\ UNCHANGED <<jc_check, jcList>>
SetCheck == jc_check' = 1 /\ UNCHANGED <<jc_mode, jcList>>
Xable ==
    /\ \E n \in Names : jc_disabled' \in {jc_disabled \cup {n}, jc_disabled \ {n}}
    /\ UNCHANGED <<jc_mode, jc_check, jc_list, jc_prio>>
SetPriority ==
    /\ \E n \in Names, p \in {0, 55, 95} :
          LET prio == [jc_prio EXCEPT ![n] = p]
          IN  jc_prio' = prio /\ jc_list' = Inserted(Remove(jc_list, n), prio, n)
    /\ UNCHANGED <<jc_mode, jc_check, jc_disabled>>
Option ==
    /\ jc_pc = "options" /\ jc_options < JcMaxOptions
    /\ SetMode \/ SetCheck \/ Xable \/ SetPriority
    /\ jc_options' = jc_options + 1
    /\ UNCHANGED <<jc_pc, jcBuffers, jc_left, jc_piece, jc_best, jc_res, jc_tried, jc_short, jc_calls>>

(* jffs2_compress: the start of a call. *)
Call ==
    /\ jc_pc \in {"options", "idle"} /\ jc_calls < JcMaxCalls
    /\ \E p \in JcPieces : jc_piece' = p
    /\ jc_left' = IF jc_mode = "none" THEN <<>> ELSE SelectSeq(jc_list, LAMBDA n : n \notin jc_disabled)
    /\ jc_best' = None /\ jc_res' = None /\ jc_tried' = {}
    /\ jc_calls' = jc_calls + 1 /\ jc_pc' = "try"
    /\ UNCHANGED <<jc_mode, jc_check, jcList, jcBuffers, jc_short, jc_options>>

Slen == jc_piece[1]
Dlen == jc_piece[2]
Outcomes == {o \in {[d |-> d, c |-> c] : d \in {Slen, Slen - 1}, c \in 1 .. Dlen} : o.c <= o.d}

(* jffs2_is_best_compression. *)
BestBySize(this, best) == this.c < best.c
IsBest(this, best) ==
    IF jc_mode = "size" THEN BestBySize(this, best)
    ELSE \/ BestBySize(this, best) /\ (this.who = JcLzo \/ best.who # JcLzo)
         \/ this.who = JcLzo /\ best.c > (this.c * 80) \div 100
         \/ (best.c * 80) \div 100 > this.c

Shrinks(o) == o.c < o.d
Chosen(this) == IF (jc_best = None \/ IsBest(this, jc_best)) /\ Shrinks(this) THEN this ELSE jc_best

(* The buffer of a compressor in the modes that compare: one that is too   *)
(* small is replaced.  An allocation may fail.                             *)
Needed == (IF jc_mode = "favourlzo" THEN Slen ELSE Dlen) + jc_check
KeepSmall(n) == jc_alloc[n] = -1            \* mutant: a small buffer is kept
Replaced(n) == jc_alloc[n] = -1 \/ jc_size[n] < Needed

This == Head(jc_left)
Compare(o) ==
    /\ jc_best' = Chosen([who |-> This, d |-> o.d, c |-> o.c])
    /\ jc_tried' = jc_tried \cup {[who |-> This, d |-> o.d, c |-> o.c]}
TryCompare ==
    /\ jc_pc = "try" /\ jc_mode \in {"size", "favourlzo"} /\ jc_left # <<>>
    /\ \E memory \in BOOLEAN :
          LET fresh == Replaced(This)
              works == memory \/ ~fresh
          IN  /\ jc_alloc' = [jc_alloc EXCEPT ![This] = IF ~fresh THEN @ ELSE IF memory THEN Needed ELSE -1]
              /\ jc_size' = [jc_size EXCEPT ![This] = IF ~fresh THEN @ ELSE IF memory THEN Dlen ELSE 0]
              /\ jc_short' = (jc_short \/ (works /\ jc_alloc'[This] < Max({Dlen, jc_size'[This] + jc_check})))
              /\ \/ works /\ \E o \in Outcomes : Compare(o)
                 \/ UNCHANGED <<jc_best, jc_tried>>
    /\ jc_left' = Tail(jc_left)
    /\ UNCHANGED <<jc_pc, jc_mode, jc_check, jcList, jc_piece, jc_res, jc_calls, jc_options>>

(* By priority: the first that succeeds. *)
TryPriority ==
    /\ jc_pc = "try" /\ jc_mode = "priority" /\ jc_left # <<>>
    /\ \/ /\ \E o \in Outcomes : jc_best' = [who |-> This, d |-> o.d, c |-> o.c]
          /\ UNCHANGED jc_tried
          /\ jc_left' = <<>>
       \/ UNCHANGED <<jc_best, jc_tried>> /\ jc_left' = Tail(jc_left)
    /\ UNCHANGED <<jc_pc, jc_mode, jc_check, jcList, jcBuffers, jc_piece, jc_res, jc_short, jc_calls, jc_options>>

(* The end of the call: the buffer of the best is handed to the caller, or *)
(* the data is stored as it is, as much as *cdatalen says: the space there *)
(* is, or what a compressor that did not get below its input left there.   *)
Return ==
    /\ jc_pc = "try" /\ jc_left = <<>>
    /\ IF jc_best = None
       THEN \E len \in {Dlen} \cup {o.c : o \in jc_tried} : jc_res' = [who |-> "none", d |-> len, c |-> len]
       ELSE jc_res' = jc_best
    /\ IF jc_best # None /\ jc_mode # "priority"
       THEN /\ jc_alloc' = [jc_alloc EXCEPT ![jc_best.who] = -1]
            /\ jc_size' = [jc_size EXCEPT ![jc_best.who] = 0]
       ELSE UNCHANGED jcBuffers
    /\ jc_pc' = "idle"
    /\ UNCHANGED <<jc_mode, jc_check, jcList, jc_left, jc_piece, jc_best, jc_tried, jc_short, jc_calls, jc_options>>

JcNext == Option \/ Call \/ TryCompare \/ TryPriority \/ Return

-----------------------------------------------------------------------------
(* The list stays sorted by priority through every -y, so that the first   *)
(* compressor tried is one of the greatest priority that is enabled.       *)
ListSorted ==
    jc_pc # "off" =>
        /\ {jc_list[i] : i \in DOMAIN jc_list} = Names /\ Len(jc_list) = Cardinality(Names)
        /\ \A i, j \in DOMAIN jc_list : i < j => jc_prio[jc_list[i]] >= jc_prio[jc_list[j]]

(* By size, the result is a smallest of all outcomes that shrink.  With    *)
(* LZO favoured, and an outcome of LZO that shrinks, whatever the order of *)
(* the compressors: the result is LZO's only if no other is below 80 per   *)
(* cent of it, rounded down, and another's only if that is no more than    *)
(* these 80 per cent and is a smallest (jffs2_is_best_compression).        *)
BestChosen ==
    jc_pc = "idle" =>
        LET good == {o \in jc_tried : Shrinks(o)}
            lzo == {o \in good : o.who = JcLzo}
        IN  /\ jc_mode = "size" /\ good # {} => jc_res \in good /\ \A o \in good : jc_res.c <= o.c
            /\ jc_mode = "favourlzo" /\ lzo # {} =>
                  /\ jc_res \in good
                  /\ IF jc_res.who = JcLzo THEN \A o \in good : o.c >= (jc_res.c * 80) \div 100
                     ELSE /\ \A l \in lzo : jc_res.c <= (l.c * 80) \div 100
                          /\ \A o \in good : jc_res.c <= o.c

(* A call stores at least a byte, no more than it was given room for, and  *)
(* less than the data itself where it was chosen for its size: the loop of *)
(* write_regular_file comes to the end of the file.                        *)
CallProgress ==
    jc_pc = "idle" => /\ jc_res.c <= Dlen /\ jc_res.d >= 1 /\ jc_res.d <= Slen
                      /\ jc_res.who # "none" /\ jc_mode # "priority" => jc_res.c < jc_res.d

(* Every buffer, kept from an earlier call or new, takes what its          *)
(* compressor may store and what jffs2_decompression_test_prepare writes.  *)
BuffersCover == ~jc_short

-----------------------------------------------------------------------------
(***************************************************************************)
(* compr_rtime.c: a byte and the length of the run that follows it as it   *)
(* did where the byte occurred last, compressed and decompressed.          *)
(***************************************************************************)

CONSTANTS RcInputs,         \* sequences of bytes
          RcSpaces,         \* *dstlen
          RcMaxRun          \* 255

VARIABLES rc_pc, rc_in,
          rc_space,
          rc_out,           \* cpage_out of the compressor: <<byte, run>> pairs
          rc_pos,           \* pos, from 0
          rc_last,          \* positions
          rc_read,          \* pairs the decompressor has read
          rc_dec            \* its cpage_out

rcVars == <<rc_pc, rc_in, rc_space, rc_out, rc_pos, rc_last, rc_read, rc_dec>>

Bytes == {"a", "b"}
RcOff == /\ rc_pc = "off" /\ rc_in = <<>> /\ rc_space = 0 /\ rc_out = <<>> /\ rc_pos = 0
         /\ rc_last = [b \in Bytes |-> 0] /\ rc_read = 0 /\ rc_dec = <<>>
RcInit == /\ rc_pc = "compress" /\ rc_in \in RcInputs /\ rc_space \in RcSpaces /\ rc_out = <<>>
          /\ rc_pos = 0 /\ rc_last = [b \in Bytes |-> 0] /\ rc_read = 0 /\ rc_dec = <<>>

(* The bytes from pos on that equal those from back on, the last of which  *)
(* lies before pos at first; both move on.                                 *)
RECURSIVE Run(_, _, _)
Run(back, pos, n) ==
    IF back < pos /\ pos < Len(rc_in) /\ n < RcMaxRun /\ rc_in[pos + 1] = rc_in[back + 1]
    THEN Run(back + 1, pos + 1, n + 1) ELSE n

RunFrom(last, pos) == Run(last, pos, 0)

Outpos == 2 * Len(rc_out)
CompressByte ==
    /\ rc_pc = "compress" /\ rc_pos < Len(rc_in) /\ Outpos + 2 <= rc_space
    /\ LET value == rc_in[rc_pos + 1]
           run == RunFrom(rc_last[value], rc_pos + 1)
       IN  /\ rc_out' = Append(rc_out, <<value, run>>)
           /\ rc_last' = [rc_last EXCEPT ![value] = rc_pos + 1]
           /\ rc_pos' = rc_pos + 1 + run
    /\ UNCHANGED <<rc_pc, rc_in, rc_space, rc_read, rc_dec>>

CompressEnd ==
    /\ rc_pc = "compress" /\ (rc_pos >= Len(rc_in) \/ Outpos + 2 > rc_space)
    /\ rc_pc' = IF Outpos >= rc_pos THEN "failed" ELSE "decompress"
    /\ rc_last' = [b \in Bytes |-> 0]
    /\ UNCHANGED <<rc_in, rc_space, rc_out, rc_pos, rc_read, rc_dec>>

(* The pair is read after the one before it; the run is copied byte by     *)
(* byte where it reaches into itself.                                      *)
RECURSIVE ByteByByte(_, _, _)
ByteByByte(dec, back, n) ==
    IF n = 0 THEN dec ELSE ByteByByte(Append(dec, dec[back + 1]), back + 1, n - 1)
Copied(dec, back, n) ==
    IF back + n >= Len(dec) THEN ByteByByte(dec, back, n) ELSE dec \o SubSeq(dec, back + 1, back + n)

DecompressPair ==
    /\ rc_pc = "decompress" /\ Len(rc_dec) < rc_pos
    /\ LET p == rc_out[rc_read + 1]
           dec == Append(rc_dec, p[1])
       IN  /\ rc_dec' = Copied(dec, rc_last[p[1]], p[2])
           /\ rc_last' = [rc_last EXCEPT ![p[1]] = Len(dec)]
    /\ rc_read' = rc_read + 1
    /\ UNCHANGED <<rc_pc, rc_in, rc_space, rc_out, rc_pos>>
DecompressEnd ==
    /\ rc_pc = "decompress" /\ Len(rc_dec) >= rc_pos
    /\ rc_pc' = "exit"
    /\ UNCHANGED <<rc_in, rc_space, rc_out, rc_pos, rc_last, rc_read, rc_dec>>

RcNext == CompressByte \/ CompressEnd \/ DecompressPair \/ DecompressEnd

-----------------------------------------------------------------------------
(* What was compressed, all or as much as fitted, is what decompression    *)
(* gives back, runs that overlap themselves and runs of the greatest       *)
(* length included.                                                        *)
RtimeRoundTrip == rc_pc = "exit" => rc_dec = SubSeq(rc_in, 1, rc_pos)

(* The compressor stays within the data and within its space, and calls    *)
(* its work a success only if it is smaller.                               *)
RtimeFits ==
    rc_pc # "off" => /\ Outpos <= rc_space /\ rc_pos <= Len(rc_in)
                     /\ rc_pc \in {"decompress", "exit"} => Outpos < rc_pos

-----------------------------------------------------------------------------
(***************************************************************************)
(* mkfs.ubifs/compr.c: compress_data for one block, with one compressor or *)
(* with both and LZO preferred.  A compressor (external) fails, which may  *)
(* leave part of its output in the buffer, or returns a length.            *)
(***************************************************************************)

CONSTANTS UcLens, UcOut,    \* input lengths; lengths a compressor may return
          UcFavors,         \* c->favor_percent
          UcMin             \* UBIFS_MIN_COMPR_LEN

VARIABLES uc_pc, uc_len, uc_type, uc_favor, uc_percent,
          uc_lzo, uc_zlib,  \* lengths, -1: failed, -2: not called
          uc_out,           \* [k, len]: what is in out_buf
          uc_zbuf,          \* what is in zlib_buf, kept between blocks
          uc_ret, uc_retlen, uc_errs

ucVars == <<uc_pc, uc_len, uc_type, uc_favor, uc_percent, uc_lzo, uc_zlib, uc_out, uc_zbuf, uc_ret, uc_retlen, uc_errs>>
ucOpts == <<uc_len, uc_type, uc_favor, uc_percent>>

Rubbish == [k |-> "rubbish", len |-> 0]
Held(k, len) == [k |-> k, len |-> len]

UcOff ==
    /\ uc_pc = "off" /\ uc_len = 0 /\ uc_type = "" /\ uc_favor = FALSE /\ uc_percent = 0 /\ uc_lzo = -2 /\ uc_zlib = -2
    /\ uc_out = Rubbish /\ uc_zbuf = Rubbish /\ uc_ret = "" /\ uc_retlen = 0 /\ uc_errs = 0

(* init_compression; the options. *)
UcInit ==
    /\ uc_pc = "start" /\ uc_len \in UcLens /\ uc_type \in {"lzo", "zlib", "none"} /\ uc_favor \in BOOLEAN
    /\ uc_percent \in UcFavors /\ uc_lzo = -2 /\ uc_zlib = -2 /\ uc_out = Rubbish /\ uc_zbuf = Rubbish
    /\ uc_ret = "" /\ uc_retlen = 0 /\ uc_errs = 0

(* no_compress; and the end of compress_data: what failed or did not get   *)
(* smaller is stored plain.                                                *)
NoCompress ==
    uc_out' = Held("none", uc_len) /\ uc_retlen' = uc_len /\ uc_ret' = "none"
Stored(type, len, buf) ==
    IF len = -1 \/ len >= uc_len THEN NoCompress ELSE uc_ret' = type /\ uc_retlen' = len /\ uc_out' = buf

Start ==
    /\ uc_pc = "start"
    /\ \/ uc_len < UcMin /\ NoCompress /\ uc_pc' = "done"
       \/ uc_len >= UcMin /\ uc_favor /\ uc_pc' = "lzo" /\ UNCHANGED <<uc_out, uc_ret, uc_retlen>>
       \/ uc_len >= UcMin /\ ~uc_favor /\ uc_type # "none" /\ uc_pc' = uc_type /\ UNCHANGED <<uc_out, uc_ret, uc_retlen>>
       \/ uc_len >= UcMin /\ ~uc_favor /\ uc_type = "none" /\ NoCompress /\ uc_pc' = "done"
    /\ UNCHANGED <<ucOpts, uc_lzo, uc_zlib, uc_zbuf, uc_errs>>

(* lzo_compress, into out_buf. *)
Lzo ==
    /\ uc_pc = "lzo" /\ uc_lzo' \in UcOut \cup {-1}
    /\ uc_out' = IF uc_lzo' = -1 THEN Rubbish ELSE Held("lzo", uc_lzo')
    /\ uc_errs' = uc_errs + (IF uc_lzo' = -1 THEN 1 ELSE 0)
    /\ uc_pc' = IF uc_favor THEN "zlib" ELSE "finish"
    /\ UNCHANGED <<ucOpts, uc_zlib, uc_zbuf, uc_ret, uc_retlen>>

(* zlib_deflate, into zlib_buf when both are tried. *)
Zlib ==
    /\ uc_pc = "zlib" /\ uc_zlib' \in UcOut \cup {-1}
    /\ LET r == IF uc_zlib' = -1 THEN Rubbish ELSE Held("zlib", uc_zlib')
       IN  IF uc_favor THEN uc_zbuf' = r /\ UNCHANGED uc_out ELSE uc_out' = r /\ UNCHANGED uc_zbuf
    /\ uc_errs' = uc_errs + (IF uc_zlib' = -1 THEN 1 ELSE 0)
    /\ uc_pc' = IF uc_favor THEN "choose" ELSE "finish"
    /\ UNCHANGED <<ucOpts, uc_lzo, uc_ret, uc_retlen>>

Finish ==
    /\ uc_pc = "finish" /\ uc_pc' = "done"
    /\ Stored(uc_type, IF uc_type = "lzo" THEN uc_lzo ELSE uc_zlib, uc_out)
    /\ UNCHANGED <<ucOpts, uc_lzo, uc_zlib, uc_zbuf, uc_errs>>

(* favor_lzo_compress: ZLIB only where LZO failed or ZLIB is smaller by    *)
(* favor_percent.                                                          *)
LzoGoodEnough(lzo, zlib) == lzo <= zlib \/ zlib * 100 > (100 - uc_percent) * lzo
ZlibCopied == uc_zbuf
SelectLzo == uc_lzo # -1 /\ (uc_zlib = -1 \/ LzoGoodEnough(uc_lzo, uc_zlib))
Choose ==
    /\ uc_pc = "choose" /\ uc_pc' = "done"
    /\ IF SelectLzo THEN Stored("lzo", uc_lzo, uc_out) ELSE Stored("zlib", uc_zlib, ZlibCopied)
    /\ UNCHANGED <<ucOpts, uc_lzo, uc_zlib, uc_zbuf, uc_errs>>

(* The next block: the buffers keep what they have. *)
NextBlock ==
    /\ uc_pc = "done" /\ uc_errs < 2 /\ uc_pc' = "start"
    /\ uc_len' \in UcLens /\ uc_lzo' = -2 /\ uc_zlib' = -2
    /\ uc_ret' = "" /\ uc_retlen' = 0
    /\ UNCHANGED <<uc_type, uc_favor, uc_percent, uc_out, uc_zbuf, uc_errs>>

UcNext == Start \/ Lzo \/ Zlib \/ Finish \/ Choose \/ NextBlock

(* What compress_data says of a block - the type it returns and the length *)
(* it stores - is what is in the buffer it filled, on every path and       *)
(* whatever an earlier block left in zlib_buf; and no block is stored      *)
(* longer than it was.                                                     *)
TypeTellsData ==
    uc_pc = "done" => uc_out = Held(uc_ret, uc_retlen) /\ uc_retlen <= uc_len

(* With LZO preferred, ZLIB is stored only where LZO did not succeed or    *)
(* ZLIB takes at least favor_percent off LZO's size, as -X is described    *)
(* ("how many percent better zlib should compress to make mkfs.ubifs use   *)
(* zlib instead of LZO", mkfs.ubifs.c:183-185; the note at 207-209 of the  *)
(* same help says the opposite).  A block that LZO made smaller is never   *)
(* stored plain, and one that ZLIB made smaller is not if LZO failed       *)
(* (favor_lzo_compress).                                                   *)
LzoFavoured ==
    uc_pc = "done" /\ uc_favor /\ uc_len >= UcMin =>
        /\ uc_ret = "zlib" => uc_lzo = -1 \/ uc_zlib * 100 <= (100 - uc_percent) * uc_lzo
        /\ uc_ret = "none" => uc_lzo = -1 \/ uc_lzo >= uc_len
        /\ uc_ret = "none" /\ uc_lzo = -1 => uc_zlib = -1 \/ uc_zlib >= uc_len
=============================================================================
