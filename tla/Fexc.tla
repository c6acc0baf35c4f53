-------------------------------- MODULE Fexc --------------------------------
(***************************************************************************)
(* script.c, script_fex.c and script_bin.c of sunxi-tools: the tree of a   *)
(* board's configuration and its two forms.  A name is a sequence of       *)
(* characters; a line of text is a record of what its characters say       *)
(* (numbers are what strtol makes of them); the binary form is words at    *)
(* the offsets the code computes.  The sizes of names, words and numbers   *)
(* are scaled down by the constants.                                       *)
(***************************************************************************)
EXTENDS Integers, Sequences, FiniteSets, SequencesExt

CONSTANTS NameMax,          \* 31, the characters kept of a name
          WordMax,          \* UINT32_MAX; INT32_MAX is half of it
          PortMax,          \* 255
          GpioBankMax,      \* GPIO_BANK_MAX
          HexEntries,       \* hexa_entries
          LineMax,          \* characters of a quoted string that fit into MAX_LINE
          SectionLimit      \* SCRIPT_BIN_SECTION_LIMIT

Power == 9999               \* 0xffff, the port of "port:power"
WordSize == 4               \* sizeof(uint32_t)
HeadWords == 4
SectionWords == 10
EntryWords == 10
GpioWords == 6

(* script_section_new and script_entry_append; a value is single, string,  *)
(* gpio or null.                                                           *)
Truncated(name) == SubSeq(name, 1, IF Len(name) > NameMax THEN NameMax ELSE Len(name))
SectionNew(script, name) == Append(script, [name |-> Truncated(name), entries |-> <<>>])
EntryAppend(script, name, val) ==
    [script EXCEPT ![Len(script)].entries = Append(@, [name |-> Truncated(name), val |-> val])]
Null == [t |-> "null"]
Single(v) == [t |-> "single", v |-> v % (WordMax + 1)]
String(s) == [t |-> "string", s |-> s]
Gpio(port, num, data) == [t |-> "gpio", port |-> port, num |-> num, data |-> data]

SectionDelete(script) == Front(script)
EntryDelete(section) == [section EXCEPT !.entries = Front(@)]

(* script_find_section and script_find_entry: the first one, or <<>>. *)
FindFirst(list, name) ==
    LET found == SelectSeq(list, LAMBDA x : x.name = name) IN IF found = <<>> THEN <<>> ELSE <<found[1]>>

----------------------------------------------------------------------------
(* script_fex.c.  What parsing a line gives: the tree and "ok", "error" or *)
(* "abort" where an assertion on the name fails.                           *)
Parsed(script, res) == [script |-> script, res |-> res]
Added(script, name, val) ==
    IF name = <<>> /\ val.t # "string" THEN Parsed(script, "abort")
    ELSE Parsed(EntryAppend(script, name, val), "ok")

Digits == {"0", "1"}

(* The four values in angle brackets: at most four, none below 0; what is  *)
(* left out is the default.                                                *)
DataOf(data) == [k \in 1 .. 4 |-> IF k <= Len(data) THEN data[k] ELSE -1]
DataGood(data) == Len(data) <= 4 /\ \A k \in DOMAIN data : data[k] = -1 \/ data[k] \in 0 .. WordMax \div 2
BankLetter(port) == port \in 1 .. GpioBankMax + 1
GpioText(v) ==
    /\ v.port = Power \/ BankLetter(v.port)
    /\ v.num \in 0 .. PortMax /\ DataGood(v.data)

(* A number as strtoll reads it; above UINT32_MAX it is refused, below 0   *)
(* it wraps.                                                               *)
InRange(v) == v <= WordMax
ParseValue(script, name, v) ==
    CASE v.t = "none" -> Added(script, name, Null)
      [] v.t \in {"quoted", "bare"} -> Added(script, name, String(v.s))
      [] v.t = "port" -> IF GpioText(v) THEN Added(script, name, Gpio(v.port, v.num, DataOf(v.data)))
                         ELSE Parsed(script, "error")
      [] v.t = "num" -> IF ~v.junk /\ InRange(v.v) THEN Added(script, name, Single(v.v))
                        ELSE Parsed(script, "error")

(* fgets: a string may have a newline in it and any line may be too long;  *)
(* what is behind is then a line of its own, and the part in front has     *)
(* only the first quotation mark.  ("-" is any character that no line may  *)
(* have outside of a string; one cut in a line is as far as this goes.)    *)
Least(S) == CHOOSE x \in S : \A y \in S : x <= y
Odd == {"nl", "\"", ";", "=", "-", "[", "]"}
Named(s) == \A k \in DOMAIN s : s[k] \notin Odd
Cut(s) ==
    LET nl == {k \in DOMAIN s : s[k] = "nl" /\ k <= LineMax + 1}
        at(k, skipped) == <<SubSeq(s, 1, k), SubSeq(s, k + skipped + 1, Len(s))>>
    IN  IF nl # {} THEN at(Least(nl) - 1, 1) ELSE IF Len(s) > LineMax THEN at(LineMax + 1, 0) ELSE <<s>>
BareText(s) ==
    IF s = <<>> THEN [t |-> "none"]
    ELSE IF s[1] \in Digits THEN [t |-> "num", v |-> 0, junk |-> TRUE] ELSE [t |-> "bare", s |-> s]
RawLine(s) ==
    LET marks == {k \in DOMAIN s : s[k] = "="}
        m == Least(marks)
    IN  CASE s = <<>> \/ s[1] = ";" -> [k |-> "skip", s |-> <<>>]
          [] s[1] = "[" /\ Last(s) = "]" /\ Named(SubSeq(s, 2, Len(s) - 1)) ->
                [k |-> "section", name |-> SubSeq(s, 2, Len(s) - 1)]
          [] s[1] # ";" /\ marks # {} /\ Named(SubSeq(s, 1, m - 1)) ->
                [k |-> "entry", name |-> SubSeq(s, 1, m - 1), val |-> BareText(SubSeq(s, m + 1, Len(s)))]
          [] OTHER -> [k |-> "junk"]
Begun(val, s) ==
    IF val.t = "bare" THEN [val EXCEPT !.s = s]
    ELSE IF s # <<>> /\ Last(s) = "\"" THEN [val EXCEPT !.s = Front(s)]
    ELSE [t |-> "bare", s |-> <<"\"">> \o s]
Fgets(line) ==
    LET text == CASE line.k = "skip" -> line.s
                  [] line.k = "entry" /\ line.val.t \in {"quoted", "bare"} -> line.val.s
                  [] OTHER -> <<>>
        end == IF line.k = "entry" /\ line.val.t = "quoted" THEN <<"\"">> ELSE <<>>
        c == Cut(text)
    IN  IF Len(c) = 1 THEN <<line>>
        ELSE <<IF line.k = "skip" THEN line ELSE [line EXCEPT !.val = Begun(@, c[1])], RawLine(c[2] \o end)>>
Fetched(text) == FlattenSeq([k \in DOMAIN text |-> Fgets(text[k])])

(* script_parse_fex, one line of the loop. *)
ParseLine(script, line) ==
    CASE line.k = "skip" -> Parsed(script, "ok")    \* empty, comment or ':'
      [] line.k = "section" -> IF line.name = <<>> THEN Parsed(script, "abort")
                               ELSE Parsed(SectionNew(script, line.name), "ok")
      [] line.k = "junk" -> Parsed(script, "error") \* no ']' or '=' where it must be
      [] line.k = "entry" -> IF script = <<>> THEN Parsed(script, "error")
                             ELSE ParseValue(script, line.name, line.val)

(* decompile_single_mode: a name without its trailing digits that begins   *)
(* one of the listed ones is written in hexadecimal.                       *)
NameEnd(name) ==
    LET ends == {k \in 0 .. Len(name) : \A j \in k + 1 .. Len(name) : name[j] \in Digits}
    IN  CHOOSE k \in ends : \A j \in ends : k <= j
SingleHex(name) ==
    \E h \in HexEntries : Len(h) >= NameEnd(name) /\ SubSeq(h, 1, NameEnd(name)) = SubSeq(name, 1, NameEnd(name))

(* script_generate_fex: "%d" makes the upper half of the words negative. *)
AsSigned(v) == IF v > WordMax \div 2 THEN v - (WordMax + 1) ELSE v
ValueText(name, val) ==
    CASE val.t = "single" -> [t |-> "num", v |-> IF SingleHex(name) THEN val.v ELSE AsSigned(val.v), junk |-> FALSE]
      [] val.t = "string" -> [t |-> "quoted", s |-> val.s]
      [] val.t = "gpio" -> [t |-> "port", port |-> val.port, num |-> val.num, data |-> val.data]
      [] val.t = "null" -> [t |-> "none"]

(* Names are written as they are.  One that no text has makes the line a   *)
(* comment, another entry (a string; of it only the beginning is kept) or  *)
(* one that is refused.                                                    *)
EntryText(name, val) ==
    CASE Named(name) -> [k |-> "entry", name |-> name, val |-> ValueText(name, val)]
      [] ~Named(name) /\ (name[1] = ";" \/ "=" \in Range(name)) -> RawLine(name \o <<"=">>)
      [] OTHER -> [k |-> "junk"]
SectionText(s) ==
    <<IF Named(s.name) THEN [k |-> "section", name |-> s.name] ELSE [k |-> "junk"]>>
    \o [k \in DOMAIN s.entries |-> EntryText(s.entries[k].name, s.entries[k].val)]
    \o <<[k |-> "skip", s |-> <<>>]>>
GenerateFex(script) == FlattenSeq([k \in DOMAIN script |-> SectionText(script[k])])

----------------------------------------------------------------------------
(* script_bin.c.  script_bin_size, in words. *)
Words(bytes) == (bytes + WordSize - 1) \div WordSize
ValueWords(val) ==
    CASE val.t \in {"null", "single"} -> 1
      [] val.t = "string" -> Words(Len(val.s))
      [] val.t = "gpio" -> GpioWords
SumOf(seq) == FoldLeft(LAMBDA a, b : a + b, 0, seq)
NumEntries(script) == SumOf([k \in DOMAIN script |-> Len(script[k].entries)])
BinSize(script) ==
    HeadWords + Len(script) * SectionWords + NumEntries(script) * EntryWords
    + SumOf([k \in DOMAIN script |->
                SumOf([j \in DOMAIN script[k].entries |-> ValueWords(script[k].entries[j].val)])])

(* What script_generate_bin writes for a value: its words, each one number *)
(* or four characters, the end of a string zero from calloc.               *)
StringWord(s, w) == [b \in 1 .. WordSize |-> IF (w - 1) * WordSize + b <= Len(s) THEN s[(w - 1) * WordSize + b] ELSE ""]
Rounded(len) == (len + WordSize - 1) \div WordSize
DataWords(val) ==
    CASE val.t = "single" -> <<<<val.v>>>>
      [] val.t = "null" -> <<<<0>>>>
      [] val.t = "string" -> [w \in 1 .. Rounded(Len(val.s)) |-> StringWord(val.s, w)]
      [] val.t = "gpio" -> <<<<val.port>>, <<val.num>>>> \o [k \in 1 .. 4 |-> <<val.data[k]>>]

(* The head of an entry and of a section are at their first word. *)
Flat(script) == FlattenSeq([k \in DOMAIN script |-> script[k].entries])
Lengths(script) == [k \in DOMAIN Flat(script) |-> Len(DataWords(Flat(script)[k].val))]
FirstEntry(script) == HeadWords + Len(script) * SectionWords
FirstData(script) == FirstEntry(script) + NumEntries(script) * EntryWords
DataAt(script, n) == FirstData(script) + SumOf(SubSeq(Lengths(script), 1, n - 1))
EntriesBefore(script, k) == NumEntries(SubSeq(script, 1, k - 1))
NotCounted(script, k) == FirstEntry(script) \* mutant: every section at the first entry
EntryOffset(script, k) == FirstEntry(script) + EntriesBefore(script, k) * EntryWords
GenerateBin(script, size) ==
    [sections |-> Len(script), filesize |-> size, version |-> <<1, 2>>,
     section |-> [k \in DOMAIN script |->
         [name |-> script[k].name, length |-> Len(script[k].entries), offset |-> EntryOffset(script, k)]],
     entry |-> [off \in {FirstEntry(script) + (n - 1) * EntryWords : n \in DOMAIN Flat(script)} |->
         LET n == (off - FirstEntry(script)) \div EntryWords + 1
         IN  [name |-> Flat(script)[n].name, type |-> Flat(script)[n].val.t,
              words |-> Lengths(script)[n], offset |-> DataAt(script, n)]],
     data |-> [off \in FirstData(script) .. DataAt(script, NumEntries(script) + 1) - 1 |->
         LET n == CHOOSE n \in DOMAIN Flat(script) :
                      DataAt(script, n) <= off /\ off < DataAt(script, n) + Lengths(script)[n]
         IN  DataWords(Flat(script)[n].val)[off - DataAt(script, n) + 1]]]

(* decompile_section: a string ends at its first zero or with its words. *)
NumAt(bin, off) == bin.data[off][1]
Chars(bin, e) == FlattenSeq([w \in 1 .. e.words |-> bin.data[e.offset + w - 1]])
UpToZero(s) ==
    LET zeros == {k \in DOMAIN s : s[k] = ""}
    IN  IF zeros = {} THEN s ELSE SubSeq(s, 1, (CHOOSE k \in zeros : \A j \in zeros : k <= j) - 1)
BankOk(port) == port = Power \/ port \in 1 .. GpioBankMax
DecompileEntry(bin, e, script) ==
    CASE e.type = "single" -> Added(script, e.name, Single(NumAt(bin, e.offset)))
      [] e.type = "string" -> Added(script, e.name, String(UpToZero(Chars(bin, e))))
      [] e.type = "gpio" ->
            IF e.words = GpioWords /\ ~BankOk(NumAt(bin, e.offset)) THEN Parsed(script, "error")
            ELSE Added(script, e.name, Gpio(NumAt(bin, e.offset), NumAt(bin, e.offset + 1),
                                            [k \in 1 .. 4 |-> NumAt(bin, e.offset + 1 + k)]))
      [] e.type = "null" -> IF e.name = <<>> THEN Parsed(script, "ok") ELSE Added(script, e.name, Null)
      [] OTHER -> Parsed(script, "error")
SectionGood(size, s) ==
    /\ s.offset \in 0 .. size
    /\ s.length >= 0 /\ s.length <= (size - s.offset) \div EntryWords
DecompileSection(bin, size, s, script) ==
    IF ~SectionGood(size, s) THEN Parsed(script, "error")
    ELSE IF s.name = <<>> THEN Parsed(script, "abort")
    ELSE FoldLeft(LAMBDA r, k : IF r.res = "ok" THEN DecompileEntry(bin, bin.entry[s.offset + (k - 1) * EntryWords], r.script) ELSE r,
                  Parsed(SectionNew(script, s.name), "ok"), [k \in 1 .. s.length |-> k])

(* The checks of script_decompile_bin on the head. *)
HeadGood(bin) == bin.version[1] <= 16 /\ bin.version[2] <= 16 /\ bin.sections <= SectionLimit

-----------------------------------------------------------------------------
(***************************************************************************)
(* sunxi-fexc, fex2bin and bin2fex (fexc.c, script_uboot.c): one run that  *)
(* converts a file, and a second one on what the first one wrote.          *)
(***************************************************************************)

CONSTANTS FxTexts, FxTrees, \* texts, and trees whose binary form is an input
          FxDram,           \* "dram_para"
          FxMembers,        \* dram_members, as [name, key]
          FxBuf, FxChunks   \* read_all: its first buffer; what a read may return, in words

VARIABLES fx_pc, fx_run, fx_opt, fx_in, fx_len, fx_i, fx_script,
          fx_first,         \* the tree of the first run
          fx_why,           \* "", or why no tree was read: "format" or "host"
          fx_count, fx_buf, fx_out, fx_left, fx_ret

fxVars == <<fx_pc, fx_run, fx_opt, fx_in, fx_len, fx_i, fx_script, fx_first, fx_why, fx_count, fx_buf, fx_out, fx_left, fx_ret>>
fxFile == <<fx_run, fx_opt, fx_first>>

Old == [k |-> "old"]
Out(k, body) == [k |-> k, body |-> body]
Empty == Out("empty", <<>>)

FxBlank ==
    /\ fx_run = 1 /\ fx_opt = [in |-> "", out |-> ""] /\ fx_in = <<>> /\ fx_len = 0 /\ fx_i = 1 /\ fx_script = <<>>
    /\ fx_first = <<>> /\ fx_why = "" /\ fx_count = 0 /\ fx_buf = 0 /\ fx_out = Old /\ fx_left = 0 /\ fx_ret = 1
FxOff == fx_pc = "off" /\ FxBlank
FxInit == fx_pc = "options" /\ FxBlank

(* main: the name of the program and -I and -O. *)
CmdLines ==
    [mode : {"fexc", "fex2bin", "bin2fex"}, I : {"", "fex", "bin", "uboot", "other"},
     O : {"", "fex", "bin", "uboot", "other"}]
BadOption(c) ==
    IF c.mode # "fexc" THEN c.I # "" \/ c.O # "" ELSE c.I \in {"uboot", "other"} \/ c.O = "other"
Formats(c) ==
    [in  |-> IF c.mode = "bin2fex" THEN "bin" ELSE IF c.I = "" THEN "fex" ELSE c.I,
     out |-> IF c.mode = "bin2fex" THEN "fex" ELSE IF c.O = "" THEN "bin" ELSE c.O]
Options ==
    /\ fx_pc = "options"
    /\ \E c \in CmdLines :
          \/ BadOption(c) /\ fx_pc' = "done" /\ UNCHANGED fx_opt
          \/ ~BadOption(c) /\ fx_pc' = "open" /\ fx_opt' = Formats(c) /\ (fx_run = 2 => Formats(c).in = fx_opt.out)
    /\ UNCHANGED <<fx_run, fx_in, fx_len, fx_i, fx_script, fx_first, fx_why, fx_count, fx_buf, fx_out, fx_left, fx_ret>>

Fails(why) == fx_pc' = "delete" /\ fx_why' = why

(* The inputs of a first run: texts, and binary files of this and of other *)
(* programs, also damaged ones.                                            *)
Damaged(bin) ==
    {bin, [bin EXCEPT !.version[1] = 17], [bin EXCEPT !.sections = SectionLimit + 1],
     [bin EXCEPT !.section[1].offset = bin.filesize + 1], [bin EXCEPT !.section[1].length = bin.filesize],
     [bin EXCEPT !.entry = [o \in DOMAIN @ |-> [@[o] EXCEPT !.type = "multi"]]]}
BinFiles == UNION {Damaged(GenerateBin(t, BinSize(t))) : t \in FxTrees}

(* script_parse: opening the input; a regular file is mapped, any other    *)
(* one read.                                                               *)
StillThere == fx_out
OpenInput ==
    /\ fx_pc = "open"
    /\ \/ Fails("host") /\ UNCHANGED <<fx_in, fx_len, fx_buf>>
       \/ /\ fx_opt.in = "fex" /\ fx_pc' = "line" /\ UNCHANGED <<fx_why, fx_len, fx_buf>>
          /\ IF fx_run = 1 THEN fx_in' \in {Fetched(x) : x \in FxTexts} ELSE fx_in' = Fetched(fx_in)
       \/ /\ fx_opt.in = "bin" /\ UNCHANGED fx_why
          /\ IF fx_run = 1 THEN fx_in' \in BinFiles ELSE fx_in' = fx_in
          /\ fx_len' = fx_in'.filesize
          /\ \/ fx_pc' = "head" /\ UNCHANGED fx_buf
             \/ fx_pc' = "read" /\ fx_buf' = FxBuf
    /\ fx_out' = StillThere
    /\ UNCHANGED <<fxFile, fx_i, fx_script, fx_count, fx_left, fx_ret>>

(* read_all: a read of nothing, at the end or into no room, ends it. *)
Doubled(buf) == 2 * buf
ReadAll ==
    /\ fx_pc = "read"
    /\ \/ \E n \in FxChunks :
             LET rc == Least({n, fx_buf - fx_count, fx_len - fx_count})
             IN  /\ fx_count' = fx_count + rc
                 /\ fx_buf' = IF rc > 0 /\ fx_count' = fx_buf THEN Doubled(fx_buf) ELSE fx_buf
                 /\ fx_pc' = IF rc = 0 THEN "head" ELSE "read"
                 /\ UNCHANGED fx_why
       \/ Fails("host") /\ UNCHANGED <<fx_count, fx_buf>>
    /\ UNCHANGED <<fxFile, fx_in, fx_len, fx_i, fx_script, fx_out, fx_left, fx_ret>>

(* One more line or section: its result, or no memory for it. *)
Taken(r, at) ==
    \/ r.res = "ok" /\ fx_script' = r.script /\ fx_i' = fx_i + 1 /\ fx_pc' = at /\ UNCHANGED fx_why
    \/ r.res = "error" /\ Fails("format") /\ UNCHANGED <<fx_script, fx_i>>
    \/ r.res = "abort" /\ fx_pc' = "aborted" /\ fx_why' = "format" /\ UNCHANGED <<fx_script, fx_i>>
    \/ r.script # fx_script /\ Fails("host") /\ UNCHANGED <<fx_script, fx_i>>

(* script_parse_fex. *)
NextLine ==
    /\ fx_pc = "line" /\ fx_i <= Len(fx_in) /\ Taken(ParseLine(fx_script, fx_in[fx_i]), "line")
    /\ UNCHANGED <<fxFile, fx_in, fx_len, fx_count, fx_buf, fx_out, fx_left, fx_ret>>
LinesEnd ==
    /\ fx_pc = "line" /\ fx_i > Len(fx_in)
    /\ \/ fx_pc' = "out" /\ UNCHANGED fx_why
       \/ Fails("host")                     \* ferror
    /\ UNCHANGED <<fxFile, fx_in, fx_len, fx_i, fx_script, fx_count, fx_buf, fx_out, fx_left, fx_ret>>

(* script_decompile_bin. *)
CheckHead ==
    /\ fx_pc = "head"
    /\ IF HeadGood(fx_in) THEN fx_pc' = "section" /\ UNCHANGED fx_why ELSE Fails("format")
    /\ UNCHANGED <<fxFile, fx_in, fx_len, fx_i, fx_script, fx_count, fx_buf, fx_out, fx_left, fx_ret>>
NextSection ==
    /\ fx_pc = "section" /\ fx_i <= fx_in.sections
    /\ Taken(DecompileSection(fx_in, fx_len, fx_in.section[fx_i], fx_script), "section")
    /\ UNCHANGED <<fxFile, fx_in, fx_len, fx_count, fx_buf, fx_out, fx_left, fx_ret>>
SectionsEnd ==
    /\ fx_pc = "section" /\ fx_i > fx_in.sections /\ fx_pc' = "out"
    /\ UNCHANGED <<fxFile, fx_in, fx_len, fx_i, fx_script, fx_why, fx_count, fx_buf, fx_out, fx_left, fx_ret>>

(* script_generate_uboot and generate_dram_struct: the members of the      *)
(* table the first such section has, a string being an invalid one, which  *)
(* is only reported.                                                       *)
DramStruct(sp) ==
    LET found(m) == FindFirst(sp.entries, m.name)
        good == SelectSeq(FxMembers, LAMBDA m : found(m) # <<>> /\ found(m)[1].val.t # "string")
    IN  [k \in DOMAIN good |-> [key |-> good[k].key, val |-> found(good[k])[1].val]]

(* script_generate.  Nothing is asked of stdio: a text that did not get    *)
(* to the disk is a success.                                               *)
OpenOutput ==
    /\ fx_pc = "out"
    /\ \/ fx_pc' = "delete" /\ UNCHANGED fx_out
       \/ fx_pc' = "generate" /\ fx_out' = Empty
    /\ fx_first' = IF fx_run = 1 THEN fx_script ELSE fx_first
    /\ UNCHANGED <<fx_run, fx_opt, fx_in, fx_len, fx_i, fx_script, fx_why, fx_count, fx_buf, fx_left, fx_ret>>
GenerateText ==
    /\ fx_pc = "generate" /\ fx_pc' = "delete"
    /\ \/ fx_opt.out = "fex" /\ fx_out' \in {Out("fex", GenerateFex(fx_script)), Out("part", <<>>)} /\ fx_ret' = 0
       \/ /\ fx_opt.out = "uboot" /\ FindFirst(fx_script, FxDram) # <<>>
          /\ fx_out' = Out("uboot", DramStruct(FindFirst(fx_script, FxDram)[1])) /\ fx_ret' = 0
       \/ fx_opt.out = "uboot" /\ FindFirst(fx_script, FxDram) = <<>> /\ UNCHANGED <<fx_out, fx_ret>>
    /\ UNCHANGED <<fxFile, fx_in, fx_len, fx_i, fx_script, fx_why, fx_count, fx_buf, fx_left>>
GenerateBinary ==
    /\ fx_pc = "generate" /\ fx_opt.out = "bin"
    /\ \/ fx_pc' = "delete" /\ UNCHANGED fx_left     \* calloc
       \/ fx_pc' = "write" /\ fx_left' = BinSize(fx_script)
    /\ UNCHANGED <<fxFile, fx_in, fx_len, fx_i, fx_script, fx_why, fx_count, fx_buf, fx_out, fx_ret>>

(* The loop of writes: what is in the file is complete with the last word. *)
WroteAll(left) == left = 0
Write ==
    /\ fx_pc = "write" /\ fx_left > 0
    /\ \/ \E n \in FxChunks :
             /\ fx_left' = fx_left - Least({n, fx_left})
             /\ fx_out' = IF fx_left' = 0 THEN Out("bin", GenerateBin(fx_script, BinSize(fx_script))) ELSE Out("part", <<>>)
             /\ UNCHANGED <<fx_pc, fx_ret>>
       \/ fx_pc' = "delete" /\ fx_ret' = (IF WroteAll(fx_left) THEN 0 ELSE 1) /\ UNCHANGED <<fx_left, fx_out>>
    /\ UNCHANGED <<fxFile, fx_in, fx_len, fx_i, fx_script, fx_why, fx_count, fx_buf>>
WriteEnd ==
    /\ fx_pc = "write" /\ fx_left = 0 /\ fx_pc' = "delete" /\ fx_ret' = IF WroteAll(fx_left) THEN 0 ELSE 1
    /\ UNCHANGED <<fxFile, fx_in, fx_len, fx_i, fx_script, fx_why, fx_count, fx_buf, fx_out, fx_left>>

(* script_delete: the last entry of the last section first. *)
Deleted ==
    LET n == Len(fx_script)
    IN  IF fx_script[n].entries = <<>> THEN SectionDelete(fx_script) ELSE [fx_script EXCEPT ![n] = EntryDelete(@)]
Delete ==
    /\ fx_pc = "delete"
    /\ IF fx_script = <<>> THEN fx_pc' = "done" /\ UNCHANGED fx_script ELSE fx_script' = Deleted /\ UNCHANGED fx_pc
    /\ UNCHANGED <<fxFile, fx_in, fx_len, fx_i, fx_why, fx_count, fx_buf, fx_out, fx_left, fx_ret>>

(* A second run, on what the first one wrote. *)
Again ==
    /\ fx_pc = "done" /\ fx_run = 1 /\ fx_ret = 0 /\ fx_out.k \in {"fex", "bin"}
    /\ fx_pc' = "options" /\ fx_run' = 2 /\ fx_in' = fx_out.body /\ fx_out' = Old
    /\ fx_i' = 1 /\ fx_ret' = 1 /\ fx_count' = 0 /\ fx_buf' = 0 /\ fx_len' = 0
    /\ UNCHANGED <<fx_opt, fx_script, fx_first, fx_why, fx_left>>

FxNext ==
    \/ Options \/ OpenInput \/ ReadAll \/ NextLine \/ LinesEnd \/ CheckHead \/ NextSection \/ SectionsEnd
    \/ OpenOutput \/ GenerateText \/ GenerateBinary \/ Write \/ WriteEnd \/ Delete \/ Again

FxEnded == fx_pc = "aborted" \/ (fx_pc = "done" /\ ~(fx_run = 1 /\ fx_ret = 0 /\ fx_out.k \in {"fex", "bin"}))

----------------------------------------------------------------------------
(* A tree that can be put into lines: its names are of letters, digits and *)
(* '_', no string has a newline and each fits into a line.  A binary file  *)
(* may have others: decompile_section only warns of a name, and            *)
(* script_generate_fex writes names and strings as they are.               *)
Entries(script) == UNION {ToSet(s.entries) : s \in ToSet(script)}
Lined(script) ==
    /\ \A s \in ToSet(script) : Named(s.name)
    /\ \A e \in Entries(script) : Named(e.name) /\ (e.val.t = "string" => Len(Cut(e.val.s)) = 1)

(* What one run wrote, as text or as binary, a second run reads as the     *)
(* same tree: names that were cut, words above INT32_MAX, strings of any   *)
(* length in a binary file and defaults of ports included                  *)
(* (script_generate_fex and script_parse_fex, script_generate_bin and      *)
(* script_decompile_bin).  As text this is so only for a tree that can be  *)
(* put into lines: any other one may be read, and be another.              *)
FxSameTree == fx_run = 2 /\ fx_pc = "out" /\ (fx_opt.in = "bin" \/ Lined(fx_first)) => fx_script = fx_first

(* A second run refuses what the first one wrote only for a port bank      *)
(* above GPIO_BANK_MAX (which the text parser takes) or too many sections  *)
(* in a binary file, and in a text only for values no text of fexc has:    *)
(* a pin above 255, a negative field, or a tree that cannot be put into    *)
(* lines; and but for such a tree no assertion on a name fails in it.      *)
Ports == {v \in {e.val : e \in Entries(fx_first)} : v.t = "gpio"}
FxReadable ==
    fx_run = 2 /\ fx_why = "format" /\ (fx_opt.in = "bin" \/ Lined(fx_first)) =>
        /\ fx_pc # "aborted"
        /\ IF fx_opt.in = "bin"
           THEN Len(fx_first) > SectionLimit \/ \E v \in Ports : v.port = GpioBankMax + 1
           ELSE \E v \in Ports : v.num > PortMax \/ \E d \in 1 .. 4 : v.data[d] < -1

(* The size that script_bin_size counted is what script_generate_bin       *)
(* fills: head, sections, entries and values lie one behind the other,     *)
(* none over another, up to the last word.                                 *)
FxSizeExact ==
    fx_out.k = "bin" =>
        LET b == fx_out.body
            sections == HeadWords .. HeadWords + b.sections * SectionWords - 1
            entries == UNION {o .. o + EntryWords - 1 : o \in DOMAIN b.entry}
            values == UNION {b.entry[o].offset .. b.entry[o].offset + b.entry[o].words - 1 : o \in DOMAIN b.entry}
        IN  /\ 0 .. HeadWords - 1 \cup sections \cup entries \cup values = 0 .. b.filesize - 1
            /\ HeadWords + Cardinality(sections) + Cardinality(entries) + Cardinality(values) = b.filesize

(* An input that could not be read or parsed leaves the output file as it  *)
(* was (script_generate comes after script_parse in main).                 *)
FxOutputKept == fx_why # "" => fx_out = Old

(* Exit status 0 with a binary output means all of it is in the file,      *)
(* through short and failing writes.                                       *)
FxExitZero == fx_pc = "done" /\ fx_ret = 0 /\ fx_opt.out = "bin" => fx_out.k = "bin"

(* read_all hands on the whole of a pipe: it never asks for 0 bytes, which *)
(* it would take for the end.                                              *)
FxReadWhole == fx_pc = "head" /\ fx_count > 0 => fx_count = fx_len

(* The header for U-Boot has the members of the table in its order, each   *)
(* with the value of the first entry of that name in the first dram_para   *)
(* section, whatever entries and sections of that name come later.         *)
FxMembersFirst ==
    fx_out.k = "uboot" /\ fx_run = 1 =>
        LET s == Least({k \in DOMAIN fx_first : fx_first[k].name = FxDram})
            es == fx_first[s].entries
            at(m) == {k \in DOMAIN es : es[k].name = m.name}
            has == SelectSeq(FxMembers, LAMBDA m : at(m) # {} /\ es[Least(at(m))].val.t # "string")
        IN  /\ Len(fx_out.body) = Len(has)
            /\ \A k \in DOMAIN has : fx_out.body[k] = [key |-> has[k].key, val |-> es[Least(at(has[k]))].val]
=============================================================================
