----------------------------- MODULE FelMemory ------------------------------
(***************************************************************************)
(* Access to the memory of a board in FEL mode (fel_lib.c): routines that  *)
(* are uploaded to the scratch area and executed there.  Three of them:    *)
(* the copy of fel_memmove, upwards and downwards, instruction by          *)
(* instruction at byte addresses, and the chunked fel_readl_n and          *)
(* fel_writel_n at word addresses.                                         *)
(***************************************************************************)
EXTENDS Integers, Sequences

CONSTANTS FelTop,           \* addresses 0 .. FelTop, the scratch area above
          MoveArgs,         \* sets of [dst, src, size]
          WordArgs,         \* sets of [addr, count]
          LcodeMax          \* LCODE_MAX_WORDS

VARIABLES fm_at,            \* the instruction block, or where the host is
          fm_op, fm_arg,
          fm_mem,           \* the memory, cell a holds a at first
          r0, r1, r2,       \* the registers of the copy routines
          fm_addr, fm_count, fm_buf  \* addr, count and dst of the chunk loops

felVars == <<fm_at, fm_op, fm_arg, fm_mem, r0, r1, r2, fm_addr, fm_count, fm_buf>>

FelCells == 0 .. FelTop
Value(k) == 100 + k                   \* the k-th word the host wants to write

FelOff ==
    /\ fm_at = "off" /\ fm_op = "none" /\ fm_arg = <<>> /\ fm_mem = <<>>
    /\ r0 = 0 /\ r1 = 0 /\ r2 = 0 /\ fm_addr = 0 /\ fm_count = 0 /\ fm_buf = <<>>

FelInit ==
    /\ \/ fm_op = "memmove" /\ fm_arg \in MoveArgs
       \/ fm_op \in {"readl_n", "writel_n"} /\ fm_arg \in WordArgs
    /\ fm_at = "call"
    /\ fm_mem = [a \in FelCells |-> a]
    /\ r0 = 0 /\ r1 = 0 /\ r2 = 0
    /\ IF fm_op = "memmove" THEN fm_addr = 0 /\ fm_count = 0
       ELSE fm_addr = fm_arg.addr /\ fm_count = fm_arg.count
    /\ fm_buf = <<>>

-----------------------------------------------------------------------------
Overlaps(dst, src, size) == dst >= src /\ dst < src + size

(* fel_memmove and the first six instructions of the two routines. *)
Memmove ==
    /\ fm_at = "call" /\ fm_op = "memmove"
    /\ r0' = fm_arg.dst /\ r1' = fm_arg.src /\ r2' = fm_arg.size
    /\ LET aligned == (fm_arg.dst - fm_arg.src) % 4 = 0
           down == Overlaps(fm_arg.dst, fm_arg.src, fm_arg.size)
       IN  fm_at' = IF fm_arg.size = 0 THEN "done"
                    ELSE IF down THEN (IF aligned THEN "copydn_head" ELSE "copydn_tail")
                    ELSE IF aligned THEN "copyup_head" ELSE "copyup_tail"
    /\ UNCHANGED <<fm_op, fm_arg, fm_mem, fm_addr, fm_count, fm_buf>>

Copy(to, from, n) ==
    fm_mem' = [a \in FelCells |->
                  IF a \in to .. to + n - 1 THEN fm_mem[from + a - to] ELSE fm_mem[a]]

CopyByteUp == Copy(r0, r1, 1) /\ r0' = r0 + 1 /\ r1' = r1 + 1

(* copyup_head .. copyup_tail. *)
CopyUp ==
    /\ \/ /\ fm_at = "copyup_head"
          /\ IF r1 % 4 = 0
             THEN fm_at' = "copyup_loop" /\ UNCHANGED <<fm_mem, r0, r1, r2>>
             ELSE /\ CopyByteUp /\ r2' = r2 - 1
                  /\ fm_at' = IF r2' >= 0 THEN "copyup_head" ELSE "done"
       \/ /\ fm_at = "copyup_loop"
          /\ IF r2 - 4 >= 0
             THEN /\ Copy(r0, r1, 4) /\ r0' = r0 + 4 /\ r1' = r1 + 4 /\ r2' = r2 - 4
                  /\ fm_at' = fm_at
             ELSE fm_at' = "copyup_tail" /\ UNCHANGED <<fm_mem, r0, r1, r2>>
       \/ /\ fm_at = "copyup_tail"
          /\ IF r2 - 1 >= 0
             THEN CopyByteUp /\ r2' = r2 - 1 /\ fm_at' = fm_at
             ELSE fm_at' = "done" /\ UNCHANGED <<fm_mem, r0, r1, r2>>
    /\ UNCHANGED <<fm_op, fm_arg, fm_addr, fm_count, fm_buf>>

(* copydn_head .. copydn_tail: r2 is the index of the byte or word. *)
CopyDown ==
    /\ \/ /\ fm_at = "copydn_head"
          /\ IF (r1 + r2) % 4 = 0
             THEN fm_at' = "copydn_loop" /\ UNCHANGED <<fm_mem, r2>>
             ELSE IF r2 - 1 < 0
             THEN fm_at' = "done" /\ UNCHANGED <<fm_mem, r2>>
             ELSE Copy(r0 + r2 - 1, r1 + r2 - 1, 1) /\ r2' = r2 - 1 /\ fm_at' = fm_at
       \/ /\ fm_at = "copydn_loop"
          /\ IF r2 - 4 >= 0
             THEN Copy(r0 + r2 - 4, r1 + r2 - 4, 4) /\ r2' = r2 - 4 /\ fm_at' = fm_at
             ELSE fm_at' = "copydn_tail" /\ UNCHANGED <<fm_mem, r2>>
       \/ /\ fm_at = "copydn_tail"
          /\ IF r2 - 1 >= 0
             THEN Copy(r0 + r2 - 1, r1 + r2 - 1, 1) /\ r2' = r2 - 1 /\ fm_at' = fm_at
             ELSE fm_at' = "done" /\ UNCHANGED <<fm_mem, r2>>
    /\ UNCHANGED <<fm_op, fm_arg, r0, r1, fm_addr, fm_count, fm_buf>>

-----------------------------------------------------------------------------
Chunk(count) == IF count > LcodeMax THEN LcodeMax ELSE count

(* One turn of fel_readl_n: aw_fel_readl_n cuts at LCODE_MAX_WORDS, as the *)
(* uploaded routine does, and reads back what that put behind itself.      *)
ReadlChunk ==
    /\ fm_at = "call" /\ fm_op = "readl_n" /\ fm_count > 0
    /\ LET n == Chunk(fm_count)
           m == IF n > LcodeMax THEN LcodeMax ELSE n
       IN  /\ fm_buf' = fm_buf \o [k \in 1 .. m |-> fm_mem[fm_addr + k - 1]]
           /\ fm_addr' = fm_addr + n /\ fm_count' = fm_count - n
    /\ UNCHANGED <<fm_at, fm_op, fm_arg, fm_mem, r0, r1, r2>>

WritelChunk ==
    /\ fm_at = "call" /\ fm_op = "writel_n" /\ fm_count > 0
    /\ LET n == Chunk(fm_count)
           m == IF n > LcodeMax THEN LcodeMax ELSE n
           done == fm_arg.count - fm_count
       IN  /\ fm_mem' = [a \in FelCells |->
                  IF a \in fm_addr .. fm_addr + m - 1
                  THEN Value(done + a - fm_addr + 1) ELSE fm_mem[a]]
           /\ fm_addr' = fm_addr + n /\ fm_count' = fm_count - n
    /\ UNCHANGED <<fm_at, fm_op, fm_arg, r0, r1, r2, fm_buf>>

ChunksDone ==
    /\ fm_at = "call" /\ fm_op # "memmove" /\ fm_count = 0
    /\ fm_at' = "done"
    /\ UNCHANGED <<fm_op, fm_arg, fm_mem, r0, r1, r2, fm_addr, fm_count, fm_buf>>

FelNext == Memmove \/ CopyUp \/ CopyDown \/ ReadlChunk \/ WritelChunk \/ ChunksDone

-----------------------------------------------------------------------------
(* The branch back to copyup_head (406) is taken down to r2 = 0: a copy    *)
(* upwards that ends before its source is aligned moves one byte more than *)
(* asked for, against "Copy <size> bytes" (fel.c 1167).                    *)
OneTooMany ==
    /\ ~Overlaps(fm_arg.dst, fm_arg.src, fm_arg.size)
    /\ (fm_arg.dst - fm_arg.src) % 4 = 0
    /\ 0 < fm_arg.size /\ fm_arg.size < (4 - (fm_arg.src % 4)) % 4

(* fel_memmove moves size bytes as they were before, however source and    *)
(* destination overlap and are aligned, and touches no other byte: "To     *)
(* ensure non-destructive operation" (478).  Nothing is said of the short  *)
(* copies of OneTooMany, for which the code does not do this.              *)
MemmoveExact ==
    fm_at = "done" /\ fm_op = "memmove" /\ ~OneTooMany =>
        fm_mem = [a \in FelCells |->
                    IF a \in fm_arg.dst .. fm_arg.dst + fm_arg.size - 1
                    THEN fm_arg.src + a - fm_arg.dst ELSE a]

(* A transfer of any length reads or writes exactly the words asked for,   *)
(* in their order: "wrapper that can handle large transfers".              *)
WordsExact ==
    fm_at = "done" /\ fm_op # "memmove" =>
        LET span == fm_arg.addr .. fm_arg.addr + fm_arg.count - 1 IN
        /\ fm_op = "readl_n" => fm_buf = [k \in 1 .. fm_arg.count |-> fm_arg.addr + k - 1]
        /\ fm_mem = [a \in FelCells |-> IF fm_op = "writel_n" /\ a \in span
                                        THEN Value(a - fm_arg.addr + 1) ELSE a]

-----------------------------------------------------------------------------
(***************************************************************************)
(* sunxi-fel's "spl" command (aw_fel_write_and_execute_spl of fel.c, with  *)
(* the uploaded fel-to-spl-thunk.S and the tables of soc_info.c): load a   *)
(* boot loader over the memory in which the boot ROM keeps its own stacks  *)
(* and the MMU table, execute it and go back to the boot ROM.              *)
(*                                                                         *)
(* Addresses and sizes are in units of 0x200 bytes.                        *)
(***************************************************************************)

CONSTANTS Socs,             \* a subset of DOMAIN SocInfo
          SplLens,          \* lengths in the eGON header
          SplMaxRuns        \* bound: invocations of the program

Swap(b1, b2, n) == [buf1 |-> b1, buf2 |-> b2, size |-> n]

(* soc_info_table.  tts are the places of the boot ROM's MMU table, -1 for *)
(* a boot ROM that leaves the MMU off (external); mmu_tt_addr is 0 where   *)
(* the table has none.  The scratch area is 8 units above spl.  The thunk  *)
(* of the generic entry begins at 0x5680, within its unit.                 *)
A10Swaps == <<Swap(14, 82, 2), Swap(46, 84, 10), Swap(62, 94, 2)>>
ShiftedSwaps(off) == [i \in 1 .. 3 |-> Swap(A10Swaps[i].buf1 + off, A10Swaps[i].buf2 + off,
                                            A10Swaps[i].size)]
SocInfo ==
    [A10 |-> [spl |-> 0, thunk |-> 81, mmu_tt_addr |-> 0, tts |-> {64, 1024}, swaps |-> A10Swaps],
     H3 |-> [spl |-> 0, thunk |-> 81, mmu_tt_addr |-> 64, tts |-> {-1}, swaps |-> A10Swaps],
     A31 |-> [spl |-> 0, thunk |-> 279, mmu_tt_addr |-> 0, tts |-> {256},
              swaps |-> <<Swap(12, 256, 4), Swap(46, 260, 18)>>],
     A33 |-> [spl |-> 0, thunk |-> 567, mmu_tt_addr |-> 0, tts |-> {-1},
              swaps |-> <<Swap(12, 544, 4), Swap(46, 548, 18)>>],
     H6 |-> [spl |-> 256, thunk |-> 337, mmu_tt_addr |-> 0, tts |-> {-1},
             swaps |-> ShiftedSwaps(256)],
     A64 |-> [spl |-> 128, thunk |-> 209, mmu_tt_addr |-> 0, tts |-> {-1},
              swaps |-> ShiftedSwaps(128)],
     A80 |-> [spl |-> 128, thunk |-> 282, mmu_tt_addr |-> 0, tts |-> {-1},
              swaps |-> <<Swap(140, 256, 4), Swap(170, 260, 22)>>],
     generic |-> [spl |-> 0, thunk |-> 43, mmu_tt_addr |-> 0, tts |-> {-1},
                  swaps |-> <<Swap(14, 44, 2)>>]]

SplLenLimit == 64           \* SPL_LEN_LIMIT
TtSize == 32                \* the 16 KiB of a table

VARIABLES sp_pc, sp_soc, sp_len, sp_mem,
          sp_mmu, sp_icache, sp_ttbr0,  \* CPU registers
          sp_tt,                        \* the host has a table to write back
          sp_cur, sp_left, sp_limit, sp_i, sp_runs

splVars == <<sp_pc, sp_soc, sp_len, sp_mem, sp_mmu, sp_icache, sp_ttbr0, sp_tt,
             sp_cur, sp_left, sp_limit, sp_i, sp_runs>>

SplOff ==
    /\ sp_pc = "off" /\ sp_soc = "A10" /\ sp_len = 0 /\ sp_mem = <<>> /\ sp_mmu = FALSE
    /\ sp_icache = FALSE /\ sp_ttbr0 = -1 /\ sp_tt = FALSE /\ sp_cur = 0 /\ sp_left = 0
    /\ sp_limit = 0 /\ sp_i = 0 /\ sp_runs = 0

Soc == SocInfo[sp_soc]
Range2(from, n) == from .. from + n - 1
Scratched(mem) == [mem EXCEPT ![Soc.spl + 8] = <<"routine", 0>>]
Table(from) == IF from = -1 THEN {} ELSE Range2(from, TtSize)

(* The cells of the memory that matter. *)
SplCells(s) ==
    Range2(s.spl, SplLenLimit + 4) \cup {s.thunk} \cup UNION {Table(t) : t \in s.tts}
    \cup (IF s.mmu_tt_addr = 0 THEN {} ELSE Table(s.mmu_tt_addr))
    \cup UNION {Range2(s.swaps[i].buf2, s.swaps[i].size) : i \in DOMAIN s.swaps}

Brom(a) == <<"brom", a>>    \* what the boot ROM left in the cell
Code(k) == <<"spl", k>>     \* a piece of the boot loader
Tt == <<"table", 0>>

SplInit ==
    /\ sp_soc \in Socs /\ sp_len \in SplLens
    /\ sp_pc = "start" /\ sp_runs = 1
    /\ sp_ttbr0 \in Soc.tts /\ sp_mmu = (sp_ttbr0 # -1)
    /\ sp_icache \in {sp_mmu} \cup (IF sp_soc = "A33" THEN {TRUE} ELSE {})
    /\ sp_mem = [a \in SplCells(Soc) |-> IF a \in Table(sp_ttbr0) THEN Tt ELSE Brom(a)]
    /\ sp_tt = FALSE /\ sp_cur = 0 /\ sp_left = 0 /\ sp_limit = 0 /\ sp_i = 0

(* pr_fatal, usb_error: the program ends, the board stays as it is. *)
Fatal == sp_pc' = "exit" /\ UNCHANGED <<sp_soc, sp_len, sp_mem, sp_mmu, sp_icache,
             sp_ttbr0, sp_tt, sp_cur, sp_left, sp_limit, sp_i, sp_runs>>
Trouble == sp_pc \notin {"off", "exit", "done"} /\ Fatal

(* Past the checks of the file (a bad one is as good as Trouble): the L2   *)
(* cache, the stack pointers, all by routines in the scratch area, then    *)
(* aw_backup_and_disable_mmu and the choice of a table of our own. *)
DisableMmu ==
    /\ sp_pc = "start" /\ sp_pc' = "pieces"
    /\ \/ /\ sp_mmu
          /\ sp_mmu' = FALSE /\ sp_icache' = FALSE /\ sp_tt' = TRUE
          /\ UNCHANGED sp_ttbr0
       \/ /\ ~sp_mmu /\ Soc.mmu_tt_addr # 0
          /\ sp_ttbr0' = Soc.mmu_tt_addr /\ sp_tt' = TRUE
          /\ UNCHANGED <<sp_mmu, sp_icache>>
       \/ /\ ~sp_mmu /\ Soc.mmu_tt_addr = 0
          /\ sp_tt' = FALSE /\ UNCHANGED <<sp_mmu, sp_icache, sp_ttbr0>>
    /\ sp_mem' = Scratched(sp_mem)
    /\ sp_cur' = Soc.spl /\ sp_left' = sp_len /\ sp_limit' = SplLenLimit /\ sp_i' = 1
    /\ UNCHANGED <<sp_soc, sp_len, sp_runs>>

(* The next n units of the boot loader, written from the address to on. *)
Upload(mem, to, first, n) ==
    [a \in DOMAIN mem |-> IF a \in Range2(to, n) THEN Code(first + a - to) ELSE mem[a]]
Lesser(x, y) == IF x < y THEN x ELSE y

(* One entry of swap_buffers: up to buf1, then what belongs there to buf2. *)
Piece1Over(cur, left, s) ==                      \* mutant: one unit too far
    IF left > 0 /\ cur < s.buf1 THEN Lesser(s.buf1 - cur + 1, left) ELSE 0
Piece1(cur, left, s) == IF left > 0 /\ cur < s.buf1 THEN Lesser(s.buf1 - cur, left) ELSE 0
Piece2(cur, left, s) == IF left > 0 /\ cur = s.buf1 THEN Lesser(s.size, left) ELSE 0

WritePieces ==
    /\ sp_pc = "pieces" /\ sp_i <= Len(Soc.swaps)
    /\ LET s == Soc.swaps[sp_i]
           n1 == Piece1(sp_cur, sp_left, s)
           n2 == Piece2(sp_cur + n1, sp_left - n1, s)
           at == sp_len - sp_left
       IN  /\ sp_limit' = IF s.buf2 >= Soc.spl /\ s.buf2 < Soc.spl + sp_limit
                          THEN s.buf2 - Soc.spl ELSE sp_limit
           /\ sp_mem' = Upload(Upload(sp_mem, sp_cur, at, n1), s.buf2, at + n1, n2)
           /\ sp_cur' = sp_cur + n1 + n2 /\ sp_left' = sp_left - n1 - n2
    /\ sp_i' = sp_i + 1
    /\ UNCHANGED <<sp_pc, sp_soc, sp_len, sp_mmu, sp_icache, sp_ttbr0, sp_tt, sp_runs>>

LimitOf(limit) == Lesser(Soc.thunk, limit)

(* The limit, the rest of the boot loader, and the thunk. *)
WriteRest ==
    /\ sp_pc = "pieces" /\ sp_i > Len(Soc.swaps)
    /\ IF sp_len > LimitOf(sp_limit) THEN Fatal
       ELSE /\ sp_pc' = "thunk"
            /\ sp_mem' = [Upload(sp_mem, sp_cur, sp_len - sp_left, sp_left)
                             EXCEPT ![Soc.thunk] = <<"thunk", 0>>]
            /\ UNCHANGED <<sp_soc, sp_len, sp_mmu, sp_icache, sp_ttbr0, sp_tt, sp_cur,
                           sp_left, sp_limit, sp_i, sp_runs>>

(* swap_all_buffers: the entries do not overlap each other. *)
Swapped(mem) ==
    [a \in DOMAIN mem |->
        LET hit1 == {i \in DOMAIN Soc.swaps : a \in Range2(Soc.swaps[i].buf1, Soc.swaps[i].size)}
            hit2 == {i \in DOMAIN Soc.swaps : a \in Range2(Soc.swaps[i].buf2, Soc.swaps[i].size)}
        IN  IF hit1 # {} THEN LET s == Soc.swaps[CHOOSE i \in hit1 : TRUE]
                              IN  mem[a - s.buf1 + s.buf2]
            ELSE IF hit2 # {} THEN LET s == Soc.swaps[CHOOSE i \in hit2 : TRUE]
                                   IN  mem[a - s.buf2 + s.buf1]
            ELSE mem[a]]

InPlace(mem) == \A k \in 0 .. sp_len - 1 : mem[Soc.spl + k] = Code(k)
Marked(mem, sign) == [mem EXCEPT ![Soc.spl] = <<sign, 0>>]

(* The boot loader, external: it uses its own memory as it likes. *)
Executed(mem) ==
    [a \in DOMAIN mem |-> IF a \in Range2(Soc.spl + 1, sp_len - 1) THEN <<"used", 0>> ELSE mem[a]]

(* fel-to-spl-thunk.S. *)
RunThunk ==
    /\ sp_pc = "thunk" /\ sp_pc' = "check"
    /\ sp_mem' = IF sp_icache THEN Marked(sp_mem, "???")
                 ELSE LET mem == Swapped(sp_mem) IN
                      Swapped(IF InPlace(mem) THEN Executed(Marked(mem, "FEL"))
                              ELSE Marked(mem, "BAD"))
    /\ UNCHANGED <<sp_soc, sp_len, sp_mmu, sp_icache, sp_ttbr0, sp_tt, sp_cur, sp_left,
                   sp_limit, sp_i, sp_runs>>

(* The signature, and aw_restore_and_enable_mmu. *)
CheckAndEnable ==
    /\ sp_pc = "check"
    /\ IF sp_mem[Soc.spl] # <<"FEL", 0>> THEN Fatal
       ELSE /\ sp_pc' = "done"
            /\ IF sp_tt
               THEN /\ sp_mem' = [a \in DOMAIN sp_mem |->
                                     IF a \in Table(sp_ttbr0) THEN Tt ELSE Scratched(sp_mem)[a]]
                    /\ sp_mmu' = TRUE /\ sp_icache' = TRUE
               ELSE UNCHANGED <<sp_mem, sp_mmu, sp_icache>>
            /\ UNCHANGED <<sp_soc, sp_len, sp_ttbr0, sp_tt, sp_cur, sp_left, sp_limit,
                           sp_i, sp_runs>>

(* The user tries again with the board as it is. *)
Again ==
    /\ sp_pc \in {"exit", "done"} /\ sp_runs < SplMaxRuns
    /\ sp_pc' = "start" /\ sp_runs' = sp_runs + 1
    /\ UNCHANGED <<sp_soc, sp_len, sp_mem, sp_mmu, sp_icache, sp_ttbr0, sp_tt, sp_cur,
                   sp_left, sp_limit, sp_i>>

SplNext ==
    \/ DisableMmu \/ WritePieces \/ WriteRest \/ RunThunk \/ CheckAndEnable
    \/ Trouble \/ Again

-----------------------------------------------------------------------------
(* The boot ROM runs between any two requests and needs its stacks: they   *)
(* are what they were at every moment outside the thunk, whatever the      *)
(* length of the boot loader and wherever a request fails ("overwriting    *)
(* them kills FEL", soc_info.c 34).                                        *)
BromIntact ==
    sp_pc # "off" =>
        \A i \in DOMAIN Soc.swaps :
            \A a \in Range2(Soc.swaps[i].buf1, Soc.swaps[i].size) : sp_mem[a] = Brom(a)

(* The pieces uploaded around the stacks and the swap put the boot loader  *)
(* together again: the checksum in the thunk never fails.                  *)
SplComplete == sp_pc # "off" => sp_mem[Soc.spl] # <<"BAD", 0>>

(* The backup of the stacks, the thunk and the MMU table share memory      *)
(* ("we can also safely use it ... because the MMU is temporarily          *)
(* disabled", soc_info.c 50-53): while the MMU is on its table is whole,   *)
(* also after a run that failed and one that followed it.                  *)
MmuTableWhole == sp_mmu => \A a \in Table(sp_ttbr0) : sp_mem[a] = Tt
=============================================================================
