----------------------------- MODULE UbiVolumes -----------------------------
(***************************************************************************)
(* ubimkvol, ubirmvol, ubirsvol and ubirename with the volume look-up of   *)
(* libubi.c.  The kernel's volume table and its ioctls are external;       *)
(* another process changes the table between any two reads.                *)
(***************************************************************************)
EXTENDS Integers, Sequences, FiniteSets, FiniteSetsExt, SequencesExt

CONSTANTS UvIds, UvNames,
          UvLebSize, UvTotal,   \* bytes in a logical eraseblock, LEBs of the device
          UvTables,             \* what the volume table may hold at first
          UvCommands,           \* [op, id, name, bytes, lebs, max, align] or [op, pairs]
          UvMaxOther            \* bound on the steps of the other process

VARIABLES uv_pc, uv_cmd,
          uv_tab,               \* volume ID -> [name, lebs, align], or NoVol
          uv_avail, uv_range,   \* what ubi_get_dev_info1 read
          uv_i, uv_arg,         \* loop over the IDs; pair of names looked up
          uv_info,              \* the ubi_vol_info read last
          uv_ids,               \* the IDs found so far
          uv_result,            \* "none", "ok", "error" or "missing"
          uv_done,              \* the table before and after the change made here
          uv_always, uv_ever,   \* <<ID, name>> all the time, at some time
          uv_other

uvVars == <<uv_pc, uv_cmd, uv_tab, uv_avail, uv_range, uv_i, uv_arg, uv_info, uv_ids, uv_result,
            uv_done, uv_always, uv_ever, uv_other>>
uvLook == <<uv_avail, uv_range, uv_i, uv_arg, uv_info, uv_ids>>
uvKernel == <<uv_tab, uv_always, uv_ever>>

NoVol == [name |-> "", lebs |-> 0, align |-> 1]
Used(tab) == {v \in UvIds : tab[v] # NoVol}
Named(tab) == {<<v, tab[v].name>> : v \in Used(tab)}
Avail(tab) == UvTotal - MapThenSumSet(LAMBDA v : tab[v].lebs, UvIds)

UvOff ==
    /\ uv_pc = "off" /\ uv_cmd = <<>> /\ uv_tab = <<>> /\ uv_avail = 0 /\ uv_range = <<>>
    /\ uv_i = 0 /\ uv_arg = 0 /\ uv_info = <<>> /\ uv_ids = <<>> /\ uv_result = "none"
    /\ uv_done = <<>> /\ uv_always = {} /\ uv_ever = {} /\ uv_other = 0

UvInit ==
    /\ uv_cmd \in UvCommands /\ uv_tab \in UvTables
    /\ uv_pc = "parse" /\ uv_avail = 0 /\ uv_range = <<>> /\ uv_i = 0 /\ uv_arg = 1
    /\ uv_info = NoVol /\ uv_ids = <<>> /\ uv_result = "none" /\ uv_done = <<>>
    /\ uv_always = Named(uv_tab) /\ uv_ever = Named(uv_tab) /\ uv_other = 0

Change(tab) ==
    /\ uv_tab' = tab
    /\ uv_always' = uv_always \cap Named(tab)
    /\ uv_ever' = uv_ever \cup Named(tab)

Exit(result) == uv_pc' = "exit" /\ uv_result' = result
Go(pc) == uv_pc' = pc /\ UNCHANGED uv_result

(* parse_opt and param_sanity_check; -1 and "" for what is not given. *)
Sizes(c) == {o \in {"bytes", "lebs", "max"} : c[o] # -1}
Accepts(c) ==
    CASE c.op = "rename" -> Len(c.pairs) > 0
      [] c.op = "mkvol" -> Cardinality(Sizes(c)) = 1 /\ c.name # ""
      [] c.op = "rmvol" -> (c.id = -1) # (c.name = "")
      [] c.op = "rsvol" -> ((c.id = -1) # (c.name = "")) /\ Cardinality(Sizes(c)) = 1

Parse ==
    /\ uv_pc = "parse"
    /\ IF ~Accepts(uv_cmd) THEN Exit("error")
       ELSE Go(IF uv_cmd.op = "rmvol" /\ uv_cmd.name = "" THEN "ioctl" ELSE "dev_info")
    /\ uv_ids' = IF uv_cmd.op = "rmvol" /\ uv_cmd.id # -1 THEN <<uv_cmd.id>> ELSE <<>>
    /\ UNCHANGED <<uv_cmd, uvKernel, uv_avail, uv_range, uv_i, uv_arg, uv_info, uv_done, uv_other>>

(* ubi_get_dev_info1, and what the commands do with it at once. *)
HighestVolId(tab) == Max(Used(tab) \cup {0})
LowestVolId(tab) == IF Used(tab) = {} THEN 0 ELSE Min(Used(tab))

DevInfo ==
    /\ uv_pc = "dev_info"
    /\ uv_avail' = Avail(uv_tab) /\ uv_range' = <<LowestVolId(uv_tab), HighestVolId(uv_tab)>>
    /\ uv_i' = LowestVolId(uv_tab)
    /\ CASE uv_cmd.op = "mkvol" -> IF uv_avail' = 0 THEN Exit("error") ELSE Go("ioctl")
         [] uv_cmd.op = "rsvol" /\ uv_cmd.name = "" -> Go("by_id")
         [] OTHER -> Go("by_name")
    /\ UNCHANGED <<uv_cmd, uvKernel, uv_arg, uv_info, uv_ids, uv_done, uv_other>>

(* ubi_get_vol_info1 of the ID given to ubirsvol. *)
ById ==
    /\ uv_pc = "by_id"
    /\ IF uv_cmd.id \in Used(uv_tab)
       THEN /\ uv_info' = uv_tab[uv_cmd.id] /\ uv_ids' = <<uv_cmd.id>>
            /\ Go("ioctl")
       ELSE Exit("missing") /\ UNCHANGED <<uv_info, uv_ids>>
    /\ UNCHANGED <<uv_cmd, uvKernel, uv_avail, uv_range, uv_i, uv_arg, uv_done, uv_other>>

(* ubi_get_vol_info1_nm and get_vol_id of ubirename: one ID of the loop,   *)
(* whose files are read one after the other, the name last.  A file that   *)
(* is not there passes the ID over; any other failure ends the look-up, as *)
(* when the volume goes between an open and its read, and for ubirename    *)
(* that is "volume not found" too.                                         *)
NamePrefix(name, info) == info.name \in {name, "b"}   \* mutant: "b" for all it begins
SameName(name, info) == name = info.name

Name == IF uv_cmd.op = "rename" THEN uv_cmd.pairs[uv_arg][1] ELSE uv_cmd.name
LastArg == uv_cmd.op # "rename" \/ uv_arg = Len(uv_cmd.pairs)
Looking == uv_pc \in {"by_name", "name"} /\ uv_i <= uv_range[2]

LookRead ==
    /\ Looking /\ uv_pc = "by_name" /\ uv_tab[uv_i] # NoVol
    /\ uv_info' = [uv_tab[uv_i] EXCEPT !.name = ""]
    /\ Go("name")
    /\ UNCHANGED <<uv_cmd, uvKernel, uv_avail, uv_range, uv_i, uv_arg, uv_ids, uv_done, uv_other>>

LookFound ==
    /\ Looking /\ uv_pc = "name" /\ uv_tab[uv_i] # NoVol /\ SameName(Name, uv_tab[uv_i])
    /\ uv_info' = [uv_info EXCEPT !.name = uv_tab[uv_i].name]
    /\ uv_ids' = Append(uv_ids, uv_i)
    /\ Go(IF LastArg THEN "ioctl" ELSE "next_name")
    /\ UNCHANGED <<uv_cmd, uvKernel, uv_avail, uv_range, uv_i, uv_arg, uv_done, uv_other>>

LookNext ==
    /\ Looking
    /\ \/ uv_tab[uv_i] = NoVol
       \/ uv_pc = "name" /\ ~SameName(Name, uv_tab[uv_i])
    /\ uv_i' = uv_i + 1
    /\ Go("by_name")
    /\ UNCHANGED <<uv_cmd, uvKernel, uv_avail, uv_range, uv_arg, uv_info, uv_ids, uv_done, uv_other>>

LookFailed ==
    /\ Looking /\ uv_tab[uv_i] # NoVol
    /\ uv_other < UvMaxOther /\ uv_other' = uv_other + 1
    /\ Change([uv_tab EXCEPT ![uv_i] = NoVol])
    /\ Exit(IF uv_cmd.op = "rename" THEN "missing" ELSE "error")
    /\ UNCHANGED <<uv_cmd, uvLook, uv_done>>

LookEnd ==
    /\ uv_pc = "by_name" /\ uv_i > uv_range[2]
    /\ Exit("missing")
    /\ UNCHANGED <<uv_cmd, uvKernel, uvLook, uv_done, uv_other>>

(* ubirename looks the next name up in the same range of IDs. *)
NextName ==
    /\ uv_pc = "next_name"
    /\ uv_arg' = uv_arg + 1 /\ uv_i' = uv_range[1]
    /\ Go("by_name")
    /\ UNCHANGED <<uv_cmd, uvKernel, uv_avail, uv_range, uv_info, uv_ids, uv_done, uv_other>>

(* The bytes asked for: ubimkvol 248-257, ubirsvol 229-230.  The leb_size  *)
(* of a volume is without its padding.                                     *)
Usable(align) == UvLebSize - (UvLebSize % align)
LebBytes(c) == Usable(c.align) * c.lebs
Bytes(c) ==
    CASE c.max # -1 -> uv_avail * UvLebSize
      [] c.lebs # -1 -> IF c.op = "mkvol" THEN LebBytes(c) ELSE Usable(uv_info.align) * c.lebs
      [] OTHER -> c.bytes

(* The kernel: UBI_IOCMKVOL, UBI_IOCRMVOL, UBI_IOCRSVOL and UBI_IOCRNVOL.  *)
Lebs(bytes, align) == (bytes + Usable(align) - 1) \div Usable(align)

KernelMkvol(c) ==
    {[uv_tab EXCEPT ![v] = [name |-> c.name, lebs |-> Lebs(Bytes(c), c.align), align |-> c.align]] :
        v \in {w \in UvIds : /\ uv_tab[w] = NoVol
                             /\ IF c.id # -1 THEN w = c.id
                                ELSE \A x \in UvIds : x < w => uv_tab[x] # NoVol
                             /\ \A x \in Used(uv_tab) : uv_tab[x].name # c.name
                             /\ Lebs(Bytes(c), c.align) <= Avail(uv_tab)}}

KernelRsvol(c) ==
    {[uv_tab EXCEPT ![v].lebs = Lebs(Bytes(c), uv_tab[v].align)] :
        v \in {w \in Used(uv_tab) \cap {uv_ids[1]} :
                  Lebs(Bytes(c), uv_tab[w].align) - uv_tab[w].lebs <= Avail(uv_tab)}}

KernelRmvol == {[uv_tab EXCEPT ![v] = NoVol] : v \in Used(uv_tab) \cap {uv_ids[1]}}

(* All names change at once; a volume that has a new name and is not       *)
(* renamed itself is removed.                                              *)
KernelRnvol(pairs) ==
    LET new == [k \in DOMAIN uv_ids |-> pairs[k][2]]
        at(v) == {k \in DOMAIN uv_ids : uv_ids[k] = v}
        ok == /\ Range(uv_ids) \subseteq Used(uv_tab)
              /\ IsInjective(uv_ids) /\ IsInjective(new)
    IN  IF ~ok THEN {}
        ELSE {[v \in UvIds |->
                IF at(v) # {} THEN [uv_tab[v] EXCEPT !.name = new[CHOOSE k \in at(v) : TRUE]]
                ELSE IF uv_tab[v].name \in Range(new) THEN NoVol ELSE uv_tab[v]]}

Outcomes(c) ==
    CASE c.op = "mkvol" -> KernelMkvol(c)
      [] c.op = "rsvol" -> KernelRsvol(c)
      [] c.op = "rmvol" -> KernelRmvol
      [] c.op = "rename" -> KernelRnvol(c.pairs)

(* After it ubimkvol reads the new volume, and fails when it has gone; that *)
(* changes nothing more and is part of this step.                          *)
Ioctl ==
    /\ uv_pc = "ioctl"
    /\ IF Outcomes(uv_cmd) = {} THEN Exit("error") /\ UNCHANGED <<uvKernel, uv_done>>
       ELSE \E tab \in Outcomes(uv_cmd) :
                /\ Change(tab) /\ uv_done' = <<uv_tab, tab>>
                /\ \/ Exit("ok")
                   \/ uv_cmd.op = "mkvol" /\ Exit("error")
    /\ UNCHANGED <<uv_cmd, uvLook, uv_other>>

(* Another process removes a volume, adds one, or exchanges two names. *)
Other ==
    /\ uv_pc \notin {"off", "parse", "exit"} /\ uv_other < UvMaxOther
    /\ uv_other' = uv_other + 1
    /\ \/ \E v \in Used(uv_tab) : Change([uv_tab EXCEPT ![v] = NoVol])
       \/ \E v \in UvIds, n \in UvNames, a \in {1, 4} :
             /\ uv_tab[v] = NoVol /\ Avail(uv_tab) > 0
             /\ \A x \in Used(uv_tab) : uv_tab[x].name # n
             /\ Change([uv_tab EXCEPT ![v] = [name |-> n, lebs |-> 1, align |-> a]])
       \/ \E v, w \in Used(uv_tab) :
             /\ v < w
             /\ Change([uv_tab EXCEPT ![v].name = uv_tab[w].name, ![w].name = uv_tab[v].name])
    /\ UNCHANGED <<uv_pc, uv_cmd, uvLook, uv_result, uv_done>>

UvNext ==
    \/ Parse \/ DevInfo \/ ById \/ LookRead \/ LookFound \/ LookNext
    \/ LookFailed \/ LookEnd \/ NextName \/ Ioctl \/ Other

-----------------------------------------------------------------------------
Changed == {v \in UvIds : uv_done # <<>> /\ uv_done[1][v] # uv_done[2][v]}

(* "ubimkvol -S n" makes a volume of n logical eraseblocks whatever its    *)
(* alignment, and "ubirsvol -S n" leaves it with n, unless another process *)
(* replaced the volume by one of another alignment after it was read.      *)
LebsAsAsked ==
    uv_done # <<>> /\ uv_cmd.op \in {"mkvol", "rsvol"} =>
        \A v \in Changed :
            LET now == uv_done[2][v] IN
            /\ uv_cmd.op = "mkvol" /\ uv_cmd.lebs # -1 => now.lebs = uv_cmd.lebs
            /\ uv_cmd.op = "mkvol" /\ uv_cmd.max # -1 => now.lebs >= uv_avail
            /\ uv_cmd.op = "rsvol" /\ uv_cmd.lebs # -1 /\ now.align = uv_info.align =>
                  now.lebs = uv_cmd.lebs

(* A volume is only said to be missing when it was not there, under that   *)
(* name, during the whole look-up, however others come and go around it.   *)
(* Not so of ubirename when the loop breaks off at some other volume that  *)
(* goes while it is read: the code says "volume not found" of any failure  *)
(* (ubirename.c 58-63, 122).                                               *)
VolumeFound ==
    uv_result = "missing" =>
        \/ uv_cmd.op = "rename" /\ uv_i <= uv_range[2]
        \/ \A e \in uv_always : IF uv_cmd.op = "rsvol" /\ uv_cmd.name = "" THEN e[1] # uv_cmd.id
                                ELSE e[2] # Name

(* What is removed, resized or renamed by name carried that name at some   *)
(* time during the command.  (Not necessarily at the ioctl, which takes    *)
(* the ID that was looked up before.)  Nothing is renamed unless every old *)
(* name was found.                                                         *)
ActsOnNamed ==
    uv_done # <<>> =>
        CASE uv_cmd.op \in {"rmvol", "rsvol"} ->
                 \A v \in Changed : IF uv_cmd.name = "" THEN v = uv_cmd.id
                                    ELSE <<v, uv_cmd.name>> \in uv_ever
          [] uv_cmd.op = "rename" ->
                 /\ Len(uv_ids) = Len(uv_cmd.pairs)
                 /\ \A k \in DOMAIN uv_ids : <<uv_ids[k], uv_cmd.pairs[k][1]>> \in uv_ever
          [] OTHER -> Cardinality(Changed) = 1

-----------------------------------------------------------------------------
(***************************************************************************)
(* ubiupdatevol.c: a volume is truncated or given new contents through the *)
(* kernel's update operation (external).  A byte of the input is its       *)
(* offset.  The process may be killed at any point.                        *)
(***************************************************************************)

CONSTANTS UuFileSizes, UuCommands,  \* [truncate, img ("", "file", "-"), size, skip]
          UuRsvd, UuLeb             \* bytes reserved for the volume, in a LEB

VARIABLES uu_pc, uu_cmd,
          uu_file,          \* size of the input; it may become shorter
          uu_bytes, uu_pos, \* still to copy; offset of the next read
          uu_buf,           \* offsets in buf that are not written yet
          uu_eintr,         \* errno is EINTR
          uu_total,         \* what update_volume announced
          uu_vol,           \* [marker, want, data]
          uu_status

uuVars == <<uu_pc, uu_cmd, uu_file, uu_bytes, uu_pos, uu_buf, uu_eintr, uu_total, uu_vol, uu_status>>

Old == <<-1>>                     \* a byte of no input

UuOff ==
    /\ uu_pc = "off" /\ uu_cmd = <<>> /\ uu_file = 0 /\ uu_bytes = 0 /\ uu_pos = 0 /\ uu_buf = <<>>
    /\ uu_eintr = FALSE /\ uu_total = 0 /\ uu_vol = <<>> /\ uu_status = -1

UuInit ==
    /\ uu_cmd \in UuCommands /\ uu_file \in UuFileSizes
    /\ uu_pc = "parse" /\ uu_bytes = 0 /\ uu_pos = 0 /\ uu_buf = <<>> /\ uu_eintr = FALSE
    /\ uu_total = 0 /\ uu_vol = [marker |-> FALSE, want |-> 0, data |-> Old] /\ uu_status = -1

UuExit(status) == uu_pc' = "exit" /\ uu_status' = status
UuGo(pc) == uu_pc' = pc /\ UNCHANGED uu_status
UuKeep == UNCHANGED <<uu_cmd, uu_pos, uu_buf, uu_eintr>>

(* parse_opt and the look-up of the node. *)
UuAccepts(c) ==
    /\ c.img = "" => c.truncate
    /\ c.img # "" => ~c.truncate
    /\ c.img = "-" => c.size # 0

UuParse ==
    /\ uu_pc = "parse"
    /\ \/ UuAccepts(uu_cmd) /\ UuGo(IF uu_cmd.truncate THEN "truncate" ELSE "size")
       \/ UuExit(-1)                          \* also: no such node
    /\ UuKeep /\ UNCHANGED <<uu_file, uu_bytes, uu_total, uu_vol>>

(* update_volume up to the seek. *)
BytesOf(c) == IF c.size # 0 THEN c.size ELSE uu_file - c.skip
SeekTo(c) == c.skip
Size ==
    /\ uu_pc = "size"
    /\ uu_bytes' = BytesOf(uu_cmd) /\ uu_total' = uu_bytes'
    /\ IF uu_bytes' > UuRsvd \/ (uu_cmd.img = "-" /\ uu_cmd.skip # 0)
       THEN UuExit(-1) /\ UNCHANGED uu_pos
       ELSE UuGo("start") /\ uu_pos' = SeekTo(uu_cmd)
    /\ UNCHANGED <<uu_cmd, uu_buf, uu_eintr, uu_file, uu_vol>>

(* UBI_IOCVOLUP: the update marker is set and the contents are dropped; an *)
(* update of 0 bytes is over at once.                                      *)
KernelStart(bytes) ==
    uu_vol' = [marker |-> bytes # 0, want |-> bytes, data |-> <<>>]

(* ubi_update_start of truncate_volume and update_volume. *)
Start ==
    /\ uu_pc \in {"truncate", "start"}
    /\ \/ /\ uu_bytes >= 0
          /\ KernelStart(uu_bytes)
          /\ IF uu_pc = "truncate" THEN UuExit(0) ELSE UuGo("copy")
       \/ UuExit(-1) /\ UNCHANGED uu_vol
    /\ UuKeep /\ UNCHANGED <<uu_file, uu_bytes, uu_total>>

(* The loop of update_volume: read(), which may be short, interrupted, at  *)
(* the end of the input or failing.  A read of 0 bytes leaves errno alone. *)
Read ==
    /\ uu_pc = "copy" /\ uu_buf = <<>> /\ uu_bytes > 0
    /\ \/ \E n \in 1 .. Min({UuLeb, uu_bytes, uu_file - uu_pos}) :
             /\ uu_buf' = [k \in 1 .. n |-> uu_pos + k - 1]
             /\ uu_pos' = uu_pos + n /\ uu_bytes' = uu_bytes - n
             /\ UuGo("copy") /\ UNCHANGED uu_eintr
       \/ uu_eintr' = TRUE /\ UuGo("copy") /\ UNCHANGED <<uu_buf, uu_pos, uu_bytes>>
       \/ /\ uu_pos >= uu_file
          /\ IF uu_eintr THEN UuGo("copy") ELSE UuExit(-1)
          /\ UNCHANGED <<uu_buf, uu_pos, uu_bytes, uu_eintr>>
       \/ uu_eintr' = FALSE /\ UuExit(-1) /\ UNCHANGED <<uu_buf, uu_pos, uu_bytes>>
    /\ UNCHANGED <<uu_cmd, uu_file, uu_total, uu_vol>>

(* ubi_write: write() may take less, be interrupted or fail.  The kernel   *)
(* clears the marker with the last of the bytes announced.                 *)
Rest(buf, n) == SubSeq(buf, n + 1, Len(buf))

Write ==
    /\ uu_pc = "copy" /\ uu_buf # <<>>
    /\ \/ \E n \in 1 .. Len(uu_buf) :
             LET data == uu_vol.data \o SubSeq(uu_buf, 1, n) IN
             /\ uu_vol' = [uu_vol EXCEPT !.data = data, !.marker = Len(data) < uu_vol.want]
             /\ uu_buf' = Rest(uu_buf, n)
             /\ UuGo("copy") /\ UNCHANGED uu_eintr
       \/ uu_eintr' = TRUE /\ UuGo("copy") /\ UNCHANGED <<uu_buf, uu_vol>>
       \/ UuExit(-1) /\ UNCHANGED <<uu_buf, uu_vol, uu_eintr>>
    /\ UNCHANGED <<uu_cmd, uu_file, uu_pos, uu_bytes, uu_total>>

Finish ==
    /\ uu_pc = "copy" /\ uu_buf = <<>> /\ uu_bytes <= 0
    /\ UuExit(0)
    /\ UuKeep /\ UNCHANGED <<uu_file, uu_bytes, uu_total, uu_vol>>

(* The input becomes shorter after it was measured; the process is killed. *)
Shrink ==
    /\ uu_pc \in {"start", "copy"} /\ uu_file > 0
    /\ uu_file' = uu_file - 1
    /\ UuKeep /\ UNCHANGED <<uu_pc, uu_bytes, uu_total, uu_vol, uu_status>>

Killed ==
    /\ uu_pc \notin {"off", "exit", "killed"}
    /\ uu_pc' = "killed"
    /\ UuKeep /\ UNCHANGED <<uu_file, uu_bytes, uu_total, uu_vol, uu_status>>

UuNext == UuParse \/ Size \/ Start \/ Read \/ Write \/ Finish \/ Shrink \/ Killed

-----------------------------------------------------------------------------
Slice == [k \in 1 .. uu_total |-> uu_cmd.skip + k - 1]

(* Whenever the volume does not carry the update marker it holds all of    *)
(* its old contents or all of the new, wherever the command was killed or  *)
(* failed; the new contents are the input from --skip on.                  *)
UpdateWhole ==
    uu_pc # "off" /\ ~uu_vol.marker => uu_vol.data = Old \/ uu_vol.data = Slice

(* Status 0 means that the new contents are there, through short reads and *)
(* writes, interrupts and an input that becomes shorter.                   *)
UpdateDone == uu_status = 0 => ~uu_vol.marker /\ uu_vol.data = Slice
=============================================================================
