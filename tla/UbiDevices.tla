----------------------------- MODULE UbiDevices -----------------------------
(***************************************************************************)
(* ubiattach, ubidetach and the look-up of UBI device nodes in libubi.c.   *)
(* The kernel's sysfs tree and its ioctls are external; another process    *)
(* attaches and detaches devices between any two of the reads.             *)
(***************************************************************************)
EXTENDS Integers, FiniteSets, FiniteSetsExt

CONSTANTS UdDevs,           \* UBI device numbers
          UdMtds, UdMajors, \* MTD device numbers, majors of UBI devices
          UdTrees,          \* what sysfs holds at first
          UdCommands,       \* [op, devn, mtdn, minor, beb] or [op, major, minor]
          UdMaxOther        \* bound on the steps of the other process

VARIABLES ud_pc, ud_cmd, ud_old,    \* ud_old: a kernel before 3.7
          ud_sys,           \* UBI device number -> [mtd, major, vols], or Absent
          ud_i, ud_high,    \* the loops over lowest_dev_num .. highest_dev_num
          ud_dev,           \* the device number the command found or was given
          ud_result,        \* "none", "ok", "error" or "nodev"
          ud_mine, ud_gone, \* devices this command attached, detached
          ud_beb,           \* max_beb_per1024 the kernel took
          ud_always, ud_ever,   \* present all the time, at some time
          ud_other

udVars == <<ud_pc, ud_cmd, ud_old, ud_sys, ud_i, ud_high, ud_dev, ud_result, ud_mine,
            ud_gone, ud_beb, ud_always, ud_ever, ud_other>>
udLoop == <<ud_i, ud_high>>
udKernel == <<ud_sys, ud_always, ud_ever>>
udDone == <<ud_mine, ud_gone, ud_beb>>
udKeep == <<ud_cmd, ud_old, ud_other>>

Absent == [mtd |-> -1, major |-> -1, vols |-> {}]
Present(sys) == {d \in UdDevs : sys[d] # Absent}
Entries(sys) == {<<d, sys[d]>> : d \in Present(sys)}

UdOff ==
    /\ ud_pc = "off" /\ ud_cmd = <<>> /\ ud_old = FALSE /\ ud_sys = <<>>
    /\ ud_i = 0 /\ ud_high = 0 /\ ud_dev = -1 /\ ud_result = "none" /\ ud_mine = {}
    /\ ud_gone = {} /\ ud_beb = 0 /\ ud_always = {} /\ ud_ever = {} /\ ud_other = 0

UdInit ==
    /\ ud_cmd \in UdCommands /\ ud_old \in BOOLEAN /\ ud_sys \in UdTrees
    /\ ud_pc = "parse" /\ ud_i = 0 /\ ud_high = 0 /\ ud_dev = -1 /\ ud_result = "none"
    /\ ud_mine = {} /\ ud_gone = {} /\ ud_beb = 0
    /\ ud_always = Entries(ud_sys) /\ ud_ever = Entries(ud_sys) /\ ud_other = 0

Change(sys) ==              \* the kernel's tree changes, by whoever
    /\ ud_sys' = sys
    /\ ud_always' = ud_always \cap Entries(sys)
    /\ ud_ever' = ud_ever \cup Entries(sys)

Exit(result) == ud_pc' = "exit" /\ ud_result' = result
Go(pc) == ud_pc' = pc /\ UNCHANGED ud_result

(* mtd_node_to_num: every MTD device has two nodes. *)
MtdNum(c) == IF c.minor # -1 THEN c.minor \div 2 ELSE c.mtdn

(* parse_opt of the two commands; -1 for an option that is not given. *)
AcceptsAttach(c) == (c.mtdn # -1 \/ c.minor # -1) /\ c.beb \in 0 .. 768
AcceptsDetach(c) ==
    Cardinality({o \in {"devn", "mtdn", "minor"} : c[o] # -1}) = 1

Parse ==
    /\ ud_pc = "parse"
    /\ CASE ud_cmd.op = "attach" -> IF AcceptsAttach(ud_cmd) THEN Go("attach") ELSE Exit("error")
         [] ud_cmd.op = "detach" ->
                IF ~AcceptsDetach(ud_cmd) THEN Exit("error")
                ELSE Go(IF ud_cmd.devn # -1 THEN "remove" ELSE "get_info")
         [] OTHER -> Go("get_info")
    /\ ud_dev' = IF ud_cmd.op = "detach" THEN ud_cmd.devn ELSE -1
    /\ UNCHANGED <<udLoop, udKernel, udDone, udKeep>>

(* ubi_get_info: one readdir pass over sysfs. *)
LowestDevNum(sys) == IF Present(sys) = {} THEN 0 ELSE Min(Present(sys))
HighestDevNum(sys) == Max(Present(sys) \cup {0})

GetInfo ==
    /\ ud_pc \in {"get_info", "get_info2"}
    /\ ud_i' = LowestDevNum(ud_sys) /\ ud_high' = HighestDevNum(ud_sys)
    /\ Go(CASE ud_cmd.op = "detach" -> "mtd_num2ubi_dev"
            [] ud_pc = "get_info" -> "probe_node"
            [] OTHER -> "node2num")
    /\ UNCHANGED <<ud_dev, udKernel, udDone, udKeep>>

(* mtd_num2ubi_dev, ubi_probe_node, dev_node2num and vol_node2nums: one    *)
(* device of the loop, whose mtd_num or dev file is read.  A file that is  *)
(* not there is passed over; any other failure ends the look-up, as when   *)
(* the device goes between the open and the read.  ubi_detach_mtd reports  *)
(* ENODEV for all of them.                                                 *)
Wanted(entry) ==
    IF ud_cmd.op = "detach" THEN entry.mtd = MtdNum(ud_cmd) ELSE entry.major = ud_cmd.major

Looking == ud_pc \in {"mtd_num2ubi_dev", "probe_node", "node2num"}

LookNext ==
    /\ Looking /\ ud_i <= ud_high
    /\ ud_sys[ud_i] = Absent \/ ~Wanted(ud_sys[ud_i])
    /\ ud_i' = ud_i + 1
    /\ Go(ud_pc)
    /\ UNCHANGED <<ud_high, ud_dev, udKernel, udDone, udKeep>>

LookFailed ==
    /\ Looking /\ ud_i <= ud_high /\ ud_sys[ud_i] # Absent
    /\ ud_other < UdMaxOther /\ ud_other' = ud_other + 1
    /\ Change([ud_sys EXCEPT ![ud_i] = Absent])
    /\ Exit(IF ud_cmd.op = "detach" THEN "nodev" ELSE "error")
    /\ UNCHANGED <<udLoop, ud_dev, udDone, ud_cmd, ud_old>>

(* What becomes of a match: the node's minor says device (0) or volume.    *)
LookFound ==
    /\ Looking /\ ud_i <= ud_high
    /\ ud_sys[ud_i] # Absent /\ Wanted(ud_sys[ud_i])
    /\ LET vol == ud_cmd.minor - 1 IN
       CASE ud_pc = "mtd_num2ubi_dev" -> Go("remove")
         [] ud_cmd.op = "devinfo" /\ ud_cmd.minor # 0 -> Exit("error")
         [] ud_cmd.op = "volinfo" /\ ud_cmd.minor = 0 -> Exit("error")
         [] ud_cmd.op = "volinfo" /\ vol \notin ud_sys[ud_i].vols -> Exit("nodev")
         [] OTHER -> Go(IF ud_pc = "probe_node" THEN "get_info2" ELSE "read_info")
    /\ ud_dev' = ud_i
    /\ UNCHANGED <<udLoop, udKernel, udDone, udKeep>>

LookEnd ==
    /\ Looking /\ ud_i > ud_high
    /\ Exit("nodev")
    /\ UNCHANGED <<udLoop, ud_dev, udKernel, udDone, udKeep>>

(* ubi_get_dev_info1, ubi_get_vol_info1: the files of one device. *)
ReadInfo ==
    /\ ud_pc = "read_info"
    /\ Exit(IF ud_sys[ud_dev] = Absent THEN "error" ELSE "ok")
    /\ UNCHANGED <<udLoop, ud_dev, udKernel, udDone, udKeep>>

(* UBI_IOCATT.  A new kernel refuses a negative max_beb_per1024; an old    *)
(* one does not look at it.                                                *)
Free(devn) == {d \in UdDevs : ud_sys[d] = Absent /\ (devn = -1 \/ d = devn)}
Attached(mtd) == \E d \in Present(ud_sys) : ud_sys[d].mtd = mtd
FreeMajors == UdMajors \ {ud_sys[d].major : d \in Present(ud_sys)}

KernelAttach(beb) ==
    \E d \in Free(ud_cmd.devn), major \in FreeMajors :
        /\ ~Attached(MtdNum(ud_cmd)) /\ (beb # -1 \/ ud_old)
        /\ Change([ud_sys EXCEPT ![d] = [mtd |-> MtdNum(ud_cmd), major |-> major, vols |-> {}]])
        /\ ud_mine' = ud_mine \cup {d} /\ ud_dev' = d
        /\ ud_beb' = IF ud_old THEN 0 ELSE beb

(* ubi_attach: with --max-beb-per1024 a first call probes the kernel. *)
ProbeValue(beb) == IF beb # 0 THEN -1 ELSE 0

AttachProbe ==
    /\ ud_pc = "attach" /\ ud_cmd.beb # 0
    /\ \/ KernelAttach(ProbeValue(ud_cmd.beb)) /\ Exit("error")     \* ignored: returns 1
       \/ /\ \/ ~ud_old /\ Go("attach2")                            \* EINVAL
             \/ Exit("error")
          /\ UNCHANGED <<udKernel, ud_mine, ud_dev, ud_beb>>
    /\ UNCHANGED <<udLoop, ud_gone, udKeep>>

AttachDev ==
    /\ \/ ud_pc = "attach" /\ ud_cmd.beb = 0
       \/ ud_pc = "attach2"
    /\ \/ KernelAttach(ud_cmd.beb) /\ Go("read_info")
       \/ Exit("error") /\ UNCHANGED <<udKernel, ud_mine, ud_dev, ud_beb>>
    /\ UNCHANGED <<udLoop, ud_gone, udKeep>>

(* ubi_remove_dev: UBI_IOCDET of a device number. *)
RemoveDev ==
    /\ ud_pc = "remove"
    /\ \/ /\ ud_dev \in Present(ud_sys)
          /\ ud_gone' = ud_gone \cup {<<ud_dev, ud_sys[ud_dev]>>}
          /\ Change([ud_sys EXCEPT ![ud_dev] = Absent])
          /\ Exit("ok")
       \/ Exit("error") /\ UNCHANGED <<udKernel, ud_gone>>          \* busy, or not there
    /\ UNCHANGED <<udLoop, ud_dev, ud_mine, ud_beb, udKeep>>

(* Another process. *)
Other ==
    /\ ud_pc \notin {"off", "parse", "exit"} /\ ud_other < UdMaxOther
    /\ ud_other' = ud_other + 1
    /\ \/ \E d \in Present(ud_sys) : Change([ud_sys EXCEPT ![d] = Absent])
       \/ \E d \in Free(-1), mtd \in UdMtds, major \in FreeMajors :
             /\ ~Attached(mtd)
             /\ Change([ud_sys EXCEPT ![d] = [mtd |-> mtd, major |-> major, vols |-> {}]])
    /\ UNCHANGED <<ud_pc, ud_result, ud_cmd, ud_old, udLoop, ud_dev, udDone>>

UdNext ==
    \/ Parse \/ GetInfo \/ LookNext \/ LookFailed \/ LookFound \/ LookEnd \/ ReadInfo
    \/ AttachProbe \/ AttachDev \/ RemoveDev \/ Other

-----------------------------------------------------------------------------
(* "No such device" is only said of a device that was not there during the *)
(* whole look-up, however others come and go around it: the range that     *)
(* ubi_get_info returned stays good for it.  Not so of ubidetach when the  *)
(* loop breaks off at some other device that goes while it is read: the    *)
(* code says ENODEV of a device it has not come to (libubi.c 815-818).     *)
NodeFound ==
    ud_result = "nodev" =>
        \/ ud_cmd.op = "detach" /\ ud_i <= ud_high
        \/ \A e \in ud_always :
              \/ ~Wanted(e[2])
              \/ ud_cmd.op = "volinfo" /\ ud_cmd.minor - 1 \notin e[2].vols

(* ubidetach takes away at most one device, and its number belonged, at    *)
(* some time during the command, to the MTD device that was named.  (Not   *)
(* necessarily when it is detached: the number is looked up before.)       *)
DetachedNamed ==
    /\ Cardinality(ud_gone) <= 1
    /\ \A g \in ud_gone :
          IF ud_cmd.devn # -1 THEN g[1] = ud_cmd.devn
          ELSE \E e \in ud_ever :
                   /\ e[1] = g[1]
                   /\ IF ud_cmd.minor # -1 THEN ud_cmd.minor \in {2 * e[2].mtd, 2 * e[2].mtd + 1}
                      ELSE e[2].mtd = ud_cmd.mtdn

(* ubiattach attaches at most one device; when it succeeds the kernel took *)
(* the --max-beb-per1024 that was asked for; when it fails after attaching *)
(* the kernel is an old one or the new device has gone again.              *)
AttachAsAsked ==
    ud_pc = "exit" /\ ud_cmd.op = "attach" =>
        /\ Cardinality(ud_mine) <= 1
        /\ ud_result = "ok" => ud_mine # {} /\ (ud_cmd.beb # 0 => ud_beb = ud_cmd.beb)
        /\ ud_result = "error" /\ ud_mine # {} =>
              ud_old \/ \E d \in ud_mine : ud_sys[d] = Absent
=============================================================================
