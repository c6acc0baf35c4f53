---------------------------- MODULE MCHealthAll ----------------------------
(* Two instances of UbiHealthd: a daemon for several PEBs, and one for a    *)
(* single PEB that the kernel reads and erases.  A behaviour is one of the  *)
(* first or of the second; the other is never started.                      *)
EXTENDS UbiHealthd

CONSTANTS HotPebs, HotMaxRc

VARIABLES daemon,       \* "service" or "hot"
    h_up, h_info, h_sched_read, h_sched_scrub, h_armed, h_ready, h_signals,
    h_file, h_rc, h_since, h_erased, h_hot, h_rounds, h_clean, h_starts,
    h_faults

Hot == INSTANCE UbiHealthd WITH
    Pebs <- HotPebs, NumPebs <- 1, ReadCompletion <- 4, ScrubCompletion <- 4,
    MaxRc <- HotMaxRc, up <- h_up, info <- h_info,
    sched_read <- h_sched_read, sched_scrub <- h_sched_scrub,
    armed <- h_armed, ready <- h_ready, signals <- h_signals, file <- h_file,
    rc <- h_rc, since <- h_since, erased <- h_erased, hot <- h_hot,
    rounds <- h_rounds, clean <- h_clean, starts <- h_starts,
    faults <- h_faults

h_vars == <<h_up, h_info, h_sched_read, h_sched_scrub, h_armed, h_ready,
            h_signals, h_file, h_rc, h_since, h_erased, h_hot, h_rounds,
            h_clean, h_starts, h_faults>>

AllInit == daemon \in {"service", "hot"} /\ Init /\ Hot!Init

(* The second is followed until it crashes or cannot write its file: its    *)
(* property speaks of no later step.                                        *)
AllNext ==
    \/ daemon = "service" /\ Next /\ UNCHANGED <<daemon, h_vars>>
    \/ daemon = "hot" /\ h_clean /\ Hot!Next /\ UNCHANGED <<daemon, vars>>

(* Fairness, of the first daemon only. *)
AllSpec == AllInit /\ [][AllNext]_<<daemon, vars, h_vars>> /\ Fairness

(* A PEB that the kernel has read read_threshold times or more since the    *)
(* last update of the statistics is read at the next update, unless it was  *)
(* erased meanwhile or the daemon crashed before; and until it is started   *)
(* again no other one is, erased or not (ubihealthd.c:294-299, 650-654).    *)
HotPebRead == Hot!HotPebsRead /\ Hot!OnlyHotRead

(* A running daemon reads and scrubs every PEB again and again, through     *)
(* crashes and failed requests, and no expiry of a timer is lost            *)
(* (ubihealthd.c:138-139, 637-677).                                         *)
EveryPebServed == EveryPebRead /\ EveryPebScrubbed /\ ExpiriesServed
=============================================================================
