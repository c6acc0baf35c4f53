----------------------------- MODULE UbiHealthd -----------------------------
(***************************************************************************)
(* ubihealthd (ubi-utils/ubihealthd.c): a daemon that reads and scrubs the  *)
(* physical eraseblocks (PEBs) of a UBI device in turn, one at every tick   *)
(* of a timer, looks for PEBs that are read too often, and keeps its        *)
(* statistics and its place in both rounds in a file.                       *)
(*                                                                         *)
(* One turn of the poll() loop is one step.  The kernel (read counters,     *)
(* erasures, timers, signals) and the loss of the daemon are steps of their *)
(* own.                                                                     *)
(***************************************************************************)
EXTENDS Integers, Sequences, FiniteSets

CONSTANTS Pebs,             \* numbers of the PEBs that UBI_IOCSTATS reports
          NumPebs,          \* dev_info.total_lebs
          ReadCompletion,   \* -r, in seconds
          ScrubCompletion,  \* -s, in seconds
          ReadThreshold,    \* -x
          MaxRc,            \* bound: a read counter of the kernel
          MaxStarts,        \* bound: how often the daemon is started
          MaxFaults         \* bound: failing calls

ASSUME HealthAssumption ==
    /\ Pebs \subseteq Nat /\ IsFiniteSet(Pebs) /\ Pebs # {}
    /\ NumPebs \in Nat /\ NumPebs >= Cardinality(Pebs)
    /\ ReadCompletion \in Nat /\ ScrubCompletion \in Nat
    /\ ReadThreshold \in Nat \ {0} /\ MaxRc \in Nat
    /\ MaxStarts \in Nat /\ MaxFaults \in Nat

MaxAhead == 2               \* bound: turns a PEB is ahead of another
Timers == {"stats", "read", "scrub"}
Signals == {"SIGUSR1", "SIGTERM"}

(* struct peb_info, as far as anything depends on it. *)
Counts == [read_cnt : 0 .. MaxRc, prev_read_cnt : 0 .. MaxRc]

VARIABLES
    up,                     \* the daemon is in its loop
    info,                   \* peb_head: the counters of every PEB
    sched_read, sched_scrub,    \* the two lists of PEBs
    armed,                  \* timers that will expire (again)
    ready,                  \* timers that have expired and were not read
    signals,                \* signals pending at the signalfd
    file,                   \* the statistics file
    rc,                     \* the kernel's read counters
    since,                  \* reads since the counters were last fetched
    erased,                 \* PEBs erased since then
    hot,                    \* PEBs read because of too many reads
    rounds,                 \* reads by the timer, less those all PEBs have had
    clean,                  \* no crash, and every file was written
    starts, faults

daemonVars == <<up, info, sched_read, sched_scrub, armed, ready>>
ghostVars == <<hot, rounds, clean>>
vars == <<up, info, sched_read, sched_scrub, armed, ready, signals, file, rc,
          since, erased, hot, rounds, clean, starts, faults>>

NrPebs == Cardinality(Pebs)

(* The kernel lists the PEBs by their numbers. *)
PebList ==
    CHOOSE s \in [1 .. NrPebs -> Pebs] :
        /\ \A i, j \in 1 .. NrPebs : i < j => s[i] < s[j]
        /\ \A p \in Pebs : \E i \in 1 .. NrPebs : s[i] = p

NoFile == [state |-> "none", next_read |-> 0, next_scrub |-> 0,
           info |-> [p \in Pebs |-> [read_cnt |-> 0, prev_read_cnt |-> 0]]]
TornFile == [NoFile EXCEPT !.state = "torn"]

Init ==
    /\ up = FALSE /\ sched_read = << >> /\ sched_scrub = << >>
    /\ info = NoFile.info
    /\ armed = {} /\ ready = {} /\ signals = {}
    /\ file = NoFile
    /\ rc = [p \in Pebs |-> 0] /\ since = rc /\ erased = {} /\ hot = {}
    /\ rounds = [p \in Pebs |-> 0] /\ clean = TRUE
    /\ starts = 0 /\ faults = 0

-----------------------------------------------------------------------------
(* Starting. *)

(* init_stats. *)
InitStats == [p \in Pebs |-> [read_cnt |-> rc[p], prev_read_cnt |-> rc[p]]]

(* The lists as the file leaves them: first the PEBs of peb_head from next  *)
(* on, then those before it.  peb_head is sorted, so this is peb_head       *)
(* turned by the number of those before next.                               *)
Before(next) ==
    LET list == PebList IN
    CHOOSE k \in 0 .. NrPebs : \A i \in 1 .. NrPebs : list[i] < next <=> i <= k

Turned(k) ==
    LET list == PebList IN
    [i \in 1 .. NrPebs |-> list[IF i + k <= NrPebs THEN i + k ELSE i + k - NrPebs]]

From(next) == Turned(Before(next))

(* read_stats_file puts the counters of the file over those of the kernel.  *)
(* It asks for num_pebs entries; an entry that is not there is whatever     *)
(* malloc returned, and may pass for the entry of a PEB.                    *)
Restored(f, i) ==
    IF f.state = "torn"
    THEN i \in [Pebs -> Counts]
    ELSE \E lost \in SUBSET Pebs :
            /\ Cardinality(lost) <= NumPebs - Cardinality(Pebs)
            /\ i \in [Pebs -> Counts]
            /\ \A p \in Pebs \ lost : i[p] = f.info[p]

(* A file cut short before its header ends leaves the numbers of the next   *)
(* PEBs unset.                                                              *)
FromFile(f, r, s) ==
    IF f.state = "torn" THEN \E a, b \in Pebs : r = From(a) /\ s = From(b)
    ELSE r = From(f.next_read) /\ s = From(f.next_scrub)

(* Mutant: the time frame is taken as minutes. *)
IntervalInMinutes(t) == CASE t = "stats" -> 60
                          [] t = "read"  -> ReadCompletion \div (60 * NumPebs)
                          [] t = "scrub" -> ScrubCompletion \div (60 * NumPebs)

(* create_and_arm_timer: a first expiry at once, then one per interval.  An *)
(* interval of 0 means no second one.                                       *)
Interval(t) == CASE t = "stats" -> 60
                 [] t = "read"  -> ReadCompletion \div NumPebs
                 [] t = "scrub" -> ScrubCompletion \div NumPebs

Start ==
    /\ ~up /\ starts < MaxStarts
    /\ starts' = starts + 1
    /\ up' = TRUE /\ armed' = Timers /\ ready' = {} /\ signals' = {}
    /\ since' = [p \in Pebs |-> 0]
    /\ \/ /\ file.state # "none"
          /\ info' \in [Pebs -> Counts] /\ Restored(file, info')
          /\ FromFile(file, sched_read', sched_scrub')
       \/ /\ file.state # "ok"
          /\ info' = InitStats
          /\ sched_read' = PebList /\ sched_scrub' = PebList
    /\ UNCHANGED <<file, rc, erased, hot, rounds, clean, faults>>

-----------------------------------------------------------------------------
(* The kernel: timers, signals, reads and erasures of PEBs. *)

Expire(t) ==
    /\ up /\ t \in armed /\ t \notin ready
    /\ ready' = ready \cup {t}
    /\ armed' = IF Interval(t) = 0 THEN armed \ {t} ELSE armed
    /\ UNCHANGED <<up, info, sched_read, sched_scrub, signals, file, rc, since,
                   erased, ghostVars, starts, faults>>

Signal(s) ==
    /\ up /\ s \notin signals
    /\ signals' = signals \cup {s}
    /\ UNCHANGED <<daemonVars, file, rc, since, erased, ghostVars, starts, faults>>

KernelReads(p) ==
    /\ rc[p] < MaxRc /\ since[p] < MaxRc
    /\ rc' = [rc EXCEPT ![p] = @ + 1]
    /\ since' = [since EXCEPT ![p] = @ + 1]
    /\ UNCHANGED <<daemonVars, signals, file, erased, ghostVars, starts, faults>>

KernelErases(p) ==
    /\ rc[p] > 0
    /\ rc' = [rc EXCEPT ![p] = 0]
    /\ erased' = erased \cup {p}
    /\ UNCHANGED <<daemonVars, signals, file, since, ghostVars, starts, faults>>

-----------------------------------------------------------------------------
(* One turn of the loop. *)

(* Mutant: a PEB must be read more often than the threshold. *)
TooOftenStrict(i) == i.read_cnt < i.prev_read_cnt \/ i.read_cnt - i.prev_read_cnt > ReadThreshold
(* Mutant: work does not reschedule. *)
WorkDrops(sched) == IF sched = << >> THEN sched ELSE Tail(sched)
(* Mutant: the file names the PEB that was done last. *)
LastPeb(sched) == IF sched = << >> THEN 0 ELSE sched[Len(sched)]

(* update_stats, for one PEB. *)
Updated(i, p) ==
    [read_cnt |-> rc[p],
     prev_read_cnt |-> IF rc[p] < i.read_cnt THEN rc[p] ELSE i.read_cnt]

(* The PEBs that are read at once.  The difference is one of unsigned       *)
(* numbers: below 0 it would be a very large one.                           *)
TooOften(i) == i.read_cnt < i.prev_read_cnt \/ i.read_cnt - i.prev_read_cnt >= ReadThreshold

(* work and schedule_peb: the first PEB has its turn and goes to the end. *)
Work(sched) == IF sched = << >> THEN sched ELSE Append(Tail(sched), Head(sched))

(* write_stats_file: the PEB a list will continue with. *)
NextPeb(sched) == IF sched = << >> THEN 0 ELSE Head(sched)

(* fopen may fail, which leaves the old file; a failing fwrite goes unseen. *)
WriteStatsFile(i, r, s, works) ==
    IF works
    THEN /\ file' = [state |-> "ok", next_read |-> NextPeb(r),
                     next_scrub |-> NextPeb(s), info |-> i]
         /\ clean' = clean
    ELSE file' \in {file, TornFile} /\ clean' = FALSE

(* The calls of a turn, of which those that do not work are counted. *)
Faulty(works1, works2) ==
    /\ faults' = faults + Cardinality({n \in 1 .. 2 : ~<<works1, works2>>[n]})
    /\ faults' <= MaxFaults

(* The memory of a daemon that is gone. *)
Gone == /\ up' = FALSE /\ info' = NoFile.info
        /\ sched_read' = << >> /\ sched_scrub' = << >>
        /\ armed' = {} /\ ready' = {} /\ signals' = {}

(* rounds, after a turn of p: counted no further than to tell a PEB that is  *)
(* ahead of another by more than one turn.                                   *)
Counted(p) ==
    LET r == [rounds EXCEPT ![p] = IF @ < MaxAhead THEN @ + 1 ELSE @]
    IN  IF \A q \in Pebs : r[q] > 0 THEN [q \in Pebs |-> r[q] - 1] ELSE r

(* The counters and the lists after the timers in t were served. *)
InfoAfter(t) ==
    IF "stats" \in t THEN [p \in Pebs |-> Updated(info[p], p)] ELSE info
ReadAfter(t) == IF "read" \in t THEN Work(sched_read) ELSE sched_read
ScrubAfter(t) == IF "scrub" \in t THEN Work(sched_scrub) ELSE sched_scrub

(* What serving the timers in t means to the PEBs. *)
Served(t) ==
    /\ hot' = {p \in Pebs : "stats" \in t /\ TooOften(InfoAfter(t)[p])}
    /\ rounds' = IF "read" \in t /\ sched_read # << >>
                 THEN Counted(Head(sched_read)) ELSE rounds
    /\ IF "stats" \in t
       THEN since' = [p \in Pebs |-> 0] /\ erased' = {}
       ELSE UNCHANGED <<since, erased>>

(* When update_stats fails the turn ends there, and the timers for reading  *)
(* and scrubbing wait for the next turn.                                    *)
TimersServed(updates) == IF updates THEN ready ELSE {}
TimersUsed(updates) == IF updates THEN ready ELSE {"stats"}

(* The loop goes on. *)
GoOn(updates) ==
    /\ updates \/ "stats" \in ready
    /\ Served(TimersServed(updates))
    /\ info' = InfoAfter(TimersServed(updates))
    /\ sched_read' = ReadAfter(TimersServed(updates))
    /\ sched_scrub' = ScrubAfter(TimersServed(updates))
    /\ ready' = ready \ TimersUsed(updates)
    /\ UNCHANGED <<up, armed>>

(* The loop is left: the file is written and the daemon ends. *)
ShutDown(t, writes) ==
    /\ Served(t)
    /\ WriteStatsFile(InfoAfter(t), ReadAfter(t), ScrubAfter(t), writes)
    /\ Gone

Turn(updates) ==
    /\ up /\ signals = {} /\ ready # {}
    /\ GoOn(updates) /\ Faulty(updates, TRUE)
    /\ UNCHANGED <<signals, file, rc, clean, starts>>

(* SIGUSR1: the file shows the lists as they were before this turn's work. *)
TurnSaves(updates, writes) ==
    /\ up /\ "SIGUSR1" \in signals
    /\ signals' = signals \ {"SIGUSR1"}
    /\ WriteStatsFile(info, sched_read, sched_scrub, writes)
    /\ GoOn(updates) /\ Faulty(updates, writes)
    /\ UNCHANGED <<rc, starts>>

(* A signal to stop still lets the turn serve its timers. *)
TurnStops(updates, writes) ==
    /\ up /\ "SIGTERM" \in signals
    /\ updates \/ "stats" \in ready
    /\ ShutDown(TimersServed(updates), writes) /\ Faulty(updates, writes)
    /\ UNCHANGED <<rc, starts>>

(* poll fails: the loop will end, but the turn is made with the revents of  *)
(* the last one.                                                            *)
PollFails(writes) ==
    /\ up
    /\ \E stale \in SUBSET Timers : ShutDown(stale, writes)
    /\ Faulty(FALSE, writes)
    /\ UNCHANGED <<rc, starts>>

(* The daemon is killed or the power fails.  The file is written in place    *)
(* and never synchronised, so it may be left cut short.                      *)
Crash ==
    /\ up
    /\ Gone
    /\ file' \in {file, TornFile}
    /\ clean' = FALSE
    /\ UNCHANGED <<rc, since, erased, hot, rounds, starts, faults>>

Loop ==
    \/ \E updates \in BOOLEAN : Turn(updates)
    \/ \E updates, writes \in BOOLEAN :
          TurnSaves(updates, writes) \/ TurnStops(updates, writes)

Next ==
    \/ Start \/ Loop \/ Crash
    \/ \E writes \in BOOLEAN : PollFails(writes)
    \/ \E t \in Timers : Expire(t)
    \/ \E s \in Signals : Signal(s)
    \/ \E p \in Pebs : KernelReads(p) \/ KernelErases(p)

Spec == Init /\ [][Next]_vars

(* The daemon runs when poll returns, and an armed timer expires. *)
Fairness == WF_vars(Loop) /\ \A t \in Timers : WF_vars(Expire(t))

FairSpec == Spec /\ Fairness

-----------------------------------------------------------------------------
(* What is checked. *)

TypeOK ==
    /\ up \in BOOLEAN /\ clean \in BOOLEAN
    /\ info \in [Pebs -> Counts]
    /\ sched_read \in Seq(Pebs) /\ sched_scrub \in Seq(Pebs)
    /\ armed \subseteq Timers /\ ready \subseteq Timers /\ signals \subseteq Signals
    /\ file \in [state : {"none", "ok", "torn"}, next_read : Pebs \cup {0},
                 next_scrub : Pebs \cup {0}, info : [Pebs -> Counts]]
    /\ rc \in [Pebs -> 0 .. MaxRc] /\ since \in [Pebs -> 0 .. MaxRc]
    /\ erased \subseteq Pebs /\ hot \subseteq Pebs
    /\ rounds \in [Pebs -> 0 .. MaxAhead]
    /\ starts \in 0 .. MaxStarts /\ faults \in 0 .. MaxFaults

(* Whatever the statistics file held when the daemon was started (nothing,  *)
(* an older state, a part of one, too few entries), both lists hold every   *)
(* PEB once, in the order of their numbers going round: no PEB was lost on  *)
(* the way from work() through the file and back (ubihealthd.c:371,         *)
(* 437-450).                                                                *)
RoundRobin ==
    up => /\ \E p \in Pebs : sched_read = From(p)
          /\ \E p \in Pebs : sched_scrub = From(p)

(* The types and the lists. *)
TurnsKept == TypeOK /\ RoundRobin

(* As long as the daemon was only ever stopped by a signal and its file     *)
(* could be written, no PEB gets a second turn at being read before every   *)
(* other has had one, however often the daemon is stopped and started       *)
(* (ubihealthd.c:175-177, 439, 446).                                        *)
EvenTurns == clean => \A p, q \in Pebs : rounds[p] - rounds[q] <= 1

(* A PEB that the kernel has read read_threshold times or more since the    *)
(* last update of the statistics is read at the next update, if it was not  *)
(* erased meanwhile and the daemon never crashed (ubihealthd.c:294-299,     *)
(* 650-654).                                                                *)
HotPebsRead ==
    [][\A p \in Pebs :
          up /\ clean /\ since[p] >= ReadThreshold /\ since'[p] = 0 /\ p \notin erased
          => p \in hot']_vars

(* And no other is: the counters, which go back to 0 with an erasure, never *)
(* differ by more than was read (ubihealthd.c:294-299).  A daemon that was  *)
(* started again also counts what was read in between.                      *)
OnlyHotRead ==
    [][starts = 1 /\ hot' # {} /\ (Loop \/ \E writes \in BOOLEAN : PollFails(writes))
       => \A p \in hot' : since[p] >= ReadThreshold]_vars

(* An expiry that the daemon has read from its timer gave a PEB its turn;   *)
(* the others wait, also when update_stats failed (ubihealthd.c:637-677).   *)
ExpiriesServed ==
    [][up /\ up' =>
          /\ "read" \in ready \ ready' => sched_read' = Work(sched_read)
          /\ "scrub" \in ready \ ready' => sched_scrub' = Work(sched_scrub)]_vars

(* A running daemon reads every PEB again and again: "Timeframe for reading *)
(* all PEBs in seconds" (ubihealthd.c:138).  A PEB that had its turn is the *)
(* last of the list.                                                        *)
EveryPebRead == \A p \in Pebs : []<>(~up \/ sched_read[NrPebs] = p)

(* The same for scrubbing (ubihealthd.c:139). *)
EveryPebScrubbed == \A p \in Pebs : []<>(~up \/ sched_scrub[NrPebs] = p)
=============================================================================
