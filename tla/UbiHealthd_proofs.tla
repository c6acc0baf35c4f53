------------------------- MODULE UbiHealthd_proofs -------------------------
(***************************************************************************)
(* Proofs about ubihealthd, for any finite set of PEBs, any intervals, any  *)
(* threshold and any bounds.                                                *)
(*                                                                         *)
(* The lists of the daemon are always the list of all PEBs turned by some   *)
(* number (Lists).  As long as every file was written, the number by which  *)
(* the list of reads is turned is the number of PEBs that are a turn ahead  *)
(* of the others, in memory and, while the daemon is stopped, in the file   *)
(* (Places); and what the daemon remembers of a PEB's read counter and the  *)
(* reads since then are no more than the counter now (Remembered).          *)
(***************************************************************************)
EXTENDS UbiHealthd, FiniteSetTheorems, Sums

(* A minute for every leaf that does not name a prover. *)
USE SMTT(60)

(* An enumeration of S in the order of the numbers. *)
Enumerates(s, S, n) ==
    /\ s \in [1 .. n -> S]
    /\ \A i, j \in 1 .. n : i < j => s[i] < s[j]
    /\ \A p \in S : \E i \in 1 .. n : s[i] = p

(* A finite set of numbers can be listed in their order: by the least size  *)
(* of a set that cannot, less its least number.                             *)
LEMMA Enumeration ==
    ASSUME NEW S0 \in SUBSET Nat, IsFiniteSet(S0)
    PROVE  \E s : Enumerates(s, S0, Cardinality(S0))
  <1> DEFINE Bad(S, n) == IsFiniteSet(S) /\ Cardinality(S) = n /\ ~\E s : Enumerates(s, S, n)
             T == {n \in Nat : \E S \in SUBSET Nat : Bad(S, n)}
  <1>0. SUFFICES ASSUME T # {} PROVE FALSE
    <2>1. Cardinality(S0) \in Nat
      BY FS_CardinalityType
    <2> QED
      BY <2>1, Zenon
  <1>1. PICK n \in T : \A k \in T : n <= k
    BY <1>0, Least, Zenon
  <1>2. PICK S \in SUBSET Nat : Bad(S, n)
    BY <1>1
  <1>3. CASE n = 0
    <2>1. S = {}
      BY <1>2, <1>3, FS_EmptySet
    <2>2. Enumerates([i \in 1 .. 0 |-> 0], S, 0)
      BY <2>1 DEF Enumerates
    <2> QED
      BY <1>2, <1>3, <2>2
  <1>4. CASE n # 0
    <2>1. S # {}
      BY <1>2, <1>4, FS_EmptySet
    <2>2. PICK m \in S : \A y \in S : m <= y
      BY <2>1, Least, Zenon
    <2> DEFINE R == S \ {m}
    <2>3. IsFiniteSet(R) /\ Cardinality(R) = n - 1
      BY <1>2, <2>2, FS_RemoveElement
    <2>4. n - 1 \in Nat /\ ~(n <= n - 1)
      BY <1>1, <1>4
    <2>5. n - 1 \notin T
      BY <1>1, <2>4
    <2>6. PICK t : Enumerates(t, R, n - 1)
      <3>1. ~Bad(R, n - 1)
        BY <2>4, <2>5
      <3> QED
        BY <3>1, <2>3
    <2> DEFINE s == [i \in 1 .. n |-> IF i = 1 THEN m ELSE t[i - 1]]
    <2>7. \A i \in 2 .. n : i - 1 \in 1 .. n - 1 /\ s[i] = t[i - 1] /\ t[i - 1] \in R
      BY <1>1, <2>6 DEF Enumerates
    <2>8. s[1] = m /\ n \in Nat /\ n >= 1
      BY <1>1, <1>4
    <2>9. s \in [1 .. n -> S]
      <3>1. ASSUME NEW i \in 1 .. n PROVE s[i] \in S
        <4>1. i = 1 \/ i \in 2 .. n
          BY <2>8
        <4> HIDE DEF s
        <4> QED
          BY <4>1, <2>7, <2>8, <2>2, Zenon
      <3> QED
        BY <3>1, Zenon
    <2>10. \A i, j \in 1 .. n : i < j => s[i] < s[j]
      <3> HIDE DEF s
      <3>1. SUFFICES ASSUME NEW i \in 1 .. n, NEW j \in 1 .. n, i < j PROVE s[i] < s[j]
        OBVIOUS
      <3>2. j \in 2 .. n
        BY <3>1, <2>8
      <3>3. CASE i = 1
        <4>1. s[j] \in S /\ s[j] # m
          BY <2>7, <3>2
        <4>2. s[i] = m /\ m <= s[j] /\ m \in Nat /\ s[j] \in Nat
          BY <2>8, <3>3, <4>1, <2>2, Zenon
        <4> QED
          BY <4>1, <4>2
      <3>4. CASE i # 1
        <4>1. i \in 2 .. n
          BY <3>4, <2>8
        <4>2. i - 1 \in 1 .. n - 1 /\ j - 1 \in 1 .. n - 1 /\ i - 1 < j - 1
          BY <4>1, <3>1, <3>2, <2>7
        <4> QED
          BY <4>1, <4>2, <3>2, <2>6, <2>7 DEF Enumerates
      <3> QED
        BY <3>3, <3>4
    <2>11. \A p \in S : \E i \in 1 .. n : s[i] = p
      <3> HIDE DEF s
      <3>1. SUFFICES ASSUME NEW p \in S, p # m PROVE \E i \in 1 .. n : s[i] = p
        BY <2>8
      <3>2. PICK i \in 1 .. n - 1 : t[i] = p
        BY <2>6, <3>1 DEF Enumerates
      <3>3. i + 1 \in 2 .. n /\ i + 1 \in 1 .. n /\ (i + 1) - 1 = i
        BY <2>8
      <3>4. s[i + 1] = t[i]
        BY <3>3, <2>7
      <3> QED
        BY <3>2, <3>3, <3>4
    <2>12. Enumerates(s, S, n)
      BY <2>9, <2>10, <2>11 DEF Enumerates
    <2> QED
      BY <1>2, <2>12
  <1> QED
    BY <1>3, <1>4

-----------------------------------------------------------------------------
(* The lists. *)

LEMMA Sizes == NrPebs \in Nat /\ NrPebs > 0 /\ Pebs \subseteq Nat
  <1>1. IsFiniteSet(Pebs) /\ Pebs # {} /\ Pebs \subseteq Nat
    BY HealthAssumption
  <1>2. NrPebs \in Nat /\ NrPebs # 0
    BY <1>1, FS_CardinalityType, FS_EmptySet DEF NrPebs
  <1> QED
    BY <1>1, <1>2

(* PebList lists all PEBs, by their numbers. *)
LEMMA Listed == Enumerates(PebList, Pebs, NrPebs)
  <1>1. \E s : Enumerates(s, Pebs, NrPebs)
    BY Enumeration, HealthAssumption DEF NrPebs
  <1>2. \E s \in [1 .. NrPebs -> Pebs] : Enumerates(s, Pebs, NrPebs)
    BY <1>1, Zenon DEF Enumerates
  <1>3. PebList = CHOOSE s \in [1 .. NrPebs -> Pebs] : Enumerates(s, Pebs, NrPebs)
    BY Zenon DEF PebList, Enumerates
  <1> QED
    BY <1>2, <1>3, Zenon

Places0 == 0 .. NrPebs - 1
After(k) == IF k + 1 = NrPebs THEN 0 ELSE k + 1

LEMMA TurnedIs ==
    ASSUME NEW k \in Places0
    PROVE  /\ Turned(k) \in Seq(Pebs) /\ Len(Turned(k)) = NrPebs /\ Turned(k) # << >>
           /\ Head(Turned(k)) = PebList[k + 1] /\ PebList[k + 1] \in Pebs
  <1>1. \A i \in 1 .. NrPebs : PebList[i] \in Pebs
    BY Listed DEF Enumerates
  <1>2. \A i \in 1 .. NrPebs : (IF i + k <= NrPebs THEN i + k ELSE i + k - NrPebs) \in 1 .. NrPebs
    BY Sizes DEF Places0
  <1>3. Turned(k) \in [1 .. NrPebs -> Pebs]
    BY <1>1, <1>2 DEF Turned
  <1>4. Turned(k) \in Seq(Pebs) /\ Len(Turned(k)) = NrPebs /\ Turned(k) # << >>
    BY <1>3, Sizes
  <1>5. 1 + k <= NrPebs /\ 1 \in 1 .. NrPebs /\ k + 1 \in 1 .. NrPebs /\ 1 + k = k + 1
    BY Sizes DEF Places0
  <1>6. Turned(k)[1] = PebList[k + 1]
    BY <1>5 DEF Turned
  <1>7. Head(Turned(k)) = Turned(k)[1]
    BY <1>4
  <1> QED
    BY <1>1, <1>4, <1>5, <1>6, <1>7

LEMMA TurnedByNone == Turned(0) = PebList
  <1>1. PebList \in [1 .. NrPebs -> Pebs]
    BY Listed DEF Enumerates
  <1>2. \A i \in 1 .. NrPebs : PebList[IF i + 0 <= NrPebs THEN i + 0 ELSE i + 0 - NrPebs] = PebList[i]
    BY Sizes
  <1> QED
    BY <1>1, <1>2 DEF Turned

(* A turn of the first PEB turns the list by one more. *)
LEMMA WorkTurns ==
    ASSUME NEW k \in Places0
    PROVE  Work(Turned(k)) = Turned(After(k)) /\ After(k) \in Places0
  <1>0. After(k) \in Places0
    BY Sizes DEF Places0, After
  <1> DEFINE s == Turned(k)
             w == Append(Tail(s), Head(s))
  <1>1. s \in Seq(Pebs) /\ Len(s) = NrPebs /\ s # << >> /\ Head(s) = PebList[k + 1] /\ Head(s) \in Pebs
    BY TurnedIs
  <1>2. Work(s) = w
    BY <1>1 DEF Work
  <1>3. \A i \in 1 .. NrPebs : s[i] = PebList[IF i + k <= NrPebs THEN i + k ELSE i + k - NrPebs]
    BY DEF Turned
  <1>a. NrPebs \in Nat /\ NrPebs > 0
    BY Sizes
  <1> HIDE DEF s
  <1>4. Tail(s) \in Seq(Pebs) /\ Len(Tail(s)) = NrPebs - 1 /\ \A i \in 1 .. NrPebs - 1 : Tail(s)[i] = s[i + 1]
    BY <1>1, <1>a
  <1>5. w \in Seq(Pebs) /\ Len(w) = NrPebs /\ w[NrPebs] = Head(s) /\ \A i \in 1 .. NrPebs - 1 : w[i] = s[i + 1]
    BY <1>1, <1>4, <1>a
  <1> HIDE DEF w
  <1>6. w = [i \in 1 .. NrPebs |-> w[i]]
    <2>1. w \in [1 .. NrPebs -> Pebs]
      BY <1>5
    <2> QED
      BY <2>1, Zenon
  <1>7. ASSUME NEW i \in 1 .. NrPebs
        PROVE  w[i] = PebList[IF i + After(k) <= NrPebs THEN i + After(k) ELSE i + After(k) - NrPebs]
    <2>1. CASE i = NrPebs
      <3>1. (IF i + After(k) <= NrPebs THEN i + After(k) ELSE i + After(k) - NrPebs) = k + 1
        BY <2>1, <1>a DEF After, Places0
      <3> QED
        BY <3>1, <2>1, <1>5, <1>1
    <2>2. CASE i # NrPebs
      <3>1. i \in 1 .. NrPebs - 1 /\ i + 1 \in 1 .. NrPebs
        BY <2>2, <1>a
      <3>2. (IF i + After(k) <= NrPebs THEN i + After(k) ELSE i + After(k) - NrPebs)
              = (IF (i + 1) + k <= NrPebs THEN (i + 1) + k ELSE (i + 1) + k - NrPebs)
        BY <3>1, <1>a DEF After, Places0
      <3>3. w[i] = s[i + 1]
        BY <3>1, <1>5
      <3> QED
        BY <3>1, <3>2, <3>3, <1>3
    <2> QED
      BY <2>1, <2>2
  <1>8. w = Turned(After(k))
    BY <1>6, <1>7, Zenon DEF Turned
  <1> QED
    BY <1>0, <1>2, <1>8, Zenon DEF s, w

(* The list from the PEB in place k + 1 is the list turned by k. *)
LEMMA FromPlace ==
    ASSUME NEW k \in Places0
    PROVE  From(PebList[k + 1]) = Turned(k)
  <1> DEFINE P(j) == \A i \in 1 .. NrPebs : PebList[i] < PebList[k + 1] <=> i <= j
  <1>1. NrPebs \in Nat /\ k \in 0 .. NrPebs /\ k + 1 \in 1 .. NrPebs
    BY Sizes DEF Places0
  <1>2. \A i, j \in 1 .. NrPebs : (i < j => PebList[i] < PebList[j]) /\ PebList[i] \in Nat
    BY Listed, Sizes, Zenon DEF Enumerates
  <1>3. P(k)
    <2>1. SUFFICES ASSUME NEW i \in 1 .. NrPebs PROVE PebList[i] < PebList[k + 1] <=> i <= k
      OBVIOUS
    <2>2. CASE i <= k
      BY <1>1, <1>2, <2>2
    <2>3. CASE i = k + 1
      BY <1>1, <1>2, <2>3
    <2>4. CASE i > k + 1
      BY <1>1, <1>2, <2>4
    <2> QED
      BY <1>1, <2>2, <2>3, <2>4
  <1>4. ASSUME NEW j \in 0 .. NrPebs, P(j) PROVE j = k
    <2>1. ~(k + 1 <= j)
      <3>1. PebList[k + 1] < PebList[k + 1] <=> k + 1 <= k
        BY <1>3, <1>1
      <3>2. PebList[k + 1] < PebList[k + 1] <=> k + 1 <= j
        BY <1>4, <1>1
      <3> QED
        BY <3>1, <3>2, <1>1
    <2>2. ASSUME j < k PROVE FALSE
      <3>1. j + 1 \in 1 .. NrPebs /\ j + 1 <= k /\ ~(j + 1 <= j)
        BY <2>2, <1>1
      <3>2. PebList[j + 1] < PebList[k + 1] <=> j + 1 <= k
        BY <1>3, <3>1
      <3>3. PebList[j + 1] < PebList[k + 1] <=> j + 1 <= j
        BY <1>4, <3>1
      <3> QED
        BY <3>1, <3>2, <3>3
    <2> QED
      BY <2>1, <2>2, <1>1
  <1>5. Before(PebList[k + 1]) = CHOOSE j \in 0 .. NrPebs : P(j)
    BY DEF Before
  <1> HIDE DEF P
  <1>6. Before(PebList[k + 1]) = k
    BY <1>1, <1>3, <1>4, <1>5, Zenon
  <1> QED
    BY <1>6 DEF From

(* Every list from a PEB on is the list turned by less than a round. *)
LEMMA FromPeb ==
    ASSUME NEW p \in Pebs
    PROVE  \E k \in Places0 : p = PebList[k + 1] /\ From(p) = Turned(k)
  <1>1. PICK i \in 1 .. NrPebs : PebList[i] = p
    BY Listed DEF Enumerates
  <1>2. i - 1 \in Places0 /\ (i - 1) + 1 = i
    BY Sizes DEF Places0
  <1>3. From(PebList[(i - 1) + 1]) = Turned(i - 1)
    BY <1>2, FromPlace
  <1> QED
    BY <1>1, <1>2, <1>3
-----------------------------------------------------------------------------
(* The inductive invariant. *)

Lists ==
    /\ up => \E k, j \in Places0 : sched_read = Turned(k) /\ sched_scrub = Turned(j)
    /\ file.state = "ok" => file.next_read \in Pebs /\ file.next_scrub \in Pebs

(* The first k PEBs are a turn ahead of the others. *)
Ahead(k) == \A j \in 1 .. NrPebs : rounds[PebList[j]] = IF j <= k THEN 1 ELSE 0

Place(k) ==
    /\ Ahead(k)
    /\ up => sched_read = Turned(k)
    /\ ~up /\ file.state = "ok" => file.next_read = PebList[k + 1]
    /\ ~up /\ file.state = "none" => k = 0

Places == clean => file.state # "torn" /\ \E k \in Places0 : Place(k)

Remembered ==
    clean => \A p \in Pebs \ erased :
                /\ up => info[p].read_cnt + since[p] <= rc[p]
                /\ ~up /\ file.state = "ok" => file.info[p].read_cnt <= rc[p]

IInv == TypeOK /\ Lists /\ Places

-----------------------------------------------------------------------------
(* The types, and the lists, kept by each step. *)

LEMMA FaultsKept ==
    ASSUME TypeOK, NEW a \in BOOLEAN, NEW b \in BOOLEAN, Faulty(a, b)
    PROVE  faults' \in 0 .. MaxFaults
  <1> DEFINE S == {n \in 1 .. 2 : ~<<a, b>>[n]}
  <1>1. IsFiniteSet(1 .. 2)
    <2>1. 1 \in Int /\ 2 \in Int
      OBVIOUS
    <2> QED
      BY <2>1, FS_Interval, Zenon
  <1>2. IsFiniteSet(S)
    BY <1>1, FS_Subset
  <1>3. Cardinality(S) \in Nat
    BY <1>2, FS_CardinalityType
  <1>4. faults' = faults + Cardinality(S) /\ faults' <= MaxFaults
    BY DEF Faulty
  <1> HIDE DEF S
  <1>5. faults \in Nat /\ MaxFaults \in Nat
    BY HealthAssumption DEF TypeOK
  <1> QED
    BY <1>3, <1>4, <1>5

LEMMA ListsServed ==
    ASSUME Lists, up, NEW t
    PROVE  \E k, j \in Places0 : ReadAfter(t) = Turned(k) /\ ScrubAfter(t) = Turned(j)
  <1>1. PICK k \in Places0, j \in Places0 : sched_read = Turned(k) /\ sched_scrub = Turned(j)
    BY DEF Lists
  <1>2. \E m \in Places0 : ReadAfter(t) = Turned(m)
    BY <1>1, WorkTurns, Zenon DEF ReadAfter
  <1>3. \E m \in Places0 : ScrubAfter(t) = Turned(m)
    BY <1>1, WorkTurns, Zenon DEF ScrubAfter
  <1> QED
    BY <1>2, <1>3, Zenon

LEMMA InfoServed ==
    ASSUME TypeOK, NEW t
    PROVE  InfoAfter(t) \in [Pebs -> Counts]
  <1>1. info \in [Pebs -> Counts] /\ rc \in [Pebs -> 0 .. MaxRc] /\ MaxRc \in Nat
    BY HealthAssumption DEF TypeOK
  <1>2. ASSUME NEW p \in Pebs PROVE Updated(info[p], p) \in Counts
    BY <1>1 DEF Updated, Counts
  <1> QED
    BY <1>1, <1>2 DEF InfoAfter

LEMMA CountedType ==
    ASSUME TypeOK, NEW p \in Pebs
    PROVE  Counted(p) \in [Pebs -> 0 .. MaxAhead]
  <1> DEFINE r == [rounds EXCEPT ![p] = IF @ < MaxAhead THEN @ + 1 ELSE @]
  <1>1. rounds \in [Pebs -> 0 .. MaxAhead]
    BY DEF TypeOK
  <1>2. r \in [Pebs -> 0 .. MaxAhead]
    BY <1>1 DEF MaxAhead
  <1>3. Counted(p) = IF \A q \in Pebs : r[q] > 0 THEN [q \in Pebs |-> r[q] - 1] ELSE r
    BY DEF Counted
  <1> HIDE DEF r
  <1> QED
    BY <1>2, <1>3 DEF MaxAhead

LEMMA ServedType ==
    ASSUME TypeOK, Lists, up, NEW t, Served(t)
    PROVE  /\ hot' \subseteq Pebs /\ erased' \subseteq Pebs
           /\ rounds' \in [Pebs -> 0 .. MaxAhead]
           /\ since' \in [Pebs -> 0 .. MaxRc]
  <1>1. hot' \subseteq Pebs
    BY Zenon DEF Served
  <1>2. erased' \subseteq Pebs /\ since' \in [Pebs -> 0 .. MaxRc]
    <2>1. 0 \in 0 .. MaxRc
      BY HealthAssumption
    <2>2. [p \in Pebs |-> 0] \in [Pebs -> 0 .. MaxRc]
      BY <2>1
    <2> QED
      BY <2>2, Zenon DEF Served, TypeOK
  <1>3. rounds' \in [Pebs -> 0 .. MaxAhead]
    <2>1. PICK k \in Places0 : sched_read = Turned(k)
      BY DEF Lists
    <2>2. Head(sched_read) \in Pebs
      BY <2>1, TurnedIs
    <2>3. Counted(Head(sched_read)) \in [Pebs -> 0 .. MaxAhead]
      BY <2>2, CountedType
    <2> QED
      BY <2>3, Zenon DEF Served, TypeOK
  <1> QED
    BY <1>1, <1>2, <1>3

Files == [state : {"none", "ok", "torn"}, next_read : Pebs \cup {0},
          next_scrub : Pebs \cup {0}, info : [Pebs -> Counts]]

FileOK == file \in Files /\ (file.state = "ok" => file.next_read \in Pebs /\ file.next_scrub \in Pebs)

LEMMA TornIsFile == TornFile \in Files /\ TornFile.state = "torn"
  <1>1. [p \in Pebs |-> [read_cnt |-> 0, prev_read_cnt |-> 0]] \in [Pebs -> Counts]
    BY HealthAssumption DEF Counts
  <1> QED
    BY <1>1 DEF TornFile, NoFile, Files

LEMMA FileKept ==
    ASSUME FileOK, clean \in BOOLEAN, NEW i \in [Pebs -> Counts], NEW k \in Places0, NEW j \in Places0,
           NEW works \in BOOLEAN, WriteStatsFile(i, Turned(k), Turned(j), works)
    PROVE  FileOK' /\ clean' \in BOOLEAN
  <1>1. CASE works
    <2>1. NextPeb(Turned(k)) \in Pebs /\ NextPeb(Turned(j)) \in Pebs
      BY TurnedIs DEF NextPeb
    <2>2. /\ file' = [state |-> "ok", next_read |-> NextPeb(Turned(k)),
                      next_scrub |-> NextPeb(Turned(j)), info |-> i]
          /\ clean' = clean
      BY <1>1 DEF WriteStatsFile
    <2> QED
      BY <2>1, <2>2 DEF FileOK, Files
  <1>2. CASE ~works
    <2>1. file' \in {file, TornFile} /\ clean' = FALSE
      BY <1>2 DEF WriteStatsFile
    <2> QED
      BY <2>1, TornIsFile, Zenon DEF FileOK
  <1> QED
    BY <1>1, <1>2

LEMMA TypesInit == Init => TypeOK /\ Lists
  <1> SUFFICES ASSUME Init PROVE TypeOK /\ Lists
    OBVIOUS
  <1>1. NoFile.info \in [Pebs -> Counts] /\ NoFile \in Files /\ NoFile.state = "none"
    <2>1. [p \in Pebs |-> [read_cnt |-> 0, prev_read_cnt |-> 0]] \in [Pebs -> Counts]
      BY HealthAssumption DEF Counts
    <2> QED
      BY <2>1 DEF NoFile, Files
  <1>2. rc \in [Pebs -> 0 .. MaxRc] /\ since \in [Pebs -> 0 .. MaxRc] /\ rounds \in [Pebs -> 0 .. MaxAhead]
    BY HealthAssumption DEF Init, MaxAhead
  <1>3. starts \in 0 .. MaxStarts /\ faults \in 0 .. MaxFaults
    BY HealthAssumption DEF Init
  <1>4. sched_read \in Seq(Pebs) /\ sched_scrub \in Seq(Pebs)
    BY DEF Init
  <1>5. TypeOK
    BY <1>1, <1>2, <1>3, <1>4, Zenon DEF Init, TypeOK, Files
  <1> QED
    BY <1>1, <1>5 DEF Init, Lists

LEMMA FileFacts == TypeOK /\ Lists => FileOK
  BY DEF TypeOK, Lists, FileOK, Files

(* A daemon that is started has whole lists, whatever the file held. *)
LEMMA StartTypes ==
    ASSUME TypeOK, Lists, Start
    PROVE  (TypeOK /\ Lists)'
  <1>1. FileOK
    BY FileFacts
  <1>2. file' = file /\ up' = TRUE
    BY DEF Start
  <1>3. 0 \in Places0 /\ PebList = Turned(0)
    BY Sizes, TurnedByNone DEF Places0
  <1>4. \E k, j \in Places0 : sched_read' = Turned(k) /\ sched_scrub' = Turned(j)
    <2>1. CASE sched_read' = PebList /\ sched_scrub' = PebList
      BY <2>1, <1>3, Zenon
    <2>2. CASE file.state # "none" /\ FromFile(file, sched_read', sched_scrub')
      <3>1. PICK a \in Pebs, b \in Pebs : sched_read' = From(a) /\ sched_scrub' = From(b)
        <4>1. CASE file.state = "torn"
          BY <2>2, <4>1, Zenon DEF FromFile
        <4>2. CASE file.state # "torn"
          <5>1. file.state = "ok"
            BY <2>2, <4>2, <1>1 DEF FileOK, Files
          <5> QED
            BY <2>2, <4>2, <5>1, <1>1, Zenon DEF FromFile, FileOK
        <4> QED
          BY <4>1, <4>2
      <3>2. \E k \in Places0 : From(a) = Turned(k)
        BY FromPeb, Zenon
      <3>3. \E k \in Places0 : From(b) = Turned(k)
        BY FromPeb, Zenon
      <3> QED
        BY <3>1, <3>2, <3>3, Zenon
    <2> QED
      BY <2>1, <2>2, Zenon DEF Start
  <1>5. sched_read' \in Seq(Pebs) /\ sched_scrub' \in Seq(Pebs)
    BY <1>4, TurnedIs, Zenon
  <1>6. info' \in [Pebs -> Counts]
    <2>1. InitStats \in [Pebs -> Counts]
      BY DEF InitStats, TypeOK, Counts
    <2> QED
      BY <2>1, Zenon DEF Start
  <1>7. starts' \in 0 .. MaxStarts
    BY HealthAssumption DEF Start, TypeOK
  <1>8. since' \in [Pebs -> 0 .. MaxRc]
    BY HealthAssumption DEF Start
  <1>9. /\ armed' = Timers /\ ready' = {} /\ signals' = {}
        /\ UNCHANGED <<file, rc, erased, hot, rounds, clean, faults>>
    BY Zenon DEF Start
  <1>10. TypeOK'
    BY <1>2, <1>5, <1>6, <1>7, <1>8, <1>9, Zenon DEF TypeOK
  <1> QED
    BY <1>1, <1>2, <1>4, <1>10, Zenon DEF Lists, FileOK

LEMMA KernelTypes ==
    ASSUME TypeOK, Lists,
           \/ \E t \in Timers : Expire(t)
           \/ \E s \in Signals : Signal(s)
           \/ \E p \in Pebs : KernelReads(p) \/ KernelErases(p)
    PROVE  (TypeOK /\ Lists)'
  <1>1. UNCHANGED <<up, sched_read, sched_scrub, file>>
    BY Zenon DEF Expire, Signal, KernelReads, KernelErases, daemonVars
  <1>2. Lists'
    BY <1>1, Zenon DEF Lists
  <1>3. ASSUME NEW t \in Timers, Expire(t) PROVE TypeOK'
    <2>1. ready' \subseteq Timers /\ armed' \subseteq Timers
      BY <1>3, Zenon DEF Expire, TypeOK
    <2> QED
      BY <1>3, <2>1, Zenon DEF Expire, TypeOK, ghostVars
  <1>4. ASSUME NEW s \in Signals, Signal(s) PROVE TypeOK'
    <2>1. signals' \subseteq Signals
      BY <1>4, Zenon DEF Signal, TypeOK
    <2> QED
      BY <1>4, <2>1, Zenon DEF Signal, TypeOK, ghostVars, daemonVars
  <1>5. ASSUME NEW p \in Pebs, KernelReads(p) PROVE TypeOK'
    <2>1. rc' \in [Pebs -> 0 .. MaxRc] /\ since' \in [Pebs -> 0 .. MaxRc]
      BY <1>5, HealthAssumption DEF KernelReads, TypeOK
    <2> QED
      BY <1>5, <2>1, Zenon DEF KernelReads, TypeOK, ghostVars, daemonVars
  <1>6. ASSUME NEW p \in Pebs, KernelErases(p) PROVE TypeOK'
    <2>1. rc' \in [Pebs -> 0 .. MaxRc]
      BY <1>6, HealthAssumption DEF KernelErases, TypeOK
    <2>2. erased' \subseteq Pebs
      BY <1>6, Zenon DEF KernelErases, TypeOK
    <2> QED
      BY <1>6, <2>1, <2>2, Zenon DEF KernelErases, TypeOK, ghostVars, daemonVars
  <1> QED
    BY <1>2, <1>3, <1>4, <1>5, <1>6, Zenon

(* What is left when the daemon is gone. *)
LEMMA GoneTypes ==
    ASSUME TypeOK, Gone, FileOK', clean' \in BOOLEAN, UNCHANGED <<rc, starts>>,
           hot' \subseteq Pebs, erased' \subseteq Pebs,
           rounds' \in [Pebs -> 0 .. MaxAhead], since' \in [Pebs -> 0 .. MaxRc],
           faults' \in 0 .. MaxFaults
    PROVE  (TypeOK /\ Lists)'
  <1>1. NoFile.info \in [Pebs -> Counts]
    BY HealthAssumption DEF NoFile, Counts
  <1>2. << >> \in Seq(Pebs)
    OBVIOUS
  <1>3. TypeOK'
    BY <1>1, <1>2, Zenon DEF TypeOK, Gone, FileOK, Files
  <1> QED
    BY <1>3, Zenon DEF Lists, Gone, FileOK

LEMMA GoOnTypes ==
    ASSUME TypeOK, Lists, up, NEW updates \in BOOLEAN, NEW b \in BOOLEAN,
           GoOn(updates), Faulty(updates, b), UNCHANGED <<rc, starts>>,
           FileOK', clean' \in BOOLEAN, signals' \subseteq Signals
    PROVE  (TypeOK /\ Lists)'
  <1> DEFINE t == TimersServed(updates)
  <1>1. /\ Served(t) /\ info' = InfoAfter(t)
        /\ sched_read' = ReadAfter(t) /\ sched_scrub' = ScrubAfter(t)
        /\ ready' = ready \ TimersUsed(updates)
        /\ UNCHANGED <<up, armed>>
    BY Zenon DEF GoOn
  <1> HIDE DEF t
  <1>2. \E k, j \in Places0 : sched_read' = Turned(k) /\ sched_scrub' = Turned(j)
    BY <1>1, ListsServed, Zenon
  <1>3. sched_read' \in Seq(Pebs) /\ sched_scrub' \in Seq(Pebs)
    BY <1>2, TurnedIs, Zenon
  <1>4. info' \in [Pebs -> Counts]
    BY <1>1, InfoServed, Zenon
  <1>5. /\ hot' \subseteq Pebs /\ erased' \subseteq Pebs
        /\ rounds' \in [Pebs -> 0 .. MaxAhead] /\ since' \in [Pebs -> 0 .. MaxRc]
    BY <1>1, ServedType, Zenon
  <1>6. faults' \in 0 .. MaxFaults
    BY FaultsKept, Zenon
  <1>7. ready' \subseteq Timers
    BY <1>1, Zenon DEF TypeOK
  <1>8. TypeOK'
    BY <1>1, <1>3, <1>4, <1>5, <1>6, <1>7, ZenonT(30) DEF TypeOK, FileOK, Files
  <1> QED
    BY <1>2, <1>8, Zenon DEF Lists, FileOK

LEMMA ShutDownTypes ==
    ASSUME TypeOK, Lists, up, NEW t, NEW writes \in BOOLEAN, NEW b \in BOOLEAN,
           ShutDown(t, writes), Faulty(b, writes), UNCHANGED <<rc, starts>>
    PROVE  (TypeOK /\ Lists)'
  <1>1. /\ Served(t) /\ Gone
        /\ WriteStatsFile(InfoAfter(t), ReadAfter(t), ScrubAfter(t), writes)
    BY Zenon DEF ShutDown
  <1>2. PICK k \in Places0, j \in Places0 : ReadAfter(t) = Turned(k) /\ ScrubAfter(t) = Turned(j)
    BY ListsServed, Zenon
  <1>3. InfoAfter(t) \in [Pebs -> Counts]
    BY InfoServed, Zenon
  <1>4. FileOK' /\ clean' \in BOOLEAN
    <2>1. FileOK /\ clean \in BOOLEAN
      BY FileFacts DEF TypeOK
    <2> QED
      BY <1>1, <1>2, <1>3, <2>1, FileKept, ZenonT(30)
  <1>5. /\ hot' \subseteq Pebs /\ erased' \subseteq Pebs
        /\ rounds' \in [Pebs -> 0 .. MaxAhead] /\ since' \in [Pebs -> 0 .. MaxRc]
    BY <1>1, ServedType, Zenon
  <1>6. faults' \in 0 .. MaxFaults
    BY FaultsKept, Zenon
  <1> QED
    BY <1>1, <1>4, <1>5, <1>6, GoneTypes, Zenon

LEMMA TurnTypes ==
    ASSUME TypeOK, Lists, NEW updates \in BOOLEAN, NEW writes \in BOOLEAN,
           Turn(updates) \/ TurnSaves(updates, writes)
    PROVE  (TypeOK /\ Lists)'
  <1>0. FileOK /\ clean \in BOOLEAN /\ signals \subseteq Signals
    BY FileFacts DEF TypeOK
  <1>1. CASE Turn(updates)
    <2>1. /\ up /\ GoOn(updates) /\ Faulty(updates, TRUE) /\ UNCHANGED <<rc, starts>>
          /\ UNCHANGED <<signals, file, clean>>
      BY <1>1, Zenon DEF Turn
    <2>2. FileOK' /\ clean' \in BOOLEAN /\ signals' \subseteq Signals
      BY <1>0, <2>1, Zenon DEF FileOK
    <2> QED
      BY <2>1, <2>2, GoOnTypes, Zenon
  <1>2. CASE TurnSaves(updates, writes)
    <2>1. /\ up /\ GoOn(updates) /\ Faulty(updates, writes) /\ UNCHANGED <<rc, starts>>
          /\ signals' = signals \ {"SIGUSR1"}
          /\ WriteStatsFile(info, sched_read, sched_scrub, writes)
      BY <1>2, Zenon DEF TurnSaves
    <2>2. PICK k \in Places0, j \in Places0 : sched_read = Turned(k) /\ sched_scrub = Turned(j)
      BY <2>1, Zenon DEF Lists
    <2>3. FileOK' /\ clean' \in BOOLEAN
      <3>1. info \in [Pebs -> Counts]
        BY DEF TypeOK
      <3> QED
        BY <1>0, <2>1, <2>2, <3>1, FileKept, ZenonT(30)
    <2>4. signals' \subseteq Signals
      BY <1>0, <2>1, Zenon
    <2> QED
      BY <2>1, <2>3, <2>4, GoOnTypes, Zenon
  <1> QED
    BY <1>1, <1>2

LEMMA StopTypes ==
    ASSUME TypeOK, Lists, NEW updates \in BOOLEAN, NEW writes \in BOOLEAN,
           TurnStops(updates, writes) \/ PollFails(writes)
    PROVE  (TypeOK /\ Lists)'
  <1>1. PICK b \in BOOLEAN : \E t : up /\ ShutDown(t, writes) /\ Faulty(b, writes) /\ UNCHANGED <<rc, starts>>
    BY Zenon DEF TurnStops, PollFails
  <1>2. PICK t : up /\ ShutDown(t, writes) /\ Faulty(b, writes) /\ UNCHANGED <<rc, starts>>
    BY <1>1, Zenon
  <1> QED
    BY <1>2, ShutDownTypes, Zenon

LEMMA CrashTypes ==
    ASSUME TypeOK, Lists, Crash
    PROVE  (TypeOK /\ Lists)'
  <1>1. FileOK
    BY FileFacts
  <1>2. /\ Gone /\ file' \in {file, TornFile} /\ clean' = FALSE
        /\ UNCHANGED <<rc, starts>> /\ UNCHANGED <<since, erased, hot, rounds, faults>>
    BY Zenon DEF Crash
  <1>3. FileOK' /\ clean' \in BOOLEAN
    BY <1>1, <1>2, TornIsFile, Zenon DEF FileOK
  <1>4. /\ hot' \subseteq Pebs /\ erased' \subseteq Pebs
        /\ rounds' \in [Pebs -> 0 .. MaxAhead] /\ since' \in [Pebs -> 0 .. MaxRc]
        /\ faults' \in 0 .. MaxFaults
    BY <1>2, Zenon DEF TypeOK
  <1> QED
    BY <1>2, <1>3, <1>4, GoneTypes, Zenon

LEMMA StutterTypes == ASSUME TypeOK, Lists, UNCHANGED vars PROVE (TypeOK /\ Lists)'
  BY Zenon DEF TypeOK, Lists, vars

LEMMA TypesKept == TypeOK /\ Lists /\ [Next]_vars => (TypeOK /\ Lists)'
  <1> SUFFICES ASSUME TypeOK, Lists, [Next]_vars PROVE (TypeOK /\ Lists)'
    OBVIOUS
  <1>1. CASE Loop
    BY <1>1, TurnTypes, StopTypes, Zenon DEF Loop
  <1> QED
    BY <1>1, StartTypes, KernelTypes, StopTypes, CrashTypes, StutterTypes, ZenonT(30) DEF Next

-----------------------------------------------------------------------------
(* The place in the round of reads. *)

LEMMA AheadStep ==
    ASSUME TypeOK, NEW k \in Places0, Ahead(k)
    PROVE  \A j \in 1 .. NrPebs :
              Counted(PebList[k + 1])[PebList[j]] = IF j <= After(k) THEN 1 ELSE 0
  <1> DEFINE p == PebList[k + 1]
             r == [rounds EXCEPT ![p] = IF @ < MaxAhead THEN @ + 1 ELSE @]
  <1>1. NrPebs \in Nat /\ k + 1 \in 1 .. NrPebs /\ k \in Nat
    BY Sizes DEF Places0
  <1>2. \A i \in 1 .. NrPebs : PebList[i] \in Pebs
    BY Listed DEF Enumerates
  <1>3. \A i, j \in 1 .. NrPebs : PebList[i] = PebList[j] => i = j
    <2>1. \A i, j \in 1 .. NrPebs : (i < j => PebList[i] < PebList[j]) /\ PebList[i] \in Nat
      BY Listed, Sizes, Zenon DEF Enumerates
    <2> QED
      BY <2>1, <1>1
  <1>4. \A q \in Pebs : \E i \in 1 .. NrPebs : PebList[i] = q
    BY Listed DEF Enumerates
  <1>5. \A j \in 1 .. NrPebs : rounds[PebList[j]] = IF j <= k THEN 1 ELSE 0
    BY DEF Ahead
  <1>6. rounds \in [Pebs -> 0 .. MaxAhead]
    BY DEF TypeOK
  <1>7. Counted(p) = IF \A q \in Pebs : r[q] > 0 THEN [q \in Pebs |-> r[q] - 1] ELSE r
    BY DEF Counted
  <1>8. \A j \in 1 .. NrPebs : r[PebList[j]] = IF j <= k + 1 THEN 1 ELSE 0
    <2>1. SUFFICES ASSUME NEW j \in 1 .. NrPebs PROVE r[PebList[j]] = IF j <= k + 1 THEN 1 ELSE 0
      OBVIOUS
    <2>2. CASE j = k + 1
      <3>1. rounds[p] = 0
        BY <1>5, <1>1
      <3>2. r[p] = 1
        BY <3>1, <1>1, <1>2, <1>6 DEF MaxAhead
      <3> QED
        BY <2>2, <3>2, <1>1
    <2>3. CASE j # k + 1
      <3>1. PebList[j] # p /\ PebList[j] \in Pebs
        BY <2>3, <1>1, <1>2, <1>3
      <3>2. r[PebList[j]] = rounds[PebList[j]]
        BY <3>1, <1>6
      <3>3. j <= k <=> j <= k + 1
        BY <2>3, <1>1
      <3> QED
        BY <3>2, <3>3, <1>5
    <2> QED
      BY <2>2, <2>3
  <1> HIDE DEF r
  <1>9. CASE k + 1 = NrPebs
    <2>1. \A j \in 1 .. NrPebs : r[PebList[j]] = 1
      BY <1>8, <1>9, <1>1
    <2>2. \A q \in Pebs : r[q] > 0
      BY <2>1, <1>4
    <2>3. Counted(p) = [q \in Pebs |-> r[q] - 1]
      BY <2>2, <1>7
    <2>4. \A j \in 1 .. NrPebs : Counted(p)[PebList[j]] = 0
      BY <2>1, <2>3, <1>2
    <2>5. After(k) = 0
      BY <1>9 DEF After
    <2> QED
      BY <2>4, <2>5, <1>1
  <1>10. CASE k + 1 # NrPebs
    <2>1. NrPebs \in 1 .. NrPebs /\ ~(NrPebs <= k + 1)
      BY <1>1, <1>10
    <2>2. r[PebList[NrPebs]] = 0 /\ PebList[NrPebs] \in Pebs
      BY <2>1, <1>2, <1>8
    <2>3. Counted(p) = r
      BY <2>2, <1>7
    <2>4. After(k) = k + 1
      BY <1>10 DEF After
    <2> QED
      BY <2>3, <2>4, <1>8
  <1> QED
    BY <1>9, <1>10

LEMMA ReadServed ==
    ASSUME TypeOK, NEW k \in Places0, Ahead(k), sched_read = Turned(k), NEW t, Served(t)
    PROVE  \E m \in Places0 : ReadAfter(t) = Turned(m) /\ Ahead(m)'
  <1>1. CASE "read" \in t
    <2>1. sched_read # << >> /\ Head(sched_read) = PebList[k + 1]
      BY TurnedIs
    <2>2. rounds' = Counted(PebList[k + 1])
      BY <1>1, <2>1, Zenon DEF Served
    <2>3. Ahead(After(k))'
      BY <2>2, AheadStep, Zenon DEF Ahead
    <2>4. ReadAfter(t) = Turned(After(k)) /\ After(k) \in Places0
      BY <1>1, WorkTurns, Zenon DEF ReadAfter
    <2> QED
      BY <2>3, <2>4, Zenon
  <1>2. CASE "read" \notin t
    <2>1. rounds' = rounds
      BY <1>2, Zenon DEF Served
    <2>2. Ahead(k)' /\ ReadAfter(t) = Turned(k)
      BY <1>2, <2>1, Zenon DEF Ahead, ReadAfter
    <2> QED
      BY <2>2, Zenon
  <1> QED
    BY <1>1, <1>2

(* The file brings the daemon back to its place. *)
LEMMA StartPlaces ==
    ASSUME TypeOK, Lists, Places, Start
    PROVE  Places'
  <1>1. SUFFICES ASSUME clean' PROVE Places'
    BY DEF Places
  <1>2. UNCHANGED <<file, rounds, clean>> /\ up' = TRUE /\ ~up
    BY DEF Start
  <1>3. PICK k \in Places0 : Place(k)
    BY <1>1, <1>2, Zenon DEF Places
  <1>4. file.state # "torn"
    BY <1>1, <1>2, Zenon DEF Places
  <1>5. sched_read' = Turned(k)
    <2>1. CASE file.state = "none"
      <3>1. k = 0 /\ sched_read' = PebList
        BY <2>1, <1>2, <1>3, Zenon DEF Place, Start
      <3> QED
        BY <3>1, TurnedByNone
    <2>2. CASE file.state = "ok"
      <3>1. sched_read' = From(PebList[k + 1])
        BY <2>2, <1>2, <1>3, <1>4, Zenon DEF Place, Start, FromFile
      <3> QED
        BY <3>1, FromPlace
    <2> QED
      BY <2>1, <2>2, <1>4 DEF TypeOK
  <1>6. Place(k)'
    BY <1>2, <1>3, <1>5, Zenon DEF Place, Ahead
  <1> QED
    BY <1>2, <1>4, <1>6, Zenon DEF Places

LEMMA GoOnPlaces ==
    ASSUME TypeOK, Places, up, NEW updates, GoOn(updates),
           clean' => clean /\ file'.state # "torn"
    PROVE  Places'
  <1>1. SUFFICES ASSUME clean' PROVE Places'
    BY DEF Places
  <1> DEFINE t == TimersServed(updates)
  <1>2. Served(t) /\ sched_read' = ReadAfter(t) /\ up'
    BY Zenon DEF GoOn
  <1> HIDE DEF t
  <1>3. PICK k \in Places0 : Ahead(k) /\ sched_read = Turned(k)
    BY <1>1, Zenon DEF Places, Place
  <1>4. PICK m \in Places0 : ReadAfter(t) = Turned(m) /\ Ahead(m)'
    BY <1>2, <1>3, ReadServed, Zenon
  <1>5. Place(m)'
    BY <1>2, <1>4, Zenon DEF Place
  <1> QED
    BY <1>1, <1>5, Zenon DEF Places

LEMMA ShutDownPlaces ==
    ASSUME TypeOK, Places, up, NEW t, NEW writes \in BOOLEAN, ShutDown(t, writes)
    PROVE  Places'
  <1>1. SUFFICES ASSUME clean' PROVE Places'
    BY DEF Places
  <1>2. Served(t) /\ ~up' /\ WriteStatsFile(InfoAfter(t), ReadAfter(t), ScrubAfter(t), writes)
    BY Zenon DEF ShutDown, Gone
  <1>3. clean /\ file' = [state |-> "ok", next_read |-> NextPeb(ReadAfter(t)),
                          next_scrub |-> NextPeb(ScrubAfter(t)), info |-> InfoAfter(t)]
    BY <1>1, <1>2, Zenon DEF WriteStatsFile
  <1>4. PICK k \in Places0 : Ahead(k) /\ sched_read = Turned(k)
    BY <1>3, Zenon DEF Places, Place
  <1>5. PICK m \in Places0 : ReadAfter(t) = Turned(m) /\ Ahead(m)'
    BY <1>2, <1>4, ReadServed, Zenon
  <1>6. NextPeb(ReadAfter(t)) = PebList[m + 1]
    BY <1>5, TurnedIs, Zenon DEF NextPeb
  <1>7. file'.state = "ok" /\ file'.next_read = PebList[m + 1]
    BY <1>3, <1>6
  <1>8. Place(m)'
    BY <1>2, <1>5, <1>7 DEF Place
  <1> QED
    BY <1>7, <1>8 DEF Places

LEMMA PlacesKept == TypeOK /\ Lists /\ Places /\ [Next]_vars => Places'
  <1> SUFFICES ASSUME TypeOK, Lists, Places, [Next]_vars PROVE Places'
    OBVIOUS
  <1>1. ASSUME NEW updates \in BOOLEAN, Turn(updates) PROVE Places'
    <2>1. up /\ GoOn(updates) /\ UNCHANGED <<file, clean>>
      BY <1>1, Zenon DEF Turn
    <2>2. clean' => clean /\ file'.state # "torn"
      BY <2>1, Zenon DEF Places
    <2> QED
      BY <2>1, <2>2, GoOnPlaces, Zenon
  <1>2. ASSUME NEW updates \in BOOLEAN, NEW writes \in BOOLEAN, TurnSaves(updates, writes) PROVE Places'
    <2>1. up /\ GoOn(updates) /\ WriteStatsFile(info, sched_read, sched_scrub, writes)
      BY <1>2, Zenon DEF TurnSaves
    <2>2. clean' => clean /\ file'.state # "torn"
      <3>1. CASE writes
        <4>1. clean' = clean /\ file' = [state |-> "ok", next_read |-> NextPeb(sched_read),
                 next_scrub |-> NextPeb(sched_scrub), info |-> info]
          BY <2>1, <3>1, Zenon DEF WriteStatsFile
        <4> QED
          BY <4>1
      <3>2. CASE ~writes
        BY <2>1, <3>2, Zenon DEF WriteStatsFile
      <3> QED
        BY <3>1, <3>2
    <2> QED
      BY <2>1, <2>2, GoOnPlaces, Zenon
  <1>3. ASSUME NEW updates \in BOOLEAN, NEW writes \in BOOLEAN,
               TurnStops(updates, writes) \/ PollFails(writes)
        PROVE  Places'
    <2>1. PICK t : up /\ ShutDown(t, writes)
      BY <1>3, Zenon DEF TurnStops, PollFails
    <2> QED
      BY <2>1, ShutDownPlaces, Zenon
  <1>4. CASE Crash
    BY <1>4, Zenon DEF Crash, Places
  <1>5. CASE \/ \E t \in Timers : Expire(t)
             \/ \E s \in Signals : Signal(s)
             \/ \E p \in Pebs : KernelReads(p) \/ KernelErases(p)
             \/ UNCHANGED vars
    <2>1. UNCHANGED <<up, sched_read, file, clean, rounds>>
      BY <1>5, Zenon DEF Expire, Signal, KernelReads, KernelErases, daemonVars, ghostVars, vars
    <2> QED
      BY <2>1, Zenon DEF Places, Place, Ahead
  <1>6. CASE Loop
    BY <1>1, <1>2, <1>3, <1>6, Zenon DEF Loop
  <1> QED
    BY <1>3, <1>4, <1>5, <1>6, StartPlaces, Zenon DEF Next

LEMMA PlacesInit == Init => Places
  <1> SUFFICES ASSUME Init PROVE Places
    OBVIOUS
  <1>1. 0 \in Places0
    BY Sizes DEF Places0
  <1>2. \A i \in 1 .. NrPebs : PebList[i] \in Pebs
    BY Listed DEF Enumerates
  <1>3. Ahead(0)
    BY <1>2, Sizes DEF Init, Ahead
  <1>4. ~up /\ file.state = "none"
    BY DEF Init, NoFile
  <1>5. Place(0)
    BY <1>3, <1>4 DEF Place
  <1> QED
    BY <1>1, <1>4, <1>5 DEF Places

-----------------------------------------------------------------------------
(* What is remembered of the read counters.  The device reports all PEBs it *)
(* counts, so that the file has an entry for every one it announces.        *)

LEMMA NoneLost ==
    ASSUME NumPebs = NrPebs, NEW f, NEW i, f.state # "torn", Restored(f, i)
    PROVE  \A p \in Pebs : i[p] = f.info[p]
  <1>1. PICK lost \in SUBSET Pebs :
            /\ Cardinality(lost) <= NumPebs - Cardinality(Pebs)
            /\ \A p \in Pebs \ lost : i[p] = f.info[p]
    BY Zenon DEF Restored
  <1>2. IsFiniteSet(lost)
    BY FS_Subset, HealthAssumption, Zenon
  <1>3. Cardinality(lost) \in Nat /\ NrPebs \in Nat
    BY <1>2, FS_CardinalityType, Sizes
  <1>4. Cardinality(lost) = 0
    BY <1>1, <1>3 DEF NrPebs
  <1>5. lost = {}
    BY <1>2, <1>4, FS_EmptySet
  <1> QED
    BY <1>1, <1>5

LEMMA StartRemembers ==
    ASSUME NumPebs = NrPebs, TypeOK, Places, Remembered, Start
    PROVE  Remembered'
  <1>1. SUFFICES ASSUME clean', NEW p \in Pebs
                 PROVE  info'[p].read_cnt + since'[p] <= rc'[p] \/ p \in erased'
    BY DEF Remembered, Start
  <1>2. UNCHANGED <<file, rc, erased, clean>> /\ since'[p] = 0 /\ ~up /\ rc[p] \in Nat
    BY HealthAssumption DEF Start, TypeOK
  <1>3. CASE info' = InitStats
    BY <1>2, <1>3 DEF InitStats
  <1>4. CASE file.state # "none" /\ Restored(file, info')
    <2>1. file.state # "torn"
      BY <1>1, <1>2, Zenon DEF Places
    <2>2. info'[p] = file.info[p]
      BY <2>1, <1>4, NoneLost, ZenonT(30)
    <2> QED
      BY <1>1, <1>2, <1>4, <2>1, <2>2 DEF Remembered, TypeOK, Counts
  <1> QED
    BY <1>3, <1>4, ZenonT(30) DEF Start

LEMMA ReadsRemembered ==
    ASSUME TypeOK, Remembered, NEW p \in Pebs, KernelReads(p)
    PROVE  Remembered'
  <1>1. /\ rc' = [rc EXCEPT ![p] = @ + 1] /\ since' = [since EXCEPT ![p] = @ + 1]
        /\ UNCHANGED <<up, info, file, erased, clean>>
    BY Zenon DEF KernelReads, daemonVars, ghostVars
  <1>2. SUFFICES ASSUME clean', NEW q \in Pebs \ erased
                 PROVE  /\ up => info[q].read_cnt + since'[q] <= rc'[q]
                        /\ ~up /\ file.state = "ok" => file.info[q].read_cnt <= rc'[q]
    BY <1>1, Zenon DEF Remembered
  <1>3. /\ up => info[q].read_cnt + since[q] <= rc[q]
        /\ ~up /\ file.state = "ok" => file.info[q].read_cnt <= rc[q]
    BY <1>1, <1>2, Zenon DEF Remembered
  <1>4. /\ info[q].read_cnt \in Nat /\ file.info[q].read_cnt \in Nat
        /\ since[q] \in Nat /\ rc[q] \in Nat
    <2>1. info \in [Pebs -> Counts] /\ file.info \in [Pebs -> Counts]
      BY ZenonT(30) DEF TypeOK
    <2>2. since[q] \in Nat /\ rc[q] \in Nat
      BY HealthAssumption DEF TypeOK
    <2>3. \A c \in Counts : c.read_cnt \in Nat
      BY HealthAssumption DEF Counts
    <2> QED
      BY <2>1, <2>2, <2>3, Zenon
  <1>5. \/ since'[q] = since[q] /\ rc'[q] = rc[q]
        \/ since'[q] = since[q] + 1 /\ rc'[q] = rc[q] + 1
    BY <1>1 DEF TypeOK
  <1> QED
    BY <1>3, <1>4, <1>5

LEMMA ErasesRemembered ==
    ASSUME TypeOK, Remembered, NEW p \in Pebs, KernelErases(p)
    PROVE  Remembered'
  <1>1. /\ rc' = [rc EXCEPT ![p] = 0] /\ erased' = erased \cup {p}
        /\ UNCHANGED <<up, info, file, since, clean>>
    BY Zenon DEF KernelErases, daemonVars, ghostVars
  <1>2. \A q \in Pebs \ erased' : rc'[q] = rc[q] /\ q \in Pebs \ erased
    BY <1>1 DEF TypeOK
  <1> QED
    BY <1>1, <1>2, Zenon DEF Remembered

(* After serving the timers in t: an update makes the counters equal to the *)
(* kernel's, and without one nothing changed.                               *)
LEMMA ServedRemembers ==
    ASSUME TypeOK, Remembered, up, clean, NEW t, Served(t)
    PROVE  \A p \in Pebs \ erased' :
              /\ InfoAfter(t)[p].read_cnt + since'[p] <= rc[p]
              /\ InfoAfter(t)[p].read_cnt <= rc[p]
  <1>1. SUFFICES ASSUME NEW p \in Pebs \ erased'
                 PROVE  /\ InfoAfter(t)[p].read_cnt + since'[p] <= rc[p]
                        /\ InfoAfter(t)[p].read_cnt <= rc[p]
    BY Zenon
  <1>2. rc[p] \in Nat /\ since[p] \in Nat /\ info[p].read_cnt \in Nat
    BY HealthAssumption DEF TypeOK, Counts
  <1>3. CASE "stats" \in t
    <2>1. InfoAfter(t)[p] = Updated(info[p], p)
      BY <1>3, <1>1 DEF InfoAfter
    <2>2. Updated(info[p], p).read_cnt = rc[p]
      BY DEF Updated
    <2>3. since'[p] = 0
      BY <1>1, <1>3 DEF Served
    <2> QED
      BY <2>1, <2>2, <2>3, <1>2
  <1>4. CASE "stats" \notin t
    <2>1. InfoAfter(t) = info /\ since' = since /\ erased' = erased
      BY <1>4, Zenon DEF InfoAfter, Served
    <2>2. info[p].read_cnt + since[p] <= rc[p]
      BY <2>1, <1>1, Zenon DEF Remembered
    <2> QED
      BY <2>1, <2>2, <1>2
  <1> QED
    BY <1>3, <1>4

LEMMA GoOnRemembers ==
    ASSUME TypeOK, Remembered, up, NEW updates, GoOn(updates), clean' => clean, rc' = rc
    PROVE  Remembered'
  <1> DEFINE t == TimersServed(updates)
  <1>1. Served(t) /\ info' = InfoAfter(t) /\ up'
    BY Zenon DEF GoOn
  <1> HIDE DEF t
  <1> QED
    BY <1>1, ServedRemembers, Zenon DEF Remembered

LEMMA ShutDownRemembers ==
    ASSUME TypeOK, Remembered, up, NEW t, NEW writes \in BOOLEAN, ShutDown(t, writes), rc' = rc
    PROVE  Remembered'
  <1>1. SUFFICES ASSUME clean' PROVE Remembered'
    BY DEF Remembered
  <1>2. Served(t) /\ ~up' /\ WriteStatsFile(InfoAfter(t), ReadAfter(t), ScrubAfter(t), writes)
    BY Zenon DEF ShutDown, Gone
  <1>3. clean /\ file' = [state |-> "ok", next_read |-> NextPeb(ReadAfter(t)),
                          next_scrub |-> NextPeb(ScrubAfter(t)), info |-> InfoAfter(t)]
    BY <1>1, <1>2, Zenon DEF WriteStatsFile
  <1>4. file'.info = InfoAfter(t)
    BY <1>3
  <1> QED
    BY <1>2, <1>3, <1>4, ServedRemembers, ZenonT(30) DEF Remembered

LEMMA RememberedKept ==
    ASSUME NumPebs = NrPebs
    PROVE  IInv /\ Remembered /\ [Next]_vars => Remembered'
  <1> SUFFICES ASSUME IInv, Remembered, [Next]_vars PROVE Remembered'
    OBVIOUS
  <1>0. TypeOK /\ Places
    BY DEF IInv
  <1>1. ASSUME NEW updates \in BOOLEAN, NEW writes \in BOOLEAN,
               Turn(updates) \/ TurnSaves(updates, writes)
        PROVE  Remembered'
    <2>1. up /\ GoOn(updates) /\ rc' = rc
      BY <1>1, Zenon DEF Turn, TurnSaves
    <2>2. clean' => clean
      BY <1>1, Zenon DEF Turn, TurnSaves, WriteStatsFile
    <2> QED
      BY <1>0, <2>1, <2>2, GoOnRemembers, Zenon
  <1>2. ASSUME NEW updates \in BOOLEAN, NEW writes \in BOOLEAN,
               TurnStops(updates, writes) \/ PollFails(writes)
        PROVE  Remembered'
    <2>1. PICK t : up /\ ShutDown(t, writes) /\ rc' = rc
      BY <1>2, Zenon DEF TurnStops, PollFails
    <2> QED
      BY <1>0, <2>1, ShutDownRemembers, Zenon
  <1>3. CASE Crash
    BY <1>3, Zenon DEF Crash, Remembered
  <1>4. CASE \/ \E t \in Timers : Expire(t)
             \/ \E s \in Signals : Signal(s)
             \/ UNCHANGED vars
    <2>1. UNCHANGED <<up, info, since, rc, file, clean, erased>>
      BY <1>4, Zenon DEF Expire, Signal, daemonVars, ghostVars, vars
    <2> QED
      BY <2>1, Zenon DEF Remembered
  <1>5. CASE Loop
    BY <1>1, <1>2, <1>5, ZenonT(30) DEF Loop
  <1> QED
    BY <1>0, <1>2, <1>3, <1>4, <1>5, StartRemembers, ReadsRemembered, ErasesRemembered, ZenonT(30) DEF Next

LEMMA RememberedInit == Init => Remembered
  BY DEF Init, Remembered, NoFile

(* An update that follows read_threshold reads finds the PEB. *)
LEMMA HotFound ==
    ASSUME TypeOK, Remembered, up, clean, NEW p \in Pebs \ erased,
           since[p] >= ReadThreshold, NEW t, Served(t), since'[p] = 0
    PROVE  p \in hot'
  <1>1. /\ rc[p] \in Nat /\ since[p] \in Nat /\ info[p].read_cnt \in Nat
        /\ ReadThreshold \in Nat /\ ReadThreshold > 0
    BY HealthAssumption DEF TypeOK, Counts
  <1>2. "stats" \in t
    <2>1. since[p] # 0
      BY <1>1
    <2> QED
      BY <2>1, Zenon DEF Served
  <1>3. InfoAfter(t)[p] = Updated(info[p], p)
    BY <1>2 DEF InfoAfter
  <1>4. info[p].read_cnt + since[p] <= rc[p]
    BY ZenonT(30) DEF Remembered
  <1>5. Updated(info[p], p).read_cnt = rc[p] /\ Updated(info[p], p).prev_read_cnt = info[p].read_cnt
    BY <1>1, <1>4 DEF Updated
  <1>6. TooOften(InfoAfter(t)[p])
    BY <1>1, <1>3, <1>4, <1>5 DEF TooOften
  <1> QED
    BY <1>2, <1>6, ZenonT(30) DEF Served

HotRead == \A p \in Pebs :
              up /\ clean /\ since[p] >= ReadThreshold /\ since'[p] = 0 /\ p \notin erased
              => p \in hot'

LEMMA HotReadKept == TypeOK /\ Remembered /\ [Next]_vars => HotRead
  <1> SUFFICES ASSUME TypeOK, Remembered, [Next]_vars, NEW p \in Pebs,
                      up, clean, since[p] >= ReadThreshold, since'[p] = 0, p \notin erased
               PROVE  p \in hot'
    BY DEF HotRead
  <1>1. since[p] \in Nat /\ since[p] # 0
    BY HealthAssumption DEF TypeOK
  <1>2. ASSUME NEW t, Served(t) PROVE p \in hot'
    BY <1>2, HotFound, Zenon
  <1>3. ASSUME since' = since PROVE FALSE
    BY <1>1, <1>3
  <1>4. ASSUME NEW q \in Pebs, KernelReads(q) PROVE FALSE
    <2>1. since' = [since EXCEPT ![q] = @ + 1]
      BY <1>4, Zenon DEF KernelReads
    <2>2. since'[p] = since[p] \/ since'[p] = since[p] + 1
      BY <2>1 DEF TypeOK
    <2> QED
      BY <1>1, <2>2
  <1>5. CASE Loop
    BY <1>2, <1>5, Zenon DEF Loop, Turn, TurnSaves, TurnStops, GoOn, ShutDown
  <1>6. ASSUME NEW writes \in BOOLEAN, PollFails(writes) PROVE p \in hot'
    BY <1>2, <1>6, Zenon DEF PollFails, ShutDown
  <1>7. CASE \/ Crash \/ \E t \in Timers : Expire(t)
             \/ \E s \in Signals : Signal(s)
             \/ \E q \in Pebs : KernelErases(q)
             \/ UNCHANGED vars
    <2>1. since' = since
      BY <1>7, Zenon DEF Crash, Expire, Signal, KernelErases, vars
    <2> QED
      BY <2>1, <1>3
  <1>8. ~Start
    BY DEF Start
  <1> QED
    BY <1>4, <1>5, <1>6, <1>7, <1>8, Zenon DEF Next

-----------------------------------------------------------------------------
(* The inductive invariant holds of every behaviour of the daemon, crashes, *)
(* files cut short and failing calls included (ubihealthd.c:402-453,        *)
(* 608-686).                                                                *)
THEOREM HealthInvariance == Spec => []IInv
  <1>1. Init => IInv
    BY TypesInit, PlacesInit DEF IInv
  <1>2. IInv /\ [Next]_vars => IInv'
    BY TypesKept, PlacesKept DEF IInv
  <1> QED
    BY <1>1, <1>2, PTL DEF Spec

(* No PEB is ever lost from the two lists, or in one of them twice, through *)
(* work(), the file and back (ubihealthd.c:345-374, 436-450).               *)
THEOREM NoPebIsLost == Spec => []TurnsKept
  <1>1. IInv => TurnsKept
    <2> SUFFICES ASSUME TypeOK, Lists PROVE RoundRobin
      BY DEF IInv, TurnsKept
    <2>1. \A k \in Places0 : PebList[k + 1] \in Pebs /\ Turned(k) = From(PebList[k + 1])
      BY TurnedIs, FromPlace, Zenon
    <2> QED
      BY <2>1, Zenon DEF Lists, RoundRobin
  <1> QED
    BY <1>1, HealthInvariance, PTL

(* However often the daemon is stopped and started, no PEB is read twice    *)
(* before every other was read once, as long as its file was written        *)
(* (ubihealthd.c:175-177, 439-446).                                         *)
THEOREM TurnsStayEven == Spec => []EvenTurns
  <1>1. IInv => EvenTurns
    <2> SUFFICES ASSUME Places, clean, NEW p \in Pebs, NEW q \in Pebs
                 PROVE  rounds[p] - rounds[q] <= 1
      BY DEF IInv, EvenTurns
    <2>1. PICK k \in Places0 : Ahead(k)
      BY Zenon DEF Places, Place
    <2>2. \A j \in 1 .. NrPebs : rounds[PebList[j]] \in 0 .. 1
      BY <2>1 DEF Ahead
    <2>3. \A r \in Pebs : \E j \in 1 .. NrPebs : PebList[j] = r
      BY Listed DEF Enumerates
    <2>4. rounds[p] \in 0 .. 1 /\ rounds[q] \in 0 .. 1
      BY <2>2, <2>3, Zenon
    <2> QED
      BY <2>4
  <1> QED
    BY <1>1, HealthInvariance, PTL

(* A PEB that the kernel has read read_threshold times since the last       *)
(* update, and not erased, is read at the next one (ubihealthd.c:294-299,   *)
(* 650-654), when the kernel reports all the PEBs that the device counts:   *)
(* otherwise the file announces more entries than it has, and counters are  *)
(* taken from memory that was never written (418-435).                      *)
THEOREM HotIsRead ==
    ASSUME NumPebs = NrPebs
    PROVE  Spec => HotPebsRead
  <1>1. Init => Remembered
    BY RememberedInit
  <1>2. IInv /\ Remembered /\ [Next]_vars => Remembered'
    BY RememberedKept
  <1>3. IInv /\ Remembered /\ [Next]_vars => [HotRead]_vars
    BY HotReadKept DEF IInv
  <1>4. Spec => []IInv
    BY HealthInvariance
  <1>5. HotPebsRead <=> [][HotRead]_vars
    BY DEF HotPebsRead, HotRead
  <1> QED
    BY <1>1, <1>2, <1>3, <1>4, <1>5, PTL DEF Spec
=============================================================================
