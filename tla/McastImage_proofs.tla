------------------------- MODULE McastImage_proofs --------------------------
(***************************************************************************)
(* The theorem about the packets the receiver counts, and those about a    *)
(* server and a receiver joined by the network.                            *)
(***************************************************************************)
EXTENDS RecvImage_proofs, McastImage, Sums

(* A minute for every leaf that does not name a prover. *)
USE SMTT(60)

-----------------------------------------------------------------------------
(* The packets counted. *)

(* What each block contributes to total_pkts. *)
NeedOf(e) == IF e.nr_pkts < pkts_per_block THEN e.nr_pkts ELSE pkts_per_block
Needs(ebs) == [b \in Blocks |-> NeedOf(ebs[b])]
SumOf(ebs) == SumUpTo(Needs(ebs), NrBlocks)
Counts(ebs) == \A b \in Blocks : ebs[b].nr_pkts \in Nat

LEMMA NeedsType ==
    ASSUME NEW ebs, Counts(ebs)
    PROVE  /\ Needs(ebs) \in [0 .. NrBlocks - 1 -> Int]
           /\ \A b \in 0 .. NrBlocks - 1 : Needs(ebs)[b] <= pkts_per_block
           /\ NrBlocks \in Nat /\ pkts_per_block \in Nat
  <1>1. NrBlocks \in Nat /\ pkts_per_block \in Nat
    BY RecvAssumption, Sizes
  <1>2. \A b \in Blocks : NeedOf(ebs[b]) \in Int /\ NeedOf(ebs[b]) <= pkts_per_block
    BY <1>1 DEF NeedOf, Counts
  <1> QED
    BY <1>1, <1>2 DEF Needs, Blocks

(* The sum in TotalIsExact is that of the array Needs. *)
LEMMA NeededIsSum ==
    ASSUME TypeOK
    PROVE  NeededUpTo[NrBlocks] = SumOf(eraseblocks)
  <1> DEFINE v == Needs(eraseblocks)
             Sum(f) == [n \in 0 .. NrBlocks |->
                           IF n = 0 THEN 0 ELSE f[n - 1] + Needed(n - 1)]
  <1>1. NrBlocks \in Nat
    BY RecvAssumption
  <1>2. \A n \in 0 .. NrBlocks : n # 0 => v[n - 1] = Needed(n - 1)
    BY <1>1 DEF Needs, Needed, NeedOf, Blocks
  <1> HIDE DEF v
  <1>3. \A f : Sum(f) = [n \in 0 .. NrBlocks |-> IF n = 0 THEN 0 ELSE f[n - 1] + v[n - 1]]
    BY <1>2
  <1>4. PICK f : IsSums(f, v, NrBlocks)
    BY <1>1, SumsExist
  <1>5. f = Sum(f)
    BY <1>3, <1>4, Zenon DEF IsSums
  <1>6. NeededUpTo = Sum(NeededUpTo)
    BY <1>5, Zenon DEF NeededUpTo
  <1>7. IsSums(NeededUpTo, v, NrBlocks)
    BY <1>3, <1>6, Zenon DEF IsSums
  <1> QED
    BY <1>1, <1>7, SumsUnique DEF SumOf, v

(* One block changes. *)
LEMMA SumChange ==
    ASSUME NEW ebs, Counts(ebs), NEW b \in Blocks, NEW e, e.nr_pkts \in Nat,
           NEW ebs2, Counts(ebs2), ebs2[b] = e,
           \A a \in Blocks : a # b => ebs2[a] = ebs[a]
    PROVE  SumOf(ebs2) = SumOf(ebs) + NeedOf(e) - NeedOf(ebs[b])
  <1>1. \A i \in 0 .. NrBlocks - 1 : i # b => Needs(ebs2)[i] = Needs(ebs)[i]
    BY DEF Needs, Blocks
  <1>2. Needs(ebs2)[b] = NeedOf(e) /\ Needs(ebs)[b] = NeedOf(ebs[b])
    BY DEF Needs
  <1>3. /\ Needs(ebs) \in [0 .. NrBlocks - 1 -> Int]
        /\ Needs(ebs2) \in [0 .. NrBlocks - 1 -> Int]
        /\ NrBlocks \in Nat /\ b \in 0 .. NrBlocks - 1
    BY NeedsType DEF Blocks
  <1>4. SumUpTo(Needs(ebs2), NrBlocks) =
           SumUpTo(Needs(ebs), NrBlocks) + Needs(ebs2)[b] - Needs(ebs)[b]
    BY <1>1, <1>3, SumUpdate, ZenonT(30)
  <1> QED
    BY <1>2, <1>4 DEF SumOf

LEMMA SumOfFresh ==
    ASSUME NEW ebs, \A b \in Blocks : ebs[b].nr_pkts = 0
    PROVE  Counts(ebs) /\ SumOf(ebs) = 0
  <1>1. Counts(ebs)
    BY DEF Counts
  <1>2. \A i \in 0 .. NrBlocks - 1 : Needs(ebs)[i] = 0
    BY Sizes DEF Needs, NeedOf, Blocks
  <1> QED
    BY <1>1, <1>2, RecvAssumption, SumOfZeros DEF SumOf

(* total_pkts, and what it was before the first packet. *)
TotalOK ==
    /\ Allocated => total_pkts = SumOf(eraseblocks)
    /\ ~Allocated => total_pkts = 0 /\ \A b \in Blocks : eraseblocks[b].nr_pkts = 0

(* A packet processed: unless the program ends there, total_pkts follows    *)
(* the blocks.                                                              *)
LEMMA ProcessCounts ==
    ASSUME TypeOK, NEW p \in Packets, p.block \in Blocks,
           NEW STATE ebs, ebs \in [Blocks -> Eraseblock], NEW STATE m,
           total_pkts = SumOf(ebs), Process(p, ebs, m)
    PROVE  \/ total_pkts' = SumOf(eraseblocks)'
           \/ total_pkts' = total_pkts /\ eraseblocks' = eraseblocks
  <1> DEFINE b == p.block
             e == ebs[b]
  <1>1. Counts(ebs) /\ b \in Blocks /\ e.nr_pkts \in Nat /\ pkts_per_block \in Nat
    BY Sizes DEF Counts, Eraseblock
  <1>2. total_pkts \in Int
    BY DEF TypeOK
  <1> HIDE DEF b
  <1>3. \A x : SumOf(eraseblocks)' = SumOf(eraseblocks')
    BY DEF SumOf, Needs
  <1>4. ASSUME NEW e2, e2.nr_pkts \in Nat, eraseblocks' = [ebs EXCEPT ![b] = e2]
        PROVE  SumOf(eraseblocks') = total_pkts + NeedOf(e2) - NeedOf(e)
    <2>1. eraseblocks'[b] = e2 /\ \A a \in Blocks : a # b => eraseblocks'[a] = ebs[a]
      BY <1>1, <1>4
    <2>2. Counts(eraseblocks')
      BY <1>1, <1>4, <2>1 DEF Counts
    <2> QED
      BY <1>1, <1>4, <2>1, <2>2, SumChange, ZenonT(30)
  <1>5. CASE Discard(ebs, m)
    BY <1>3, <1>5 DEF Discard
  <1>6. CASE IgnoreExtra(p, ebs, m) /\ e.nr_pkts >= pkts_per_block
    <2>1. /\ Counted(e).nr_pkts = e.nr_pkts + 1 /\ total_pkts' = total_pkts
          /\ eraseblocks' = [ebs EXCEPT ![b] = Counted(e)]
      BY <1>6 DEF IgnoreExtra, Discard, Counted, b
    <2>2. NeedOf(Counted(e)) = pkts_per_block /\ NeedOf(e) = pkts_per_block
      BY <1>1, <1>6, <2>1 DEF NeedOf
    <2>3. Counted(e).nr_pkts \in Nat
      BY <1>1, <2>1
    <2>4. SumOf(eraseblocks') = total_pkts + NeedOf(Counted(e)) - NeedOf(e)
      BY <1>4, <2>1, <2>3, Zenon
    <2> QED
      BY <1>1, <1>2, <1>3, <2>1, <2>2, <2>4
  <1>7. ASSUME e.nr_pkts < pkts_per_block, NEW cell, NEW ofs,
               StoreAndLoop(b, WithPacket(e, p, cell, ofs), ebs, total_pkts + 1)
        PROVE  total_pkts' = SumOf(eraseblocks)'
    <2> DEFINE e2 == WithPacket(e, p, cell, ofs)
    <2>1. /\ e2.nr_pkts = e.nr_pkts + 1 /\ total_pkts' = total_pkts + 1
          /\ eraseblocks' = [ebs EXCEPT ![b] = e2]
      BY <1>7 DEF StoreAndLoop, WithPacket
    <2> HIDE DEF e2
    <2>2. NeedOf(e2) = e.nr_pkts + 1 /\ NeedOf(e) = e.nr_pkts
      BY <1>1, <1>7, <2>1 DEF NeedOf
    <2>3. e2.nr_pkts \in Nat
      BY <1>1, <2>1
    <2>4. SumOf(eraseblocks') = total_pkts + NeedOf(e2) - NeedOf(e)
      BY <1>4, <2>1, <2>3, ZenonT(30)
    <2> QED
      BY <1>1, <1>2, <1>3, <2>1, <2>2, <2>4
  <1>8. CASE FlushFailsRelocate(p, ebs, m) /\ e.nr_pkts < pkts_per_block
    <2>1. PICK n : StoreAndLoop(b, WithPacket(Fresh(n), p, 0, PktSize), ebs,
                                DropPackets(total_pkts, e) + 1)
      BY <1>8 DEF FlushFailsRelocate, b
    <2> DEFINE e2 == WithPacket(Fresh(n), p, 0, PktSize)
    <2>2. /\ e2.nr_pkts = 1 /\ total_pkts' = total_pkts - e.nr_pkts + 1
          /\ eraseblocks' = [ebs EXCEPT ![b] = e2]
      BY <2>1 DEF StoreAndLoop, WithPacket, DropPackets, Fresh
    <2> HIDE DEF e2
    <2>3. NeedOf(e2) = 1 /\ NeedOf(e) = e.nr_pkts
      BY <1>1, <1>8, <2>2 DEF NeedOf
    <2>4. e2.nr_pkts \in Nat
      BY <2>2
    <2>5. SumOf(eraseblocks') = total_pkts + NeedOf(e2) - NeedOf(e)
      BY <1>4, <2>2, <2>4, ZenonT(30)
    <2> QED
      BY <1>1, <1>2, <1>3, <2>2, <2>3, <2>5
  <1>9. CASE FlushFailsExit(p, ebs, m)
    BY <1>9 DEF FlushFailsExit
  <1> QED
    BY <1>5, <1>6, <1>7, <1>8, <1>9 DEF Process, BufferPacket, FlushPacket, b

LEMMA TotalInit == Init => TotalOK
  BY DEF Init, TotalOK, Allocated, Fresh

(* The steps that count nothing. *)
LEMMA SameTotal ==
    ASSUME TypeOK, TotalOK, Allocated' = Allocated, total_pkts' = total_pkts,
           \A b \in Blocks : eraseblocks'[b].nr_pkts = eraseblocks[b].nr_pkts
    PROVE  TotalOK'
  <1>1. Needs(eraseblocks)' = Needs(eraseblocks)
    BY DEF Needs, NeedOf
  <1>2. SumOf(eraseblocks)' = SumOf(eraseblocks)
    BY <1>1 DEF SumOf
  <1> QED
    BY <1>2 DEF TotalOK

LEMMA TotalKept == IInv /\ TotalOK /\ [Next]_vars => TotalOK'
  <1> SUFFICES ASSUME IInv, TotalOK, [Next]_vars PROVE TotalOK'
    OBVIOUS
  <1> TypeOK
    BY DEF IInv
  <1>1. ASSUME NEW p \in Packets, FirstPacket(p) PROVE TotalOK'
    <2>1. PICK h \in Allocations :
             Process(p, [b \in Blocks |-> Fresh(h[b])], h[NrBlocks - 1] + 1)
      BY <1>1 DEF FirstPacket
    <2> DEFINE ebs == [b \in Blocks |-> Fresh(h[b])]
    <2>2. ebs \in [Blocks -> Eraseblock] /\ \A b \in Blocks : ebs[b].nr_pkts = 0
      <3>1. \A b \in Blocks : h[b] \in Nat
        BY <2>1, RecvAssumption DEF Allocations
      <3> QED
        BY <3>1, FreshFacts
    <2>3. p.block \in Blocks /\ ~Allocated /\ Allocated'
      BY <1>1, RecvAssumption, NoImageAssumption DEF FirstPacket, Packets, Blocks, Allocated
    <2>4. total_pkts = 0 /\ \A b \in Blocks : eraseblocks[b].nr_pkts = 0
      BY <2>3 DEF TotalOK
    <2> HIDE DEF ebs
    <2>5. SumOf(ebs) = 0 /\ SumOf(eraseblocks) = 0
      BY <2>2, <2>4, SumOfFresh
    <2>6. \/ total_pkts' = SumOf(eraseblocks)'
          \/ total_pkts' = total_pkts /\ eraseblocks' = eraseblocks
      BY <1>1, <2>1, <2>2, <2>3, <2>4, <2>5, ProcessCounts, ZenonT(30) DEF ebs
    <2>7. eraseblocks' = eraseblocks => SumOf(eraseblocks)' = SumOf(eraseblocks)
      BY DEF SumOf, Needs
    <2> QED
      BY <2>3, <2>4, <2>5, <2>6, <2>7 DEF TotalOK
  <1>2. ASSUME NEW p \in Packets, NextPacket(p) PROVE TotalOK'
    <2>1. /\ Process(p, eraseblocks, mtdoffset) /\ image_crc' = image_crc
          /\ p.block \in Blocks /\ Allocated
      BY <1>2, RecvAssumption, NoImageAssumption
      DEF NextPacket, SameImage, Packets, Blocks, Allocated
    <2>2. total_pkts = SumOf(eraseblocks) /\ Allocated'
      BY <2>1 DEF TotalOK, Allocated
    <2>3. \/ total_pkts' = SumOf(eraseblocks)'
          \/ total_pkts' = total_pkts /\ eraseblocks' = eraseblocks
      BY <1>2, <2>1, <2>2, ProcessCounts DEF TypeOK
    <2>4. eraseblocks' = eraseblocks => SumOf(eraseblocks)' = SumOf(eraseblocks)
      BY DEF SumOf, Needs
    <2> QED
      BY <2>2, <2>3, <2>4 DEF TotalOK
  <1>3. ASSUME UNCHANGED <<image_crc, eraseblocks, total_pkts>> PROVE TotalOK'
    BY <1>3, SameTotal DEF Allocated
  <1>4. ASSUME NEW n, UNCHANGED <<image_crc, total_pkts>>,
               eraseblocks' = [eraseblocks EXCEPT ![block_nr] = At(@, n)]
        PROVE  TotalOK'
    <2>1. \A b \in Blocks : eraseblocks'[b].nr_pkts = eraseblocks[b].nr_pkts
      BY <1>4 DEF At, TypeOK
    <2> QED
      BY <1>4, <2>1, SameTotal DEF Allocated
  <1>5. CASE DecodeBlock
    BY <1>4, <1>5, Zenon DEF DecodeBlock
  <1>6. CASE WriteBlockFails
    BY <1>4, <1>6, ZenonT(30) DEF WriteBlockFails
  <1>7. CASE ReadError \/ DecodeFails \/ WriteBlock \/ WriteBlockExit \/ UNCHANGED vars
    BY <1>3, <1>7
    DEF ReadError, DecodeFails, Exit1, WriteBlock, WriteBlockExit, vars
  <1>8. ASSUME NEW p \in Packets, FatalPacket(p) PROVE TotalOK'
    BY <1>3, <1>8 DEF FatalPacket, Exit1
  <1> QED
    BY <1>1, <1>2, <1>5, <1>6, <1>7, <1>8 DEF Next, Receive, Decode, Terminated

(* The receive loop's count of useful packets (recv_image.c:240-258, 330,   *)
(* 345-350) is exact through duplicates, packets beyond those needed and    *)
(* failed writes that throw packets away.                                   *)
THEOREM CountIsExact == Spec => []TotalIsExact
  <1>1. IInv /\ TotalOK => TotalIsExact
    BY NeededIsSum DEF TotalOK, TotalIsExact, IInv
  <1> QED
    BY <1>1, Invariance, TotalInit, TotalKept, PTL DEF Spec

-----------------------------------------------------------------------------
(* The server's cycle. *)

LEMMA MulPositive ==
    ASSUME NEW a \in Nat, NEW b \in Nat, a > 0, b > 0
    PROVE  a * b > 0
  BY Z3

LEMMA PktsPositive == total_pkts_per_block \in Nat /\ total_pkts_per_block > 0
  <1>1. pkts_per_block \in Nat /\ pkts_per_block > 0
    <2>1. pkts_per_block # 0
      <3> SUFFICES ASSUME pkts_per_block = 0 PROVE FALSE
        OBVIOUS
      <3>1. Cells * WbufSize > 0
        BY Sizes, MulPositive
      <3> QED
        BY <3>1, KBounds
    <2> QED
      BY <2>1, Sizes
  <1> HIDE DEF pkts_per_block
  <1> QED
    BY <1>1 DEF total_pkts_per_block

(* The step of a loop counter. *)
LEMMA ModNext ==
    ASSUME NEW n \in Nat, NEW i \in 0 .. n - 1
    PROVE  (i + 1) % n = IF i = n - 1 THEN 0 ELSE i + 1
  BY Z3

(* The turn of the cycle in which packet k of block b is sent. *)
Turn(b, k) == IF b % 2 = 1 THEN k ELSE total_pkts_per_block - 1 - k

(* The packets whose turn comes before block b of turn n. *)
Before(n, b) ==
    {q \in Blocks \X Pkts : Turn(q[1], q[2]) < n \/ (Turn(q[1], q[2]) = n /\ q[1] < b)}

(* The inductive invariant of the server. *)
ServeOK ==
    /\ pkt_nr \in Pkts /\ srv_block \in Blocks
    /\ serving # Stopped =>
         \/ offered = Before(pkt_nr, srv_block)
         \/ pkt_nr = 0 /\ srv_block = 0 /\ offered = Blocks \X Pkts

LEMMA TurnFacts ==
    ASSUME NEW b \in Blocks, NEW k \in Pkts
    PROVE  Turn(b, k) \in Pkts /\ Turn(b, Turn(b, k)) = k
  BY PktsPositive DEF Turn, Pkts

LEMMA BeforeFacts ==
    ASSUME NEW n \in Pkts, NEW b \in Blocks
    PROVE  /\ Before(0, 0) = {}
           /\ Before(n, b) \cup {<<b, Turn(b, n)>>} = Before(n, b + 1)
           /\ Before(n, NrBlocks) = Before(n + 1, 0)
           /\ Before(total_pkts_per_block, 0) = Blocks \X Pkts
  <1>1. /\ total_pkts_per_block \in Nat /\ n \in Nat /\ b \in Nat
        /\ n \in 0 .. total_pkts_per_block - 1
        /\ NrBlocks \in Nat /\ Blocks = 0 .. NrBlocks - 1
    BY PktsPositive, RecvAssumption DEF Pkts, Blocks
  <1>2. \A q \in Blocks \X Pkts :
           /\ Turn(q[1], q[2]) \in 0 .. total_pkts_per_block - 1
           /\ q[1] \in 0 .. NrBlocks - 1 /\ q[1] \in Blocks /\ q[2] \in Pkts
           /\ q = <<q[1], q[2]>>
           /\ Turn(q[1], Turn(q[1], q[2])) = q[2]
    BY TurnFacts DEF Pkts, Blocks
  <1>3. Before(0, 0) = {}
    BY <1>1, <1>2 DEF Before
  <1>4. Before(n, NrBlocks) = Before(n + 1, 0)
    BY <1>1, <1>2 DEF Before
  <1>5. Before(total_pkts_per_block, 0) = Blocks \X Pkts
    BY <1>1, <1>2 DEF Before
  <1>6. Before(n, b) \cup {<<b, Turn(b, n)>>} = Before(n, b + 1)
    <2>1. /\ Turn(b, n) \in Pkts /\ Turn(b, Turn(b, n)) = n
          /\ <<b, Turn(b, n)>> \in Blocks \X Pkts
      BY TurnFacts
    <2>2. ASSUME NEW q \in Blocks \X Pkts
          PROVE  q \in Before(n, b + 1) <=> q \in Before(n, b) \/ q = <<b, Turn(b, n)>>
      <3>1. q = <<b, Turn(b, n)>> <=> Turn(q[1], q[2]) = n /\ q[1] = b
        BY <1>2, <2>1
      <3> QED
        BY <1>1, <1>2, <3>1 DEF Before
    <2>3. Before(n, b) \subseteq Blocks \X Pkts /\ Before(n, b + 1) \subseteq Blocks \X Pkts
      BY DEF Before
    <2> QED
      BY <2>1, <2>2, <2>3
  <1> QED
    BY <1>3, <1>4, <1>5, <1>6

LEMMA ServeInitOK == ServeInit => ServeOK
  <1>1. 0 \in Pkts /\ 0 \in Blocks
    BY PktsPositive, RecvAssumption DEF Pkts, Blocks
  <1> QED
    BY <1>1, BeforeFacts DEF ServeInit, ServeOK

LEMMA RestartOK == Restart => ServeOK'
  <1>1. 0 \in Pkts /\ 0 \in Blocks
    BY PktsPositive, RecvAssumption DEF Pkts, Blocks
  <1> QED
    BY <1>1, BeforeFacts DEF Restart, ServeOK

(* One packet is offered, and the loops go on. *)
LEMMA AdvanceOK ==
    ASSUME ServeOK, serving # Stopped, Offer, Advance
    PROVE  ServeOK'
  <1>1. pkt_nr \in Pkts /\ srv_block \in Blocks
    BY DEF ServeOK
  <1>2. /\ NrBlocks \in Nat /\ total_pkts_per_block \in Nat
        /\ srv_block \in 0 .. NrBlocks - 1 /\ pkt_nr \in 0 .. total_pkts_per_block - 1
    BY <1>1, PktsPositive, RecvAssumption DEF Pkts, Blocks
  <1>3. srv_block' = IF srv_block = NrBlocks - 1 THEN 0 ELSE srv_block + 1
    BY <1>2, ModNext DEF Advance
  <1>4. pkt_nr' = IF srv_block = NrBlocks - 1
                  THEN IF pkt_nr = total_pkts_per_block - 1 THEN 0 ELSE pkt_nr + 1
                  ELSE pkt_nr
    BY <1>2, ModNext DEF Advance
  <1>5. actualpkt = Turn(srv_block, pkt_nr)
    BY DEF actualpkt, Turn
  <1>6. offered' = Before(pkt_nr, srv_block + 1)
    <2>1. CASE pkt_nr = 0 /\ srv_block = 0
      <3>1. offered' = {} \cup {<<srv_block, Turn(srv_block, pkt_nr)>>}
        BY <1>5, <2>1 DEF Offer
      <3>2. {} = Before(pkt_nr, srv_block)
        BY <1>1, <2>1, BeforeFacts
      <3> QED
        BY <1>1, <3>1, <3>2, BeforeFacts
    <2>2. CASE ~(pkt_nr = 0 /\ srv_block = 0)
      BY <1>1, <1>5, <2>2, BeforeFacts, ZenonT(30) DEF Offer, ServeOK
    <2> QED
      BY <2>1, <2>2
  <1>7. CASE srv_block # NrBlocks - 1
    <2>1. srv_block' = srv_block + 1 /\ pkt_nr' = pkt_nr /\ srv_block + 1 \in Blocks
      BY <1>2, <1>3, <1>4, <1>7 DEF Blocks
    <2> QED
      BY <1>1, <1>6, <2>1 DEF ServeOK, Before
  <1>8. CASE srv_block = NrBlocks - 1
    <2>1. srv_block' = 0 /\ 0 \in Blocks /\ srv_block + 1 = NrBlocks
      BY <1>2, <1>3, <1>8, RecvAssumption DEF Blocks
    <2>2. offered' = Before(pkt_nr + 1, 0)
      BY <1>1, <1>6, <2>1, BeforeFacts
    <2>3. CASE pkt_nr = total_pkts_per_block - 1
      <3>1. pkt_nr' = 0 /\ 0 \in Pkts /\ pkt_nr + 1 = total_pkts_per_block
        BY <1>2, <1>4, <1>8, <2>3, PktsPositive DEF Pkts
      <3> QED
        BY <1>1, <2>1, <2>2, <3>1, BeforeFacts, ZenonT(30) DEF ServeOK
    <2>4. CASE pkt_nr # total_pkts_per_block - 1
      <3>1. pkt_nr' = pkt_nr + 1 /\ pkt_nr + 1 \in Pkts
        BY <1>2, <1>4, <1>8, <2>4 DEF Pkts
      <3> QED
        BY <2>1, <2>2, <3>1 DEF ServeOK, Before
    <2> QED
      BY <2>3, <2>4
  <1> QED
    BY <1>7, <1>8

LEMMA ServeKept == ServeOK /\ [McNext]_allVars => ServeOK'
  <1> SUFFICES ASSUME ServeOK, [McNext]_allVars PROVE ServeOK'
    OBVIOUS
  <1>1. CASE SendStep
    BY <1>1, AdvanceOK DEF SendStep, Send
  <1>2. CASE SendFailsStep
    <2>1. CASE writeerrors' > MaxWriteErrors
      BY <1>2, <2>1 DEF SendFailsStep, SendFails, ServeOK
    <2>2. CASE ~(writeerrors' > MaxWriteErrors)
      BY <1>2, <2>2, AdvanceOK DEF SendFailsStep, SendFails
    <2> QED
      BY <2>1, <2>2
  <1>3. CASE RestartStep
    BY <1>3, RestartOK DEF RestartStep
  <1>4. CASE UNCHANGED serverVars
    BY <1>4 DEF serverVars, ServeOK, Before
  <1> QED
    BY <1>1, <1>2, <1>3, <1>4, ZenonT(30) DEF McNext, Arrive, ArriveDamaged, ReceiverStep, allVars

(* Counting down in the even blocks (serve_image.c:182-221), a server       *)
(* leaves out no packet of any block in any cycle, for every number of      *)
(* blocks and packets and wherever sends fail.                              *)
THEOREM NoPacketSkipped == McSafety => []CycleOffersAll
  <1>1. McInit => ServeOK
    BY ServeInitOK DEF McInit
  <1>2. ServeOK => CycleOffersAll
    <2> SUFFICES ASSUME ServeOK, serving # Stopped, pkt_nr = 0, srv_block = 0,
                        offered # {}
                 PROVE  offered = Blocks \X Pkts
      BY DEF CycleOffersAll
    <2>1. Before(pkt_nr, srv_block) = {}
      BY BeforeFacts DEF ServeOK
    <2> QED
      BY <2>1 DEF ServeOK
  <1> QED
    BY <1>1, <1>2, ServeKept, PTL DEF McSafety

-----------------------------------------------------------------------------
(* The receiver in the network. *)

LEMMA NetworkStep == [McNext]_allVars => [Next]_vars
  <1> SUFFICES ASSUME [McNext]_allVars PROVE [Next]_vars
    OBVIOUS
  <1>1. ASSUME NEW i \in Images, NEW b \in Blocks, NEW n \in Pkts,
               Arrive(i, b, n) \/ ArriveDamaged(i, b, n)
        PROVE  Next
    <2>1. \A ok \in BOOLEAN : Packet(i, b, n, ok) \in Packets
      BY RecvAssumption DEF Packet, Packets, Blocks
    <2> QED
      BY <1>1, <2>1, ZenonT(30) DEF Arrive, ArriveDamaged, Next
  <1>2. CASE ReceiverStep
    BY <1>2, Zenon DEF ReceiverStep, Next
  <1>3. CASE SendStep \/ SendFailsStep \/ RestartStep \/ UNCHANGED allVars
    BY <1>3, Zenon DEF SendStep, SendFailsStep, RestartStep, allVars
  <1> QED
    BY <1>1, <1>2, <1>3, ZenonT(30) DEF McNext

(* Whatever the servers and the network do to the packets, the receiver     *)
(* takes only the steps of its own program: all that is proved of           *)
(* recv_image alone holds of it in the network.                             *)
THEOREM NetworkAddsNothing == McSafety => Spec
  BY NetworkStep, PTL DEF McSafety, McInit, Spec

(* What a cell may hold. *)
OfImage(x, img) == x.kind \in {"raw", "image"} => x.img = img

LEMMA CellKinds ==
    ASSUME NEW img
    PROVE  /\ OfImage(Erased, img) /\ OfImage(Garbage, img)
           /\ \A b, c, pkts : OfImage(Raw(img, b, c, pkts), img)
           /\ \A b : OfImage(Decoded(img, b), img)
  BY DEF OfImage, Erased, Garbage, Raw, Decoded

LEMMA ProgrammedKinds ==
    ASSUME NEW old, NEW new, NEW img, OfImage(new, img)
    PROVE  OfImage(Programmed(old, new), img)
  BY CellKinds DEF Programmed

(* One eraseblock changes. *)
LEMMA ImageKept ==
    ASSUME TypeOK, NEW eb, NEW cs, NEW img,
           flash' = [flash EXCEPT ![eb] = cs],
           \A a \in EbNumbers, c \in CellNumbers : OfImage(flash[a][c], img),
           eb \in EbNumbers => \A c \in CellNumbers : OfImage(cs[c], img)
    PROVE  \A a \in EbNumbers, c \in CellNumbers : OfImage(flash'[a][c], img)
  <1>1. \A a \in EbNumbers : flash'[a] = IF a = eb THEN cs ELSE flash[a]
    BY DEF TypeOK
  <1> QED
    BY <1>1

LEMMA SpoiledKept ==
    ASSUME TypeOK, NEW eb, NEW img, flash' \in Spoiled(eb),
           \A a \in EbNumbers, c \in CellNumbers : OfImage(flash[a][c], img)
    PROVE  \A a \in EbNumbers, c \in CellNumbers : OfImage(flash'[a][c], img)
  <1>1. PICK x \in {Erased, Garbage} :
           flash' = [flash EXCEPT ![eb] = [c \in CellNumbers |-> x]]
    BY DEF Spoiled
  <1>2. \A c \in CellNumbers : OfImage([d \in CellNumbers |-> x][c], img)
    BY CellKinds
  <1> QED
    BY <1>1, <1>2, ImageKept

LEMMA ErasedKept ==
    ASSUME TypeOK, NEW eb, NEW img, flash' = EraseBlock(eb),
           \A a \in EbNumbers, c \in CellNumbers : OfImage(flash[a][c], img)
    PROVE  \A a \in EbNumbers, c \in CellNumbers : OfImage(flash'[a][c], img)
  <1>1. \A c \in CellNumbers : OfImage([d \in CellNumbers |-> Erased][c], img)
    BY CellKinds
  <1> QED
    BY <1>1, ImageKept DEF EraseBlock

(* A packet of image img is processed. *)
LEMMA ProcessOneImage ==
    ASSUME TypeOK, NEW p, NEW STATE ebs, NEW STATE m, Process(p, ebs, m),
           \A a \in EbNumbers, c \in CellNumbers : OfImage(flash[a][c], p.img)
    PROVE  \A a \in EbNumbers, c \in CellNumbers : OfImage(flash'[a][c], p.img)
  <1>1. CASE flash' = flash
    BY <1>1
  <1>2. CASE FlushPacket(p, ebs, m)
    <2> DEFINE e == ebs[p.block]
               slice == Raw(p.img, p.block, e.cell, Append(e.pkt_indices, p.pkt))
               new == Programmed(flash[e.eb][e.cell], slice)
               cs == [flash[e.eb] EXCEPT ![e.cell] = new]
    <2>1. e.eb \in EbNumbers /\ flash' = [flash EXCEPT ![e.eb] = cs]
      BY <1>2 DEF FlushPacket, WriteCell
    <2>2. OfImage(new, p.img)
      <3> HIDE DEF e
      <3> QED
        BY CellKinds, ProgrammedKinds
    <2> HIDE DEF e, new
    <2>3. \A c \in CellNumbers : cs[c] = IF c = e.cell THEN new ELSE flash[e.eb][c]
      BY <2>1 DEF TypeOK
    <2>4. \A c \in CellNumbers : OfImage(cs[c], p.img)
      BY <2>1, <2>2, <2>3, ZenonT(30)
    <2> HIDE DEF cs
    <2> QED
      BY <2>1, <2>4, ImageKept, ZenonT(30)
  <1>3. CASE FlushFailsRelocate(p, ebs, m)
    <2>1. flash' = EraseBlock(ebs[p.block].eb)
      BY <1>3, Zenon DEF FlushFailsRelocate
    <2> QED
      BY <2>1, ErasedKept, ZenonT(30)
  <1>4. CASE FlushFailsExit(p, ebs, m)
    BY <1>4, SpoiledKept, Zenon DEF FlushFailsExit
  <1> QED
    BY <1>1, <1>2, <1>3, <1>4 DEF Process, Discard, IgnoreExtra, BufferPacket

LEMMA OneImageKept == IInv /\ OneImage /\ [Next]_vars => OneImage'
  <1> SUFFICES ASSUME IInv, OneImage, [Next]_vars PROVE OneImage'
    OBVIOUS
  <1>1. TypeOK
    BY DEF IInv
  <1>2. \A a \in EbNumbers, c \in CellNumbers : OfImage(flash[a][c], image_crc)
    BY DEF OneImage, OfImage
  <1>3. ASSUME \A a \in EbNumbers, c \in CellNumbers : OfImage(flash'[a][c], image_crc')
        PROVE  OneImage'
    BY <1>3, ZenonT(30) DEF OneImage, OfImage
  <1>4. ASSUME NEW p \in Packets, FirstPacket(p) PROVE OneImage'
    <2>1. PICK h \in Allocations :
             Process(p, [b \in Blocks |-> Fresh(h[b])], h[NrBlocks - 1] + 1)
      BY <1>4 DEF FirstPacket
    <2>2. FreshFrom(flash, 0) /\ image_crc' = p.img
      BY <1>4 DEF FirstPacket, IInv, Allocated
    <2>3. \A a \in EbNumbers, c \in CellNumbers : OfImage(flash[a][c], p.img)
      <3>1. \A a \in EbNumbers, c \in CellNumbers : flash[a][c] = Erased
        BY <2>2 DEF FreshFrom, EbNumbers
      <3> QED
        BY <3>1, CellKinds
    <2> QED
      BY <1>1, <1>3, <2>1, <2>2, <2>3, ProcessOneImage, ZenonT(30)
  <1>5. ASSUME NEW p \in Packets, NextPacket(p) PROVE OneImage'
    <2>1. Process(p, eraseblocks, mtdoffset) /\ image_crc' = p.img /\ image_crc = p.img
      BY <1>5 DEF NextPacket, SameImage
    <2> QED
      BY <1>1, <1>2, <1>3, <2>1, ProcessOneImage, ZenonT(30)
  <1>6. ASSUME flash' = flash, image_crc' = image_crc PROVE OneImage'
    BY <1>6 DEF OneImage
  <1>7. ASSUME NEW p \in Packets, FatalPacket(p) PROVE OneImage'
    BY <1>6, <1>7 DEF FatalPacket, Exit1
  <1>8. CASE ReadError \/ DecodeFails \/ UNCHANGED vars
    BY <1>6, <1>8 DEF ReadError, DecodeFails, Exit1, vars
  <1>9. CASE DecodeBlock
    <2>1. image_crc' = image_crc /\ flash' = CleanedOfPackets(eraseblocks[block_nr].eb)
      BY <1>9 DEF DecodeBlock
    <2> QED
      BY <1>1, <1>2, <1>3, <1>6, <2>1, ErasedKept, ZenonT(30) DEF CleanedOfPackets
  <1>10. CASE WriteBlock
    <2> DEFINE eb == eraseblocks[block_nr].eb
               cs == [c \in CellNumbers |->
                         Programmed(flash[eb][c], Decoded(image_crc, block_nr))]
    <2>1. image_crc' = image_crc /\ flash' = [flash EXCEPT ![eb] = cs]
      BY <1>10, ZenonT(30) DEF WriteBlock
    <2>2. \A c \in CellNumbers : OfImage(cs[c], image_crc)
      BY CellKinds, ProgrammedKinds, ZenonT(30)
    <2> HIDE DEF cs, eb
    <2> QED
      BY <1>1, <1>2, <1>3, <2>1, <2>2, ImageKept, ZenonT(30)
  <1>11. CASE WriteBlockFails
    <2>1. image_crc' = image_crc /\ flash' = EraseBlock(eraseblocks[block_nr].eb)
      BY <1>11, ZenonT(30) DEF WriteBlockFails
    <2> QED
      BY <1>1, <1>2, <1>3, <2>1, ErasedKept, ZenonT(30)
  <1>12. CASE WriteBlockExit
    <2>1. image_crc' = image_crc /\ flash' \in Spoiled(eraseblocks[block_nr].eb)
      BY <1>12 DEF WriteBlockExit
    <2> QED
      BY <1>1, <1>2, <1>3, <2>1, SpoiledKept, ZenonT(30)
  <1> QED
    BY <1>4, <1>5, <1>7, <1>8, <1>9, <1>10, <1>11, <1>12, ZenonT(30)
    DEF Next, Receive, Decode, Terminated

(* However many servers send in the same group, the flash never holds data  *)
(* of more than the one image whose CRC the receiver saw first              *)
(* (recv_image.c:216-220).                                                  *)
THEOREM OnlyOneImage == McSafety => []OneImage
  <1>1. Init => OneImage
    <2>1. Init => \A eb \in EbNumbers, c \in CellNumbers : flash[eb][c] = Erased
      BY DEF Init
    <2> QED
      BY <2>1, CellKinds DEF OneImage, OfImage
  <1> QED
    BY <1>1, OneImageKept, NetworkAddsNothing, Invariance, PTL DEF Spec
=============================================================================
