----------------------------- MODULE McastImage -----------------------------
(***************************************************************************)
(* serve_image, and a server and a receiver joined by a multicast network  *)
(* that loses, duplicates, delays and reorders packets and damages their   *)
(* data: what the receiver reads is any packet that was ever sent, intact  *)
(* or not.                                                                 *)
(*                                                                         *)
(* serve_image (serve_image.c) sends the packets of the image for ever:    *)
(* for every packet number it goes through the blocks, in the odd blocks   *)
(* counting the packet numbers up and in the even ones down.  A send may   *)
(* fail; more than MaxWriteErrors failures in a row end the program.       *)
(* Pacing and statistics are left out.                                     *)
(*                                                                         *)
(* The operator may stop a server and start one for another image in the   *)
(* same multicast group: Restart.                                          *)
(***************************************************************************)
EXTENDS RecvImage

CONSTANTS
    MaxWriteErrors,       \* consecutive write errors tolerated: 10
    MaxRestarts           \* bound: servers started after the first one

VARIABLES
    serving,     \* the image being sent, or Stopped
    pkt_nr, srv_block, \* the loop counters pkt_nr and block_nr
    writeerrors, \* consecutive write errors
    offered,     \* packets handed to write() in this cycle
    sent,        \* packets the network took: any of them may yet arrive
    restarts     \* servers started after the first one

Stopped == "stopped"

ServeInit ==
    /\ serving \in Images
    /\ pkt_nr = 0
    /\ srv_block = 0
    /\ writeerrors = 0
    /\ offered = {}
    /\ sent = {}
    /\ restarts = 0

(* The packet to send: odd blocks count up, even blocks down. *)
oneoffpkt ==
    IF srv_block % 2 = 1 THEN pkt_nr ELSE total_pkts_per_block - pkt_nr

actualpkt ==
    IF srv_block % 2 = 1 THEN pkt_nr ELSE total_pkts_per_block - 1 - pkt_nr

(* The two loops, the inner one over the blocks. *)
Advance ==
    /\ srv_block' = (srv_block + 1) % NrBlocks
    /\ pkt_nr' = IF srv_block = NrBlocks - 1
                 THEN (pkt_nr + 1) % total_pkts_per_block ELSE pkt_nr

(* A new cycle starts with packet 0 of block 0. *)
Offer ==
    LET p == <<srv_block, actualpkt>> IN
    offered' = IF pkt_nr = 0 /\ srv_block = 0 THEN {p} ELSE offered \cup {p}

Send ==
    /\ serving # Stopped
    /\ sent' = sent \cup {<<serving, srv_block, actualpkt>>}
    /\ writeerrors' = 0
    /\ Offer
    /\ Advance
    /\ UNCHANGED <<serving, restarts>>

SendFails ==
    /\ serving # Stopped
    /\ writeerrors' = writeerrors + 1
    /\ Offer
    /\ IF writeerrors' > MaxWriteErrors
       THEN serving' = Stopped /\ UNCHANGED <<pkt_nr, srv_block>>
       ELSE Advance /\ UNCHANGED serving
    /\ UNCHANGED <<sent, restarts>>

(* A new server starts from the first packet of its image. *)
Restart ==
    /\ restarts < MaxRestarts
    /\ serving' \in Images
    /\ pkt_nr' = 0
    /\ srv_block' = 0
    /\ writeerrors' = 0
    /\ offered' = {}
    /\ restarts' = restarts + 1
    /\ UNCHANGED sent

-----------------------------------------------------------------------------
(* The server, the network and the receiver. *)

serverVars == <<serving, pkt_nr, srv_block, writeerrors, offered, sent, restarts>>
allVars == <<vars, serverVars>>

McInit == Init /\ ServeInit

(* The server's steps do not touch the receiver. *)
SendStep == Send /\ UNCHANGED vars
SendFailsStep == SendFails /\ UNCHANGED vars
RestartStep == Restart /\ UNCHANGED vars

Packet(i, b, n, ok) == [img |-> i, block |-> b, pkt |-> n, good |-> ok]

(* A packet arrives with its data intact, or damaged. *)
Arrive(i, b, n) ==
    /\ <<i, b, n>> \in sent
    /\ Receive(Packet(i, b, n, TRUE))
    /\ UNCHANGED serverVars

ArriveDamaged(i, b, n) ==
    /\ <<i, b, n>> \in sent
    /\ Receive(Packet(i, b, n, FALSE))
    /\ UNCHANGED serverVars

ReceiverStep == (ReadError \/ Decode) /\ UNCHANGED serverVars

McNext ==
    \/ SendStep \/ SendFailsStep \/ RestartStep
    \/ \E i \in Images, b \in Blocks, n \in Pkts :
          Arrive(i, b, n) \/ ArriveDamaged(i, b, n)
    \/ ReceiverStep

(* The fairness of the parts.  The send of a packet that comes up in every *)
(* cycle succeeds in the end, and since every packet is sent in every      *)
(* cycle, an intact copy of it arrives in the end over a link that does    *)
(* not lose all the copies.  The decode loop is sequential code and runs   *)
(* on.  Nothing is assumed of failures, restarts and damage.               *)
SendTurn(b, n) == SendStep /\ srv_block = b /\ pkt_nr = n

Fairness ==
    /\ WF_allVars(SendStep \/ SendFailsStep)
    /\ \A b \in Blocks, n \in Pkts : SF_allVars(SendTurn(b, n))
    /\ \A i \in Images, b \in Blocks, n \in Pkts : WF_allVars(Arrive(i, b, n))
    /\ WF_allVars(Decode /\ UNCHANGED serverVars)

McSafety == McInit /\ [][McNext]_allVars
McSpec == McSafety /\ Fairness

-----------------------------------------------------------------------------
(* While a server goes on sending, the receiver does not wait for ever: it *)
(* gets enough packets of every block, those it has to collect again after *)
(* a failed flash write included, decodes the image and ends.              *)
ReceiverFinishes ==
    <>(phase \in {"done", "failed"} \/ serving = Stopped)

(* However packets of successive servers mix in the network, everything on *)
(* the flash is data of the one image whose CRC the receiver first saw.    *)
OneImage ==
    \A eb \in EbNumbers, c \in CellNumbers :
        flash[eb][c].kind \in {"raw", "image"} => flash[eb][c].img = image_crc

(* Whenever a cycle is over, the server has offered every packet of every  *)
(* block to the network: counting down in the even blocks skips none, so a *)
(* receiver that waits long enough can get any packet it misses.           *)
CycleOffersAll ==
    serving # Stopped /\ pkt_nr = 0 /\ srv_block = 0 /\ offered # {}
        => offered = Blocks \X Pkts
=============================================================================
