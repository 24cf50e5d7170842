------------------------------ MODULE Enc28j60 ------------------------------
(***************************************************************************)
(* The driver of the Ethernet chip, HARDWARE/ENC28J60/enc28j60.c of the     *)
(* lwIP programs, and as much of the chip as it relies on: the bank that    *)
(* register addresses mean, the ring of received frames, whose headers say  *)
(* where the next one starts, the count of frames in it, and the            *)
(* transmitter.  Between any two accesses of the driver the chip may store  *)
(* another frame.                                                           *)
(*                                                                          *)
(* Abstractions.  An address of the ring is a unit of memory of which a     *)
(* frame takes Size[f]; the two bytes of a pointer register are written as  *)
(* one (the chip takes ERXRDPT when the high byte comes).  The wait for     *)
(* ESTAT.RXBUSY is part of the read that follows it.                        *)
(***************************************************************************)
EXTENDS Integers, Sequences

CONSTANTS
    Frame, NoFrame,
    Broken,      \* the frames with a wrong CRC: ERXFCON = 0 lets them in
    Size,        \* Size[f]: the units of the ring frame f takes
    RxSize       \* the units of the ring, RXSTART_INIT to RXSTOP_INIT

ASSUME RingAssumption ==
    /\ NoFrame \notin Frame /\ Broken \subseteq Frame
    /\ RxSize \in Nat \ {0}
    /\ Size \in [Frame -> 1 .. RxSize]

VARIABLES
    (* the chip *)
    BSEL, RXEN, TXRTS, TXERIF, EPKTCNT, ERXRDPT, ERXWRPT,
    stored,          \* the frames from ERXRDPT to ERXWRPT, with their headers
    (* the driver *)
    enc28j60bank, NextPacketPtr,
    packet,          \* what ENC28J60_Packet_Receive has read: NoFrame for len = 0
    pc               \* where the program is, in the driver or in a caller

rxVars == <<RXEN, EPKTCNT, ERXRDPT, ERXWRPT, stored>>
txVars == <<TXRTS, TXERIF>>
chipVars == <<BSEL, rxVars, txVars>>
driverVars == <<enc28j60bank, NextPacketPtr, packet>>
ethVars == <<chipVars, driverVars, pc>>

Bank == 0 .. 3
Address == 0 .. RxSize - 1

\* What the chip writes for a frame, the header included.
Entry == [frame : Frame, at : Address, next : Address]

EthTypeOK ==
    /\ BSEL \in Bank /\ enc28j60bank \in Bank
    /\ RXEN \in BOOLEAN /\ TXRTS \in BOOLEAN /\ TXERIF \in BOOLEAN
    /\ EPKTCNT \in Int
    /\ ERXRDPT \in Address /\ ERXWRPT \in Address /\ NextPacketPtr \in Address
    /\ stored \in Seq(Entry)
    /\ packet \in Frame \cup {NoFrame}

EthInit ==
    /\ BSEL = 0 /\ RXEN = FALSE /\ TXRTS = FALSE /\ TXERIF = FALSE
    /\ EPKTCNT = 0 /\ ERXRDPT = 0 /\ ERXWRPT = 0 /\ stored = <<>>
    /\ enc28j60bank = 0 /\ NextPacketPtr = 0 /\ packet = NoFrame
    /\ pc = "reset"

-----------------------------------------------------------------------------
(* The chip. *)

Wrapped(a) == IF a < RxSize THEN a ELSE a - RxSize

\* The unit in front of ERXRDPT is never written.
Room == (IF ERXRDPT > ERXWRPT THEN 0 ELSE RxSize) + ERXRDPT - ERXWRPT - 1

\* Frame f comes and is stored; there is nothing to see of one that does not fit.
FrameArrives(f) ==
    /\ RXEN /\ Size[f] <= Room
    /\ LET next == Wrapped(ERXWRPT + Size[f])
       IN /\ stored' = Append(stored, [frame |-> f, at |-> ERXWRPT, next |-> next])
          /\ ERXWRPT' = next
    /\ EPKTCNT' = EPKTCNT + 1
    /\ UNCHANGED <<BSEL, RXEN, ERXRDPT, txVars, driverVars, pc>>

\* The frame has been sent, or sending it was given up.
TransmitEnds ==
    /\ TXRTS
    /\ TXRTS' = FALSE
    /\ TXERIF' \in {TXERIF, TRUE}
    /\ UNCHANGED <<BSEL, rxVars, driverVars, pc>>

-----------------------------------------------------------------------------
(* The driver. *)

\* Mutant: the bank the chip was told is not noted.
Set_BankUnnoted(bank) ==
    /\ BSEL' = IF bank # enc28j60bank THEN bank ELSE BSEL
    /\ UNCHANGED enc28j60bank

Set_Bank(bank) ==
    /\ BSEL' = IF bank # enc28j60bank THEN bank ELSE BSEL
    /\ enc28j60bank' = bank

\* ENC28J60_Init up to the wait for ESTAT.CLKRDY: the chip is reset.  If its
\* clock does not get ready the caller tries again.
ENC28J60_Reset ==
    /\ pc = "reset"
    /\ BSEL' = 0 /\ RXEN' = FALSE /\ TXRTS' = FALSE /\ TXERIF' = FALSE
    /\ EPKTCNT' = 0 /\ ERXRDPT' = 0 /\ ERXWRPT' = 0 /\ stored' = <<>>
    /\ pc' \in {"reset", "configure"}
    /\ UNCHANGED driverVars

\* The rest of it.  The last register read, MIRDH, is in bank 2.
Configure(next) ==
    /\ pc = "configure"
    /\ NextPacketPtr' = 0 /\ ERXRDPT' = 0 /\ ERXWRPT' = 0
    /\ Set_Bank(2)
    /\ RXEN' = TRUE
    /\ pc' = next
    /\ UNCHANGED <<EPKTCNT, stored, txVars, packet>>

\* ENC28J60_Packet_Receive, as far as the test of EPKTCNT: it is in bank 1.
ReadCount(next) ==
    /\ pc = "count"
    /\ Set_Bank(1)
    /\ packet' = NoFrame
    /\ pc' = IF EPKTCNT = 0 THEN next ELSE "fetch"
    /\ UNCHANGED <<rxVars, txVars, NextPacketPtr>>

\* The frames in the ring from the one at address a on.
From(a) ==
    LET K == {k \in DOMAIN stored : stored[k].at = a}
    IN IF K = {} THEN <<>> ELSE SubSeq(stored, CHOOSE k \in K : TRUE, Len(stored))

\* The frame NextPacketPtr points to is read, with its header.
Fetch ==
    /\ pc = "fetch"
    /\ Set_Bank(0)
    /\ \E k \in DOMAIN stored :
          /\ stored[k].at = NextPacketPtr
          /\ NextPacketPtr' = stored[k].next
          /\ packet' = IF stored[k].frame \in Broken THEN NoFrame ELSE stored[k].frame
    /\ pc' = "free"
    /\ UNCHANGED <<rxVars, txVars>>

\* ERXRDPT is set: what lies before it is free.
Free ==
    /\ pc = "free"
    /\ Set_Bank(0)
    /\ ERXRDPT' = NextPacketPtr
    /\ stored' = From(NextPacketPtr)
    /\ pc' = "dec"
    /\ UNCHANGED <<RXEN, EPKTCNT, ERXWRPT, txVars, NextPacketPtr, packet>>

\* ECON2.PKTDEC is set, and the call returns.
CountOff(next) ==
    /\ pc = "dec"
    /\ EPKTCNT' = EPKTCNT - 1
    /\ pc' = next
    /\ UNCHANGED <<BSEL, RXEN, ERXRDPT, ERXWRPT, stored, txVars, driverVars>>

\* ENC28J60_Packet_Send waits, without limit, until the frame before has been
\* sent, writes this one and starts the transmitter.
ENC28J60_Packet_Send(from, next) ==
    /\ pc = from
    /\ ~TXRTS
    /\ Set_Bank(0)
    /\ TXRTS' = TRUE
    /\ pc' = next
    /\ UNCHANGED <<rxVars, TXERIF, NextPacketPtr, packet>>

\* It ends with a look at EIR.TXERIF, which nobody clears.
CheckTransmitter(from, next) ==
    /\ pc = from
    /\ TXRTS' = (TXRTS /\ ~TXERIF)
    /\ pc' = next
    /\ UNCHANGED <<BSEL, rxVars, TXERIF, driverVars>>

\* The processor restarts: the chip goes on as it was.
RestartDriver ==
    /\ enc28j60bank' = 0 /\ NextPacketPtr' = 0 /\ packet' = NoFrame
    /\ pc' = "reset"
    /\ UNCHANGED chipVars

-----------------------------------------------------------------------------
(* The driver and the chip agree, whatever arrives in between: the frames   *)
(* lie in the ring one after the other and none reaches into the next or,   *)
(* round the ring, into one still to be read; addresses mean the registers  *)
(* they are meant for; NextPacketPtr is where the first frame not yet read  *)
(* starts; and the count of frames is the number of those in the ring,      *)
(* except while one is freed but not counted off.                           *)
InRing ==
    /\ \A k \in DOMAIN stored : stored[k].next = Wrapped(stored[k].at + Size[stored[k].frame])
    /\ \A k \in 1 .. Len(stored) - 1 : stored[k].next = stored[k + 1].at
    /\ stored = <<>> => ERXWRPT = ERXRDPT
    /\ stored # <<>> => stored[1].at = ERXRDPT /\ stored[Len(stored)].next = ERXWRPT

\* How far address a is ahead of r on the ring.
Ahead(r, a) == IF a >= r THEN a - r ELSE a - r + RxSize

End(k) == Ahead(ERXRDPT, stored[k].at) + Size[stored[k].frame]

Spaced ==
    \A k \in DOMAIN stored :
        /\ End(k) <= Ahead(ERXRDPT, ERXWRPT)
        /\ \A j \in DOMAIN stored : j > k => End(k) <= Ahead(ERXRDPT, stored[j].at)

DriverAgrees ==
    /\ pc \in {"reset", "configure"} => enc28j60bank = 0
    /\ pc = "configure" => stored = <<>> /\ EPKTCNT = 0 /\ ~RXEN
    /\ pc \notin {"reset", "configure"} =>
        /\ BSEL = enc28j60bank /\ RXEN
        /\ NextPacketPtr = IF pc = "free" THEN stored[1].next ELSE ERXRDPT
        /\ EPKTCNT = Len(stored) + IF pc = "dec" THEN 1 ELSE 0
        /\ pc \in {"fetch", "free"} => stored # <<>>
=============================================================================
