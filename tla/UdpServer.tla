----------------------------- MODULE UdpServer -----------------------------
(***************************************************************************)
(* The UDP programs (Project/Lwip_UDP_Server and its client): the main loop *)
(* asks for the timers of LWIP_Polling, one frame is taken from the chip    *)
(* each time the input timer has expired, and goes through ethernetif_input *)
(* to lwIP, which answers or calls udp_server_rev; the loop then sends a    *)
(* datagram of its own every so many rounds and shows the received one.     *)
(*                                                                          *)
(* It runs on the clock of LwipTimer and on the chip and driver of          *)
(* Enc28j60.  TIM6 and the chip may come in between any two steps, and the  *)
(* processor may restart at any time.  Of lwIP only what it does with a     *)
(* frame is modelled; its pool of packet buffers is taken to suffice.       *)
(***************************************************************************)
EXTENDS LwipTimer, Enc28j60

CONSTANTS
    Datagram,     \* the frames that carry a datagram for the program
    Request,      \* those that lwIP answers at once, as an ARP request
    Input,        \* the timer of ethernetif_input
    Order,        \* the timers in the order of LWIP_Polling
    SendRounds    \* main sends when its count of rounds exceeds it

ASSUME ServerAssumption ==
    /\ Datagram \subseteq Frame /\ Request \subseteq Frame
    /\ Datagram \cap Request = {}
    /\ Input \in Timer
    /\ Order \in Seq(Timer)
    /\ \A i, j \in DOMAIN Order : Order[i] = Order[j] => i = j
    /\ SendRounds \in Nat

VARIABLES
    asked,            \* the place in Order that LWIP_Polling has got to
    lwip_recv_buf,    \* NoFrame if LWIP_NEW_DATA is clear
    rounds            \* main's static i

serverVars == <<asked, lwip_recv_buf, rounds>>
allVars == <<vars, ethVars, serverVars>>

PCs == {"reset", "configure", "poll", "count", "fetch", "free", "dec", "input",
        "output", "outputStarted", "main", "send", "sendStarted", "show"}

ServerTypeOK ==
    /\ TypeOK /\ EthTypeOK
    /\ pc \in PCs
    /\ asked \in 1 .. Len(Order) + 1
    /\ lwip_recv_buf \in Datagram \cup {NoFrame}
    /\ rounds \in 0 .. SendRounds + 1

ServerInit ==
    /\ Init /\ EthInit
    /\ asked = 1 /\ lwip_recv_buf = NoFrame /\ rounds = 0

-----------------------------------------------------------------------------
(* LWIP_Polling. *)

Goto(label) ==
    /\ pc' = label
    /\ UNCHANGED <<chipVars, driverVars>>

\* The next timer is asked for.
Ask ==
    /\ pc = "poll" /\ asked <= Len(Order)
    /\ Test(Order[asked])
    /\ asked' = IF Expired(Order[asked]) THEN asked ELSE asked + 1
    /\ UNCHANGED <<ethVars, lwip_recv_buf, rounds>>

\* It has expired.  ethernetif_input asks the chip for a frame; the work of the
\* others may send one (ip_reass_tmr an ICMP time exceeded), one at most here.
Work ==
    /\ pc = "poll" /\ expired # NoTimer
    /\ Run(expired)
    /\ asked' = asked + 1
    /\ \E label \in IF expired = Input THEN {"count"} ELSE {"poll", "output"} : Goto(label)
    /\ UNCHANGED <<lwip_recv_buf, rounds>>

EndPolling ==
    /\ pc = "poll" /\ expired = NoTimer /\ asked > Len(Order)
    /\ asked' = 1
    /\ Goto("main")
    /\ UNCHANGED <<vars, lwip_recv_buf, rounds>>

-----------------------------------------------------------------------------
(* Frames in and out. *)

\* Mutant: ethernetif_input goes on until no frame is left.
AfterInputMore == "count"

AfterInput == "poll"

\* ethernetif_input hands the frame to lwIP.  udp_server_rev copies a datagram
\* to lwip_recv_buf and sets LWIP_NEW_DATA, whether it was clear or not.
ethernetif_input ==
    /\ pc = "input"
    /\ lwip_recv_buf' = IF packet \in Datagram THEN packet ELSE lwip_recv_buf
    /\ packet' = NoFrame
    /\ pc' = IF packet \in Request THEN "output" ELSE AfterInput
    /\ UNCHANGED <<vars, chipVars, enc28j60bank, NextPacketPtr, asked, rounds>>

Driver ==
    /\ \/ ENC28J60_Reset
       \/ Configure("output")
       \/ ReadCount("input")
       \/ Fetch
       \/ Free
       \/ CountOff("input")
       \/ ENC28J60_Packet_Send("output", "outputStarted")
       \/ CheckTransmitter("outputStarted", "poll")
       \/ ENC28J60_Packet_Send("send", "sendStarted")
       \/ CheckTransmitter("sendStarted", "show")
    /\ UNCHANGED <<vars, serverVars>>

-----------------------------------------------------------------------------
(* main. *)

CountRound ==
    /\ pc = "main"
    /\ rounds' = IF rounds > SendRounds THEN 0 ELSE rounds + 1
    /\ Goto(IF rounds > SendRounds THEN "send" ELSE "show")
    /\ UNCHANGED <<vars, asked, lwip_recv_buf>>

\* udp_send gives up before it has a frame.
SendError ==
    /\ pc = "send"
    /\ Goto("show")
    /\ UNCHANGED <<vars, serverVars>>

\* Mutant: LWIP_NEW_DATA stays set.
ShowForever ==
    /\ pc = "show"
    /\ Goto("poll")
    /\ UNCHANGED <<vars, asked, lwip_recv_buf, rounds>>

Show ==
    /\ pc = "show"
    /\ lwip_recv_buf' = NoFrame
    /\ Goto("poll")
    /\ UNCHANGED <<vars, asked, rounds>>

RestartAll ==
    /\ Restart
    /\ RestartDriver
    /\ asked' = 1 /\ lwip_recv_buf' = NoFrame /\ rounds' = 0

-----------------------------------------------------------------------------
MainLoop ==
    \/ Ask \/ Work \/ EndPolling
    \/ ethernetif_input \/ Driver
    \/ CountRound \/ SendError \/ Show

Clock == TIM6_IRQHandler /\ UNCHANGED <<ethVars, serverVars>>

Chip ==
    /\ (\E f \in Frame : FrameArrives(f)) \/ TransmitEnds
    /\ UNCHANGED <<vars, serverVars>>

Transmitter == TransmitEnds /\ UNCHANGED <<vars, serverVars>>

ServerNext ==
    \/ MainLoop
    \/ Clock
    \/ Chip
    \/ RestartAll

(* The processor runs the main loop, the timer counts, and the chip ends    *)
(* what it transmits.                                                       *)
ServerFairness ==
    /\ WF_allVars(MainLoop)
    /\ WF_allVars(Clock)
    /\ WF_allVars(Transmitter)

ServerSpec == ServerInit /\ [][ServerNext]_allVars /\ ServerFairness

-----------------------------------------------------------------------------
(* Properties. *)

\* A timer found expired is the one LWIP_Polling is at.
Polling == expired # NoTimer => pc = "poll" /\ asked <= Len(Order) /\ expired = Order[asked]

(* lwip_recv_buf is free whenever a frame is taken from the chip: a round   *)
(* of LWIP_Polling takes one at most, and the main loop shows it before the *)
(* next round.                                                              *)
TakesAFrame == {"count", "fetch", "free", "dec", "input"}
AsksTimers == {"poll", "output", "outputStarted"}

OneFrameARound ==
    /\ packet \notin Broken
    /\ pc \in {"reset", "configure"} \cup TakesAFrame => lwip_recv_buf = NoFrame
    /\ pc \in TakesAFrame => \E k \in 1 .. asked - 1 : Order[k] = Input
    /\ pc \in AsksTimers /\ lwip_recv_buf # NoFrame => \E k \in 1 .. asked - 1 : Order[k] = Input

(* The driver and the chip agree about banks, pointers and counts at every  *)
(* step, also where a frame arrives in between and after a restart of the   *)
(* processor alone (enc28j60.c:226 trusts its note of the bank); and the    *)
(* clock is right and lwip_recv_buf free where a frame is taken.            *)
ServerInv ==
    /\ ServerTypeOK /\ TimerInv /\ Polling
    /\ InRing /\ Spaced /\ DriverAgrees
    /\ OneFrameARound

\* The frames stored by the chip that lwIP has not been given.
Unread ==
    LET entries == From(NextPacketPtr)
    IN [k \in DOMAIN entries |-> entries[k].frame]

Waiting ==
    IF pc \in {"reset", "configure"} THEN <<>>
    ELSE IF pc \in {"free", "dec", "input"} /\ packet # NoFrame THEN <<packet>> \o Unread
    ELSE Unread

(* Each frame the chip has stored is taken, in order, and a datagram that   *)
(* is not broken is shown by the main loop before the next one can          *)
(* overwrite lwip_recv_buf (udp_server.c:19).                               *)
Channel ==
    INSTANCE FrameChannel
    WITH waiting <- Waiting, held <- lwip_recv_buf, Datagram <- Datagram \ Broken

ImplementsFrameChannel == Channel!Safe

\* No datagram waits for ever, and none stays in lwip_recv_buf (main.c:95).
EveryDatagramShown == Channel!Progress
=============================================================================
