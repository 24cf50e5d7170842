-------------------------- MODULE UdpServerProofs --------------------------
(***************************************************************************)
(* Proofs about LwipTimer, for every width of the counter, every set of     *)
(* timers and every main loop that comes round in time, and about the UDP   *)
(* program that runs on it.                                                 *)
(***************************************************************************)
EXTENDS UdpServer, TLAPS

\* Counting up commutes with the unsigned difference until it wraps.
LEMMA DifferenceGrows ==
    ASSUME NEW a \in Tick, NEW b \in Tick, Minus(a, b) + 1 < Width
    PROVE  Minus(Incremented(a), b) = Minus(a, b) + 1
  BY TimerAssumption DEF Tick, Minus, Incremented

LEMMA DifferenceRange ==
    ASSUME NEW a \in Tick, NEW b \in Tick
    PROVE  Minus(a, b) \in Tick
  BY TimerAssumption DEF Tick, Minus

LEMMA TimerInit == Init => TimerInv
  <1> SUFFICES ASSUME Init PROVE TimerInv
    OBVIOUS
  <1>1. TypeOK
    BY TimerAssumption DEF Init, TypeOK, Tick
  <1>2. DifferenceInv
    <2>1. ASSUME NEW i \in Timer
          PROVE  /\ Minus(lwip_timer, last_time[i]) = 0 /\ since[i] = 0 /\ gap[i] = 0
                 /\ expired # i /\ Interval[i] \in Nat /\ Interval[i] >= 1
      BY TimerAssumption DEF Init, Minus
    <2>2. ASSUME NEW i \in Timer
          PROVE  /\ since[i] < Width => Minus(lwip_timer, last_time[i]) = since[i]
                 /\ expired # i => since[i] < Interval[i] + gap[i]
                 /\ expired = i => since[i] >= Interval[i] /\ Minus(lwip_timer, read) = gap[i]
      BY <2>1
    <2> QED
      BY <2>2 DEF DifferenceInv
  <1> QED
    BY <1>1, <1>2 DEF TimerInv

LEMMA TimerNext == TimerInv /\ [Next]_vars => TimerInv'
  <1> SUFFICES ASSUME TimerInv, [Next]_vars PROVE TimerInv'
    OBVIOUS
  <1> USE TimerAssumption DEF TimerInv, TypeOK
  <1>1. CASE TIM6_IRQHandler
    <2>1. TypeOK'
      BY <1>1 DEF TIM6_IRQHandler, Incremented, Tick
    <2>2. ASSUME NEW i \in Timer
          PROVE  /\ since'[i] < Width => Minus(lwip_timer, last_time[i])' = since'[i]
                 /\ expired' # i => since'[i] < Interval[i] + gap'[i]
                 /\ expired' = i => since'[i] >= Interval[i] /\ Minus(lwip_timer, read)' = gap'[i]
      <3>1. /\ since'[i] = since[i] + 1 /\ gap'[i] = gap[i] + 1
            /\ lwip_timer' = Incremented(lwip_timer)
            /\ UNCHANGED <<last_time, expired, read>>
        BY <1>1 DEF TIM6_IRQHandler
      <3>2. ASSUME since'[i] < Width
            PROVE  Minus(lwip_timer, last_time[i])' = since'[i]
        <4>1. Minus(lwip_timer, last_time[i]) = since[i]
          BY <3>1, <3>2 DEF DifferenceInv
        <4>2. Minus(Incremented(lwip_timer), last_time[i]) = since[i] + 1
          BY <3>1, <3>2, <4>1, DifferenceGrows
        <4> QED
          BY <3>1, <4>2 DEF Minus
      <3>3. ASSUME expired = i
            PROVE  Minus(lwip_timer, read)' = gap'[i]
        <4>1. Minus(lwip_timer, read) = gap[i] /\ gap[i] + 1 < Width
          BY <1>1, <3>3 DEF DifferenceInv, TIM6_IRQHandler
        <4>2. Minus(Incremented(lwip_timer), read) = gap[i] + 1
          BY <4>1, DifferenceGrows
        <4> QED
          BY <3>1, <4>2 DEF Minus
      <3> QED
        BY <3>1, <3>2, <3>3 DEF DifferenceInv
    <2> QED
      BY <2>1, <2>2 DEF DifferenceInv
  <1>2. ASSUME NEW j \in Timer, Test(j) PROVE TimerInv'
    <2>1. TypeOK'
      BY <1>2 DEF Test
    <2>2. since[j] < Width
      BY <1>2 DEF Test, DifferenceInv
    <2>3. Expired(j) <=> since[j] >= Interval[j]
      BY <2>2 DEF Expired, DifferenceInv
    <2>4. ASSUME NEW i \in Timer
          PROVE  /\ expired' # i => since'[i] < Interval[i] + gap'[i]
                 /\ expired' = i => since'[i] >= Interval[i] /\ Minus(lwip_timer, read)' = gap'[i]
      <3>1. CASE i = j
        <4>1. Minus(lwip_timer, lwip_timer) = 0
          BY DEF Minus, Tick
        <4>2. Minus(lwip_timer, read)' = 0 /\ gap'[i] = 0
          BY <1>2, <3>1, <4>1 DEF Test, Minus
        <4> QED
          BY <1>2, <2>3, <3>1, <4>2 DEF Test
      <3>2. CASE i # j
        BY <1>2, <3>2 DEF Test, DifferenceInv
      <3> QED
        BY <3>1, <3>2
    <2>5. UNCHANGED <<lwip_timer, last_time, since>>
      BY <1>2 DEF Test
    <2> QED
      BY <2>1, <2>4, <2>5 DEF DifferenceInv, Minus
  <1>3. ASSUME NEW j \in Timer, Run(j) PROVE TimerInv'
    <2>1. TypeOK'
      BY <1>3 DEF Run
    <2>2. expired = j /\ Minus(lwip_timer, read) = gap[j]
      BY <1>3 DEF Run, DifferenceInv
    <2>3. Minus(lwip_timer, lwip_timer) = 0
      BY DEF Minus, Tick
    <2>4. ASSUME NEW i \in Timer
          PROVE  /\ since'[i] < Width => Minus(lwip_timer, last_time[i])' = since'[i]
                 /\ expired' # i => since'[i] < Interval[i] + gap'[i]
                 /\ expired' = i => since'[i] >= Interval[i] /\ Minus(lwip_timer, read)' = gap'[i]
      <3>1. CASE i = j
        BY <1>3, <2>3, <2>2, <3>1 DEF Run, Minus
      <3>2. CASE i # j
        BY <1>3, <2>2, <3>2 DEF Run, DifferenceInv, Minus
      <3> QED
        BY <3>1, <3>2
    <2> QED
      BY <2>1, <2>4 DEF DifferenceInv
  <1>4. CASE UNCHANGED vars
    BY <1>4 DEF vars, DifferenceInv, Minus
  <1>5. CASE Restart
    <2>1. TypeOK'
      BY <1>5 DEF Restart, Tick
    <2>2. ASSUME NEW i \in Timer
          PROVE  /\ Minus(lwip_timer, last_time[i])' = 0 /\ since'[i] = 0 /\ gap'[i] = 0
                 /\ expired' # i /\ Interval[i] \in Nat /\ Interval[i] >= 1
      BY <1>5 DEF Restart, Minus
    <2> QED
      BY <2>1, <2>2 DEF DifferenceInv
  <1> QED
    BY <1>1, <1>2, <1>3, <1>4, <1>5 DEF Next

\* The unsigned difference is the true time as long as it fits the counter.
THEOREM DifferenceTrue == Spec => []TimerInv
  BY TimerInit, TimerNext, PTL DEF Spec

\* No timer's work runs before its interval is over.
THEOREM Early == Spec => []NeverEarly
  <1>1. TimerInv => NeverEarly
    BY DEF TimerInv, DifferenceInv, NeverEarly
  <1> QED
    BY <1>1, DifferenceTrue, PTL

\* No expiry is overlooked, wherever the counter wraps.
THEOREM Overlooked == Spec => []NeverOverlooked
  <1>1. TimerInv => NeverOverlooked
    BY TimerAssumption DEF TimerInv, TypeOK, DifferenceInv, NeverOverlooked
  <1> QED
    BY <1>1, DifferenceTrue, PTL

-----------------------------------------------------------------------------
(* The UDP program. *)

\* Types, and the place of the polling, without what the driver and the chip
\* agree about.
TypedInv == ServerTypeOK /\ Polling /\ TimerInv

LEMMA NoElements ==
    ASSUME NEW S PROVE <<>> \in Seq(S)
  OBVIOUS

\* What is left of a sequence from one of its places on.
LEMMA Suffix ==
    ASSUME NEW S, NEW s \in Seq(S), NEW k \in DOMAIN s
    PROVE  /\ SubSeq(s, k, Len(s)) \in Seq(S)
           /\ Len(SubSeq(s, k, Len(s))) = Len(s) - k + 1
           /\ \A j \in 1 .. Len(s) - k + 1 : SubSeq(s, k, Len(s))[j] = s[j + k - 1]
  OBVIOUS

LEMMA TypedInit == ServerInit => TypedInv
  <1> SUFFICES ASSUME ServerInit PROVE TypedInv
    OBVIOUS
  <1>1. TimerInv
    BY TimerInit DEF ServerInit
  <1>2. EthTypeOK
    <2>1. stored = <<>>
      BY DEF ServerInit, EthInit
    <2>2. stored \in Seq(Entry)
      BY <2>1, NoElements, Zenon
    <2>3. 0 \in Address
      BY RingAssumption DEF Address
    <2>4. RXEN \in BOOLEAN /\ TXRTS \in BOOLEAN /\ TXERIF \in BOOLEAN
      BY Zenon DEF ServerInit, EthInit
    <2>5. /\ BSEL = 0 /\ EPKTCNT = 0 /\ ERXRDPT = 0 /\ ERXWRPT = 0
          /\ enc28j60bank = 0 /\ NextPacketPtr = 0 /\ packet = NoFrame
      BY DEF ServerInit, EthInit
    <2> QED
      BY <2>2, <2>3, <2>4, <2>5 DEF EthTypeOK, Bank
  <1>3. asked \in 1 .. Len(Order) + 1 /\ rounds \in 0 .. SendRounds + 1
    BY ServerAssumption DEF ServerInit
  <1> QED
    BY <1>1, <1>2, <1>3 DEF TypedInv, ServerTypeOK, Polling, TimerInv, ServerInit, EthInit, Init, PCs

\* Every step of the program is one of its clock, or leaves the clock alone.
LEMMA ClockStep ==
    ASSUME TypedInv, [ServerNext]_allVars
    PROVE  [Next]_vars
  <1>1. ASSUME Ask PROVE Next
    <2>1. Order[asked] \in Timer
      BY <1>1, ServerAssumption DEF Ask, TypedInv, ServerTypeOK
    <2> QED
      BY <1>1, <2>1 DEF Ask, Next
  <1>2. ASSUME Work PROVE Next
    <2>1. expired \in Timer
      BY <1>2 DEF Work, TypedInv, TimerInv, TypeOK
    <2> QED
      BY <1>2, <2>1 DEF Work, Next
  <1>3. ASSUME EndPolling \/ ethernetif_input \/ Driver \/ CountRound \/ SendError \/ Show
        PROVE  UNCHANGED vars
    BY <1>3 DEF EndPolling, ethernetif_input, Driver, CountRound, SendError, Show
  <1> QED
    BY <1>1, <1>2, <1>3 DEF ServerNext, MainLoop, Clock, Chip, RestartAll, Next, allVars

LEMMA TypedNext == TypedInv /\ [ServerNext]_allVars => TypedInv'
  <1> SUFFICES ASSUME TypedInv, [ServerNext]_allVars PROVE TypedInv'
    OBVIOUS
  <1>1. TimerInv'
    BY ClockStep, TimerNext DEF TypedInv
  <1>2. EthTypeOK'
    <2> USE RingAssumption DEF TypedInv, ServerTypeOK, EthTypeOK, Bank, Address
    <2>1. CASE Driver
      <3>1. CASE ENC28J60_Reset
        <4>1. stored' = <<>>
          BY <3>1 DEF ENC28J60_Reset
        <4>2. stored' \in Seq(Entry)
          BY <4>1, NoElements, Zenon
        <4>3. RXEN' \in BOOLEAN /\ TXRTS' \in BOOLEAN /\ TXERIF' \in BOOLEAN
          BY <3>1, Zenon DEF ENC28J60_Reset
        <4>4. /\ BSEL' = 0 /\ EPKTCNT' = 0 /\ ERXRDPT' = 0 /\ ERXWRPT' = 0
              /\ UNCHANGED <<enc28j60bank, NextPacketPtr, packet>>
          BY <3>1 DEF ENC28J60_Reset, driverVars
        <4> QED
          BY <4>2, <4>3, <4>4
      <3>2. CASE Configure("output")
        BY <3>2 DEF Configure, Set_Bank, txVars
      <3>3. CASE ReadCount("input")
        BY <3>3 DEF ReadCount, Set_Bank, rxVars, txVars
      <3>4. CASE Fetch
        <4>1. PICK k \in DOMAIN stored :
                  /\ NextPacketPtr' = stored[k].next
                  /\ packet' \in {NoFrame, stored[k].frame}
          BY <3>4 DEF Fetch
        <4>2. stored[k] \in Entry
          OBVIOUS
        <4>3. NextPacketPtr' \in Address /\ packet' \in Frame \cup {NoFrame}
          BY <4>1, <4>2 DEF Entry
        <4>4. UNCHANGED <<rxVars, txVars>> /\ BSEL' \in Bank /\ enc28j60bank' \in Bank
          BY <3>4 DEF Fetch, Set_Bank
        <4> QED
          BY <4>3, <4>4 DEF rxVars, txVars
      <3>5. CASE Free
        <4>1. From(NextPacketPtr) \in Seq(Entry)
          BY NoElements, Suffix DEF From
        <4> QED
          BY <3>5, <4>1 DEF Free, Set_Bank, txVars
      <3>6. CASE CountOff("input")
        BY <3>6 DEF CountOff, txVars, driverVars
      <3>7. ASSUME NEW from, NEW next, ENC28J60_Packet_Send(from, next) PROVE EthTypeOK'
        BY <3>7 DEF ENC28J60_Packet_Send, Set_Bank, rxVars
      <3>8. ASSUME NEW from, NEW next, CheckTransmitter(from, next) PROVE EthTypeOK'
        BY <3>8 DEF CheckTransmitter, rxVars, driverVars
      <3> QED
        BY <2>1, <3>1, <3>2, <3>3, <3>4, <3>5, <3>6, <3>7, <3>8 DEF Driver
    <2>2. CASE Chip
      <3>1. ASSUME NEW f \in Frame, FrameArrives(f) PROVE EthTypeOK'
        <4>1. Wrapped(ERXWRPT + Size[f]) \in Address
          BY DEF Wrapped
        <4>2. [frame |-> f, at |-> ERXWRPT, next |-> Wrapped(ERXWRPT + Size[f])] \in Entry
          BY <4>1 DEF Entry
        <4> QED
          BY <3>1, <4>1, <4>2 DEF FrameArrives, txVars, driverVars
      <3>2. CASE TransmitEnds
        BY <3>2 DEF TransmitEnds, rxVars, driverVars
      <3> QED
        BY <2>2, <3>1, <3>2 DEF Chip
    <2>3. CASE RestartAll
      BY <2>3 DEF RestartAll, RestartDriver, chipVars, rxVars, txVars
    <2>4. CASE ethernetif_input
      BY <2>4 DEF ethernetif_input, chipVars, rxVars, txVars
    <2>5. ASSUME NEW label, Goto(label) PROVE EthTypeOK'
      BY <2>5 DEF Goto, chipVars, rxVars, txVars, driverVars
    <2>6. CASE UNCHANGED ethVars
      BY <2>6 DEF ethVars, chipVars, rxVars, txVars, driverVars
    <2> QED
      BY <2>1, <2>2, <2>3, <2>4, <2>5, <2>6
         DEF ServerNext, MainLoop, Ask, Work, EndPolling, CountRound, SendError, Show,
             Clock, allVars
  <1>3. /\ pc' \in PCs
        /\ asked' \in 1 .. Len(Order) + 1
        /\ lwip_recv_buf' \in Datagram \cup {NoFrame}
        /\ rounds' \in 0 .. SendRounds + 1
        /\ Polling'
    <2> USE ServerAssumption, TimerAssumption DEF TypedInv, ServerTypeOK, Polling, PCs
    <2>1. CASE Ask
      BY <2>1 DEF Ask, Test, ethVars, chipVars, driverVars
    <2>2. CASE Work
      BY <2>2 DEF Work, Run, Goto
    <2>3. CASE EndPolling
      BY <2>3 DEF EndPolling, Goto, vars
    <2>4. CASE ethernetif_input
      BY <2>4 DEF ethernetif_input, AfterInput, vars
    <2>5. CASE Driver
      BY <2>5 DEF Driver, ENC28J60_Reset, Configure, ReadCount, Fetch, Free, CountOff,
                  ENC28J60_Packet_Send, CheckTransmitter, vars, serverVars
    <2>6. CASE CountRound \/ SendError \/ Show
      BY <2>6 DEF CountRound, SendError, Show, Goto, vars, serverVars
    <2>7. CASE Clock
      BY <2>7 DEF Clock, TIM6_IRQHandler, ethVars, serverVars
    <2>8. CASE Chip
      BY <2>8 DEF Chip, FrameArrives, TransmitEnds, vars, serverVars
    <2>9. CASE RestartAll
      BY <2>9 DEF RestartAll, RestartDriver, Restart
    <2>10. CASE UNCHANGED allVars
      BY <2>10 DEF allVars, vars, ethVars, serverVars
    <2> QED
      BY <2>1, <2>2, <2>3, <2>4, <2>5, <2>6, <2>7, <2>8, <2>9, <2>10
         DEF ServerNext, MainLoop
  <1> QED
    BY <1>1, <1>2, <1>3 DEF TypedInv, ServerTypeOK, TimerInv

\* The program asks for its timers, does their work and restarts as LwipTimer
\* says, so that what is proved of the clock holds in it.
THEOREM ServerUsesTheClock == ServerSpec => Spec
  <1>1. ServerInit => Init
    BY DEF ServerInit
  <1>2. TypedInv /\ [ServerNext]_allVars => [Next]_vars
    BY ClockStep
  <1> QED
    BY <1>1, <1>2, TypedInit, TypedNext, PTL DEF ServerSpec, Spec

-----------------------------------------------------------------------------
(* The ring.  Everything is measured from ERXRDPT on. *)

LEMMA Forward ==
    ASSUME NEW r \in Address, NEW a \in Address, NEW n \in 1 .. RxSize,
           Ahead(r, a) + n < RxSize
    PROVE  Wrapped(a + n) \in Address /\ Ahead(r, Wrapped(a + n)) = Ahead(r, a) + n
  BY RingAssumption DEF Address, Wrapped, Ahead

LEMMA Behind ==
    ASSUME NEW r \in Address, NEW a \in Address
    PROVE  Ahead(r, a) \in 0 .. RxSize - 1 /\ Ahead(r, r) = 0
  BY RingAssumption DEF Address, Ahead

LEMMA Moved ==
    ASSUME NEW r \in Address, NEW q \in Address, NEW a \in Address,
           Ahead(r, q) <= Ahead(r, a)
    PROVE  Ahead(q, a) = Ahead(r, a) - Ahead(r, q)
  BY RingAssumption DEF Address, Ahead

\* The room the chip sees is what is left of the ring in front of ERXRDPT.
LEMMA RoomLeft ==
    ASSUME EthTypeOK
    PROVE  Room = RxSize - 1 - Ahead(ERXRDPT, ERXWRPT)
  BY RingAssumption DEF EthTypeOK, Room, Ahead, Address

LEMMA Entries ==
    ASSUME EthTypeOK, NEW k \in DOMAIN stored
    PROVE  /\ k \in 1 .. Len(stored) /\ Len(stored) \in Nat
           /\ stored[k].frame \in Frame /\ stored[k].at \in Address /\ stored[k].next \in Address
           /\ Size[stored[k].frame] \in 1 .. RxSize
           /\ Ahead(ERXRDPT, stored[k].at) \in Nat /\ End(k) \in Nat
           /\ Ahead(ERXRDPT, ERXWRPT) \in Nat
  <1>1. stored[k] \in Entry /\ k \in 1 .. Len(stored) /\ Len(stored) \in Nat
    BY DEF EthTypeOK
  <1>2. /\ stored[k].frame \in Frame /\ stored[k].at \in Address /\ stored[k].next \in Address
        /\ Size[stored[k].frame] \in 1 .. RxSize
    BY <1>1, RingAssumption DEF Entry
  <1>3. Ahead(ERXRDPT, stored[k].at) \in Nat /\ Ahead(ERXRDPT, ERXWRPT) \in Nat
    <2>1. ERXRDPT \in Address /\ ERXWRPT \in Address
      BY DEF EthTypeOK
    <2>2. /\ Ahead(ERXRDPT, stored[k].at) \in 0 .. RxSize - 1
          /\ Ahead(ERXRDPT, ERXWRPT) \in 0 .. RxSize - 1
      BY <1>2, <2>1, Behind
    <2> QED
      BY <2>2, RingAssumption
  <1> QED
    BY <1>1, <1>2, <1>3, RingAssumption DEF End

\* Where a frame starts no other does, and the first is at ERXRDPT.
LEMMA FirstOnly ==
    ASSUME EthTypeOK, InRing, Spaced, NEW k \in DOMAIN stored, stored[k].at = ERXRDPT
    PROVE  k = 1
  <1> SUFFICES ASSUME k # 1 PROVE FALSE
    OBVIOUS
  <1>1. 1 \in DOMAIN stored /\ k > 1
    BY Entries DEF EthTypeOK
  <1>2. End(1) <= Ahead(ERXRDPT, stored[k].at)
    BY <1>1 DEF Spaced
  <1>3. End(1) >= 1
    BY <1>1, Entries, RingAssumption DEF End
  <1> QED
    BY <1>2, <1>3, Behind, Entries DEF EthTypeOK

\* A frame that arrives is put behind the others.
LEMMA Arrival ==
    ASSUME EthTypeOK, InRing, Spaced, DriverAgrees, NEW f \in Frame, FrameArrives(f)
    PROVE  InRing' /\ Spaced' /\ DriverAgrees'
  <1>0. PICK n \in Nat : n = Len(stored)
    BY DEF EthTypeOK
  <1> DEFINE e == [frame |-> f, at |-> ERXWRPT, next |-> Wrapped(ERXWRPT + Size[f])]
  <1>1. /\ ERXRDPT \in Address /\ ERXWRPT \in Address /\ stored \in Seq(Entry)
        /\ n \in Nat /\ n = Len(stored) /\ Size[f] \in 1 .. RxSize /\ RxSize \in Nat
    BY <1>0, RingAssumption DEF EthTypeOK
  <1>2. /\ Ahead(ERXRDPT, ERXWRPT) \in Nat
        /\ Ahead(ERXRDPT, ERXWRPT) + Size[f] < RxSize
    <2>1. Ahead(ERXRDPT, ERXWRPT) \in 0 .. RxSize - 1
      BY <1>1, Behind
    <2>2. Size[f] <= RxSize - 1 - Ahead(ERXRDPT, ERXWRPT)
      BY RoomLeft DEF FrameArrives
    <2> QED
      BY <1>1, <2>1, <2>2
  <1>3. /\ stored' = Append(stored, e) /\ ERXWRPT' = Wrapped(ERXWRPT + Size[f])
        /\ ERXRDPT' = ERXRDPT /\ EPKTCNT' = EPKTCNT + 1 /\ RXEN
        /\ UNCHANGED <<BSEL, RXEN, enc28j60bank, NextPacketPtr, pc>>
    BY DEF FrameArrives, driverVars
  <1>4. /\ DOMAIN stored' = 1 .. n + 1 /\ Len(stored') = n + 1
        /\ \A k \in 1 .. n : stored'[k] = stored[k]
        /\ stored'[n + 1] = e
    BY <1>1, <1>3
  <1>5. e.frame = f /\ e.at = ERXWRPT /\ e.next = ERXWRPT'
    BY <1>3
  <1>6. Ahead(ERXRDPT', ERXWRPT') = Ahead(ERXRDPT, ERXWRPT) + Size[f]
    BY <1>1, <1>2, <1>3, Forward
  <1>7. InRing'
    <2>1. \A k \in DOMAIN stored' :
              stored'[k].next = Wrapped(stored'[k].at + Size[stored'[k].frame])
      BY <1>1, <1>3, <1>4, <1>5 DEF InRing
    <2>2. \A k \in 1 .. n : stored'[k].next = stored'[k + 1].at
      <3>1. ASSUME NEW k \in 1 .. n, k # n PROVE stored'[k].next = stored'[k + 1].at
        BY <1>1, <1>4, <3>1 DEF InRing
      <3>2. CASE n > 0
        BY <1>1, <1>4, <1>5, <3>2 DEF InRing
      <3> QED
        BY <1>1, <3>1, <3>2
    <2>3. stored'[1].at = ERXRDPT' /\ stored'[n + 1].next = ERXWRPT'
      BY <1>1, <1>3, <1>4, <1>5 DEF InRing
    <2>4. stored' # <<>>
      BY <1>1, <1>3
    <2> QED
      BY <1>1, <1>4, <2>1, <2>2, <2>3, <2>4 DEF InRing, Wrapped
  <1>8. Spaced'
    <2>1. ASSUME NEW k \in 1 .. n
          PROVE  /\ End(k)' = End(k) /\ End(k) \in Nat
                 /\ End(k) <= Ahead(ERXRDPT, ERXWRPT)
                 /\ \A j \in 1 .. n : j > k => End(k) <= Ahead(ERXRDPT, stored[j].at)
      <3>1. k \in DOMAIN stored /\ DOMAIN stored = 1 .. n
        BY <1>1
      <3>2. End(k)' = End(k)
        BY <1>3, <1>4 DEF End, Ahead
      <3>3. End(k) \in Nat
        BY <3>1, Entries
      <3> QED
        BY <3>1, <3>2, <3>3 DEF Spaced
    <2>2. End(n + 1)' = Ahead(ERXRDPT', ERXWRPT')
      BY <1>3, <1>4, <1>5, <1>6 DEF End, Ahead
    <2>3. ASSUME NEW k \in 1 .. n + 1
          PROVE  /\ End(k)' <= Ahead(ERXRDPT, ERXWRPT)'
                 /\ \A j \in 1 .. n + 1 : j > k => End(k)' <= Ahead(ERXRDPT, stored[j].at)'
      <3>1. CASE k = n + 1
        BY <1>1, <1>2, <1>6, <2>2, <3>1 DEF Ahead
      <3>2. CASE k # n + 1
        <4>1. k \in 1 .. n
          BY <1>1, <3>2
        <4>2. End(k)' <= Ahead(ERXRDPT, ERXWRPT)'
          BY <1>1, <1>2, <1>6, <2>1, <4>1 DEF Ahead
        <4>3. ASSUME NEW j \in 1 .. n, j > k PROVE End(k)' <= Ahead(ERXRDPT, stored[j].at)'
          BY <1>3, <1>4, <2>1, <4>1, <4>3 DEF Ahead
        <4>4. End(k)' <= Ahead(ERXRDPT, stored[n + 1].at)'
          BY <1>3, <1>4, <1>5, <2>1, <4>1 DEF Ahead
        <4> QED
          BY <1>1, <4>2, <4>3, <4>4
      <3> QED
        BY <3>1, <3>2
    <2> QED
      BY <1>4, <2>3 DEF Spaced
  <1>9. DriverAgrees'
    <2>1. stored # <<>> => stored'[1] = stored[1]
      BY <1>1, <1>4
    <2>2. stored' # <<>>
      BY <1>1, <1>3
    <2>3. pc # "configure"
      BY <1>3 DEF DriverAgrees
    <2> QED
      BY <1>1, <1>3, <1>4, <2>1, <2>2, <2>3 DEF DriverAgrees
  <1> QED
    BY <1>7, <1>8, <1>9

\* How the frames lie, in numbers.
LEMMA Spacing ==
    ASSUME EthTypeOK, Spaced, NEW n \in Nat, n = Len(stored)
    PROVE  /\ \A k \in 1 .. n :
                  /\ stored[k].at \in Address /\ stored[k].next \in Address
                  /\ Size[stored[k].frame] \in 1 .. RxSize
                  /\ Ahead(ERXRDPT, stored[k].at) \in Nat /\ End(k) \in Nat
                  /\ End(k) = Ahead(ERXRDPT, stored[k].at) + Size[stored[k].frame]
                  /\ End(k) <= Ahead(ERXRDPT, ERXWRPT)
                  /\ \A j \in 1 .. n : j > k => End(k) <= Ahead(ERXRDPT, stored[j].at)
           /\ Ahead(ERXRDPT, ERXWRPT) \in 0 .. RxSize - 1 /\ RxSize \in Nat
  <1>1. DOMAIN stored = 1 .. n /\ ERXRDPT \in Address /\ ERXWRPT \in Address
    BY DEF EthTypeOK
  <1>2. Ahead(ERXRDPT, ERXWRPT) \in 0 .. RxSize - 1 /\ RxSize \in Nat
    BY <1>1, Behind, RingAssumption
  <1> QED
    BY <1>1, <1>2, Entries DEF Spaced, End

\* The first frame ends where its header says the next one starts.
LEMMA FirstEnds ==
    ASSUME EthTypeOK, InRing, Spaced, stored # <<>>
    PROVE  /\ stored[1].next \in Address /\ Ahead(ERXRDPT, stored[1].next) = End(1)
           /\ End(1) >= 1 /\ Ahead(ERXRDPT, stored[1].at) = 0
  <1>0. PICK n \in Nat : n = Len(stored)
    BY DEF EthTypeOK
  <1>1. 1 \in 1 .. n /\ ERXRDPT \in Address
    BY <1>0 DEF EthTypeOK
  <1>2. stored[1].at = ERXRDPT /\ stored[1].next = Wrapped(stored[1].at + Size[stored[1].frame])
    BY <1>0, <1>1 DEF InRing, EthTypeOK
  <1>3. Ahead(ERXRDPT, stored[1].at) = 0
    BY <1>1, <1>2, Behind
  <1>4. /\ stored[1].at \in Address /\ Size[stored[1].frame] \in 1 .. RxSize
        /\ End(1) = Ahead(ERXRDPT, stored[1].at) + Size[stored[1].frame]
        /\ End(1) < RxSize /\ RxSize \in Nat
    BY <1>0, <1>1, Spacing
  <1> QED
    BY <1>1, <1>2, <1>3, <1>4, Forward

\* From there on lie the others.
LEMMA FromSecond ==
    ASSUME EthTypeOK, InRing, Spaced, NEW n \in Nat, n = Len(stored), n >= 1
    PROVE  /\ From(stored[1].next) \in Seq(Entry)
           /\ Len(From(stored[1].next)) = n - 1
           /\ \A k \in 1 .. n - 1 : From(stored[1].next)[k] = stored[k + 1]
  <1> DEFINE a == stored[1].next
  <1>1. DOMAIN stored = 1 .. n /\ stored \in Seq(Entry) /\ stored # <<>>
    BY DEF EthTypeOK
  <1>2. ASSUME NEW k \in 1 .. n, stored[k].at = a PROVE k = 2
    <2>1. k # 1
      BY <1>1, <1>2, FirstEnds
    <2>2. n >= 2 /\ 2 \in 1 .. n
      BY <2>1
    <2>3. stored[2].at = a
      BY <1>1, <2>2 DEF InRing
    <2>4. ~(k > 2)
      <3> SUFFICES ASSUME k > 2 PROVE FALSE
        OBVIOUS
      <3>1. End(2) <= Ahead(ERXRDPT, stored[k].at)
        BY <2>2, Spacing
      <3>2. /\ End(2) = Ahead(ERXRDPT, stored[2].at) + Size[stored[2].frame]
            /\ Ahead(ERXRDPT, stored[2].at) \in Nat /\ Size[stored[2].frame] \in 1 .. RxSize
            /\ RxSize \in Nat
        BY <2>2, Spacing
      <3> QED
        BY <1>2, <2>3, <3>1, <3>2
    <2> QED
      BY <2>1, <2>4
  <1>3. CASE n = 1
    <2>1. {k \in DOMAIN stored : stored[k].at = a} = {}
      BY <1>1, <1>2, <1>3
    <2>2. From(a) = <<>>
      BY <2>1 DEF From
    <2> QED
      BY <1>3, <2>2, NoElements
  <1>4. CASE n > 1
    <2>1. 2 \in DOMAIN stored /\ stored[2].at = a
      BY <1>1, <1>4 DEF InRing
    <2>2. {k \in DOMAIN stored : stored[k].at = a} = {2}
      BY <1>1, <1>2, <2>1
    <2>3. From(a) = SubSeq(stored, 2, Len(stored))
      BY <2>2 DEF From
    <2> QED
      BY <1>1, <1>4, <2>1, <2>3, Suffix
  <1> QED
    BY <1>3, <1>4

\* Setting ERXRDPT drops the first frame and leaves the others where they are.
LEMMA Freed ==
    ASSUME EthTypeOK, InRing, Spaced, DriverAgrees, Free
    PROVE  InRing' /\ Spaced' /\ DriverAgrees'
  <1>0. PICK n \in Nat : n = Len(stored)
    BY DEF EthTypeOK
  <1>1. /\ stored \in Seq(Entry) /\ ERXRDPT \in Address /\ ERXWRPT \in Address
        /\ n = Len(stored) /\ DOMAIN stored = 1 .. n /\ n >= 1 /\ n \in Nat
        /\ stored # <<>>
    BY <1>0 DEF EthTypeOK, DriverAgrees, Free
  <1>2. /\ NextPacketPtr = stored[1].next /\ EPKTCNT = n /\ BSEL = enc28j60bank /\ RXEN
        /\ pc' = "dec" /\ ERXRDPT' = NextPacketPtr /\ ERXWRPT' = ERXWRPT
        /\ stored' = From(NextPacketPtr)
        /\ UNCHANGED <<RXEN, EPKTCNT, NextPacketPtr>>
    BY <1>1 DEF DriverAgrees, Free
  <1>3. \A k \in 1 .. n :
            /\ stored[k].at \in Address /\ stored[k].next \in Address
            /\ Size[stored[k].frame] \in 1 .. RxSize
            /\ Ahead(ERXRDPT, stored[k].at) \in Nat /\ End(k) \in Nat
            /\ End(k) = Ahead(ERXRDPT, stored[k].at) + Size[stored[k].frame]
            /\ End(k) <= Ahead(ERXRDPT, ERXWRPT)
            /\ \A j \in 1 .. n : j > k => End(k) <= Ahead(ERXRDPT, stored[j].at)
    BY <1>1, Spacing
  <1>4. Ahead(ERXRDPT, ERXWRPT) \in 0 .. RxSize - 1 /\ RxSize \in Nat
    BY <1>1, Spacing
  <1>5. /\ NextPacketPtr \in Address /\ Ahead(ERXRDPT, NextPacketPtr) = End(1)
        /\ End(1) >= 1 /\ Ahead(ERXRDPT, stored[1].at) = 0
    BY <1>1, <1>2, FirstEnds
  <1>7. /\ stored' \in Seq(Entry) /\ Len(stored') = n - 1
        /\ \A k \in 1 .. n - 1 : stored'[k] = stored[k + 1]
    BY <1>1, <1>2, FromSecond
  <1>8. /\ \A k \in 1 .. n - 1 :
              /\ Ahead(ERXRDPT', stored'[k].at) = Ahead(ERXRDPT, stored[k + 1].at) - End(1)
              /\ End(k)' = End(k + 1) - End(1)
        /\ Ahead(ERXRDPT', ERXWRPT') = Ahead(ERXRDPT, ERXWRPT) - End(1)
    <2>1. ASSUME NEW k \in 1 .. n - 1
          PROVE  /\ Ahead(ERXRDPT', stored'[k].at) = Ahead(ERXRDPT, stored[k + 1].at) - End(1)
                 /\ End(k)' = End(k + 1) - End(1)
      <3>0. k + 1 \in 1 .. n
        BY <1>1
      <3>1. k + 1 \in 1 .. n /\ stored'[k] = stored[k + 1] /\ stored[k + 1].at \in Address
        BY <1>3, <1>7, <3>0
      <3>2. End(1) <= Ahead(ERXRDPT, stored[k + 1].at)
        <4>1. 1 \in 1 .. n /\ k + 1 > 1
          BY <1>1
        <4> QED
          BY <1>3, <3>0, <4>1
      <3>3. Ahead(NextPacketPtr, stored[k + 1].at) = Ahead(ERXRDPT, stored[k + 1].at) - End(1)
        BY <1>1, <1>5, <3>1, <3>2, Moved
      <3>4. End(k)' = Ahead(ERXRDPT', stored'[k].at) + Size[stored'[k].frame]
        BY DEF End, Ahead
      <3> QED
        BY <1>1, <1>2, <1>3, <3>1, <3>3, <3>4
    <2>2. Ahead(NextPacketPtr, ERXWRPT) = Ahead(ERXRDPT, ERXWRPT) - End(1)
      BY <1>1, <1>3, <1>5, Moved
    <2> QED
      BY <1>2, <2>1, <2>2
  <1>9. InRing'
    <2>1. /\ DOMAIN stored' = 1 .. n - 1
          /\ stored' = <<>> <=> n = 1
      BY <1>1, <1>7
    <2>2. \A k \in 1 .. n - 1 :
              stored'[k].next = Wrapped(stored'[k].at + Size[stored'[k].frame])
      BY <1>1, <1>7 DEF InRing
    <2>3. \A k \in 1 .. n - 2 : stored'[k].next = stored'[k + 1].at
      BY <1>1, <1>7 DEF InRing
    <2>4. n = 1 => ERXWRPT' = ERXRDPT'
      <3> SUFFICES ASSUME n = 1 PROVE ERXWRPT' = ERXRDPT'
        OBVIOUS
      <3>1. stored # <<>> /\ stored[Len(stored)] = stored[1]
        BY <1>1
      <3> QED
        BY <1>2, <3>1 DEF InRing
    <2>5. n > 1 => stored'[1].at = ERXRDPT' /\ stored'[n - 1].next = ERXWRPT'
      <3> SUFFICES ASSUME n > 1
                   PROVE  stored'[1].at = ERXRDPT' /\ stored'[n - 1].next = ERXWRPT'
        OBVIOUS
      <3>1. stored'[1] = stored[2] /\ stored'[n - 1] = stored[n]
        BY <1>1, <1>7
      <3> QED
        BY <1>1, <1>2, <3>1 DEF InRing
    <2> QED
      BY <1>1, <1>7, <2>1, <2>2, <2>3, <2>4, <2>5 DEF InRing, Wrapped
  <1>10. Spaced'
    <2>1. DOMAIN stored' = 1 .. n - 1
      BY <1>1, <1>7
    <2>2. ASSUME NEW k \in 1 .. n - 1
          PROVE  /\ End(k)' <= Ahead(ERXRDPT', ERXWRPT')
                 /\ \A j \in 1 .. n - 1 : j > k => End(k)' <= Ahead(ERXRDPT', stored'[j].at)
      <3>1. k + 1 \in 1 .. n /\ End(k + 1) \in Nat /\ End(1) \in Nat
        BY <1>1, <1>3
      <3>2. End(k)' <= Ahead(ERXRDPT', ERXWRPT')
        BY <1>3, <1>4, <1>8, <3>1
      <3>3. ASSUME NEW j \in 1 .. n - 1, j > k
            PROVE  End(k)' <= Ahead(ERXRDPT', stored'[j].at)
        <4>1. j + 1 \in 1 .. n /\ j + 1 > k + 1
          BY <1>1, <3>3
        <4>2. End(k + 1) <= Ahead(ERXRDPT, stored[j + 1].at)
          BY <1>3, <3>1, <4>1
        <4> QED
          BY <1>3, <1>8, <3>1, <4>1, <4>2
      <3> QED
        BY <3>2, <3>3
    <2> QED
      BY <2>1, <2>2 DEF Spaced, Ahead
  <1>11. DriverAgrees'
    <2>1. BSEL' = enc28j60bank'
      BY <1>2 DEF Free, Set_Bank
    <2> QED
      BY <1>1, <1>2, <1>7, <2>1 DEF DriverAgrees
  <1> QED
    BY <1>9, <1>10, <1>11

\* A frame is read where NextPacketPtr points, and there is one.
LEMMA Fetched ==
    ASSUME EthTypeOK, InRing, Spaced, DriverAgrees, Fetch
    PROVE  InRing' /\ Spaced' /\ DriverAgrees'
  <1>1. /\ stored # <<>> /\ NextPacketPtr = ERXRDPT /\ EPKTCNT = Len(stored)
        /\ BSEL = enc28j60bank /\ RXEN
    BY DEF Fetch, DriverAgrees
  <1>2. PICK k \in DOMAIN stored :
            stored[k].at = NextPacketPtr /\ NextPacketPtr' = stored[k].next
    BY DEF Fetch
  <1>3. k = 1
    BY <1>1, <1>2, FirstOnly
  <1>4. UNCHANGED rxVars /\ pc' = "free" /\ BSEL' = enc28j60bank'
    BY <1>1 DEF Fetch, Set_Bank
  <1> QED
    BY <1>1, <1>2, <1>3, <1>4 DEF rxVars, InRing, Spaced, End, Ahead, Wrapped, DriverAgrees

\* Where the driver has started the chip, or reads a frame.
Inside == {"reset", "configure", "fetch", "free", "dec"}

\* The steps that touch neither the ring nor the driver's notes of it.
LEMMA Elsewhere ==
    ASSUME InRing, Spaced, DriverAgrees, UNCHANGED <<rxVars, NextPacketPtr>>,
           BSEL' = enc28j60bank' \/ UNCHANGED <<BSEL, enc28j60bank>>,
           pc' = pc \/ (pc \notin Inside /\ pc' \notin Inside),
           pc \in {"reset", "configure"} => UNCHANGED enc28j60bank
    PROVE  InRing' /\ Spaced' /\ DriverAgrees'
  BY DEF rxVars, InRing, Spaced, End, Ahead, Wrapped, DriverAgrees, Inside

LEMMA DriverInit == ServerInit => InRing /\ Spaced /\ DriverAgrees
  BY DEF ServerInit, EthInit, InRing, Spaced, DriverAgrees

LEMMA DriverNext ==
    ASSUME TypedInv, InRing, Spaced, DriverAgrees, [ServerNext]_allVars
    PROVE  InRing' /\ Spaced' /\ DriverAgrees'
  <1>0. EthTypeOK /\ pc \in PCs
    BY DEF TypedInv, ServerTypeOK
  <1>1. CASE Driver
    <2>1. CASE ENC28J60_Reset
      <3>1. enc28j60bank = 0
        BY <2>1 DEF ENC28J60_Reset, DriverAgrees
      <3> QED
        BY <2>1, <3>1 DEF ENC28J60_Reset, driverVars, InRing, Spaced, DriverAgrees
    <2>2. CASE Configure("output")
      <3>1. /\ stored' = <<>> /\ EPKTCNT' = 0 /\ RXEN' = TRUE /\ pc' = "output"
            /\ NextPacketPtr' = 0 /\ ERXRDPT' = 0 /\ ERXWRPT' = 0
            /\ BSEL' = 2 /\ enc28j60bank' = 2
        BY <2>2 DEF Configure, Set_Bank, DriverAgrees
      <3>2. InRing' /\ Spaced'
        BY <3>1 DEF InRing, Spaced
      <3>3. Len(stored') = 0
        BY <3>1
      <3> QED
        BY <3>1, <3>2, <3>3 DEF DriverAgrees
    <2>3. CASE ReadCount("input")
      <3>1. BSEL' = enc28j60bank'
        BY <2>3 DEF ReadCount, Set_Bank, DriverAgrees
      <3>2. /\ pc = "count" /\ UNCHANGED <<rxVars, NextPacketPtr>>
            /\ pc' = IF EPKTCNT = 0 THEN "input" ELSE "fetch"
        BY <2>3 DEF ReadCount
      <3>3. EPKTCNT # 0 => stored # <<>>
        BY <3>2 DEF DriverAgrees
      <3> QED
        BY <3>1, <3>2, <3>3 DEF rxVars, InRing, Spaced, End, Ahead, Wrapped, DriverAgrees
    <2>4. CASE Fetch
      BY <1>0, <2>4, Fetched
    <2>5. CASE Free
      BY <1>0, <2>5, Freed
    <2>6. CASE CountOff("input")
      <3>1. EPKTCNT' = Len(stored)
        BY <1>0, <2>6 DEF CountOff, DriverAgrees, EthTypeOK
      <3>2. pc = "dec" /\ pc' = "input"
        BY <2>6 DEF CountOff
      <3> QED
        BY <2>6, <3>1, <3>2
           DEF CountOff, driverVars, InRing, Spaced, End, Ahead, Wrapped, DriverAgrees
    <2>7. ASSUME NEW from \in {"output", "send"}, NEW next \in {"outputStarted", "sendStarted"},
                 ENC28J60_Packet_Send(from, next)
          PROVE  InRing' /\ Spaced' /\ DriverAgrees'
      <3>1. BSEL' = enc28j60bank'
        BY <2>7 DEF ENC28J60_Packet_Send, Set_Bank, DriverAgrees
      <3> QED
        BY <2>7, <3>1, Elsewhere DEF ENC28J60_Packet_Send, Inside
    <2>8. ASSUME NEW from \in {"outputStarted", "sendStarted"}, NEW next \in {"poll", "show"},
                 CheckTransmitter(from, next)
          PROVE  InRing' /\ Spaced' /\ DriverAgrees'
      BY <2>8, Elsewhere DEF CheckTransmitter, driverVars, rxVars, Inside
    <2> QED
      BY <1>1, <2>1, <2>2, <2>3, <2>4, <2>5, <2>6, <2>7, <2>8 DEF Driver
  <1>2. CASE Chip
    <2>1. ASSUME NEW f \in Frame, FrameArrives(f) PROVE InRing' /\ Spaced' /\ DriverAgrees'
      BY <1>0, <2>1, Arrival
    <2>2. CASE TransmitEnds
      BY <2>2 DEF TransmitEnds, driverVars, rxVars, InRing, Spaced, End, Ahead, Wrapped,
                  DriverAgrees
    <2> QED
      BY <1>2, <2>1, <2>2 DEF Chip
  <1>3. CASE RestartAll
    BY <1>3 DEF RestartAll, RestartDriver, chipVars, rxVars,
                InRing, Spaced, End, Ahead, Wrapped, DriverAgrees
  <1>4. CASE ethernetif_input
    BY <1>4, Elsewhere DEF ethernetif_input, AfterInput, chipVars, Inside
  <1>5. CASE Work \/ EndPolling \/ CountRound \/ SendError \/ Show
    BY <1>5, Elsewhere DEF Work, EndPolling, CountRound, SendError, Show, Goto,
                           chipVars, driverVars, Inside
  <1>6. CASE UNCHANGED ethVars
    <2>1. pc' = pc /\ UNCHANGED <<rxVars, NextPacketPtr>> /\ UNCHANGED <<BSEL, enc28j60bank>>
      BY <1>6 DEF ethVars, chipVars, driverVars
    <2> QED
      BY <2>1 DEF rxVars, InRing, Spaced, End, Ahead, Wrapped, DriverAgrees
  <1> QED
    BY <1>1, <1>2, <1>3, <1>4, <1>5, <1>6 DEF ServerNext, MainLoop, Ask, Clock, allVars

-----------------------------------------------------------------------------
(* The refinement of FrameChannel. *)

\* The timer of ethernetif_input has been asked for in this round.
Received == \E k \in 1 .. asked - 1 : Order[k] = Input

LEMMA StillReceived ==
    ASSUME NEW a \in Nat, NEW b \in Nat, a <= b, \E k \in 1 .. a - 1 : Order[k] = Input
    PROVE  \E k \in 1 .. b - 1 : Order[k] = Input
  <1>1. PICK k \in 1 .. a - 1 : Order[k] = Input
    OBVIOUS
  <1>2. k \in 1 .. b - 1
    OBVIOUS
  <1> QED
    BY <1>1, <1>2

LEMMA OneFrameInit == ServerInit => OneFrameARound
  BY RingAssumption DEF ServerInit, EthInit, OneFrameARound, TakesAFrame, AsksTimers

\* Each timer is in Order once, so that the input timer expires for a round only
\* while lwip_recv_buf is free.
LEMMA OneFrameNext ==
    ASSUME TypedInv, OneFrameARound, [ServerNext]_allVars
    PROVE  OneFrameARound'
  <1> USE DEF TakesAFrame, AsksTimers
  <1>0. /\ asked \in 1 .. Len(Order) + 1 /\ pc \in PCs /\ Len(Order) \in Nat
        /\ packet \in Frame \cup {NoFrame} /\ Datagram \subseteq Frame /\ NoFrame \notin Frame
        /\ Broken \subseteq Frame /\ Order \in Seq(Timer)
    BY ServerAssumption, RingAssumption DEF TypedInv, ServerTypeOK, EthTypeOK
  <1>1. CASE Ask
    <2>1. /\ pc = "poll" /\ pc' = pc /\ UNCHANGED <<packet, lwip_recv_buf>>
          /\ asked' \in {asked, asked + 1}
      BY <1>1 DEF Ask, ethVars, driverVars
    <2>2. Received => \E k \in 1 .. asked' - 1 : Order[k] = Input
      <3>1. asked \in Nat /\ asked' \in Nat /\ asked <= asked'
        BY <1>0, <2>1
      <3> QED
        BY <3>1, StillReceived DEF Received
    <2> QED
      BY <2>1, <2>2 DEF OneFrameARound, Received
  <1>2. CASE Work
    <2>1. /\ pc = "poll" /\ asked' = asked + 1 /\ UNCHANGED <<packet, lwip_recv_buf>>
          /\ pc' \in IF expired = Input THEN {"count"} ELSE {"poll", "output"}
          /\ asked \in DOMAIN Order /\ Order[asked] = expired
      BY <1>0, <1>2 DEF Work, Goto, driverVars, TypedInv, Polling
    <2>2. ASSUME expired = Input
          PROVE  lwip_recv_buf = NoFrame /\ \E k \in 1 .. asked' - 1 : Order[k] = Input
      <3>1. ASSUME NEW k \in 1 .. asked - 1 PROVE Order[k] # Input
        <4>1. k \in DOMAIN Order /\ k # asked
          BY <1>0, <2>1
        <4> QED
          BY <2>1, <2>2, <4>1, ServerAssumption
      <3>2. asked \in 1 .. asked' - 1
        BY <1>0, <2>1
      <3> QED
        BY <2>1, <2>2, <3>1, <3>2 DEF OneFrameARound
    <2>3. Received => \E k \in 1 .. asked' - 1 : Order[k] = Input
      <3>1. asked \in Nat /\ asked' \in Nat /\ asked <= asked'
        BY <1>0, <2>1
      <3> QED
        BY <3>1, StillReceived DEF Received
    <2> QED
      BY <2>1, <2>2, <2>3 DEF OneFrameARound, Received
  <1>3. CASE EndPolling
    BY <1>3 DEF EndPolling, Goto, driverVars, OneFrameARound
  <1>4. CASE ethernetif_input
    <2>1. /\ pc = "input" /\ pc' \in {"output", "poll"} /\ packet' = NoFrame /\ asked' = asked
      BY <1>4 DEF ethernetif_input, AfterInput
    <2> QED
      BY <1>0, <2>1 DEF OneFrameARound
  <1>5. CASE Driver
    <2>1. UNCHANGED <<asked, lwip_recv_buf>>
      BY <1>5 DEF Driver, serverVars
    <2>2. CASE Fetch
      <3>1. pc = "fetch" /\ pc' = "free" /\ packet' \notin Broken
        BY <1>0, <2>2 DEF Fetch
      <3> QED
        BY <2>1, <3>1 DEF OneFrameARound
    <2>3. CASE ReadCount("input")
      <3>1. pc = "count" /\ pc' \in {"input", "fetch"} /\ packet' = NoFrame
        BY <2>3 DEF ReadCount
      <3> QED
        BY <1>0, <2>1, <3>1 DEF OneFrameARound
    <2>4. CASE ~Fetch /\ ~ReadCount("input")
      <3>1. packet' = packet
        BY <1>5, <2>4 DEF Driver, ENC28J60_Reset, Configure, Free, CountOff,
                          ENC28J60_Packet_Send, CheckTransmitter, driverVars
      <3>2. \/ pc = "reset" /\ pc' \in {"reset", "configure"}
            \/ pc = "configure" /\ pc' = "output"
            \/ pc = "free" /\ pc' = "dec"
            \/ pc = "dec" /\ pc' = "input"
            \/ pc = "output" /\ pc' = "outputStarted"
            \/ pc = "outputStarted" /\ pc' = "poll"
            \/ pc = "send" /\ pc' = "sendStarted"
            \/ pc = "sendStarted" /\ pc' = "show"
        BY <1>5, <2>4 DEF Driver, ENC28J60_Reset, Configure, Free, CountOff,
                          ENC28J60_Packet_Send, CheckTransmitter
      <3> QED
        BY <2>1, <3>1, <3>2 DEF OneFrameARound
    <2> QED
      BY <2>2, <2>3, <2>4
  <1>6. CASE CountRound \/ SendError \/ Show
    <2>1. /\ packet' = packet /\ pc' \in {"send", "show", "poll"}
          /\ pc' = "poll" => lwip_recv_buf' = NoFrame
      BY <1>6 DEF CountRound, SendError, Show, Goto, driverVars
    <2> QED
      BY <2>1 DEF OneFrameARound
  <1>7. CASE Clock \/ Chip \/ UNCHANGED allVars
    <2>1. UNCHANGED <<packet, pc, asked, lwip_recv_buf>>
      BY <1>7 DEF Clock, Chip, FrameArrives, TransmitEnds, allVars, ethVars, driverVars, serverVars
    <2> QED
      BY <2>1 DEF OneFrameARound
  <1>8. CASE RestartAll
    <2>1. packet' = NoFrame /\ pc' = "reset" /\ lwip_recv_buf' = NoFrame
      BY <1>8 DEF RestartAll, RestartDriver
    <2> QED
      BY <1>0, <2>1 DEF OneFrameARound
  <1> QED
    BY <1>1, <1>2, <1>3, <1>4, <1>5, <1>6, <1>7, <1>8 DEF ServerNext, MainLoop

\* The driver and the chip agree at every step, for every size of the ring and
\* of the frames, with frames arriving at any moment and restarts of the
\* processor that leave the chip running.
THEOREM DriverAndChipAgree == ServerSpec => []ServerInv
  <1>1. ServerInit => TypedInv /\ InRing /\ Spaced /\ DriverAgrees /\ OneFrameARound
    BY TypedInit, DriverInit, OneFrameInit
  <1>2. TypedInv /\ InRing /\ Spaced /\ DriverAgrees /\ OneFrameARound /\ [ServerNext]_allVars
        => (TypedInv /\ InRing /\ Spaced /\ DriverAgrees /\ OneFrameARound)'
    BY TypedNext, DriverNext, OneFrameNext
  <1>3. TypedInv /\ InRing /\ Spaced /\ DriverAgrees /\ OneFrameARound => ServerInv
    BY DEF TypedInv, ServerInv
  <1> QED
    BY <1>1, <1>2, <1>3, PTL DEF ServerSpec

Everything == TypedInv /\ InRing /\ Spaced /\ DriverAgrees /\ OneFrameARound

LEMMA EverythingInit == ServerInit => Everything
  BY TypedInit, DriverInit, OneFrameInit DEF Everything

LEMMA EverythingNext == Everything /\ [ServerNext]_allVars => Everything'
  BY TypedNext, DriverNext, OneFrameNext DEF Everything

\* The frames not yet read are those in the ring, without the one that has been
\* read and not yet freed.
UnreadInRing ==
    /\ Len(stored) \in Nat /\ DOMAIN stored = 1 .. Len(stored) /\ stored \in Seq(Entry)
    /\ pc \notin {"reset", "configure", "free"} =>
           /\ Unread \in Seq(Frame) /\ Len(Unread) = Len(stored)
           /\ \A k \in 1 .. Len(stored) : Unread[k] = stored[k].frame
    /\ pc = "free" =>
           /\ Len(stored) >= 1 /\ Unread \in Seq(Frame) /\ Len(Unread) = Len(stored) - 1
           /\ \A k \in 1 .. Len(stored) - 1 : Unread[k] = stored[k + 1].frame

LEMMA UnreadFrames == Everything => UnreadInRing
  <1> SUFFICES ASSUME Everything PROVE UnreadInRing
    OBVIOUS
  <1>0. PICK n \in Nat : n = Len(stored)
    BY DEF Everything, TypedInv, ServerTypeOK, EthTypeOK
  <1>1. /\ EthTypeOK /\ InRing /\ Spaced /\ DriverAgrees
        /\ stored \in Seq(Entry) /\ DOMAIN stored = 1 .. n
    BY <1>0 DEF Everything, TypedInv, ServerTypeOK, EthTypeOK
  <1>2. ASSUME NEW entries \in Seq(Entry), entries = From(NextPacketPtr)
        PROVE  /\ Unread \in Seq(Frame) /\ Len(Unread) = Len(entries)
               /\ \A k \in 1 .. Len(entries) : Unread[k] = entries[k].frame
    <2>1. Unread = [k \in 1 .. Len(entries) |-> entries[k].frame] /\ Len(entries) \in Nat
      BY <1>2 DEF Unread
    <2>2. ASSUME NEW k \in 1 .. Len(entries) PROVE entries[k].frame \in Frame
      <3>1. entries[k] \in Entry
        OBVIOUS
      <3> QED
        BY <3>1 DEF Entry
    <2>3. Unread \in Seq(Frame) /\ Len(Unread) = Len(entries)
      BY <2>1, <2>2
    <2> QED
      BY <2>1, <2>2, <2>3
  <1>3. ASSUME pc \notin {"reset", "configure", "free"} PROVE From(NextPacketPtr) = stored
    <2>1. NextPacketPtr = ERXRDPT
      BY <1>1, <1>3 DEF DriverAgrees
    <2>2. CASE stored = <<>>
      BY <2>2 DEF From
    <2>3. CASE stored # <<>>
      <3>1. 1 \in DOMAIN stored /\ stored[1].at = ERXRDPT
        BY <1>0, <1>1, <2>3 DEF InRing
      <3>2. {k \in DOMAIN stored : stored[k].at = ERXRDPT} = {1}
        BY <1>1, <3>1, FirstOnly
      <3>3. From(NextPacketPtr) = SubSeq(stored, 1, Len(stored))
        BY <2>1, <3>2 DEF From
      <3> QED
        BY <1>1, <3>3
    <2> QED
      BY <2>2, <2>3
  <1>4. ASSUME pc = "free"
        PROVE  /\ n >= 1 /\ From(NextPacketPtr) \in Seq(Entry)
               /\ Len(From(NextPacketPtr)) = n - 1
               /\ \A k \in 1 .. n - 1 : From(NextPacketPtr)[k] = stored[k + 1]
    <2>1. n >= 1 /\ NextPacketPtr = stored[1].next
      BY <1>0, <1>1, <1>4 DEF DriverAgrees
    <2> QED
      BY <1>0, <1>1, <2>1, FromSecond
  <1>5. ASSUME pc \notin {"reset", "configure", "free"}
        PROVE  /\ Unread \in Seq(Frame) /\ Len(Unread) = n
               /\ \A k \in 1 .. n : Unread[k] = stored[k].frame
    BY <1>0, <1>1, <1>2, <1>3, <1>5
  <1>6. ASSUME pc = "free"
        PROVE  /\ n >= 1 /\ Unread \in Seq(Frame) /\ Len(Unread) = n - 1
               /\ \A k \in 1 .. n - 1 : Unread[k] = stored[k + 1].frame
    BY <1>2, <1>4, <1>6
  <1> QED
    BY <1>0, <1>1, <1>5, <1>6 DEF UnreadInRing

\* Putting one in front and putting one behind do not disturb each other.
LEMMA FrontAndBack ==
    ASSUME NEW S, NEW p \in S, NEW u \in Seq(S), NEW f \in S
    PROVE  /\ <<p>> \o Append(u, f) = Append(<<p>> \o u, f)
           /\ <<p>> \o u # <<>> /\ Head(<<p>> \o u) = p /\ Tail(<<p>> \o u) = u
  OBVIOUS

LEMMA SameSequence ==
    ASSUME NEW S, NEW u \in Seq(S), NEW v \in Seq(S), Len(u) = Len(v),
           \A k \in 1 .. Len(u) : u[k] = v[k]
    PROVE  u = v
  OBVIOUS

\* Where nothing happens in the ring and no frame is read, the same is waiting.
LEMMA SameWaiting ==
    ASSUME UNCHANGED <<stored, NextPacketPtr, packet>>,
           pc' = pc \/ (pc \notin {"reset", "configure", "free", "dec", "input"} /\
                        pc' \notin {"reset", "configure", "free", "dec", "input"})
    PROVE  Waiting' = Waiting
  <1>1. Unread' = Unread
    BY DEF Unread, From
  <1> QED
    BY <1>1 DEF Waiting

\* A frame that arrives waits behind the others.
LEMMA ArrivalWaits ==
    ASSUME Everything, Everything', NEW f \in Frame, FrameArrives(f)
    PROVE  Waiting' = Append(Waiting, f) \/ Waiting' = Waiting
  <1>0. PICK n \in Nat : n = Len(stored) /\ stored \in Seq(Entry)
    BY UnreadFrames DEF UnreadInRing
  <1>8. UnreadInRing'
    BY UnreadFrames, PTL
  <1>1. /\ UNCHANGED <<packet, pc, NextPacketPtr>>
        /\ \E e : e.frame = f /\ stored' = Append(stored, e)
    <2>1. stored' = Append(stored, [frame |-> f, at |-> ERXWRPT, next |-> Wrapped(ERXWRPT + Size[f])])
      BY DEF FrameArrives
    <2> QED
      BY <2>1 DEF FrameArrives, driverVars
  <1>2. /\ Len(stored') = n + 1 /\ stored'[n + 1].frame = f
        /\ \A k \in 1 .. n : stored'[k] = stored[k]
    BY <1>0, <1>1
  <1>3. CASE pc \in {"reset", "configure"}
    BY <1>1, <1>3 DEF Waiting
  <1>4. ASSUME pc \notin {"reset", "configure"} PROVE Unread' = Append(Unread, f)
    <2>1. CASE pc = "free"
      <3>1. /\ Unread \in Seq(Frame) /\ Len(Unread) = n - 1 /\ n >= 1
            /\ \A k \in 1 .. n - 1 : Unread[k] = stored[k + 1].frame
        BY <1>0, <2>1, UnreadFrames DEF UnreadInRing
      <3>2. /\ Unread' \in Seq(Frame) /\ Len(Unread') = n
            /\ \A k \in 1 .. n : Unread'[k] = stored'[k + 1].frame
        <4>1. /\ Unread' \in Seq(Frame) /\ Len(Unread') = Len(stored') - 1
              /\ \A k \in 1 .. Len(stored') - 1 : Unread'[k] = stored'[k + 1].frame
          BY <1>1, <1>8, <2>1 DEF UnreadInRing
        <4> QED
          BY <1>0, <1>2, <4>1
      <3>3. Append(Unread, f) \in Seq(Frame) /\ Len(Append(Unread, f)) = n
        BY <3>1
      <3>4. ASSUME NEW k \in 1 .. n PROVE Unread'[k] = Append(Unread, f)[k]
        <4>1. CASE k = n
          BY <1>2, <3>1, <3>2, <4>1
        <4>2. CASE k # n
          <5>1. k \in 1 .. Len(Unread)
            BY <3>1, <4>2
          <5>2. Append(Unread, f)[k] = Unread[k]
            BY <3>1, <5>1
          <5>3. k + 1 \in 1 .. n /\ stored'[k + 1] = stored[k + 1]
            BY <1>2, <3>1, <4>2
          <5> QED
            BY <1>0, <1>2, <3>1, <3>2, <5>1, <5>2, <5>3
        <4> QED
          BY <4>1, <4>2
      <3> QED
        BY <3>2, <3>3, <3>4, SameSequence
    <2>2. CASE pc # "free"
      <3>1. /\ Unread \in Seq(Frame) /\ Len(Unread) = n
            /\ \A k \in 1 .. n : Unread[k] = stored[k].frame
        BY <1>0, <1>4, <2>2, UnreadFrames DEF UnreadInRing
      <3>2. /\ Unread' \in Seq(Frame) /\ Len(Unread') = n + 1
            /\ \A k \in 1 .. n + 1 : Unread'[k] = stored'[k].frame
        <4>1. /\ Unread' \in Seq(Frame) /\ Len(Unread') = Len(stored')
              /\ \A k \in 1 .. Len(stored') : Unread'[k] = stored'[k].frame
          BY <1>1, <1>8, <1>4, <2>2 DEF UnreadInRing
        <4> QED
          BY <1>2, <4>1
      <3>3. Append(Unread, f) \in Seq(Frame) /\ Len(Append(Unread, f)) = n + 1
        BY <3>1
      <3>4. ASSUME NEW k \in 1 .. n + 1 PROVE Unread'[k] = Append(Unread, f)[k]
        <4>1. CASE k = n + 1
          BY <1>2, <3>1, <3>2, <4>1
        <4>2. CASE k # n + 1
          <5>1. k \in 1 .. Len(Unread)
            BY <3>1, <4>2
          <5>2. Append(Unread, f)[k] = Unread[k]
            BY <3>1, <5>1
          <5> QED
            BY <1>0, <1>2, <3>1, <3>2, <5>1, <5>2
        <4> QED
          BY <4>1, <4>2
      <3> QED
        BY <3>2, <3>3, <3>4, SameSequence
    <2> QED
      BY <2>1, <2>2
  <1>5. ASSUME pc \notin {"reset", "configure"} PROVE Unread \in Seq(Frame)
    BY <1>5, UnreadFrames DEF UnreadInRing
  <1>6. ASSUME packet # NoFrame PROVE packet \in Frame
    BY <1>6 DEF Everything, TypedInv, ServerTypeOK, EthTypeOK
  <1>7. ASSUME pc \notin {"reset", "configure"} PROVE Waiting' = Append(Waiting, f)
    <2>1. Unread' = Append(Unread, f) /\ Unread \in Seq(Frame)
      BY <1>4, <1>5, <1>7
    <2>2. CASE pc \in {"free", "dec", "input"} /\ packet # NoFrame
      <3>1. Waiting = <<packet>> \o Unread /\ Waiting' = <<packet>> \o Unread'
        BY <1>1, <2>2 DEF Waiting
      <3>2. <<packet>> \o Append(Unread, f) = Append(<<packet>> \o Unread, f)
        BY <1>6, <2>1, <2>2, FrontAndBack
      <3> QED
        BY <2>1, <3>1, <3>2
    <2>3. CASE ~(pc \in {"free", "dec", "input"} /\ packet # NoFrame)
      BY <1>1, <1>7, <2>1, <2>3 DEF Waiting
    <2> QED
      BY <2>2, <2>3
  <1> QED
    BY <1>3, <1>7

\* Reading a frame leaves it waiting with the driver, unless it is broken.
LEMMA FetchedWaits ==
    ASSUME Everything, Everything', Fetch
    PROVE  \/ Waiting' = Waiting
           \/ Waiting # <<>> /\ Head(Waiting) \in Broken /\ Waiting' = Tail(Waiting)
  <1> DEFINE first == stored[1].frame
  <1>0. UnreadInRing'
    BY UnreadFrames, PTL
  <1>1. PICK n \in Nat : n = Len(stored) /\ stored \in Seq(Entry) /\ DOMAIN stored = 1 .. n
    BY UnreadFrames DEF UnreadInRing
  <1>2. /\ pc = "fetch" /\ pc' = "free" /\ stored' = stored
        /\ EthTypeOK /\ InRing /\ Spaced /\ NextPacketPtr = ERXRDPT
    BY DEF Fetch, rxVars, Everything, TypedInv, ServerTypeOK, DriverAgrees
  <1>3. packet' = IF first \in Broken THEN NoFrame ELSE first
    <2>1. PICK k \in DOMAIN stored :
              /\ stored[k].at = NextPacketPtr
              /\ packet' = IF stored[k].frame \in Broken THEN NoFrame ELSE stored[k].frame
      BY DEF Fetch
    <2>2. k = 1
      BY <1>2, <2>1, FirstOnly
    <2> QED
      BY <2>1, <2>2
  <1>4. /\ Unread \in Seq(Frame) /\ Len(Unread) = n
        /\ \A k \in 1 .. n : Unread[k] = stored[k].frame
    BY <1>1, <1>2, UnreadFrames DEF UnreadInRing
  <1>5. /\ n >= 1 /\ Unread' \in Seq(Frame) /\ Len(Unread') = n - 1
        /\ \A k \in 1 .. n - 1 : Unread'[k] = stored[k + 1].frame
    BY <1>0, <1>1, <1>2 DEF UnreadInRing
  <1>6. first \in Frame
    BY <1>1, <1>4, <1>5
  <1>7. Unread = <<first>> \o Unread'
    <2>1. /\ <<first>> \o Unread' \in Seq(Frame) /\ Len(<<first>> \o Unread') = n
          /\ (<<first>> \o Unread')[1] = first
      BY <1>5, <1>6
    <2>2. ASSUME NEW k \in 1 .. n, k # 1 PROVE (<<first>> \o Unread')[k] = Unread[k]
      <3>1. k - 1 \in 1 .. n - 1
        BY <2>2
      <3>2. (<<first>> \o Unread')[k] = Unread'[k - 1]
        BY <1>5, <1>6, <2>2, <3>1
      <3>3. Unread'[k - 1] = stored[(k - 1) + 1].frame /\ (k - 1) + 1 = k
        BY <1>5, <3>1
      <3> QED
        BY <1>4, <3>2, <3>3
    <2>3. \A k \in 1 .. n : Unread[k] = (<<first>> \o Unread')[k]
      BY <1>4, <1>5, <2>1, <2>2
    <2> QED
      BY <1>4, <2>1, <2>3, SameSequence
  <1>8. Waiting = Unread
    BY <1>2 DEF Waiting
  <1>9. CASE first \in Broken
    <2>1. Waiting' = Unread'
      BY <1>2, <1>3, <1>9 DEF Waiting
    <2> QED
      BY <1>5, <1>6, <1>7, <1>8, <1>9, <2>1, FrontAndBack
  <1>10. CASE first \notin Broken
    <2>1. packet' = first /\ first # NoFrame
      BY <1>3, <1>6, <1>10, RingAssumption
    <2> QED
      BY <1>2, <1>7, <1>8, <2>1 DEF Waiting
  <1> QED
    BY <1>9, <1>10

\* Its memory is freed without a word about those behind it.
LEMMA FreedWaits ==
    ASSUME Everything, Everything', Free
    PROVE  Waiting' = Waiting
  <1>0. UnreadInRing'
    BY UnreadFrames, PTL
  <1>1. /\ pc = "free" /\ pc' = "dec" /\ stored' = From(NextPacketPtr) /\ packet' = packet
    BY DEF Free
  <1>2. Unread = [k \in DOMAIN stored' |-> stored'[k].frame] /\ Unread \in Seq(Frame)
    BY <1>1, UnreadFrames DEF Unread, UnreadInRing
  <1>3. PICK n \in Nat : n = Len(stored') /\ DOMAIN stored' = 1 .. n
    BY <1>0 DEF UnreadInRing
  <1>4. /\ Unread' \in Seq(Frame) /\ Len(Unread') = n
        /\ \A k \in 1 .. n : Unread'[k] = stored'[k].frame
    BY <1>0, <1>1, <1>3 DEF UnreadInRing
  <1>5. Unread' = Unread
    <2>1. Len(Unread) = n
      BY <1>2, <1>3
    <2> QED
      BY <1>2, <1>3, <1>4, <2>1, SameSequence
  <1> QED
    BY <1>1, <1>5 DEF Waiting

\* lwIP gets the frame that was read, and a datagram only with room for it.
LEMMA InputTakes ==
    ASSUME Everything, ethernetif_input
    PROVE  Channel!Next \/ UNCHANGED <<Waiting, lwip_recv_buf>>
  <1>1. /\ pc = "input" /\ pc' \in {"output", "poll"} /\ packet' = NoFrame
        /\ lwip_recv_buf' = IF packet \in Datagram THEN packet ELSE lwip_recv_buf
        /\ UNCHANGED <<stored, NextPacketPtr>>
    BY DEF ethernetif_input, AfterInput, chipVars, rxVars
  <1>2. /\ lwip_recv_buf = NoFrame /\ packet \notin Broken
        /\ packet \in Frame \cup {NoFrame} /\ NoFrame \notin Datagram
        /\ Unread \in Seq(Frame)
    BY <1>1, UnreadFrames, ServerAssumption, RingAssumption
       DEF UnreadInRing, Everything, TypedInv, ServerTypeOK, EthTypeOK, OneFrameARound, TakesAFrame
  <1>3. Unread' = Unread
    BY <1>1 DEF Unread, From
  <1>4. Waiting' = Unread
    BY <1>1, <1>3 DEF Waiting
  <1>5. CASE packet = NoFrame
    BY <1>1, <1>2, <1>4, <1>5 DEF Waiting
  <1>6. CASE packet # NoFrame
    <2>1. Waiting = <<packet>> \o Unread
      BY <1>1, <1>6 DEF Waiting
    <2>2. Waiting # <<>> /\ Head(Waiting) = packet /\ Tail(Waiting) = Unread
      BY <1>2, <1>6, <2>1, FrontAndBack
    <2>3. CASE packet \in Datagram
      <3>1. Channel!Take
        BY <1>1, <1>2, <1>4, <2>2, <2>3 DEF Channel!Take
      <3> QED
        BY <3>1 DEF Channel!Next
    <2>4. CASE packet \notin Datagram
      <3>1. Channel!Pass
        BY <1>1, <1>2, <1>4, <2>2, <2>4 DEF Channel!Pass
      <3> QED
        BY <3>1 DEF Channel!Next
    <2> QED
      BY <2>3, <2>4
  <1> QED
    BY <1>5, <1>6

LEMMA ChannelInit == ServerInit => Channel!Init
  BY DEF ServerInit, EthInit, Waiting, Channel!Init

LEMMA ChannelNext ==
    ASSUME Everything, Everything', [ServerNext]_allVars
    PROVE  Channel!Next \/ UNCHANGED <<Waiting, lwip_recv_buf>>
  <1>1. CASE Driver
    <2>0. lwip_recv_buf' = lwip_recv_buf
      BY <1>1 DEF Driver, serverVars
    <2>1. CASE ENC28J60_Reset
      BY <2>0, <2>1 DEF ENC28J60_Reset, Waiting
    <2>2. CASE Configure("output")
      <3>1. pc = "configure" /\ pc' = "output" /\ stored = <<>> /\ stored' = stored
        BY <2>2 DEF Configure, Everything, DriverAgrees
      <3>2. From(NextPacketPtr)' = <<>>
        BY <3>1 DEF From
      <3>3. Waiting' = <<>> /\ Waiting = <<>>
        BY <3>1, <3>2 DEF Waiting, Unread
      <3> QED
        BY <2>0, <3>3
    <2>3. CASE ReadCount("input")
      <3>1. pc = "count" /\ pc' \in {"input", "fetch"} /\ packet' = NoFrame
            /\ UNCHANGED <<stored, NextPacketPtr>>
        BY <2>3 DEF ReadCount, rxVars
      <3>2. Unread' = Unread
        BY <3>1 DEF Unread, From
      <3> QED
        BY <2>0, <3>1, <3>2 DEF Waiting
    <2>4. CASE Fetch
      <3>1. CASE Waiting' = Waiting
        BY <2>0, <3>1
      <3>2. CASE Waiting # <<>> /\ Head(Waiting) \in Broken /\ Waiting' = Tail(Waiting)
        <4>1. Channel!Pass
          BY <2>0, <3>2 DEF Channel!Pass
        <4> QED
          BY <4>1 DEF Channel!Next
      <3> QED
        BY <2>4, <3>1, <3>2, FetchedWaits
    <2>5. CASE Free
      BY <2>0, <2>5, FreedWaits
    <2>6. CASE CountOff("input")
      <3>1. /\ pc = "dec" /\ pc' = "input"
            /\ UNCHANGED <<stored, NextPacketPtr, packet>>
        BY <2>6 DEF CountOff, driverVars
      <3>2. Unread' = Unread
        BY <3>1 DEF Unread, From
      <3> QED
        BY <2>0, <3>1, <3>2 DEF Waiting
    <2>7. ASSUME NEW from \in {"output", "send"}, NEW next \in {"outputStarted", "sendStarted"},
                 ENC28J60_Packet_Send(from, next)
          PROVE  Waiting' = Waiting
      BY <2>7, SameWaiting DEF ENC28J60_Packet_Send, rxVars
    <2>8. ASSUME NEW from \in {"outputStarted", "sendStarted"}, NEW next \in {"poll", "show"},
                 CheckTransmitter(from, next)
          PROVE  Waiting' = Waiting
      BY <2>8, SameWaiting DEF CheckTransmitter, rxVars, driverVars
    <2> QED
      BY <1>1, <2>0, <2>1, <2>2, <2>3, <2>4, <2>5, <2>6, <2>7, <2>8 DEF Driver
  <1>2. CASE Chip
    <2>0. lwip_recv_buf' = lwip_recv_buf
      BY <1>2 DEF Chip, serverVars
    <2>1. ASSUME NEW f \in Frame, FrameArrives(f)
          PROVE  Channel!Next \/ UNCHANGED <<Waiting, lwip_recv_buf>>
      <3>1. CASE Waiting' = Append(Waiting, f)
        <4>1. Channel!Arrive(f)
          BY <2>0, <3>1 DEF Channel!Arrive
        <4> QED
          BY <4>1 DEF Channel!Next
      <3> QED
        BY <2>0, <2>1, <3>1, ArrivalWaits
    <2>2. CASE TransmitEnds
      BY <2>0, <2>2, SameWaiting DEF TransmitEnds, rxVars, driverVars
    <2> QED
      BY <1>2, <2>1, <2>2 DEF Chip
  <1>3. CASE RestartAll
    <2>1. Waiting' = <<>> /\ lwip_recv_buf' = NoFrame
      BY <1>3 DEF RestartAll, RestartDriver, Waiting
    <2> QED
      BY <2>1 DEF Channel!Restart, Channel!Next
  <1>4. CASE ethernetif_input
    BY <1>4, InputTakes
  <1>5. CASE Show
    <2>1. Waiting' = Waiting /\ lwip_recv_buf' = NoFrame
      BY <1>5, SameWaiting DEF Show, Goto, chipVars, rxVars, driverVars
    <2> QED
      BY <2>1 DEF Channel!Done, Channel!Next
  <1>6. CASE Work \/ EndPolling \/ CountRound \/ SendError
    <2>1. Waiting' = Waiting
      BY <1>6, SameWaiting DEF Work, EndPolling, CountRound, SendError, Goto,
                               chipVars, rxVars, driverVars
    <2> QED
      BY <1>6, <2>1 DEF Work, EndPolling, CountRound, SendError, serverVars
  <1>7. CASE Ask \/ Clock \/ UNCHANGED allVars
    <2>1. UNCHANGED ethVars /\ lwip_recv_buf' = lwip_recv_buf
      BY <1>7 DEF Ask, Clock, allVars, serverVars
    <2>2. Waiting' = Waiting
      BY <2>1, SameWaiting DEF ethVars, chipVars, rxVars, driverVars
    <2> QED
      BY <2>1, <2>2
  <1> QED
    BY <1>1, <1>2, <1>3, <1>4, <1>5, <1>6, <1>7 DEF ServerNext, MainLoop

\* The frames the chip has stored reach lwIP in the order of arrival, each once,
\* and a datagram finds lwip_recv_buf free (udp_server.c:19), for every Order that
\* asks for each timer once and whatever arrives.
THEOREM FramesInOrder == ServerSpec => ImplementsFrameChannel
  <1>1. Everything /\ Everything' /\ [ServerNext]_allVars => [Channel!Next]_(Channel!vars)
    BY ChannelNext DEF Channel!vars
  <1> QED
    BY <1>1, ChannelInit, EverythingInit, EverythingNext, PTL DEF ServerSpec, ImplementsFrameChannel, Channel!Safe
=============================================================================
