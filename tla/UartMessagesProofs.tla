------------------------- MODULE UartMessagesProofs -------------------------
(***************************************************************************)
(* Theorems of UartMessages, for every length of the queue, every size of   *)
(* the buffer and every set of characters.                                  *)
(***************************************************************************)
EXTENDS UartMessages, SequenceTheorems, TLAPS

\* The handler counts the bytes of the line it is taking, and the buffer begins
\* with them; a complete line is posted at once.
LineInv ==
    /\ ~complete
    /\ count = Len(line)
    /\ \A k \in 1 .. Len(line) : USART_RX_BUF[k - 1] = line[k]

\* Interrupts are masked from the first read of the queue's length to the
\* output, so that what has been read is still so.
SizeInv ==
    /\ masked = (checking # "out")
    /\ checking \in {"waiting", "print"} => remain = SpacesAvailable
    /\ checking = "print" => total = Len(Message_Queue)

IInv == TypeOK /\ LineInv /\ SizeInv

-----------------------------------------------------------------------------
LEMMA QueueLen == TypeOK => Len(Message_Queue) \in 0 .. MESSAGE_Q_NUM
  <1> SUFFICES ASSUME TypeOK PROVE Len(Message_Queue) \in 0 .. MESSAGE_Q_NUM
    OBVIOUS
  <1>1. Message_Queue \in Seq(Message) /\ Len(Message_Queue) <= MESSAGE_Q_NUM
    BY DEF TypeOK
  <1>2. Len(Message_Queue) \in Nat
    BY <1>1, LenProperties
  <1> QED
    BY <1>1, <1>2, MessagesAssumption

LEMMA PostType ==
    ASSUME TypeOK, NEW m \in Message
    PROVE  /\ Post(m) \in Seq(Message) /\ Len(Post(m)) <= MESSAGE_Q_NUM
           /\ Len(Post(m)) > Len(Message_Queue) => Last(Post(m)) = m
  <1>1. Message_Queue \in Seq(Message) /\ Len(Message_Queue) \in 0 .. MESSAGE_Q_NUM
    BY QueueLen DEF TypeOK
  <1>2. CASE Len(Message_Queue) < MESSAGE_Q_NUM
    <2>1. Post(m) = Append(Message_Queue, m)
      BY <1>2 DEF Post
    <2>2. /\ Append(Message_Queue, m) \in Seq(Message)
          /\ Len(Append(Message_Queue, m)) = Len(Message_Queue) + 1
          /\ Append(Message_Queue, m)[Len(Message_Queue) + 1] = m
      BY <1>1, AppendProperties
    <2>3. Len(Append(Message_Queue, m)) <= MESSAGE_Q_NUM
      BY <1>1, <1>2, <2>2, MessagesAssumption
    <2>4. Last(Post(m)) = m
      BY <2>1, <2>2 DEF Last
    <2> QED
      BY <2>1, <2>2, <2>3, <2>4
  <1>3. CASE ~(Len(Message_Queue) < MESSAGE_Q_NUM)
    <2>1. Post(m) = Message_Queue
      BY <1>3 DEF Post
    <2>2. ~(Len(Message_Queue) > Len(Message_Queue))
      BY <1>1
    <2> QED
      BY <1>1, <2>1, <2>2
  <1> QED
    BY <1>2, <1>3

\* The handler looks at a byte that does not end the line.
LEMMA AssembleInv ==
    ASSUME IInv, NEW b \in Byte, Assemble(b), line' = Taken(b)
    PROVE  /\ count' \in Position /\ gotCR' \in BOOLEAN /\ complete' \in BOOLEAN
           /\ USART_RX_BUF' \in [Position -> Byte \cup {Nul}]
           /\ line' \in Seq(Byte)
           /\ ~(gotCR /\ b = LF) => LineInv'
  <1>1. /\ count \in Nat /\ count < USART_REC_LEN /\ USART_REC_LEN \in Nat /\ 0 \in Position
        /\ Position = 0 .. USART_REC_LEN - 1
    BY UartAssumption DEF IInv, TypeOK, ReceiverTypeOK, Position
  <1>2. /\ USART_RX_BUF \in [Position -> Byte \cup {Nul}] /\ line \in Seq(Byte)
        /\ gotCR \in BOOLEAN /\ ~complete /\ complete \in BOOLEAN /\ count \in Position
        /\ count = Len(line) /\ \A k \in 1 .. Len(line) : USART_RX_BUF[k - 1] = line[k]
    BY DEF IInv, TypeOK, ReceiverTypeOK, LineInv
  <1>3. <<>> \in Seq(Byte) /\ Len(<<>>) = 0
    OBVIOUS
  <1>4. CASE gotCR
    <2>1. line' = <<>> /\ UNCHANGED USART_RX_BUF
      BY <1>2, <1>4 DEF Taken, Assemble
    <2>2. CASE b = LF
      BY <1>2, <1>3, <1>4, <2>1, <2>2 DEF Assemble
    <2>3. CASE b # LF
      <3>1. Restart
        BY <1>2, <1>4, <2>3 DEF Assemble
      <3>2. LineInv'
        BY <1>3, <2>1, <3>1 DEF Restart, LineInv
      <3> QED
        BY <1>1, <1>2, <1>3, <2>1, <3>1, <3>2 DEF Restart
    <2> QED
      BY <2>2, <2>3
  <1>5. CASE ~gotCR /\ b = CR
    <2>1. /\ line' = line /\ gotCR' = TRUE /\ UNCHANGED <<count, complete, USART_RX_BUF>>
      BY <1>2, <1>5 DEF Taken, Assemble
    <2> QED
      BY <1>2, <2>1 DEF LineInv
  <1>6. CASE ~gotCR /\ b # CR
    <2>1. StoreByte(b)
      BY <1>2, <1>6 DEF Assemble
    <2>2. /\ gotCR' = gotCR /\ complete' = complete
          /\ USART_RX_BUF' = [USART_RX_BUF EXCEPT ![count] = b]
          /\ count' = IF count + 1 > USART_REC_LEN - 1 THEN 0 ELSE count + 1
      BY <2>1 DEF StoreByte
    <2>3. USART_RX_BUF' \in [Position -> Byte \cup {Nul}] /\ count' \in Position
      BY <1>1, <1>2, <2>2
    <2>4. CASE count + 1 > USART_REC_LEN - 1
      <3>1. line' = <<>> /\ count' = 0
        BY <1>2, <1>6, <2>2, <2>4 DEF Taken
      <3> QED
        BY <1>2, <1>3, <2>2, <2>3, <3>1 DEF LineInv
    <2>5. CASE ~(count + 1 > USART_REC_LEN - 1)
      <3>1. line' = Append(line, b) /\ count' = count + 1
        BY <1>2, <1>6, <2>2, <2>5 DEF Taken
      <3>2. /\ line' \in Seq(Byte) /\ Len(line') = count + 1
            /\ \A k \in 1 .. count : line'[k] = line[k]
            /\ line'[count + 1] = b
        BY <1>2, <3>1, AppendProperties
      <3>3. ASSUME NEW k \in 1 .. Len(line') PROVE USART_RX_BUF'[k - 1] = line'[k]
        <4>1. k - 1 \in Position
          BY <1>1, <2>5, <3>2
        <4>2. CASE k = count + 1
          BY <1>1, <1>2, <2>2, <3>2, <4>1, <4>2
        <4>3. CASE k # count + 1
          <5>1. k \in 1 .. count /\ k - 1 # count
            BY <1>1, <3>2, <4>3
          <5> QED
            BY <1>2, <2>2, <3>2, <4>1, <5>1
        <4> QED
          BY <4>2, <4>3
      <3> QED
        BY <1>2, <2>2, <2>3, <3>1, <3>2, <3>3 DEF LineInv
    <2> QED
      BY <2>4, <2>5
  <1> QED
    BY <1>4, <1>5, <1>6

LEMMA InitInv == Init => IInv
  <1> SUFFICES ASSUME Init PROVE IInv
    OBVIOUS
  <1>1. /\ <<>> \in Seq(Byte) /\ <<>> \in Seq(Message) /\ Len(<<>>) = 0
        /\ 0 \in Position /\ Cleared \in [Position -> Byte \cup {Nul}]
    BY UartAssumption DEF Position, Cleared
  <1>2. TypeOK
    BY <1>1, MessagesAssumption DEF Init, ReceiverInit, TypeOK, ReceiverTypeOK
  <1> QED
    BY <1>1, <1>2 DEF Init, ReceiverInit, IInv, LineInv, SizeInv

LEMMA Step == IInv /\ [Next]_vars => IInv'
  <1> SUFFICES ASSUME IInv, [Next]_vars PROVE IInv'
    OBVIOUS
  <1> USE DEF IInv
  <1>1. ASSUME NEW b \in Byte, Type(b) PROVE IInv'
    <2>1. TypeOK'
      BY <1>1 DEF Type, Arrive, TypeOK, ReceiverTypeOK, staVars, checkVars
    <2>2. LineInv' /\ SizeInv'
      BY <1>1 DEF Type, Arrive, LineInv, SizeInv, SpacesAvailable, staVars, checkVars
    <2> QED
      BY <2>1, <2>2
  <1>2. CASE USART1_IRQHandler
    <2>1. /\ ~masked /\ DR \in Byte /\ DR' = NoByte /\ line' = Taken(DR)
          /\ UNCHANGED <<showing, checkVars>>
      BY <1>2 DEF USART1_IRQHandler, TypeOK, ReceiverTypeOK
    <2>2. CASE gotCR /\ DR = LF
      <3>1. Message_Queue' = Post(USART_RX_BUF) /\ Finish
        BY <1>2, <2>2 DEF USART1_IRQHandler
      <3>2. line' = <<>>
        BY <2>1, <2>2 DEF Taken
      <3>3. Message_Queue' \in Seq(Message) /\ Len(Message_Queue') <= MESSAGE_Q_NUM
        BY <3>1, PostType DEF TypeOK, ReceiverTypeOK, Message
      <3>4. 0 \in Position /\ Cleared \in [Position -> Byte \cup {Nul}] /\ <<>> \in Seq(Byte)
        BY UartAssumption DEF Position, Cleared
      <3>5. TypeOK'
        BY <2>1, <3>1, <3>2, <3>3, <3>4 DEF Finish, TypeOK, ReceiverTypeOK, checkVars
      <3>6. LineInv'
        BY <3>1, <3>2 DEF Finish, LineInv
      <3>7. SizeInv'
        BY <2>1 DEF SizeInv, checkVars
      <3> QED
        BY <3>5, <3>6, <3>7
    <2>3. CASE ~(gotCR /\ DR = LF)
      <3>1. Assemble(DR) /\ UNCHANGED Message_Queue
        BY <1>2, <2>3 DEF USART1_IRQHandler
      <3>2. /\ count' \in Position /\ gotCR' \in BOOLEAN /\ complete' \in BOOLEAN
            /\ USART_RX_BUF' \in [Position -> Byte \cup {Nul}]
            /\ line' \in Seq(Byte) /\ LineInv'
        BY <2>1, <2>3, <3>1, AssembleInv
      <3>3. TypeOK'
        BY <2>1, <3>1, <3>2 DEF TypeOK, ReceiverTypeOK, checkVars
      <3>4. SizeInv'
        BY <2>1 DEF SizeInv, checkVars
      <3> QED
        BY <3>2, <3>3, <3>4
    <2> QED
      BY <2>2, <2>3
  <1>3. CASE xQueueReceive
    <2>1. ~masked /\ Message_Queue' = Tail(Message_Queue) /\ Message_Queue # <<>> /\ showing' = "delay"
          /\ UNCHANGED <<receiverVars, checkVars, line>>
      BY <1>3 DEF xQueueReceive
    <2>2. Message_Queue' \in Seq(Message) /\ Len(Message_Queue') <= MESSAGE_Q_NUM
      <3>1. /\ Tail(Message_Queue) \in Seq(Message)
            /\ Len(Tail(Message_Queue)) = Len(Message_Queue) - 1
        BY <2>1, HeadTailProperties DEF TypeOK
      <3> QED
        BY <2>1, <3>1, QueueLen, MessagesAssumption
    <2>3. TypeOK'
      BY <2>1, <2>2 DEF TypeOK, ReceiverTypeOK, receiverVars, staVars, checkVars
    <2>4. LineInv' /\ SizeInv'
      BY <2>1 DEF LineInv, SizeInv, receiverVars, staVars, checkVars
    <2> QED
      BY <2>3, <2>4
  <1>4. CASE DelayOver
    BY <1>4 DEF DelayOver, TypeOK, ReceiverTypeOK, LineInv, SizeInv, SpacesAvailable,
                receiverVars, staVars, checkVars
  <1>5. CASE check_msg_queue
    BY <1>5 DEF check_msg_queue, TypeOK, ReceiverTypeOK, LineInv, SizeInv,
                receiverVars, staVars
  <1>6. CASE ReadSpaces
    <2>1. SpacesAvailable \in 0 .. MESSAGE_Q_NUM
      BY QueueLen, MessagesAssumption DEF SpacesAvailable
    <2>2. TypeOK'
      BY <1>6, <2>1 DEF ReadSpaces, TypeOK, ReceiverTypeOK, receiverVars, staVars
    <2>3. LineInv' /\ SizeInv'
      BY <1>6 DEF ReadSpaces, LineInv, SizeInv, SpacesAvailable, receiverVars, staVars
    <2> QED
      BY <2>2, <2>3
  <1>7. CASE ReadWaiting
    <2>1. Len(Message_Queue) \in 0 .. 2 * MESSAGE_Q_NUM
      BY QueueLen, MessagesAssumption
    <2>2. TypeOK'
      BY <1>7, <2>1 DEF ReadWaiting, TypeOK, ReceiverTypeOK, receiverVars, staVars
    <2>3. LineInv' /\ SizeInv'
      BY <1>7 DEF ReadWaiting, LineInv, SizeInv, SpacesAvailable, receiverVars, staVars
    <2> QED
      BY <2>2, <2>3
  <1>8. CASE PrintSizes
    <2>1. 0 \in 0 .. MESSAGE_Q_NUM /\ 0 \in 0 .. 2 * MESSAGE_Q_NUM
      BY MessagesAssumption
    <2>2. TypeOK'
      BY <1>8, <2>1 DEF PrintSizes, TypeOK, ReceiverTypeOK, receiverVars, staVars
    <2>3. LineInv' /\ SizeInv'
      BY <1>8 DEF PrintSizes, LineInv, SizeInv, receiverVars, staVars
    <2> QED
      BY <2>2, <2>3
  <1>9. CASE UNCHANGED vars
    BY <1>9 DEF vars, TypeOK, ReceiverTypeOK, LineInv, SizeInv, SpacesAvailable,
                receiverVars, staVars, checkVars
  <1> QED
    BY <1>1, <1>2, <1>3, <1>4, <1>5, <1>6, <1>7, <1>8, <1>9
    DEF Next, show_receive_task, task1_task

LEMMA Invariance == Spec => []IInv
  BY InitInv, Step, PTL DEF Spec

-----------------------------------------------------------------------------
(* Theorems. *)

\* The variables have their types: the handler stays inside its buffer and the
\* queue holds no more than MESSAGE_Q_NUM messages.
THEOREM TypeCorrect == Spec => []TypeOK
  <1>1. IInv => TypeOK
    BY DEF IInv
  <1> QED
    BY Invariance, <1>1, PTL

\* check_msg_queue prints sizes of one moment: what it counted and what is free
\* add up to the length of the queue.
THEOREM OneMoment == Spec => []SizesAgree
  <1>1. IInv => SizesAgree
    <2> SUFFICES ASSUME IInv, checking = "print"
                 PROVE  /\ total + SpacesAvailable = MESSAGE_Q_NUM
                        /\ total + remain = MESSAGE_Q_NUM
      BY DEF SizesAgree
    <2>1. Len(Message_Queue) \in 0 .. MESSAGE_Q_NUM /\ MESSAGE_Q_NUM \in Nat
      BY QueueLen, MessagesAssumption DEF IInv
    <2>2. total = Len(Message_Queue) /\ remain = SpacesAvailable
      BY DEF IInv, SizeInv
    <2> QED
      BY <2>1, <2>2 DEF SpacesAvailable
  <1> QED
    BY Invariance, <1>1, PTL

\* A message is posted with its line at the front, whatever the buffer held before.
THEOREM LineComesFirst == Spec => MessageStartsWithLine
  <1>1. ASSUME IInv, [Next]_vars, Len(Message_Queue') > Len(Message_Queue)
        PROVE  \A i \in 1 .. Len(line) : Last(Message_Queue')[i - 1] = line[i]
    <2>1. Len(Message_Queue) \in Nat
      BY <1>1, QueueLen DEF IInv
    <2>2. Message_Queue' # Message_Queue
      BY <1>1, <2>1
    <2>3. ~xQueueReceive
      <3> SUFFICES ASSUME xQueueReceive PROVE FALSE
        OBVIOUS
      <3>1. Len(Message_Queue') = Len(Message_Queue) - 1
        BY <1>1, HeadTailProperties DEF xQueueReceive, IInv, TypeOK
      <3> QED
        BY <1>1, <2>1, <3>1
    <2>4. Message_Queue' = Post(USART_RX_BUF)
      BY <1>1, <2>2, <2>3 DEF Next, show_receive_task, task1_task, Type, USART1_IRQHandler,
           DelayOver, check_msg_queue, ReadSpaces, ReadWaiting, PrintSizes, vars
    <2>5. USART_RX_BUF \in Message
      BY <1>1 DEF IInv, TypeOK, ReceiverTypeOK, Message
    <2>6. Last(Message_Queue') = USART_RX_BUF
      BY <1>1, <2>4, <2>5, PostType DEF IInv
    <2> QED
      BY <1>1, <2>6 DEF IInv, LineInv
  <1>2. IInv /\ [Next]_vars =>
           [Len(Message_Queue') > Len(Message_Queue) =>
               \A i \in 1 .. Len(line) : Last(Message_Queue')[i - 1] = line[i]]_vars
    BY <1>1
  <1> QED
    BY Invariance, <1>2, PTL DEF Spec, MessageStartsWithLine
=============================================================================
