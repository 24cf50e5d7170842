---------------------------- MODULE UartMessages ----------------------------
(***************************************************************************)
(* The program that sends messages from an interrupt: the handler posts each *)
(* complete line, its whole buffer, to a queue of MESSAGE_Q_NUM messages;   *)
(* show_receive_task takes one and sleeps a second; task1_task prints, with *)
(* interrupts masked, how full the queue is.                                *)
(*                                                                          *)
(* The queue is the abstract one that module KernelQueue implements.  The   *)
(* showing task has the higher priority: it takes a message between any two *)
(* steps of the other, except while interrupts, and with them task          *)
(* switches, are masked.                                                    *)
(***************************************************************************)
EXTENDS UartReceiver, Sequences, SequencesExt

CONSTANT MESSAGE_Q_NUM   \* 4

ASSUME MessagesAssumption == MESSAGE_Q_NUM \in Nat \ {0}

VARIABLES
    Message_Queue,
    showing,                 \* show_receive_task: "receive" or "delay"
    checking,                \* check_msg_queue: its next step
    masked,                  \* taskENTER_CRITICAL is in force
    remain, total,           \* its local variables
    line                     \* the bytes the handler has taken as the line

checkVars == <<checking, masked, remain, total>>
vars == <<receiverVars, Message_Queue, showing, checkVars, line>>

Message == [Position -> Byte \cup {Nul}]

TypeOK ==
    /\ ReceiverTypeOK
    /\ Message_Queue \in Seq(Message) /\ Len(Message_Queue) <= MESSAGE_Q_NUM
    /\ showing \in {"receive", "delay"}
    /\ checking \in {"out", "spaces", "waiting", "print"}
    /\ masked \in BOOLEAN
    /\ remain \in 0 .. MESSAGE_Q_NUM /\ total \in 0 .. 2 * MESSAGE_Q_NUM
    /\ line \in Seq(Byte)

-----------------------------------------------------------------------------
Type(b) ==
    /\ Arrive(b)
    /\ UNCHANGED <<Message_Queue, showing, checkVars, line>>

\* Mutant: xQueueSendFromISR overwrites when the queue is full.
PostAnyway(m) == Append(Message_Queue, m)

\* xQueueSendFromISR: a message that finds the queue full is dropped.
Post(m) ==
    IF Len(Message_Queue) < MESSAGE_Q_NUM THEN Append(Message_Queue, m) ELSE Message_Queue

\* The line is over, posted or not.
Finish ==
    /\ count' = 0 /\ gotCR' = FALSE /\ complete' = FALSE
    /\ USART_RX_BUF' = Cleared

\* The line as the bytes that the handler kept, for the properties.
Taken(b) ==
    IF gotCR THEN <<>>
    ELSE IF b = CR THEN line
    ELSE IF Len(line) + 1 > USART_REC_LEN - 1 THEN <<>>
    ELSE Append(line, b)

USART1_IRQHandler ==
    /\ ~masked /\ DR # NoByte
    /\ DR' = NoByte
    /\ IF gotCR /\ DR = LF
       THEN Message_Queue' = Post(USART_RX_BUF) /\ Finish
       ELSE Assemble(DR) /\ UNCHANGED Message_Queue
    /\ line' = Taken(DR)
    /\ UNCHANGED <<showing, checkVars>>

xQueueReceive ==
    /\ ~masked /\ showing = "receive"
    /\ Message_Queue # <<>>
    /\ Message_Queue' = Tail(Message_Queue)
    /\ showing' = "delay"
    /\ UNCHANGED <<receiverVars, checkVars, line>>

\* The second is over.
DelayOver ==
    /\ ~masked /\ showing = "delay"
    /\ showing' = "receive"
    /\ UNCHANGED <<receiverVars, Message_Queue, checkVars, line>>

\* Mutant: without taskENTER_CRITICAL.
CheckUnmasked ==
    /\ checking = "out"
    /\ checking' = "spaces"
    /\ UNCHANGED <<receiverVars, Message_Queue, showing, masked, remain, total, line>>

check_msg_queue ==
    /\ checking = "out"
    /\ masked' = TRUE
    /\ checking' = "spaces"
    /\ UNCHANGED <<receiverVars, Message_Queue, showing, remain, total, line>>

SpacesAvailable == MESSAGE_Q_NUM - Len(Message_Queue)

ReadSpaces ==
    /\ checking = "spaces"
    /\ remain' = SpacesAvailable
    /\ checking' = "waiting"
    /\ UNCHANGED <<receiverVars, Message_Queue, showing, masked, total, line>>

\* total = uxQueueMessagesWaiting () + uxQueueSpacesAvailable (): two reads
ReadWaiting ==
    /\ checking = "waiting"
    /\ total' = Len(Message_Queue)
    /\ checking' = "print"
    /\ UNCHANGED <<receiverVars, Message_Queue, showing, masked, remain, line>>

\* The second read, the two lines of output, taskEXIT_CRITICAL.
PrintSizes ==
    /\ checking = "print"
    /\ checking' = "out"
    /\ masked' = FALSE
    /\ remain' = 0 /\ total' = 0
    /\ UNCHANGED <<receiverVars, Message_Queue, showing, line>>

Init ==
    /\ ReceiverInit
    /\ Message_Queue = <<>>
    /\ showing = "receive"
    /\ checking = "out" /\ masked = FALSE /\ remain = 0 /\ total = 0
    /\ line = <<>>

task1_task == check_msg_queue \/ ReadSpaces \/ ReadWaiting \/ PrintSizes
show_receive_task == xQueueReceive \/ DelayOver

Next == (\E b \in Byte : Type(b)) \/ USART1_IRQHandler \/ show_receive_task \/ task1_task

Spec == Init /\ [][Next]_vars

-----------------------------------------------------------------------------
(* Properties. *)

\* What check_msg_queue prints as the total and as the remaining size belongs
\* to one moment, so that the total is always the length of the queue.
SizesAgree ==
    checking = "print" =>
        /\ total + SpacesAvailable = MESSAGE_Q_NUM
        /\ total + remain = MESSAGE_Q_NUM

\* Every message begins with the line that was taken, whatever lines were broken
\* off or overran the buffer before; between it and the end stands only what
\* such a line has left behind.
MessageStartsWithLine ==
    [][Len(Message_Queue') > Len(Message_Queue) =>
          \A i \in 1 .. Len(line) : Last(Message_Queue')[i - 1] = line[i]]_vars
=============================================================================
