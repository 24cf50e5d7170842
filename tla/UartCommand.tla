----------------------------- MODULE UartCommand -----------------------------
(***************************************************************************)
(* The binary semaphore program (and the tickless one, the same code): the  *)
(* interrupt handler collects a command line and gives a binary semaphore,  *)
(* and DataProcess_task carries the command out.                            *)
(*                                                                          *)
(* The handler runs between any two statements of the task that touch what  *)
(* they share.  The semaphore is a queue of length one (module KernelQueue, *)
(* whose abstract queue stands here as a BOOLEAN).  task1_task only blinks  *)
(* an LED and is left out.                                                  *)
(*                                                                          *)
(* The task copies the line to an array that is smaller than the buffer.    *)
(* When the copy runs over its end the task is at "overrun": what the       *)
(* program does from then on is not defined, and nothing is said of it.     *)
(***************************************************************************)
EXTENDS UartReceiver, Sequences

CONSTANT CommandSize    \* u8 CommandStr[30]

ASSUME CommandAssumption == CommandSize \in 1 .. USART_REC_LEN

VARIABLES
    BinarySemaphore,
    pc,               \* the next statement of DataProcess_task
    len, CommandStr,  \* its local variables
    typed,            \* what the terminal takes for the line it is typing
    overlong,         \* whether a line typed since the last answer, also one broken off,
                      \* had CommandSize bytes: a history variable of the properties
    patient           \* the terminal waits until a line has been dealt with

taskVars == <<pc, len, CommandStr>>
terminalVars == <<typed, overlong, patient>>
vars == <<receiverVars, BinarySemaphore, taskVars, terminalVars>>

TypeOK ==
    /\ ReceiverTypeOK
    /\ BinarySemaphore \in BOOLEAN
    /\ pc \in {"take", "length", "copy", "overrun", "process", "restart", "erase"}
    /\ len \in Position
    /\ CommandStr \in Seq(Byte) /\ Len(CommandStr) < CommandSize
    /\ typed \in Seq(Byte)
    /\ overlong \in BOOLEAN
    /\ patient \in BOOLEAN

\* The C string in the buffer from its start on, and its part up to n bytes.
StringOf(buf, n) ==
    LET size == CHOOSE k \in 0 .. n :
                    /\ \A j \in 0 .. k - 1 : buf[j] # Nul
                    /\ k = n \/ buf[k] = Nul
    IN  [i \in 1 .. size |-> buf[i - 1]]

-----------------------------------------------------------------------------
\* The line as the receiver should understand it: it starts over with a byte
\* that breaks a CR LF, and when it has filled the buffer.
Continue(line, b) ==
    IF b = LF /\ gotCR THEN line
    ELSE IF gotCR THEN <<>>
    ELSE IF b = CR THEN line
    ELSE IF Len(line) + 1 > USART_REC_LEN - 1 THEN <<>>
    ELSE Append(line, b)

\* The byte is one more of a line, and as many as CommandStr has room for.
Fills(line, b) == ~gotCR /\ b # CR /\ Len(line) + 1 >= CommandSize

\* The terminal sends a byte; one that waits types on when no answer comes.
Type(b) ==
    /\ patient => (~complete /\ pc = "take" /\ DR = NoByte) \/ pc = "overrun"
    /\ Arrive(b)
    /\ IF patient /\ pc = "take"
       THEN typed' = Continue(typed, b) /\ overlong' = (overlong \/ Fills(typed, b))
       ELSE UNCHANGED <<typed, overlong>>
    /\ UNCHANGED <<BinarySemaphore, taskVars, patient>>

\* Mutant: the semaphore is not given when the line is complete.
GiveLate == BinarySemaphore' = (BinarySemaphore \/ complete)

\* Every interrupt that finds the line complete gives the semaphore.
Give == BinarySemaphore' = (BinarySemaphore \/ complete')

USART1_IRQHandler ==
    /\ DR # NoByte
    /\ Assemble(DR)
    /\ DR' = NoByte
    /\ Give
    /\ UNCHANGED <<taskVars, terminalVars>>

xSemaphoreTake ==
    /\ pc = "take" /\ BinarySemaphore
    /\ BinarySemaphore' = FALSE
    /\ pc' = "length"
    /\ UNCHANGED <<receiverVars, len, CommandStr, terminalVars>>

ReadLength ==
    /\ pc = "length"
    /\ len' = count
    /\ pc' = "copy"
    /\ UNCHANGED <<receiverVars, BinarySemaphore, CommandStr, terminalVars>>

\* sprintf writes the string, all of what stands in the buffer before the first
\* NUL, and its NUL; then a NUL is written at the line's length.
CopyFits == Len(StringOf(USART_RX_BUF, USART_REC_LEN)) < CommandSize /\ len < CommandSize

\* Mutant: what stands behind the line in the buffer is not cut off.
CopyUncut ==
    /\ pc = "copy" /\ CopyFits
    /\ CommandStr' = StringOf(USART_RX_BUF, USART_REC_LEN)
    /\ pc' = "process"
    /\ UNCHANGED <<receiverVars, BinarySemaphore, len, terminalVars>>

\* What is left of the string is the line.
Copy ==
    /\ pc = "copy" /\ CopyFits
    /\ CommandStr' = StringOf(USART_RX_BUF, len)
    /\ pc' = "process"
    /\ UNCHANGED <<receiverVars, BinarySemaphore, len, terminalVars>>

\* The string or the NUL lands behind CommandStr.
CopyOverruns ==
    /\ pc = "copy" /\ ~CopyFits
    /\ pc' = "overrun"
    /\ UNCHANGED <<receiverVars, BinarySemaphore, len, CommandStr, terminalVars>>

\* Mutant: a command that is not understood is looked at again.
CommandProcessAgain ==
    /\ pc = "process"
    /\ pc' \in {"copy", "restart"}
    /\ UNCHANGED <<receiverVars, BinarySemaphore, len, CommandStr, terminalVars>>

\* LowerToCap, CommandProcess, the LED or the error message.
CommandProcess ==
    /\ pc = "process"
    /\ pc' = "restart"
    /\ UNCHANGED <<receiverVars, BinarySemaphore, len, CommandStr, terminalVars>>

\* USART_RX_STA = 0
RestartLine ==
    /\ pc = "restart"
    /\ Restart
    /\ pc' = "erase"
    /\ typed' = <<>> /\ overlong' = FALSE
    /\ UNCHANGED <<DR, USART_RX_BUF, BinarySemaphore, len, CommandStr, patient>>

\* memset of the buffer and of the copy
EraseLine ==
    /\ pc = "erase"
    /\ USART_RX_BUF' = Cleared
    /\ CommandStr' = <<>>
    /\ pc' = "take"
    /\ UNCHANGED <<DR, staVars, BinarySemaphore, len, terminalVars>>

Init ==
    /\ ReceiverInit
    /\ BinarySemaphore = FALSE
    /\ pc = "take" /\ len = 0 /\ CommandStr = <<>>
    /\ typed = <<>> /\ overlong = FALSE
    /\ patient \in BOOLEAN

DataProcess_task ==
    \/ xSemaphoreTake \/ ReadLength \/ Copy \/ CopyOverruns
    \/ CommandProcess \/ RestartLine \/ EraseLine

Next == (\E b \in Byte : Type(b)) \/ USART1_IRQHandler \/ DataProcess_task

Spec == Init /\ [][Next]_vars
FairSpec == Spec /\ WF_vars(USART1_IRQHandler) /\ WF_vars(DataProcess_task)

-----------------------------------------------------------------------------
(* Properties. *)

\* While a line is complete, whatever else comes in, its bytes and their number
\* stay as they are until the task starts a new line.  (A line that becomes
\* complete between the two halves of that is erased by the second.)
LineFrozen ==
    [][complete /\ pc \notin {"restart", "erase", "overrun"} => UNCHANGED <<staVars, USART_RX_BUF>>]_vars

\* A complete line, which keeps all further input out, is never left behind:
\* the semaphore is there for the task to take, or the task has already taken it
\* and has yet to start the line over, unless its copy has run over CommandStr.
NoStuckLine ==
    complete => BinarySemaphore \/ pc \in {"length", "copy", "overrun", "process", "restart"}

\* The receiver takes input again some time after every complete line that the
\* task has room for.
LineFinished == complete ~> ~complete \/ pc = "overrun"

\* With a terminal that waits, the command carried out is the line it typed,
\* whatever broken or long line came before it; and the copy runs over CommandStr
\* exactly when one of the lines since the last answer had no room there, be it
\* the line itself, one that was broken off, or one that overran the buffer.
CommandIsLine ==
    patient =>
        /\ pc = "process" => CommandStr = typed /\ ~overlong
        /\ pc = "overrun" => overlong

\* The comment at main.c:107 says that the task, once it has the semaphore, reads
\* the length of the data received this time: there is a complete line.
SemaphoreMeansLine == pc = "length" => complete
=============================================================================
