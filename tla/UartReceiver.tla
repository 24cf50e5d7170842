---------------------------- MODULE UartReceiver ----------------------------
(***************************************************************************)
(* The serial input that several programs share: the receive register of    *)
(* USART1, and the part of USART1_IRQHandler (SYSTEM/usart/usart.c) that    *)
(* puts the bytes of a line, which CR LF ends, together.                    *)
(***************************************************************************)
EXTENDS Naturals

CONSTANTS
    Char,            \* the bytes that are not CR, LF or NUL
    CR, LF, Nul,
    NoByte,          \* the receive register is empty
    USART_REC_LEN    \* 200

ASSUME UartAssumption ==
    /\ CR \notin Char /\ LF \notin Char /\ CR # LF
    /\ Nul \notin Char \cup {CR, LF}
    /\ NoByte \notin Char \cup {CR, LF}
    /\ USART_REC_LEN \in Nat \ {0}

VARIABLES
    DR,                      \* the byte the receiver holds
    count, gotCR, complete,  \* USART_RX_STA: bits 13..0, 0x4000 and 0x8000
    USART_RX_BUF

staVars == <<count, gotCR, complete>>
receiverVars == <<DR, staVars, USART_RX_BUF>>

Byte == Char \cup {CR, LF}
Position == 0 .. USART_REC_LEN - 1
Cleared == [k \in Position |-> Nul]

ReceiverTypeOK ==
    /\ DR \in Byte \cup {NoByte}
    /\ count \in Position
    /\ gotCR \in BOOLEAN /\ complete \in BOOLEAN
    /\ USART_RX_BUF \in [Position -> Byte \cup {Nul}]

ReceiverInit ==
    /\ DR = NoByte
    /\ count = 0 /\ gotCR = FALSE /\ complete = FALSE
    /\ USART_RX_BUF = Cleared

\* A byte comes in over the line.  One that finds the register taken is lost.
Arrive(b) ==
    /\ DR' = IF DR = NoByte THEN b ELSE DR
    /\ UNCHANGED <<staVars, USART_RX_BUF>>

\* USART_RX_STA = 0.
Restart == count' = 0 /\ gotCR' = FALSE /\ complete' = FALSE

\* Mutant: the last position of the buffer is not the end of it.
StoreTooFar(b) ==
    /\ USART_RX_BUF' = [USART_RX_BUF EXCEPT ![count] = b]
    /\ count' = IF count + 1 > USART_REC_LEN THEN 0 ELSE count + 1
    /\ UNCHANGED <<gotCR, complete>>

\* A byte of the line; a line that does not fit starts over in the buffer.
StoreByte(b) ==
    /\ USART_RX_BUF' = [USART_RX_BUF EXCEPT ![count] = b]
    /\ count' = IF count + 1 > USART_REC_LEN - 1 THEN 0 ELSE count + 1
    /\ UNCHANGED <<gotCR, complete>>

\* Mutant: bytes that come in behind a complete line are stored.
AssembleOver(b) ==
    IF gotCR
    THEN /\ IF b = LF THEN complete' = TRUE /\ UNCHANGED <<count, gotCR>> ELSE Restart
         /\ UNCHANGED USART_RX_BUF
    ELSE IF b = CR
    THEN gotCR' = TRUE /\ UNCHANGED <<count, complete, USART_RX_BUF>>
    ELSE StoreByte(b)

\* Mutant: a byte that breaks CR LF lets the line go on.
AssembleOn(b) ==
    IF complete THEN UNCHANGED <<staVars, USART_RX_BUF>>
    ELSE IF gotCR
    THEN /\ IF b = LF THEN complete' = TRUE /\ UNCHANGED gotCR ELSE gotCR' = FALSE /\ UNCHANGED complete
         /\ UNCHANGED <<count, USART_RX_BUF>>
    ELSE IF b = CR
    THEN gotCR' = TRUE /\ UNCHANGED <<count, complete, USART_RX_BUF>>
    ELSE StoreByte(b)

\* The interrupt handler looks at a byte; a complete line keeps all others out.
Assemble(b) ==
    IF complete THEN UNCHANGED <<staVars, USART_RX_BUF>>
    ELSE IF gotCR
    THEN /\ IF b = LF THEN complete' = TRUE /\ UNCHANGED <<count, gotCR>> ELSE Restart
         /\ UNCHANGED USART_RX_BUF
    ELSE IF b = CR
    THEN gotCR' = TRUE /\ UNCHANGED <<count, complete, USART_RX_BUF>>
    ELSE StoreByte(b)
=============================================================================
