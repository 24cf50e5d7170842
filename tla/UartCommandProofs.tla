------------------------- MODULE UartCommandProofs -------------------------
(***************************************************************************)
(* Theorems of UartCommand, for every size of the buffer and of the copy    *)
(* and every set of characters.                                             *)
(***************************************************************************)
EXTENDS UartCommand, SequenceTheorems, WellFoundedInduction, TLAPS

\* The buffer begins with the line s and the handler counts its bytes.
Holds(s) ==
    /\ count = Len(s)
    /\ \A k \in 1 .. Len(s) : USART_RX_BUF[k - 1] = s[k]

\* With a terminal that waits: nothing comes in while a line is being dealt with,
\* the semaphore is there exactly when a line is and the task has not taken it,
\* the local variables are those of this line, and the buffer holds what the
\* terminal takes for its line, once the byte under way has been looked at.
Understood ==
    patient /\ pc # "overrun" =>
        /\ complete \/ pc # "take" => DR = NoByte
        /\ BinarySemaphore = (complete /\ pc = "take")
        /\ pc \in {"length", "copy", "process", "restart"} => complete
        /\ pc = "erase" => ~complete /\ typed = <<>>
        /\ pc = "copy" => len = count
        /\ pc = "process" => CommandStr = typed
        /\ IF DR = NoByte THEN Holds(typed)
           ELSE \E s \in Seq(Byte) : Holds(s) /\ typed = Continue(s, DR)

\* The first m places of the buffer are those written since it was erased.
Written(m) ==
    /\ m \in 0 .. USART_REC_LEN
    /\ \A k \in Position : USART_RX_BUF[k] = Nul <=> m <= k

\* The byte under way is one more of a line that CommandStr has no room for.
Coming == DR # NoByte /\ ~gotCR /\ DR # CR /\ count + 1 >= CommandSize

\* With a terminal that waits: how far the buffer is written tells whether a line
\* was too long since it was erased, and this is what the copy goes by.
Recorded ==
    patient =>
        /\ pc \notin {"erase", "overrun"} =>
               \E m : Written(m) /\ count <= m /\ overlong = (m >= CommandSize \/ Coming)
        /\ pc \in {"process", "erase"} => ~overlong
        /\ pc = "overrun" => overlong

-----------------------------------------------------------------------------
(* The C string in the buffer. *)

\* A set of natural numbers has a least one.
LEMMA LeastOf ==
    ASSUME NEW I \in SUBSET Nat, I # {}
    PROVE  \E k \in I : \A i \in I : k <= i
  <1>1. PICK x \in I : \A y \in I : ~ (<<y, x>> \in OpToRel(<, Nat))
    BY NatLessThanWellFounded, WFMin
  <1>2. ASSUME NEW y \in I PROVE x <= y
    <2>1. <<y, x>> \in Nat \X Nat /\ <<y, x>>[1] = y /\ <<y, x>>[2] = x
      OBVIOUS
    <2>2. OpToRel(<, Nat) = {p \in Nat \X Nat : p[1] < p[2]}
      BY DEF OpToRel
    <2>3. ~ (y < x)
      BY <1>1, <2>1, <2>2
    <2> QED
      BY <2>3
  <1> QED
    BY <1>2

\* The bytes before the first NUL, n at most.
StringSize(buf, n, k) ==
    /\ k \in 0 .. n
    /\ \A j \in 0 .. k - 1 : buf[j] # Nul
    /\ k = n \/ buf[k] = Nul

LEMMA StringIs ==
    ASSUME NEW buf, NEW n \in 0 .. USART_REC_LEN
    PROVE  \E k : StringSize(buf, n, k) /\ StringOf(buf, n) = [i \in 1 .. k |-> buf[i - 1]]
  <1> DEFINE I == {k \in 0 .. n : k = n \/ buf[k] = Nul}
             size == CHOOSE k \in 0 .. n :
                         /\ \A j \in 0 .. k - 1 : buf[j] # Nul
                         /\ k = n \/ buf[k] = Nul
  <1>1. n \in Nat
    BY UartAssumption
  <1>2. PICK k \in I : \A i \in I : k <= i
    <2>1. I \in SUBSET Nat /\ n \in I
      BY <1>1
    <2> QED
      BY <2>1, LeastOf
  <1>3. \A j \in 0 .. k - 1 : buf[j] # Nul
    BY <1>1, <1>2
  <1>4. StringSize(buf, n, size)
    <2>1. \E m \in 0 .. n : /\ \A j \in 0 .. m - 1 : buf[j] # Nul
                            /\ m = n \/ buf[m] = Nul
      BY <1>2, <1>3
    <2> QED
      BY <2>1 DEF StringSize
  <1>5. StringOf(buf, n) = [i \in 1 .. size |-> buf[i - 1]]
    BY DEF StringOf
  <1> QED
    BY <1>4, <1>5

LEMMA StringType ==
    ASSUME NEW buf \in [Position -> Byte \cup {Nul}], NEW n \in 0 .. USART_REC_LEN
    PROVE  StringOf(buf, n) \in Seq(Byte) /\ Len(StringOf(buf, n)) <= n
  <1>1. PICK k : StringSize(buf, n, k) /\ StringOf(buf, n) = [i \in 1 .. k |-> buf[i - 1]]
    BY StringIs
  <1>2. k \in Nat /\ k <= n /\ n <= USART_REC_LEN /\ n \in Nat
    BY <1>1, UartAssumption DEF StringSize
  <1>3. ASSUME NEW i \in 1 .. k PROVE buf[i - 1] \in Byte
    <2>1. i - 1 \in 0 .. k - 1 /\ i - 1 \in Position
      BY <1>2, UartAssumption DEF Position
    <2> QED
      BY <1>1, <2>1 DEF StringSize
  <1> QED
    BY <1>1, <1>2, <1>3

\* A line of n bytes at the start of the buffer is the string up to n bytes.
LEMMA StringOfLine ==
    ASSUME NEW buf, NEW s \in Seq(Byte), Len(s) \in Position,
           \A k \in 1 .. Len(s) : buf[k - 1] = s[k]
    PROVE  StringOf(buf, Len(s)) = s
  <1> DEFINE n == Len(s)
  <1>1. n \in Nat /\ DOMAIN s = 1 .. n /\ \A k \in 1 .. n : s[k] \in Byte
    OBVIOUS
  <1>2. PICK k : StringSize(buf, n, k) /\ StringOf(buf, n) = [i \in 1 .. k |-> buf[i - 1]]
    BY StringIs, UartAssumption DEF Position
  <1>n. n \in Nat
    BY <1>1
  <1> HIDE DEF n
  <1>3. k = n
    <2> SUFFICES ASSUME k # n PROVE FALSE
      OBVIOUS
    <2>1. k \in 0 .. n /\ buf[k] = Nul
      BY <1>2 DEF StringSize
    <2>2. k + 1 \in 1 .. n /\ (k + 1) - 1 = k
      BY <1>n, <2>1
    <2>3. buf[(k + 1) - 1] = s[k + 1] /\ s[k + 1] \in Byte
      BY <1>1, <2>2 DEF n
    <2> QED
      BY <2>1, <2>2, <2>3, UartAssumption DEF Byte
  <1>4. s = [i \in 1 .. n |-> s[i]]
    BY <1>1
  <1>5. [i \in 1 .. n |-> buf[i - 1]] = [i \in 1 .. n |-> s[i]]
    <2>1. \A i \in 1 .. n : buf[i - 1] = s[i]
      BY DEF n
    <2> QED
      BY <2>1
  <1> QED
    BY <1>2, <1>3, <1>4, <1>5 DEF n

-----------------------------------------------------------------------------
(* Types. *)

LEMMA Continued ==
    ASSUME NEW s \in Seq(Byte), NEW b \in Byte
    PROVE  Continue(s, b) \in Seq(Byte)
  BY DEF Continue

LEMMA AssembleType ==
    ASSUME NEW b \in Byte, ReceiverTypeOK, Assemble(b)
    PROVE  /\ count' \in Position /\ gotCR' \in BOOLEAN /\ complete' \in BOOLEAN
           /\ USART_RX_BUF' \in [Position -> Byte \cup {Nul}]
  <1>1. 0 \in Position
    BY UartAssumption DEF Position
  <1>2. CASE StoreByte(b)
    <2>1. count' \in Position
      BY <1>1, <1>2, UartAssumption DEF StoreByte, ReceiverTypeOK, Position
    <2>2. USART_RX_BUF' \in [Position -> Byte \cup {Nul}]
      BY <1>2 DEF StoreByte, ReceiverTypeOK
    <2> QED
      BY <1>2, <2>1, <2>2 DEF StoreByte, ReceiverTypeOK
  <1>3. CASE ~StoreByte(b)
    BY <1>1, <1>3 DEF Assemble, ReceiverTypeOK, Restart, staVars
  <1> QED
    BY <1>2, <1>3

LEMMA TypeStep == TypeOK /\ [Next]_vars => TypeOK'
  <1> SUFFICES ASSUME TypeOK, [Next]_vars PROVE TypeOK'
    OBVIOUS
  <1> USE DEF TypeOK, ReceiverTypeOK
  <1>1. ASSUME NEW b \in Byte, Type(b) PROVE TypeOK'
    <2>1. typed' \in Seq(Byte)
      BY <1>1, Continued DEF Type
    <2> QED
      BY <1>1, <2>1 DEF Type, Arrive, staVars, taskVars, Fills
  <1>2. CASE USART1_IRQHandler
    <2>1. DR \in Byte /\ Assemble(DR)
      BY <1>2 DEF USART1_IRQHandler
    <2>2. /\ count' \in Position /\ gotCR' \in BOOLEAN /\ complete' \in BOOLEAN
          /\ USART_RX_BUF' \in [Position -> Byte \cup {Nul}]
      BY <2>1, AssembleType
    <2>3. DR' = NoByte /\ BinarySemaphore' \in BOOLEAN
      BY <1>2, <2>2 DEF USART1_IRQHandler, Give
    <2> QED
      BY <1>2, <2>2, <2>3 DEF USART1_IRQHandler, taskVars, terminalVars
  <1>3. CASE xSemaphoreTake
    BY <1>3 DEF xSemaphoreTake, receiverVars, staVars, terminalVars
  <1>4. CASE ReadLength
    BY <1>4 DEF ReadLength, receiverVars, staVars, terminalVars
  <1>5. CASE Copy
    <2>1. len \in 0 .. USART_REC_LEN /\ len < CommandSize
      BY <1>5, UartAssumption DEF Copy, CopyFits, Position
    <2>2. CommandStr' \in Seq(Byte) /\ Len(CommandStr') <= len
      BY <1>5, <2>1, StringType DEF Copy
    <2>3. Len(CommandStr') < CommandSize
      BY <2>1, <2>2, CommandAssumption
    <2> QED
      BY <1>5, <2>2, <2>3 DEF Copy, receiverVars, staVars, terminalVars
  <1>11. CASE CopyOverruns
    BY <1>11 DEF CopyOverruns, receiverVars, staVars, terminalVars
  <1>6. CASE CommandProcess
    BY <1>6 DEF CommandProcess, receiverVars, staVars, terminalVars
  <1>7. CASE RestartLine
    <2>1. 0 \in Position /\ <<>> \in Seq(Byte)
      BY UartAssumption DEF Position
    <2> QED
      BY <1>7, <2>1 DEF RestartLine, Restart
  <1>8. CASE EraseLine
    <2>1. Cleared \in [Position -> Byte \cup {Nul}] /\ <<>> \in Seq(Byte)
      BY DEF Cleared
    <2> QED
      BY <1>8, <2>1, CommandAssumption DEF EraseLine, staVars, terminalVars
  <1>9. CASE UNCHANGED vars
    BY <1>9 DEF vars, receiverVars, staVars, taskVars, terminalVars
  <1> QED
    BY <1>1, <1>2, <1>3, <1>4, <1>5, <1>6, <1>7, <1>8, <1>9, <1>11 DEF Next, DataProcess_task

\* The count stays inside the buffer, and a command is a string without NUL that
\* fits in CommandStr.
THEOREM TypeCorrect == Spec => []TypeOK
  <1>1. Init => TypeOK
    <2>1. 0 \in Position /\ <<>> \in Seq(Byte) /\ Cleared \in [Position -> Byte \cup {Nul}]
      BY UartAssumption DEF Position, Cleared
    <2>2. Len(<<>>) = 0 /\ 0 < CommandSize
      BY CommandAssumption, UartAssumption
    <2> QED
      BY <2>1, <2>2 DEF Init, ReceiverInit, TypeOK, ReceiverTypeOK
  <1> QED
    BY <1>1, TypeStep, PTL DEF Spec

-----------------------------------------------------------------------------
(* A line is neither left behind nor touched. *)

\* A complete line is announced by the semaphore, or the task is at it.
THEOREM NeverStuck == Spec => []NoStuckLine
  <1>1. Init => NoStuckLine
    BY DEF Init, ReceiverInit, NoStuckLine
  <1>2. TypeOK /\ NoStuckLine /\ [Next]_vars => NoStuckLine'
    <2> SUFFICES ASSUME TypeOK, NoStuckLine, [Next]_vars PROVE NoStuckLine'
      OBVIOUS
    <2> USE DEF NoStuckLine
    <2>1. ASSUME NEW b \in Byte, Type(b) PROVE NoStuckLine'
      BY <2>1 DEF Type, Arrive, staVars, taskVars
    <2>2. CASE USART1_IRQHandler
      BY <2>2 DEF USART1_IRQHandler, Give
    <2>3. CASE xSemaphoreTake
      BY <2>3 DEF xSemaphoreTake
    <2>4. CASE ReadLength
      BY <2>4 DEF ReadLength
    <2>5. CASE Copy \/ CopyOverruns
      BY <2>5 DEF Copy, CopyOverruns
    <2>6. CASE CommandProcess
      BY <2>6 DEF CommandProcess
    <2>7. CASE RestartLine
      BY <2>7 DEF RestartLine, Restart
    <2>8. CASE EraseLine
      BY <2>8 DEF EraseLine, staVars
    <2>9. CASE UNCHANGED vars
      BY <2>9 DEF vars, receiverVars, staVars, taskVars
    <2> QED
      BY <2>1, <2>2, <2>3, <2>4, <2>5, <2>6, <2>7, <2>8, <2>9 DEF Next, DataProcess_task
  <1> QED
    BY <1>1, <1>2, TypeCorrect, PTL DEF Spec

\* Whatever comes in behind a complete line changes neither its bytes nor their
\* number before the task starts a new one.
THEOREM Frozen == Spec => LineFrozen
  <1>1. [Next]_vars =>
            [complete /\ pc \notin {"restart", "erase", "overrun"} => UNCHANGED <<staVars, USART_RX_BUF>>]_vars
    <2> SUFFICES ASSUME [Next]_vars, complete, pc \notin {"restart", "erase", "overrun"}
                 PROVE  UNCHANGED <<staVars, USART_RX_BUF>>
      OBVIOUS
    <2>1. ASSUME NEW b \in Byte, Type(b) PROVE UNCHANGED <<staVars, USART_RX_BUF>>
      BY <2>1 DEF Type, Arrive
    <2>2. CASE USART1_IRQHandler
      BY <2>2 DEF USART1_IRQHandler, Assemble
    <2>3. CASE DataProcess_task
      BY <2>3 DEF DataProcess_task, xSemaphoreTake, ReadLength, Copy, CopyOverruns,
                  CommandProcess, RestartLine, EraseLine, receiverVars
    <2>4. CASE UNCHANGED vars
      BY <2>4 DEF vars, receiverVars
    <2> QED
      BY <2>1, <2>2, <2>3, <2>4 DEF Next
  <1> QED
    BY <1>1, PTL DEF Spec, LineFrozen
-----------------------------------------------------------------------------
(* With a terminal that waits, the command is the line. *)

LEMMA HoldsKept ==
    ASSUME NEW s, Holds(s), count' = count, USART_RX_BUF' = USART_RX_BUF
    PROVE  Holds(s)'
  BY DEF Holds

LEMMA HoldsNothing ==
    ASSUME count' = 0
    PROVE  Holds(<<>>)'
  <1>1. Len(<<>>) = 0 /\ 1 .. Len(<<>>) = {}
    OBVIOUS
  <1> QED
    BY <1>1 DEF Holds

\* The byte stored is the one the terminal counts to its line.
LEMMA HoldsStored ==
    ASSUME TypeOK, NEW s \in Seq(Byte), NEW b \in Byte, Holds(s), StoreByte(b)
    PROVE  Holds(IF Len(s) + 1 > USART_REC_LEN - 1 THEN <<>> ELSE Append(s, b))'
  <1> DEFINE n == Len(s)
  <1>1. n \in Nat /\ count = n /\ n \in Position
    BY DEF Holds, TypeOK, ReceiverTypeOK
  <1>2. CASE n + 1 > USART_REC_LEN - 1
    <2>1. count' = 0
      BY <1>1, <1>2 DEF StoreByte
    <2> QED
      BY <1>2, <2>1, HoldsNothing
  <1>3. CASE ~ (n + 1 > USART_REC_LEN - 1)
    <2>1. count' = n + 1
      BY <1>1, <1>3 DEF StoreByte
    <2>2. Len(Append(s, b)) = n + 1
      OBVIOUS
    <2>3. ASSUME NEW k \in 1 .. n + 1 PROVE USART_RX_BUF'[k - 1] = Append(s, b)[k]
      <3>1. USART_RX_BUF' = [USART_RX_BUF EXCEPT ![n] = b]
        BY <1>1 DEF StoreByte
      <3>2. DOMAIN USART_RX_BUF = Position
        BY DEF TypeOK, ReceiverTypeOK
      <3>3. CASE k = n + 1
        <4>1. k - 1 = n /\ Append(s, b)[k] = b
          BY <1>1, <3>3
        <4> QED
          BY <1>1, <3>1, <3>2, <4>1
      <3>4. CASE k # n + 1
        <4>1. k \in 1 .. n /\ k - 1 # n
          BY <1>1, <3>4
        <4>2. k - 1 \in Position
          BY <1>1, <4>1, UartAssumption DEF Position
        <4>3. Append(s, b)[k] = s[k] /\ USART_RX_BUF[k - 1] = s[k]
          BY <4>1 DEF Holds
        <4> QED
          BY <3>1, <3>2, <4>1, <4>2, <4>3
      <3> QED
        BY <3>3, <3>4
    <2>4. Holds(Append(s, b))'
      BY <2>1, <2>2, <2>3 DEF Holds
    <2> QED
      BY <1>3, <2>4
  <1> QED
    BY <1>2, <1>3

\* After the handler has looked at it, the buffer holds the line with the byte.
LEMMA HandlerHolds ==
    ASSUME TypeOK, NEW s \in Seq(Byte), NEW b \in Byte, Holds(s), ~complete, Assemble(b),
           NEW z, z = Continue(s, b)
    PROVE  /\ Holds(z)'
           /\ complete' => gotCR /\ b = LF
  <1>1. CASE gotCR /\ b = LF
    <2>1. count' = count /\ USART_RX_BUF' = USART_RX_BUF
      BY <1>1 DEF Assemble
    <2>2. z = s
      BY <1>1 DEF Continue
    <2> QED
      BY <1>1, <2>1, <2>2, HoldsKept
  <1>2. CASE gotCR /\ b # LF
    <2>1. count' = 0 /\ complete' = FALSE
      BY <1>2 DEF Assemble, Restart
    <2>2. z = <<>>
      BY <1>2 DEF Continue
    <2> QED
      BY <2>1, <2>2, HoldsNothing
  <1>3. CASE ~gotCR /\ b = CR
    <2>1. count' = count /\ USART_RX_BUF' = USART_RX_BUF /\ complete' = complete
      BY <1>3 DEF Assemble
    <2>2. z = s
      BY <1>3 DEF Continue
    <2> QED
      BY <2>1, <2>2, HoldsKept
  <1>4. CASE ~gotCR /\ b # CR
    <2>1. StoreByte(b)
      BY <1>4 DEF Assemble
    <2>2. z = IF Len(s) + 1 > USART_REC_LEN - 1 THEN <<>> ELSE Append(s, b)
      BY <1>4 DEF Continue
    <2>3. complete' = complete
      BY <2>1 DEF StoreByte
    <2> QED
      BY <2>1, <2>2, <2>3, HoldsStored
  <1> QED
    BY <1>1, <1>2, <1>3, <1>4

LEMMA UnderstoodStep == TypeOK /\ Understood /\ [Next]_vars => Understood'
  <1> SUFFICES ASSUME TypeOK, Understood, [Next]_vars, patient', pc' # "overrun"
               PROVE  Understood'
    BY DEF Understood
  <1>0. patient /\ pc # "overrun"
    BY DEF Next, DataProcess_task, Type, USART1_IRQHandler, xSemaphoreTake, ReadLength, Copy,
           CopyOverruns, CommandProcess, RestartLine, EraseLine, vars, taskVars, terminalVars
  <1>n. NoByte \notin Byte
    BY UartAssumption DEF Byte
  <1>1. ASSUME NEW b \in Byte, Type(b) PROVE Understood'
    <2>1. ~complete /\ pc = "take" /\ DR = NoByte /\ DR' = b /\ b # NoByte
      BY <1>0, <1>1, <1>n DEF Type, Arrive
    <2>2. /\ UNCHANGED <<count, gotCR, complete, USART_RX_BUF, BinarySemaphore, pc, len, CommandStr>>
          /\ typed' = Continue(typed, b)
      BY <1>0, <1>1 DEF Type, Arrive, staVars, taskVars
    <2>3. Holds(typed) /\ typed \in Seq(Byte)
      BY <1>0, <2>1 DEF Understood, TypeOK
    <2>4. PICK s \in Seq(Byte) : Holds(s)' /\ typed' = Continue(s, b)
      <3>1. PICK s : s = typed
        OBVIOUS
      <3>2. Holds(s)'
        BY <2>2, <2>3, <3>1, HoldsKept
      <3> QED
        BY <2>2, <2>3, <3>1, <3>2
    <2>5. typed' = Continue(s, DR)'
      BY <2>1, <2>2, <2>4 DEF Continue
    <2>6. \E z \in Seq(Byte) : Holds(z)' /\ typed' = Continue(z, DR)'
      BY <2>4, <2>5
    <2>7. BinarySemaphore = (complete /\ pc = "take")
      BY <1>0 DEF Understood
    <2> QED
      BY <2>1, <2>2, <2>6, <2>7 DEF Understood
  <1>2. CASE USART1_IRQHandler
    <2>1. PICK b \in Byte : b = DR /\ b # NoByte /\ Assemble(b)
      BY <1>2 DEF USART1_IRQHandler, TypeOK, ReceiverTypeOK
    <2>2. ~complete /\ pc = "take" /\ ~BinarySemaphore
      BY <1>0, <2>1 DEF Understood
    <2>3. PICK s \in Seq(Byte) : Holds(s) /\ typed = Continue(s, b)
      BY <1>0, <2>1 DEF Understood
    <2>5. /\ typed' = typed /\ pc' = pc /\ DR' = NoByte
          /\ BinarySemaphore' = (BinarySemaphore \/ complete')
      BY <1>2 DEF USART1_IRQHandler, Give, taskVars, terminalVars
    <2>6. Holds(typed)'
      <3>1. PICK z : z = Continue(s, b) /\ z = typed
        BY <2>3
      <3>2. Holds(z)'
        BY <2>1, <2>2, <2>3, <3>1, HandlerHolds
      <3> QED
        BY <2>5, <3>1, <3>2 DEF Holds
    <2>7. complete' \in BOOLEAN
      BY <2>1, AssembleType DEF TypeOK
    <2> QED
      BY <2>2, <2>5, <2>6, <2>7 DEF Understood
  <1>3. ASSUME pc \in {"length", "copy", "process", "restart", "erase"} \/ complete,
               UNCHANGED <<DR, count, complete, USART_RX_BUF, typed>>
        PROVE  DR = NoByte /\ DR' = NoByte /\ Holds(typed)'
    <2>1. DR = NoByte /\ Holds(typed)
      BY <1>0, <1>3 DEF Understood
    <2> QED
      BY <1>3, <2>1 DEF Holds
  <1>4. CASE xSemaphoreTake
    <2>1. complete /\ UNCHANGED <<DR, count, complete, USART_RX_BUF, typed>>
      BY <1>0, <1>4 DEF xSemaphoreTake, Understood, receiverVars, staVars, terminalVars
    <2> QED
      BY <1>3, <1>4, <2>1 DEF xSemaphoreTake, Understood
  <1>5. CASE ReadLength
    <2>1. /\ pc = "length" /\ complete /\ ~BinarySemaphore
          /\ UNCHANGED <<DR, count, complete, USART_RX_BUF, typed>>
      BY <1>0, <1>5 DEF ReadLength, Understood, receiverVars, staVars, terminalVars
    <2>8. BinarySemaphore' = (complete' /\ pc' = "take")
      BY <1>3, <1>5, <2>1 DEF ReadLength, TypeOK
    <2>9. pc' = "copy" /\ complete' /\ DR' = NoByte /\ Holds(typed)' /\ len' = count'
      BY <1>3, <1>5, <2>1 DEF ReadLength
    <2> QED
      BY <2>8, <2>9 DEF Understood
  <1>6. CASE Copy
    <2>1. /\ pc = "copy" /\ complete /\ ~BinarySemaphore /\ len = count
          /\ UNCHANGED <<DR, count, complete, USART_RX_BUF, typed>>
      BY <1>0, <1>6 DEF Copy, Understood, receiverVars, staVars, terminalVars
    <2>2. Holds(typed) /\ typed \in Seq(Byte) /\ count \in Position
      BY <1>0, <2>1 DEF Understood, TypeOK, ReceiverTypeOK
    <2>3. StringOf(USART_RX_BUF, len) = typed
      BY <2>1, <2>2, StringOfLine DEF Holds
    <2>8. BinarySemaphore' = (complete' /\ pc' = "take")
      BY <1>3, <1>6, <2>1, <2>3 DEF Copy, TypeOK
    <2>9. pc' = "process" /\ complete' /\ DR' = NoByte /\ Holds(typed)' /\ CommandStr' = typed'
      BY <1>3, <1>6, <2>1, <2>3 DEF Copy
    <2> QED
      BY <2>8, <2>9 DEF Understood
  <1>7. CASE CommandProcess
    <2>1. /\ pc = "process" /\ complete /\ ~BinarySemaphore
          /\ UNCHANGED <<DR, count, complete, USART_RX_BUF, typed>>
      BY <1>0, <1>7 DEF CommandProcess, Understood, receiverVars, staVars, terminalVars
    <2>8. BinarySemaphore' = (complete' /\ pc' = "take")
      BY <1>3, <1>7, <2>1 DEF CommandProcess, TypeOK
    <2>9. pc' = "restart" /\ complete' /\ DR' = NoByte /\ Holds(typed)'
      BY <1>3, <1>7, <2>1 DEF CommandProcess
    <2> QED
      BY <2>8, <2>9 DEF Understood
  <1>8. CASE RestartLine
    <2>1. pc = "restart" /\ DR = NoByte /\ ~BinarySemaphore
      BY <1>0, <1>8 DEF RestartLine, Understood
    <2>2. Holds(<<>>)'
      BY <1>8, HoldsNothing DEF RestartLine, Restart
    <2>3. Holds(typed)'
      BY <1>8, <2>2 DEF RestartLine, Holds
    <2> QED
      BY <1>8, <2>1, <2>3 DEF RestartLine, Restart, Understood
  <1>9. CASE EraseLine
    <2>1. /\ pc = "erase" /\ DR = NoByte /\ ~BinarySemaphore /\ ~complete
          /\ typed' = typed /\ count' = count
      BY <1>0, <1>9 DEF EraseLine, Understood, staVars, terminalVars
    <2>2. typed = <<>> /\ count = 0
      BY <1>0, <2>1 DEF Understood, Holds
    <2>3. Holds(typed)'
      BY <2>1, <2>2, HoldsNothing DEF Holds
    <2> QED
      BY <1>9, <2>1, <2>3 DEF EraseLine, Understood, staVars, terminalVars
  <1>10. CASE UNCHANGED vars
    BY <1>10 DEF vars, receiverVars, staVars, taskVars, terminalVars, Understood, Holds, Continue
  <1> QED
    BY <1>1, <1>2, <1>4, <1>5, <1>6, <1>7, <1>8, <1>9, <1>10 DEF Next, DataProcess_task, CopyOverruns

\* The string in a buffer of which the first m places are written has m bytes.
LEMMA WrittenString ==
    ASSUME NEW m, Written(m)
    PROVE  Len(StringOf(USART_RX_BUF, USART_REC_LEN)) = m
  <1>1. USART_REC_LEN \in 0 .. USART_REC_LEN /\ m \in Nat /\ m <= USART_REC_LEN
    BY UartAssumption DEF Written
  <1>2. PICK k : /\ StringSize(USART_RX_BUF, USART_REC_LEN, k)
                 /\ StringOf(USART_RX_BUF, USART_REC_LEN) = [i \in 1 .. k |-> USART_RX_BUF[i - 1]]
    BY <1>1, StringIs
  <1>3. k \in Nat /\ k <= USART_REC_LEN
    BY <1>2, UartAssumption DEF StringSize
  <1>4. k = m
    <2>1. CASE k < m
      <3>1. k \in Position /\ USART_RX_BUF[k] # Nul
        BY <1>1, <1>3, <2>1 DEF Written, Position
      <3> QED
        BY <1>1, <1>2, <1>3, <2>1, <3>1 DEF StringSize
    <2>2. CASE m < k
      <3>1. m \in Position /\ m \in 0 .. k - 1
        BY <1>1, <1>3, <2>2, UartAssumption DEF Position
      <3>2. USART_RX_BUF[m] = Nul
        BY <1>1, <3>1 DEF Written
      <3> QED
        BY <1>2, <3>1, <3>2 DEF StringSize
    <2> QED
      BY <1>1, <1>3, <2>1, <2>2
  <1> QED
    BY <1>2, <1>3, <1>4

LEMMA CopyFitsWritten ==
    ASSUME NEW m, Written(m), len \in Nat, len <= m
    PROVE  CopyFits <=> m < CommandSize
  <1>1. Len(StringOf(USART_RX_BUF, USART_REC_LEN)) = m
    BY WrittenString
  <1> QED
    BY <1>1, CommandAssumption, UartAssumption DEF CopyFits, Written

\* The handler writes one place more, or one that was written before.
LEMMA WrittenStored ==
    ASSUME TypeOK, NEW b \in Byte, NEW m, Written(m), count <= m, StoreByte(b)
    PROVE  \E z : /\ Written(z)' /\ count' <= z
                  /\ z >= CommandSize <=> m >= CommandSize \/ count + 1 >= CommandSize
  <1>1. /\ m \in Nat /\ m <= USART_REC_LEN /\ count \in Nat /\ count < USART_REC_LEN
        /\ USART_REC_LEN \in Nat /\ CommandSize \in Nat
    BY UartAssumption, CommandAssumption DEF Written, TypeOK, ReceiverTypeOK, Position
  <1>2. /\ USART_RX_BUF' = [USART_RX_BUF EXCEPT ![count] = b]
        /\ count' = IF count + 1 > USART_REC_LEN - 1 THEN 0 ELSE count + 1
        /\ DOMAIN USART_RX_BUF = Position
    BY DEF StoreByte, TypeOK, ReceiverTypeOK
  <1>3. b # Nul
    BY UartAssumption DEF Byte
  <1> DEFINE w == IF count + 1 > m THEN count + 1 ELSE m
  <1>4. /\ w \in 0 .. USART_REC_LEN /\ count' <= w
        /\ w >= CommandSize <=> m >= CommandSize \/ count + 1 >= CommandSize
    BY <1>1, <1>2
  <1>5. ASSUME NEW k \in Position PROVE USART_RX_BUF'[k] = Nul <=> w <= k
    <2>1. CASE k = count
      BY <1>1, <1>2, <1>3, <2>1
    <2>2. CASE k # count
      <3>1. USART_RX_BUF'[k] = USART_RX_BUF[k]
        BY <1>2, <2>2
      <3>2. k \in Nat
        BY UartAssumption DEF Position
      <3>3. w <= k <=> m <= k
        BY <1>1, <2>2, <3>2
      <3> QED
        BY <3>1, <3>3 DEF Written
    <2> QED
      BY <2>1, <2>2
  <1>6. PICK z : z = w
    OBVIOUS
  <1>7. Written(z)'
    BY <1>4, <1>5, <1>6 DEF Written
  <1> QED
    BY <1>4, <1>6, <1>7

LEMMA RecordedStep == TypeOK /\ Understood /\ Recorded /\ [Next]_vars => Recorded'
  <1> SUFFICES ASSUME TypeOK, Understood, Recorded, [Next]_vars, patient'
               PROVE  Recorded'
    BY DEF Recorded
  <1>0. patient
    BY DEF Next, DataProcess_task, Type, USART1_IRQHandler, xSemaphoreTake, ReadLength, Copy,
           CopyOverruns, CommandProcess, RestartLine, EraseLine, vars, taskVars, terminalVars
  <1>n. NoByte \notin Byte
    BY UartAssumption DEF Byte
  <1>a. CASE pc = "overrun"
    BY <1>0, <1>a DEF Next, DataProcess_task, Type, USART1_IRQHandler, xSemaphoreTake, ReadLength,
           Copy, CopyOverruns, CommandProcess, RestartLine, EraseLine, vars, taskVars, terminalVars,
           Recorded
  <1> SUFFICES ASSUME pc # "overrun" PROVE Recorded'
    BY <1>a
  <1>1. ASSUME NEW b \in Byte, Type(b) PROVE Recorded'
    <2>1. /\ pc = "take" /\ pc' = "take" /\ DR = NoByte /\ DR' = b /\ b # NoByte
          /\ UNCHANGED <<count, gotCR, USART_RX_BUF>>
          /\ overlong' = (overlong \/ Fills(typed, b))
      BY <1>0, <1>1, <1>n DEF Type, Arrive, staVars, taskVars
    <2>2. PICK m : Written(m) /\ count <= m /\ overlong = (m >= CommandSize \/ Coming)
      BY <1>0, <2>1 DEF Recorded
    <2>3. Len(typed) = count
      BY <1>0, <2>1 DEF Understood, Holds
    <2>4. Coming' = Fills(typed, b) /\ ~Coming
      BY <2>1, <2>3 DEF Coming, Fills
    <2>5. Written(m)' /\ count' <= m /\ overlong' = (m >= CommandSize \/ Coming')
      BY <2>1, <2>2, <2>4 DEF Written
    <2> QED
      BY <2>1, <2>5 DEF Recorded
  <1>2. CASE USART1_IRQHandler
    <2>1. PICK b \in Byte : b = DR /\ b # NoByte /\ Assemble(b)
      BY <1>2 DEF USART1_IRQHandler, TypeOK, ReceiverTypeOK
    <2>2. ~complete /\ pc = "take"
      BY <1>0, <2>1 DEF Understood
    <2>3. /\ pc' = pc /\ DR' = NoByte /\ overlong' = overlong
      BY <1>2 DEF USART1_IRQHandler, taskVars, terminalVars
    <2>4. PICK m : Written(m) /\ count <= m /\ overlong = (m >= CommandSize \/ Coming)
      BY <1>0, <2>2 DEF Recorded
    <2>5. ~Coming'
      BY <2>3 DEF Coming
    <2>6. \E w : Written(w)' /\ count' <= w /\ (overlong <=> w >= CommandSize)
      <3>1. CASE ~gotCR /\ b # CR
        <4>1. StoreByte(b) /\ (Coming <=> count + 1 >= CommandSize)
          BY <2>1, <2>2, <3>1 DEF Assemble, Coming
        <4> QED
          BY <2>4, <4>1, WrittenStored
      <3>2. CASE gotCR \/ b = CR
        <4>1. ~Coming /\ USART_RX_BUF' = USART_RX_BUF /\ (count' = count \/ count' = 0)
          BY <2>1, <2>2, <3>2 DEF Assemble, Restart, Coming, staVars
        <4>2. Written(m)'
          BY <2>4, <4>1 DEF Written
        <4>3. count' <= m
          BY <2>4, <4>1, UartAssumption DEF Written
        <4> QED
          BY <2>4, <4>1, <4>2, <4>3
      <3> QED
        BY <3>1, <3>2
    <2>7. overlong \in BOOLEAN
      BY DEF TypeOK
    <2> QED
      BY <2>2, <2>3, <2>5, <2>6, <2>7 DEF Recorded
  <1>3. ASSUME pc \notin {"erase", "overrun"},
               UNCHANGED <<receiverVars, overlong>>
        PROVE  \E m : /\ Written(m)' /\ count' <= m
                      /\ overlong' = (m >= CommandSize \/ Coming')
    <2>1. PICK m : Written(m) /\ count <= m /\ overlong = (m >= CommandSize \/ Coming)
      BY <1>0, <1>3 DEF Recorded
    <2>2. Written(m)' /\ (Coming' <=> Coming) /\ count' = count /\ overlong' = overlong
      BY <1>3, <2>1 DEF Written, Coming, receiverVars, staVars
    <2> QED
      BY <2>1, <2>2
  <1>4. CASE xSemaphoreTake
    BY <1>3, <1>4 DEF xSemaphoreTake, terminalVars, Recorded
  <1>5. CASE ReadLength
    BY <1>3, <1>5 DEF ReadLength, terminalVars, Recorded
  <1>6. CASE Copy \/ CopyOverruns
    <2>1. /\ pc = "copy" /\ DR = NoByte /\ len = count
          /\ UNCHANGED <<receiverVars, overlong>>
      BY <1>0, <1>6 DEF Copy, CopyOverruns, Understood, terminalVars
    <2>2. PICK m : Written(m) /\ count <= m /\ overlong = (m >= CommandSize \/ Coming)
      BY <1>0, <2>1 DEF Recorded
    <2>3. ~Coming
      BY <2>1 DEF Coming
    <2>4. len \in Nat
      BY UartAssumption DEF TypeOK, Position
    <2>5. CopyFits <=> m < CommandSize
      BY <2>1, <2>2, <2>4, CopyFitsWritten
    <2>6. m < CommandSize <=> ~(m >= CommandSize)
      BY <2>2, UartAssumption, CommandAssumption DEF Written
    <2>7. CopyFits <=> ~overlong
      BY <2>2, <2>3, <2>5, <2>6
    <2> QED
      BY <1>3, <1>6, <2>1, <2>7 DEF Copy, CopyOverruns, Recorded
  <1>7. CASE CommandProcess
    BY <1>3, <1>7 DEF CommandProcess, terminalVars, Recorded
  <1>8. CASE RestartLine
    BY <1>8 DEF RestartLine, Recorded
  <1>9. CASE EraseLine
    <2>1. /\ pc = "erase" /\ pc' = "take" /\ DR = NoByte /\ DR' = NoByte
          /\ count' = count /\ overlong' = overlong /\ USART_RX_BUF' = Cleared
      BY <1>0, <1>9 DEF EraseLine, Understood, staVars, terminalVars
    <2>2. Written(0)'
      BY <2>1, UartAssumption DEF Written, Cleared, Position
    <2>3. count = 0
      BY <1>0, <2>1 DEF Understood, Holds
    <2>4. ~overlong
      BY <1>0, <2>1 DEF Recorded
    <2>5. overlong' = (0 >= CommandSize \/ Coming')
      BY <2>1, <2>4, CommandAssumption, UartAssumption DEF Coming, TypeOK
    <2> QED
      BY <2>1, <2>2, <2>3, <2>5 DEF Recorded
  <1>10. CASE UNCHANGED vars
    BY <1>3, <1>10, <1>0 DEF vars, taskVars, terminalVars, Recorded
  <1> QED
    BY <1>1, <1>2, <1>4, <1>5, <1>6, <1>7, <1>8, <1>9, <1>10 DEF Next, DataProcess_task

\* With a terminal that waits, the command carried out is the line it typed, and
\* the copy runs over CommandStr exactly when a line typed since the last answer,
\* the last one or one before it that was broken off or overran, had no room there.
THEOREM CommandIsTyped == Spec => []CommandIsLine
  <1>1. Init => Understood
    <2> SUFFICES ASSUME Init PROVE Understood
      OBVIOUS
    <2>1. Holds(typed)
      BY DEF Init, ReceiverInit, Holds
    <2> QED
      BY <2>1 DEF Init, ReceiverInit, Understood
  <1>2. Init => Recorded
    <2> SUFFICES ASSUME Init PROVE Recorded
      OBVIOUS
    <2>1. Written(0)
      BY UartAssumption DEF Init, ReceiverInit, Written, Cleared, Position
    <2>2. overlong = (0 >= CommandSize \/ Coming)
      <3>1. ~Coming /\ overlong = FALSE
        BY DEF Init, ReceiverInit, Coming
      <3>2. ~(0 >= CommandSize)
        BY CommandAssumption, UartAssumption
      <3> QED
        BY <3>1, <3>2
    <2> QED
      BY <2>1, <2>2 DEF Init, ReceiverInit, Recorded
  <1>3. Understood /\ Recorded => CommandIsLine
    BY DEF Understood, Recorded, CommandIsLine
  <1> QED
    BY <1>1, <1>2, <1>3, UnderstoodStep, RecordedStep, TypeCorrect, PTL DEF Spec
=============================================================================
