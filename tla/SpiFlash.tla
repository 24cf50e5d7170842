------------------------------ MODULE SpiFlash ------------------------------
(***************************************************************************)
(* Project/W25X16/HARDWARE/FLASH/flash.c: writing any bytes anywhere on a   *)
(* NOR flash chip that can only clear bits in a page and set them in a      *)
(* whole sector, and the loop of Project/W25X16/User/main.c that uses it.   *)
(*                                                                          *)
(* The processor waits for the chip after every command, so one command of  *)
(* the chip is one action; power may fail between two of them and in the    *)
(* middle of one.  A reset of the processor alone is the case in which the  *)
(* chip finishes what it was doing.                                         *)
(***************************************************************************)
EXTENDS Integers, Sequences

CONSTANTS
    Byte,        \* what a cell of the chip can hold
    Erased,      \* 0xFF
    And(_, _),   \* what programming a byte onto a cell leaves there
    PageSize,    \* 256
    SectorSize,  \* 4096
    Sectors,     \* 512 on a W25X16
    Text,        \* the byte strings that are written
    ChipID       \* what the chip answers to the command 0x90

ASSUME FlashAssumption ==
    /\ Erased \in Byte
    /\ \A b, c \in Byte : And(b, c) \in Byte
    /\ \A b \in Byte : And(Erased, b) = b
    /\ PageSize \in Nat \ {0} /\ SectorSize \in Nat \ {0}
    /\ SectorSize % PageSize = 0
    /\ Sectors \in Nat \ {0}
    /\ Text \subseteq Seq(Byte)

VARIABLES
    mem,             \* the cells of the chip
    SPI_FLASH_BUF,   \* the copy of one sector
    pc,              \* the command about to be given to the chip
    WriteAddr,       \* where the rest of the text goes
    text,            \* the rest of the text: what pBuffer still points to
    secremain,       \* how much of it goes to the present sector
    pageAt, data,    \* what SPI_Flash_Write_NoCheck still has to write, and where
    pageremain       \* how much of that goes to the present page

callVars == <<WriteAddr, text, secremain>>
pageVars == <<pageAt, data, pageremain>>
vars == <<mem, SPI_FLASH_BUF, pc, callVars, pageVars>>

FLASH_ID == 61206   \* 0xEF16

Addr == 0 .. Sectors * SectorSize - 1
Offset == 0 .. SectorSize - 1

TypeOK ==
    /\ mem \in [Addr -> Byte]
    /\ SPI_FLASH_BUF \in [Offset -> Byte]
    /\ pc \in {"identify", "idle", "read", "erase", "program"}
    /\ WriteAddr \in Nat
    /\ text \in Seq(Byte)
    /\ secremain \in 0 .. SectorSize
    /\ pageAt \in Nat
    /\ data \in Seq(Byte)
    /\ pageremain \in 0 .. PageSize

-----------------------------------------------------------------------------
(* The chip. *)

SectorOf(a) == {b \in Addr : b \div SectorSize = a \div SectorSize}

\* Programming bytes from address a on: the address counter wraps inside the
\* page, and of two bytes for one cell the later one is kept.
Programmed(m, a, bytes) ==
    LET base    == a - (a % PageSize)
        target  == [i \in DOMAIN bytes |-> base + (((a % PageSize) + i - 1) % PageSize)]
        last(c) == CHOOSE i \in DOMAIN bytes :
                       /\ target[i] = c
                       /\ \A j \in DOMAIN bytes : target[j] = c => j <= i
    IN  [c \in Addr |-> IF \E i \in DOMAIN bytes : target[i] = c
                        THEN And(m[c], bytes[last(c)])
                        ELSE m[c]]

ErasedSector(m, a) == [b \in Addr |-> IF b \in SectorOf(a) THEN Erased ELSE m[b]]

\* What a command leaves when the power fails before it is complete.
Interrupted(m, after) == {[c \in Addr |-> IF c \in C THEN after[c] ELSE m[c]] :
                             C \in SUBSET {c \in Addr : m[c] # after[c]}}

-----------------------------------------------------------------------------
(* The driver. *)

\* Mutant: no limit.
AtMostAny(n, limit) == n

AtMost(n, limit) == IF n <= limit THEN n ELSE limit

\* Mutant: the offset in the sector is forgotten.
SectorRemainWhole(a, n) == AtMost(n, SectorSize)

\* How much of a write at a fits into the sector.
SectorRemain(a, n) == AtMost(n, SectorSize - (a % SectorSize))

\* How much of a write at a fits into the page.
PageRemain(a, n) == AtMost(n, PageSize - (a % PageSize))

\* SPI_Flash_Write_NoCheck is entered.
StartProgramming(a, bytes) ==
    /\ pc' = "program"
    /\ pageAt' = a
    /\ data' = bytes
    /\ pageremain' = PageRemain(a, Len(bytes))

\* Powered up: main goes on once the chip has answered with its identity.
Identify ==
    /\ pc = "identify"
    /\ ChipID = FLASH_ID
    /\ pc' = "idle"
    /\ UNCHANGED <<mem, SPI_FLASH_BUF, callVars, pageVars>>

\* SPI_Flash_Write is called.
Call(a, s) ==
    /\ pc = "idle"
    /\ a + Len(s) <= Sectors * SectorSize
    /\ pc' = "read"
    /\ WriteAddr' = a
    /\ text' = s
    /\ secremain' = SectorRemain(a, Len(s))
    /\ UNCHANGED <<mem, SPI_FLASH_BUF, pageVars>>

\* Mutant: one byte too few is examined.
NeedsEraseOffByOne(a, n) == \E i \in 0 .. n - 2 : mem[a + i] # Erased

\* Some byte to be written is not erased.
NeedsErase(a, n) == \E i \in 0 .. n - 1 : mem[a + i] # Erased

\* The sector is read and examined.
ReadSector ==
    /\ pc = "read"
    /\ SPI_FLASH_BUF' = [o \in Offset |-> mem[(WriteAddr \div SectorSize) * SectorSize + o]]
    /\ IF NeedsErase(WriteAddr, secremain)
       THEN pc' = "erase" /\ UNCHANGED pageVars
       ELSE StartProgramming(WriteAddr, SubSeq(text, 1, secremain))
    /\ UNCHANGED <<mem, callVars>>

\* Mutant: the rest of the sector is not kept.
UpdatedForgetful(buf, from, bytes) ==
    [o \in Offset |-> IF o \in from .. from + Len(bytes) - 1 THEN bytes[o - from + 1] ELSE Erased]

\* The copy of the sector with the new bytes in it.
Updated(buf, from, bytes) ==
    [o \in Offset |-> IF o \in from .. from + Len(bytes) - 1 THEN bytes[o - from + 1] ELSE buf[o]]

\* The sector is erased, and its updated copy is going to be written back.
EraseSector ==
    /\ pc = "erase"
    /\ mem' = ErasedSector(mem, WriteAddr)
    /\ SPI_FLASH_BUF' =
          Updated(SPI_FLASH_BUF, WriteAddr % SectorSize, SubSeq(text, 1, secremain))
    /\ StartProgramming((WriteAddr \div SectorSize) * SectorSize,
                        [i \in 1 .. SectorSize |-> SPI_FLASH_BUF'[i - 1]])
    /\ UNCHANGED callVars

\* SPI_Flash_Write_NoCheck has returned: on to the next sector, or the end.
NextSector ==
    /\ WriteAddr' = WriteAddr + secremain
    /\ text' = SubSeq(text, secremain + 1, Len(text))
    /\ secremain' = AtMost(Len(text) - secremain, SectorSize)
    /\ pc' = IF Len(text) = secremain THEN "idle" ELSE "read"

\* One page is programmed.
ProgramPage ==
    /\ pc = "program"
    /\ mem' = Programmed(mem, pageAt, SubSeq(data, 1, pageremain))
    /\ pageAt' = pageAt + pageremain
    /\ data' = SubSeq(data, pageremain + 1, Len(data))
    /\ pageremain' = AtMost(Len(data) - pageremain, PageSize)
    /\ IF Len(data) = pageremain THEN NextSector ELSE UNCHANGED <<pc, callVars>>
    /\ UNCHANGED SPI_FLASH_BUF

\* Power fails during a call; the processor starts again with empty memory.
PowerLoss ==
    /\ pc \in {"read", "erase", "program"}
    /\ mem' \in CASE pc = "read"    -> {mem}
                  [] pc = "erase"   -> Interrupted(mem, ErasedSector(mem, WriteAddr))
                  [] pc = "program" ->
                         Interrupted(mem, Programmed(mem, pageAt, SubSeq(data, 1, pageremain)))
    /\ pc' = "identify"
    /\ SPI_FLASH_BUF' = [o \in Offset |-> Erased]
    /\ WriteAddr' = 0 /\ text' = <<>> /\ secremain' = 0
    /\ pageAt' = 0 /\ data' = <<>> /\ pageremain' = 0

Init ==
    /\ mem = [a \in Addr |-> Erased]
    /\ pc = "identify"
    /\ SPI_FLASH_BUF = [o \in Offset |-> Erased]
    /\ WriteAddr = 0 /\ text = <<>> /\ secremain = 0
    /\ pageAt = 0 /\ data = <<>> /\ pageremain = 0

Next ==
    \/ Identify
    \/ \E a \in Addr, s \in Text : Call(a, s)
    \/ ReadSector \/ EraseSector \/ ProgramPage
    \/ PowerLoss

Spec == Init /\ [][Next]_vars

FairSpec == Spec /\ WF_vars(Identify)

-----------------------------------------------------------------------------
(* Properties. *)

\* The conditions that the comments on SPI_Flash_Write_Page and
\* SPI_Flash_Write_NoCheck put on their callers: the bytes fit into the rest of
\* the page, and all the cells still to be written are erased.
CallersKeepConditions ==
    pc = "program" =>
        /\ (pageAt % PageSize) + pageremain <= PageSize
        /\ \A i \in 1 .. Len(data) : mem[pageAt + i - 1] = Erased

\* A sector in which no byte of the text goes is never disturbed, whenever the
\* power fails.
OtherSectorsKept ==
    [][\A a \in Addr : mem'[a] # mem[a] =>
          a \div SectorSize = WriteAddr \div SectorSize /\ secremain > 0]_vars

\* While a page is being programmed the cells hold the final contents except
\* where bytes are still to be written.
Eventual ==
    IF pc = "program"
    THEN [a \in Addr |-> IF a \in pageAt .. pageAt + Len(data) - 1
                         THEN data[a - pageAt + 1] ELSE mem[a]]
    ELSE mem

\* The chip and its driver implement a store of bytes that are written in order,
\* in which a power failure spoils one sector at most.
Store == INSTANCE ByteStore WITH
    cells <- Eventual,
    at <- IF pc = "program" THEN WriteAddr + secremain ELSE WriteAddr,
    rest <- IF pc = "program" THEN SubSeq(text, secremain + 1, Len(text)) ELSE text,
    busy <- pc \notin {"identify", "idle"}

ImplementsByteStore == Store!Spec

\* The chip the driver is written for, whose identity the comment at
\* flash.c:42 gives, gets past the check main makes.
DocumentedChipStarts == <>(pc # "identify")
=============================================================================
