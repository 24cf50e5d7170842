------------------------------ MODULE ByteStore ------------------------------
(***************************************************************************)
(* What SPI_Flash_Write promises: the bytes of the text arrive in order,    *)
(* some at a time, and no other byte changes.  If the power fails, one      *)
(* sector at most, the one being written, is left with unknown contents.    *)
(***************************************************************************)
EXTENDS Integers, Sequences

CONSTANTS Byte, Erased, SectorSize, Sectors, Text

VARIABLES
    cells,   \* the stored bytes
    at,      \* where the rest of the text goes
    rest,    \* the bytes of the text that are not stored yet
    busy     \* a write is in progress

vars == <<cells, at, rest, busy>>

Addr == 0 .. Sectors * SectorSize - 1

Init ==
    /\ cells = [a \in Addr |-> Erased]
    /\ at = 0 /\ rest = <<>> /\ busy = FALSE

Begin ==
    /\ ~busy /\ busy'
    /\ \E a \in Addr, s \in Text :
          /\ a + Len(s) <= Sectors * SectorSize
          /\ at' = a /\ rest' = s
    /\ UNCHANGED cells

Store(n) ==
    /\ busy
    /\ cells' = [a \in Addr |-> IF a \in at .. at + n - 1 THEN rest[a - at + 1] ELSE cells[a]]
    /\ at' = at + n
    /\ rest' = SubSeq(rest, n + 1, Len(rest))
    /\ UNCHANGED busy

End ==
    /\ busy /\ rest = <<>> /\ ~busy'
    /\ UNCHANGED <<cells, at, rest>>

PowerLoss ==
    /\ busy /\ ~busy'
    /\ cells' \in [Addr -> Byte]
    /\ \E s \in 0 .. Sectors - 1 :
          \A a \in Addr : a \div SectorSize # s => cells'[a] = cells[a]
    /\ at' = 0 /\ rest' = <<>>

Next == Begin \/ (\E n \in 0 .. Len(rest) : Store(n)) \/ End \/ PowerLoss

Spec == Init /\ [][Next]_vars
=============================================================================
