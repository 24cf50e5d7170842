--------------------------- MODULE SpiFlashProofs ---------------------------
(***************************************************************************)
(* Theorems of SpiFlash, for every size of pages, sectors and chip, every   *)
(* set of bytes and every set of texts.                                     *)
(***************************************************************************)
EXTENDS SpiFlash, SequenceTheorems, TLAPS

-----------------------------------------------------------------------------
(* Units of d cells: the page or the sector an address is in.               *)

LEMMA DivMod ==
    ASSUME NEW a \in Int, NEW d \in Nat \ {0}
    PROVE  /\ a \div d \in Int /\ a % d \in 0 .. d - 1
           /\ a = (a \div d) * d + (a % d)
  OBVIOUS

LEMMA DivModOf ==
    ASSUME NEW q \in Int, NEW d \in Nat \ {0}, NEW r \in 0 .. d - 1
    PROVE  (q * d + r) \div d = q /\ (q * d + r) % d = r
  <1>1. (q * d + r) \div d = q
    BY SMTT(30)
  <1>2. (q * d + r) % d = r
    BY SMTT(30)
  <1> QED
    BY <1>1, <1>2

\* k cells on, still in the unit of a.
LEMMA SameUnit ==
    ASSUME NEW a \in Nat, NEW d \in Nat \ {0}, NEW k \in Int, (a % d) + k \in 0 .. d - 1
    PROVE  (a + k) \div d = a \div d /\ (a + k) % d = (a % d) + k
  <1> DEFINE q == a \div d
             r == (a % d) + k
  <1>1. q \in Int /\ a % d \in Int /\ a = q * d + (a % d)
    BY DivMod
  <1>2. q * d \in Int
    BY <1>1
  <1>3. a + k = q * d + r
    BY <1>1, <1>2
  <1>4. (q * d + r) \div d = q /\ (q * d + r) % d = r
    <2> HIDE DEF q, r
    <2>1. q \in Int /\ r \in 0 .. d - 1
      BY <1>1 DEF r
    <2> QED
      BY <2>1, DivModOf
  <1> QED
    BY <1>3, <1>4

\* The first cell of the next unit.
LEMMA NextUnit ==
    ASSUME NEW a \in Nat, NEW d \in Nat \ {0}, NEW k \in Nat, (a % d) + k = d
    PROVE  (a + k) % d = 0
  <1> DEFINE q == a \div d
             r == a % d
  <1>1. q \in Int /\ r \in 0 .. d - 1 /\ a = q * d + r /\ r + k = d
    BY DivMod
  <1> HIDE DEF q, r
  <1>2. a + k = (q + 1) * d + 0
    BY <1>1
  <1>3. q + 1 \in Int /\ 0 \in 0 .. d - 1
    BY <1>1
  <1>4. ((q + 1) * d + 0) % d = 0
    BY <1>3, DivModOf
  <1> QED
    BY <1>2, <1>4

\* A unit is an interval, which begins at a multiple of d.
LEMMA UnitIs ==
    ASSUME NEW a \in Nat, NEW d \in Nat \ {0}
    PROVE  \E b \in Nat :
             /\ b = (a \div d) * d /\ b % d = 0
             /\ a = b + (a % d) /\ a \in b .. b + d - 1
             /\ \A c \in Int : c \div d = a \div d <=> c \in b .. b + d - 1
  <1>1. PICK q \in Int, r \in 0 .. d - 1 : a = q * d + r /\ r = a % d /\ q = a \div d
    BY DivMod
  <1>2. q \in Nat
    BY <1>1
  <1>3. PICK b \in Nat : b = q * d
    BY <1>2
  <1>4. b % d = 0
    <2>1. b = q * d + 0 /\ 0 \in 0 .. d - 1
      BY <1>3
    <2> QED
      BY <1>1, <2>1, DivModOf
  <1>5. a = b + (a % d) /\ a \in b .. b + d - 1
    BY <1>1, <1>3
  <1>6. ASSUME NEW c \in Int PROVE c \div d = q <=> c \in b .. b + d - 1
    <2>1. ASSUME c \div d = q PROVE c \in b .. b + d - 1
      <3>1. PICK s \in 0 .. d - 1 : c = (c \div d) * d + s
        BY DivMod
      <3>2. c = b + s
        BY <1>3, <2>1, <3>1
      <3> QED
        BY <3>2
    <2>2. ASSUME c \in b .. b + d - 1 PROVE c \div d = q
      <3>1. PICK s \in 0 .. d - 1 : c = b + s
        <4>1. c - b \in 0 .. d - 1 /\ c = b + (c - b)
          BY <2>2
        <4> QED
          BY <4>1
      <3>2. c = q * d + s
        BY <1>3, <3>1
      <3>3. (q * d + s) \div d = q
        BY <1>1, DivModOf
      <3> QED
        BY <3>2, <3>3
    <2> QED
      BY <2>1, <2>2
  <1> QED
    BY <1>1, <1>3, <1>4, <1>5, <1>6

Size == Sectors * SectorSize

LEMMA AddrIs == Size \in Nat \ {0} /\ Addr = 0 .. Size - 1
  <1>1. Sectors * SectorSize \in Nat \ {0}
    <2>1. \A x, y \in Nat \ {0} : x * y \in Nat \ {0}
      OBVIOUS
    <2> QED
      BY <2>1, FlashAssumption
  <1> QED
    BY <1>1 DEF Size, Addr

\* The chip is made of whole sectors.
LEMMA SectorInside ==
    ASSUME NEW a \in Addr
    PROVE  /\ a \div SectorSize \in 0 .. Sectors - 1
           /\ (a \div SectorSize) * SectorSize + SectorSize <= Size
  <1>1. a \in Nat /\ a < Size /\ SectorSize \in Nat \ {0} /\ Sectors \in Nat \ {0}
    BY AddrIs, FlashAssumption
  <1>2. PICK q \in Int, r \in 0 .. SectorSize - 1 :
            a = q * SectorSize + r /\ q = a \div SectorSize
    <2>1. a \in Int
      BY <1>1
    <2> QED
      BY <1>1, <2>1, DivMod
  <1>3. q < Sectors
    <2> SUFFICES ASSUME q >= Sectors PROVE FALSE
      BY <1>1, <1>2
    <2>1. q * SectorSize >= Sectors * SectorSize
      BY <1>1, <1>2
    <2> QED
      BY <1>1, <1>2, <2>1 DEF Size
  <1>4. q >= 0
    BY <1>1, <1>2
  <1>5. q * SectorSize + SectorSize <= Sectors * SectorSize
    <2>1. q * SectorSize + SectorSize = (q + 1) * SectorSize /\ q + 1 <= Sectors
      BY <1>1, <1>2, <1>3
    <2> QED
      BY <1>1, <1>2, <2>1
  <1> QED
    BY <1>1, <1>2, <1>3, <1>4, <1>5 DEF Size
-----------------------------------------------------------------------------
(* What fits into the rest of a unit. *)

\* Of n cells from a on k are in its unit, and from there on, if there are any
\* left, as many as fit into a whole one.
Fits(a, n, d, k) ==
    /\ k = AtMost(n, d - (a % d))
    /\ k <= n /\ (a % d) + k <= d
    /\ n > 0 => k > 0
    /\ k < n => AtMost(n - k, d) = AtMost(n - k, d - ((a + k) % d))
    /\ k = n => AtMost(n - k, d) = 0

LEMMA Remains ==
    ASSUME NEW a \in Nat, NEW n \in Nat, NEW d \in Nat \ {0}
    PROVE  \E k \in 0 .. d : Fits(a, n, d, k)
  <1>1. PICK r \in 0 .. d - 1 : r = a % d
    BY DivMod
  <1>2. PICK k \in 0 .. d : k = AtMost(n, d - r)
    BY DEF AtMost
  <1>3. k <= n /\ r + k <= d /\ (n > 0 => k > 0) /\ (k < n => r + k = d)
    BY <1>1, <1>2 DEF AtMost
  <1>4. k < n => AtMost(n - k, d) = AtMost(n - k, d - ((a + k) % d))
    <2> SUFFICES ASSUME k < n PROVE (a + k) % d = 0
      BY DEF AtMost
    <2>1. k \in Nat /\ (a % d) + k = d
      BY <1>1, <1>2, <1>3
    <2> QED
      BY <2>1, NextUnit
  <1>5. k = n => AtMost(n - k, d) = 0
    BY DEF AtMost
  <1> QED
    BY <1>1, <1>2, <1>3, <1>4, <1>5 DEF Fits

-----------------------------------------------------------------------------
(* The chip. *)

\* A page program whose bytes fit into the rest of the page does not wrap.
LEMMA ProgrammedInPage ==
    ASSUME NEW m, NEW a \in Nat, NEW bytes \in Seq(Byte), (a % PageSize) + Len(bytes) <= PageSize
    PROVE  Programmed(m, a, bytes) =
               [c \in Addr |-> IF c \in a .. a + Len(bytes) - 1
                               THEN And(m[c], bytes[c - a + 1]) ELSE m[c]]
  <1> DEFINE n       == Len(bytes)
             base    == a - (a % PageSize)
             target  == [i \in DOMAIN bytes |-> base + (((a % PageSize) + i - 1) % PageSize)]
             last(c) == CHOOSE i \in DOMAIN bytes :
                            /\ target[i] = c
                            /\ \A j \in DOMAIN bytes : target[j] = c => j <= i
             F       == [c \in Addr |-> IF \E i \in DOMAIN bytes : target[i] = c
                                        THEN And(m[c], bytes[last(c)]) ELSE m[c]]
  <1>1. n \in Nat /\ DOMAIN bytes = 1 .. n /\ PageSize \in Nat \ {0} /\ Addr \subseteq Int
    BY FlashAssumption, AddrIs
  <1>2. ASSUME NEW i \in 1 .. n PROVE target[i] = a + i - 1
    <2>1. PICK r \in 0 .. PageSize - 1 : r = a % PageSize /\ r + n <= PageSize
      <3>1. a % PageSize \in 0 .. PageSize - 1
        BY <1>1, DivMod
      <3> QED
        BY <3>1
    <2>2. PICK k \in 0 .. PageSize - 1 : k = r + i - 1
      BY <1>1, <2>1
    <2>3. k % PageSize = k
      BY <1>1
    <2>4. target[i] = (a - r) + k
      BY <1>1, <2>1, <2>2, <2>3
    <2> QED
      BY <2>1, <2>2, <2>4
  <1>3. Programmed(m, a, bytes) = F
    BY DEF Programmed
  <1> HIDE DEF target, n
  <1>4. ASSUME NEW c \in Addr
        PROVE  F[c] = IF c \in a .. a + n - 1 THEN And(m[c], bytes[c - a + 1]) ELSE m[c]
    <2>1. CASE c \in a .. a + n - 1
      <3>1. PICK k \in 1 .. n : k = c - a + 1 /\ c = a + k - 1
        <4>1. c - a + 1 \in 1 .. n /\ c = a + (c - a + 1) - 1
          BY <1>1, <2>1
        <4> QED
          BY <4>1
      <3>2. \A i \in 1 .. n : target[i] = c <=> i = k
        BY <1>1, <1>2, <3>1
      <3>3. last(c) = k
        BY <1>1, <3>2
      <3> QED
        BY <1>1, <2>1, <3>1, <3>2, <3>3
    <2>2. CASE c \notin a .. a + n - 1
      <3>1. \A i \in 1 .. n : target[i] # c
        BY <1>1, <1>2, <2>2
      <3> QED
        BY <1>1, <2>2, <3>1
    <2> QED
      BY <2>1, <2>2
  <1> QED
    BY <1>3, <1>4 DEF n

LEMMA InterruptedIs ==
    ASSUME NEW m \in [Addr -> Byte], NEW after \in [Addr -> Byte],
           NEW x \in Interrupted(m, after)
    PROVE  /\ x \in [Addr -> Byte]
           /\ \A c \in Addr : x[c] = m[c] \/ x[c] = after[c]
  <1>1. PICK C : x = [c \in Addr |-> IF c \in C THEN after[c] ELSE m[c]]
    BY DEF Interrupted
  <1> QED
    BY <1>1

LEMMA ErasedSectorIs ==
    ASSUME NEW m \in [Addr -> Byte], NEW a
    PROVE  /\ ErasedSector(m, a) \in [Addr -> Byte]
           /\ \A c \in Addr : ErasedSector(m, a)[c] =
                  IF c \div SectorSize = a \div SectorSize THEN Erased ELSE m[c]
  BY FlashAssumption DEF ErasedSector, SectorOf

-----------------------------------------------------------------------------
(* The inductive invariant. *)

Busy == pc \in {"read", "erase", "program"}

\* The rest of the text lies on the chip, and what goes to the present sector is
\* what fits into it.
CallInv ==
    Busy => /\ WriteAddr \in Addr /\ WriteAddr + Len(text) <= Size
            /\ secremain = SectorRemain(WriteAddr, Len(text))

\* Before the sector is erased the driver holds a copy of it.
EraseInv ==
    pc = "erase" =>
        /\ secremain > 0
        /\ \A o \in Offset : SPI_FLASH_BUF[o] = mem[(WriteAddr \div SectorSize) * SectorSize + o]

\* What is still to be programmed lies in the present sector, and is erased.
ProgramInv ==
    pc = "program" =>
        /\ pageAt \div SectorSize = WriteAddr \div SectorSize
        /\ (pageAt % SectorSize) + Len(data) <= SectorSize
        /\ pageremain = PageRemain(pageAt, Len(data))
        /\ Len(data) > 0 => secremain > 0
        /\ \A i \in 1 .. Len(data) : mem[pageAt + i - 1] = Erased

IInv == TypeOK /\ CallInv /\ EraseInv /\ ProgramInv

LEMMA Sizes ==
    /\ PageSize \in Nat \ {0} /\ SectorSize \in Nat \ {0}
    /\ Size \in Nat \ {0} /\ Addr = 0 .. Size - 1
    /\ Addr \subseteq Nat /\ Offset = 0 .. SectorSize - 1
  BY FlashAssumption, AddrIs DEF Offset

\* Where in its sector an address is.
LEMMA InSector == ASSUME NEW a \in Nat PROVE a % SectorSize \in 0 .. SectorSize - 1
  <1>1. a \in Int /\ SectorSize \in Nat \ {0}
    BY Sizes
  <1> QED
    BY <1>1, DivMod

\* The sector being written: it begins at b, and k bytes of the text go there.
LEMMA SectorOfCall ==
    ASSUME TypeOK, CallInv, Busy
    PROVE  \E b \in Nat, k \in 0 .. SectorSize :
             /\ b = (WriteAddr \div SectorSize) * SectorSize /\ b % SectorSize = 0
             /\ b + SectorSize <= Size
             /\ WriteAddr = b + (WriteAddr % SectorSize)
             /\ \A c \in Int : c \div SectorSize = WriteAddr \div SectorSize
                                   <=> c \in b .. b + SectorSize - 1
             /\ k = secremain /\ k <= Len(text)
             /\ (WriteAddr % SectorSize) + k <= SectorSize
             /\ Len(text) > 0 => k > 0
             /\ k < Len(text) =>
                   AtMost(Len(text) - k, SectorSize) = SectorRemain(WriteAddr + k, Len(text) - k)
             /\ k = Len(text) => AtMost(Len(text) - k, SectorSize) = 0
  <1>1. WriteAddr \in Addr /\ WriteAddr \in Nat /\ Len(text) \in Nat
    BY Sizes DEF TypeOK, CallInv
  <1>2. PICK b \in Nat :
             /\ b = (WriteAddr \div SectorSize) * SectorSize /\ b % SectorSize = 0
             /\ WriteAddr = b + (WriteAddr % SectorSize)
             /\ \A c \in Int : c \div SectorSize = WriteAddr \div SectorSize
                                   <=> c \in b .. b + SectorSize - 1
    BY <1>1, Sizes, UnitIs
  <1>3. b + SectorSize <= Size
    BY <1>1, <1>2, SectorInside
  <1>4. PICK k \in 0 .. SectorSize : Fits(WriteAddr, Len(text), SectorSize, k)
    BY <1>1, Sizes, Remains
  <1>5. k = secremain
    BY <1>4 DEF CallInv, SectorRemain, Fits
  <1>6. k < Len(text) =>
            AtMost(Len(text) - k, SectorSize) = SectorRemain(WriteAddr + k, Len(text) - k)
    BY <1>4 DEF SectorRemain, Fits
  <1> QED
    BY <1>2, <1>3, <1>4, <1>5, <1>6 DEF Fits

\* The page being programmed: k bytes go there.
LEMMA PageOfCall ==
    ASSUME TypeOK, ProgramInv, pc = "program"
    PROVE  \E k \in 0 .. PageSize :
             /\ k = pageremain /\ k <= Len(data) /\ (pageAt % PageSize) + k <= PageSize
             /\ Len(data) > 0 => k > 0
             /\ k < Len(data) =>
                   AtMost(Len(data) - k, PageSize) = PageRemain(pageAt + k, Len(data) - k)
             /\ k = Len(data) => AtMost(Len(data) - k, PageSize) = 0
  <1>1. pageAt \in Nat /\ Len(data) \in Nat
    BY DEF TypeOK
  <1>2. PICK k \in 0 .. PageSize : Fits(pageAt, Len(data), PageSize, k)
    BY <1>1, Sizes, Remains
  <1>3. k = pageremain
    BY <1>2 DEF ProgramInv, PageRemain, Fits
  <1>4. k < Len(data) =>
            AtMost(Len(data) - k, PageSize) = PageRemain(pageAt + k, Len(data) - k)
    BY <1>2 DEF PageRemain, Fits
  <1> QED
    BY <1>2, <1>3, <1>4 DEF Fits

\* A part of a text is a text.
LEMMA PartOf ==
    ASSUME NEW s \in Seq(Byte), NEW k \in Nat, k <= Len(s)
    PROVE  /\ SubSeq(s, 1, k) \in Seq(Byte) /\ Len(SubSeq(s, 1, k)) = k
           /\ \A i \in 1 .. k : SubSeq(s, 1, k)[i] = s[i]
           /\ SubSeq(s, k + 1, Len(s)) \in Seq(Byte) /\ Len(SubSeq(s, k + 1, Len(s))) = Len(s) - k
           /\ \A i \in 1 .. Len(s) - k : SubSeq(s, k + 1, Len(s))[i] = s[k + i]
  <1> DEFINE n == Len(s)
  <1>1. n \in Nat /\ \A i \in 1 .. n : s[i] \in Byte
    OBVIOUS
  <1> HIDE DEF n
  <1>2. /\ SubSeq(s, 1, k) \in Seq(Byte) /\ Len(SubSeq(s, 1, k)) = k
        /\ \A i \in 1 .. k : SubSeq(s, 1, k)[i] = s[i]
    <2>1. 1 \in Int /\ k \in Int /\ \A i \in 1 .. k : s[i] \in Byte
      BY <1>1 DEF n
    <2>2. /\ SubSeq(s, 1, k) \in Seq(Byte)
          /\ Len(SubSeq(s, 1, k)) = IF 1 <= k THEN k - 1 + 1 ELSE 0
          /\ \A i \in 1 .. k - 1 + 1 : SubSeq(s, 1, k)[i] = s[1 + i - 1]
      BY <2>1, SubSeqProperties
    <2>3. \A i \in 1 .. k : 1 + i - 1 = i
      OBVIOUS
    <2>4. k - 1 + 1 = k
      OBVIOUS
    <2> QED
      BY <2>2, <2>3, <2>4
  <1>3. /\ SubSeq(s, k + 1, n) \in Seq(Byte) /\ Len(SubSeq(s, k + 1, n)) = n - k
        /\ \A i \in 1 .. n - k : SubSeq(s, k + 1, n)[i] = s[k + i]
    <2>1. k + 1 \in Int /\ n \in Int /\ k <= n /\ \A i \in k + 1 .. n : s[i] \in Byte
      BY <1>1 DEF n
    <2>2. /\ SubSeq(s, k + 1, n) \in Seq(Byte)
          /\ Len(SubSeq(s, k + 1, n)) = IF k + 1 <= n THEN n - (k + 1) + 1 ELSE 0
          /\ \A i \in 1 .. n - (k + 1) + 1 : SubSeq(s, k + 1, n)[i] = s[(k + 1) + i - 1]
      BY <2>1, SubSeqProperties
    <2>3. \A i \in 1 .. n - k : (k + 1) + i - 1 = k + i
      OBVIOUS
    <2>4. n - (k + 1) + 1 = n - k
      BY <1>1
    <2>5. Len(SubSeq(s, k + 1, n)) = n - k
      BY <2>1, <2>2
    <2> QED
      BY <2>2, <2>3, <2>4, <2>5
  <1> QED
    BY <1>2, <1>3 DEF n

\* The invariant of the call depends only on the call.
LEMMA CallKept ==
    ASSUME CallInv, Busy, UNCHANGED callVars
    PROVE  CallInv'
  BY DEF CallInv, callVars, SectorRemain, AtMost

LEMMA PageRemainType ==
    ASSUME NEW a \in Nat, NEW n \in Nat
    PROVE  PageRemain(a, n) \in 0 .. PageSize
  <1>1. PICK k \in 0 .. PageSize : Fits(a, n, PageSize, k)
    BY Sizes, Remains
  <1> QED
    BY <1>1 DEF PageRemain, Fits

LEMMA InitInv == Init => IInv
  <1> SUFFICES ASSUME Init PROVE IInv
    OBVIOUS
  <1>1. TypeOK
    BY Sizes, FlashAssumption DEF Init, TypeOK
  <1> QED
    BY <1>1 DEF Init, IInv, CallInv, EraseInv, ProgramInv, Busy

LEMMA IdentifyInv == ASSUME IInv, Identify PROVE IInv'
  BY DEF IInv, Identify, TypeOK, CallInv, EraseInv, ProgramInv, Busy, callVars, pageVars

LEMMA CallStep == ASSUME IInv, NEW a \in Addr, NEW s \in Text, Call(a, s) PROVE IInv'
  <1>1. a \in Nat /\ s \in Seq(Byte) /\ Len(s) \in Nat
    BY Sizes, FlashAssumption
  <1>2. PICK k \in 0 .. SectorSize : Fits(a, Len(s), SectorSize, k)
    BY <1>1, Sizes, Remains
  <1>3. SectorRemain(a, Len(s)) = k
    BY <1>2 DEF Fits, SectorRemain
  <1>4. pc' = "read" /\ WriteAddr' = a /\ text' = s /\ secremain' = k
    BY <1>3 DEF Call
  <1>5. TypeOK'
    BY <1>1, <1>4 DEF IInv, TypeOK, Call, pageVars
  <1>6. CallInv'
    BY <1>3, <1>4 DEF CallInv, Call, Size
  <1> QED
    BY <1>4, <1>5, <1>6 DEF IInv, EraseInv, ProgramInv

\* The driver goes on to program n bytes at a, which lie in the sector and are
\* erased.
LEMMA ProgrammingInv ==
    ASSUME NEW a \in Nat, NEW s \in Seq(Byte), StartProgramming(a, s),
           a \div SectorSize = WriteAddr \div SectorSize,
           (a % SectorSize) + Len(s) <= SectorSize,
           Len(s) > 0 => secremain > 0,
           WriteAddr' = WriteAddr, secremain' = secremain,
           \A i \in 1 .. Len(s) : mem'[a + i - 1] = Erased
    PROVE  ProgramInv' /\ pageAt' \in Nat /\ data' \in Seq(Byte) /\ pageremain' \in 0 .. PageSize
  <1>1. pageAt' = a /\ data' = s /\ pageremain' = PageRemain(a, Len(s))
    BY DEF StartProgramming
  <1>2. Len(s) \in Nat
    OBVIOUS
  <1>3. pageremain' \in 0 .. PageSize
    BY <1>1, <1>2, PageRemainType
  <1>4. pageremain' = PageRemain(pageAt', Len(data'))
    BY <1>1
  <1> QED
    BY <1>1, <1>3, <1>4 DEF ProgramInv, PageRemain, AtMost

LEMMA ReadInv == ASSUME IInv, ReadSector PROVE IInv'
  <1>1. pc = "read" /\ Busy /\ UNCHANGED callVars /\ mem' = mem
    BY DEF ReadSector, Busy
  <1>2. PICK b \in Nat, k \in 0 .. SectorSize :
             /\ b = (WriteAddr \div SectorSize) * SectorSize
             /\ b + SectorSize <= Size
             /\ k = secremain /\ k <= Len(text)
             /\ (WriteAddr % SectorSize) + k <= SectorSize
    BY <1>1, SectorOfCall DEF IInv
  <1>3. /\ SPI_FLASH_BUF' \in [Offset -> Byte]
        /\ \A o \in Offset : SPI_FLASH_BUF'[o] = mem[b + o]
    <2>1. SPI_FLASH_BUF' = [o \in Offset |-> mem[b + o]]
      BY <1>2 DEF ReadSector
    <2>2. \A o \in Offset : b + o \in Addr
      BY <1>2, Sizes
    <2> QED
      BY <2>1, <2>2 DEF IInv, TypeOK
  <1>4. CallInv'
    BY <1>1, CallKept DEF IInv
  <1>5. CASE NeedsErase(WriteAddr, secremain)
    <2>1. pc' = "erase" /\ UNCHANGED pageVars
      BY <1>5 DEF ReadSector
    <2>2. secremain > 0
      BY <1>2, <1>5 DEF NeedsErase
    <2>3. TypeOK'
      BY <1>1, <1>3, <2>1 DEF IInv, TypeOK, callVars, pageVars
    <2>4. EraseInv'
      BY <1>1, <1>2, <1>3, <2>2 DEF EraseInv, callVars
    <2> QED
      BY <1>4, <2>1, <2>3, <2>4 DEF IInv, ProgramInv
  <1>6. CASE ~NeedsErase(WriteAddr, secremain)
    <2>1. PICK s \in Seq(Byte) : s = SubSeq(text, 1, k) /\ Len(s) = k
      <3>1. text \in Seq(Byte) /\ k \in Nat /\ k <= Len(text)
        BY <1>2 DEF IInv, TypeOK
      <3>2. SubSeq(text, 1, k) \in Seq(Byte) /\ Len(SubSeq(text, 1, k)) = k
        BY <3>1, PartOf
      <3> QED
        BY <3>2
    <2>2. StartProgramming(WriteAddr, s)
      BY <1>2, <1>6, <2>1 DEF ReadSector
    <2>3. PICK a \in Nat : a = WriteAddr
      BY DEF IInv, TypeOK
    <2>4. \A i \in 1 .. k : mem'[a + i - 1] = Erased
      <3> SUFFICES ASSUME NEW i \in 1 .. k PROVE mem[a + i - 1] = Erased
        BY <1>1
      <3>1. i - 1 \in 0 .. k - 1 /\ a + i - 1 = a + (i - 1)
        OBVIOUS
      <3> QED
        BY <1>2, <1>6, <2>3, <3>1 DEF NeedsErase
    <2>5. ProgramInv' /\ pageAt' \in Nat /\ data' \in Seq(Byte) /\ pageremain' \in 0 .. PageSize
      <3>1. StartProgramming(a, s) /\ WriteAddr' = WriteAddr /\ secremain' = secremain
        BY <1>1, <2>2, <2>3 DEF callVars
      <3>2. (a % SectorSize) + Len(s) <= SectorSize /\ (Len(s) > 0 => secremain > 0)
        BY <1>2, <2>1, <2>3
      <3>3. a \div SectorSize = WriteAddr \div SectorSize
        BY <2>3
      <3>4. \A i \in 1 .. Len(s) : mem'[a + i - 1] = Erased
        BY <2>1, <2>4
      <3> QED
        BY <3>1, <3>2, <3>3, <3>4, ProgrammingInv
    <2>6. pc' = "program"
      BY <2>2 DEF StartProgramming
    <2>7. TypeOK'
      BY <1>1, <1>3, <2>5, <2>6 DEF IInv, TypeOK, callVars
    <2> QED
      BY <1>4, <2>5, <2>6, <2>7 DEF IInv, EraseInv
  <1> QED
    BY <1>5, <1>6

LEMMA EraseStep == ASSUME IInv, EraseSector PROVE IInv'
  <1>1. pc = "erase" /\ Busy /\ UNCHANGED callVars
    BY DEF EraseSector, Busy
  <1>2. PICK b \in Nat, k \in 0 .. SectorSize :
             /\ b = (WriteAddr \div SectorSize) * SectorSize /\ b % SectorSize = 0
             /\ b + SectorSize <= Size
             /\ \A c \in Int : c \div SectorSize = WriteAddr \div SectorSize
                                   <=> c \in b .. b + SectorSize - 1
             /\ k = secremain /\ k <= Len(text)
    BY <1>1, SectorOfCall DEF IInv
  <1>3. mem' \in [Addr -> Byte] /\ \A c \in b .. b + SectorSize - 1 : mem'[c] = Erased
    <2>1. mem' = ErasedSector(mem, WriteAddr) /\ mem \in [Addr -> Byte]
      BY DEF EraseSector, IInv, TypeOK
    <2>2. \A c \in b .. b + SectorSize - 1 : c \in Addr /\ c \in Int
      <3>1. b + SectorSize <= Size
        BY <1>2
      <3> QED
        BY <3>1, Sizes
    <2>3. \A c \in b .. b + SectorSize - 1 : c \div SectorSize = WriteAddr \div SectorSize
      BY <1>2, <2>2
    <2> QED
      BY <2>1, <2>2, <2>3, ErasedSectorIs
  <1>4. SPI_FLASH_BUF' \in [Offset -> Byte]
    <2>1. PICK s \in Seq(Byte) : s = SubSeq(text, 1, secremain)
      <3>1. text \in Seq(Byte) /\ k \in Nat /\ k <= Len(text)
        BY <1>2 DEF IInv, TypeOK
      <3>2. SubSeq(text, 1, k) \in Seq(Byte)
        BY <3>1, PartOf
      <3> QED
        BY <1>2, <3>2
    <2>2. PICK f \in Int : f = WriteAddr % SectorSize
      <3>1. WriteAddr \in Nat
        BY DEF IInv, TypeOK
      <3>2. WriteAddr % SectorSize \in 0 .. SectorSize - 1
        BY <3>1, InSector
      <3> QED
        BY <3>2
    <2>3. SPI_FLASH_BUF' = Updated(SPI_FLASH_BUF, f, s)
      BY <2>1, <2>2 DEF EraseSector
    <2>4. Updated(SPI_FLASH_BUF, f, s) \in [Offset -> Byte]
      <3>1. SPI_FLASH_BUF \in [Offset -> Byte] /\ Offset \subseteq Int /\ Len(s) \in Nat
        BY Sizes DEF IInv, TypeOK
      <3>2. \A o \in Offset : o \in f .. f + Len(s) - 1 => s[o - f + 1] \in Byte
        BY <2>2, <3>1
      <3> QED
        BY <3>1, <3>2 DEF Updated
    <2> QED
      BY <2>3, <2>4
  <1>5. PICK s \in Seq(Byte) :
            s = [i \in 1 .. SectorSize |-> SPI_FLASH_BUF'[i - 1]] /\ Len(s) = SectorSize
    <2> DEFINE S == [i \in 1 .. SectorSize |-> SPI_FLASH_BUF'[i - 1]]
    <2>1. SectorSize \in Nat
      BY Sizes
    <2>2. \A i \in 1 .. SectorSize : SPI_FLASH_BUF'[i - 1] \in Byte
      <3>1. \A i \in 1 .. SectorSize : i - 1 \in Offset
        BY Sizes
      <3> QED
        BY <1>4, <3>1
    <2>3. S \in [1 .. SectorSize -> Byte]
      BY <2>2
    <2> HIDE DEF S
    <2>4. S \in Seq(Byte) /\ Len(S) = SectorSize
      BY <2>1, <2>3
    <2> QED
      BY <2>4 DEF S
  <1>6. StartProgramming(b, s)
    BY <1>2, <1>5 DEF EraseSector
  <1>7. ProgramInv' /\ pageAt' \in Nat /\ data' \in Seq(Byte) /\ pageremain' \in 0 .. PageSize
    <2>1. WriteAddr' = WriteAddr /\ secremain' = secremain
      BY <1>1 DEF callVars
    <2>2. b \div SectorSize = WriteAddr \div SectorSize
      <3>1. b \in Int /\ b \in b .. b + SectorSize - 1
        BY Sizes
      <3> QED
        BY <1>2, <3>1
    <2>3. (b % SectorSize) + Len(s) <= SectorSize
      BY <1>2, <1>5, Sizes
    <2>4. Len(s) > 0 => secremain > 0
      BY <1>1 DEF IInv, EraseInv
    <2>5. \A i \in 1 .. Len(s) : mem'[b + i - 1] = Erased
      <3>1. \A i \in 1 .. SectorSize : b + i - 1 \in b .. b + SectorSize - 1
        BY Sizes
      <3> QED
        BY <1>3, <1>5, <3>1
    <2> QED
      BY <1>6, <2>1, <2>2, <2>3, <2>4, <2>5, ProgrammingInv
  <1>8. pc' = "program"
    BY <1>6 DEF StartProgramming
  <1>9. CallInv'
    BY <1>1, CallKept DEF IInv
  <1>10. TypeOK'
    BY <1>1, <1>3, <1>4, <1>7, <1>8 DEF IInv, TypeOK, callVars
  <1> QED
    BY <1>7, <1>8, <1>9, <1>10 DEF IInv, EraseInv

\* What is still to be programmed goes to the sector being written.
LEMMA DataInSector ==
    ASSUME IInv, pc = "program", NEW j \in 1 .. Len(data)
    PROVE  /\ pageAt + j - 1 \in Addr
           /\ (pageAt + j - 1) \div SectorSize = WriteAddr \div SectorSize
  <1>1. PICK b \in Nat :
             /\ b + SectorSize <= Size
             /\ \A d \in Int : d \div SectorSize = WriteAddr \div SectorSize
                                   <=> d \in b .. b + SectorSize - 1
    BY SectorOfCall DEF IInv, Busy
  <1>2. PICK a \in Nat, n \in Nat, f \in 0 .. SectorSize - 1 :
            a = pageAt /\ n = Len(data) /\ f = a % SectorSize
    <2>1. pageAt \in Nat /\ Len(data) \in Nat
      BY DEF IInv, TypeOK
    <2>2. pageAt % SectorSize \in 0 .. SectorSize - 1
      BY <2>1, InSector
    <2> QED
      BY <2>1, <2>2
  <1>3. f + n <= SectorSize /\ a \div SectorSize = WriteAddr \div SectorSize
    BY <1>2 DEF IInv, ProgramInv
  <1>4. (a + (j - 1)) \div SectorSize = a \div SectorSize
    <2>1. f + (j - 1) \in 0 .. SectorSize - 1
      BY <1>2, <1>3, Sizes
    <2>2. (a % SectorSize) + (j - 1) \in 0 .. SectorSize - 1 /\ j - 1 \in Int /\ SectorSize \in Nat \ {0}
      BY <1>2, <2>1, Sizes
    <2> QED
      BY <2>2, SameUnit
  <1>5. a + (j - 1) = a + j - 1 /\ a + j - 1 \in Int
    BY <1>2
  <1>6. a + j - 1 \in b .. b + SectorSize - 1
    BY <1>1, <1>3, <1>4, <1>5
  <1>7. a + j - 1 \in Addr
    BY <1>1, <1>6, Sizes
  <1> QED
    BY <1>2, <1>3, <1>4, <1>5, <1>7

\* Bytes programmed at the place of erased cells arrive.
LEMMA ProgrammedIs ==
    ASSUME TypeOK, CallInv, ProgramInv, pc = "program"
    PROVE  \E k \in 0 .. PageSize :
             /\ k = pageremain /\ k <= Len(data)
             /\ Programmed(mem, pageAt, SubSeq(data, 1, pageremain)) =
                   [c \in Addr |-> IF c \in pageAt .. pageAt + k - 1
                                   THEN data[c - pageAt + 1] ELSE mem[c]]
             /\ Programmed(mem, pageAt, SubSeq(data, 1, pageremain)) \in [Addr -> Byte]
  <1>1. pageAt \in Nat /\ data \in Seq(Byte) /\ Len(data) \in Nat /\ mem \in [Addr -> Byte]
    BY DEF TypeOK
  <1>2. PICK k \in 0 .. PageSize :
            k = pageremain /\ k <= Len(data) /\ (pageAt % PageSize) + k <= PageSize
    BY PageOfCall
  <1>3. PICK s \in Seq(Byte) :
            s = SubSeq(data, 1, k) /\ Len(s) = k /\ \A i \in 1 .. k : s[i] = data[i]
    <2>1. k \in Nat
      BY <1>2
    <2>2. /\ SubSeq(data, 1, k) \in Seq(Byte) /\ Len(SubSeq(data, 1, k)) = k
          /\ \A i \in 1 .. k : SubSeq(data, 1, k)[i] = data[i]
      BY <1>1, <1>2, <2>1, PartOf
    <2> QED
      BY <2>2
  <1>4. PICK a \in Nat : a = pageAt
    BY <1>1
  <1>5. Programmed(mem, a, s) =
            [c \in Addr |-> IF c \in a .. a + k - 1 THEN And(mem[c], s[c - a + 1]) ELSE mem[c]]
    <2>1. (a % PageSize) + Len(s) <= PageSize
      BY <1>2, <1>3, <1>4
    <2>2. Programmed(mem, a, s) =
              [c \in Addr |-> IF c \in a .. a + Len(s) - 1
                              THEN And(mem[c], s[c - a + 1]) ELSE mem[c]]
      BY <2>1, ProgrammedInPage
    <2> QED
      BY <1>3, <2>2
  <1>6. ASSUME NEW c \in Addr, c \in a .. a + k - 1
        PROVE  And(mem[c], s[c - a + 1]) = data[c - a + 1] /\ data[c - a + 1] \in Byte
    <2>1. PICK i \in 1 .. k : i = c - a + 1 /\ a + i - 1 = c
      <3>1. c - a + 1 \in 1 .. k /\ a + (c - a + 1) - 1 = c
        BY <1>6, Sizes
      <3> QED
        BY <3>1
    <2>2. i \in 1 .. Len(data)
      BY <1>1, <1>2, <2>1
    <2>3. mem[c] = Erased
      BY <1>4, <2>1, <2>2 DEF ProgramInv
    <2>4. data[i] \in Byte
      BY <1>1, <2>2
    <2>5. And(Erased, data[i]) = data[i]
      BY <2>4, FlashAssumption
    <2> QED
      BY <1>3, <2>1, <2>3, <2>4, <2>5
  <1>7. [c \in Addr |-> IF c \in a .. a + k - 1 THEN And(mem[c], s[c - a + 1]) ELSE mem[c]]
          = [c \in Addr |-> IF c \in a .. a + k - 1 THEN data[c - a + 1] ELSE mem[c]]
    BY <1>6
  <1>8. [c \in Addr |-> IF c \in a .. a + k - 1 THEN data[c - a + 1] ELSE mem[c]]
          \in [Addr -> Byte]
    BY <1>1, <1>6
  <1>9. Programmed(mem, pageAt, SubSeq(data, 1, pageremain)) =
            [c \in Addr |-> IF c \in pageAt .. pageAt + k - 1
                            THEN data[c - pageAt + 1] ELSE mem[c]]
    BY <1>2, <1>3, <1>4, <1>5, <1>7
  <1>10. Programmed(mem, pageAt, SubSeq(data, 1, pageremain)) \in [Addr -> Byte]
    BY <1>4, <1>8, <1>9
  <1> QED
    BY <1>2, <1>9, <1>10

\* What is left of the text when the driver turns to the next sector.
LEMMA NextSectorInv ==
    ASSUME TypeOK, CallInv, Busy, NextSector
    PROVE  /\ WriteAddr' \in Nat /\ text' \in Seq(Byte) /\ secremain' \in 0 .. SectorSize
           /\ pc' \in {"idle", "read"} /\ CallInv'
           /\ secremain \in Nat /\ secremain <= Len(text)
  <1>1. PICK k \in 0 .. SectorSize :
             /\ k = secremain /\ k <= Len(text)
             /\ k < Len(text) =>
                   AtMost(Len(text) - k, SectorSize) = SectorRemain(WriteAddr + k, Len(text) - k)
             /\ k = Len(text) => AtMost(Len(text) - k, SectorSize) = 0
    BY SectorOfCall
  <1>2. WriteAddr \in Nat /\ text \in Seq(Byte) /\ Len(text) \in Nat /\ k \in Nat
    BY <1>1 DEF TypeOK
  <1>3. WriteAddr' = WriteAddr + k /\ WriteAddr' \in Nat
    BY <1>1, <1>2 DEF NextSector
  <1>4. text' \in Seq(Byte) /\ Len(text') = Len(text) - k
    <2>1. text' = SubSeq(text, k + 1, Len(text))
      BY <1>1 DEF NextSector
    <2> QED
      BY <1>1, <1>2, <2>1, PartOf
  <1>5. secremain' = AtMost(Len(text) - k, SectorSize) /\ secremain' \in 0 .. SectorSize
    <2>1. secremain' = AtMost(Len(text) - k, SectorSize)
      BY <1>1 DEF NextSector
    <2> QED
      BY <1>1, <1>2, <2>1, Sizes DEF AtMost
  <1>6. pc' = IF Len(text) = k THEN "idle" ELSE "read"
    BY <1>1 DEF NextSector
  <1>7. CallInv'
    <2> SUFFICES ASSUME Len(text) # k
                 PROVE  /\ WriteAddr' \in Addr /\ WriteAddr' + Len(text') <= Size
                        /\ secremain' = SectorRemain(WriteAddr', Len(text'))
      BY <1>6 DEF CallInv, Busy, SectorRemain, AtMost
    <2>1. k < Len(text) /\ WriteAddr + Len(text) <= Size
      BY <1>1, <1>2 DEF CallInv
    <2>2. secremain' = SectorRemain(WriteAddr + k, Len(text) - k)
      BY <1>1, <1>5, <2>1
    <2>3. secremain' = SectorRemain(WriteAddr', Len(text'))
      BY <1>3, <1>4, <2>2
    <2>4. WriteAddr' + Len(text') <= Size /\ WriteAddr' \in Addr
      BY <1>2, <1>3, <1>4, <2>1, Sizes
    <2> QED
      BY <2>3, <2>4
  <1> QED
    BY <1>1, <1>2, <1>3, <1>4, <1>5, <1>6, <1>7

LEMMA ProgramStep == ASSUME IInv, ProgramPage PROVE IInv'
  <1>1. pc = "program" /\ Busy /\ SPI_FLASH_BUF' = SPI_FLASH_BUF
    BY DEF ProgramPage, Busy
  <1>2. PICK k \in 0 .. PageSize :
             /\ k = pageremain /\ k <= Len(data)
             /\ k < Len(data) =>
                   AtMost(Len(data) - k, PageSize) = PageRemain(pageAt + k, Len(data) - k)
    BY <1>1, PageOfCall DEF IInv
  <1>3. mem' \in [Addr -> Byte] /\ \A c \in Addr : c \notin pageAt .. pageAt + k - 1 => mem'[c] = mem[c]
    <2>1. /\ Programmed(mem, pageAt, SubSeq(data, 1, pageremain)) =
               [c \in Addr |-> IF c \in pageAt .. pageAt + k - 1
                               THEN data[c - pageAt + 1] ELSE mem[c]]
          /\ Programmed(mem, pageAt, SubSeq(data, 1, pageremain)) \in [Addr -> Byte]
      BY <1>1, <1>2, ProgrammedIs DEF IInv
    <2> QED
      BY <2>1 DEF ProgramPage
  <1>4. pageAt \in Nat /\ data \in Seq(Byte) /\ Len(data) \in Nat /\ k \in Nat
    BY <1>2, Sizes DEF IInv, TypeOK
  <1>5. /\ data' \in Seq(Byte) /\ Len(data') = Len(data) - k
        /\ pageAt' = pageAt + k /\ pageAt' \in Nat
        /\ pageremain' = AtMost(Len(data) - k, PageSize) /\ pageremain' \in 0 .. PageSize
    <2>1. /\ data' = SubSeq(data, k + 1, Len(data)) /\ pageAt' = pageAt + k
          /\ pageremain' = AtMost(Len(data) - k, PageSize)
      BY <1>2 DEF ProgramPage
    <2>2. data' \in Seq(Byte) /\ Len(data') = Len(data) - k
      BY <1>2, <1>4, <2>1, PartOf
    <2>3. pageremain' \in 0 .. PageSize
      BY <1>2, <1>4, <2>1, Sizes DEF AtMost
    <2> QED
      BY <1>4, <2>1, <2>2, <2>3
  <1>6. CASE Len(data) = pageremain
    <2>1. NextSector
      BY <1>6 DEF ProgramPage
    <2>2. /\ WriteAddr' \in Nat /\ text' \in Seq(Byte) /\ secremain' \in 0 .. SectorSize
          /\ pc' \in {"idle", "read"} /\ CallInv'
      BY <1>1, <2>1, NextSectorInv DEF IInv
    <2>3. TypeOK'
      BY <1>1, <1>3, <1>5, <2>2 DEF IInv, TypeOK
    <2> QED
      BY <2>2, <2>3 DEF IInv, EraseInv, ProgramInv
  <1>7. CASE Len(data) # pageremain
    <2>1. pc' = "program" /\ UNCHANGED callVars /\ k < Len(data)
      BY <1>1, <1>2, <1>4, <1>7 DEF ProgramPage
    <2>2. TypeOK'
      BY <1>1, <1>3, <1>5, <2>1 DEF IInv, TypeOK, callVars
    <2>3. CallInv'
      BY <1>1, <2>1, CallKept DEF IInv
    <2>4. ProgramInv'
      <3>1. PICK a \in Nat, n \in Nat, f \in 0 .. SectorSize - 1 :
                a = pageAt /\ n = Len(data) /\ f = a % SectorSize /\ k < n
        <4>1. pageAt % SectorSize \in 0 .. SectorSize - 1
          BY <1>4, InSector
        <4> QED
          BY <1>4, <2>1, <4>1
      <3>2. f + n <= SectorSize /\ a \div SectorSize = WriteAddr \div SectorSize
        BY <1>1, <3>1 DEF IInv, ProgramInv
      <3>3. f + k \in 0 .. SectorSize - 1
        BY <1>4, <3>1, <3>2, Sizes
      <3>4. (a + k) \div SectorSize = a \div SectorSize /\ (a + k) % SectorSize = f + k
        <4>1. (a % SectorSize) + k \in 0 .. SectorSize - 1 /\ k \in Int /\ SectorSize \in Nat \ {0}
          BY <1>4, <3>1, <3>3, Sizes
        <4>2. /\ (a + k) \div SectorSize = a \div SectorSize
              /\ (a + k) % SectorSize = (a % SectorSize) + k
          BY <4>1, SameUnit
        <4> QED
          BY <3>1, <4>2
      <3>5. WriteAddr' = WriteAddr /\ secremain' = secremain
        BY <2>1 DEF callVars
      <3>6. pageAt' \div SectorSize = WriteAddr' \div SectorSize
        BY <1>5, <3>1, <3>2, <3>4, <3>5
      <3>7. (pageAt' % SectorSize) + Len(data') <= SectorSize
        <4>1. pageAt' % SectorSize = f + k /\ Len(data') = n - k
          BY <1>5, <3>1, <3>4
        <4> QED
          BY <1>4, <3>1, <3>2, <4>1, Sizes
      <3>8. pageremain' = PageRemain(pageAt', Len(data'))
        BY <1>2, <1>5, <2>1
      <3>9. secremain' > 0
        BY <1>1, <1>4, <2>1, <3>5 DEF IInv, ProgramInv
      <3>10. ASSUME NEW i \in 1 .. Len(data') PROVE mem'[pageAt' + i - 1] = Erased
        <4>1. PICK j \in 1 .. n : j = k + i /\ j > k
          <5>1. k + i \in 1 .. n /\ k + i > k
            BY <1>4, <1>5, <3>1, <3>10
          <5> QED
            BY <5>1
        <4>2. PICK c \in Nat : c = a + j - 1 /\ c = pageAt' + i - 1
          BY <1>4, <1>5, <3>1, <4>1
        <4>3. mem[c] = Erased
          BY <1>1, <3>1, <4>1, <4>2 DEF IInv, ProgramInv
        <4>4. c \notin a .. a + k - 1
          BY <1>4, <4>1, <4>2
        <4>5. c \in Addr
          <5>1. j \in 1 .. Len(data) /\ c = pageAt + j - 1
            BY <3>1, <4>1, <4>2
          <5> QED
            BY <1>1, <5>1, DataInSector
        <4> QED
          BY <1>3, <3>1, <4>2, <4>3, <4>4, <4>5
      <3> QED
        BY <3>6, <3>7, <3>8, <3>9, <3>10 DEF ProgramInv, PageRemain, AtMost
    <2> QED
      BY <2>1, <2>2, <2>3, <2>4 DEF IInv, EraseInv
  <1> QED
    BY <1>6, <1>7

\* What a power failure leaves in the cells: each is as before the command that
\* was given, or as after it.
LEMMA PowerLossLeaves ==
    ASSUME IInv, PowerLoss
    PROVE  /\ mem' \in [Addr -> Byte]
           /\ \/ mem' = mem
              \/ /\ pc = "erase"
                 /\ \A c \in Addr : mem'[c] = mem[c] \/ mem'[c] = ErasedSector(mem, WriteAddr)[c]
              \/ /\ pc = "program"
                 /\ \A c \in Addr :
                       \/ mem'[c] = mem[c]
                       \/ mem'[c] = Programmed(mem, pageAt, SubSeq(data, 1, pageremain))[c]
  <1>1. mem \in [Addr -> Byte] /\ pc \in {"read", "erase", "program"}
    BY DEF IInv, TypeOK, PowerLoss
  <1>2. CASE pc = "read"
    <2>1. mem' = mem
      BY <1>2 DEF PowerLoss
    <2> QED
      BY <1>1, <2>1
  <1>3. CASE pc = "erase"
    <2>1. mem' \in Interrupted(mem, ErasedSector(mem, WriteAddr))
      BY <1>3 DEF PowerLoss
    <2>2. ErasedSector(mem, WriteAddr) \in [Addr -> Byte]
      BY <1>1, ErasedSectorIs
    <2> QED
      BY <1>1, <1>3, <2>1, <2>2, InterruptedIs
  <1>4. CASE pc = "program"
    <2>1. mem' \in Interrupted(mem, Programmed(mem, pageAt, SubSeq(data, 1, pageremain)))
      BY <1>4 DEF PowerLoss
    <2>2. Programmed(mem, pageAt, SubSeq(data, 1, pageremain)) \in [Addr -> Byte]
      BY <1>4, ProgrammedIs DEF IInv
    <2> QED
      BY <1>1, <1>4, <2>1, <2>2, InterruptedIs
  <1> QED
    BY <1>1, <1>2, <1>3, <1>4

LEMMA PowerLossInv == ASSUME IInv, PowerLoss PROVE IInv'
  <1>1. mem' \in [Addr -> Byte] /\ pc' = "identify"
    BY PowerLossLeaves DEF PowerLoss
  <1>2. TypeOK'
    <2>1. SPI_FLASH_BUF' \in [Offset -> Byte]
      BY FlashAssumption DEF PowerLoss
    <2>2. /\ WriteAddr' = 0 /\ text' = <<>> /\ secremain' = 0
          /\ pageAt' = 0 /\ data' = <<>> /\ pageremain' = 0
      BY DEF PowerLoss
    <2> QED
      BY <1>1, <2>1, <2>2, Sizes DEF TypeOK
  <1> QED
    BY <1>1, <1>2 DEF IInv, CallInv, EraseInv, ProgramInv, Busy

LEMMA Invariance == Spec => []IInv
  <1>1. IInv /\ [Next]_vars => IInv'
    <2> SUFFICES ASSUME IInv, [Next]_vars PROVE IInv'
      OBVIOUS
    <2>1. CASE Identify
      BY <2>1, IdentifyInv
    <2>2. ASSUME NEW a \in Addr, NEW s \in Text, Call(a, s) PROVE IInv'
      BY <2>2, CallStep
    <2>3. CASE ReadSector
      BY <2>3, ReadInv
    <2>4. CASE EraseSector
      BY <2>4, EraseStep
    <2>5. CASE ProgramPage
      BY <2>5, ProgramStep
    <2>6. CASE PowerLoss
      BY <2>6, PowerLossInv
    <2>7. CASE UNCHANGED vars
      BY <2>7 DEF vars, callVars, pageVars, IInv, TypeOK, CallInv, EraseInv, ProgramInv, Busy,
                  SectorRemain, PageRemain, AtMost
    <2> QED
      BY <2>1, <2>2, <2>3, <2>4, <2>5, <2>6, <2>7 DEF Next
  <1> QED
    BY InitInv, <1>1, PTL DEF Spec

-----------------------------------------------------------------------------
(* Theorems. *)

\* The variables of the driver have their types: what SPI_FLASH_BUF holds are
\* the bytes of one sector, and a call never counts below zero or beyond a sector.
THEOREM TypeCorrect == Spec => []TypeOK
  <1>1. IInv => TypeOK
    BY DEF IInv
  <1> QED
    BY Invariance, <1>1, PTL

\* SPI_Flash_Write_Page is only called with bytes that fit into the rest of the
\* page, and SPI_Flash_Write_NoCheck only for cells that are erased.
THEOREM ConditionsKept == Spec => []CallersKeepConditions
  <1>1. IInv => CallersKeepConditions
    <2> SUFFICES ASSUME IInv, pc = "program"
                 PROVE  /\ (pageAt % PageSize) + pageremain <= PageSize
                        /\ \A i \in 1 .. Len(data) : mem[pageAt + i - 1] = Erased
      BY DEF CallersKeepConditions
    <2>1. (pageAt % PageSize) + pageremain <= PageSize
      BY PageOfCall DEF IInv
    <2> QED
      BY <2>1 DEF IInv, ProgramInv
  <1> QED
    BY Invariance, <1>1, PTL

\* Where a call changes the chip, or may yet change it, is the sector being
\* written, and some byte of the text goes there.
LEMMA ProgrammedInSector ==
    ASSUME IInv, pc = "program", NEW c \in Addr,
           c \div SectorSize # WriteAddr \div SectorSize \/ secremain = 0
    PROVE  /\ c \notin pageAt .. pageAt + Len(data) - 1
           /\ Programmed(mem, pageAt, SubSeq(data, 1, pageremain))[c] = mem[c]
  <1>1. pageAt \in Nat /\ Len(data) \in Nat /\ c \in Int
    BY Sizes DEF IInv, TypeOK
  <1>2. c \notin pageAt .. pageAt + Len(data) - 1
    <2> SUFFICES ASSUME c \in pageAt .. pageAt + Len(data) - 1 PROVE FALSE
      OBVIOUS
    <2>1. PICK j \in 1 .. Len(data) : c = pageAt + j - 1
      <3>1. c - pageAt + 1 \in 1 .. Len(data) /\ c = pageAt + (c - pageAt + 1) - 1
        BY <1>1
      <3> QED
        BY <3>1
    <2>2. c \div SectorSize = WriteAddr \div SectorSize
      BY <2>1, DataInSector
    <2>3. Len(data) > 0
      BY <1>1, <2>1
    <2>4. secremain > 0
      BY <2>3 DEF IInv, ProgramInv
    <2> QED
      BY <2>2, <2>4
  <1>3. PICK k \in 0 .. PageSize :
             /\ k <= Len(data)
             /\ Programmed(mem, pageAt, SubSeq(data, 1, pageremain)) =
                   [d \in Addr |-> IF d \in pageAt .. pageAt + k - 1
                                   THEN data[d - pageAt + 1] ELSE mem[d]]
    BY ProgrammedIs DEF IInv
  <1>4. c \notin pageAt .. pageAt + k - 1
    BY <1>1, <1>2, <1>3
  <1> QED
    BY <1>2, <1>3, <1>4

LEMMA PowerLossInSector ==
    ASSUME IInv, PowerLoss, NEW c \in Addr,
           c \div SectorSize # WriteAddr \div SectorSize \/ secremain = 0
    PROVE  mem'[c] = mem[c]
  <1>1. CASE pc = "erase"
    <2>1. c \div SectorSize # WriteAddr \div SectorSize
      BY <1>1 DEF IInv, EraseInv
    <2>2. ErasedSector(mem, WriteAddr)[c] = mem[c]
      BY <2>1, ErasedSectorIs DEF IInv, TypeOK
    <2> QED
      BY <1>1, <2>2, PowerLossLeaves
  <1>2. CASE pc = "program"
    BY <1>2, ProgrammedInSector, PowerLossLeaves
  <1>3. CASE pc \notin {"erase", "program"}
    BY <1>3, PowerLossLeaves
  <1> QED
    BY <1>1, <1>2, <1>3

\* A step of SPI_Flash_Write, or a power failure in the middle of it, changes no
\* cell outside the sector being written.
THEOREM OthersKept == Spec => OtherSectorsKept
  <1>1. ASSUME IInv, [Next]_vars, NEW a \in Addr, mem'[a] # mem[a]
        PROVE  a \div SectorSize = WriteAddr \div SectorSize /\ secremain > 0
    <2>1. secremain \in Nat
      BY <1>1 DEF IInv, TypeOK
    <2>2. CASE EraseSector
      <3>1. mem' = ErasedSector(mem, WriteAddr) /\ mem \in [Addr -> Byte]
        BY <1>1, <2>2 DEF EraseSector, IInv, TypeOK
      <3>2. a \div SectorSize = WriteAddr \div SectorSize
        BY <1>1, <3>1, ErasedSectorIs
      <3>3. secremain > 0
        BY <1>1, <2>2 DEF IInv, EraseInv, EraseSector
      <3> QED
        BY <3>2, <3>3
    <2>3. CASE ProgramPage
      <3>1. pc = "program" /\ mem' = Programmed(mem, pageAt, SubSeq(data, 1, pageremain))
        BY <2>3 DEF ProgramPage
      <3>2. ~(a \div SectorSize # WriteAddr \div SectorSize \/ secremain = 0)
        BY <1>1, <3>1, ProgrammedInSector
      <3> QED
        BY <2>1, <3>2
    <2>4. CASE PowerLoss
      <3>1. ~(a \div SectorSize # WriteAddr \div SectorSize \/ secremain = 0)
        BY <1>1, <2>4, PowerLossInSector
      <3> QED
        BY <2>1, <3>1
    <2>5. CASE Identify \/ (\E b \in Addr, s \in Text : Call(b, s)) \/ ReadSector \/ UNCHANGED vars
      BY <1>1, <2>5 DEF Identify, Call, ReadSector, vars
    <2> QED
      BY <1>1, <2>2, <2>3, <2>4, <2>5 DEF Next
  <1>2. IInv /\ [Next]_vars =>
           [\A a \in Addr : mem'[a] # mem[a] =>
               a \div SectorSize = WriteAddr \div SectorSize /\ secremain > 0]_vars
    BY <1>1
  <1> QED
    BY Invariance, <1>2, PTL DEF Spec, OtherSectorsKept

-----------------------------------------------------------------------------
(* The driver implements a store of bytes: ByteStore, with the bytes still  *)
(* to be programmed counted as stored.                                      *)

At == IF pc = "program" THEN WriteAddr + secremain ELSE WriteAddr
Rest == IF pc = "program" THEN SubSeq(text, secremain + 1, Len(text)) ELSE text
InCall == pc \notin {"identify", "idle"}

\* What ByteStore calls storing n bytes.
Stores(n) ==
    /\ InCall /\ InCall'
    /\ n \in 0 .. Len(Rest)
    /\ Eventual' = [a \in Addr |-> IF a \in At .. At + n - 1 THEN Rest[a - At + 1] ELSE Eventual[a]]
    /\ At' = At + n
    /\ Rest' = SubSeq(Rest, n + 1, Len(Rest))

\* The steps of ByteStore, in the terms of the driver.
Abstractly ==
    \/ UNCHANGED <<Eventual, At, Rest, InCall>>
    \/ /\ ~InCall /\ InCall' /\ UNCHANGED Eventual
       /\ \E a \in Addr, s \in Text : a + Len(s) <= Sectors * SectorSize /\ At' = a /\ Rest' = s
    \/ \E n \in Nat : Stores(n)
    \/ InCall /\ ~InCall' /\ Rest = <<>> /\ UNCHANGED <<Eventual, At, Rest>>
    \/ /\ InCall /\ ~InCall' /\ At' = 0 /\ Rest' = <<>>
       /\ Eventual' \in [Addr -> Byte]
       /\ \E s \in 0 .. Sectors - 1 :
             \A a \in Addr : a \div SectorSize # s => Eventual'[a] = Eventual[a]

\* The identity of the chip is read, or a call begins, or a sector that has to be
\* erased is read.
LEMMA IdentifyAbstractly == ASSUME Identify PROVE Abstractly
  BY DEF Identify, Abstractly, Eventual, At, Rest, InCall, callVars, pageVars

LEMMA CallAbstractly == ASSUME NEW a \in Addr, NEW s \in Text, Call(a, s) PROVE Abstractly
  <1>1. ~InCall /\ InCall' /\ At' = a /\ Rest' = s /\ UNCHANGED Eventual
    BY DEF Call, Eventual, At, Rest, InCall
  <1>2. a + Len(s) <= Sectors * SectorSize
    BY DEF Call
  <1> QED
    BY <1>1, <1>2 DEF Abstractly

\* A sector whose bytes are erased is read: its bytes count as stored.
LEMMA ReadAbstractly == ASSUME IInv, ReadSector PROVE Abstractly
  <1>1. pc = "read" /\ Busy /\ UNCHANGED callVars /\ mem' = mem /\ mem \in [Addr -> Byte]
    BY DEF ReadSector, Busy, IInv, TypeOK
  <1>2. CASE pc' = "erase"
    BY <1>1, <1>2 DEF Abstractly, Eventual, At, Rest, InCall, callVars
  <1>3. CASE pc' # "erase"
    <2>1. PICK k \in 0 .. SectorSize : k = secremain /\ k <= Len(text)
      BY <1>1, SectorOfCall DEF IInv
    <2>2. PICK w \in Nat : w = WriteAddr
      BY DEF IInv, TypeOK
    <2>3. PICK s \in Seq(Byte) :
              s = SubSeq(text, 1, k) /\ Len(s) = k /\ \A i \in 1 .. k : s[i] = text[i]
      <3>1. text \in Seq(Byte) /\ k \in Nat /\ k <= Len(text)
        BY <2>1 DEF IInv, TypeOK
      <3>2. /\ SubSeq(text, 1, k) \in Seq(Byte) /\ Len(SubSeq(text, 1, k)) = k
            /\ \A i \in 1 .. k : SubSeq(text, 1, k)[i] = text[i]
        BY <3>1, PartOf
      <3> QED
        BY <3>2
    <2>4. pc' = "program" /\ pageAt' = w /\ data' = s
      BY <1>3, <2>1, <2>2, <2>3 DEF ReadSector, StartProgramming
    <2>5. At = w /\ Rest = text /\ Eventual = mem /\ InCall /\ InCall'
      BY <1>1, <2>2, <2>4 DEF At, Rest, Eventual, InCall
    <2>6. At' = w + k /\ Rest' = SubSeq(text, k + 1, Len(text))
      BY <1>1, <2>1, <2>2, <2>4 DEF At, Rest, callVars
    <2>7. Eventual' = [a \in Addr |-> IF a \in w .. w + k - 1 THEN s[a - w + 1] ELSE mem[a]]
      BY <1>1, <2>3, <2>4 DEF Eventual
    <2>8. ASSUME NEW a \in Addr, a \in w .. w + k - 1 PROVE s[a - w + 1] = text[a - w + 1]
      <3>1. a - w + 1 \in 1 .. k
        BY <2>8
      <3> QED
        BY <2>3, <3>1
    <2>9. Eventual' = [a \in Addr |-> IF a \in w .. w + k - 1 THEN text[a - w + 1] ELSE mem[a]]
      BY <2>7, <2>8
    <2>10. k \in Nat /\ k \in 0 .. Len(text)
      BY <2>1
    <2>11. Stores(k)
      BY <2>5, <2>6, <2>9, <2>10 DEF Stores
    <2> QED
      BY <2>10, <2>11 DEF Abstractly
  <1> QED
    BY <1>2, <1>3

\* A sector is erased: its updated copy counts as stored, so that of the cells of
\* the sector those alone change where bytes of the text go.
LEMMA EraseAbstractly == ASSUME IInv, EraseSector PROVE Abstractly
  <1>1. pc = "erase" /\ Busy /\ UNCHANGED callVars /\ mem \in [Addr -> Byte]
    BY DEF EraseSector, Busy, IInv, TypeOK
  <1>2. PICK b \in Nat, k \in 0 .. SectorSize :
             /\ b = (WriteAddr \div SectorSize) * SectorSize
             /\ b + SectorSize <= Size
             /\ WriteAddr = b + (WriteAddr % SectorSize)
             /\ \A c \in Int : c \div SectorSize = WriteAddr \div SectorSize
                                   <=> c \in b .. b + SectorSize - 1
             /\ k = secremain /\ k <= Len(text)
             /\ (WriteAddr % SectorSize) + k <= SectorSize
    BY <1>1, SectorOfCall DEF IInv
  <1>3. PICK w \in Nat, f \in 0 .. SectorSize - 1 :
            w = WriteAddr /\ f = WriteAddr % SectorSize /\ w = b + f /\ f + k <= SectorSize
    <2>1. WriteAddr \in Nat
      BY DEF IInv, TypeOK
    <2>2. WriteAddr % SectorSize \in 0 .. SectorSize - 1
      BY <2>1, InSector
    <2> QED
      BY <1>2, <2>1, <2>2
  <1>4. PICK s \in Seq(Byte) :
            s = SubSeq(text, 1, k) /\ Len(s) = k /\ \A i \in 1 .. k : s[i] = text[i]
    <2>1. text \in Seq(Byte) /\ k \in Nat /\ k <= Len(text)
      BY <1>2 DEF IInv, TypeOK
    <2>2. /\ SubSeq(text, 1, k) \in Seq(Byte) /\ Len(SubSeq(text, 1, k)) = k
          /\ \A i \in 1 .. k : SubSeq(text, 1, k)[i] = text[i]
      BY <2>1, PartOf
    <2> QED
      BY <2>2
  <1>5. SPI_FLASH_BUF' =
            [o \in Offset |-> IF o \in f .. f + k - 1 THEN s[o - f + 1] ELSE SPI_FLASH_BUF[o]]
    <2>1. SPI_FLASH_BUF' = Updated(SPI_FLASH_BUF, f, s)
      BY <1>2, <1>3, <1>4 DEF EraseSector
    <2> QED
      BY <1>4, <2>1 DEF Updated
  <1>6. pc' = "program" /\ pageAt' = b /\ data' = [i \in 1 .. SectorSize |-> SPI_FLASH_BUF'[i - 1]]
    BY <1>2 DEF EraseSector, StartProgramming
  <1>7. Len(data') = SectorSize
    <2>1. SectorSize \in Nat
      BY Sizes
    <2> QED
      BY <1>6, <2>1
  <1>start. pc' = "program" /\ pageAt' = b
    BY <1>6
  <1>sizes. b \in Nat /\ k \in Nat /\ w \in Nat /\ f \in Nat /\ w = b + f /\ f + k <= SectorSize
          /\ SectorSize \in Nat
    BY <1>2, <1>3, Sizes
  <1>8. Eventual' = [a \in Addr |-> IF a \in b .. b + SectorSize - 1
                                    THEN data'[a - b + 1] ELSE mem'[a]]
    BY <1>start, <1>7 DEF Eventual
  <1>9. ASSUME NEW a \in Addr
        PROVE  Eventual'[a] = IF a \in w .. w + k - 1 THEN text[a - w + 1] ELSE mem[a]
    <2>1. a \in Int
      BY Sizes
    <2>2. CASE a \in b .. b + SectorSize - 1
      <3>1. PICK o \in 0 .. SectorSize - 1 : o = a - b /\ a = b + o
        <4>1. a - b \in 0 .. SectorSize - 1 /\ a = b + (a - b)
          BY <1>sizes, <2>1, <2>2
        <4> QED
          BY <4>1
      <3>2. Eventual'[a] = SPI_FLASH_BUF'[o]
        <4>1. PICK i \in 1 .. SectorSize : i = a - b + 1 /\ i - 1 = o
          <5>1. o + 1 \in 1 .. SectorSize /\ o + 1 = a - b + 1 /\ (o + 1) - 1 = o
            BY <1>sizes, <3>1
          <5> QED
            BY <5>1
        <4>2. data'[i] = SPI_FLASH_BUF'[i - 1]
          BY <1>6
        <4>3. data'[a - b + 1] = SPI_FLASH_BUF'[o]
          BY <4>1, <4>2
        <4> QED
          BY <1>8, <2>2, <4>3
      <3>3. o \in Offset
        BY <3>1, Sizes
      <3>4. a \in w .. w + k - 1 <=> o \in f .. f + k - 1
        BY <1>sizes, <3>1
      <3>5. CASE o \in f .. f + k - 1
        <4>1. o - f + 1 \in 1 .. k /\ a - w + 1 = o - f + 1
          BY <1>sizes, <3>1, <3>5
        <4>2. SPI_FLASH_BUF'[o] = s[o - f + 1]
          BY <1>5, <3>3, <3>5
        <4>3. s[o - f + 1] = text[o - f + 1]
          BY <1>4, <4>1
        <4> QED
          BY <3>2, <3>4, <3>5, <4>1, <4>2, <4>3
      <3>6. CASE o \notin f .. f + k - 1
        <4>1. SPI_FLASH_BUF'[o] = SPI_FLASH_BUF[o]
          BY <1>5, <3>3, <3>6
        <4>2. SPI_FLASH_BUF[o] = mem[b + o]
          BY <1>1, <1>2, <3>3 DEF IInv, EraseInv
        <4> QED
          BY <3>1, <3>2, <3>4, <3>6, <4>1, <4>2
      <3> QED
        BY <3>5, <3>6
    <2>3. CASE a \notin b .. b + SectorSize - 1
      <3>1. a \notin w .. w + k - 1
        BY <1>sizes, <2>1, <2>3
      <3>2. mem'[a] = mem[a]
        <4>1. a \div SectorSize # WriteAddr \div SectorSize
          BY <1>2, <2>1, <2>3
        <4> QED
          BY <1>1, <4>1, ErasedSectorIs DEF EraseSector
      <3> QED
        BY <1>8, <2>3, <3>1, <3>2
    <2> QED
      BY <2>2, <2>3
  <1>10. Eventual' = [a \in Addr |-> IF a \in w .. w + k - 1 THEN text[a - w + 1] ELSE mem[a]]
    <2>1. Eventual' = [a \in Addr |-> Eventual'[a]]
      BY <1>8
    <2> QED
      BY <1>9, <2>1
  <1>11. At = w /\ Rest = text /\ Eventual = mem /\ InCall /\ InCall'
    BY <1>1, <1>3, <1>6 DEF At, Rest, Eventual, InCall
  <1>12. At' = w + k /\ Rest' = SubSeq(text, k + 1, Len(text))
    BY <1>1, <1>2, <1>3, <1>6 DEF At, Rest, callVars
  <1>13. k \in Nat /\ k \in 0 .. Len(text)
    BY <1>2
  <1>14. Stores(k)
    BY <1>10, <1>11, <1>12, <1>13 DEF Stores
  <1> QED
    BY <1>13, <1>14 DEF Abstractly

\* A page is programmed: its bytes count as stored already.
LEMMA ProgramKeepsEventual ==
    ASSUME IInv, ProgramPage
    PROVE  Eventual' = Eventual
  <1>1. pc = "program"
    BY DEF ProgramPage
  <1>2. PICK p \in Nat, n \in Nat :
            p = pageAt /\ n = Len(data) /\ data \in Seq(Byte) /\ Addr \subseteq Nat
    <2>1. pageAt \in Nat /\ data \in Seq(Byte) /\ Len(data) \in Nat
      BY DEF IInv, TypeOK
    <2> QED
      BY <2>1, Sizes
  <1>3. PICK k \in Nat :
             /\ k = pageremain /\ k <= n
             /\ mem' = [c \in Addr |-> IF c \in p .. p + k - 1 THEN data[c - p + 1] ELSE mem[c]]
    <2>1. PICK k \in 0 .. PageSize :
             /\ k = pageremain /\ k <= Len(data)
             /\ Programmed(mem, pageAt, SubSeq(data, 1, pageremain)) =
                   [c \in Addr |-> IF c \in pageAt .. pageAt + k - 1
                                   THEN data[c - pageAt + 1] ELSE mem[c]]
      BY <1>1, ProgrammedIs DEF IInv
    <2>2. k \in Nat
      OBVIOUS
    <2>3. mem' = [c \in Addr |-> IF c \in p .. p + k - 1 THEN data[c - p + 1] ELSE mem[c]]
      BY <1>2, <2>1 DEF ProgramPage
    <2> QED
      BY <1>2, <2>1, <2>2, <2>3
  <1>4. Eventual = [c \in Addr |-> IF c \in p .. p + n - 1 THEN data[c - p + 1] ELSE mem[c]]
    BY <1>1, <1>2 DEF Eventual
  <1>5. CASE n = k
    <2>1. pc' # "program"
      BY <1>2, <1>3, <1>5 DEF ProgramPage, NextSector
    <2>2. Eventual' = mem'
      BY <2>1 DEF Eventual
    <2> QED
      BY <1>3, <1>4, <1>5, <2>2
  <1>6. CASE n # k
    <2>1. pc' = "program" /\ pageAt' = p + k /\ data' = SubSeq(data, k + 1, Len(data))
      BY <1>1, <1>2, <1>3, <1>6 DEF ProgramPage
    <2>2. Len(data') = n - k /\ \A i \in 1 .. n - k : data'[i] = data[k + i]
      BY <1>2, <1>3, <2>1, PartOf
    <2>3. Eventual' = [c \in Addr |-> IF c \in p + k .. p + k + (n - k) - 1
                                      THEN data'[c - (p + k) + 1] ELSE mem'[c]]
      <3>1. pc' = "program" /\ pageAt' = p + k /\ Len(data') = n - k
        BY <2>1, <2>2
      <3> QED
        BY <3>1 DEF Eventual
    <2>4. ASSUME NEW c \in Addr PROVE Eventual'[c] = Eventual[c]
      <3>1. c \in Nat /\ k < n
        BY <1>2, <1>3, <1>6
      <3>2. CASE c \in p + k .. p + n - 1
        <4>1. PICK i \in 1 .. n - k : i = c - (p + k) + 1 /\ k + i = c - p + 1
          <5>1. c - (p + k) + 1 \in 1 .. n - k /\ k + (c - (p + k) + 1) = c - p + 1
            BY <3>1, <3>2
          <5> QED
            BY <5>1
        <4>2. c \in p + k .. p + k + (n - k) - 1 /\ c \in p .. p + n - 1
          BY <3>1, <3>2
        <4>3. Eventual'[c] = data'[c - (p + k) + 1] /\ Eventual[c] = data[c - p + 1]
          BY <1>4, <2>3, <4>2
        <4>4. data'[i] = data[k + i]
          BY <2>2
        <4> QED
          BY <4>1, <4>3, <4>4
      <3>3. CASE c \notin p + k .. p + n - 1
        <4>1. c \notin p + k .. p + k + (n - k) - 1
          BY <3>1, <3>3
        <4>2. c \in p .. p + n - 1 <=> c \in p .. p + k - 1
          BY <3>1, <3>3
        <4>3. Eventual'[c] = mem'[c]
          BY <2>3, <4>1
        <4> QED
          BY <1>3, <1>4, <4>2, <4>3
      <3> QED
        BY <3>2, <3>3
    <2>5. Eventual' = [c \in Addr |-> Eventual'[c]] /\ Eventual = [c \in Addr |-> Eventual[c]]
      BY <1>4, <2>3
    <2> QED
      BY <2>4, <2>5
  <1> QED
    BY <1>5, <1>6

LEMMA ProgramAbstractly == ASSUME IInv, ProgramPage PROVE Abstractly
  <1>1. pc = "program" /\ Busy /\ InCall
    BY DEF ProgramPage, Busy, InCall
  <1>2. Eventual' = Eventual
    BY ProgramKeepsEventual
  <1>3. CASE Len(data) # pageremain
    <2>1. UNCHANGED <<pc, callVars>>
      BY <1>3 DEF ProgramPage
    <2>2. UNCHANGED <<Eventual, At, Rest, InCall>>
      BY <1>1, <1>2, <2>1 DEF At, Rest, InCall, callVars
    <2> QED
      BY <2>2 DEF Abstractly
  <1>4. CASE Len(data) = pageremain
    <2>1. NextSector
      BY <1>4 DEF ProgramPage
    <2>2. At' = At /\ Rest' = Rest
      <3>1. pc' # "program"
        BY <2>1 DEF NextSector
      <3> QED
        BY <1>1, <2>1, <3>1 DEF NextSector, At, Rest
    <2>3. CASE Len(text) # secremain
      <3>1. InCall'
        BY <2>1, <2>3 DEF NextSector, InCall
      <3> QED
        BY <1>1, <1>2, <2>2, <3>1 DEF Abstractly
    <2>4. CASE Len(text) = secremain
      <3>1. ~InCall'
        BY <2>1, <2>4 DEF NextSector, InCall
      <3>2. text \in Seq(Byte) /\ Len(text) \in Nat
        BY DEF IInv, TypeOK
      <3>3. Rest \in Seq(Byte) /\ Len(Rest) = Len(text) - Len(text)
        <4>1. Rest = SubSeq(text, Len(text) + 1, Len(text))
          BY <1>1, <2>4 DEF Rest
        <4> QED
          BY <3>2, <4>1, PartOf
      <3>4. Rest = <<>>
        BY <3>2, <3>3
      <3> QED
        BY <1>1, <1>2, <2>2, <3>1, <3>4 DEF Abstractly
    <2> QED
      BY <2>3, <2>4
  <1> QED
    BY <1>3, <1>4

\* The power fails: one sector at most has other bytes than the store.
LEMMA PowerLossAbstractly == ASSUME IInv, PowerLoss PROVE Abstractly
  <1>1. InCall /\ ~InCall' /\ At' = 0 /\ Rest' = <<>> /\ Eventual' = mem' /\ Busy
    BY DEF PowerLoss, InCall, At, Rest, Eventual, Busy
  <1>2. Eventual' \in [Addr -> Byte]
    BY <1>1, PowerLossLeaves
  <1>3. PICK s \in 0 .. Sectors - 1 : s = WriteAddr \div SectorSize
    <2>1. WriteAddr \in Addr
      BY <1>1 DEF IInv, CallInv
    <2> QED
      BY <2>1, SectorInside
  <1>4. ASSUME NEW a \in Addr, a \div SectorSize # s PROVE Eventual'[a] = Eventual[a]
    <2>1. mem'[a] = mem[a]
      BY <1>3, <1>4, PowerLossInSector
    <2>2. CASE pc = "program"
      <3>1. a \notin pageAt .. pageAt + Len(data) - 1
        BY <1>3, <1>4, <2>2, ProgrammedInSector
      <3>2. Eventual[a] = mem[a]
        BY <2>2, <3>1 DEF Eventual
      <3> QED
        BY <1>1, <2>1, <3>2
    <2>3. CASE pc # "program"
      BY <1>1, <2>1, <2>3 DEF Eventual
    <2> QED
      BY <2>2, <2>3
  <1> QED
    BY <1>1, <1>2, <1>3, <1>4 DEF Abstractly

LEMMA AbstractlyIsNext == ASSUME Abstractly PROVE [Store!Next]_Store!vars
  <1>1. Addr = Store!Addr
    BY DEF Addr, Store!Addr
  <1>2. CASE UNCHANGED <<Eventual, At, Rest, InCall>>
    BY <1>2 DEF Store!vars, At, Rest, InCall
  <1>3. CASE /\ ~InCall /\ InCall' /\ UNCHANGED Eventual
             /\ \E a \in Addr, s \in Text :
                   a + Len(s) <= Sectors * SectorSize /\ At' = a /\ Rest' = s
    <2>1. Store!Begin
      BY <1>1, <1>3 DEF Store!Begin, At, Rest, InCall
    <2> QED
      BY <2>1 DEF Store!Next
  <1>4. CASE \E n \in Nat : Stores(n)
    <2>1. PICK n : Stores(n)
      BY <1>4
    <2>2. Store!Store(n) /\ n \in 0 .. Len(Rest)
      BY <1>1, <2>1 DEF Stores, Store!Store, At, Rest, InCall
    <2> QED
      BY <2>2 DEF Store!Next, Rest
  <1>5. CASE InCall /\ ~InCall' /\ Rest = <<>> /\ UNCHANGED <<Eventual, At, Rest>>
    <2>1. Store!End
      BY <1>5 DEF Store!End, At, Rest, InCall
    <2> QED
      BY <2>1 DEF Store!Next
  <1>6. CASE /\ InCall /\ ~InCall' /\ At' = 0 /\ Rest' = <<>>
             /\ Eventual' \in [Addr -> Byte]
             /\ \E s \in 0 .. Sectors - 1 :
                   \A a \in Addr : a \div SectorSize # s => Eventual'[a] = Eventual[a]
    <2>1. Store!PowerLoss
      BY <1>1, <1>6 DEF Store!PowerLoss, At, Rest, InCall
    <2> QED
      BY <2>1 DEF Store!Next
  <1> QED
    BY <1>2, <1>3, <1>4, <1>5, <1>6 DEF Abstractly

\* SPI_Flash_Write does what ByteStore promises: however the text lies to pages and
\* sectors and whatever was in the cells before, its bytes and no others arrive,
\* in order, and a power failure spoils one sector at most.
THEOREM Implements == Spec => ImplementsByteStore
  <1>1. Init => Store!Init
    <2> SUFFICES ASSUME Init PROVE Store!Init
      OBVIOUS
    <2> QED
      BY DEF Init, Store!Init, Eventual, Addr, Store!Addr
  <1>2. IInv /\ [Next]_vars => [Store!Next]_Store!vars
    <2> SUFFICES ASSUME IInv, [Next]_vars PROVE [Store!Next]_Store!vars
      OBVIOUS
    <2>1. Abstractly
      <3>1. ASSUME NEW a \in Addr, NEW s \in Text, Call(a, s) PROVE Abstractly
        BY <3>1, CallAbstractly
      <3>2. CASE UNCHANGED vars
        BY <3>2 DEF vars, callVars, pageVars, Abstractly, Eventual, At, Rest, InCall
      <3> QED
        BY <3>1, <3>2, IdentifyAbstractly, ReadAbstractly, EraseAbstractly, ProgramAbstractly,
           PowerLossAbstractly DEF Next
    <2> QED
      BY <2>1, AbstractlyIsNext
  <1> QED
    BY Invariance, <1>1, <1>2, PTL DEF Spec, ImplementsByteStore, Store!Spec

=============================================================================
