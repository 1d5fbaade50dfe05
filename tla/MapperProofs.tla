----------------------------- MODULE MapperProofs -----------------------------
(***************************************************************************)
(* The address that pctosnes gives a byte of the ROM is that byte's, and   *)
(* the step from a byte leads on to one that lies after it.                *)
(***************************************************************************)
EXTENDS Mapper, TLAPS

(***************************************************************************)
(* Lemmas about addresses                                                  *)
(***************************************************************************)

\* An address is the bank and the word that it is made of.
LEMMA BankAndWord ==
  ASSUME NEW b \in Nat, b < 256, NEW w \in Nat, w < FullBank
  PROVE  LET a == b * FullBank + w
         IN  a \in Nat /\ a < EndOfSpace /\ Bank(a) = b /\ Word(a) = w
<1>1. \A x, y \in Nat : y < 65536 => (x * 65536 + y) \div 65536 = x /\ (x * 65536 + y) % 65536 = y
  OBVIOUS
<1>2. Bank(b * FullBank + w) = b /\ Word(b * FullBank + w) = w BY <1>1 DEF Bank, Word, FullBank
<1>3. b * FullBank + w \in Nat /\ b * FullBank + w < EndOfSpace BY DEF FullBank, EndOfSpace
<1>. QED BY <1>2, <1>3

\* A byte of the ROM is in a half bank: the q-th of n in turn, and its r-th byte.
LEMMA HalfBanks ==
  ASSUME NEW p \in Nat, NEW n \in {32, 64, 128}
  PROVE  \E k, q, r \in Nat :
           /\ q < n /\ r < HalfBank /\ p = k * (n * HalfBank) + q * HalfBank + r
           /\ HalfAt(p, n) = q * FullBank + HalfBank + r
<1>1. PICK s, r \in Nat :
        r < HalfBank /\ p = s * HalfBank + r /\ s = p \div HalfBank /\ r = p % HalfBank
  BY DEF HalfBank
<1>2. \E k, q \in Nat : q < n /\ s = k * n + q /\ q = s % n
  <2>1. CASE n = 32
    <3>1. s \div 32 \in Nat /\ s % 32 \in Nat /\ s % 32 < 32 /\ s = (s \div 32) * 32 + (s % 32) OBVIOUS
    <3>. QED BY <3>1, <2>1
  <2>2. CASE n = 64
    <3>1. s \div 64 \in Nat /\ s % 64 \in Nat /\ s % 64 < 64 /\ s = (s \div 64) * 64 + (s % 64) OBVIOUS
    <3>. QED BY <3>1, <2>2
  <2>3. CASE n = 128
    <3>1. s \div 128 \in Nat /\ s % 128 \in Nat /\ s % 128 < 128 /\ s = (s \div 128) * 128 + (s % 128)
      OBVIOUS
    <3>. QED BY <3>1, <2>3
  <2>. QED BY <2>1, <2>2, <2>3
<1>3. PICK k, q \in Nat : q < n /\ s = k * n + q /\ q = s % n BY <1>2
<1>4. HalfAt(p, n) = q * FullBank + HalfBank + r BY <1>1, <1>3 DEF HalfAt
<1>5. p = k * (n * HalfBank) + q * HalfBank + r
  <2>1. CASE n = 32 BY <1>1, <1>3, <2>1 DEF HalfBank
  <2>2. CASE n = 64 BY <1>1, <1>3, <2>2 DEF HalfBank
  <2>3. CASE n = 128 BY <1>1, <1>3, <2>3 DEF HalfBank
  <2>. QED BY <2>1, <2>2, <2>3
<1>. QED BY <1>1, <1>3, <1>4, <1>5

\* A byte in the high half of a bank.
LEMMA HighHalf ==
  ASSUME NEW b \in Nat, b < 256, NEW r \in Nat, r < HalfBank, NEW m
  PROVE  LET a == b * FullBank + HalfBank + r
         IN  /\ a \in Nat /\ a < EndOfSpace /\ Bank(a) = b /\ IsHigh(a) /\ ~System(a)
             /\ \A n : Half(a, n) = (b % n) * HalfBank + r
             /\ ~Hidden(m, a) => snestopc(m, a) = RomByte(m, a)
             /\ Hidden(m, a) => snestopc(m, a) = -1
<1> DEFINE w == HalfBank + r
           a == b * FullBank + HalfBank + r
<1>1. w \in Nat /\ w < FullBank /\ w >= HalfBank BY DEF HalfBank, FullBank
<1>2. b * FullBank + w = a BY <1>1 DEF HalfBank, FullBank
<1>3. a \in Nat /\ a < EndOfSpace /\ Bank(a) = b /\ Word(a) = w BY <1>1, <1>2, BankAndWord
<1>4. w % HalfBank = r BY DEF HalfBank
<1>5. a \in 0 .. EndOfSpace - 1
  <2>1. EndOfSpace \in Int BY DEF EndOfSpace
  <2>. QED BY <1>3, <2>1
<1> HIDE DEF a, w
<1>6. IsHigh(a) /\ ~System(a) BY <1>1, <1>3 DEF IsHigh, System
<1>7. \A n : Half(a, n) = (b % n) * HalfBank + r BY <1>3, <1>4 DEF Half
<1>8. /\ ~Hidden(m, a) => snestopc(m, a) = RomByte(m, a)
      /\ Hidden(m, a) => snestopc(m, a) = -1
  BY <1>5, Zenon DEF snestopc
<1>. QED BY <1>3, <1>6, <1>7, <1>8 DEF a

(***************************************************************************)
(* Each mapper                                                             *)
(***************************************************************************)

LEMMA LoRom ==
  ASSUME NEW m, m.name = "lorom", NEW p \in Nat, p < FourMegabytes
  PROVE  snestopc(m, pctosnes(m, p)) = p
<1>1. PICK k, q, r \in Nat : /\ q < 128 /\ r < HalfBank /\ p = k * (128 * HalfBank) + q * HalfBank + r
                             /\ HalfAt(p, 128) = q * FullBank + HalfBank + r
  BY HalfBanks
<1>2. p = q * HalfBank + r BY <1>1 DEF FourMegabytes, HalfBank
<1> DEFINE a == (128 + q) * FullBank + HalfBank + r
<1>3. pctosnes(m, p) = Mirror80 + HalfAt(p, 128) BY DEF pctosnes, FourMegabytes
<1>4. Mirror80 + HalfAt(p, 128) = a BY <1>1 DEF Mirror80, FullBank, HalfBank
<1>5. 128 + q \in Nat /\ 128 + q < 256 /\ (128 + q) % 128 = q BY <1>1
<1>6. /\ Bank(a) = 128 + q /\ IsHigh(a) /\ ~System(a) /\ Half(a, 128) = q * HalfBank + r
      /\ ~Hidden(m, a) => snestopc(m, a) = RomByte(m, a)
  BY <1>1, <1>5, HighHalf
<1> HIDE DEF a
<1>7. ~Hidden(m, a) BY <1>1, <1>6 DEF Hidden, WRAM
<1>8. RomByte(m, a) = Half(a, 128) BY DEF RomByte
<1>. QED BY <1>2, <1>3, <1>4, <1>6, <1>7, <1>8

\* The upper half of an ExLoROM ROM is in the banks 00 to 7F, of which the last 16 are hidden.
LEMMA ExLoRom ==
  ASSUME NEW m, m.name = "exlorom", NEW p \in Nat, p < 2 * FourMegabytes
  PROVE  snestopc(m, pctosnes(m, p)) = IF p < FourMegabytes + 112 * HalfBank THEN p ELSE -1
<1>1. PICK k, q, r \in Nat : /\ q < 128 /\ r < HalfBank /\ p = k * (128 * HalfBank) + q * HalfBank + r
                             /\ HalfAt(p, 128) = q * FullBank + HalfBank + r
  BY HalfBanks
<1>2. pctosnes(m, p) = HalfAt(p, 128) + IF p >= FourMegabytes THEN 0 ELSE Mirror80
  BY DEF pctosnes, FourMegabytes
<1>3. CASE p < FourMegabytes
  <2>1. p = q * HalfBank + r BY <1>1, <1>3 DEF FourMegabytes, HalfBank
  <2> DEFINE a == (128 + q) * FullBank + HalfBank + r
  <2>2. pctosnes(m, p) = a BY <1>1, <1>2, <1>3 DEF Mirror80, FullBank, HalfBank, FourMegabytes
  <2>3. 128 + q \in Nat /\ 128 + q < 256 /\ (128 + q) % 128 = q BY <1>1
  <2>4. /\ Bank(a) = 128 + q /\ IsHigh(a) /\ ~System(a) /\ Half(a, 128) = q * HalfBank + r
        /\ ~Hidden(m, a) => snestopc(m, a) = RomByte(m, a)
    BY <1>1, <2>3, HighHalf
  <2> HIDE DEF a
  <2>5. ~Hidden(m, a) BY <1>1, <2>4 DEF Hidden
  <2>6. RomByte(m, a) = Half(a, 128) + 0 BY <1>1, <2>4 DEF RomByte
  <2>. QED BY <1>1, <1>3, <2>1, <2>2, <2>4, <2>5, <2>6 DEF FourMegabytes, HalfBank
<1>4. CASE p >= FourMegabytes
  <2>1. p = FourMegabytes + q * HalfBank + r BY <1>1, <1>4 DEF FourMegabytes, HalfBank
  <2> DEFINE a == q * FullBank + HalfBank + r
  <2>2. pctosnes(m, p) = a BY <1>1, <1>2, <1>4 DEF FullBank, HalfBank, FourMegabytes
  <2>3. q < 256 /\ q % 128 = q BY <1>1
  <2>4. /\ Bank(a) = q /\ IsHigh(a) /\ ~System(a) /\ Half(a, 128) = q * HalfBank + r
        /\ ~Hidden(m, a) => snestopc(m, a) = RomByte(m, a)
        /\ Hidden(m, a) => snestopc(m, a) = -1
    BY <1>1, <2>3, HighHalf
  <2> HIDE DEF a
  <2>5. Hidden(m, a) <=> q >= 112 BY <1>1, <2>4 DEF Hidden
  <2>6. RomByte(m, a) = Half(a, 128) + FourMegabytes BY <1>1, <2>4 DEF RomByte
  <2>7. q >= 112 <=> ~(p < FourMegabytes + 112 * HalfBank) BY <1>1, <2>1 DEF HalfBank, FourMegabytes
  <2>. QED BY <1>1, <2>1, <2>2, <2>4, <2>5, <2>6, <2>7 DEF FourMegabytes, HalfBank
<1>. QED BY <1>3, <1>4 DEF FourMegabytes

LEMMA SuperFX ==
  ASSUME NEW m, m.name = "sfxrom", NEW p \in Nat, p < 2 * Megabyte
  PROVE  snestopc(m, pctosnes(m, p)) = p
<1>1. PICK k, q, r \in Nat : /\ q < 128 /\ r < HalfBank /\ p = k * (128 * HalfBank) + q * HalfBank + r
                             /\ HalfAt(p, 128) = q * FullBank + HalfBank + r
  BY HalfBanks
<1>2. p = q * HalfBank + r /\ q < 64 BY <1>1 DEF Megabyte, HalfBank
<1> DEFINE a == q * FullBank + HalfBank + r
<1>3. pctosnes(m, p) = a BY <1>1 DEF pctosnes, Megabyte
<1>4. q < 256 /\ q % 128 = q /\ ~Bit(q, 64) BY <1>2 DEF Bit
<1>5. /\ Bank(a) = q /\ ~System(a) /\ Half(a, 128) = q * HalfBank + r
      /\ ~Hidden(m, a) => snestopc(m, a) = RomByte(m, a)
  BY <1>1, <1>4, HighHalf
<1> HIDE DEF a
<1>6. ~Hidden(m, a) BY <1>2, <1>5 DEF Hidden
<1>7. RomByte(m, a) = Half(a, 128) BY <1>4, <1>5 DEF RomByte
<1>. QED BY <1>2, <1>3, <1>5, <1>6, <1>7

\* The SA-1 maps four megabytes of the ROM, any of eight, in the slots 0, 1, 4 and 5.
LEMMA SA1Slots ==
  ASSUME NEW m, \A i \in 0 .. 7 : m.banks[i] >= 0 => i \in {0, 1, 4, 5},
         NEW megabyte \in 0 .. 7,
         SlotOf(m, megabyte) >= 0
  PROVE  SlotOf(m, megabyte) \in {0, 1, 4, 5} /\ m.banks[SlotOf(m, megabyte)] = megabyte
<1> DEFINE slots == { i \in 0 .. 7 : m.banks[i] = megabyte }
<1>2. \A i \in slots : i \in {0, 1, 4, 5} /\ m.banks[i] = megabyte OBVIOUS
<1>3. slots # {} => \E i \in slots : \A j \in slots : i <= j
  <2>1. CASE 0 \in slots BY <2>1, <1>2
  <2>2. CASE 0 \notin slots /\ 1 \in slots BY <2>2, <1>2
  <2>3. CASE 0 \notin slots /\ 1 \notin slots /\ 4 \in slots BY <2>3, <1>2
  <2>4. CASE 0 \notin slots /\ 1 \notin slots /\ 4 \notin slots BY <2>4, <1>2
  <2>. QED BY <2>1, <2>2, <2>3, <2>4
<1>4. SlotOf(m, megabyte) = IF slots = {} THEN -1 ELSE CHOOSE i \in slots : \A j \in slots : i <= j
  BY DEF SlotOf
<1> HIDE DEF slots
<1>5. SlotOf(m, megabyte) \in slots BY <1>3, <1>4
<1>. QED BY <1>2, <1>5

LEMMA SA1Rom ==
  ASSUME NEW m, m.name = "sa1rom", \A i \in 0 .. 7 : m.banks[i] >= 0 => i \in {0, 1, 4, 5},
         NEW p \in Nat, p < EndOfSpace, pctosnes(m, p) # -1
  PROVE  snestopc(m, pctosnes(m, p)) = p % (2 * FourMegabytes)
<1> DEFINE slot == SlotOf(m, (p \div Megabyte) % 8)
<1>1. PICK k, q, r \in Nat : /\ q < 32 /\ r < HalfBank /\ p = k * (32 * HalfBank) + q * HalfBank + r
                             /\ HalfAt(p, 32) = q * FullBank + HalfBank + r
  BY HalfBanks
<1>2. k % 8 \in 0 .. 7 /\ p \div Megabyte = k BY <1>1 DEF Megabyte, HalfBank
<1>3. pctosnes(m, p) = IF slot < 0 THEN -1 ELSE slot * 32 * FullBank + HalfAt(p, 32)
  BY Zenon DEF pctosnes
<1>4. slot \in {0, 1, 4, 5} /\ m.banks[slot] = k % 8
  <2>1. slot = -1 \/ slot >= 0 BY <1>2, <1>3 DEF SlotOf
  <2>2. slot >= 0 BY <1>3, <2>1
  <2>3. slot = SlotOf(m, k % 8) BY <1>2
  <2>. QED BY <1>2, <2>2, <2>3, SA1Slots
<1> HIDE DEF slot
<1> DEFINE b == 32 * slot + q
           a == b * FullBank + HalfBank + r
<1>5. pctosnes(m, p) = a
  <2>1. slot * 32 * FullBank + (q * FullBank + HalfBank + r) = a
    BY <1>1, <1>4 DEF FullBank, HalfBank
  <2>. QED BY <1>1, <1>3, <1>4, <2>1
<1>6. b \in Nat /\ b < 192 /\ ~Bit(b, 64) /\ b % 32 = q /\ b \div 32 = slot
  <2>1. CASE slot = 0 BY <1>1, <2>1 DEF Bit
  <2>2. CASE slot = 1 BY <1>1, <2>2 DEF Bit
  <2>3. CASE slot = 4 BY <1>1, <2>3 DEF Bit
  <2>4. CASE slot = 5 BY <1>1, <2>4 DEF Bit
  <2>. QED BY <1>4, <2>1, <2>2, <2>3, <2>4
<1> HIDE DEF b
<1>7. /\ Bank(a) = b /\ IsHigh(a) /\ Half(a, 32) = q * HalfBank + r
      /\ ~Hidden(m, a) => snestopc(m, a) = RomByte(m, a)
  BY <1>1, <1>6, HighHalf
<1> HIDE DEF a
<1>8. ~Hidden(m, a) BY <1>6, <1>7 DEF Hidden
<1>9. RomByte(m, a) = m.banks[Bank(a) \div 32] * Megabyte + Half(a, 32)
  <2>1. ~(Bank(a) >= 192) BY <1>6, <1>7
  <2>. QED BY <2>1 DEF RomByte
<1>10. (k % 8) * Megabyte + (q * HalfBank + r) = p % (2 * FourMegabytes)
  BY <1>1 DEF Megabyte, HalfBank, FourMegabytes
<1>. QED BY <1>4, <1>5, <1>6, <1>7, <1>8, <1>9, <1>10

\* An address that the space has and the mapper shows is a byte of the ROM.
LEMMA InSpace ==
  ASSUME NEW m, NEW a \in Nat, a < EndOfSpace
  PROVE  /\ ~Hidden(m, a) => snestopc(m, a) = RomByte(m, a)
         /\ Hidden(m, a) => snestopc(m, a) = -1
<1>1. a \in 0 .. EndOfSpace - 1
  <2>1. EndOfSpace \in Int BY DEF EndOfSpace
  <2>. QED BY <2>1
<1>. QED BY <1>1, Zenon DEF snestopc

\* Four megabytes of whole banks from C0 on.
LEMMA UpperBanks ==
  ASSUME NEW p \in Nat, p < FourMegabytes
  PROVE  LET a == BankC0 + p
         IN  a \in Nat /\ a < EndOfSpace /\ Bank(a) >= 192 /\ Bank(a) < 256 /\ a % FourMegabytes = p
<1> DEFINE a == BankC0 + p
<1>1. PICK b, w \in Nat : p = b * FullBank + w /\ w < FullBank
  <2>1. p \div 65536 \in Nat /\ p % 65536 \in Nat /\ p % 65536 < 65536
        /\ p = (p \div 65536) * 65536 + (p % 65536)
    OBVIOUS
  <2>. QED BY <2>1 DEF FullBank
<1>2. b < 64 BY <1>1 DEF FullBank, FourMegabytes
<1>3. a = (192 + b) * FullBank + w BY <1>1 DEF BankC0, FullBank
<1>4. 192 + b \in Nat /\ 192 + b < 256 BY <1>2
<1>5. a \in Nat /\ a < EndOfSpace /\ Bank(a) = 192 + b BY <1>1, <1>3, <1>4, BankAndWord
<1>6. a % FourMegabytes = p
  <2>1. a = 3 * 4194304 + p BY DEF BankC0, FullBank
  <2>2. (3 * 4194304 + p) % 4194304 = p BY DEF FourMegabytes
  <2>. QED BY <2>1, <2>2 DEF FourMegabytes
<1>. QED BY <1>2, <1>5, <1>6

\* A byte of the upper banks is shown by every mapper that has whole banks.
LEMMA UpperShown ==
  ASSUME NEW m, m.name \in {"hirom", "exhirom", "sa1rom", "fullsa1rom"},
         NEW a \in Nat, a < EndOfSpace, Bank(a) >= 192, Bank(a) < 256
  PROVE  snestopc(m, a) = RomByte(m, a)
<1>1. Bit(Bank(a), 64)
  <2>1. \A b \in Nat : b >= 192 /\ b < 256 => (b \div 64) % 2 = 1 OBVIOUS
  <2>2. Bank(a) \in Nat BY DEF Bank, FullBank
  <2>. QED BY <2>1, <2>2 DEF Bit
<1>2. ~System(a) BY <1>1 DEF System
<1>3. Bank(a) \in Nat BY DEF Bank, FullBank
<1>4. ~WRAM(a) BY <1>3 DEF WRAM
<1>5. ~Hidden(m, a)
  <2>1. CASE m.name \in {"hirom", "exhirom"} BY <1>2, <1>4, <2>1 DEF Hidden
  <2>2. CASE m.name \in {"sa1rom", "fullsa1rom"}
    <3>1. Hidden(m, a) <=> Bank(a) < 192 /\ (Bit(Bank(a), 64) \/ ~IsHigh(a)) BY <2>2 DEF Hidden
    <3>. QED BY <1>3, <3>1
  <2>. QED BY <2>1, <2>2
<1>. QED BY <1>5, InSpace

LEMMA HiRom ==
  ASSUME NEW m, m.name = "hirom", NEW p \in Nat, p < FourMegabytes
  PROVE  snestopc(m, pctosnes(m, p)) = p
<1> DEFINE a == BankC0 + p
<1>1. pctosnes(m, p) = a BY DEF pctosnes, FourMegabytes
<1>2. /\ a \in Nat /\ a < EndOfSpace /\ Bank(a) >= 192 /\ Bank(a) < 256 /\ a % FourMegabytes = p
  BY UpperBanks
<1> HIDE DEF a
<1>3. snestopc(m, a) = RomByte(m, a) BY <1>2, UpperShown
<1>4. RomByte(m, a) = a % FourMegabytes BY DEF RomByte
<1>. QED BY <1>1, <1>2, <1>3, <1>4

\* The upper half of an ExHiROM ROM is in the banks 40 to 7F, of which the last two are RAM.
LEMMA ExHiRom ==
  ASSUME NEW m, m.name = "exhirom", NEW p \in Nat, p < 2 * FourMegabytes
  PROVE  snestopc(m, pctosnes(m, p)) = IF p < 126 * FullBank THEN p ELSE -1
<1>1. CASE p < FourMegabytes
  <2> DEFINE a == BankC0 + p
  <2>1. pctosnes(m, p) = a BY <1>1 DEF pctosnes, FourMegabytes
  <2>2. /\ a \in Nat /\ a < EndOfSpace /\ Bank(a) >= 192 /\ Bank(a) < 256 /\ a % FourMegabytes = p
    BY <1>1, UpperBanks
  <2> HIDE DEF a
  <2>3. snestopc(m, a) = RomByte(m, a) BY <2>2, UpperShown
  <2>4. RomByte(m, a) = (a % FourMegabytes) + IF Bank(a) >= 128 THEN 0 ELSE FourMegabytes BY DEF RomByte
  <2>5. Bank(a) >= 128
    <3>1. Bank(a) \in Int BY <2>2 DEF Bank, FullBank
    <3>. QED BY <2>2, <3>1
  <2>6. p < 126 * FullBank BY <1>1 DEF FourMegabytes, FullBank
  <2>. QED BY <2>1, <2>2, <2>3, <2>4, <2>5, <2>6
<1>2. CASE p >= FourMegabytes
  <2>1. pctosnes(m, p) = p BY <1>2 DEF pctosnes, FourMegabytes
  <2>2. PICK b, w \in Nat : p = b * FullBank + w /\ w < FullBank
    <3>1. p \div 65536 \in Nat /\ p % 65536 \in Nat /\ p % 65536 < 65536
          /\ p = (p \div 65536) * 65536 + (p % 65536)
      OBVIOUS
    <3>. QED BY <3>1 DEF FullBank
  <2>3. b >= 64 /\ b < 128 BY <1>2, <2>2 DEF FullBank, FourMegabytes
  <2>4. p < EndOfSpace /\ Bank(p) = b
    <3>1. b < 256 BY <2>3
    <3>. QED BY <2>2, <3>1, BankAndWord
  <2>5. ~System(p)
    <3>1. (b \div 64) % 2 = 1 BY <2>3
    <3>. QED BY <2>4, <3>1 DEF System, Bit
  <2>6. Hidden(m, p) <=> b \in {126, 127} BY <2>4, <2>5 DEF Hidden, WRAM
  <2>7. b \in {126, 127} <=> ~(p < 126 * FullBank) BY <2>2, <2>3 DEF FullBank
  <2>8. RomByte(m, p) = p
    <3>1. RomByte(m, p) = (p % FourMegabytes) + IF b >= 128 THEN 0 ELSE FourMegabytes
      BY <2>4 DEF RomByte
    <3>2. p % FourMegabytes = p - FourMegabytes BY <1>2 DEF FourMegabytes
    <3>. QED BY <2>3, <3>1, <3>2 DEF FourMegabytes
  <2>9. /\ ~Hidden(m, p) => snestopc(m, p) = RomByte(m, p)
        /\ Hidden(m, p) => snestopc(m, p) = -1
    BY <2>4, InSpace
  <2>. QED BY <2>1, <2>6, <2>7, <2>8, <2>9
<1>. QED BY <1>1, <1>2 DEF FourMegabytes

\* Half of the banks 00 to 3F and 80 to BF, and the whole of C0 to FF.
LEMMA FullSA1Rom ==
  ASSUME NEW m, m.name = "fullsa1rom", NEW p \in Nat, p < 2 * FourMegabytes
  PROVE  snestopc(m, pctosnes(m, p)) = p
<1>1. CASE p < FourMegabytes
  <2>1. PICK k, q, r \in Nat : /\ q < 64 /\ r < HalfBank /\ p = k * (64 * HalfBank) + q * HalfBank + r
                               /\ HalfAt(p, 64) = q * FullBank + HalfBank + r
    BY HalfBanks
  <2>2. k < 2 BY <1>1, <2>1 DEF FourMegabytes, HalfBank
  <2> DEFINE b == 128 * k + q
             a == b * FullBank + HalfBank + r
  <2>3. pctosnes(m, p) = a
    <3>1. pctosnes(m, p) = HalfAt(p, 64) + IF p >= 2 * Megabyte THEN Mirror80 ELSE 0
      BY <1>1 DEF pctosnes, FourMegabytes
    <3>2. p >= 2 * Megabyte <=> k = 1 BY <2>1, <2>2 DEF Megabyte, HalfBank
    <3>3. CASE k = 1 BY <2>1, <3>1, <3>2, <3>3 DEF Mirror80, FullBank, HalfBank
    <3>4. CASE k = 0 BY <2>1, <3>1, <3>2, <3>4 DEF Mirror80, FullBank, HalfBank
    <3>. QED BY <2>2, <3>3, <3>4
  <2>4. b \in Nat /\ b < 192 /\ ~Bit(b, 64) /\ b % 64 = q /\ (b >= 128 <=> k = 1)
    <3>1. CASE k = 1 BY <2>1, <3>1 DEF Bit
    <3>2. CASE k = 0 BY <2>1, <3>2 DEF Bit
    <3>. QED BY <2>2, <3>1, <3>2
  <2> HIDE DEF b
  <2>5. /\ Bank(a) = b /\ IsHigh(a) /\ Half(a, 64) = q * HalfBank + r
        /\ ~Hidden(m, a) => snestopc(m, a) = RomByte(m, a)
    BY <2>1, <2>4, HighHalf
  <2> HIDE DEF a
  <2>6. ~Hidden(m, a) BY <2>4, <2>5 DEF Hidden
  <2>7. RomByte(m, a) = (IF b >= 128 THEN 2 * Megabyte ELSE 0) + Half(a, 64)
    <3>1. ~(Bank(a) >= 192) BY <2>4, <2>5
    <3>. QED BY <2>5, <3>1 DEF RomByte
  <2>8. (IF b >= 128 THEN 2 * Megabyte ELSE 0) + (q * HalfBank + r) = p
    <3>1. CASE k = 1 BY <2>1, <2>4, <3>1 DEF Megabyte, HalfBank
    <3>2. CASE k = 0 BY <2>1, <2>4, <3>2 DEF Megabyte, HalfBank
    <3>. QED BY <2>2, <3>1, <3>2
  <2>. QED BY <2>3, <2>5, <2>6, <2>7, <2>8
<1>2. CASE p >= FourMegabytes
  <2> DEFINE d == p - FourMegabytes
             a == BankC0 + d
  <2>1. d \in Nat /\ d < FourMegabytes /\ p % FourMegabytes = d BY <1>2 DEF FourMegabytes
  <2>2. pctosnes(m, p) = BankC0 + (p % FourMegabytes) BY <1>2 DEF pctosnes, FourMegabytes
  <2> HIDE DEF d
  <2>3. /\ a \in Nat /\ a < EndOfSpace /\ Bank(a) >= 192 /\ Bank(a) < 256 /\ a % FourMegabytes = d
    BY <2>1, UpperBanks
  <2>4. pctosnes(m, p) = a BY <2>1, <2>2
  <2> HIDE DEF a
  <2>5. snestopc(m, a) = RomByte(m, a) BY <2>3, UpperShown
  <2>6. RomByte(m, a) = FourMegabytes + (a % FourMegabytes) BY <2>3 DEF RomByte
  <2>7. FourMegabytes + d = p BY DEF d, FourMegabytes
  <2>. QED BY <2>3, <2>4, <2>5, <2>6, <2>7
<1>. QED BY <1>1, <1>2 DEF FourMegabytes

LEMMA NoRom ==
  ASSUME NEW m, m.name = "norom", NEW p \in Nat, p < EndOfSpace
  PROVE  snestopc(m, pctosnes(m, p)) = p
<1>1. pctosnes(m, p) = p BY DEF pctosnes, EndOfSpace
<1>2. ~Hidden(m, p) /\ RomByte(m, p) = p BY DEF Hidden, RomByte
<1>. QED BY <1>1, <1>2, InSpace

(***************************************************************************)
(* The bytes that follow one another                                       *)
(***************************************************************************)

\* What a mapper command can select.
LEMMA SelectableIs ==
  ASSUME NEW m \in Selectable
  PROVE  /\ m.name \in Mappers
         /\ m.name = "sa1rom" => \A i \in {0, 1, 4, 5} : m.banks[i] \in Megabytes
         /\ m.name = "sa1rom" => \A i \in 0 .. 7 : m.banks[i] \in Int
<1>1. CASE m \in { Plain(name) : name \in Mappers \ {"sa1rom"} } BY <1>1 DEF Plain
<1>2. CASE m \in { SA1(b[1], b[2], b[3], b[4]) : b \in [1 .. 4 -> Megabytes] }
  BY <1>2 DEF SA1, SA1Banks, Mappers, Megabytes
<1>. QED BY <1>1, <1>2 DEF Selectable

\* An address, and the parts of it that the mappers use.
LEMMA AddressIs ==
  ASSUME NEW a \in Nat, a < EndOfSpace
  PROVE  \E b, w \in Nat : /\ b < 256 /\ w < FullBank /\ a = b * FullBank + w
                           /\ Bank(a) = b /\ Word(a) = w
<1>1. a \div 65536 \in Nat /\ a % 65536 \in Nat /\ a % 65536 < 65536
      /\ a = (a \div 65536) * 65536 + (a % 65536)
  OBVIOUS
<1>2. a \div 65536 < 256 BY <1>1 DEF EndOfSpace
<1>. QED BY <1>1, <1>2 DEF FullBank, Bank, Word

LEMMA PartsOf ==
  ASSUME NEW b \in Nat, b < 256, NEW w \in Nat, w < FullBank,
         NEW a, a = b * FullBank + w
  PROVE  /\ a \in Nat /\ a < EndOfSpace /\ Bank(a) = b /\ Word(a) = w
         /\ IsHigh(a) <=> w >= HalfBank
         /\ a % FourMegabytes = (b % 64) * FullBank + w
         /\ a % Megabyte = (b % 16) * FullBank + w
         /\ \A n : Half(a, n) = (b % n) * HalfBank + (w % HalfBank)
<1>1. a \in Nat /\ a < EndOfSpace /\ Bank(a) = b /\ Word(a) = w BY BankAndWord
<1>2. IsHigh(a) <=> w >= HalfBank BY <1>1 DEF IsHigh
<1>3. a % FourMegabytes = (b % 64) * FullBank + w BY DEF FourMegabytes, FullBank
<1>4. a % Megabyte = (b % 16) * FullBank + w BY DEF Megabyte, FullBank
<1>5. \A n : Half(a, n) = (b % n) * HalfBank + (w % HalfBank) BY <1>1 DEF Half
<1>. QED BY <1>1, <1>2, <1>3, <1>4, <1>5

\* The byte of an address that is shown.
LEMMA ShownByte ==
  ASSUME NEW m, NEW a \in Nat, a < EndOfSpace, snestopc(m, a) >= 0
  PROVE  ~Hidden(m, a) /\ snestopc(m, a) = RomByte(m, a)
BY InSpace

\* The bytes of a bank lie side by side: all of them, or those of each half; only
\* LoROM and ExLoROM show the low half of a bank as well as the high one.
LEMMA BankBytes ==
  ASSUME NEW m \in Selectable, NEW b \in Nat, b < 256
  PROVE  \E base \in Int :
           \/ \A w \in Nat : w < FullBank /\ snestopc(m, b * FullBank + w) >= 0
                => snestopc(m, b * FullBank + w) = base + w
           \/ \A w \in Nat : w < FullBank /\ snestopc(m, b * FullBank + w) >= 0
                => /\ snestopc(m, b * FullBank + w) = base + (w % HalfBank)
                   /\ m.name \notin {"lorom", "exlorom"} => w >= HalfBank
<1> DEFINE At(w) == b * FullBank + w
<1>1. ASSUME NEW w \in Nat, w < FullBank
      PROVE  /\ At(w) \in Nat /\ At(w) < EndOfSpace /\ Bank(At(w)) = b /\ Word(At(w)) = w
             /\ IsHigh(At(w)) <=> w >= HalfBank
             /\ At(w) % FourMegabytes = (b % 64) * FullBank + w
             /\ At(w) % Megabyte = (b % 16) * FullBank + w
             /\ \A n : Half(At(w), n) = (b % n) * HalfBank + (w % HalfBank)
  BY <1>1, PartsOf
<1>2. ASSUME NEW w \in Nat, w < FullBank, snestopc(m, At(w)) >= 0
      PROVE  ~Hidden(m, At(w)) /\ snestopc(m, At(w)) = RomByte(m, At(w))
  <2> DEFINE a == At(w)
  <2>1. a \in Nat /\ a < EndOfSpace /\ snestopc(m, a) >= 0 BY <1>1, <1>2
  <2> HIDE DEF a
  <2>2. ~Hidden(m, a) /\ snestopc(m, a) = RomByte(m, a) BY <2>1, ShownByte
  <2>. QED BY <2>2 DEF a
<1> HIDE DEF At
<1>3. SUFFICES \E base \in Int :
           \/ \A w \in Nat : w < FullBank /\ snestopc(m, At(w)) >= 0
                => snestopc(m, At(w)) = base + w
           \/ \A w \in Nat : w < FullBank /\ snestopc(m, At(w)) >= 0
                => /\ snestopc(m, At(w)) = base + (w % HalfBank)
                   /\ m.name \notin {"lorom", "exlorom"} => w >= HalfBank
  BY DEF At
<1> DEFINE Whole(base) == \A w \in Nat : w < FullBank /\ snestopc(m, At(w)) >= 0
                                          => snestopc(m, At(w)) = base + w
           Halves(base) == \A w \in Nat : w < FullBank /\ snestopc(m, At(w)) >= 0
                => /\ snestopc(m, At(w)) = base + (w % HalfBank)
                   /\ m.name \notin {"lorom", "exlorom"} => w >= HalfBank
<1>4. m.name \in Mappers
      /\ (m.name = "sa1rom" => \A i \in 0 .. 7 : m.banks[i] \in Int) BY SelectableIs
<1>5. CASE m.name = "lorom"
  <2>1. (b % 128) * HalfBank \in Int BY DEF HalfBank
  <2>2. Halves((b % 128) * HalfBank) BY <1>1, <1>2, <1>5 DEF RomByte
  <2>. QED BY <2>1, <2>2
<1>6. CASE m.name = "hirom"
  <2>1. (b % 64) * FullBank \in Int BY DEF FullBank
  <2>2. Whole((b % 64) * FullBank) BY <1>1, <1>2, <1>6 DEF RomByte
  <2>. QED BY <2>1, <2>2
<1>7. CASE m.name = "exhirom"
  <2> DEFINE base == (b % 64) * FullBank + (IF b >= 128 THEN 0 ELSE FourMegabytes)
  <2>1. base \in Int BY DEF FullBank, FourMegabytes
  <2>3. ASSUME NEW w \in Nat, w < FullBank, snestopc(m, At(w)) >= 0 PROVE snestopc(m, At(w)) = base + w
    <3>1. snestopc(m, At(w)) = (At(w) % FourMegabytes) + (IF b >= 128 THEN 0 ELSE FourMegabytes)
      BY <1>1, <1>2, <1>7, <2>3 DEF RomByte
    <3>. QED BY <1>1, <2>3, <3>1 DEF FullBank, FourMegabytes
  <2>2. Whole(base) BY <2>3
  <2>. QED BY <2>1, <2>2
<1>8. CASE m.name = "exlorom"
  <2> DEFINE base == (b % 128) * HalfBank + (IF b >= 128 THEN 0 ELSE FourMegabytes)
  <2>1. base \in Int BY DEF HalfBank, FourMegabytes
  <2>3. ASSUME NEW w \in Nat, w < FullBank, snestopc(m, At(w)) >= 0
        PROVE snestopc(m, At(w)) = base + (w % HalfBank)
    <3>1. snestopc(m, At(w)) = Half(At(w), 128) + (IF b >= 128 THEN 0 ELSE FourMegabytes)
      BY <1>1, <1>2, <1>8, <2>3 DEF RomByte
    <3>2. Half(At(w), 128) = (b % 128) * HalfBank + (w % HalfBank) BY <1>1, <2>3
    <3>. QED BY <3>1, <3>2 DEF HalfBank, FourMegabytes
  <2>2. Halves(base) BY <2>3, <1>8
  <2>. QED BY <2>1, <2>2
<1>9. CASE m.name = "sfxrom"
  <2>1. CASE Bit(b, 64)
    <3>1. (b % 64) * FullBank \in Int BY DEF FullBank
    <3>2. Whole((b % 64) * FullBank) BY <1>1, <1>2, <1>9, <2>1 DEF RomByte
    <3>. QED BY <3>1, <3>2
  <2>2. CASE ~Bit(b, 64)
    <3>1. (b % 128) * HalfBank \in Int BY DEF HalfBank
    <3>2. Halves((b % 128) * HalfBank) BY <1>1, <1>2, <1>9, <2>2 DEF RomByte, Hidden, System
    <3>. QED BY <3>1, <3>2
  <2>. QED BY <2>1, <2>2
<1>10. CASE m.name = "sa1rom"
  <2>1. CASE b >= 192
    <3> DEFINE s == m.banks[Slot(b)]
               base == s * Megabyte + (b % 16) * FullBank
    <3>1. Slot(b) \in 0 .. 7 BY DEF Slot
    <3>2. s \in Int BY <3>1, <1>4, <1>10
    <3>3. ASSUME NEW w \in Nat, w < FullBank, snestopc(m, At(w)) >= 0
          PROVE  snestopc(m, At(w)) = s * Megabyte + (At(w) % Megabyte)
      BY <1>1, <1>2, <1>10, <2>1, <3>3 DEF RomByte
    <3> HIDE DEF s
    <3>4. base \in Int BY <3>2 DEF Megabyte, FullBank
    <3>5. ASSUME NEW w \in Nat, w < FullBank, snestopc(m, At(w)) >= 0
          PROVE  snestopc(m, At(w)) = base + w
      <4>1. At(w) % Megabyte = (b % 16) * FullBank + w BY <1>1, <3>5
      <4>2. snestopc(m, At(w)) = s * Megabyte + (At(w) % Megabyte) BY <3>3, <3>5
      <4>. QED BY <4>1, <4>2, <3>2 DEF FullBank, Megabyte
    <3>6. Whole(base) BY <3>5
    <3>. QED BY <3>4, <3>6
  <2>2. CASE ~(b >= 192)
    <3> DEFINE s == m.banks[b \div 32]
               base == s * Megabyte + (b % 32) * HalfBank
    <3>1. b \div 32 \in 0 .. 7 OBVIOUS
    <3>2. s \in Int BY <3>1, <1>4, <1>10
    <3>3. ASSUME NEW w \in Nat, w < FullBank, snestopc(m, At(w)) >= 0
          PROVE  snestopc(m, At(w)) = s * Megabyte + Half(At(w), 32) /\ w >= HalfBank
      BY <1>1, <1>2, <1>10, <2>2, <3>3 DEF RomByte, Hidden
    <3> HIDE DEF s
    <3>4. base \in Int BY <3>2 DEF Megabyte, HalfBank
    <3>5. ASSUME NEW w \in Nat, w < FullBank, snestopc(m, At(w)) >= 0
          PROVE  snestopc(m, At(w)) = base + (w % HalfBank)
      <4>1. Half(At(w), 32) = (b % 32) * HalfBank + (w % HalfBank) BY <1>1, <3>5
      <4>2. snestopc(m, At(w)) = s * Megabyte + Half(At(w), 32) BY <3>3, <3>5
      <4>. QED BY <4>1, <4>2, <3>2 DEF HalfBank, Megabyte
    <3>6. Halves(base) BY <3>3, <3>5
    <3>. QED BY <3>4, <3>6
  <2>. QED BY <2>1, <2>2
<1>11. CASE m.name = "fullsa1rom"
  <2>1. CASE b >= 192
    <3> DEFINE base == FourMegabytes + (b % 64) * FullBank
    <3>1. base \in Int BY DEF FullBank, FourMegabytes
    <3>2. ASSUME NEW w \in Nat, w < FullBank, snestopc(m, At(w)) >= 0
          PROVE  snestopc(m, At(w)) = base + w
      <4>1. snestopc(m, At(w)) = FourMegabytes + (At(w) % FourMegabytes)
        BY <1>1, <1>2, <1>11, <2>1, <3>2 DEF RomByte
      <4>. QED BY <1>1, <3>2, <4>1 DEF FullBank, FourMegabytes
    <3>3. Whole(base) BY <3>2
    <3>. QED BY <3>1, <3>3
  <2>2. CASE ~(b >= 192)
    <3> DEFINE base == (IF b >= 128 THEN 2 * Megabyte ELSE 0) + (b % 64) * HalfBank
    <3>1. base \in Int BY DEF HalfBank, Megabyte
    <3>2. ASSUME NEW w \in Nat, w < FullBank, snestopc(m, At(w)) >= 0
          PROVE  snestopc(m, At(w)) = base + (w % HalfBank) /\ w >= HalfBank
      <4>1. /\ snestopc(m, At(w)) = (IF b >= 128 THEN 2 * Megabyte ELSE 0) + Half(At(w), 64)
            /\ w >= HalfBank
        BY <1>1, <1>2, <1>11, <2>2, <3>2 DEF RomByte, Hidden
      <4>2. Half(At(w), 64) = (b % 64) * HalfBank + (w % HalfBank) BY <1>1, <3>2
      <4>. QED BY <4>1, <4>2 DEF HalfBank, Megabyte
    <3>3. Halves(base) BY <3>2
    <3>. QED BY <3>1, <3>3
  <2>. QED BY <2>1, <2>2
<1>12. CASE m.name = "norom"
  <2>1. b * FullBank \in Int BY DEF FullBank
  <2>2. \A w \in Nat : At(w) = b * FullBank + w BY DEF At
  <2>3. Whole(b * FullBank) BY <1>2, <1>12, <2>2 DEF RomByte
  <2>. QED BY <2>1, <2>3
<1>. QED BY <1>4, <1>5, <1>6, <1>7, <1>8, <1>9, <1>10, <1>11, <1>12 DEF Mappers

\* So many bytes further on in a bank, or in its half.
LEMMA SameBank ==
  ASSUME NEW m \in Selectable, NEW a \in Nat, NEW d \in Nat, a + d < EndOfSpace,
         Bank(a + d) = Bank(a), snestopc(m, a) >= 0, snestopc(m, a + d) >= 0,
         m.name \in {"lorom", "exlorom"} => (IsHigh(a) <=> IsHigh(a + d))
  PROVE  snestopc(m, a + d) = snestopc(m, a) + d
<1>0. a < EndOfSpace /\ a + d \in Nat BY DEF EndOfSpace
<1>1. PICK b, w \in Nat : b < 256 /\ w < FullBank /\ a = b * FullBank + w /\ Bank(a) = b /\ Word(a) = w
  BY <1>0, AddressIs
<1>2. PICK c, v \in Nat : /\ c < 256 /\ v < FullBank /\ a + d = c * FullBank + v
                          /\ Bank(a + d) = c /\ Word(a + d) = v
  BY <1>0, AddressIs
<1>3. c = b /\ v = w + d BY <1>1, <1>2 DEF FullBank
<1>4. (IsHigh(a) <=> w >= HalfBank) /\ (IsHigh(a + d) <=> v >= HalfBank) BY <1>1, <1>2 DEF IsHigh
<1>5. PICK base \in Int :
           \/ \A x \in Nat : x < FullBank /\ snestopc(m, b * FullBank + x) >= 0
                => snestopc(m, b * FullBank + x) = base + x
           \/ \A x \in Nat : x < FullBank /\ snestopc(m, b * FullBank + x) >= 0
                => /\ snestopc(m, b * FullBank + x) = base + (x % HalfBank)
                   /\ m.name \notin {"lorom", "exlorom"} => x >= HalfBank
  BY <1>1, BankBytes
<1>6. CASE \A x \in Nat : x < FullBank /\ snestopc(m, b * FullBank + x) >= 0
                => snestopc(m, b * FullBank + x) = base + x
  <2>1. snestopc(m, a) = base + w BY <1>1, <1>6
  <2>2. snestopc(m, a + d) = base + v BY <1>2, <1>3, <1>6
  <2>. QED BY <2>1, <2>2, <1>3
<1>7. CASE \A x \in Nat : x < FullBank /\ snestopc(m, b * FullBank + x) >= 0
                => /\ snestopc(m, b * FullBank + x) = base + (x % HalfBank)
                   /\ m.name \notin {"lorom", "exlorom"} => x >= HalfBank
  <2>1. snestopc(m, a) = base + (w % HalfBank) /\ (m.name \notin {"lorom", "exlorom"} => w >= HalfBank)
    BY <1>1, <1>7
  <2>2. snestopc(m, a + d) = base + (v % HalfBank) /\ (m.name \notin {"lorom", "exlorom"} => v >= HalfBank)
    BY <1>2, <1>3, <1>7
  <2>3. w >= HalfBank <=> v >= HalfBank BY <1>4, <2>1, <2>2
  <2>4. v % HalfBank = (w % HalfBank) + d BY <1>1, <1>2, <1>3, <2>3 DEF HalfBank, FullBank
  <2>5. w % HalfBank \in Int BY DEF HalfBank
  <2>. QED BY <2>1, <2>2, <2>4, <2>5
<1>. QED BY <1>5, <1>6, <1>7

\* A step from the end of a bank, over the low half of the next one.
LEMMA NextBank ==
  ASSUME NEW a \in Nat, a < EndOfSpace, Word(a) + 1 >= FullBank, Bank(a) < 255
  PROVE  /\ a + 1 + HalfBank < EndOfSpace /\ Bank(a + 1 + HalfBank) = Bank(a) + 1
         /\ Word(a + 1 + HalfBank) = HalfBank /\ Word(a) = FullBank - 1
<1>1. PICK b, w \in Nat : b < 256 /\ w < FullBank /\ a = b * FullBank + w /\ Bank(a) = b /\ Word(a) = w
  BY AddressIs
<1>2. w = FullBank - 1 BY <1>1 DEF FullBank
<1>3. a + 1 + HalfBank = (b + 1) * FullBank + HalfBank BY <1>1, <1>2 DEF FullBank, HalfBank
<1>4. b + 1 \in Nat /\ b + 1 < 256 /\ HalfBank \in Nat /\ HalfBank < FullBank
  BY <1>1 DEF HalfBank, FullBank
<1>. QED BY <1>1, <1>2, <1>3, <1>4, BankAndWord

LEMMA LastBank ==
  ASSUME NEW a \in Nat, a < EndOfSpace, Word(a) + 1 >= FullBank, ~(Bank(a) < 255)
  PROVE  a = EndOfSpace - 1
<1>1. PICK b, w \in Nat : b < 256 /\ w < FullBank /\ a = b * FullBank + w /\ Bank(a) = b /\ Word(a) = w
  BY AddressIs
<1>. QED BY <1>1 DEF FullBank, EndOfSpace

LEMMA InBank ==
  ASSUME NEW a \in Nat, a < EndOfSpace, ~(Word(a) + 1 >= FullBank)
  PROVE  a + 1 < EndOfSpace /\ Bank(a + 1) = Bank(a) /\ Word(a + 1) = Word(a) + 1
<1>1. PICK b, w \in Nat : b < 256 /\ w < FullBank /\ a = b * FullBank + w /\ Bank(a) = b /\ Word(a) = w
  BY AddressIs
<1>2. w + 1 \in Nat /\ w + 1 < FullBank BY <1>1 DEF FullBank
<1>3. a + 1 = b * FullBank + (w + 1) BY <1>1 DEF FullBank
<1>. QED BY <1>1, <1>2, <1>3, BankAndWord

LEMMA SmallMod ==
  ASSUME NEW a \in Nat, a < EndOfSpace
  PROVE  a % EndOfSpace = a
BY DEF EndOfSpace

\* The byte after one, by step, in each mapper.
Follows(m, a) ==
  LET t == fixsnespos(m, a, 1) IN
  /\ t \in Nat
  /\ snestopc(m, t % EndOfSpace) >= 0 => snestopc(m, a) < snestopc(m, t % EndOfSpace)
  /\ m.name \in {"lorom", "exlorom"} /\ IsHigh(a) => IsHigh(t % EndOfSpace)

LEMMA NextLoRom ==
  ASSUME NEW m \in Selectable, m.name = "lorom", NEW a \in Nat, a < EndOfSpace, snestopc(m, a) >= 0,
         snestopc(m, a) % FourMegabytes # FourMegabytes - 1,
         IsHigh(a) \/ snestopc(m, a) % HalfBank # HalfBank - 1
  PROVE  Follows(m, a)
<1>1. Bank(a) \in Nat /\ Bank(a) < 256 /\ Word(a) \in Nat /\ Word(a) < FullBank BY AddressIs
<1>2. snestopc(m, a) = Half(a, 128) BY ShownByte DEF RomByte
<1>3. snestopc(m, a) = (Bank(a) % 128) * HalfBank + (Word(a) % HalfBank) BY <1>2 DEF Half
<1>4. CASE Word(a) + 1 >= FullBank
  <2>1. Bank(a) # 127 /\ Bank(a) # 255
    <3>1. Word(a) = FullBank - 1 BY <1>1, <1>4 DEF FullBank
    <3>. QED BY <1>3, <3>1 DEF FullBank, HalfBank, FourMegabytes
  <2> DEFINE t == a + 1 + HalfBank
  <2>2. fixsnespos(m, a, 1) = t BY <1>4 DEF fixsnespos
  <2>3. t < EndOfSpace /\ Bank(t) = Bank(a) + 1 /\ Word(t) = HalfBank /\ Word(a) = FullBank - 1
    BY <1>1, <1>4, <2>1, NextBank
  <2>4. t \in Nat BY DEF HalfBank
  <2> HIDE DEF t
  <2>5. t % EndOfSpace = t BY <2>3, <2>4, SmallMod
  <2>6. IsHigh(t) BY <2>3 DEF IsHigh, HalfBank
  <2>7. ASSUME snestopc(m, t) >= 0 PROVE snestopc(m, a) < snestopc(m, t)
    <3>1. snestopc(m, t) = Half(t, 128) BY <2>3, <2>4, <2>7, ShownByte DEF RomByte
    <3>2. snestopc(m, t) = ((Bank(a) + 1) % 128) * HalfBank + (HalfBank % HalfBank) BY <3>1, <2>3 DEF Half
    <3>3. (Bank(a) + 1) % 128 = (Bank(a) % 128) + 1 BY <1>1, <2>1
    <3>. QED BY <1>1, <1>3, <2>3, <3>2, <3>3 DEF HalfBank, FullBank
  <2>. QED BY <2>2, <2>4, <2>5, <2>6, <2>7 DEF Follows
<1>5. CASE ~(Word(a) + 1 >= FullBank)
  <2>1. a + 1 < EndOfSpace /\ Bank(a + 1) = Bank(a) /\ Word(a + 1) = Word(a) + 1 BY <1>5, InBank
  <2>2. fixsnespos(m, a, 1) = a + 1 BY <1>5 DEF fixsnespos
  <2>3. (a + 1) % EndOfSpace = a + 1 /\ a + 1 \in Nat BY <2>1, SmallMod
  <2>4. IsHigh(a) <=> IsHigh(a + 1)
    <3>1. CASE IsHigh(a) BY <1>1, <2>1, <3>1 DEF IsHigh, HalfBank
    <3>2. CASE ~IsHigh(a)
      <4>1. Word(a) # HalfBank - 1 BY <1>1, <1>3, <3>2 DEF HalfBank
      <4>. QED BY <1>1, <2>1, <3>2, <4>1 DEF IsHigh, HalfBank
    <3>. QED BY <3>1, <3>2
  <2>5. ASSUME snestopc(m, a + 1) >= 0 PROVE snestopc(m, a) < snestopc(m, a + 1)
    <3>1. snestopc(m, a + 1) = snestopc(m, a) + 1 BY <2>1, <2>4, <2>5, SameBank
    <3>2. snestopc(m, a) \in Int BY <1>1, <1>3 DEF HalfBank
    <3>. QED BY <3>1, <3>2
  <2>. QED BY <2>2, <2>3, <2>4, <2>5 DEF Follows
<1>. QED BY <1>4, <1>5

LEMMA NextHiRom ==
  ASSUME NEW m \in Selectable, m.name \in {"hirom", "exhirom"},
         NEW a \in Nat, a < EndOfSpace, snestopc(m, a) >= 0,
         snestopc(m, a) % FourMegabytes # FourMegabytes - 1
  PROVE  Follows(m, a)
<1> DEFINE Upper(x) == IF m.name = "exhirom" /\ ~(Bank(x) >= 128) THEN FourMegabytes ELSE 0
<1>1. PICK b, w \in Nat : b < 256 /\ w < FullBank /\ a = b * FullBank + w /\ Bank(a) = b /\ Word(a) = w
  BY AddressIs
<1>2. ASSUME NEW x \in Nat, x < EndOfSpace, snestopc(m, x) >= 0
      PROVE  snestopc(m, x) = (x % FourMegabytes) + Upper(x)
  <2>1. snestopc(m, x) = RomByte(m, x) BY <1>2, ShownByte
  <2>2. CASE m.name = "hirom"
    <3>1. snestopc(m, x) = x % FourMegabytes /\ Upper(x) = 0 BY <2>1, <2>2 DEF RomByte
    <3>. QED BY <3>1 DEF FourMegabytes
  <2>3. CASE m.name = "exhirom" BY <2>1, <2>3 DEF RomByte
  <2>. QED BY <2>2, <2>3
<1>3. \A x : Upper(x) \in {0, FourMegabytes} /\ (m.name = "hirom" => Upper(x) = 0)
             /\ (m.name = "exhirom" => Upper(x) = IF Bank(x) >= 128 THEN 0 ELSE FourMegabytes)
  OBVIOUS
<1> HIDE DEF Upper
<1>4. a % FourMegabytes # FourMegabytes - 1
  <2>1. snestopc(m, a) = (a % FourMegabytes) + Upper(a) BY <1>2
  <2>. QED BY <2>1, <1>3 DEF FourMegabytes
<1>5. ASSUME NEW t \in Nat, t < EndOfSpace, t > a, fixsnespos(m, a, 1) = t,
             t % FourMegabytes > a % FourMegabytes, Upper(t) = Upper(a)
      PROVE  Follows(m, a)
  <2>1. t % EndOfSpace = t BY <1>5, SmallMod
  <2>2. ASSUME snestopc(m, t) >= 0 PROVE snestopc(m, a) < snestopc(m, t)
    <3>1. snestopc(m, t) = (t % FourMegabytes) + Upper(t) BY <1>5, <2>2, <1>2
    <3>2. snestopc(m, a) = (a % FourMegabytes) + Upper(a) BY <1>2
    <3>. QED BY <1>3, <1>5, <3>1, <3>2 DEF FourMegabytes
  <2>. QED BY <1>5, <2>1, <2>2 DEF Follows
<1>6. CASE ~Bit(b, 64) /\ w + 1 >= FullBank
  <2>1. b # 63 /\ b # 191 /\ b # 127 /\ b # 255
    <3>1. w = FullBank - 1 BY <1>1, <1>6 DEF FullBank
    <3>2. b # 63 /\ b # 191 BY <1>1, <1>4, <3>1 DEF FullBank, FourMegabytes
    <3>. QED BY <1>6, <3>2 DEF Bit
  <2> DEFINE t == a + 1 + HalfBank
  <2>2. t < EndOfSpace /\ Bank(t) = b + 1 /\ Word(t) = HalfBank BY <1>1, <1>6, <2>1, NextBank
  <2>3. t \in Nat /\ t > a BY DEF HalfBank
  <2>4. fixsnespos(m, a, 1) = t BY <1>1, <1>6 DEF fixsnespos
  <2>5. t % FourMegabytes > a % FourMegabytes
    <3>1. b % 64 < 63 BY <1>1, <2>1
    <3>. QED BY <1>1, <1>6, <3>1 DEF FullBank, HalfBank, FourMegabytes
  <2> HIDE DEF t
  <2>6. Upper(t) = Upper(a) BY <1>1, <1>3, <2>1, <2>2
  <2>. QED BY <1>5, <2>2, <2>3, <2>4, <2>5, <2>6
<1>7. CASE ~(~Bit(b, 64) /\ w + 1 >= FullBank)
  <2>1. fixsnespos(m, a, 1) = a + 1 BY <1>1, <1>7 DEF fixsnespos
  <2>2. a + 1 < EndOfSpace /\ (a + 1) % FourMegabytes > a % FourMegabytes
    BY <1>4 DEF EndOfSpace, FourMegabytes
  <2>3. PICK c, v \in Nat : /\ c < 256 /\ v < FullBank /\ a + 1 = c * FullBank + v /\ Bank(a + 1) = c
    BY <2>2, AddressIs
  <2>4. c >= 128 <=> b >= 128 BY <1>1, <1>4, <2>3 DEF FullBank, FourMegabytes
  <2>5. Upper(a + 1) = Upper(a) BY <1>1, <1>3, <2>3, <2>4
  <2>. QED BY <1>5, <2>1, <2>2, <2>5
<1>. QED BY <1>6, <1>7

LEMMA NextExLoRom ==
  ASSUME NEW m \in Selectable, m.name = "exlorom", NEW a \in Nat, a < EndOfSpace, snestopc(m, a) >= -1
  PROVE  fixsnespos(m, a, 1) \in Nat /\ (snestopc(m, a) >= 0 => Follows(m, a))
<1> DEFINE p == snestopc(m, a) + 1
           t == pctosnes(m, p)
<1>0. fixsnespos(m, a, 1) = t BY DEF fixsnespos
<1>1. p \in Nat /\ p < 2 * FourMegabytes
  <2>1. CASE Hidden(m, a) BY <2>1, InSpace DEF FourMegabytes
  <2>2. CASE ~Hidden(m, a)
    <3>1. PICK b, w \in Nat : b < 256 /\ w < FullBank /\ a = b * FullBank + w /\ Bank(a) = b /\ Word(a) = w
      BY AddressIs
    <3>2. snestopc(m, a) = Half(a, 128) + (IF b >= 128 THEN 0 ELSE FourMegabytes)
      BY <2>2, <3>1, InSpace DEF RomByte
    <3>3. Half(a, 128) = (b % 128) * HalfBank + (w % HalfBank) BY <3>1 DEF Half
    <3>4. b >= 128 \/ b < 112 BY <2>2, <3>1 DEF Hidden
    <3>5. w % HalfBank \in Nat /\ w % HalfBank < HalfBank BY DEF HalfBank
    <3>. QED BY <3>1, <3>2, <3>3, <3>4, <3>5 DEF HalfBank, FourMegabytes
  <2>. QED BY <2>1, <2>2
<1>1a. snestopc(m, a) \in Int /\ snestopc(m, a) = p - 1
  <2>1. CASE Hidden(m, a) BY <2>1, InSpace
  <2>2. CASE ~Hidden(m, a)
    <3>1. snestopc(m, a) = Half(a, 128) + (IF Bank(a) >= 128 THEN 0 ELSE FourMegabytes)
      BY <2>2, InSpace DEF RomByte
    <3>2. Half(a, 128) \in Int BY DEF Half, HalfBank, Bank, Word, FullBank
    <3>. QED BY <3>1, <3>2 DEF FourMegabytes
  <2>. QED BY <2>1, <2>2
<1> HIDE DEF p
<1>2. PICK k, q, r \in Nat : /\ q < 128 /\ r < HalfBank /\ p = k * (128 * HalfBank) + q * HalfBank + r
                             /\ HalfAt(p, 128) = q * FullBank + HalfBank + r
  BY <1>1, HalfBanks
<1>3. \E c \in Nat : c < 256 /\ t = c * FullBank + HalfBank + r
  <2>1. t = HalfAt(p, 128) + (IF p >= FourMegabytes THEN 0 ELSE Mirror80)
    BY <1>1 DEF pctosnes, FourMegabytes
  <2>2. CASE p >= FourMegabytes
    <3>1. t = q * FullBank + HalfBank + r BY <1>2, <2>1, <2>2 DEF FullBank, HalfBank
    <3>. QED BY <1>2, <3>1
  <2>3. CASE ~(p >= FourMegabytes)
    <3>1. t = (q + 128) * FullBank + HalfBank + r BY <1>2, <2>1, <2>3 DEF FullBank, HalfBank, Mirror80
    <3>. QED BY <1>2, <3>1
  <2>. QED BY <2>2, <2>3
<1>4. t \in Nat /\ t < EndOfSpace /\ IsHigh(t) BY <1>2, <1>3, HighHalf
<1>5. snestopc(m, t) = IF p < FourMegabytes + 112 * HalfBank THEN p ELSE -1 BY <1>1, ExLoRom
<1> HIDE DEF t
<1>6. t % EndOfSpace = t BY <1>4, SmallMod
<1>. QED BY <1>0, <1>1, <1>1a, <1>4, <1>5, <1>6 DEF Follows

LEMMA NextFullSA1 ==
  ASSUME NEW m \in Selectable, m.name = "fullsa1rom", NEW a \in Nat, a < EndOfSpace, snestopc(m, a) >= 0,
         snestopc(m, a) % (2 * FourMegabytes) # 2 * FourMegabytes - 1
  PROVE  Follows(m, a)
<1> DEFINE p == snestopc(m, a)
           t == pctosnes(m, p + 1)
<1>1. fixsnespos(m, a, 1) = t BY DEF fixsnespos
<1>2. p \in Nat /\ p < 2 * FourMegabytes
  <2>1. PICK b, w \in Nat : b < 256 /\ w < FullBank /\ a = b * FullBank + w /\ Bank(a) = b /\ Word(a) = w
    BY AddressIs
  <2>2. p = RomByte(m, a) BY ShownByte
  <2>3. CASE b >= 192
    <3>1. p = FourMegabytes + (a % FourMegabytes) BY <2>1, <2>2, <2>3 DEF RomByte
    <3>. QED BY <3>1 DEF FourMegabytes
  <2>4. CASE ~(b >= 192)
    <3>1. p = (IF b >= 128 THEN 2 * Megabyte ELSE 0) + Half(a, 64) BY <2>1, <2>2, <2>4 DEF RomByte
    <3>2. Half(a, 64) = (b % 64) * HalfBank + (w % HalfBank) BY <2>1 DEF Half
    <3>3. w % HalfBank \in Nat /\ w % HalfBank < HalfBank BY DEF HalfBank
    <3>. QED BY <2>1, <3>1, <3>2, <3>3 DEF Megabyte, HalfBank, FourMegabytes
  <2>. QED BY <2>3, <2>4
<1>2a. p + 1 < 2 * FourMegabytes /\ p + 1 \in Nat BY <1>2 DEF FourMegabytes
<1> HIDE DEF p
<1>3. snestopc(m, t) = p + 1 BY <1>2a, FullSA1Rom
<1> HIDE DEF t
<1>4. t \in 0 .. EndOfSpace - 1
  <2>1. t \notin 0 .. EndOfSpace - 1 => snestopc(m, t) = -1 BY Zenon DEF snestopc
  <2>. QED BY <1>2, <1>3, <2>1
<1>5. t \in Nat /\ t < EndOfSpace
  <2>1. EndOfSpace \in Nat BY DEF EndOfSpace
  <2>. QED BY <1>4, <2>1
<1>6. t % EndOfSpace = t BY <1>5, SmallMod
<1>7. snestopc(m, a) < snestopc(m, t % EndOfSpace) BY <1>2, <1>3, <1>6 DEF p
<1>. QED BY <1>1, <1>5, <1>7 DEF Follows

LEMMA NextNoRom ==
  ASSUME NEW m \in Selectable, m.name = "norom", NEW a \in Nat, a < EndOfSpace,
         snestopc(m, a) % EndOfSpace # EndOfSpace - 1
  PROVE  Follows(m, a)
<1>1. \A x \in Nat : x < EndOfSpace => snestopc(m, x) = x BY InSpace DEF Hidden, RomByte
<1>2. a + 1 \in Nat /\ a + 1 < EndOfSpace BY <1>1 DEF EndOfSpace
<1>3. (a + 1) % EndOfSpace = a + 1 BY <1>2, SmallMod
<1>4. fixsnespos(m, a, 1) = a + 1 BY DEF fixsnespos
<1>. QED BY <1>1, <1>2, <1>3, <1>4 DEF Follows

\* The megabyte of the ROM that an address of the SA-1 is in, and the place in it.
SlotAt(b) == IF b >= 192 THEN Slot(b) ELSE b \div 32
NextSlot(i, j) ==
  \/ i = 0 /\ j = 1
  \/ i = 1 /\ j = 4
  \/ i = 4 /\ j = 5
LEMMA SA1Byte ==
  ASSUME NEW m \in Selectable, m.name = "sa1rom",
         NEW b \in Nat, b < 256, NEW w \in Nat, w < FullBank, NEW a, a = b * FullBank + w,
         snestopc(m, a) >= 0
  PROVE  LET r == IF b >= 192 THEN (b % 16) * FullBank + w ELSE (b % 32) * HalfBank + (w % HalfBank)
         IN  /\ SlotAt(b) \in {0, 1, 4, 5} /\ m.banks[SlotAt(b)] \in Nat
             /\ r \in Nat /\ r < Megabyte
             /\ snestopc(m, a) = m.banks[SlotAt(b)] * Megabyte + r
             /\ b < 192 => ~Bit(b, 64) /\ w >= HalfBank
<1> DEFINE r == IF b >= 192 THEN (b % 16) * FullBank + w ELSE (b % 32) * HalfBank + (w % HalfBank)
<1>1. /\ a \in Nat /\ a < EndOfSpace /\ Bank(a) = b /\ Word(a) = w /\ (IsHigh(a) <=> w >= HalfBank)
      /\ a % Megabyte = (b % 16) * FullBank + w
      /\ Half(a, 32) = (b % 32) * HalfBank + (w % HalfBank)
  BY PartsOf
<1>2. ~Hidden(m, a) /\ snestopc(m, a) = RomByte(m, a) BY <1>1, ShownByte
<1>3. b < 192 => ~Bit(b, 64) /\ w >= HalfBank BY <1>1, <1>2 DEF Hidden
<1>4. SlotAt(b) \in {0, 1, 4, 5}
  <2>1. CASE b >= 192 BY <2>1 DEF SlotAt, Slot
  <2>2. CASE ~(b >= 192) BY <1>3, <2>2 DEF SlotAt, Bit
  <2>. QED BY <2>1, <2>2
<1>5. m.banks[SlotAt(b)] \in Nat BY <1>4, SelectableIs DEF Megabytes
<1>6. r \in Nat /\ r < Megabyte
  <2>1. w % HalfBank \in Nat /\ w % HalfBank < HalfBank BY DEF HalfBank
  <2>2. b % 16 \in 0 .. 15 /\ b % 32 \in 0 .. 31 OBVIOUS
  <2>. QED BY <2>1, <2>2 DEF FullBank, HalfBank, Megabyte
<1>7. snestopc(m, a) = m.banks[SlotAt(b)] * Megabyte + r
  <2>1. CASE b >= 192
    <3>1. RomByte(m, a) = m.banks[Slot(b)] * Megabyte + (a % Megabyte) BY <1>1, <2>1 DEF RomByte
    <3>. QED BY <1>1, <1>2, <2>1, <3>1 DEF SlotAt
  <2>2. CASE ~(b >= 192)
    <3>1. RomByte(m, a) = m.banks[b \div 32] * Megabyte + Half(a, 32) BY <1>1, <2>2 DEF RomByte
    <3>. QED BY <1>1, <1>2, <2>2, <3>1 DEF SlotAt
  <2>. QED BY <2>1, <2>2
<1>. QED BY <1>3, <1>4, <1>5, <1>6, <1>7

\* The slots of SA-1 in the order of the addresses; where they are the first four
\* megabytes, the ROM goes on from one to the next.
LEMMA NextSA1 ==
  ASSUME NEW m \in Selectable, m.name = "sa1rom", NEW a \in Nat, a < EndOfSpace, snestopc(m, a) >= 0,
         IF m = SA1Default THEN snestopc(m, a) % FourMegabytes # FourMegabytes - 1
         ELSE snestopc(m, a) % Megabyte # Megabyte - 1
  PROVE  Follows(m, a)
<1>1. PICK b, w \in Nat : b < 256 /\ w < FullBank /\ a = b * FullBank + w /\ Bank(a) = b /\ Word(a) = w
  BY AddressIs
<1> DEFINE R(c, v) == IF c >= 192 THEN (c % 16) * FullBank + v ELSE (c % 32) * HalfBank + (v % HalfBank)
<1>2. ASSUME NEW c \in Nat, c < 256, NEW v \in Nat, v < FullBank,
             snestopc(m, c * FullBank + v) >= 0
      PROVE  /\ SlotAt(c) \in {0, 1, 4, 5} /\ m.banks[SlotAt(c)] \in Nat
             /\ R(c, v) \in Nat /\ R(c, v) < Megabyte
             /\ snestopc(m, c * FullBank + v) = m.banks[SlotAt(c)] * Megabyte + R(c, v)
             /\ c < 192 => ~Bit(c, 64) /\ v >= HalfBank
  <2> DEFINE x == c * FullBank + v
  <2>1. x = c * FullBank + v /\ snestopc(m, x) >= 0 BY <1>2
  <2> HIDE DEF x
  <2>. QED BY <1>2, <2>1, SA1Byte
<1>3. /\ SlotAt(b) \in {0, 1, 4, 5} /\ m.banks[SlotAt(b)] \in Nat
      /\ R(b, w) \in Nat /\ R(b, w) < Megabyte
      /\ snestopc(m, a) = m.banks[SlotAt(b)] * Megabyte + R(b, w)
      /\ b < 192 => ~Bit(b, 64) /\ w >= HalfBank
  BY <1>1, <1>2
<1>4. m = SA1Default => m.banks[0] = 0 /\ m.banks[1] = 1 /\ m.banks[4] = 2 /\ m.banks[5] = 3
  BY DEF SA1Default, SA1, SA1Banks
\* It is enough that the address goes on in its slot, or from one slot to the next.
<1>5. ASSUME NEW c \in Nat, c < 256, NEW v \in Nat, v < FullBank,
             fixsnespos(m, a, 1) = c * FullBank + v,
             snestopc(m, c * FullBank + v) >= 0 =>
               \/ SlotAt(c) = SlotAt(b) /\ R(b, w) < R(c, v)
               \/ /\ R(b, w) = Megabyte - 1
                  /\ NextSlot(SlotAt(b), SlotAt(c)) \/ SlotAt(b) = 5
      PROVE  Follows(m, a)
  <2> DEFINE t == c * FullBank + v
  <2>1. t \in Nat /\ t < EndOfSpace BY <1>5, PartsOf
  <2>2. t % EndOfSpace = t BY <2>1, SmallMod
  <2>3. ASSUME snestopc(m, t) >= 0 PROVE snestopc(m, a) < snestopc(m, t)
    <3>1. /\ R(c, v) \in Nat /\ snestopc(m, t) = m.banks[SlotAt(c)] * Megabyte + R(c, v)
          /\ m.banks[SlotAt(c)] \in Nat
      BY <1>2, <1>5, <2>3
    <3>2. PICK rb \in Nat : rb = R(b, w) BY <1>3
    <3>3. PICK rc \in Nat : rc = R(c, v) BY <3>1
    <3>4. PICK p \in Nat : p = m.banks[SlotAt(b)] BY <1>3
    <3>5. PICK q \in Nat : q = m.banks[SlotAt(c)] BY <3>1
    <3>6. snestopc(m, a) = p * Megabyte + rb /\ snestopc(m, t) = q * Megabyte + rc
      BY <1>3, <3>1, <3>2, <3>3, <3>4, <3>5
    <3>7. rb # Megabyte - 1 \/ (m = SA1Default /\ p % 4 # 3)
      <4>1. CASE rb # Megabyte - 1 BY <4>1
      <4> SUFFICES ASSUME rb = Megabyte - 1 PROVE m = SA1Default /\ p % 4 # 3 BY <4>1, Zenon
      <4>2. (p * Megabyte + rb) % Megabyte = Megabyte - 1 BY DEF Megabyte
      <4>3. m = SA1Default BY <3>6, <4>2
      <4>4. (p * Megabyte + rb) % FourMegabytes # FourMegabytes - 1 BY <3>6, <4>3
      <4>5. p % 4 # 3 BY <4>4 DEF Megabyte, FourMegabytes
      <4>. QED BY <4>3, <4>5
    <3> HIDE DEF R, t
    <3>8. CASE SlotAt(c) = SlotAt(b) /\ R(b, w) < R(c, v)
      <4>1. p = q /\ rb < rc BY <3>2, <3>3, <3>4, <3>5, <3>8
      <4>. QED BY <3>6, <4>1 DEF Megabyte
    <3>9. CASE R(b, w) = Megabyte - 1 /\ SlotAt(b) = 5
      <4>1. p = 3 BY <1>4, <3>2, <3>4, <3>7, <3>9
      <4>. QED BY <3>2, <3>7, <3>9, <4>1
    <3>10. CASE R(b, w) = Megabyte - 1 /\ NextSlot(SlotAt(b), SlotAt(c))
      <4>1. m = SA1Default BY <3>2, <3>7, <3>10
      <4>2. q = p + 1
        <5>. QED BY <1>4, <3>4, <3>5, <3>10, <4>1 DEF NextSlot
      <4>3. rb = Megabyte - 1 BY <3>2, <3>10
      <4>. QED BY <3>6, <4>2, <4>3 DEF Megabyte
    <3>11. \/ SlotAt(c) = SlotAt(b) /\ R(b, w) < R(c, v)
           \/ /\ R(b, w) = Megabyte - 1
              /\ NextSlot(SlotAt(b), SlotAt(c)) \/ SlotAt(b) = 5
      BY <1>5, <2>3 DEF t
    <3>. QED BY <3>8, <3>9, <3>10, <3>11
  <2>. QED BY <1>5, <2>1, <2>2, <2>3 DEF Follows
<1>6. CASE ~Bit(b, 64) /\ w + 1 >= FullBank
  <2>1. b < 192
    <3>1. \A x \in Nat : x >= 192 /\ x < 256 => (x \div 64) % 2 = 1 OBVIOUS
    <3>. QED BY <1>1, <1>6, <3>1 DEF Bit
  <2>2. a + 1 + HalfBank = (b + 1) * FullBank + HalfBank BY <1>1, <1>6 DEF FullBank, HalfBank
  <2>3. fixsnespos(m, a, 1) = (b + 1) * FullBank + HalfBank BY <1>1, <1>6, <2>2 DEF fixsnespos
  <2>4. b + 1 \in Nat /\ b + 1 < 256 /\ HalfBank \in Nat /\ HalfBank < FullBank
    BY <1>1, <2>1 DEF HalfBank, FullBank
  <2>5. w = FullBank - 1 BY <1>1, <1>6 DEF FullBank
  <2>6. SlotAt(b) = b \div 32 /\ R(b, w) = (b % 32) * HalfBank + HalfBank - 1
    BY <1>1, <2>1, <2>5 DEF SlotAt, FullBank, HalfBank
  <2>7. CASE b = 191
    <3>1. SlotAt(b) = 5 /\ R(b, w) = Megabyte - 1 BY <2>6, <2>7 DEF HalfBank, Megabyte
    <3>. QED BY <1>5, <2>3, <2>4, <3>1
  <2>8. CASE b # 191
    <3>1. b + 1 < 192 BY <2>1, <2>8
    <3>2. SlotAt(b + 1) = (b + 1) \div 32 /\ R(b + 1, HalfBank) = ((b + 1) % 32) * HalfBank
      BY <3>1 DEF SlotAt, HalfBank
    <3>3. CASE b % 32 # 31
      <4>1. (b + 1) \div 32 = b \div 32 /\ (b + 1) % 32 = (b % 32) + 1 BY <3>3
      <4>2. SlotAt(b + 1) = SlotAt(b) /\ R(b, w) < R(b + 1, HalfBank)
        BY <2>6, <3>2, <4>1 DEF HalfBank
      <4>. QED BY <1>5, <2>3, <2>4, <4>2
    <3>4. CASE b % 32 = 31
      <4>1. R(b, w) = Megabyte - 1 BY <2>6, <3>4 DEF HalfBank, Megabyte
      <4>2. ASSUME snestopc(m, (b + 1) * FullBank + HalfBank) >= 0
            PROVE  NextSlot(SlotAt(b), SlotAt(b + 1))
        <5>1. SlotAt(b + 1) \in {0, 1, 4, 5} BY <1>2, <2>4, <4>2
        <5>2. SlotAt(b + 1) = SlotAt(b) + 1 BY <2>6, <3>2, <3>4
        <5>. QED BY <1>3, <2>1, <2>6, <5>1, <5>2 DEF NextSlot
      <4>. QED BY <1>5, <2>3, <2>4, <4>1, <4>2
    <3>. QED BY <3>3, <3>4
  <2>. QED BY <2>7, <2>8
<1>7. CASE ~(~Bit(b, 64) /\ w + 1 >= FullBank)
  <2>1. fixsnespos(m, a, 1) = a + 1 BY <1>1, <1>7 DEF fixsnespos
  <2>2. CASE w + 1 >= FullBank
    <3>1. w = FullBank - 1 BY <1>1, <2>2 DEF FullBank
    <3>2. b >= 192 BY <1>3, <1>7, <2>2
    <3>3. R(b, w) = (b % 16) * FullBank + FullBank - 1 BY <3>1, <3>2 DEF FullBank
    <3>4. CASE b = 255
      <4>1. a + 1 = EndOfSpace BY <1>1, <3>1, <3>4 DEF FullBank, EndOfSpace
      <4>2. m.banks[SlotAt(b)] * Megabyte + R(b, w) = m.banks[5] * Megabyte + Megabyte - 1
        BY <3>3, <3>4 DEF SlotAt, Slot, Bit, FullBank, Megabyte
      <4>3. PICK p \in Nat : p = m.banks[5] BY SelectableIs DEF Megabytes
      <4>4. snestopc(m, a) = p * Megabyte + Megabyte - 1 BY <1>3, <4>2, <4>3
      <4>5. (p * Megabyte + Megabyte - 1) % Megabyte = Megabyte - 1 BY DEF Megabyte
      <4>6. m = SA1Default BY <4>4, <4>5
      <4>7. p = 3 BY <1>4, <4>3, <4>6
      <4>8. snestopc(m, a) % FourMegabytes = FourMegabytes - 1 BY <4>4, <4>7 DEF Megabyte, FourMegabytes
      <4>. QED BY <4>6, <4>8
    <3>5. CASE b # 255
      <4>1. b + 1 \in Nat /\ b + 1 < 256 /\ 0 \in Nat /\ 0 < FullBank BY <1>1, <3>5 DEF FullBank
      <4>2. a + 1 = (b + 1) * FullBank + 0 BY <1>1, <3>1 DEF FullBank
      <4>3. R(b + 1, 0) = ((b + 1) % 16) * FullBank BY <3>2 DEF FullBank
      <4>4. SlotAt(b) = Slot(b) /\ SlotAt(b + 1) = Slot(b + 1) BY <3>2 DEF SlotAt
      <4>5. CASE b % 16 # 15
        <5>1. (b + 1) % 16 = (b % 16) + 1 /\ (b + 1) \div 16 = b \div 16 /\ (b + 1) \div 32 = b \div 32
          BY <4>5
        <5>2. Slot(b + 1) = Slot(b) BY <5>1, Zenon DEF Slot, Bit
        <5>3. R(b, w) < R(b + 1, 0) BY <3>3, <4>3, <5>1 DEF FullBank
        <5>. QED BY <1>5, <2>1, <4>1, <4>2, <4>4, <5>2, <5>3
      <4>6. CASE b % 16 = 15
        <5>1. R(b, w) = Megabyte - 1 BY <3>3, <4>6 DEF FullBank, Megabyte
        <5>2. b \in {207, 223, 239} BY <1>1, <3>2, <3>5, <4>6
        <5>3. NextSlot(SlotAt(b), SlotAt(b + 1))
          BY <4>4, <5>2 DEF Slot, Bit, NextSlot
        <5>. QED BY <1>5, <2>1, <4>1, <4>2, <5>1, <5>3
      <4>. QED BY <4>5, <4>6
    <3>. QED BY <3>4, <3>5
  <2>3. CASE ~(w + 1 >= FullBank)
    <3>1. w + 1 \in Nat /\ w + 1 < FullBank BY <1>1, <2>3 DEF FullBank
    <3>2. a + 1 = b * FullBank + (w + 1) BY <1>1 DEF FullBank
    <3>3. R(b, w) < R(b, w + 1)
      <4>1. CASE b >= 192 BY <4>1, <1>1 DEF FullBank
      <4>2. CASE ~(b >= 192)
        <5>1. w >= HalfBank BY <1>3, <4>2
        <5>2. (w + 1) % HalfBank = (w % HalfBank) + 1 /\ w % HalfBank \in Int
          BY <1>1, <2>3, <5>1 DEF HalfBank, FullBank
        <5>. QED BY <4>2, <5>2 DEF HalfBank
      <4>. QED BY <4>1, <4>2
    <3>. QED BY <1>1, <1>5, <2>1, <3>1, <3>2, <3>3
  <2>. QED BY <2>2, <2>3
<1>. QED BY <1>6, <1>7

\* Addresses, bytes and steps are numbers.
LEMMA RomByteType ==
  ASSUME NEW m \in Selectable, NEW a \in Int
  PROVE  snestopc(m, a) \in Int
<1>1. CASE a \notin 0 .. EndOfSpace - 1 \/ Hidden(m, a)
  <2>1. snestopc(m, a) = -1 BY <1>1, Zenon DEF snestopc
  <2>. QED BY <2>1
<1>2. CASE ~(a \notin 0 .. EndOfSpace - 1 \/ Hidden(m, a))
  <2>1. a \in Nat /\ a < EndOfSpace
    <3>1. EndOfSpace \in Nat BY DEF EndOfSpace
    <3>. QED BY <1>2, <3>1
  <2>2. snestopc(m, a) = RomByte(m, a) BY <1>2, <2>1, InSpace
  <2>3. PICK b, w \in Nat : b < 256 /\ w < FullBank /\ a = b * FullBank + w
    BY <2>1, AddressIs
  <2>4. /\ Bank(a) = b
        /\ a % FourMegabytes = (b % 64) * FullBank + w
        /\ a % Megabyte = (b % 16) * FullBank + w
        /\ \A n : Half(a, n) = (b % n) * HalfBank + (w % HalfBank)
    BY <2>3, PartsOf
  <2>5. m.name \in Mappers BY SelectableIs
  <2>6. Half(a, 128) \in Int /\ Half(a, 64) \in Int /\ Half(a, 32) \in Int BY <2>4 DEF HalfBank
  <2>7. a % FourMegabytes \in Int /\ a % Megabyte \in Int BY DEF FourMegabytes, Megabyte
  <2>8. CASE m.name = "sa1rom"
    <3>1. b \div 32 \in 0 .. 7 /\ Slot(b) \in 0 .. 7 BY <2>3 DEF Slot
    <3>2. PICK s \in Int : s = m.banks[b \div 32] BY <2>8, <3>1, SelectableIs
    <3>3. PICK u \in Int : u = m.banks[Slot(b)] BY <2>8, <3>1, SelectableIs
    <3>4. RomByte(m, a) = IF b >= 192 THEN u * Megabyte + (a % Megabyte) ELSE s * Megabyte + Half(a, 32)
      BY <2>4, <2>8, <3>2, <3>3 DEF RomByte
    <3>. QED BY <2>2, <2>6, <2>7, <3>4 DEF Megabyte
  <2>9. CASE m.name # "sa1rom"
    <3>1. RomByte(m, a) \in Int
      BY <2>4, <2>5, <2>6, <2>7, <2>9 DEF RomByte, Mappers, FourMegabytes, Megabyte
    <3>. QED BY <2>2, <3>1
  <2>. QED BY <2>8, <2>9
<1>. QED BY <1>1, <1>2

LEMMA StepType ==
  ASSUME NEW m \in Selectable, NEW a \in Nat, NEW n \in Int
  PROVE  fixsnespos(m, a, n) \in Int
<1>1. m.name \in Mappers BY SelectableIs
<1>2. CASE m.name \in {"exlorom", "fullsa1rom"}
  <2>1. fixsnespos(m, a, n) = pctosnes(m, snestopc(m, a) + n) BY <1>2 DEF fixsnespos
  <2>2. PICK p \in Int : p = snestopc(m, a) + n BY RomByteType
  <2>3. CASE p < 0 \/ p >= 2 * FourMegabytes
    <3>1. pctosnes(m, p) = -1 BY <1>2, <2>3 DEF pctosnes
    <3>. QED BY <2>1, <2>2, <3>1
  <2>4. CASE ~(p < 0 \/ p >= 2 * FourMegabytes)
    <3>1. CASE m.name = "exlorom"
      <4>1. pctosnes(m, p) = HalfAt(p, 128) + (IF p >= FourMegabytes THEN 0 ELSE Mirror80)
        BY <2>4, <3>1 DEF pctosnes
      <4>. QED BY <2>1, <2>2, <4>1 DEF HalfAt, HalfBank, FullBank, Mirror80
    <3>2. CASE m.name = "fullsa1rom"
      <4>1. pctosnes(m, p) = IF p >= FourMegabytes THEN BankC0 + (p % FourMegabytes)
                             ELSE HalfAt(p, 64) + (IF p >= 2 * Megabyte THEN Mirror80 ELSE 0)
        BY <2>4, <3>2 DEF pctosnes
      <4>. QED BY <2>1, <2>2, <4>1 DEF HalfAt, HalfBank, FullBank, Mirror80, BankC0, FourMegabytes
    <3>. QED BY <1>2, <3>1, <3>2
  <2>. QED BY <2>3, <2>4
<1>3. CASE m.name \notin {"exlorom", "fullsa1rom"}
  BY <1>1, <1>3 DEF fixsnespos, Mappers, HalfBank
<1>. QED BY <1>2, <1>3

\* A step forward is lost in no mapper but SuperFX and FullSA1.
LEMMA StepKept ==
  ASSUME NEW m \in Selectable, m.name \notin {"sfxrom", "fullsa1rom"}, NEW a \in Nat, a < EndOfSpace
  PROVE  fixsnespos(m, a, 1) \in Nat
<1>1. m.name \in Mappers BY SelectableIs
<1>2. CASE m.name = "exlorom"
  <2>1. snestopc(m, a) >= -1
    <3>1. CASE Hidden(m, a) BY <3>1, InSpace
    <3>2. CASE ~Hidden(m, a)
      <4>1. snestopc(m, a) = Half(a, 128) + (IF Bank(a) >= 128 THEN 0 ELSE FourMegabytes)
        BY <1>2, <3>2, InSpace DEF RomByte
      <4>2. Half(a, 128) \in Nat BY DEF Half, HalfBank, Bank, Word, FullBank
      <4>. QED BY <4>1, <4>2 DEF FourMegabytes
    <3>. QED BY <3>1, <3>2
  <2>. QED BY <1>2, <2>1, NextExLoRom
<1>3. CASE m.name # "exlorom"
  BY <1>1, <1>3 DEF fixsnespos, Mappers, HalfBank
<1>. QED BY <1>2, <1>3

(***************************************************************************)
(* The theorem                                                             *)
(***************************************************************************)

\* The byte that the address of byte p leads back to.  SA-1 has eight megabytes,
\* and takes those after them for the same again; the banks of RAM hide the end of
\* an ExLoROM and of an ExHiROM ROM, whose bytes have addresses all the same.
LedBackTo(m, p) ==
  CASE m.name = "sa1rom" -> p % (2 * FourMegabytes)
    [] m.name = "exlorom" -> IF p < FourMegabytes + 112 * HalfBank THEN p ELSE -1
    [] m.name = "exhirom" -> IF p < 126 * FullBank THEN p ELSE -1
    [] OTHER -> p

\* For every mapper that a command can select, and every place in the ROM: where
\* pctosnes (libsmw.h:127) answers with an address, snestopc (libsmw.h:20) takes it
\* back to the same byte, but for the ends of ExLoROM and ExHiROM that RAM hides.
\* Labels, freespaces and bank borders rest on the two being inverse to each other.
THEOREM RomAddress ==
  \A m \in Selectable, p \in Int :
    pctosnes(m, p) # -1 => snestopc(m, pctosnes(m, p)) = LedBackTo(m, p)
<1> SUFFICES ASSUME NEW m \in Selectable, NEW p \in Int, pctosnes(m, p) # -1
             PROVE  snestopc(m, pctosnes(m, p)) = LedBackTo(m, p)
  OBVIOUS
<1>1. m.name \in Mappers /\ (m.name = "sa1rom" => \A i \in 0 .. 7 : m.banks[i] >= 0 => i \in {0, 1, 4, 5})
  <2>1. CASE m \in { Plain(name) : name \in Mappers \ {"sa1rom"} } BY <2>1 DEF Plain
  <2>2. CASE m \in { SA1(b[1], b[2], b[3], b[4]) : b \in [1 .. 4 -> Megabytes] }
    BY <2>2 DEF SA1, SA1Banks, Mappers
  <2>. QED BY <2>1, <2>2 DEF Selectable
<1>2. p \in Nat BY DEF pctosnes
<1>3. CASE m.name = "lorom"
  <2>1. p < FourMegabytes BY <1>2, <1>3 DEF pctosnes, FourMegabytes
  <2>. QED BY <1>2, <1>3, <2>1, LoRom DEF LedBackTo
<1>4. CASE m.name = "hirom"
  <2>1. p < FourMegabytes BY <1>2, <1>4 DEF pctosnes, FourMegabytes
  <2>. QED BY <1>2, <1>4, <2>1, HiRom DEF LedBackTo
<1>5. CASE m.name = "exlorom"
  <2>1. p < 2 * FourMegabytes BY <1>2, <1>5 DEF pctosnes, FourMegabytes
  <2>. QED BY <1>2, <1>5, <2>1, ExLoRom DEF LedBackTo
<1>6. CASE m.name = "exhirom"
  <2>1. p < 2 * FourMegabytes BY <1>2, <1>6 DEF pctosnes, FourMegabytes
  <2>. QED BY <1>2, <1>6, <2>1, ExHiRom DEF LedBackTo
<1>7. CASE m.name = "sfxrom"
  <2>1. p < 2 * Megabyte BY <1>2, <1>7 DEF pctosnes, Megabyte
  <2>. QED BY <1>2, <1>7, <2>1, SuperFX DEF LedBackTo
<1>8. CASE m.name = "sa1rom"
  <2>1. p < EndOfSpace BY <1>2, <1>8 DEF pctosnes, EndOfSpace
  <2>. QED BY <1>1, <1>2, <1>8, <2>1, SA1Rom DEF LedBackTo
<1>9. CASE m.name = "fullsa1rom"
  <2>1. p < 2 * FourMegabytes BY <1>2, <1>9 DEF pctosnes, FourMegabytes
  <2>. QED BY <1>2, <1>9, <2>1, FullSA1Rom DEF LedBackTo
<1>10. CASE m.name = "norom"
  <2>1. p < EndOfSpace BY <1>2, <1>10 DEF pctosnes, EndOfSpace
  <2>. QED BY <1>2, <1>10, <2>1, NoRom DEF LedBackTo
<1>. QED BY <1>1, <1>3, <1>4, <1>5, <1>6, <1>7, <1>8, <1>9, <1>10 DEF Mappers

=============================================================================
