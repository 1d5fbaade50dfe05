-------------------------------- MODULE Mapper --------------------------------
(* Which byte of the ROM an address of the SNES names, in each mapper, and the  *)
(* way back (libsmw.h); the position that is so many bytes further on           *)
(* (fixsnespos, assembleblock.cpp).  A mapper is a record: its name and, for    *)
(* SA-1, the megabyte that each of its slots shows.                             *)
EXTENDS Integers

Mappers == {"lorom", "hirom", "exlorom", "exhirom", "sfxrom", "sa1rom", "fullsa1rom", "norom"}

HalfBank == 32768
FullBank == 65536
Megabyte == 1048576
FourMegabytes == 4194304
EndOfSpace == 16777216

Bank(a) == a \div FullBank
Word(a) == a % FullBank
Bit(n, value) == (n \div value) % 2 = 1
IsHigh(a) == Word(a) >= HalfBank
WRAM(a) == Bank(a) \in {126, 127}
\* Registers, and the mirrors of the low RAM: the low half of banks 00-3F and 80-BF.
System(a) == ~Bit(Bank(a), 64) /\ ~IsHigh(a)
\* The low or the high half of each bank, one after the other.
Half(a, banks) == (Bank(a) % banks) * HalfBank + (Word(a) % HalfBank)
HalfAt(p, banks) == ((p \div HalfBank) % banks) * FullBank + HalfBank + (p % HalfBank)

-----------------------------------------------------------------------------
Hidden(m, a) ==
  CASE m.name = "lorom"   -> WRAM(a) \/ System(a) \/ ((Bank(a) % 128) \div 16 = 7 /\ ~IsHigh(a))
    [] m.name \in {"hirom", "exhirom"} -> WRAM(a) \/ System(a)
    [] m.name = "exlorom" -> Bank(a) \div 16 = 7 \/ System(a)
    [] m.name = "sfxrom"  -> Bank(a) >= 96 \/ System(a)
    [] m.name \in {"sa1rom", "fullsa1rom"} -> Bank(a) < 192 /\ (Bit(Bank(a), 64) \/ ~IsHigh(a))
    [] m.name = "norom"   -> FALSE

Slot(b) == (IF Bit(b, 32) THEN 4 ELSE 0) + (IF Bit(b, 16) THEN 1 ELSE 0)
RomByte(m, a) ==
  LET b == Bank(a) IN
  CASE m.name = "lorom"   -> Half(a, 128)
    [] m.name = "hirom"   -> a % FourMegabytes
    [] m.name = "exlorom" -> Half(a, 128) + (IF b >= 128 THEN 0 ELSE FourMegabytes)
    [] m.name = "exhirom" -> (a % FourMegabytes) + (IF b >= 128 THEN 0 ELSE FourMegabytes)
    [] m.name = "sfxrom"  -> IF Bit(b, 64) THEN a % FourMegabytes ELSE Half(a, 128)
    [] m.name = "sa1rom"  -> IF b >= 192 THEN m.banks[Slot(b)] * Megabyte + (a % Megabyte)
                             ELSE m.banks[b \div 32] * Megabyte + Half(a, 32)
    [] m.name = "fullsa1rom" -> IF b >= 192 THEN FourMegabytes + (a % FourMegabytes)
                                ELSE (IF b >= 128 THEN 2 * Megabyte ELSE 0) + Half(a, 64)
    [] m.name = "norom"   -> a
snestopc(m, a) == IF a \notin 0 .. EndOfSpace - 1 \/ Hidden(m, a) THEN -1 ELSE RomByte(m, a)

-----------------------------------------------------------------------------
Mirror80 == 128 * FullBank
BankC0 == 192 * FullBank
\* The first slot that shows this megabyte, of slots 0, 1, 4 and 5: the others show none.
SlotOf(m, megabyte) ==
  LET slots == { i \in 0 .. 7 : m.banks[i] = megabyte }
  IN  IF slots = {} THEN -1 ELSE CHOOSE i \in slots : \A j \in slots : i <= j
pctosnes(m, p) ==
  LET limit == CASE m.name \in {"lorom", "hirom"} -> FourMegabytes
                 [] m.name \in {"exlorom", "exhirom", "fullsa1rom"} -> 2 * FourMegabytes
                 [] m.name = "sfxrom" -> 2 * Megabyte
                 [] OTHER -> EndOfSpace
      upper == p >= FourMegabytes
  IN
  IF p < 0 \/ p >= limit THEN -1
  ELSE CASE m.name = "lorom"   -> Mirror80 + HalfAt(p, 128)
         [] m.name = "hirom"   -> BankC0 + p
         [] m.name = "exlorom" -> HalfAt(p, 128) + (IF upper THEN 0 ELSE Mirror80)
         [] m.name = "exhirom" -> IF upper THEN p ELSE BankC0 + p
         [] m.name = "sfxrom"  -> HalfAt(p, 128)
         [] m.name = "sa1rom"  ->
              LET slot == SlotOf(m, (p \div Megabyte) % 8)
              IN  IF slot < 0 THEN -1 ELSE slot * 32 * FullBank + HalfAt(p, 32)
         [] m.name = "fullsa1rom" ->
              IF upper THEN BankC0 + (p % FourMegabytes)
              ELSE HalfAt(p, 64) + (IF p >= 2 * Megabyte THEN Mirror80 ELSE 0)
         [] m.name = "norom"   -> p

-----------------------------------------------------------------------------
\* A step that leaves its bank passes over the low half of the next one.  For
\* SuperFX the branch of the low banks ends without an answer if it stays.
fixsnespos_Lost(m, a, step) == IF Word(a) + step < FullBank THEN -1 ELSE a + step + HalfBank
fixsnespos(m, a, step) ==
  LET low == ~Bit(Bank(a), 64)
      leaves == Word(a) + step >= FullBank
  IN
  CASE m.name = "lorom" -> IF leaves THEN a + step + HalfBank ELSE a + step
    [] m.name \in {"hirom", "exhirom", "sa1rom"} ->
         IF low /\ leaves THEN a + step + HalfBank ELSE a + step
    [] m.name \in {"exlorom", "fullsa1rom"} -> pctosnes(m, snestopc(m, a) + step)
    [] m.name = "sfxrom" -> IF low THEN (IF leaves THEN a + step + HalfBank ELSE -1) ELSE a + step
    [] m.name = "norom" -> a + step

\* What a mapper command selects; sa1rom may name the megabytes of its slots.
SA1Banks(b0, b1, b4, b5) ==
  [i \in 0 .. 7 |-> CASE i = 0 -> b0 [] i = 1 -> b1 [] i = 4 -> b4 [] i = 5 -> b5 [] OTHER -> -1]
Plain(name) == [name |-> name, banks |-> <<>>]
SA1(b0, b1, b4, b5) == [name |-> "sa1rom", banks |-> SA1Banks(b0, b1, b4, b5)]
SA1Default == SA1(0, 1, 2, 3)
Megabytes == 0 .. 9
Selectable ==
  { Plain(name) : name \in Mappers \ {"sa1rom"} } \cup
  { SA1(b[1], b[2], b[3], b[4]) : b \in [1 .. 4 -> Megabytes] }
=============================================================================
