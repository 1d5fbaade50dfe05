------------------------- MODULE WrittenBlocksProofs ------------------------
(***************************************************************************)
(* Theorems about the list of written blocks, for every mapping of banks   *)
(* and every ROM that ends before the last byte of the last bank.          *)
(***************************************************************************)
EXTENDS WrittenBlocks, SequenceTheorems, TLAPS

-----------------------------------------------------------------------------
(***************************************************************************)
(* Arithmetic of banks                                                     *)
(***************************************************************************)

\* Division with remainder, and that there is only one way to do it.
LEMMA DivMod ==
  \A a \in Int, n \in Nat \ {0} :
    /\ a \div n \in Int /\ a % n \in 0 .. n - 1
    /\ a = n * (a \div n) + (a % n)
OBVIOUS

LEMMA MulMono == \A i, j \in Int, n \in Nat : i <= j => n * i <= n * j
OBVIOUS

LEMMA DivUnique ==
  ASSUME NEW n \in Nat \ {0}, NEW q \in Int, NEW r \in 0 .. n - 1
  PROVE  (n * q + r) \div n = q
<1> DEFINE a == n * q + r
<1>1. a \in Int OBVIOUS
<1>2. a = n * (a \div n) + (a % n) /\ a \div n \in Int /\ a % n \in 0 .. n - 1
  BY <1>1, DivMod
<1>3. ~(a \div n <= q - 1)
  <2>1. a \div n <= q - 1 => n * (a \div n) <= n * (q - 1) BY <1>2, MulMono
  <2>2. n * (q - 1) = n * q - n OBVIOUS
  <2>. QED BY <1>2, <2>1, <2>2
<1>4. ~(q + 1 <= a \div n)
  <2>1. q + 1 <= a \div n => n * (q + 1) <= n * (a \div n) BY <1>2, MulMono
  <2>2. n * (q + 1) = n * q + n OBVIOUS
  <2>. QED BY <1>2, <2>1, <2>2
<1>. QED BY <1>2, <1>3, <1>4

\* The SNES addresses, and where the bank of one ends.
Address == 0 .. Banks * BankSpan - 1
BankEnd(a) == BankSpan * (a \div BankSpan) + BankSpan

LEMMA BankOfAddress ==
  ASSUME NEW a \in Address
  PROVE  /\ BankOf(a) = a \div BankSpan /\ BankOf(a) \in 0 .. Banks - 1
         /\ BankEnd(a) \in Int /\ a < BankEnd(a) /\ BankEnd(a) - BankSpan <= a
         /\ BankEnd(a) <= Banks * BankSpan
<1> DEFINE q == a \div BankSpan
<1>1. BankSpan \in Nat \ {0} /\ Banks \in Nat \ {0} /\ a \in Int
  BY WrittenBlocksAssumption DEF Address
<1>2. q \in Int /\ a = BankSpan * q + (a % BankSpan) /\ a % BankSpan \in 0 .. BankSpan - 1
  BY <1>1, DivMod
<1>3. 0 <= q
  <2>1. q <= -1 => BankSpan * q <= BankSpan * (-1) BY <1>1, <1>2, MulMono
  <2>2. 0 <= a BY DEF Address
  <2>. QED BY <1>1, <1>2, <2>1, <2>2
<1>4. q <= Banks - 1
  <2>1. Banks <= q => BankSpan * Banks <= BankSpan * q BY <1>1, <1>2, MulMono
  <2>2. a < BankSpan * Banks BY <1>1 DEF Address
  <2>. QED BY <1>1, <1>2, <2>1, <2>2
<1>5. q % Banks = q BY <1>1, <1>2, <1>3, <1>4
<1>6. BankSpan * q + BankSpan <= BankSpan * Banks
  <2>1. BankSpan * (q + 1) <= BankSpan * Banks BY <1>1, <1>2, <1>4, MulMono
  <2>. QED BY <1>1, <1>2, <2>1
<1>. QED BY <1>1, <1>2, <1>3, <1>4, <1>5, <1>6 DEF BankOf, BankEnd

\* Of two addresses in different banks, the later one is after the earlier one's bank.
LEMMA BanksApart ==
  ASSUME NEW a \in Address, NEW b \in Address, a <= b
  PROVE  /\ BankOf(a) = BankOf(b) => BankEnd(a) = BankEnd(b)
         /\ BankOf(a) # BankOf(b) => BankEnd(a) <= b
         /\ b < BankEnd(a) => BankOf(a) = BankOf(b)
<1> DEFINE q == a \div BankSpan
           r == b \div BankSpan
<1>1. BankSpan \in Nat \ {0} /\ a \in Int /\ b \in Int
  BY WrittenBlocksAssumption DEF Address
<1>2. q \in Int /\ a = BankSpan * q + (a % BankSpan) /\ a % BankSpan \in 0 .. BankSpan - 1
  BY <1>1, DivMod
<1>3. r \in Int /\ b = BankSpan * r + (b % BankSpan) /\ b % BankSpan \in 0 .. BankSpan - 1
  BY <1>1, DivMod
<1>4. BankOf(a) = q /\ BankOf(b) = r BY BankOfAddress
<1>5. q <= r
  <2>1. r + 1 <= q => BankSpan * (r + 1) <= BankSpan * q BY <1>1, <1>2, <1>3, MulMono
  <2>2. BankSpan * (r + 1) = BankSpan * r + BankSpan BY <1>1, <1>3
  <2>. QED BY <1>1, <1>2, <1>3, <2>1, <2>2
<1>6. q # r => BankSpan * q + BankSpan <= BankSpan * r
  <2>1. q + 1 <= r => BankSpan * (q + 1) <= BankSpan * r BY <1>1, <1>2, <1>3, MulMono
  <2>2. BankSpan * (q + 1) = BankSpan * q + BankSpan BY <1>1, <1>2
  <2>. QED BY <1>2, <1>3, <1>5, <2>1, <2>2
<1>. QED BY <1>1, <1>2, <1>3, <1>4, <1>6 DEF BankEnd

\* What pctosnes answers for the start of a write that ends before the last byte of the last
\* bank, and what addromwrite makes of it: it is right about where the bank ends.
LEMMA WriteAddresses ==
  ASSUME NEW p \in Nat, NEW n \in Nat, p + n < RomMax
  PROVE  LET a == Pctosnes(p) IN
         /\ a \in Address /\ a + n \in Address
         /\ BankOf(a) # BankOf(a + n) =>
              BankBase(a + BankSpan) = BankEnd(a) /\ BankEnd(a) <= a + n
<1> DEFINE q == p \div BankLen
           r == p % BankLen
           bank == FirstBank + q
           a == Pctosnes(p)
           after == Banks - bank - 1
<1>1. /\ BankSpan \in Nat \ {0} /\ BankLen \in 1 .. BankSpan
      /\ Banks \in Nat \ {0} /\ FirstBank \in 0 .. Banks - 1
  BY WrittenBlocksAssumption
<1>2. q \in Int /\ p = BankLen * q + r /\ r \in 0 .. BankLen - 1
  BY <1>1, DivMod
<1>3. RomMax = BankLen * (Banks - FirstBank) BY <1>1 DEF RomMax
<1>4. 0 <= q
  <2>1. q <= -1 => BankLen * q <= BankLen * (-1) BY <1>1, <1>2, MulMono
  <2>. QED BY <1>1, <1>2, <2>1
<1>5. 0 <= after
  <2>1. Banks - FirstBank <= q => BankLen * (Banks - FirstBank) <= BankLen * q
    BY <1>1, <1>2, MulMono
  <2>. QED BY <1>1, <1>2, <1>3, <2>1
<1>6. a = BankSpan * bank + (BankSpan - BankLen + r)
  <2>1. a = (FirstBank + q) * BankSpan + (BankSpan - BankLen) + r
    <3>1. RomMax \in Int /\ p < RomMax /\ 0 <= p BY <1>1, <1>3
    <3>. QED BY <3>1 DEF Pctosnes
  <2>. QED BY <1>1, <1>2, <2>1
<1>7. r + n < BankLen * after + BankLen
  <2>1. BankLen * (Banks - FirstBank) = BankLen * q + BankLen * after + BankLen
    BY <1>1, <1>2
  <2>. QED BY <1>1, <1>2, <1>3, <2>1
<1>8. BankLen * after <= BankSpan * after
  <2>1. after * BankLen <= after * BankSpan BY <1>1, <1>2, <1>5, MulMono
  <2>. QED BY <1>1, <1>2, <2>1
<1>9. a + n < Banks * BankSpan
  <2>1. Banks * BankSpan = BankSpan * bank + BankSpan + BankSpan * after
    BY <1>1, <1>2
  <2>2. BankLen * after \in Int /\ BankSpan * after \in Int /\ BankSpan * bank \in Int BY <1>1, <1>2
  <2>. QED BY <1>1, <1>2, <1>6, <1>7, <1>8, <2>1, <2>2
<1>10. 0 <= BankSpan * bank
  <2>1. BankSpan * 0 <= BankSpan * bank BY <1>1, <1>2, <1>4, MulMono
  <2>. QED BY <1>1, <2>1
<1>11. a \in Address /\ a + n \in Address
  BY <1>1, <1>2, <1>6, <1>9, <1>10 DEF Address
<1>12. ASSUME BankOf(a) # BankOf(a + n)
       PROVE  BankBase(a + BankSpan) = BankEnd(a) /\ BankEnd(a) <= a + n
  <2>1. BankEnd(a) <= a + n
    <3>1. a <= a + n BY <1>11 DEF Address
    <3>2. BankOf(a) # BankOf(a + n) => BankEnd(a) <= a + n BY <1>11, <3>1, BanksApart
    <3>. QED BY <1>12, <3>2
  <2>2. a \div BankSpan = bank
    <3>1. BankSpan - BankLen + r \in 0 .. BankSpan - 1 BY <1>1, <1>2
    <3>2. bank \in Int BY <1>1, <1>2
    <3>3. (BankSpan * bank + (BankSpan - BankLen + r)) \div BankSpan = bank
      BY <1>1, <3>1, <3>2, DivUnique
    <3>. QED BY <1>6, <3>3
  <2>3. BankEnd(a) = BankSpan * bank + BankSpan BY <2>2 DEF BankEnd
  <2>4. a + BankSpan = BankSpan * (bank + 1) + (BankSpan - BankLen + r) BY <1>1, <1>2, <1>6
  <2>5. (a + BankSpan) \div BankSpan = bank + 1
    <3>1. BankSpan - BankLen + r \in 0 .. BankSpan - 1 BY <1>1, <1>2
    <3>2. bank + 1 \in Int BY <1>1, <1>2
    <3>3. (BankSpan * (bank + 1) + (BankSpan - BankLen + r)) \div BankSpan = bank + 1
      BY <1>1, <3>1, <3>2, DivUnique
    <3>. QED BY <2>4, <3>3
  <2>6. bank + 1 < Banks
    <3>1. BankSpan * (bank + 1) < BankSpan * Banks BY <1>1, <1>2, <1>9, <2>1, <2>3, <1>11 DEF Address
    <3>2. Banks <= bank + 1 => BankSpan * Banks <= BankSpan * (bank + 1) BY <1>1, <1>2, MulMono
    <3>. QED BY <1>1, <1>2, <3>1, <3>2
  <2>7. (bank + 1) % Banks = bank + 1 BY <1>1, <1>2, <1>4, <2>6
  <2>8. BankBase(a + BankSpan) = (bank + 1) * BankSpan BY <2>5, <2>7 DEF BankBase, BankOf
  <2>. QED BY <1>1, <1>2, <2>1, <2>3, <2>8
<1>. QED BY <1>11, <1>12

-----------------------------------------------------------------------------
(***************************************************************************)
(* Lists without an element and with one more                              *)
(***************************************************************************)

LEMMA RemoveAtList ==
  ASSUME NEW S, NEW s \in Seq(S), NEW i \in 1 .. Len(s)
  PROVE  /\ RemoveAt(s, i) \in Seq(S)
         /\ Len(RemoveAt(s, i)) = Len(s) - 1
         /\ \A j \in 1 .. Len(s) - 1 : RemoveAt(s, i)[j] = s[IF j < i THEN j ELSE j + 1]
<1> DEFINE before == SubSeq(s, 1, i - 1)
           after == SubSeq(s, i + 1, Len(s))
<1>1. before \in Seq(S) /\ Len(before) = i - 1 /\ \A j \in 1 .. i - 1 : before[j] = s[j]
  OBVIOUS
<1>2. after \in Seq(S) /\ Len(after) = Len(s) - i /\ \A j \in 1 .. Len(s) - i : after[j] = s[i + j]
  OBVIOUS
<1>3. RemoveAt(s, i) = before \o after BY DEF RemoveAt
<1> HIDE DEF before, after
<1>4. /\ before \o after \in Seq(S) /\ Len(before \o after) = Len(s) - 1
      /\ \A j \in 1 .. Len(s) - 1 :
           (before \o after)[j] = IF j <= i - 1 THEN before[j] ELSE after[j - (i - 1)]
  <2>1. /\ before \o after \in Seq(S)
        /\ Len(before \o after) = Len(before) + Len(after)
        /\ \A j \in 1 .. Len(before) + Len(after) :
             (before \o after)[j] = IF j <= Len(before) THEN before[j] ELSE after[j - Len(before)]
    BY <1>1, <1>2, ConcatProperties
  <2>2. Len(before) + Len(after) = Len(s) - 1 BY <1>1, <1>2
  <2>3. Len(before) = i - 1 BY <1>1
  <2>. QED BY <2>1, <2>2, <2>3
<1>5. \A j \in 1 .. Len(s) - 1 : j <= i - 1 => (before \o after)[j] = s[j]
  BY <1>1, <1>4
<1>6. \A j \in 1 .. Len(s) - 1 : i <= j => (before \o after)[j] = s[j + 1]
  <2> SUFFICES ASSUME NEW j \in 1 .. Len(s) - 1, i <= j PROVE (before \o after)[j] = s[j + 1]
    OBVIOUS
  <2>1. (before \o after)[j] = after[j - (i - 1)] BY <1>4
  <2>2. j - (i - 1) \in 1 .. Len(s) - i /\ i + (j - (i - 1)) = j + 1 OBVIOUS
  <2>. QED BY <1>2, <2>1, <2>2
<1>7. \A j \in 1 .. Len(s) - 1 : (before \o after)[j] = s[IF j < i THEN j ELSE j + 1]
  <2> SUFFICES ASSUME NEW j \in 1 .. Len(s) - 1
               PROVE  (before \o after)[j] = s[IF j < i THEN j ELSE j + 1]
    OBVIOUS
  <2>1. CASE j < i
    <3>1. j <= i - 1 BY <2>1
    <3>. QED BY <1>5, <2>1, <3>1
  <2>2. CASE ~(j < i)
    <3>1. i <= j BY <2>2
    <3>. QED BY <1>6, <2>2, <3>1
  <2>. QED BY <2>1, <2>2
<1> DEFINE shorter == before \o after
<1> HIDE DEF shorter
<1>8. /\ shorter \in Seq(S) /\ Len(shorter) = Len(s) - 1
      /\ \A j \in 1 .. Len(s) - 1 : shorter[j] = s[IF j < i THEN j ELSE j + 1]
  BY <1>4, <1>7 DEF shorter
<1>9. RemoveAt(s, i) = shorter BY <1>3 DEF shorter
<1>. QED BY <1>8, <1>9

LEMMA InsertAtList ==
  ASSUME NEW S, NEW s \in Seq(S), NEW i \in 1 .. Len(s) + 1, NEW e \in S
  PROVE  /\ InsertAt(s, i, e) \in Seq(S)
         /\ Len(InsertAt(s, i, e)) = Len(s) + 1
         /\ InsertAt(s, i, e)[i] = e
         /\ \A j \in 1 .. i - 1 : InsertAt(s, i, e)[j] = s[j]
         /\ \A j \in i + 1 .. Len(s) + 1 : InsertAt(s, i, e)[j] = s[j - 1]
<1> DEFINE before == SubSeq(s, 1, i - 1)
           after == SubSeq(s, i, Len(s))
<1>1. before \in Seq(S) /\ Len(before) = i - 1 /\ \A j \in 1 .. i - 1 : before[j] = s[j]
  OBVIOUS
<1>2. after \in Seq(S) /\ Len(after) = Len(s) - i + 1 /\ \A j \in 1 .. Len(s) - i + 1 : after[j] = s[i + j - 1]
  OBVIOUS
<1>3. InsertAt(s, i, e) = before \o <<e>> \o after BY DEF InsertAt
<1>4. <<e>> \in Seq(S) /\ Len(<<e>>) = 1 /\ <<e>>[1] = e OBVIOUS
<1> HIDE DEF before, after
<1> DEFINE one == <<e>>
<1> HIDE DEF one
<1>5. one \in Seq(S) /\ Len(one) = 1 /\ one[1] = e BY <1>4 DEF one
<1>6. InsertAt(s, i, e) = (before \o one) \o after BY <1>3 DEF one
<1> DEFINE front == before \o one
<1>7. /\ front \in Seq(S) /\ Len(front) = i
      /\ front[i] = e /\ \A j \in 1 .. i - 1 : front[j] = s[j]
  <2>1. /\ before \o one \in Seq(S)
        /\ Len(before \o one) = Len(before) + Len(one)
        /\ \A j \in 1 .. Len(before) + Len(one) :
             (before \o one)[j] = IF j <= Len(before) THEN before[j] ELSE one[j - Len(before)]
    BY <1>1, <1>5, ConcatProperties
  <2>2. Len(before) + Len(one) = i /\ i - Len(before) = 1 BY <1>1, <1>5
  <2>. QED BY <1>1, <1>5, <2>1, <2>2
<1> HIDE DEF front
<1>8. InsertAt(s, i, e) = front \o after BY <1>6 DEF front
<1>9. /\ front \o after \in Seq(S) /\ Len(front \o after) = Len(s) + 1
      /\ \A j \in 1 .. Len(s) + 1 :
           (front \o after)[j] = IF j <= i THEN front[j] ELSE after[j - i]
  BY <1>2, <1>7
<1>10. \A j \in i + 1 .. Len(s) + 1 : (front \o after)[j] = s[j - 1]
  <2> SUFFICES ASSUME NEW j \in i + 1 .. Len(s) + 1 PROVE (front \o after)[j] = s[j - 1]
    OBVIOUS
  <2>1. (front \o after)[j] = after[j - i] BY <1>9
  <2>2. j - i \in 1 .. Len(s) - i + 1 /\ i + (j - i) - 1 = j - 1 OBVIOUS
  <2>. QED BY <1>2, <2>1, <2>2
<1>11. (front \o after)[i] = e /\ \A j \in 1 .. i - 1 : (front \o after)[j] = s[j]
  BY <1>7, <1>9
<1>. QED BY <1>8, <1>9, <1>10, <1>11

-----------------------------------------------------------------------------
(***************************************************************************)
(* The inductive invariant                                                 *)
(***************************************************************************)

\* n bytes from a on, in one bank.
Fits(a, n) == a \in Address /\ n \in Nat \ {0} /\ a + n <= BankEnd(a)

\* The block b is before the address a, and not to be merged with what starts there.
Clear(b, a) == End(b) <= a /\ (BankOf(b.snesoffset) = BankOf(a) => End(b) < a)

\* addromwrite has the address of what is left of the write.
RestInv ==
  pc # "idle" =>
    /\ pcoffset \in Nat /\ bytesleft \in Nat /\ pcoffset + bytesleft <= RomLen
    /\ snesaddr = Pctosnes(pcoffset)

\* Every block of the list is in one bank.
ListInv ==
  \A i \in 1 .. Len(writtenblocks) :
    Fits(writtenblocks[i].snesoffset, writtenblocks[i].numbytes)

\* Every block is clear of all that follow it.
ApartInv ==
  \A i, j \in 1 .. Len(writtenblocks) :
    i < j => Clear(writtenblocks[i], writtenblocks[j].snesoffset)

\* The piece that is to be put into the list is in one bank.
PieceInv == pc \in {"find", "merge"} => Fits(snesoffset, numbytes)

\* The bisection keeps what is below the piece below, the rest above.
FindInv ==
  pc = "find" => \A i \in 1 .. Len(writtenblocks) :
    /\ i < searchstartpos => writtenblocks[i].snesoffset < snesoffset
    /\ i >= searchendpos => snesoffset <= writtenblocks[i].snesoffset

\* The piece has been merged with what is below it.
MergeInv ==
  pc = "merge" =>
    /\ searchstartpos = searchendpos
    /\ \A i \in 1 .. Len(writtenblocks) :
         /\ i < searchstartpos => Clear(writtenblocks[i], snesoffset)
         /\ i >= searchstartpos => snesoffset <= writtenblocks[i].snesoffset

WInv == TypeOK /\ RestInv /\ ListInv /\ ApartInv /\ PieceInv /\ FindInv /\ MergeInv

\* What the arithmetic of the steps below needs to know of the types.
LEMMA AddressesAreInts ==
  /\ \A a \in Address : a \in Int
  /\ \A p \in Int : Pctosnes(p) \in Int
  /\ \A a \in Int : Snestopc(a) \in Int
  /\ RomMax \in Int /\ RomLen \in Nat
<1>1. /\ BankSpan \in Nat \ {0} /\ BankLen \in Nat \ {0} /\ Banks \in Nat /\ FirstBank \in Nat
      /\ RomLen \in Nat
  BY WrittenBlocksAssumption
<1>2. \A a \in Address : a \in Int BY DEF Address
<1>3. \A p \in Int : Pctosnes(p) \in Int
  <2> SUFFICES ASSUME NEW p \in Int PROVE Pctosnes(p) \in Int
    OBVIOUS
  <2>1. p \div BankLen \in Int /\ p % BankLen \in Int BY <1>1, DivMod
  <2>. QED BY <1>1, <2>1 DEF Pctosnes
<1>4. \A a \in Int : Snestopc(a) \in Int
  <2> SUFFICES ASSUME NEW a \in Int PROVE Snestopc(a) \in Int
    OBVIOUS
  <2>1. a \div BankSpan \in Int /\ a % BankSpan \in Int BY <1>1, DivMod
  <2>. QED BY <1>1, <2>1 DEF Snestopc
<1>5. RomMax \in Int BY <1>1 DEF RomMax
<1>. QED BY <1>1, <1>2, <1>3, <1>4, <1>5

\* A block of the list, as the arithmetic needs it.
LEMMA BlockFacts ==
  ASSUME WInv, NEW i \in 1 .. Len(writtenblocks)
  PROVE  LET b == writtenblocks[i] IN
         /\ b \in Block /\ b.snesoffset \in Address /\ b.numbytes \in Nat \ {0}
         /\ End(b) \in Int /\ b.snesoffset < End(b) /\ End(b) <= BankEnd(b.snesoffset)
<1>1. writtenblocks[i] \in Block BY DEF WInv, TypeOK
<1>2. Fits(writtenblocks[i].snesoffset, writtenblocks[i].numbytes) BY DEF WInv, ListInv
<1>3. writtenblocks[i].snesoffset \in Int BY <1>2, AddressesAreInts DEF Fits
<1>. QED BY <1>1, <1>2, <1>3 DEF Fits, End

LEMMA WInit == Init => WInv
<1> SUFFICES ASSUME Init PROVE WInv
  OBVIOUS
<1>1. writtenblocks = << >> /\ pc = "idle" BY DEF Init
<1>2. TypeOK BY DEF Init, TypeOK
<1>. QED BY <1>1, <1>2 DEF WInv, RestInv, ListInv, ApartInv, PieceInv, FindInv, MergeInv

-----------------------------------------------------------------------------
(***************************************************************************)
(* Every step preserves it                                                 *)
(***************************************************************************)

\* The list is sorted by address.
LEMMA ListOrder ==
  ASSUME WInv, NEW i \in 1 .. Len(writtenblocks), NEW j \in 1 .. Len(writtenblocks), i < j
  PROVE  writtenblocks[i].snesoffset < writtenblocks[j].snesoffset
<1>1. End(writtenblocks[i]) <= writtenblocks[j].snesoffset BY DEF WInv, ApartInv, Clear
<1>2. writtenblocks[i].snesoffset < End(writtenblocks[i]) /\ End(writtenblocks[i]) \in Int
  BY BlockFacts
<1>3. writtenblocks[i].snesoffset \in Int /\ writtenblocks[j].snesoffset \in Int
  BY BlockFacts, AddressesAreInts
<1>. QED BY <1>1, <1>2, <1>3

\* n bytes at a that stay in their bank, and do not reach b if b is in that bank,
\* end before b.
LEMMA ApartFromBlock ==
  ASSUME NEW a \in Address, NEW n \in Nat, NEW b \in Address, a <= b, a + n <= BankEnd(a),
         BankOf(a) = BankOf(b) => a + n < b
  PROVE  a + n <= b /\ (BankOf(a) = BankOf(b) => a + n < b)
<1>1. BankEnd(a) \in Int /\ a \in Int /\ b \in Int BY BankOfAddress, AddressesAreInts
<1>2. BankOf(a) # BankOf(b) => BankEnd(a) <= b BY BanksApart
<1>. QED BY <1>1, <1>2

LEMMA ResetStep == WInv /\ Reset => WInv'
<1> SUFFICES ASSUME WInv, Reset PROVE WInv'
  OBVIOUS
<1>1. writtenblocks' = << >> /\ pc' = "idle" /\ dirty' = {} /\ UNCHANGED <<rest, piece, search>>
  BY DEF Reset
<1>2. TypeOK' BY <1>1 DEF rest, piece, search, WInv, TypeOK
<1>. QED BY <1>1, <1>2 DEF WInv, RestInv, ListInv, ApartInv, PieceInv, FindInv, MergeInv

LEMMA WriteRomDataStep == WInv /\ WriteRomData => WInv'
<1> SUFFICES ASSUME WInv, WriteRomData PROVE WInv'
  OBVIOUS
<1>1. PICK p \in 0 .. RomLen - 1, n \in 1 .. RomLen :
        /\ p + n <= RomLen
        /\ pcoffset' = p /\ snesaddr' = Pctosnes(p) /\ bytesleft' = n
        /\ dirty' = dirty \cup p .. p + n - 1
  BY DEF WriteRomData
<1>2. pc' = "banks" /\ UNCHANGED <<writtenblocks, piece, search>> BY DEF WriteRomData
<1>3. dirty' \subseteq 0 .. RomLen - 1
  <2>1. p .. p + n - 1 \subseteq 0 .. RomLen - 1 BY <1>1, AddressesAreInts
  <2>2. dirty \subseteq 0 .. RomLen - 1 BY DEF WInv, TypeOK
  <2>. QED BY <1>1, <2>1, <2>2
<1>4. p \in Int /\ n \in Int /\ Pctosnes(p) \in Int BY AddressesAreInts
<1>5. TypeOK' BY <1>1, <1>2, <1>3, <1>4 DEF piece, search, WInv, TypeOK
<1>6. RestInv' BY <1>1, <1>2, AddressesAreInts DEF RestInv
<1>7. ListInv' /\ ApartInv' BY <1>2 DEF WInv, ListInv, ApartInv
<1>. QED BY <1>2, <1>5, <1>6, <1>7 DEF WInv, PieceInv, FindInv, MergeInv

\* A piece that is in one bank, and a rest with the right address, are all that
\* the two calls of addromwriteforbank have to provide.
LEMMA AddForBankStep ==
  ASSUME WInv, NEW a, NEW n, Fits(a, n), AddForBank(a, n), UNCHANGED <<writtenblocks, dirty>>,
         pcoffset' \in Nat, bytesleft' \in Nat, pcoffset' + bytesleft' <= RomLen,
         snesaddr' = Pctosnes(pcoffset')
  PROVE  WInv'
<1>1. writtenblocks \in Seq(Block) /\ dirty \subseteq 0 .. RomLen - 1 BY DEF WInv, TypeOK
<1>2. Len(writtenblocks) \in Nat BY <1>1
<1>3. /\ pc' = "find" /\ snesoffset' = a /\ numbytes' = n
      /\ searchstartpos' = 1 /\ searchendpos' = Len(writtenblocks) + 1
  BY DEF AddForBank
<1>4. a \in Int /\ n \in Int /\ snesaddr' \in Int BY AddressesAreInts DEF Fits
<1>5. TypeOK' BY <1>1, <1>2, <1>3, <1>4 DEF TypeOK
<1>6. FindInv' BY <1>2, <1>3 DEF FindInv
<1>7. ListInv' /\ ApartInv' BY DEF WInv, ListInv, ApartInv
<1>8. PieceInv' BY <1>3 DEF PieceInv
<1>. QED BY <1>3, <1>5, <1>6, <1>7, <1>8 DEF WInv, RestInv, MergeInv

\* What is left of a write is in the ROM, and short of the last byte of the last bank.
LEMMA RestAddresses ==
  ASSUME RomLen < RomMax, WInv, pc # "idle"
  PROVE  /\ pcoffset \in Nat /\ bytesleft \in Nat /\ pcoffset + bytesleft <= RomLen
         /\ snesaddr = Pctosnes(pcoffset)
         /\ snesaddr \in Address /\ snesaddr + bytesleft \in Address
         /\ BankOf(snesaddr) # BankOf(snesaddr + bytesleft) =>
              BankBase(snesaddr + BankSpan) = BankEnd(snesaddr) /\ BankEnd(snesaddr) <= snesaddr + bytesleft
<1>1. /\ pcoffset \in Nat /\ bytesleft \in Nat /\ pcoffset + bytesleft <= RomLen
      /\ snesaddr = Pctosnes(pcoffset)
  BY DEF WInv, RestInv
<1>2. pcoffset + bytesleft < RomMax BY <1>1, AddressesAreInts
<1>. QED BY <1>1, <1>2, WriteAddresses

LEMMA SplitBankStep == RomLen < RomMax /\ WInv /\ SplitBank => WInv'
<1> SUFFICES ASSUME RomLen < RomMax, WInv, SplitBank PROVE WInv'
  OBVIOUS
<1> DEFINE n == BankBase(snesaddr + BankSpan) - snesaddr
<1>1. /\ pc = "banks" /\ BankOf(snesaddr) # BankOf(snesaddr + bytesleft)
      /\ AddForBank(snesaddr, n) /\ pcoffset' = pcoffset + n
      /\ snesaddr' = Pctosnes(pcoffset + n) /\ bytesleft' = bytesleft - n
      /\ UNCHANGED <<writtenblocks, dirty>>
  BY DEF SplitBank
<1>2. /\ pcoffset \in Nat /\ bytesleft \in Nat /\ pcoffset + bytesleft <= RomLen
      /\ snesaddr \in Address
      /\ n = BankEnd(snesaddr) - snesaddr /\ BankEnd(snesaddr) <= snesaddr + bytesleft
  BY <1>1, RestAddresses
<1>3. snesaddr \in Int /\ BankEnd(snesaddr) \in Int /\ snesaddr < BankEnd(snesaddr)
  BY <1>2, BankOfAddress, AddressesAreInts
<1> HIDE DEF n
<1>4. n \in Nat \ {0} /\ n <= bytesleft /\ snesaddr + n = BankEnd(snesaddr) BY <1>2, <1>3
<1>5. Fits(snesaddr, n) BY <1>2, <1>3, <1>4 DEF Fits
<1>6. pcoffset' \in Nat /\ bytesleft' \in Nat /\ pcoffset' + bytesleft' <= RomLen
  BY <1>1, <1>2, <1>4, AddressesAreInts
<1>7. snesaddr' = Pctosnes(pcoffset') BY <1>1
<1>. QED BY <1>1, <1>5, <1>6, <1>7, AddForBankStep

LEMMA LastBankStep == RomLen < RomMax /\ WInv /\ LastBank => WInv'
<1> SUFFICES ASSUME RomLen < RomMax, WInv, LastBank PROVE WInv'
  OBVIOUS
<1>1. /\ pc = "banks" /\ BankOf(snesaddr) = BankOf(snesaddr + bytesleft)
      /\ bytesleft' = 0 /\ UNCHANGED <<writtenblocks, pcoffset, snesaddr, dirty>>
  BY DEF LastBank
<1>2. /\ pcoffset \in Nat /\ bytesleft \in Nat /\ pcoffset + bytesleft <= RomLen
      /\ snesaddr = Pctosnes(pcoffset)
      /\ snesaddr \in Address /\ snesaddr + bytesleft \in Address
  BY <1>1, RestAddresses
<1>3. snesaddr \in Int BY <1>2, AddressesAreInts
<1>4. CASE bytesleft = 0
  <2>1. pc' = "idle" /\ UNCHANGED <<piece, search>> BY <1>4 DEF LastBank
  <2>2. TypeOK' BY <1>1, <2>1 DEF piece, search, WInv, TypeOK
  <2>3. ListInv' /\ ApartInv' BY <1>1 DEF WInv, ListInv, ApartInv
  <2>. QED BY <2>1, <2>2, <2>3 DEF WInv, RestInv, PieceInv, FindInv, MergeInv
<1>5. CASE bytesleft # 0
  <2>1. AddForBank(snesaddr, bytesleft) BY <1>5 DEF LastBank
  <2>2. snesaddr + bytesleft < BankEnd(snesaddr)
    <3>1. snesaddr <= snesaddr + bytesleft BY <1>2, <1>3
    <3>2. BankEnd(snesaddr) = BankEnd(snesaddr + bytesleft) BY <1>1, <1>2, <3>1, BanksApart
    <3>. QED BY <1>2, <3>2, BankOfAddress
  <2>3. Fits(snesaddr, bytesleft) BY <1>2, <1>3, <1>5, <2>2, BankOfAddress DEF Fits
  <2>4. pcoffset' + bytesleft' <= RomLen BY <1>1, <1>2, AddressesAreInts
  <2>5. pcoffset' \in Nat /\ bytesleft' \in Nat /\ snesaddr' = Pctosnes(pcoffset') BY <1>1, <1>2
  <2>. QED BY <1>1, <2>1, <2>3, <2>4, <2>5, AddForBankStep
<1>. QED BY <1>4, <1>5

LEMMA FindStep == WInv /\ (FindLower \/ FindUpper) => WInv'
<1> SUFFICES ASSUME WInv, FindLower \/ FindUpper PROVE WInv'
  OBVIOUS
<1>1. /\ pc = "find" /\ searchstartpos # searchendpos
      /\ UNCHANGED <<writtenblocks, rest, piece, pc, dirty>>
  BY DEF FindLower, FindUpper
<1>2. /\ writtenblocks \in Seq(Block) /\ searchstartpos \in 1 .. Len(writtenblocks) + 1
      /\ searchendpos \in searchstartpos .. Len(writtenblocks) + 1
  BY <1>1 DEF WInv, TypeOK
<1>3. Len(writtenblocks) \in Nat BY <1>2
<1>4. Center \in searchstartpos .. searchendpos - 1 /\ Center \in 1 .. Len(writtenblocks)
  BY <1>1, <1>2, <1>3 DEF Center
<1>5. snesoffset \in Int BY DEF WInv, TypeOK
<1>6. \A i \in 1 .. Len(writtenblocks) : writtenblocks[i].snesoffset \in Int
  BY BlockFacts, AddressesAreInts
<1>7. \A i \in 1 .. Len(writtenblocks) :
        /\ i < searchstartpos => writtenblocks[i].snesoffset < snesoffset
        /\ i >= searchendpos => snesoffset <= writtenblocks[i].snesoffset
  BY <1>1 DEF WInv, FindInv
<1>8. RestInv' /\ ListInv' /\ ApartInv' /\ PieceInv'
  BY <1>1 DEF rest, piece, WInv, RestInv, ListInv, ApartInv, PieceInv
<1>9. CASE FindLower
  <2>1. /\ writtenblocks[Center].snesoffset >= snesoffset
        /\ searchendpos' = Center /\ searchstartpos' = searchstartpos
    BY <1>9 DEF FindLower
  <2>2. ASSUME NEW i \in 1 .. Len(writtenblocks), i >= Center
        PROVE  snesoffset <= writtenblocks[i].snesoffset
    <3>1. i = Center \/ Center < i BY <1>2, <1>4, <2>2
    <3>2. Center < i => writtenblocks[Center].snesoffset < writtenblocks[i].snesoffset
      BY <1>4, ListOrder
    <3>. QED BY <1>4, <1>5, <1>6, <2>1, <3>1, <3>2
  <2>3. FindInv' BY <1>1, <1>7, <2>1, <2>2 DEF piece, FindInv
  <2>4. TypeOK' BY <1>1, <1>2, <1>4, <2>1 DEF rest, piece, WInv, TypeOK
  <2>. QED BY <1>1, <1>8, <2>3, <2>4 DEF WInv, MergeInv
<1>10. CASE FindUpper
  <2>1. /\ writtenblocks[Center].snesoffset < snesoffset
        /\ searchstartpos' = Center + 1 /\ searchendpos' = searchendpos
    BY <1>10 DEF FindUpper
  <2>2. ASSUME NEW i \in 1 .. Len(writtenblocks), i < Center + 1
        PROVE  writtenblocks[i].snesoffset < snesoffset
    <3>1. i = Center \/ i < Center BY <1>2, <1>4, <2>2
    <3>2. i < Center => writtenblocks[i].snesoffset < writtenblocks[Center].snesoffset
      BY <1>4, ListOrder
    <3>. QED BY <1>4, <1>5, <1>6, <2>1, <3>1, <3>2
  <2>3. FindInv' BY <1>1, <1>7, <2>1, <2>2 DEF piece, FindInv
  <2>4. TypeOK' BY <1>1, <1>2, <1>4, <2>1 DEF rest, piece, WInv, TypeOK
  <2>. QED BY <1>1, <1>8, <2>3, <2>4 DEF WInv, MergeInv
<1>. QED BY <1>9, <1>10

\* A list without one of its blocks is still sorted and apart.
LEMMA RemoveKeeps ==
  ASSUME WInv, NEW k \in 1 .. Len(writtenblocks), writtenblocks' = RemoveAt(writtenblocks, k)
  PROVE  /\ writtenblocks' \in Seq(Block) /\ Len(writtenblocks') = Len(writtenblocks) - 1
         /\ \A i \in 1 .. Len(writtenblocks') :
              writtenblocks'[i] = writtenblocks[IF i < k THEN i ELSE i + 1]
         /\ ListInv' /\ ApartInv'
<1> DEFINE from(i) == IF i < k THEN i ELSE i + 1
<1>1. writtenblocks \in Seq(Block) BY DEF WInv, TypeOK
<1>2. /\ writtenblocks' \in Seq(Block) /\ Len(writtenblocks') = Len(writtenblocks) - 1
      /\ \A i \in 1 .. Len(writtenblocks) - 1 : writtenblocks'[i] = writtenblocks[from(i)]
  BY <1>1, RemoveAtList
<1>3. \A i \in 1 .. Len(writtenblocks) - 1 : from(i) \in 1 .. Len(writtenblocks)
  BY <1>1
<1>4. \A i, j \in 1 .. Len(writtenblocks) - 1 : i < j => from(i) < from(j)
  BY <1>1
<1> HIDE DEF from
<1>5. ListInv' BY <1>2, <1>3 DEF WInv, ListInv
<1>6. ApartInv'
  <2> SUFFICES ASSUME NEW i \in 1 .. Len(writtenblocks) - 1,
                      NEW j \in 1 .. Len(writtenblocks) - 1, i < j
               PROVE  Clear(writtenblocks'[i], writtenblocks'[j].snesoffset)
    BY <1>2 DEF ApartInv
  <2>1. Clear(writtenblocks[from(i)], writtenblocks[from(j)].snesoffset)
    BY <1>3, <1>4 DEF WInv, ApartInv
  <2>. QED BY <1>2, <2>1
<1>. QED BY <1>2, <1>5, <1>6 DEF from

LEMMA MergePrecedingStep == WInv /\ MergePreceding => WInv'
<1> SUFFICES ASSUME WInv, MergePreceding PROVE WInv'
  OBVIOUS
<1> DEFINE p == searchstartpos
           n == Len(writtenblocks)
           before == writtenblocks[p - 1]
<1>1. pc = "find" /\ searchstartpos = searchendpos /\ pc' = "merge" /\ UNCHANGED <<rest, dirty>>
  BY DEF MergePreceding
<1>2. /\ writtenblocks \in Seq(Block) /\ n \in Nat /\ p \in 1 .. n + 1
      /\ snesoffset \in Address /\ snesoffset \in Int /\ numbytes \in Nat \ {0}
      /\ snesoffset + numbytes <= BankEnd(snesoffset)
  BY <1>1, AddressesAreInts DEF WInv, TypeOK, PieceInv, Fits
<1>3. \A i \in 1 .. n : /\ i < p => writtenblocks[i].snesoffset < snesoffset
                        /\ i >= p => snesoffset <= writtenblocks[i].snesoffset
  BY <1>1 DEF WInv, FindInv
<1>4. RestInv' BY <1>1 DEF rest, WInv, RestInv
<1>5. ASSUME p > 1
      PROVE  /\ p - 1 \in 1 .. n /\ before.snesoffset \in Address /\ before.snesoffset \in Int
             /\ before.numbytes \in Nat \ {0} /\ End(before) = before.snesoffset + before.numbytes
             /\ End(before) <= BankEnd(before.snesoffset)
             /\ before.snesoffset < snesoffset
  <2>1. p - 1 \in 1 .. n BY <1>2, <1>5
  <2>2. before.snesoffset < snesoffset BY <1>2, <1>3, <2>1
  <2>. QED BY <2>1, <2>2, BlockFacts, AddressesAreInts DEF End
<1>6. CASE ~TouchesPreceding
  <2>1. UNCHANGED <<writtenblocks, piece, search>> BY <1>6 DEF MergePreceding
  <2>2. ASSUME p > 1 PROVE Clear(before, snesoffset)
    <3>1. BankOf(before.snesoffset) = BankOf(snesoffset) => before.snesoffset + before.numbytes < snesoffset
      BY <1>2, <1>5, <1>6, <2>2 DEF TouchesPreceding
    <3>. QED BY <1>2, <1>5, <2>2, <3>1, ApartFromBlock DEF Clear
  <2>3. ASSUME NEW i \in 1 .. n, i < p PROVE Clear(writtenblocks[i], snesoffset)
    <3>1. p > 1 /\ (i = p - 1 \/ i < p - 1) BY <1>2, <2>3
    <3>2. CASE i = p - 1 BY <2>2, <3>1, <3>2
    <3>3. CASE i < p - 1
      <4>1. Clear(writtenblocks[i], before.snesoffset) BY <1>5, <3>1, <3>3 DEF WInv, ApartInv
      <4>2. End(writtenblocks[i]) \in Int BY BlockFacts
      <4>. QED BY <1>2, <1>5, <3>1, <4>1, <4>2 DEF Clear
    <3>. QED BY <3>1, <3>2, <3>3
  <2>4. MergeInv' BY <1>1, <1>3, <2>1, <2>3 DEF piece, search, MergeInv
  <2>5. TypeOK' BY <1>1, <2>1 DEF rest, piece, search, WInv, TypeOK
  <2>6. ListInv' /\ ApartInv' /\ PieceInv'
    BY <1>1, <2>1 DEF piece, WInv, ListInv, ApartInv, PieceInv
  <2>. QED BY <1>1, <1>4, <2>4, <2>5, <2>6 DEF WInv, FindInv
<1>7. CASE TouchesPreceding
  <2>1. /\ p > 1 /\ BankOf(before.snesoffset) = BankOf(snesoffset)
        /\ snesoffset' = before.snesoffset
        /\ numbytes' = MaxOf(End(before), snesoffset + numbytes) - before.snesoffset
        /\ writtenblocks' = RemoveAt(writtenblocks, p - 1)
        /\ searchstartpos' = p - 1 /\ searchendpos' = p - 1
    BY <1>7 DEF MergePreceding, TouchesPreceding
  <2>2. /\ writtenblocks' \in Seq(Block) /\ Len(writtenblocks') = n - 1
        /\ \A i \in 1 .. Len(writtenblocks') :
             writtenblocks'[i] = writtenblocks[IF i < p - 1 THEN i ELSE i + 1]
        /\ ListInv' /\ ApartInv'
    BY <1>5, <2>1, RemoveKeeps
  <2>3. BankEnd(before.snesoffset) = BankEnd(snesoffset)
    BY <1>2, <1>5, <2>1, BanksApart
  <2>4. Fits(snesoffset', numbytes')
    BY <1>2, <1>5, <2>1, <2>3 DEF Fits, MaxOf
  <2>5. \A i \in 1 .. n - 1 : i < p - 1 => Clear(writtenblocks[i], before.snesoffset)
    BY <1>2, <1>5, <2>1 DEF WInv, ApartInv
  <2>6. ASSUME NEW i \in 1 .. n - 1, i >= p - 1
        PROVE  before.snesoffset <= writtenblocks[i + 1].snesoffset
    <3>1. i + 1 \in 1 .. n /\ i + 1 >= p BY <1>2, <2>6
    <3>2. writtenblocks[i + 1].snesoffset \in Int BY <3>1, BlockFacts, AddressesAreInts
    <3>. QED BY <1>2, <1>3, <1>5, <2>1, <3>1, <3>2
  <2>7. MergeInv'
    <3> SUFFICES ASSUME NEW i \in 1 .. Len(writtenblocks')
                 PROVE  /\ i < p - 1 => Clear(writtenblocks'[i], before.snesoffset)
                        /\ i >= p - 1 => before.snesoffset <= writtenblocks'[i].snesoffset
      BY <2>1 DEF MergeInv
    <3>1. i \in 1 .. n - 1 BY <2>2
    <3>2. CASE i < p - 1
      <4>1. writtenblocks'[i] = writtenblocks[i] BY <2>2, <3>2
      <4>. QED BY <1>2, <2>5, <3>1, <3>2, <4>1
    <3>3. CASE ~(i < p - 1)
      <4>1. writtenblocks'[i] = writtenblocks[i + 1] BY <2>2, <3>3
      <4>2. i >= p - 1 BY <1>2, <3>1, <3>3
      <4>. QED BY <2>6, <3>1, <3>3, <4>1, <4>2
    <3>. QED BY <3>2, <3>3
  <2>8. snesoffset' \in Int /\ numbytes' \in Int BY <2>4, AddressesAreInts DEF Fits
  <2>9. TypeOK' BY <1>1, <1>2, <1>5, <2>1, <2>2, <2>8 DEF rest, WInv, TypeOK
  <2>10. PieceInv' BY <2>4 DEF PieceInv
  <2>. QED BY <1>1, <1>4, <2>2, <2>7, <2>9, <2>10 DEF WInv, FindInv
<1>. QED BY <1>6, <1>7

LEMMA MergeSucceedingStep == WInv /\ MergeSucceeding => WInv'
<1> SUFFICES ASSUME WInv, MergeSucceeding PROVE WInv'
  OBVIOUS
<1> DEFINE p == searchstartpos
           n == Len(writtenblocks)
           after == writtenblocks[p]
<1>1. /\ pc = "merge" /\ p <= n /\ BankOf(after.snesoffset) = BankOf(snesoffset)
      /\ numbytes' = MaxOf(snesoffset + numbytes, End(after)) - snesoffset
      /\ writtenblocks' = RemoveAt(writtenblocks, p)
      /\ UNCHANGED <<rest, snesoffset, search, pc, dirty>>
  BY DEF MergeSucceeding, TouchesSucceeding
<1>2. /\ writtenblocks \in Seq(Block) /\ n \in Nat /\ p \in 1 .. n
      /\ snesoffset \in Address /\ snesoffset \in Int /\ numbytes \in Nat \ {0}
      /\ snesoffset + numbytes <= BankEnd(snesoffset)
  BY <1>1, AddressesAreInts DEF WInv, TypeOK, PieceInv, Fits
<1>3. /\ searchstartpos = searchendpos
      /\ \A i \in 1 .. n : /\ i < p => Clear(writtenblocks[i], snesoffset)
                           /\ i >= p => snesoffset <= writtenblocks[i].snesoffset
  BY <1>1 DEF WInv, MergeInv
<1>4. /\ writtenblocks' \in Seq(Block) /\ Len(writtenblocks') = n - 1
      /\ \A i \in 1 .. Len(writtenblocks') : writtenblocks'[i] = writtenblocks[IF i < p THEN i ELSE i + 1]
      /\ ListInv' /\ ApartInv'
  BY <1>1, <1>2, RemoveKeeps
<1>5. /\ after.snesoffset \in Address /\ after.snesoffset \in Int /\ End(after) \in Int
      /\ End(after) <= BankEnd(after.snesoffset) /\ snesoffset <= after.snesoffset
  <2>1. /\ after.snesoffset \in Address /\ End(after) \in Int
        /\ End(after) <= BankEnd(after.snesoffset)
    BY <1>2, BlockFacts
  <2>2. snesoffset <= after.snesoffset BY <1>2, <1>3
  <2>. QED BY <2>1, <2>2, AddressesAreInts
<1>6. BankEnd(after.snesoffset) = BankEnd(snesoffset) BY <1>1, <1>2, <1>5, BanksApart
<1>7. Fits(snesoffset, numbytes') BY <1>1, <1>2, <1>5, <1>6 DEF Fits, MaxOf
<1>8. MergeInv'
  <2> SUFFICES ASSUME NEW i \in 1 .. Len(writtenblocks')
               PROVE  /\ i < p => Clear(writtenblocks'[i], snesoffset)
                      /\ i >= p => snesoffset <= writtenblocks'[i].snesoffset
    BY <1>1, <1>3 DEF search, MergeInv
  <2>1. i \in 1 .. n /\ i + 1 \in 1 .. n BY <1>2, <1>4
  <2>2. CASE i < p
    <3>1. writtenblocks'[i] = writtenblocks[i] BY <1>4, <2>2
    <3>. QED BY <1>2, <1>3, <2>1, <2>2, <3>1
  <2>3. CASE ~(i < p)
    <3>1. writtenblocks'[i] = writtenblocks[i + 1] BY <1>4, <2>3
    <3>2. i + 1 >= p BY <1>2, <2>1, <2>3
    <3>. QED BY <1>3, <2>1, <2>3, <3>1, <3>2
  <2>. QED BY <2>2, <2>3
<1>9. TypeOK' BY <1>1, <1>2, <1>3, <1>4, <1>7 DEF rest, search, Fits, WInv, TypeOK
<1>10. RestInv' /\ PieceInv' BY <1>1, <1>7 DEF rest, WInv, RestInv, PieceInv
<1>. QED BY <1>1, <1>4, <1>8, <1>9, <1>10 DEF WInv, FindInv

LEMMA InsertStep == WInv /\ Insert => WInv'
<1> SUFFICES ASSUME WInv, Insert PROVE WInv'
  OBVIOUS
<1> DEFINE p == searchstartpos
           n == Len(writtenblocks)
           new == [snesoffset |-> snesoffset, pcoffset |-> Snestopc(snesoffset), numbytes |-> numbytes]
<1>1. /\ pc = "merge" /\ ~TouchesSucceeding /\ pc' = "banks"
      /\ writtenblocks' = InsertAt(writtenblocks, p, new)
      /\ UNCHANGED <<rest, piece, search, dirty>>
  BY DEF Insert
<1>2. /\ writtenblocks \in Seq(Block) /\ n \in Nat /\ p \in 1 .. n + 1
      /\ snesoffset \in Address /\ snesoffset \in Int /\ numbytes \in Nat \ {0}
      /\ snesoffset + numbytes <= BankEnd(snesoffset)
  BY <1>1, AddressesAreInts DEF WInv, TypeOK, PieceInv, Fits
<1>3. \A i \in 1 .. n : /\ i < p => Clear(writtenblocks[i], snesoffset)
                        /\ i >= p => snesoffset <= writtenblocks[i].snesoffset
  BY <1>1 DEF WInv, MergeInv
<1>4. new \in Block /\ End(new) = snesoffset + numbytes /\ new.snesoffset = snesoffset
      /\ Fits(new.snesoffset, new.numbytes)
  BY <1>2, AddressesAreInts DEF Block, End, Fits
<1> HIDE DEF new
<1>5. /\ writtenblocks' \in Seq(Block) /\ Len(writtenblocks') = n + 1 /\ writtenblocks'[p] = new
      /\ \A j \in 1 .. p - 1 : writtenblocks'[j] = writtenblocks[j]
      /\ \A j \in p + 1 .. n + 1 : writtenblocks'[j] = writtenblocks[j - 1]
  <2> DEFINE longer == InsertAt(writtenblocks, p, new)
  <2>1. /\ longer \in Seq(Block) /\ Len(longer) = n + 1 /\ longer[p] = new
        /\ \A j \in 1 .. p - 1 : longer[j] = writtenblocks[j]
        /\ \A j \in p + 1 .. n + 1 : longer[j] = writtenblocks[j - 1]
    <3>1. writtenblocks \in Seq(Block) BY <1>2
    <3>2. p \in 1 .. Len(writtenblocks) + 1 BY <1>2
    <3>3. new \in Block BY <1>4
    <3> HIDE DEF p
    <3>. QED BY <3>1, <3>2, <3>3, InsertAtList, SMTT(30)
  <2> HIDE DEF longer
  <2>2. writtenblocks' = longer BY <1>1 DEF longer
  <2>. QED BY <2>1, <2>2
<1>6. ASSUME NEW i \in 1 .. n, i >= p PROVE Clear(new, writtenblocks[i].snesoffset)
  <2>1. /\ p \in 1 .. n /\ (i = p \/ p < i) BY <1>2, <1>6
  <2>2. /\ writtenblocks[p].snesoffset \in Address /\ writtenblocks[p].snesoffset \in Int
        /\ snesoffset <= writtenblocks[p].snesoffset
    <3>1. writtenblocks[p].snesoffset \in Address BY <2>1, BlockFacts
    <3>2. snesoffset <= writtenblocks[p].snesoffset BY <1>2, <1>3, <2>1
    <3>. QED BY <3>1, <3>2, AddressesAreInts
  <2>3. BankOf(snesoffset) = BankOf(writtenblocks[p].snesoffset) =>
          snesoffset + numbytes < writtenblocks[p].snesoffset
    BY <1>1, <1>2, <2>1, <2>2 DEF TouchesSucceeding
  <2>4. Clear(new, writtenblocks[p].snesoffset)
    BY <1>2, <1>4, <2>2, <2>3, ApartFromBlock DEF Clear
  <2>5. p < i => writtenblocks[p].snesoffset < writtenblocks[i].snesoffset BY <2>1, ListOrder
  <2>6. writtenblocks[i].snesoffset \in Int BY BlockFacts, AddressesAreInts
  <2>7. p < i => End(new) < writtenblocks[i].snesoffset
    BY <1>2, <1>4, <2>2, <2>4, <2>5, <2>6 DEF Clear
  <2>8. p < i => Clear(new, writtenblocks[i].snesoffset) BY <1>2, <1>4, <2>6, <2>7 DEF Clear
  <2>. QED BY <2>1, <2>4, <2>8
<1>7. ASSUME NEW i \in 1 .. n + 1, NEW j \in 1 .. n + 1, i < j
      PROVE  Clear(writtenblocks'[i], writtenblocks'[j].snesoffset)
  <2>1. CASE j < p
    <3>1. i \in 1 .. n /\ j \in 1 .. n /\ i \in 1 .. p - 1 /\ j \in 1 .. p - 1 BY <1>2, <1>7, <2>1
    <3>. QED BY <1>5, <1>7, <3>1 DEF WInv, ApartInv
  <2>2. CASE j = p
    <3>1. i \in 1 .. n /\ i \in 1 .. p - 1 BY <1>2, <1>7, <2>2
    <3>. QED BY <1>3, <1>4, <1>5, <2>2, <3>1
  <2>3. CASE p < j
    <3>1. j - 1 \in 1 .. n /\ j - 1 >= p /\ writtenblocks'[j] = writtenblocks[j - 1]
      BY <1>2, <1>5, <2>3
    <3>2. CASE i < p
      <4>1. i \in 1 .. n /\ i < j - 1 /\ writtenblocks'[i] = writtenblocks[i] BY <1>2, <1>5, <3>1, <3>2
      <4>. QED BY <3>1, <4>1 DEF WInv, ApartInv
    <3>3. CASE i = p
      BY <1>5, <1>6, <3>1, <3>3
    <3>4. CASE p < i
      <4>1. i - 1 \in 1 .. n /\ i - 1 < j - 1 /\ writtenblocks'[i] = writtenblocks[i - 1]
        BY <1>2, <1>5, <1>7, <3>4
      <4>. QED BY <3>1, <4>1 DEF WInv, ApartInv
    <3>. QED BY <1>2, <3>2, <3>3, <3>4
  <2>. QED BY <1>2, <2>1, <2>2, <2>3
<1>8. ApartInv' BY <1>5, <1>7 DEF ApartInv
<1>9. ListInv'
  <2> SUFFICES ASSUME NEW i \in 1 .. n + 1
               PROVE  Fits(writtenblocks'[i].snesoffset, writtenblocks'[i].numbytes)
    BY <1>5 DEF ListInv
  <2>1. CASE i < p
    <3>1. i \in 1 .. n /\ writtenblocks'[i] = writtenblocks[i] BY <1>2, <1>5, <2>1
    <3>. QED BY <3>1 DEF WInv, ListInv
  <2>2. CASE i = p BY <1>4, <1>5, <2>2
  <2>3. CASE p < i
    <3>1. i - 1 \in 1 .. n /\ writtenblocks'[i] = writtenblocks[i - 1] BY <1>2, <1>5, <2>3
    <3>. QED BY <3>1 DEF WInv, ListInv
  <2>. QED BY <1>2, <2>1, <2>2, <2>3
<1>10. TypeOK' BY <1>1, <1>5 DEF rest, piece, search, WInv, TypeOK
<1>11. RestInv' BY <1>1 DEF rest, WInv, RestInv
<1>. QED BY <1>1, <1>8, <1>9, <1>10, <1>11 DEF WInv, PieceInv, FindInv, MergeInv

LEMMA WNext == RomLen < RomMax /\ WInv /\ [Next]_vars => WInv'
<1> SUFFICES ASSUME RomLen < RomMax, WInv, [Next]_vars PROVE WInv'
  OBVIOUS
<1>1. CASE UNCHANGED vars
  <2>1. UNCHANGED <<writtenblocks, rest, piece, search, pc, dirty>> BY <1>1 DEF vars
  <2>. QED BY <2>1 DEF rest, piece, search, WInv, TypeOK, RestInv, ListInv, ApartInv, PieceInv,
                       FindInv, MergeInv
<1>. QED BY <1>1, ResetStep, WriteRomDataStep, SplitBankStep, LastBankStep, FindStep,
            MergePrecedingStep, MergeSucceedingStep, InsertStep DEF Next

-----------------------------------------------------------------------------
LEMMA WCorrect ==
  ASSUME RomLen < RomMax
  PROVE  Spec => []WInv
<1>1. WInv /\ [Next]_vars => WInv' BY WNext
<1>. QED BY <1>1, WInit, PTL DEF Spec

(***************************************************************************)
(* The list stays well typed: no position of the search leaves the list.   *)
(***************************************************************************)
THEOREM TypeCorrect ==
  ASSUME RomLen < RomMax
  PROVE  Spec => []TypeOK
<1>1. WInv => TypeOK BY DEF WInv
<1>. QED BY <1>1, WCorrect, PTL

(***************************************************************************)
(* The list is sorted, and its blocks neither overlap nor could be merged. *)
(***************************************************************************)
THEOREM StaysSortedApart ==
  ASSUME RomLen < RomMax
  PROVE  Spec => []SortedApart
<1>1. ASSUME WInv PROVE SortedApart
  <2> SUFFICES ASSUME NEW j \in DOMAIN writtenblocks, NEW i \in 1 .. j - 1
               PROVE  Clear(writtenblocks[i], writtenblocks[j].snesoffset)
    BY DEF SortedApart, Clear
  <2>1. writtenblocks \in Seq(Block) BY <1>1 DEF WInv, TypeOK
  <2>2. i \in 1 .. Len(writtenblocks) /\ j \in 1 .. Len(writtenblocks) /\ i < j BY <2>1
  <2>. QED BY <1>1, <2>2 DEF WInv, ApartInv
<1>. QED BY <1>1, WCorrect, PTL

(***************************************************************************)
(* No block leaves the bank it starts in.                                  *)
(***************************************************************************)
THEOREM StaysInOneBank ==
  ASSUME RomLen < RomMax
  PROVE  Spec => []InOneBank
<1>1. ASSUME WInv PROVE InOneBank
  <2> SUFFICES ASSUME NEW i \in DOMAIN writtenblocks
               PROVE  /\ writtenblocks[i].numbytes > 0
                      /\ BankOf(writtenblocks[i].snesoffset) = BankOf(End(writtenblocks[i]) - 1)
    BY DEF InOneBank
  <2> DEFINE a == writtenblocks[i].snesoffset
             e == End(writtenblocks[i])
  <2>1. i \in 1 .. Len(writtenblocks) BY <1>1 DEF WInv, TypeOK
  <2>2. /\ a \in Address /\ a \in Int /\ writtenblocks[i].numbytes \in Nat \ {0}
        /\ e \in Int /\ a < e /\ e <= BankEnd(a)
    BY <1>1, <2>1, BlockFacts, AddressesAreInts
  <2>3. BankEnd(a) <= Banks * BankSpan /\ BankEnd(a) \in Int /\ 0 <= a
    BY <2>2, BankOfAddress DEF Address
  <2>4. Banks * BankSpan \in Int BY WrittenBlocksAssumption
  <2>5. e - 1 \in Address BY <2>2, <2>3, <2>4 DEF Address
  <2>6. BankOf(a) = BankOf(e - 1) BY <2>2, <2>3, <2>5, BanksApart
  <2>. QED BY <2>2, <2>6
<1>. QED BY <1>1, WCorrect, PTL

-----------------------------------------------------------------------------
(***************************************************************************)
(* Which bytes of the ROM the list is about                                *)
(***************************************************************************)

\* The address is that of a byte of the ROM.
Mapped(a) ==
  a \in Address /\ FirstBank * BankSpan <= a /\ BankSpan - BankLen <= a % BankSpan

\* The n bytes of the ROM at the address a.
BytesOf(a, n) == Snestopc(a) .. Snestopc(a) + n - 1

ListBytes(list) == UNION { BytesOf(list[i].snesoffset, list[i].numbytes) : i \in 1 .. Len(list) }

\* Every block of the list, and the piece that is to be put into it, starts in the ROM.
PlacesInv ==
  /\ \A i \in 1 .. Len(writtenblocks) :
       /\ Mapped(writtenblocks[i].snesoffset)
       /\ writtenblocks[i].pcoffset = Snestopc(writtenblocks[i].snesoffset)
  /\ pc \in {"find", "merge"} => Mapped(snesoffset)

\* The piece that is not in the list yet, and what is left of the write.
PieceBytes == IF pc \in {"find", "merge"} THEN BytesOf(snesoffset, numbytes) ELSE {}
RestBytes  == IF pc # "idle" THEN pcoffset .. pcoffset + bytesleft - 1 ELSE {}

\* Every byte written is in the list, in the piece or in the rest, and nothing else is.
WrittenInv == dirty = ListBytes(writtenblocks) \cup PieceBytes \cup RestBytes

BInv == PlacesInv /\ WrittenInv

\* In one bank, addresses and ROM offsets are equally far apart.
LEMMA BankOffsets ==
  ASSUME NEW a, Mapped(a), NEW b \in Address, a <= b, BankOf(a) = BankOf(b)
  PROVE  Mapped(b) /\ Snestopc(b) = Snestopc(a) + (b - a)
<1> DEFINE q == a \div BankSpan
<1>1. /\ BankSpan \in Nat \ {0} /\ BankLen \in 1 .. BankSpan
      /\ Banks \in Nat \ {0} /\ FirstBank \in 0 .. Banks - 1
  BY WrittenBlocksAssumption
<1>2. a \in Address /\ a \in Int /\ b \in Int BY AddressesAreInts DEF Mapped
<1>3. b \div BankSpan = q BY <1>2, BankOfAddress
<1>4. /\ q \in Int /\ a % BankSpan \in Int /\ b % BankSpan \in Int
      /\ a = BankSpan * q + (a % BankSpan) /\ b = BankSpan * q + (b % BankSpan)
  <2>1. /\ q \in Int /\ a % BankSpan \in Int
        /\ a = BankSpan * q + (a % BankSpan)
    BY <1>1, <1>2, DivMod
  <2>2. b % BankSpan \in Int /\ b = BankSpan * (b \div BankSpan) + (b % BankSpan)
    BY <1>1, <1>2, DivMod
  <2>. QED BY <1>3, <2>1, <2>2
<1>5. BankSpan * q \in Int BY <1>1, <1>4
<1>6. b % BankSpan = (a % BankSpan) + (b - a) BY <1>2, <1>4, <1>5
<1>7. FirstBank * BankSpan \in Int /\ Banks * BankSpan \in Int BY <1>1
<1>8. Mapped(b)
  <2>1. FirstBank * BankSpan <= b BY <1>2, <1>7 DEF Mapped
  <2>2. BankSpan - BankLen <= b % BankSpan BY <1>1, <1>2, <1>4, <1>6 DEF Mapped
  <2>. QED BY <2>1, <2>2 DEF Mapped
<1>9. \A x \in {a, b} : Snestopc(x) = (q - FirstBank) * BankLen + (x % BankSpan) - (BankSpan - BankLen)
  <2> SUFFICES ASSUME NEW x \in {a, b}
               PROVE  Snestopc(x) = (q - FirstBank) * BankLen + (x % BankSpan) - (BankSpan - BankLen)
    OBVIOUS
  <2>1. x \in Int /\ x % BankSpan \in Int /\ x \div BankSpan = q BY <1>2, <1>3, <1>4
  <2>2. ~(x < FirstBank * BankSpan \/ x >= Banks * BankSpan \/ x % BankSpan < BankSpan - BankLen)
    <3>1. Mapped(x) BY <1>8
    <3>. QED BY <1>1, <1>7, <2>1, <3>1 DEF Mapped, Address
  <2>. QED BY <2>1, <2>2 DEF Snestopc
<1>10. (q - FirstBank) * BankLen \in Int BY <1>1, <1>4
<1>. QED BY <1>1, <1>2, <1>4, <1>6, <1>8, <1>9, <1>10

\* pctosnes answers an address of the ROM, and snestopc takes it back.
LEMMA PctosnesMapped ==
  ASSUME NEW p \in Nat, p < RomMax
  PROVE  Mapped(Pctosnes(p)) /\ Snestopc(Pctosnes(p)) = p
<1> DEFINE q == p \div BankLen
           r == p % BankLen
           bank == FirstBank + q
           a == Pctosnes(p)
<1>1. /\ BankSpan \in Nat \ {0} /\ BankLen \in 1 .. BankSpan
      /\ Banks \in Nat \ {0} /\ FirstBank \in 0 .. Banks - 1
  BY WrittenBlocksAssumption
<1>2. q \in Int /\ p = BankLen * q + r /\ r \in 0 .. BankLen - 1
  BY <1>1, DivMod
<1>3. 0 <= q
  <2>1. q <= -1 => BankLen * q <= BankLen * (-1) BY <1>1, <1>2, MulMono
  <2>. QED BY <1>1, <1>2, <2>1
<1>4. a = BankSpan * bank + (BankSpan - BankLen + r)
  <2>1. a = (FirstBank + q) * BankSpan + (BankSpan - BankLen) + r
    <3>1. RomMax \in Int /\ p < RomMax /\ 0 <= p BY AddressesAreInts
    <3>. QED BY <3>1 DEF Pctosnes
  <2>. QED BY <1>1, <1>2, <2>1
<1>5. a \in Address /\ a \in Int
  <2>1. p + 0 < RomMax BY AddressesAreInts
  <2>. QED BY <2>1, WriteAddresses, AddressesAreInts
<1>6. a \div BankSpan = bank
  <2>1. BankSpan - BankLen + r \in 0 .. BankSpan - 1 BY <1>1, <1>2
  <2>2. bank \in Int BY <1>1, <1>2
  <2>3. (BankSpan * bank + (BankSpan - BankLen + r)) \div BankSpan = bank
    BY <1>1, <2>1, <2>2, DivUnique
  <2>. QED BY <1>4, <2>3
<1>7. a % BankSpan = BankSpan - BankLen + r
  <2>1. BankSpan * bank \in Int /\ r \in Int BY <1>1, <1>2
  <2> HIDE DEF a, r
  <2>2. a = BankSpan * (a \div BankSpan) + (a % BankSpan) /\ a % BankSpan \in Int
    BY <1>1, <1>5, DivMod
  <2>3. a = BankSpan * bank + (a % BankSpan) BY <1>6, <2>2
  <2>4. PICK m \in Int : m = BankSpan * bank BY <2>1
  <2> HIDE DEF bank
  <2>5. a = m + (BankSpan - BankLen + r) /\ a = m + (a % BankSpan) BY <1>4, <2>3, <2>4
  <2>. QED BY <1>1, <2>1, <2>2, <2>5
<1>8. FirstBank * BankSpan <= a
  <2>1. BankSpan * FirstBank <= BankSpan * bank BY <1>1, <1>2, <1>3, MulMono
  <2>2. BankSpan * bank \in Int BY <1>1, <1>2
  <2>. QED BY <1>1, <1>2, <1>4, <2>1, <2>2
<1>9. Mapped(a) BY <1>1, <1>2, <1>5, <1>7, <1>8 DEF Mapped
<1>10. Snestopc(a) = (bank - FirstBank) * BankLen + (a % BankSpan) - (BankSpan - BankLen)
  <2>1. FirstBank * BankSpan \in Int /\ Banks * BankSpan \in Int BY <1>1
  <2>2. ~(a < FirstBank * BankSpan \/ a >= Banks * BankSpan \/ a % BankSpan < BankSpan - BankLen)
    BY <1>1, <1>2, <1>5, <1>7, <1>8, <2>1 DEF Address
  <2>. QED BY <1>6, <2>2 DEF Snestopc
<1>11. (bank - FirstBank) * BankLen = BankLen * q BY <1>1, <1>2
<1>12. Snestopc(a) = p
  <2>1. BankLen * q \in Int BY <1>1, <1>2
  <2>. QED BY <1>1, <1>2, <1>7, <1>10, <1>11, <2>1
<1>. QED BY <1>9, <1>12

\* Two runs of bytes in one bank that meet are one run, from the first byte to the later end.
LEMMA MergedBytes ==
  ASSUME NEW a, NEW b, Mapped(a), b \in Address, a <= b, BankOf(a) = BankOf(b),
         NEW n \in Nat \ {0}, NEW m \in Nat \ {0}, b <= a + n
  PROVE  BytesOf(a, n) \cup BytesOf(b, m) = BytesOf(a, MaxOf(a + n, b + m) - a)
<1>1. a \in Int /\ b \in Int BY AddressesAreInts DEF Mapped
<1>2. Snestopc(a) \in Int /\ Snestopc(b) = Snestopc(a) + (b - a) BY <1>1, BankOffsets, AddressesAreInts
<1>3. CASE a + n > b + m
  BY <1>1, <1>2, <1>3 DEF BytesOf, MaxOf
<1>4. CASE ~(a + n > b + m)
  BY <1>1, <1>2, <1>4 DEF BytesOf, MaxOf
<1>. QED BY <1>3, <1>4

LEMMA RemoveBytes ==
  ASSUME NEW list \in Seq(Block), NEW k \in 1 .. Len(list)
  PROVE  ListBytes(list) = ListBytes(RemoveAt(list, k)) \cup BytesOf(list[k].snesoffset, list[k].numbytes)
<1> DEFINE bytes(b) == BytesOf(b.snesoffset, b.numbytes)
<1> PICK n \in Nat : n = Len(list) OBVIOUS
<1>1. PICK shorter : shorter = RemoveAt(list, k) OBVIOUS
<1>2. Len(shorter) = n - 1 /\ \A j \in 1 .. n - 1 : shorter[j] = list[IF j < k THEN j ELSE j + 1]
  BY <1>1, RemoveAtList
<1>3. ListBytes(shorter) = UNION { bytes(shorter[i]) : i \in 1 .. n - 1 } BY <1>2 DEF ListBytes
<1>4. ListBytes(list) = UNION { bytes(list[i]) : i \in 1 .. n } BY DEF ListBytes
<1> HIDE DEF bytes
<1>5. ASSUME NEW x \in ListBytes(list) PROVE x \in ListBytes(shorter) \cup bytes(list[k])
  <2>1. PICK i \in 1 .. n : x \in bytes(list[i]) BY <1>4, <1>5
  <2>2. CASE i < k
    <3>1. i \in 1 .. n - 1 /\ shorter[i] = list[i] BY <1>2, <2>2
    <3>. QED BY <1>3, <2>1, <3>1
  <2>3. CASE i = k BY <2>1, <2>3
  <2>4. CASE k < i
    <3>1. i - 1 \in 1 .. n - 1 /\ shorter[i - 1] = list[i]
      <4>1. i - 1 \in 1 .. n - 1 /\ ~(i - 1 < k) /\ (i - 1) + 1 = i BY <2>4
      <4>. QED BY <1>2, <4>1
    <3>. QED BY <1>3, <2>1, <3>1
  <2>. QED BY <2>2, <2>3, <2>4
<1>6. ASSUME NEW x \in ListBytes(shorter) PROVE x \in ListBytes(list)
  <2>1. PICK i \in 1 .. n - 1 : x \in bytes(shorter[i]) BY <1>3, <1>6
  <2>2. i \in 1 .. n /\ i + 1 \in 1 .. n OBVIOUS
  <2>3. shorter[i] = list[i] \/ shorter[i] = list[i + 1] BY <1>2
  <2>. QED BY <1>4, <2>1, <2>2, <2>3
<1>7. ASSUME NEW x \in bytes(list[k]) PROVE x \in ListBytes(list)
  BY <1>4, <1>7
<1>8. bytes(list[k]) = BytesOf(list[k].snesoffset, list[k].numbytes) BY DEF bytes
<1>. QED BY <1>1, <1>5, <1>6, <1>7, <1>8

LEMMA InsertedBlock ==
  ASSUME NEW list \in Seq(Block), NEW k \in 1 .. Len(list) + 1, NEW e \in Block,
         NEW longer, longer = InsertAt(list, k, e)
  PROVE  /\ Len(longer) = Len(list) + 1 /\ longer[k] = e
         /\ \A j \in 1 .. k - 1 : longer[j] = list[j]
         /\ \A j \in k + 1 .. Len(list) + 1 : longer[j] = list[j - 1]
BY InsertAtList, SMTT(30)

LEMMA InsertBytes ==
  ASSUME NEW list \in Seq(Block), NEW k \in 1 .. Len(list) + 1, NEW e \in Block
  PROVE  ListBytes(InsertAt(list, k, e)) = ListBytes(list) \cup BytesOf(e.snesoffset, e.numbytes)
<1> DEFINE bytes(b) == BytesOf(b.snesoffset, b.numbytes)
<1> PICK n \in Nat : n = Len(list) OBVIOUS
<1>1. PICK longer : longer = InsertAt(list, k, e) OBVIOUS
<1>2. /\ Len(longer) = n + 1 /\ longer[k] = e
      /\ \A j \in 1 .. k - 1 : longer[j] = list[j]
      /\ \A j \in k + 1 .. n + 1 : longer[j] = list[j - 1]
  <2>1. /\ Len(longer) = Len(list) + 1 /\ longer[k] = e
        /\ \A j \in 1 .. k - 1 : longer[j] = list[j]
        /\ \A j \in k + 1 .. Len(list) + 1 : longer[j] = list[j - 1]
    BY <1>1, InsertedBlock
  <2>. QED BY <2>1, Zenon
<1>3. ListBytes(longer) = UNION { bytes(longer[i]) : i \in 1 .. n + 1 } BY <1>2 DEF ListBytes
<1>4. ListBytes(list) = UNION { bytes(list[i]) : i \in 1 .. n } BY DEF ListBytes
<1> HIDE DEF bytes
<1>5. ASSUME NEW x \in ListBytes(longer) PROVE x \in ListBytes(list) \cup bytes(e)
  <2>1. PICK i \in 1 .. n + 1 : x \in bytes(longer[i]) BY <1>3, <1>5
  <2>2. CASE i < k
    <3>1. i \in 1 .. n /\ longer[i] = list[i] BY <1>2, <2>2
    <3>. QED BY <1>4, <2>1, <3>1
  <2>3. CASE i = k BY <1>2, <2>1, <2>3
  <2>4. CASE k < i
    <3>1. i - 1 \in 1 .. n /\ longer[i] = list[i - 1] BY <1>2, <2>4
    <3>. QED BY <1>4, <2>1, <3>1
  <2>. QED BY <2>2, <2>3, <2>4
<1>6. ASSUME NEW x \in ListBytes(list) PROVE x \in ListBytes(longer)
  <2>1. PICK i \in 1 .. n : x \in bytes(list[i]) BY <1>4, <1>6
  <2>2. CASE i < k
    <3>1. i \in 1 .. n + 1 /\ longer[i] = list[i] BY <1>2, <2>2
    <3>. QED BY <1>3, <2>1, <3>1
  <2>3. CASE ~(i < k)
    <3>1. i + 1 \in k + 1 .. n + 1 /\ (i + 1) - 1 = i BY <2>3
    <3>2. longer[i + 1] = list[i] /\ i + 1 \in 1 .. n + 1 BY <1>2, <3>1
    <3>. QED BY <1>3, <2>1, <3>2
  <2>. QED BY <2>2, <2>3
<1>7. ASSUME NEW x \in bytes(e) PROVE x \in ListBytes(longer)
  <2>1. k \in 1 .. n + 1 OBVIOUS
  <2>. QED BY <1>2, <1>3, <1>7, <2>1
<1>8. bytes(e) = BytesOf(e.snesoffset, e.numbytes) BY DEF bytes
<1>. QED BY <1>1, <1>5, <1>6, <1>7, <1>8

\* The piece taken off the front of what is left of the write is where the rest began.
LEMMA AddForBankBytes ==
  ASSUME RomLen < RomMax, WInv, BInv, pc = "banks", NEW n \in Nat \ {0}, n <= bytesleft,
         AddForBank(snesaddr, n), UNCHANGED <<writtenblocks, dirty>>,
         \/ pcoffset' = pcoffset + n /\ bytesleft' = bytesleft - n
         \/ n = bytesleft /\ bytesleft' = 0 /\ pcoffset' = pcoffset
  PROVE  BInv'
<1>1. /\ pcoffset \in Nat /\ bytesleft \in Nat /\ pcoffset + bytesleft <= RomLen
      /\ snesaddr = Pctosnes(pcoffset)
  BY DEF WInv, RestInv
<1>2. pcoffset < RomMax BY <1>1, AddressesAreInts
<1>3. Mapped(snesaddr) /\ Snestopc(snesaddr) = pcoffset BY <1>1, <1>2, PctosnesMapped
<1>4. pc' = "find" /\ snesoffset' = snesaddr /\ numbytes' = n BY DEF AddForBank
<1>5. PlacesInv' BY <1>3, <1>4 DEF BInv, PlacesInv
<1>6. PieceBytes' = pcoffset .. pcoffset + n - 1 BY <1>3, <1>4 DEF PieceBytes, BytesOf
<1>7. RestBytes' = pcoffset' .. pcoffset' + bytesleft' - 1 BY <1>4 DEF RestBytes
<1>8. pcoffset .. pcoffset + bytesleft - 1 = PieceBytes' \cup RestBytes'
  BY <1>1, <1>6, <1>7
<1>9. dirty = ListBytes(writtenblocks) \cup (pcoffset .. pcoffset + bytesleft - 1)
  BY DEF BInv, WrittenInv, PieceBytes, RestBytes
<1>10. WrittenInv' BY <1>8, <1>9 DEF WrittenInv
<1>. QED BY <1>5, <1>10 DEF BInv

LEMMA BInit == Init => BInv
<1> SUFFICES ASSUME Init PROVE BInv
  OBVIOUS
<1>1. writtenblocks = << >> /\ pc = "idle" /\ dirty = {} BY DEF Init
<1>2. 1 .. Len(writtenblocks) = {} BY <1>1
<1>3. ListBytes(writtenblocks) = {} BY <1>2 DEF ListBytes
<1>. QED BY <1>1, <1>2, <1>3 DEF BInv, PlacesInv, WrittenInv, PieceBytes, RestBytes

LEMMA QuietBytes == WInv /\ BInv /\ (Reset \/ WriteRomData) => BInv'
<1> SUFFICES ASSUME WInv, BInv, Reset \/ WriteRomData PROVE BInv'
  OBVIOUS
<1>1. CASE Reset
  <2>1. writtenblocks' = << >> /\ pc' = "idle" /\ dirty' = {} BY <1>1 DEF Reset
  <2>2. 1 .. Len(writtenblocks') = {} BY <2>1
  <2>3. ListBytes(writtenblocks') = {} BY <2>2 DEF ListBytes
  <2>. QED BY <2>1, <2>2, <2>3 DEF BInv, PlacesInv, WrittenInv, PieceBytes, RestBytes
<1>2. CASE WriteRomData
  <2>1. pc = "idle" /\ pc' = "banks" /\ writtenblocks' = writtenblocks
        /\ dirty' = dirty \cup pcoffset' .. pcoffset' + bytesleft' - 1
    BY <1>2 DEF WriteRomData
  <2>. QED BY <2>1 DEF BInv, PlacesInv, WrittenInv, PieceBytes, RestBytes
<1>. QED BY <1>1, <1>2

LEMMA BanksBytes == RomLen < RomMax /\ WInv /\ BInv /\ (SplitBank \/ LastBank) => BInv'
<1> SUFFICES ASSUME RomLen < RomMax, WInv, BInv, SplitBank \/ LastBank PROVE BInv'
  OBVIOUS
<1>1. CASE SplitBank
  <2> DEFINE n == BankBase(snesaddr + BankSpan) - snesaddr
  <2>1. /\ pc = "banks" /\ BankOf(snesaddr) # BankOf(snesaddr + bytesleft)
        /\ AddForBank(snesaddr, n) /\ pcoffset' = pcoffset + n /\ bytesleft' = bytesleft - n
        /\ UNCHANGED <<writtenblocks, dirty>>
    BY <1>1 DEF SplitBank
  <2>2. /\ bytesleft \in Nat /\ snesaddr \in Address
        /\ n = BankEnd(snesaddr) - snesaddr /\ BankEnd(snesaddr) <= snesaddr + bytesleft
    BY <2>1, RestAddresses
  <2>3. snesaddr \in Int /\ BankEnd(snesaddr) \in Int /\ snesaddr < BankEnd(snesaddr)
    BY <2>2, BankOfAddress, AddressesAreInts
  <2> HIDE DEF n
  <2>4. n \in Nat \ {0} /\ n <= bytesleft BY <2>2, <2>3
  <2>. QED BY <2>1, <2>4, AddForBankBytes
<1>2. CASE LastBank
  <2>1. /\ pc = "banks" /\ bytesleft' = 0 /\ bytesleft \in Nat
        /\ UNCHANGED <<writtenblocks, pcoffset, snesaddr, dirty>>
    BY <1>2 DEF LastBank, WInv, RestInv
  <2>2. CASE bytesleft = 0
    <3>1. pc' = "idle" BY <1>2, <2>2 DEF LastBank
    <3>2. RestBytes = {} /\ RestBytes' = {} /\ PieceBytes = {} /\ PieceBytes' = {}
      <4>1. pcoffset \in Nat BY <2>1 DEF WInv, RestInv
      <4>. QED BY <2>1, <2>2, <3>1, <4>1 DEF RestBytes, PieceBytes
    <3>3. WrittenInv' BY <2>1, <3>2 DEF BInv, WrittenInv
    <3>4. PlacesInv' BY <2>1, <3>1 DEF BInv, PlacesInv
    <3>. QED BY <3>3, <3>4 DEF BInv
  <2>3. CASE bytesleft # 0
    <3>1. AddForBank(snesaddr, bytesleft) BY <1>2, <2>3 DEF LastBank
    <3>2. bytesleft \in Nat \ {0} /\ bytesleft <= bytesleft BY <2>1, <2>3
    <3>. QED BY <2>1, <3>1, <3>2, AddForBankBytes
  <2>. QED BY <2>2, <2>3
<1>. QED BY <1>1, <1>2

LEMMA FindBytes == BInv /\ (FindLower \/ FindUpper) => BInv'
<1> SUFFICES ASSUME BInv, FindLower \/ FindUpper PROVE BInv'
  OBVIOUS
<1>1. UNCHANGED <<writtenblocks, rest, piece, pc, dirty>> BY DEF FindLower, FindUpper
<1>. QED BY <1>1 DEF rest, piece, BInv, PlacesInv, WrittenInv, PieceBytes, RestBytes

\* The blocks that are left after one is taken out of the list are where they were.
LEMMA RemovePlaces ==
  ASSUME WInv, PlacesInv, NEW k \in 1 .. Len(writtenblocks),
         writtenblocks' = RemoveAt(writtenblocks, k), Mapped(snesoffset')
  PROVE  PlacesInv'
<1>1. /\ Len(writtenblocks') = Len(writtenblocks) - 1
      /\ \A i \in 1 .. Len(writtenblocks') :
           writtenblocks'[i] = writtenblocks[IF i < k THEN i ELSE i + 1]
  BY RemoveKeeps
<1>2. Len(writtenblocks) \in Nat BY DEF WInv, TypeOK
<1>3. ASSUME NEW i \in 1 .. Len(writtenblocks')
      PROVE  \E j \in 1 .. Len(writtenblocks) : writtenblocks'[i] = writtenblocks[j]
  <2>1. i \in 1 .. Len(writtenblocks) /\ i + 1 \in 1 .. Len(writtenblocks) BY <1>1, <1>2
  <2>. QED BY <1>1, <2>1
<1>. QED BY <1>3 DEF PlacesInv

LEMMA MergePrecedingBytes == WInv /\ BInv /\ MergePreceding => BInv'
<1> SUFFICES ASSUME WInv, BInv, MergePreceding PROVE BInv'
  OBVIOUS
<1> DEFINE p == searchstartpos
           n == Len(writtenblocks)
           before == writtenblocks[p - 1]
<1>1. pc = "find" /\ searchstartpos = searchendpos /\ pc' = "merge" /\ UNCHANGED <<rest, dirty>>
  BY DEF MergePreceding
<1>2. CASE ~TouchesPreceding
  <2>1. UNCHANGED <<writtenblocks, piece, search>> BY <1>2 DEF MergePreceding
  <2>. QED BY <1>1, <2>1 DEF rest, piece, BInv, PlacesInv, WrittenInv, PieceBytes, RestBytes
<1>3. CASE TouchesPreceding
  <2>1. /\ p > 1 /\ BankOf(before.snesoffset) = BankOf(snesoffset) /\ End(before) >= snesoffset
        /\ snesoffset' = before.snesoffset
        /\ numbytes' = MaxOf(End(before), snesoffset + numbytes) - before.snesoffset
        /\ writtenblocks' = RemoveAt(writtenblocks, p - 1)
    BY <1>3 DEF MergePreceding, TouchesPreceding
  <2>2. /\ writtenblocks \in Seq(Block) /\ n \in Nat /\ p \in 1 .. n + 1 /\ p - 1 \in 1 .. n
        /\ snesoffset \in Address /\ numbytes \in Nat \ {0}
    <3>1. writtenblocks \in Seq(Block) /\ p \in 1 .. n + 1 BY <1>1 DEF WInv, TypeOK
    <3>2. Fits(snesoffset, numbytes) BY <1>1 DEF WInv, PieceInv
    <3>. QED BY <2>1, <3>1, <3>2 DEF Fits
  <2>3. before.snesoffset <= snesoffset
    <3>1. before.snesoffset < snesoffset BY <1>1, <2>1, <2>2 DEF WInv, FindInv
    <3>2. before.snesoffset \in Int /\ snesoffset \in Int BY <2>2, BlockFacts, AddressesAreInts
    <3>. QED BY <3>1, <3>2
  <2>4. Mapped(before.snesoffset) BY <2>2 DEF BInv, PlacesInv
  <2>5. before.numbytes \in Nat \ {0} /\ End(before) = before.snesoffset + before.numbytes
    BY <2>2, BlockFacts DEF End
  <2>6. BytesOf(before.snesoffset, before.numbytes) \cup BytesOf(snesoffset, numbytes)
          = BytesOf(snesoffset', numbytes')
    <3>1. snesoffset <= before.snesoffset + before.numbytes
      <4>1. End(before) \in Int /\ snesoffset \in Int BY <2>2, BlockFacts, AddressesAreInts
      <4>. QED BY <2>1, <2>5, <4>1
    <3>. QED BY <2>1, <2>2, <2>3, <2>4, <2>5, <3>1, MergedBytes
  <2>7. ListBytes(writtenblocks)
          = ListBytes(writtenblocks') \cup BytesOf(before.snesoffset, before.numbytes)
    BY <2>1, <2>2, RemoveBytes
  <2>8. PieceBytes = BytesOf(snesoffset, numbytes) /\ PieceBytes' = BytesOf(snesoffset', numbytes')
    BY <1>1 DEF PieceBytes
  <2>9. RestBytes' = RestBytes BY <1>1 DEF rest, RestBytes
  <2>10. WrittenInv' BY <1>1, <2>6, <2>7, <2>8, <2>9 DEF BInv, WrittenInv
  <2>11. PlacesInv' BY <2>1, <2>2, <2>4, RemovePlaces DEF BInv
  <2>. QED BY <2>10, <2>11 DEF BInv
<1>. QED BY <1>2, <1>3

LEMMA MergeSucceedingBytes == WInv /\ BInv /\ MergeSucceeding => BInv'
<1> SUFFICES ASSUME WInv, BInv, MergeSucceeding PROVE BInv'
  OBVIOUS
<1> DEFINE p == searchstartpos
           n == Len(writtenblocks)
           after == writtenblocks[p]
<1>1. /\ pc = "merge" /\ p <= n /\ BankOf(after.snesoffset) = BankOf(snesoffset)
      /\ snesoffset + numbytes >= after.snesoffset
      /\ numbytes' = MaxOf(snesoffset + numbytes, End(after)) - snesoffset
      /\ writtenblocks' = RemoveAt(writtenblocks, p)
      /\ UNCHANGED <<rest, snesoffset, search, pc, dirty>>
  BY DEF MergeSucceeding, TouchesSucceeding
<1>2. /\ writtenblocks \in Seq(Block) /\ n \in Nat /\ p \in 1 .. n
      /\ snesoffset \in Address /\ snesoffset \in Int /\ numbytes \in Nat \ {0}
  BY <1>1, AddressesAreInts DEF WInv, TypeOK, PieceInv, Fits
<1>3. snesoffset <= after.snesoffset BY <1>1, <1>2 DEF WInv, MergeInv
<1>4. Mapped(snesoffset) BY <1>1 DEF BInv, PlacesInv
<1>5. /\ after.snesoffset \in Address /\ after.snesoffset \in Int /\ after.numbytes \in Nat \ {0}
      /\ End(after) = after.snesoffset + after.numbytes
  BY <1>2, BlockFacts, AddressesAreInts DEF End
<1>6. BytesOf(snesoffset, numbytes) \cup BytesOf(after.snesoffset, after.numbytes)
        = BytesOf(snesoffset, numbytes')
  <2>1. after.snesoffset <= snesoffset + numbytes BY <1>1, <1>2, <1>5
  <2>2. BankOf(snesoffset) = BankOf(after.snesoffset) BY <1>1
  <2>3. numbytes' = MaxOf(snesoffset + numbytes, after.snesoffset + after.numbytes) - snesoffset
    BY <1>1, <1>5, Zenon
  <2>4. \A a, b \in Address : \A k, m \in Nat \ {0} :
          Mapped(a) /\ a <= b /\ BankOf(a) = BankOf(b) /\ b <= a + k =>
            BytesOf(a, k) \cup BytesOf(b, m) = BytesOf(a, MaxOf(a + k, b + m) - a)
    BY MergedBytes
  <2>. QED BY <1>2, <1>3, <1>4, <1>5, <2>1, <2>2, <2>3, <2>4, Zenon
<1>7. ListBytes(writtenblocks)
        = ListBytes(writtenblocks') \cup BytesOf(after.snesoffset, after.numbytes)
  BY <1>1, <1>2, RemoveBytes
<1>8. PieceBytes = BytesOf(snesoffset, numbytes) /\ PieceBytes' = BytesOf(snesoffset, numbytes')
  BY <1>1 DEF PieceBytes
<1>9. RestBytes' = RestBytes BY <1>1 DEF rest, RestBytes
<1>10. WrittenInv' BY <1>1, <1>6, <1>7, <1>8, <1>9 DEF BInv, WrittenInv
<1>11. PlacesInv' BY <1>1, <1>2, <1>4, RemovePlaces DEF BInv
<1>. QED BY <1>10, <1>11 DEF BInv

LEMMA InsertBlockBytes == WInv /\ BInv /\ Insert => BInv'
<1> SUFFICES ASSUME WInv, BInv, Insert PROVE BInv'
  OBVIOUS
<1> DEFINE p == searchstartpos
           new == [snesoffset |-> snesoffset, pcoffset |-> Snestopc(snesoffset), numbytes |-> numbytes]
<1> PICK n \in Nat : n = Len(writtenblocks) BY DEF WInv, TypeOK
<1>1. /\ pc = "merge" /\ pc' = "banks"
      /\ writtenblocks' = InsertAt(writtenblocks, p, new)
      /\ UNCHANGED <<rest, piece, search, dirty>>
  BY DEF Insert
<1>2. /\ writtenblocks \in Seq(Block) /\ p \in 1 .. n + 1
      /\ snesoffset \in Int /\ numbytes \in Int /\ Mapped(snesoffset)
  BY <1>1 DEF WInv, TypeOK, BInv, PlacesInv
<1>3. /\ new \in Block /\ new.snesoffset = snesoffset /\ new.numbytes = numbytes
      /\ new.pcoffset = Snestopc(new.snesoffset)
  BY <1>2, AddressesAreInts DEF Block
<1> HIDE DEF new, p
<1>4. ListBytes(writtenblocks') = ListBytes(writtenblocks) \cup BytesOf(snesoffset, numbytes)
  BY <1>1, <1>2, <1>3, InsertBytes
<1>5. PieceBytes = BytesOf(snesoffset, numbytes) /\ PieceBytes' = {} BY <1>1 DEF PieceBytes
<1>6. RestBytes' = RestBytes BY <1>1 DEF rest, RestBytes
<1>7. WrittenInv' BY <1>1, <1>4, <1>5, <1>6 DEF BInv, WrittenInv
<1>8. /\ Len(writtenblocks') = n + 1 /\ writtenblocks'[p] = new
      /\ \A j \in 1 .. p - 1 : writtenblocks'[j] = writtenblocks[j]
      /\ \A j \in p + 1 .. n + 1 : writtenblocks'[j] = writtenblocks[j - 1]
  <2> DEFINE list == writtenblocks
             longer == writtenblocks'
  <2>1. /\ list \in Seq(Block) /\ p \in 1 .. Len(list) + 1 /\ new \in Block
        /\ longer = InsertAt(list, p, new)
    BY <1>1, <1>2, <1>3
  <2> HIDE DEF list, longer
  <2>2. /\ Len(longer) = Len(list) + 1 /\ longer[p] = new
        /\ \A j \in 1 .. p - 1 : longer[j] = list[j]
        /\ \A j \in p + 1 .. Len(list) + 1 : longer[j] = list[j - 1]
    BY ONLY <2>1, InsertedBlock
  <2>. QED BY <2>2, Zenon DEF list, longer
<1>9. ASSUME NEW i \in 1 .. n + 1
      PROVE  writtenblocks'[i] = new \/ \E j \in 1 .. n : writtenblocks'[i] = writtenblocks[j]
  <2>1. CASE i < p
    <3>1. i \in 1 .. p - 1 /\ i \in 1 .. n BY <1>2, <2>1
    <3>. QED BY <1>8, <3>1
  <2>2. CASE i = p BY <1>8, <2>2
  <2>3. CASE p < i
    <3>1. i \in p + 1 .. n + 1 /\ i - 1 \in 1 .. n BY <1>2, <2>3
    <3>. QED BY <1>8, <3>1
  <2>. QED BY <1>2, <2>1, <2>2, <2>3
<1>10. PlacesInv'
  <2> SUFFICES ASSUME NEW i \in 1 .. n + 1
               PROVE  /\ Mapped(writtenblocks'[i].snesoffset)
                      /\ writtenblocks'[i].pcoffset = Snestopc(writtenblocks'[i].snesoffset)
    BY <1>1, <1>8 DEF PlacesInv
  <2>1. CASE writtenblocks'[i] = new BY <1>2, <1>3, <2>1
  <2>2. CASE \E j \in 1 .. n : writtenblocks'[i] = writtenblocks[j]
    BY <2>2 DEF BInv, PlacesInv
  <2>. QED BY <1>9, <2>1, <2>2
<1>. QED BY <1>7, <1>10 DEF BInv

LEMMA BNext == RomLen < RomMax /\ WInv /\ BInv /\ [Next]_vars => BInv'
<1> SUFFICES ASSUME RomLen < RomMax, WInv, BInv, [Next]_vars PROVE BInv'
  OBVIOUS
<1>1. CASE UNCHANGED vars
  <2>1. UNCHANGED <<writtenblocks, rest, piece, search, pc, dirty>> BY <1>1 DEF vars
  <2>. QED BY <2>1 DEF rest, piece, BInv, PlacesInv, WrittenInv, PieceBytes, RestBytes
<1>. QED BY <1>1, QuietBytes, BanksBytes, FindBytes, MergePrecedingBytes, MergeSucceedingBytes,
            InsertBlockBytes DEF Next

(***************************************************************************)
(* When a write returns, the list names the bytes of the ROM that have     *)
(* been written, each of them and no other, at their offsets in the ROM.   *)
(***************************************************************************)
THEOREM ListIsTheWrites ==
  ASSUME RomLen < RomMax
  PROVE  Spec => []BlocksAreTheWrites
<1>1. WInv /\ BInv /\ [Next]_vars /\ WInv' => BInv' BY BNext
<1>2. ASSUME WInv, BInv PROVE BlocksAreTheWrites
  <2>1. DOMAIN writtenblocks = 1 .. Len(writtenblocks) BY <1>2 DEF WInv, TypeOK
  <2>2. ASSUME pc = "idle" PROVE dirty = ListBytes(writtenblocks)
    BY <1>2, <2>2 DEF BInv, WrittenInv, PieceBytes, RestBytes
  <2>3. \A i \in DOMAIN writtenblocks :
          BytesOf(writtenblocks[i].snesoffset, writtenblocks[i].numbytes)
            = writtenblocks[i].pcoffset .. writtenblocks[i].pcoffset + writtenblocks[i].numbytes - 1
    BY <1>2, <2>1 DEF BInv, PlacesInv, BytesOf
  <2>. QED BY <2>1, <2>2, <2>3 DEF BlocksAreTheWrites, ListBytes
<1>. QED BY <1>1, <1>2, WCorrect, BInit, PTL DEF Spec
=============================================================================
