--------------------------- MODULE FreespaceProofs --------------------------
(***************************************************************************)
(* Theorems about the freespace finder, for every size of a bank and of a  *)
(* tag, every mapper, every ROM and all requests.                          *)
(***************************************************************************)
EXTENDS Freespace, WellFoundedInduction, TLAPS

-----------------------------------------------------------------------------
(***************************************************************************)
(* Arithmetic                                                              *)
(***************************************************************************)

\* Division with remainder.
LEMMA DivMod ==
  \A a \in Int, n \in Nat \ {0} :
    /\ a \div n \in Int /\ a % n \in 0 .. n - 1
    /\ a = n * (a \div n) + (a % n)
OBVIOUS

LEMMA MulMono == \A i, j \in Int, n \in Nat : i <= j => n * i <= n * j
OBVIOUS

\* There is only one way to divide with remainder.
LEMMA DivUnique ==
  ASSUME NEW n \in Nat \ {0}, NEW q \in Int, NEW r \in 0 .. n - 1
  PROVE  (n * q + r) \div n = q /\ (n * q + r) % n = r
<1> DEFINE a == n * q + r
<1>1. a \in Int OBVIOUS
<1>2. a = n * (a \div n) + (a % n) /\ a \div n \in Int /\ a % n \in 0 .. n - 1
  BY <1>1, DivMod
<1>3. ~(a \div n <= q - 1)
  <2>1. a \div n <= q - 1 => n * (a \div n) <= n * (q - 1) BY <1>2, MulMono
  <2>2. n * (q - 1) = n * q - n OBVIOUS
  <2>. QED BY <1>2, <2>1, <2>2
<1>4. ~(q + 1 <= a \div n)
  <2>1. q + 1 <= a \div n => n * (q + 1) <= n * (a \div n) BY <1>2, MulMono
  <2>2. n * (q + 1) = n * q + n OBVIOUS
  <2>. QED BY <1>2, <2>1, <2>2
<1>5. a \div n = q BY <1>2, <1>3, <1>4
<1>6. PICK m \in Int : m = n * q OBVIOUS
<1>7. a = m + (a % n) BY <1>2, <1>5, <1>6
<1>8. a = m + r BY <1>6
<1>. QED BY <1>2, <1>5, <1>7, <1>8

\* Rounding down to a multiple does not go below a multiple that is below.
LEMMA RoundDown ==
  ASSUME NEW a \in Int, NEW n \in Nat \ {0}, NEW k \in Int, n * k <= a
  PROVE  n * k <= a - (a % n) /\ a - (a % n) <= a /\ a < a - (a % n) + n
<1>1. a \div n \in Int /\ a % n \in 0 .. n - 1 /\ a = n * (a \div n) + (a % n) BY DivMod
<1>2. k <= a \div n
  <2>1. a \div n + 1 <= k => n * (a \div n + 1) <= n * k BY <1>1, MulMono
  <2>2. n * (a \div n + 1) = n * (a \div n) + n BY <1>1
  <2>3. n * (a \div n) \in Int /\ n * k \in Int BY <1>1
  <2>. QED BY <1>1, <2>1, <2>2, <2>3
<1>3. n * k <= n * (a \div n) BY <1>1, <1>2, MulMono
<1>4. n * (a \div n) \in Int /\ n * k \in Int BY <1>1
<1>. QED BY <1>1, <1>3, <1>4

\* Of a set of naturals that is not empty, one is the least.
LEMMA LessWellFounded ==
  \E R : /\ IsWellFoundedOn(R, Nat)
         /\ \A x, y \in Nat : y < x => <<y, x>> \in R
<1>1. \A x, y \in Nat : y < x => <<y, x>> \in OpToRel(<, Nat) BY DEF OpToRel
<1> QED BY <1>1, NatLessThanWellFounded

LEMMA LeastNat ==
  ASSUME NEW T, T \subseteq Nat, T # {}
  PROVE  \E m \in T : \A k \in T : m <= k
<1>1. PICK R : /\ IsWellFoundedOn(R, Nat) /\ \A x, y \in Nat : y < x => <<y, x>> \in R
  BY LessWellFounded
<1>2. PICK m \in T : \A y \in T : ~ (<<y, m>> \in R) BY <1>1, WFMin
<1>3. \A k \in T : ~(k < m) BY <1>1, <1>2
<1>. QED BY <1>3

\* The constants, as the arithmetic needs them.
LEMMA Sizing ==
  /\ TagSize \in Nat /\ TagSize >= 2 /\ TagSize \div 2 \in 1 .. TagSize - 1
  /\ HalfBank \in Nat \ {0} /\ HalfBank > TagSize /\ HiBank = 2 * HalfBank /\ HiBank \in Nat \ {0}
  /\ Half \in Nat \ {0} /\ Meg = 2 * Half /\ TwoMeg = 4 * Half /\ FourMeg = 8 * Half
  /\ HeaderPos \in 0 .. Half - 1 /\ ZeroPos \in Nat
  /\ HalfBank <= Half /\ Meg \in Nat \ {0} /\ TwoMeg \in Nat /\ FourMeg \in Nat
<1>1. /\ TagSize \in Nat \ {0} /\ TagSize % 2 = 0 /\ TagSize < HalfBank
      /\ HalfBank \in Nat \ {0} /\ Half \in Nat \ {0} /\ Half % HalfBank = 0 /\ Meg = 2 * Half
      /\ HeaderPos \in 0 .. Half - 1 /\ ZeroPos \in 0 .. Half - 1
  BY FreespaceAssumption
<1>2. TagSize >= 2 /\ TagSize \div 2 \in 1 .. TagSize - 1 BY <1>1
<1>3. HalfBank <= Half
  <2>1. Half \div HalfBank \in Int /\ Half = HalfBank * (Half \div HalfBank) + 0
    BY <1>1, DivMod
  <2>2. Half \div HalfBank >= 1
    <3>1. Half \div HalfBank <= 0 => HalfBank * (Half \div HalfBank) <= HalfBank * 0
      BY <1>1, <2>1, MulMono
    <3>. QED BY <1>1, <2>1, <3>1
  <2>3. HalfBank * 1 <= HalfBank * (Half \div HalfBank) BY <1>1, <2>1, <2>2, MulMono
  <2>. QED BY <1>1, <2>1, <2>3
<1>4. Meg \in Nat \ {0} /\ TwoMeg \in Nat /\ FourMeg \in Nat BY <1>1 DEF TwoMeg, FourMeg
<1>. QED BY <1>1, <1>2, <1>3, <1>4 DEF HiBank, TwoMeg, FourMeg

-----------------------------------------------------------------------------
(***************************************************************************)
(* Tags                                                                    *)
(***************************************************************************)
TagBytes == { TagByte(i, n) : i \in 0 .. TagSize - 1, n \in Nat \ {0} }
Bytes == {Data} \cup TagBytes

\* A ROM, and the tags in it.
IsRom(r) == DOMAIN r \subseteq Nat /\ \A c \in DOMAIN r : r[c] \in Bytes

TagIn(r, p)    == TagLenIn(r, p) # NoBlock
TagEndIn(r, p) == p + TagSize + TagLenIn(r, p)

\* A byte of a tag tells its place in the tag, the last one the length too.
LEMMA TagByteTells ==
  /\ \A i, j \in 0 .. TagSize - 1 : \A n, m \in Nat \ {0} : TagByte(i, n) = TagByte(j, m) => i = j
  /\ \A n, m \in Nat \ {0} : TagByte(TagSize - 1, n) = TagByte(TagSize - 1, m) => n = m
  /\ \A n \in Nat \ {0} : /\ TagByte(TagSize - 1, n)[1] = "len"
                          /\ TagByte(TagSize - 1, n)[3] = n
  /\ \A i \in 0 .. TagSize - 1 : \A n \in Nat \ {0} : TagByte(i, n) # Data
<1> DEFINE h == TagSize \div 2
<1>1. h \in 1 .. TagSize - 1 /\ TagSize \in Nat BY Sizing
<1> HIDE DEF h
<1>2. \A i \in 0 .. TagSize - 1 : \A n \in Nat \ {0} :
        TagByte(i, n) = IF i < h THEN <<"star", i>> ELSE <<"len", i, n>>
  BY DEF TagByte, h
<1>3. \A i \in 0 .. TagSize - 1 : \A n \in Nat \ {0} :
        /\ TagByte(i, n)[2] = i
        /\ TagByte(i, n) # <<"data">>
  BY <1>2
<1>4. \A n \in Nat \ {0} : TagByte(TagSize - 1, n) = <<"len", TagSize - 1, n>>
  <2>1. TagSize - 1 \in 0 .. TagSize - 1 /\ ~(TagSize - 1 < h) BY <1>1
  <2>. QED BY <1>2, <2>1
<1>. QED BY <1>3, <1>4 DEF Data

LEMMA TagsAreLong ==
  \A r, p : \A n, m \in Nat \ {0} : HasTag(r, p, n) /\ HasTag(r, p, m) => n = m
<1>1. TagSize - 1 \in 0 .. TagSize - 1 BY Sizing
<1>. QED BY <1>1, TagByteTells DEF HasTag

\* TagLenIn answers the length of a tag, and only of a tag.
LEMMA TagLen ==
  ASSUME NEW r, IsRom(r), NEW p \in Nat
  PROVE  /\ \A n \in Nat \ {0} : TagLenIn(r, p) = n <=> HasTag(r, p, n)
         /\ TagIn(r, p) <=> \E n \in Nat \ {0} : HasTag(r, p, n)
         /\ TagIn(r, p) => TagLenIn(r, p) \in Nat \ {0} /\ HasTag(r, p, TagLenIn(r, p))
<1> DEFINE end == p + TagSize - 1
           lens == IF end \in DOMAIN r /\ r[end][1] = "len" THEN {r[end][3]} ELSE {}
           said == { n \in lens : HasTag(r, p, n) }
<1>1. TagSize - 1 \in 0 .. TagSize - 1 /\ TagSize \in Nat /\ p + (TagSize - 1) = end BY Sizing
<1>2. TagLenIn(r, p) = IF said = {} THEN NoBlock ELSE CHOOSE n \in said : TRUE BY DEF TagLenIn
<1>3. ASSUME NEW n \in Nat \ {0}, HasTag(r, p, n) PROVE said = {n}
  <2>1. end \in DOMAIN r /\ r[end] = TagByte(TagSize - 1, n) BY <1>1, <1>3 DEF HasTag
  <2>2. lens = {n} BY <2>1, TagByteTells
  <2>. QED BY <1>3, <2>2
<1>4. ASSUME NEW n \in said PROVE n \in Nat \ {0} /\ HasTag(r, p, n)
  <2>1. HasTag(r, p, n) /\ end \in DOMAIN r /\ r[end][1] = "len" /\ n = r[end][3] BY <1>4
  <2>2. r[end] \in Bytes BY <2>1 DEF IsRom
  <2>3. PICK i \in 0 .. TagSize - 1, m \in Nat \ {0} : r[end] = TagByte(i, m)
    <3>1. r[end] # Data
      <4>1. <<"data">>[1] # "len" OBVIOUS
      <4>. QED BY <2>1, <4>1 DEF Data
    <3>. QED BY <2>2, <3>1 DEF Bytes, TagBytes
  <2>4. r[end] = <<"len", i, m>>
    <3>1. <<"star", i>>[1] # "len" OBVIOUS
    <3>. QED BY <2>1, <2>3, <3>1 DEF TagByte
  <2>. QED BY <2>1, <2>4
<1> HIDE DEF said
<1>5. said # {} => (CHOOSE n \in said : TRUE) \in said OBVIOUS
<1>6. NoBlock \notin Nat BY DEF NoBlock
<1>. QED BY <1>2, <1>3, <1>4, <1>5, <1>6 DEF TagIn

\* Where the bytes of a tag are what they were, so is the tag; where they are not a tag's
\* bytes, it was none.
LEMMA TagKept ==
  ASSUME NEW r, IsRom(r), NEW s, IsRom(s), NEW p \in Nat,
         \A i \in 0 .. TagSize - 1 : /\ p + i \in DOMAIN r <=> p + i \in DOMAIN s
                                     /\ p + i \in DOMAIN r => s[p + i] = r[p + i]
  PROVE  TagLenIn(s, p) = TagLenIn(r, p)
<1>1. \A n \in Nat \ {0} : HasTag(r, p, n) <=> HasTag(s, p, n) BY DEF HasTag
<1>2. TagIn(r, p) <=> TagIn(s, p) BY <1>1, TagLen
<1>3. CASE TagIn(r, p)
  <2>1. TagLenIn(r, p) \in Nat \ {0} /\ HasTag(r, p, TagLenIn(r, p)) BY <1>3, TagLen
  <2>. QED BY <1>1, <2>1, TagLen
<1>4. CASE ~TagIn(r, p) BY <1>2, <1>4 DEF TagIn
<1>. QED BY <1>3, <1>4

\* The bytes of a tag are in use.
LEMMA TagInUse ==
  ASSUME NEW r, IsRom(r), NEW p \in Nat, TagIn(r, p)
  PROVE  /\ p .. p + TagSize - 1 \subseteq DOMAIN r
         /\ TagLenIn(r, p) \in Nat \ {0} /\ TagEndIn(r, p) \in Nat
         /\ p + TagSize < TagEndIn(r, p)
<1>1. TagLenIn(r, p) \in Nat \ {0} /\ HasTag(r, p, TagLenIn(r, p)) BY TagLen
<1>2. \A c \in p .. p + TagSize - 1 : c - p \in 0 .. TagSize - 1 /\ p + (c - p) = c BY Sizing
<1>3. \A c \in p .. p + TagSize - 1 : c \in DOMAIN r BY <1>1, <1>2 DEF HasTag
<1>. QED BY <1>1, <1>3, Sizing DEF TagEndIn

\* Data written to a ROM: a tag none of whose bytes was written is what it was, the others
\* are no more.
LEMMA WrittenTags ==
  ASSUME NEW r, IsRom(r), NEW first \in Nat, NEW last \in Int
  PROVE  LET s == Written(r, first, last, Data) IN
         /\ IsRom(s) /\ DOMAIN s = DOMAIN r \cup first .. last
         /\ \A p \in Nat : IF (p .. p + TagSize - 1) \cap (first .. last) = {}
                           THEN TagLenIn(s, p) = TagLenIn(r, p) ELSE ~TagIn(s, p)
<1> DEFINE s == Written(r, first, last, Data)
<1>1. /\ DOMAIN s = DOMAIN r \cup first .. last
      /\ \A c \in first .. last : s[c] = Data
      /\ \A c \in DOMAIN r : c \notin first .. last => s[c] = r[c]
  BY DEF Written
<1> HIDE DEF s
<1>2. first .. last \subseteq Nat OBVIOUS
<1>3. \A c \in DOMAIN s : s[c] \in Bytes BY <1>1 DEF IsRom, Bytes
<1>4. IsRom(s) BY <1>1, <1>2, <1>3 DEF IsRom
<1>5. ASSUME NEW p \in Nat, (p .. p + TagSize - 1) \cap (first .. last) = {}
      PROVE  TagLenIn(s, p) = TagLenIn(r, p)
  <2>1. \A i \in 0 .. TagSize - 1 : p + i \in p .. p + TagSize - 1 BY Sizing
  <2>2. \A i \in 0 .. TagSize - 1 : p + i \notin first .. last BY <1>5, <2>1
  <2>. QED BY <1>1, <1>4, <2>2, TagKept
<1>6. ASSUME NEW p \in Nat, NEW c \in p .. p + TagSize - 1, c \in first .. last
      PROVE  ~TagIn(s, p)
  <2>1. c - p \in 0 .. TagSize - 1 /\ p + (c - p) = c BY Sizing
  <2>2. \A n \in Nat \ {0} : ~HasTag(s, p, n)
    <3> SUFFICES ASSUME NEW n \in Nat \ {0}, HasTag(s, p, n) PROVE FALSE
      OBVIOUS
    <3>1. s[c] = TagByte(c - p, n) BY <2>1 DEF HasTag
    <3>. QED BY <1>1, <1>6, <2>1, <3>1, TagByteTells
  <2>. QED BY <1>4, <2>2, TagLen
<1>. QED BY <1>1, <1>4, <1>5, <1>6 DEF s

\* Bytes cleared: the same.
LEMMA ClearedTags ==
  ASSUME NEW r, IsRom(r), NEW first \in Int, NEW last \in Int
  PROVE  LET s == Cleared(r, first, last) IN
         /\ IsRom(s) /\ DOMAIN s = DOMAIN r \ (first .. last)
         /\ \A p \in Nat : IF (p .. p + TagSize - 1) \cap (first .. last) = {}
                           THEN TagLenIn(s, p) = TagLenIn(r, p) ELSE ~TagIn(s, p)
<1> DEFINE s == Cleared(r, first, last)
<1>1. /\ DOMAIN s = DOMAIN r \ (first .. last)
      /\ \A c \in DOMAIN r : c \notin first .. last => s[c] = r[c]
  BY DEF Cleared, Restrict
<1> HIDE DEF s
<1>2. IsRom(s) BY <1>1 DEF IsRom
<1>3. ASSUME NEW p \in Nat, (p .. p + TagSize - 1) \cap (first .. last) = {}
      PROVE  TagLenIn(s, p) = TagLenIn(r, p)
  <2>1. \A i \in 0 .. TagSize - 1 : p + i \in p .. p + TagSize - 1 BY Sizing
  <2>2. \A i \in 0 .. TagSize - 1 : p + i \notin first .. last BY <1>3, <2>1
  <2>. QED BY <1>1, <1>2, <2>2, TagKept
<1>4. ASSUME NEW p \in Nat, NEW c \in p .. p + TagSize - 1, c \in first .. last
      PROVE  ~TagIn(s, p)
  <2>1. c \notin DOMAIN s BY <1>1, <1>4
  <2>. QED BY <1>2, <1>4, <2>1, TagInUse
<1>. QED BY <1>1, <1>2, <1>3, <1>4 DEF s

\* A tag written where there was none, or where there was one: it is there; of the others,
\* those it does not overlap are what they were, the rest are no more.
LEMMA WithTagTags ==
  ASSUME NEW r, IsRom(r), NEW at \in Nat, NEW n \in Nat
  PROVE  LET s == WithTag(r, at, n) IN
         /\ IsRom(s) /\ DOMAIN s = DOMAIN r \cup at .. at + TagSize - 1
         /\ TagLenIn(s, at) = StoredLen(n) /\ TagIn(s, at)
         /\ \A p \in Nat \ {at} :
              IF (p .. p + TagSize - 1) \cap (at .. at + TagSize - 1) = {}
              THEN TagLenIn(s, p) = TagLenIn(r, p) ELSE ~TagIn(s, p)
<1> DEFINE s == WithTag(r, at, n)
           tag == at .. at + TagSize - 1
<1>1. /\ DOMAIN s = DOMAIN r \cup tag
      /\ \A c \in tag : s[c] = TagByte(c - at, StoredLen(n))
      /\ \A c \in DOMAIN r : c \notin tag => s[c] = r[c]
  BY DEF WithTag
<1> HIDE DEF s
<1>2. StoredLen(n) \in Nat \ {0} BY DEF StoredLen
<1>3. \A c \in tag : c - at \in 0 .. TagSize - 1 /\ c \in Nat BY Sizing
<1>4. \A c \in DOMAIN s : s[c] \in Bytes
  <2>1. \A c \in tag : s[c] \in Bytes BY <1>1, <1>2, <1>3 DEF Bytes, TagBytes
  <2>. QED BY <1>1, <2>1 DEF IsRom
<1>5. IsRom(s) BY <1>1, <1>3, <1>4 DEF IsRom
<1>6. HasTag(s, at, StoredLen(n))
  <2>1. \A i \in 0 .. TagSize - 1 : at + i \in tag /\ (at + i) - at = i BY Sizing
  <2>. QED BY <1>1, <2>1 DEF HasTag
<1>7. TagLenIn(s, at) = StoredLen(n) /\ TagIn(s, at) BY <1>2, <1>5, <1>6, TagLen
<1>8. ASSUME NEW p \in Nat, (p .. p + TagSize - 1) \cap tag = {}
      PROVE  TagLenIn(s, p) = TagLenIn(r, p)
  <2>1. \A i \in 0 .. TagSize - 1 : p + i \in p .. p + TagSize - 1 BY Sizing
  <2>2. \A i \in 0 .. TagSize - 1 : p + i \notin tag BY <1>8, <2>1
  <2> HIDE DEF tag
  <2>. QED BY <1>1, <1>5, <2>2, TagKept
<1>9. ASSUME NEW p \in Nat \ {at}, NEW c \in p .. p + TagSize - 1, c \in tag
      PROVE  ~TagIn(s, p)
  <2>1. c - p \in 0 .. TagSize - 1 /\ p + (c - p) = c /\ c - p # c - at BY Sizing
  <2>2. \A m \in Nat \ {0} : ~HasTag(s, p, m)
    <3> SUFFICES ASSUME NEW m \in Nat \ {0}, HasTag(s, p, m) PROVE FALSE
      OBVIOUS
    <3>1. s[c] = TagByte(c - p, m) BY <2>1 DEF HasTag
    <3>2. s[c] = TagByte(c - at, StoredLen(n)) BY <1>1, <1>9
    <3>3. c - at \in 0 .. TagSize - 1 BY <1>3, <1>9
    <3>. QED BY <1>2, <2>1, <3>1, <3>2, <3>3, TagByteTells
  <2>. QED BY <1>5, <2>2, TagLen
<1>. QED BY <1>1, <1>5, <1>7, <1>8, <1>9 DEF s

\* ratsstart answers a tag, at the position or before it; and the tag at b, when it is
\* asked for the first byte b protects and there is no other tag in between.
LEMMA RatsStartTag ==
  ASSUME IsRom(rom), NEW pc \in Nat
  PROVE  RatsStart(pc) = NoBlock \/ (RatsStart(pc) \in 0 .. pc /\ TagIn(rom, RatsStart(pc)))
<1> DEFINE tags == { p \in pc - HiBank .. pc : p >= 0 /\ TagLenAt(p) # NoBlock }
           near == CHOOSE p \in tags : \A q \in tags : q <= p
<1>1. RatsStart(pc) = IF pc < Half - TagSize \/ tags = {} THEN NoBlock
                      ELSE IF pc < near + TagSize + TagLenAt(near) THEN near ELSE NoBlock
  BY DEF RatsStart
<1>2. CASE tags = {} BY <1>1, <1>2
<1>3. CASE tags # {}
  <2> DEFINE behind == { pc - p : p \in tags }
  <2>1. behind \subseteq Nat /\ behind # {} BY <1>3, Sizing
  <2>2. PICK m \in behind : \A k \in behind : m <= k BY <2>1, LeastNat
  <2>3. PICK p \in tags : m = pc - p BY <2>2
  <2>4. \A q \in tags : q <= p
    <3> SUFFICES ASSUME NEW q \in tags PROVE q <= p
      OBVIOUS
    <3>1. pc - q \in behind /\ q \in Int /\ p \in Int BY Sizing
    <3> HIDE DEF tags, behind
    <3>. QED BY <2>2, <2>3, <3>1
  <2>5. near \in tags BY <2>4
  <2> HIDE DEF near
  <2>6. near \in 0 .. pc /\ TagIn(rom, near) BY <2>5, Sizing DEF TagIn, TagLenAt
  <2>. QED BY <1>1, <2>6
<1>. QED BY <1>2, <1>3

LEMMA RatsStartOwn ==
  ASSUME IsRom(rom), NEW at \in Nat, TagIn(rom, at),
         \A p \in Nat : at < p /\ p <= at + TagSize => ~TagIn(rom, p)
  PROVE  RatsStart(at + TagSize) = IF at + TagSize < Half - TagSize THEN NoBlock ELSE at
<1> DEFINE pc == at + TagSize
           tags == { p \in pc - HiBank .. pc : p >= 0 /\ TagLenAt(p) # NoBlock }
           near == CHOOSE p \in tags : \A q \in tags : q <= p
<1>1. RatsStart(pc) = IF pc < Half - TagSize \/ tags = {} THEN NoBlock
                      ELSE IF pc < near + TagSize + TagLenAt(near) THEN near ELSE NoBlock
  BY DEF RatsStart
<1>2. pc \in Nat /\ pc - HiBank <= at /\ at <= pc BY Sizing
<1>3. at \in tags BY <1>2, Sizing DEF TagIn, TagLenAt
<1>4. \A q \in tags : q <= at
  <2> SUFFICES ASSUME NEW q \in tags, at < q PROVE FALSE
    BY <1>2, Sizing
  <2>1. q \in Nat /\ q <= pc /\ TagIn(rom, q) BY <1>2, Sizing DEF TagIn, TagLenAt
  <2>. QED BY <2>1
<1>5. near = at
  <2>1. near \in tags /\ \A q \in tags : q <= near BY <1>3, <1>4
  <2> HIDE DEF near
  <2>2. near <= at /\ at <= near BY <1>3, <1>4, <2>1
  <2>3. near \in Int BY <1>2, <2>1, Sizing
  <2>. QED BY <2>2, <2>3
<1> HIDE DEF near
<1>6. TagLenAt(at) \in Nat \ {0} BY TagLen DEF TagLenAt
<1>7. pc < near + TagSize + TagLenAt(near) BY <1>5, <1>6, Sizing
<1>. QED BY <1>1, <1>3, <1>5, <1>7

-----------------------------------------------------------------------------
(***************************************************************************)
(* Where a search looks                                                    *)
(***************************************************************************)
Requests == [size : Sizes \ {0}, code : BOOLEAN, align : BOOLEAN, expand : BOOLEAN]
TryRanges ==
  [from : Nat, to : Int, bank : {HalfBank, HiBank}, align : {0, HalfBank, HiBank}, used : BOOLEAN]

\* The ranges that the mapper m may search for the request r in a ROM of len bytes.
RangeFor(m, r, len) ==
  { x \in TryRanges :
      /\ x.to <= len
      /\ x.from < len \/ x.from <= TwoMeg
      /\ x.align # 0 => x.align >= x.bank
      /\ x.align # 0 => r.align
      /\ m \in {"hirom", "exhirom"} \/ x.align <= x.bank
      /\ x.bank = HiBank => m \in {"hirom", "exhirom"} \/ (m = "bigsa1rom" /\ x.from >= FourMeg)
      /\ m \in {"lorom", "sa1rom"} => x.from >= Half
      /\ m # "exlorom" => x.used }

\* The halves of a HiROM's banks: the windows begin in the ROM.
LEMMA WindowStarts ==
  ASSUME NEW len \in Nat, NEW top \in Nat, HalfBank < Least(len, top)
  PROVE  LET n == (Least(len, top) - HalfBank - 1) \div (HiBank - 1) + 1 IN
         /\ n \in Nat
         /\ \A k \in 1 .. n : HalfBank + (k - 1) * (HiBank - 1) \in HalfBank .. len - 1
<1> DEFINE m == Least(len, top)
           w == HiBank - 1
           q == (m - HalfBank - 1) \div w
<1>1. m \in Nat /\ m <= len /\ HalfBank \in Nat /\ HalfBank < m /\ w \in Nat \ {0}
  BY Sizing DEF Least
<1>2. m - HalfBank - 1 \in Nat BY <1>1
<1> HIDE DEF m, w
<1>3. q \in Int /\ w * q <= m - HalfBank - 1 BY <1>1, <1>2, DivMod
<1>4. q >= 0
  <2>1. PICK a \in Nat : a = m - HalfBank - 1 BY <1>2
  <2>2. q = a \div w BY <2>1
  <2>3. a \div w \in Int /\ a % w \in 0 .. w - 1 /\ a = w * (a \div w) + (a % w) BY <1>1, DivMod
  <2>4. a \div w <= -1 => w * (a \div w) <= w * (-1) BY <1>1, <2>3, MulMono
  <2>. QED BY <1>1, <2>2, <2>3, <2>4
<1>5. ASSUME NEW k \in 1 .. q + 1 PROVE HalfBank + (k - 1) * w \in HalfBank .. len - 1
  <2>1. k - 1 \in Nat /\ k - 1 <= q BY <1>3, <1>4
  <2>2. w * (k - 1) <= w * q BY <1>1, <1>3, <2>1, MulMono
  <2>3. w * 0 <= w * (k - 1) BY <1>1, <2>1, MulMono
  <2>4. (k - 1) * w = w * (k - 1) /\ w * (k - 1) \in Int /\ w * q \in Int BY <1>1, <1>3, <2>1
  <2>. QED BY <1>1, <1>3, <2>2, <2>3, <2>4
<1>. QED BY <1>3, <1>4, <1>5 DEF m, w

LEMMA TryTyped ==
  \A from \in Nat, to \in Int, bank \in {HalfBank, HiBank}, align \in {0, HalfBank, HiBank} :
    /\ Try(from, to, bank, align) \in TryRanges
    /\ [Try(from, to, bank, align) EXCEPT !.used = FALSE] \in TryRanges
BY DEF Try, TryRanges

LEMMA RangesTyped ==
  ASSUME mapper \in Mappers, NEW r \in Requests, NEW len \in Nat
  PROVE  RangesOf(r, len) \in Seq(RangeFor(mapper, r, len))
<1> DEFINE S == RangeFor(mapper, r, len)
<1>1. /\ \A a, b \in Nat : Least(a, b) \in Nat /\ Least(a, b) <= a /\ Least(a, b) <= b
      /\ LoAlign(r.align) \in {0, HalfBank} /\ HiAlign(r.align) \in {0, HiBank}
  BY Sizing DEF Least, LoAlign, HiAlign
<1>1a. (LoAlign(r.align) # 0 => r.align) /\ (HiAlign(r.align) # 0 => r.align)
  BY DEF LoAlign, HiAlign
<1>2. ASSUME NEW from \in Nat, NEW to \in Nat, to <= len, from < len \/ from <= TwoMeg,
             mapper \in {"lorom", "sa1rom"} => from >= Half,
             mapper \notin {"hirom", "exhirom"}
      PROVE  Try(from, to, HalfBank, LoAlign(r.align)) \in S
  <2> DEFINE x == Try(from, to, HalfBank, LoAlign(r.align))
  <2>0. x.from = from /\ x.to = to /\ x.bank = HalfBank /\ x.align = LoAlign(r.align) /\ x.used
    BY DEF Try
  <2>1. x.from = from /\ x.to = to /\ x.bank = HalfBank /\ x.align \in {0, HalfBank} BY <1>1, <2>0, Zenon
  <2>2. x \in TryRanges
    <3>1. LoAlign(r.align) \in {0, HalfBank, HiBank} BY <1>1
    <3>2. from \in Nat /\ to \in Int /\ HalfBank \in {HalfBank, HiBank} BY <1>2
    <3>. QED BY <3>1, <3>2, TryTyped
  <2> HIDE DEF x
  <2>3. /\ x.to <= len
        /\ x.from < len \/ x.from <= TwoMeg
        /\ x.align # 0 => x.align >= x.bank
        /\ mapper \in {"hirom", "exhirom"} \/ x.align <= x.bank
        /\ x.bank = HiBank => mapper \in {"hirom", "exhirom"} \/ (mapper = "bigsa1rom" /\ x.from >= FourMeg)
        /\ mapper \in {"lorom", "sa1rom"} => x.from >= Half
    BY <1>2, <2>1, Sizing
  <2>4. x.used /\ (x.align # 0 => r.align) BY <1>1a, <2>0, Zenon
  <2>. QED BY <2>2, <2>3, <2>4, Zenon DEF x, S, RangeFor
<1>3. ASSUME NEW from \in Nat, NEW to \in Nat, to <= len, from < len \/ from <= TwoMeg,
             NEW bank \in {HalfBank, HiBank},
             mapper \in {"hirom", "exhirom"} \/ (mapper = "bigsa1rom" /\ bank = HiBank /\ from >= FourMeg)
      PROVE  Try(from, to, bank, HiAlign(r.align)) \in S
  <2> DEFINE x == Try(from, to, bank, HiAlign(r.align))
  <2>0. x.from = from /\ x.to = to /\ x.bank = bank /\ x.align = HiAlign(r.align) /\ x.used
    BY DEF Try
  <2>1. x.from = from /\ x.to = to /\ x.bank = bank /\ x.align \in {0, HiBank} BY <1>1, <2>0, Zenon
  <2>2. x \in TryRanges
    <3>1. HiAlign(r.align) \in {0, HalfBank, HiBank} BY <1>1
    <3>2. from \in Nat /\ to \in Int /\ bank \in {HalfBank, HiBank} BY <1>3
    <3>. QED BY <3>1, <3>2, TryTyped
  <2> HIDE DEF x
  <2>3. /\ x.to <= len
        /\ x.from < len \/ x.from <= TwoMeg
        /\ x.align # 0 => x.align >= x.bank
        /\ mapper \in {"hirom", "exhirom"} \/ x.align <= x.bank
        /\ x.bank = HiBank => mapper \in {"hirom", "exhirom"} \/ (mapper = "bigsa1rom" /\ x.from >= FourMeg)
        /\ mapper \in {"lorom", "sa1rom"} => x.from >= Half
    BY <1>3, <2>1, Sizing
  <2>4. x.used /\ (x.align # 0 => r.align) BY <1>1a, <2>0, Zenon
  <2>. QED BY <2>2, <2>3, <2>4, Zenon DEF x, S, RangeFor
<1> HIDE DEF S
<1>4. << >> \in Seq(S) /\ \A x \in S : << x >> \in Seq(S) OBVIOUS
<1>5. \A s, t \in Seq(S) : s \o t \in Seq(S) OBVIOUS
<1>6. ASSUME mapper = "lorom" PROVE LoromRanges(r, len) \in Seq(S)
  <2>1. Try(Half, Least(len, TwoMeg), HalfBank, LoAlign(r.align)) \in S
    BY <1>1, <1>2, <1>6, Sizing
  <2>2. Try(TwoMeg - TagSize, Least(len, FourMeg), HalfBank, LoAlign(r.align)) \in S
    <3>1. TwoMeg - TagSize \in Nat /\ TwoMeg - TagSize <= TwoMeg /\ TwoMeg - TagSize >= Half
      BY Sizing
    <3>. QED BY <1>1, <1>2, <1>6, <3>1, Sizing
  <2>. QED BY <1>4, <1>5, <2>1, <2>2 DEF LoromRanges
<1>7. ASSUME mapper \in {"hirom", "exhirom"} PROVE HiromRanges(r, len) \in Seq(S)
  <2>1. Try(0, len, HiBank, HiAlign(r.align)) \in S BY <1>3, <1>7, Sizing
  <2>2. HiromWindows(r, len, FourMeg) \in Seq(S)
    <3> DEFINE m == Least(len, FourMeg)
               n == IF m <= HalfBank THEN 0 ELSE (m - HalfBank - 1) \div (HiBank - 1) + 1
               at(k) == HalfBank + (k - 1) * (HiBank - 1)
    <3>1. FourMeg \in Nat /\ m \in Nat BY <1>1, Sizing
    <3>2. n \in Nat /\ \A k \in 1 .. n : at(k) \in HalfBank .. len - 1
      <4>1. CASE m <= HalfBank BY <4>1
      <4>2. CASE HalfBank < m
        <5>1. ~(m <= HalfBank) BY <3>1, <4>2, Sizing
        <5>. QED BY <3>1, <4>2, <5>1, WindowStarts
      <4>. QED BY <3>1, <4>1, <4>2, Sizing
    <3>3. HiromWindows(r, len, FourMeg) =
            [k \in 1 .. n |-> Try(at(k), Least(at(k) + HalfBank - 1, len), HalfBank, HiAlign(r.align))]
      BY DEF HiromWindows
    <3> HIDE DEF n, at
    <3>4. \A k \in 1 .. n : Try(at(k), Least(at(k) + HalfBank - 1, len), HalfBank, HiAlign(r.align)) \in S
      <4> SUFFICES ASSUME NEW k \in 1 .. n
                   PROVE  Try(at(k), Least(at(k) + HalfBank - 1, len), HalfBank, HiAlign(r.align)) \in S
        OBVIOUS
      <4>1. at(k) \in Nat /\ at(k) < len /\ at(k) + HalfBank - 1 \in Nat BY <3>2, Sizing
      <4>2. Least(at(k) + HalfBank - 1, len) \in Nat /\ Least(at(k) + HalfBank - 1, len) <= len
        BY <1>1, <4>1
      <4>. QED BY <1>3, <1>7, <4>1, <4>2
    <3>. QED BY <3>2, <3>3, <3>4
  <2>. QED BY <1>4, <2>1, <2>2 DEF HiromRanges
<1>8. ASSUME mapper = "exlorom" PROVE ExloromRanges(r, len) \in Seq(S)
  <2>1. Try(0, len, HalfBank, LoAlign(r.align)) \in S BY <1>2, <1>8, Sizing
  <2>2. [Try(0, Least(len, TwoMeg), HalfBank, LoAlign(r.align)) EXCEPT !.used = FALSE] \in S
    <3> DEFINE x == [Try(0, Least(len, TwoMeg), HalfBank, LoAlign(r.align)) EXCEPT !.used = FALSE]
    <3>1. Least(len, TwoMeg) \in Nat /\ Least(len, TwoMeg) <= len BY <1>1, Sizing
    <3>0. /\ x.from = 0 /\ x.to = Least(len, TwoMeg) /\ x.bank = HalfBank
          /\ x.align = LoAlign(r.align)
      BY DEF Try
    <3>2. /\ x.from = 0 /\ x.to = Least(len, TwoMeg) /\ x.bank = HalfBank
          /\ x.align \in {0, HalfBank}
      BY <1>1, <3>0, Zenon
    <3>3. x \in TryRanges
      <4>1. LoAlign(r.align) \in {0, HalfBank, HiBank} BY <1>1
      <4>2. 0 \in Nat /\ Least(len, TwoMeg) \in Int /\ HalfBank \in {HalfBank, HiBank} BY <3>1
      <4> HIDE DEF x
      <4>. QED BY <4>1, <4>2, TryTyped DEF x
    <3> HIDE DEF x
    <3>4. /\ x.to <= len
          /\ x.from < len \/ x.from <= TwoMeg
          /\ x.align # 0 => x.align >= x.bank
          /\ mapper \in {"hirom", "exhirom"} \/ x.align <= x.bank
          /\ x.bank = HiBank => mapper \in {"hirom", "exhirom"} \/ (mapper = "bigsa1rom" /\ x.from >= FourMeg)
          /\ mapper \in {"lorom", "sa1rom"} => x.from >= Half
      BY <1>8, <3>1, <3>2, Sizing
    <3>5. x.align # 0 => r.align BY <1>1a, <3>0, Zenon
    <3>. QED BY <1>8, <3>3, <3>4, <3>5, Zenon DEF x, S, RangeFor
  <2>. QED BY <1>4, <1>5, <2>1, <2>2 DEF ExloromRanges
<1>9. ASSUME mapper = "sfxrom" PROVE SfxromRanges(r, len) \in Seq(S)
  <2>1. Try(Half, len, HalfBank, LoAlign(r.align)) \in S BY <1>2, <1>9, Sizing
  <2>. QED BY <1>4, <2>1 DEF SfxromRanges
<1>10. ASSUME mapper = "sa1rom" PROVE Sa1romRanges(r, len) \in Seq(S)
  <2> DEFINE n == Least(Len(Sa1Banks), len \div Meg)
             range(k) == Try(IF Sa1Banks[k] = 0 THEN Half ELSE Sa1Banks[k], Sa1Banks[k] + Meg, HalfBank,
                             LoAlign(r.align))
  <2>1. Len(Sa1Banks) = 4 /\ \A k \in 1 .. 4 : Sa1Banks[k] = (k - 1) * Meg
    BY Sizing DEF Sa1Banks
  <2>2. len \div Meg \in Int /\ Meg * (len \div Meg) <= len
    <3>1. /\ len \div Meg \in Int /\ len % Meg \in 0 .. Meg - 1
          /\ len = Meg * (len \div Meg) + (len % Meg)
      <4>1. Meg \in Nat \ {0} /\ len \in Int BY Sizing
      <4>. QED BY <4>1, DivMod
    <3>2. Meg * (len \div Meg) \in Int BY <3>1, Sizing
    <3>. QED BY <3>1, <3>2, Sizing
  <2>3. n \in Nat /\ n <= 4 /\ n <= len \div Meg
    <3>1. len \div Meg >= 0
      <4>1. len \div Meg <= -1 => Meg * (len \div Meg) <= Meg * (-1) BY <2>2, Sizing, MulMono
      <4>2. len \div Meg \in Int /\ len % Meg \in 0 .. Meg - 1 /\ len = Meg * (len \div Meg) + (len % Meg)
        <5>1. Meg \in Nat \ {0} /\ len \in Int BY Sizing
        <5>. QED BY <5>1, DivMod
      <4>. QED BY <4>1, <4>2, Sizing
    <3>. QED BY <2>1, <2>2, <3>1 DEF Least
  <2>4. Sa1romRanges(r, len) = [k \in 1 .. n |-> range(k)] BY DEF Sa1romRanges
  <2> HIDE DEF n
  <2>5. ASSUME NEW k \in 1 .. n PROVE range(k) \in S
    <3>1. Sa1Banks[k] = (k - 1) * Meg /\ k \in 1 .. 4 BY <2>1, <2>3
    <3>2. (k - 1) * Meg + Meg = Meg * k BY Sizing
    <3>3. Meg * k <= Meg * (len \div Meg) BY <2>2, <2>3, Sizing, MulMono
    <3>4. Meg * k \in Int /\ Meg * (len \div Meg) \in Int BY <2>2, Sizing
    <3>5. Sa1Banks[k] \in Nat /\ Sa1Banks[k] + Meg \in Nat /\ Sa1Banks[k] + Meg <= len
      <4>1. Sa1Banks[k] + Meg <= len BY <2>2, <3>1, <3>2, <3>3, <3>4
      <4>. QED BY <3>1, <4>1, Sizing
    <3>6. Sa1Banks[k] # 0 => Sa1Banks[k] >= Half
      <4>1. Meg * 1 <= Meg * (k - 1) \/ k - 1 = 0 BY <3>1, Sizing, MulMono
      <4>. QED BY <3>1, <4>1, Sizing
    <3> DEFINE from == IF Sa1Banks[k] = 0 THEN Half ELSE Sa1Banks[k]
    <3>7. from \in Nat /\ from >= Half /\ from < len BY <3>5, <3>6, Sizing
    <3> HIDE DEF from
    <3>8. Try(from, Sa1Banks[k] + Meg, HalfBank, LoAlign(r.align)) \in S
      BY <1>2, <1>10, <3>5, <3>7
    <3>. QED BY <3>8 DEF from
  <2> HIDE DEF range
  <2>. QED BY <2>3, <2>4, <2>5
<1>11. ASSUME mapper = "bigsa1rom" PROVE BigSa1romRanges(r, len) \in Seq(S)
  <2>1. Try(Half, len, HalfBank, LoAlign(r.align)) \in S BY <1>2, <1>11, Sizing
  <2>2. len > FourMeg => Try(FourMeg, len, HiBank, HiAlign(r.align)) \in S BY <1>3, <1>11, Sizing
  <2>. QED BY <1>4, <1>5, <2>1, <2>2 DEF BigSa1romRanges
<1>. QED BY <1>6, <1>7, <1>8, <1>9, <1>10, <1>11 DEF RangesOf, Mappers, S

\* The sizes are whole banks.
LEMMA Multiples ==
  /\ \E k \in Int : Half = HalfBank * k
  /\ \A n \in {HalfBank, HiBank} : \E k \in Int : FourMeg = n * k
<1>1. HalfBank \in Nat \ {0} /\ Half \in Int /\ Half % HalfBank = 0 BY FreespaceAssumption
<1>2. Half \div HalfBank \in Int /\ Half = HalfBank * (Half \div HalfBank) + (Half % HalfBank)
  BY <1>1, DivMod
<1>3. PICK k \in Int : Half = HalfBank * k
  <2>1. HalfBank * (Half \div HalfBank) \in Int BY <1>1, <1>2
  <2>. QED BY <1>1, <1>2, <2>1
<1>4. FourMeg = 8 * (HalfBank * k) BY <1>3, Sizing
<1>5. HalfBank * (8 * k) = 8 * (HalfBank * k) BY <1>1
<1>6. (2 * HalfBank) * (4 * k) = 8 * (HalfBank * k) BY <1>1
<1>7. FourMeg = HalfBank * (8 * k) BY <1>4, <1>5
<1>8. FourMeg = HiBank * (4 * k) BY <1>4, <1>6 DEF HiBank
<1>9. 8 * k \in Int /\ 4 * k \in Int OBVIOUS
<1>. QED BY <1>3, <1>7, <1>8, <1>9

\* The end of a bank, less a tag, from a position in it.
LEMMA Rounded ==
  ASSUME NEW a \in Nat, NEW n \in {HalfBank, HiBank}
  PROVE  LET end == a - (a % n) + n - TagSize IN
         /\ end \in Nat /\ a < end + TagSize /\ end <= a + n - TagSize
         /\ \E k \in Nat : end + TagSize = n * k
         /\ a >= FourMeg => end >= FourMeg
         /\ n = HalfBank /\ a >= Half => end >= Half
<1> DEFINE end == a - (a % n) + n - TagSize
<1>1. n \in Nat \ {0} /\ n > TagSize /\ TagSize \in Nat BY Sizing
<1>2. a \div n \in Int /\ a % n \in 0 .. n - 1 /\ a = n * (a \div n) + (a % n) BY <1>1, DivMod
<1>3. a \div n >= 0
  <2>1. a \div n <= -1 => n * (a \div n) <= n * (-1) BY <1>1, <1>2, MulMono
  <2>. QED BY <1>1, <1>2, <2>1
<1>4. PICK m \in Int : m = n * (a \div n) BY <1>1, <1>2
<1>5. a = m + (a % n) /\ m >= 0
  <2>1. n * 0 <= n * (a \div n) BY <1>1, <1>2, <1>3, MulMono
  <2>2. n * 0 = 0 BY <1>1
  <2>. QED BY <1>2, <1>4, <2>1, <2>2
<1>6. end = m + n - TagSize BY <1>2, <1>5
<1>7. end \in Nat /\ a < end + TagSize /\ end <= a + n - TagSize BY <1>1, <1>2, <1>5, <1>6
<1>8. \E k \in Nat : end + TagSize = n * k
  <2>1. n * (a \div n + 1) = m + n BY <1>1, <1>2, <1>4
  <2>2. a \div n + 1 \in Nat BY <1>2, <1>3
  <2>3. end + TagSize = m + n BY <1>1, <1>6
  <2> HIDE DEF end
  <2>. QED BY <2>1, <2>2, <2>3
<1>9. a >= FourMeg => end >= FourMeg
  <2>1. PICK k \in Int : FourMeg = n * k BY Multiples
  <2>2. a >= FourMeg => FourMeg <= a - (a % n)
    <3> SUFFICES ASSUME a >= FourMeg PROVE FourMeg <= a - (a % n)
      OBVIOUS
    <3>1. a \in Int /\ n \in Nat \ {0} /\ k \in Int /\ n * k <= a BY <1>1, <2>1
    <3>2. n * k <= a - (a % n) BY <3>1, RoundDown
    <3>. QED BY <2>1, <3>2
  <2>. QED BY <1>1, <1>2, <2>2, Sizing
<1>10. n = HalfBank /\ a >= Half => end >= Half
  <2>1. PICK k \in Int : Half = HalfBank * k BY Multiples
  <2>2. n = HalfBank /\ a >= Half => Half <= a - (a % n)
    <3> SUFFICES ASSUME n = HalfBank, a >= Half PROVE Half <= a - (a % n)
      OBVIOUS
    <3>1. a \in Int /\ n \in Nat \ {0} /\ k \in Int /\ n * k <= a BY <1>1, <2>1
    <3>2. n * k <= a - (a % n) BY <3>1, RoundDown
    <3>. QED BY <2>1, <3>2
  <2>. QED BY <1>1, <1>2, <2>2, Sizing
<1>. QED BY <1>7, <1>8, <1>9, <1>10

-----------------------------------------------------------------------------
(***************************************************************************)
(* The types: blocks hold something, and a search looks where its mapper   *)
(* may.                                                                    *)
(***************************************************************************)
Blocks == [at : Nat, len : Nat \ {0}]

Types ==
  /\ mapper \in MappersUsed
  /\ IsRom(rom)
  /\ romlen \in Nat
  /\ pass \in {1, 2}
  /\ patch \in 1 .. MaxPatches
  /\ asked \in 0 .. MaxRequests
  /\ req = None \/ req \in Requests
  /\ Searching => pass = 1 /\ ranges \in Seq(RangeFor(mapper, req, romlen))
  /\ start \in Nat
  /\ owned \subseteq Blocks
  /\ pending \in Seq(Blocks)

\* The range in progress.
LEMMA FirstRange ==
  ASSUME Types, Searching, ranges # << >>
  PROVE  /\ req \in Requests /\ req.size \in Nat \ {0}
         /\ Head(ranges) \in RangeFor(mapper, req, romlen)
         /\ Tail(ranges) \in Seq(RangeFor(mapper, req, romlen))
         /\ Bank \in {HalfBank, HiBank} /\ Align \in {0, HalfBank, HiBank}
         /\ Align # 0 => Align >= Bank
         /\ mapper \in {"lorom", "sa1rom"} => Bank = HalfBank /\ Align # HiBank
         /\ Bank = HiBank => mapper \in {"hirom", "exhirom", "bigsa1rom"}
<1>1. req \in Requests BY DEF Types, Searching
<1>2. req.size \in Sizes \ {0} BY <1>1 DEF Requests
<1>3. req.size \in Nat \ {0} BY <1>2, FreespaceAssumption
<1>4. ranges \in Seq(RangeFor(mapper, req, romlen)) BY DEF Types
<1>5. Head(ranges) \in RangeFor(mapper, req, romlen) /\ Tail(ranges) \in Seq(RangeFor(mapper, req, romlen))
  BY <1>4
<1>6. PICK x : x = Head(ranges) OBVIOUS
<1>7. /\ x \in TryRanges /\ (x.align # 0 => x.align >= x.bank)
      /\ mapper \in {"hirom", "exhirom"} \/ x.align <= x.bank
      /\ x.bank = HiBank => mapper \in {"hirom", "exhirom"} \/ (mapper = "bigsa1rom" /\ x.from >= FourMeg)
  BY <1>5, <1>6, Zenon DEF RangeFor
<1>8. x.bank \in {HalfBank, HiBank} /\ x.align \in {0, HalfBank, HiBank} BY <1>7 DEF TryRanges
<1>9. mapper \in {"lorom", "sa1rom"} => x.bank = HalfBank /\ x.align # HiBank
  BY <1>7, <1>8, Sizing
<1>. QED BY <1>1, <1>3, <1>5, <1>6, <1>7, <1>8, <1>9 DEF Bank, Align

\* Where the search looks.
LEMMA SpotPlace ==
  ASSUME Types, Searching, ranges # << >>
  PROVE  /\ Spot \in Nat /\ start < Spot + TagSize
         /\ Align = 0 => Spot = start
         /\ Align # 0 => \E k \in Nat : Spot + TagSize = Align * k
         /\ Spot <= start + HiBank
         /\ start >= FourMeg => Spot >= FourMeg
         /\ Align # HiBank /\ start >= Half => Spot >= Half
<1>1. Align \in {0, HalfBank, HiBank} BY FirstRange
<1>2. start \in Nat BY DEF Types
<1>3. CASE Align = 0 BY <1>2, <1>3, Sizing DEF Spot
<1>4. CASE Align # 0
  <2>1. Spot = start - (start % Align) + Align - TagSize BY <1>4 DEF Spot
  <2>2. Align \in {HalfBank, HiBank} BY <1>1, <1>4
  <2>3. PICK s \in Int, n \in {HalfBank, HiBank} : n = Align /\ s = Spot
    <3>1. Spot \in Int BY <1>2, <2>1, <2>2, Rounded
    <3>. QED BY <2>2, <3>1
  <2>4. /\ s \in Nat /\ start < s + TagSize /\ s <= start + n - TagSize
        /\ \E k \in Nat : s + TagSize = n * k
        /\ start >= FourMeg => s >= FourMeg
        /\ n = HalfBank /\ start >= Half => s >= Half
    BY <1>2, <2>1, <2>3, Rounded
  <2>. QED BY <1>1, <1>2, <1>4, <2>3, <2>4, Sizing
<1>. QED BY <1>3, <1>4

\* A ROM is expanded to at most four megabytes, and only a LoROM or an SA-1 ROM.
LEMMA Expansion ==
  ASSUME mapper \in Mappers, NEW r, NEW len \in Nat, ExpandedLen(r, len) # 0
  PROVE  /\ mapper \in {"lorom", "sa1rom"}
         /\ ExpandedLen(r, len) \in Nat
         /\ len <= ExpandedLen(r, len) /\ Meg <= ExpandedLen(r, len) /\ ExpandedLen(r, len) <= FourMeg
<1>1. CASE mapper = "lorom"
  <2>1. Meg \in Nat /\ TwoMeg = 2 * Meg /\ FourMeg = 4 * Meg /\ Meg = 2 * Half /\ Half \in Nat
    BY Sizing
  <2>2. \/ len = Half /\ ExpandedLen(r, len) = Meg
        \/ len = Meg /\ ExpandedLen(r, len) = TwoMeg
        \/ len \in {TwoMeg, 3 * Meg} /\ ExpandedLen(r, len) = FourMeg
    BY <1>1, <2>1 DEF ExpandedLen
  <2>. QED BY <1>1, <2>1, <2>2
<1>2. CASE mapper = "sa1rom"
  <2> DEFINE banks == {Sa1Banks[k] : k \in DOMAIN Sa1Banks}
             next == { b \in banks : b <= len /\ b + Meg > len }
             last == CHOOSE b \in next : \A c \in next : c <= b
  <2>1. Meg \in Nat /\ TwoMeg = 2 * Meg /\ FourMeg = 4 * Meg BY Sizing
  <2>2. banks = {0, Meg, TwoMeg, 3 * Meg} BY DEF Sa1Banks
  <2>3. ExpandedLen(r, len) = IF next = {} THEN 0 ELSE last + Meg BY <1>2 DEF ExpandedLen
  <2> HIDE DEF banks
  <2>4. next # {} BY <2>3
  <2>5. \A b, c \in next : c <= b BY <2>1, <2>2
  <2>6. last \in next BY <2>4, <2>5
  <2> HIDE DEF last
  <2>7. last \in {0, Meg, TwoMeg, 3 * Meg} /\ last <= len /\ last + Meg > len BY <2>2, <2>6
  <2>8. ExpandedLen(r, len) = last + Meg BY <2>3, <2>4
  <2>. QED BY <1>2, <2>1, <2>7, <2>8
<1>3. CASE mapper \notin {"lorom", "sa1rom"} BY <1>3 DEF ExpandedLen
<1>. QED BY <1>1, <1>2, <1>3

\* Where the search of a list of ranges begins.
LEMMA RangeStart ==
  ASSUME NEW m, NEW r, NEW len, NEW s \in Seq(RangeFor(m, r, len))
  PROVE  /\ (IF s = << >> THEN 0 ELSE Head(s).from) \in Nat
         /\ s # << >> /\ m \in {"lorom", "sa1rom"} => Head(s).from >= Half
         /\ s # << >> /\ m = "bigsa1rom" /\ Head(s).bank = HiBank => Head(s).from >= FourMeg
<1>1. CASE s = << >> BY <1>1
<1>2. CASE s # << >>
  <2>1. Head(s) \in RangeFor(m, r, len) BY <1>2
  <2>2. PICK x : x = Head(s) OBVIOUS
  <2>3. /\ x \in TryRanges
        /\ m \in {"lorom", "sa1rom"} => x.from >= Half
        /\ x.bank = HiBank => m \in {"hirom", "exhirom"} \/ (m = "bigsa1rom" /\ x.from >= FourMeg)
    BY <2>1, <2>2, Zenon DEF RangeFor
  <2>4. x.from \in Nat BY <2>3 DEF TryRanges
  <2>. QED BY <1>2, <2>2, <2>3, <2>4
<1>. QED BY <1>1, <1>2

\* The first byte in use.
LEMMA FirstUsedIs ==
  ASSUME NEW p \in Nat, req.size \in Nat, UsedBytesAt(p) # {}
  PROVE  /\ FirstUsed(p) \in 0 .. TagSize + req.size - 1 /\ p + FirstUsed(p) \in DOMAIN rom
         /\ \A i \in Nat : i < FirstUsed(p) => p + i \notin DOMAIN rom
<1>1. UsedBytesAt(p) \subseteq 0 .. TagSize + req.size - 1 /\ TagSize + req.size - 1 \in Int
  BY Sizing DEF UsedBytesAt
<1>2. UsedBytesAt(p) \subseteq Nat BY <1>1
<1>3. \E i \in UsedBytesAt(p) : \A j \in UsedBytesAt(p) : i <= j BY <1>2, LeastNat
<1>4. FirstUsed(p) \in UsedBytesAt(p) /\ \A j \in UsedBytesAt(p) : FirstUsed(p) <= j
  BY <1>3 DEF FirstUsed
<1>5. ASSUME NEW i \in Nat, i < FirstUsed(p), p + i \in DOMAIN rom PROVE FALSE
  <2>1. FirstUsed(p) \in 0 .. TagSize + req.size - 1 BY <1>1, <1>4
  <2>2. i \in 0 .. TagSize + req.size - 1 BY <1>1, <1>5, <2>1
  <2>3. i \in UsedBytesAt(p) BY <1>5, <2>2 DEF UsedBytesAt
  <2>. QED BY <1>4, <1>5, <2>1, <2>3
<1>. QED BY <1>4, <1>5 DEF UsedBytesAt

\* The position after a tag or a byte that is in use is further on.
LEMMA SkipsOn ==
  ASSUME Types, Searching, ranges # << >>
  PROVE  /\ SkipTagged => start' \in Nat /\ start' > Spot + TagSize
                          /\ start' = TagEndIn(rom, Spot)
         /\ SkipUsed => /\ start' \in Nat /\ start' > Spot
                        /\ start' <= Spot + TagSize + req.size
<1>1. Spot \in Nat /\ IsRom(rom) /\ req.size \in Nat \ {0} BY SpotPlace, FirstRange DEF Types
<1>2. ASSUME SkipTagged
      PROVE  start' \in Nat /\ start' > Spot + TagSize /\ start' = TagEndIn(rom, Spot)
  <2>1. TagIn(rom, Spot) /\ start' = Spot + TagLenIn(rom, Spot) + TagSize
    BY <1>2 DEF SkipTagged, Advance, TagIn, TagLenAt
  <2>2. TagLenIn(rom, Spot) \in Nat \ {0} BY <1>1, <2>1, TagInUse
  <2>. QED BY <1>1, <2>1, <2>2, Sizing DEF TagEndIn
<1>3. ASSUME SkipUsed
      PROVE  start' \in Nat /\ start' > Spot /\ start' <= Spot + TagSize + req.size
  <2>1. UsedBytesAt(Spot) # {} BY <1>3 DEF SkipUsed
  <2>2. PICK i \in 0 .. TagSize + req.size - 1 : i = FirstUsed(Spot) BY <1>1, <2>1, FirstUsedIs
  <2>3. \E jump \in {TagSize, i} : start' = Spot + (IF jump = 0 THEN 1 ELSE jump)
    BY <1>3, <2>2, Zenon DEF SkipUsed, Advance
  <2>. QED BY <1>1, <2>2, <2>3, Sizing
<1>. QED BY <1>2, <1>3

LEMMA Bounds == MaxRequests \in Nat /\ MaxPatches \in Nat \ {0}
BY FreespaceAssumption

LEMMA TypesInit == Init => Types
<1> SUFFICES ASSUME Init PROVE Types
  OBVIOUS
<1>1. mapper \in MappersUsed /\ romlen \in RomLens /\ romlen \in Nat BY FreespaceAssumption DEF Init
<1>2. IsRom(rom)
  <2>1. PICK used \in UsedBytes : rom = [c \in used \cap 0 .. romlen - 1 |-> Data] BY DEF Init
  <2>2. used \cap 0 .. romlen - 1 \subseteq Nat OBVIOUS
  <2>. QED BY <2>1, <2>2 DEF IsRom, Bytes
<1>3. 1 \in 1 .. MaxPatches /\ 0 \in 0 .. MaxRequests BY FreespaceAssumption
<1>. QED BY <1>1, <1>2, <1>3 DEF Init, Types, Searching

\* A block that ratsstart answers, resized, and a content written: the ROM stays one, and
\* no tag comes to be where there was none.
LEMMA BlockWritten ==
  ASSUME IsRom(rom), NEW pc \in Nat, NEW n \in Nat
  PROVE  LET resized == Resized(pc, n)
             s == Written(resized, pc, pc + n - 1, Data)
         IN  /\ IsRom(resized) /\ IsRom(s)
             /\ DOMAIN s = DOMAIN rom \cup pc .. pc + n - 1
             /\ \A q \in Nat : TagIn(s, q) => TagIn(rom, q)
             /\ \A q \in Nat : TagIn(s, q) =>
                  \/ TagLenIn(s, q) = TagLenIn(rom, q)
                  \/ q <= pc /\ TagLenIn(s, q) = StoredLen(n)
<1> DEFINE p == RatsStart(pc)
           resized == Resized(pc, n)
           s == Written(resized, pc, pc + n - 1, Data)
<1>1. /\ IsRom(resized)
      /\ DOMAIN resized = DOMAIN rom
      /\ \A q \in Nat : TagIn(resized, q) =>
           /\ TagIn(rom, q)
           /\ \/ TagLenIn(resized, q) = TagLenIn(rom, q)
              \/ q <= pc /\ TagLenIn(resized, q) = StoredLen(n)
  <2>1. CASE p = NoBlock BY <2>1 DEF Resized
  <2>2. CASE p # NoBlock
    <3>1. p \in Nat /\ p <= pc /\ TagIn(rom, p) BY <2>2, RatsStartTag
    <3>2. resized = WithTag(rom, p, n) BY <2>2 DEF Resized
    <3> HIDE DEF resized, p
    <3>3. /\ IsRom(resized) /\ DOMAIN resized = DOMAIN rom \cup p .. p + TagSize - 1
          /\ TagLenIn(resized, p) = StoredLen(n)
          /\ \A q \in Nat \ {p} : IF (q .. q + TagSize - 1) \cap (p .. p + TagSize - 1) = {}
                                  THEN TagLenIn(resized, q) = TagLenIn(rom, q) ELSE ~TagIn(resized, q)
      BY <3>1, <3>2, WithTagTags
    <3>4. p .. p + TagSize - 1 \subseteq DOMAIN rom BY <3>1, TagInUse
    <3>5. ASSUME NEW q \in Nat, TagIn(resized, q)
          PROVE  /\ TagIn(rom, q)
                 /\ \/ TagLenIn(resized, q) = TagLenIn(rom, q)
                    \/ q <= pc /\ TagLenIn(resized, q) = StoredLen(n)
      <4>1. CASE q = p BY <3>1, <3>3, <4>1
      <4>2. CASE q # p BY <3>3, <3>5, <4>2, Zenon DEF TagIn
      <4>. QED BY <4>1, <4>2
    <3>. QED BY <3>3, <3>4, <3>5
  <2>. QED BY <2>1, <2>2
<1> HIDE DEF resized
<1>2. pc + n - 1 \in Int OBVIOUS
<1> DEFINE last == pc + n - 1
<1> HIDE DEF last
<1>3. last \in Int BY <1>2 DEF last
<1>4. s = Written(resized, pc, last, Data) BY DEF last
<1> HIDE DEF s
<1>5. /\ IsRom(s) /\ DOMAIN s = DOMAIN resized \cup pc .. last
      /\ \A q \in Nat : IF (q .. q + TagSize - 1) \cap (pc .. last) = {}
                        THEN TagLenIn(s, q) = TagLenIn(resized, q) ELSE ~TagIn(s, q)
  BY <1>1, <1>3, <1>4, WrittenTags
<1>6. ASSUME NEW q \in Nat, TagIn(s, q)
      PROVE  /\ TagIn(rom, q)
             /\ \/ TagLenIn(s, q) = TagLenIn(rom, q)
                \/ q <= pc /\ TagLenIn(s, q) = StoredLen(n)
  <2>1. TagIn(resized, q) /\ TagLenIn(s, q) = TagLenIn(resized, q)
    BY <1>5, <1>6, Zenon DEF TagIn
  <2>. QED BY <1>1, <2>1
<1>. QED BY <1>1, <1>5, <1>6 DEF s, resized, last

\* A block that ratsstart answers, removed: the same.
LEMMA BlockRemoved ==
  ASSUME IsRom(rom), NEW pc \in Nat
  PROVE  /\ IsRom(Removed(pc)) /\ DOMAIN Removed(pc) \subseteq DOMAIN rom
         /\ \A q \in Nat : TagIn(Removed(pc), q) =>
              TagIn(rom, q) /\ TagLenIn(Removed(pc), q) = TagLenIn(rom, q)
<1> DEFINE p == RatsStart(pc)
           last == p + TagSize + TagLenAt(p) - 1
<1>1. CASE p = NoBlock BY <1>1 DEF Removed
<1>2. CASE p # NoBlock
  <2>1. p \in Nat /\ TagIn(rom, p) BY <1>2, RatsStartTag
  <2>2. Removed(pc) = Cleared(rom, p, last) BY <1>2 DEF Removed
  <2> HIDE DEF p
  <2>3. last \in Int /\ p \in Int
    <3>1. TagLenAt(p) \in Nat BY <2>1, TagInUse DEF TagLenAt
    <3>. QED BY <2>1, <3>1, Sizing
  <2> HIDE DEF last
  <2> DEFINE s == Removed(pc)
  <2> HIDE DEF s
  <2>4. s = Cleared(rom, p, last) BY <2>2 DEF s
  <2>5. /\ IsRom(s) /\ DOMAIN s = DOMAIN rom \ (p .. last)
        /\ \A q \in Nat : IF (q .. q + TagSize - 1) \cap (p .. last) = {}
                          THEN TagLenIn(s, q) = TagLenIn(rom, q) ELSE ~TagIn(s, q)
    BY <2>3, <2>4, ClearedTags
  <2>6. ASSUME NEW q \in Nat, TagIn(s, q) PROVE TagIn(rom, q) /\ TagLenIn(s, q) = TagLenIn(rom, q)
    BY <2>5, <2>6, Zenon DEF TagIn
  <2>. QED BY <2>5, <2>6 DEF s
<1>. QED BY <1>1, <1>2

\* What pass 2 does to the next block.
LEMMA WriteBlockIs ==
  ASSUME WriteBlock
  PROVE  /\ pass = 2 /\ pending # << >> /\ pending' = Tail(pending)
         /\ UNCHANGED <<mapper, pass, patch, asked, req, ranges, start, answer, jumped>>
         /\ \E n, at, pc :
              /\ n \in {Head(pending).len, Head(pending).len - 1} /\ n >= 0
              /\ at = Head(pending).at /\ pc = at + TagSize
              /\ rom' = Written(Resized(pc, n), pc, pc + n - 1, Data)
              /\ romlen' = IF n > 0 /\ pc + n > romlen THEN pc + n ELSE romlen
              /\ owned' = (owned \ {Head(pending)}) \cup {[Head(pending) EXCEPT !.len = StoredLen(n)]}
<1>1. PICK n \in {Head(pending).len, Head(pending).len - 1} :
        LET b == Head(pending)
            first == b.at + TagSize
            end == first + n
        IN  /\ n >= 0
            /\ rom' = Written(Resized(first, n), first, first + n - 1, Data)
            /\ romlen' = IF n > 0 /\ end > romlen THEN end ELSE romlen
            /\ owned' = (owned \ {b}) \cup {[b EXCEPT !.len = StoredLen(n)]}
            /\ pending' = Tail(pending)
  BY Zenon DEF WriteBlock
<1> DEFINE at == Head(pending).at
           pc == at + TagSize
<1>2. at = Head(pending).at /\ pc = at + TagSize OBVIOUS
<1>3. n >= 0 /\ pending' = Tail(pending) BY <1>1
<1>4. rom' = Written(Resized(pc, n), pc, pc + n - 1, Data) BY <1>1
<1>5. romlen' = IF n > 0 /\ pc + n > romlen THEN pc + n ELSE romlen BY <1>1
<1>6. owned' = (owned \ {Head(pending)}) \cup {[Head(pending) EXCEPT !.len = StoredLen(n)]} BY <1>1
<1> HIDE DEF at, pc
<1>. QED BY <1>2, <1>3, <1>4, <1>5, <1>6, Zenon DEF WriteBlock

LEMMA TypesNext == Types /\ [Next]_vars => Types'
<1> SUFFICES ASSUME Types, [Next]_vars PROVE Types'
  OBVIOUS
<1>1. /\ mapper \in MappersUsed /\ mapper \in Mappers /\ IsRom(rom) /\ romlen \in Nat /\ pass \in {1, 2}
      /\ patch \in 1 .. MaxPatches /\ asked \in 0 .. MaxRequests
      /\ req = None \/ req \in Requests
      /\ start \in Nat /\ owned \subseteq Blocks /\ pending \in Seq(Blocks)
  BY FreespaceAssumption DEF Types
<1>2. ~Searching <=> req = None BY DEF Searching
<1>3. CASE Request
  <2>1. /\ UNCHANGED <<mapper, rom, romlen, pass, patch, owned, pending>> /\ pass = 1 /\ ~Searching
        /\ asked' = asked + 1 /\ asked < MaxRequests
    BY <1>3 DEF Request
  <2>2. asked' \in 0 .. MaxRequests
    <3>1. asked \in 0 .. MaxRequests /\ asked < MaxRequests /\ asked' = asked + 1
      BY <1>3 DEF Request, Types
    <3>. QED BY <3>1, Bounds
  <2>3. \/ UNCHANGED <<req, ranges, start>>
        \/ \E r \in Requests : /\ req' = r /\ ranges' = RangesOf(r, romlen)
                               /\ start' = IF ranges' = << >> THEN 0 ELSE Head(ranges').from
    <3>1. PICK size \in Sizes, code \in Codes, align \in Aligns :
            LET r == [size |-> size, code |-> code, align |-> align, expand |-> TRUE] IN
            \/ UNCHANGED <<req, ranges, start>>
            \/ /\ size # 0 /\ req' = r /\ ranges' = RangesOf(r, romlen)
               /\ start' = IF ranges' = << >> THEN 0 ELSE Head(ranges').from
      BY <1>3, Zenon DEF Request
    <3> DEFINE r == [size |-> size, code |-> code, align |-> align, expand |-> TRUE]
    <3>2. size # 0 => r \in Requests BY FreespaceAssumption DEF Requests
    <3>. QED BY <3>1, <3>2, Zenon
  <2>4. CASE UNCHANGED <<req, ranges, start>>
    BY <1>1, <2>1, <2>2, <2>4 DEF Types, Searching
  <2>5. ASSUME NEW r \in Requests, req' = r, ranges' = RangesOf(r, romlen),
               start' = IF ranges' = << >> THEN 0 ELSE Head(ranges').from
        PROVE  Types'
    <3>1. ranges' \in Seq(RangeFor(mapper, r, romlen)) BY <1>1, <2>5, RangesTyped
    <3>2. start' \in Nat BY <2>5, <3>1, RangeStart
    <3>. QED BY <1>1, <2>1, <2>2, <2>5, <3>1, <3>2, Zenon DEF Types
  <2>. QED BY <2>3, <2>4, <2>5
<1>4. ASSUME NEW p \in Nat, Advance(p) PROVE Types'
  BY <1>1, <1>4 DEF Types, Advance, Searching
<1>5. CASE RoundToBank
  <2>1. Searching /\ ranges # << >> BY <1>5 DEF RoundToBank, InLoop
  <2>2. Bank \in {HalfBank, HiBank} BY <2>1, FirstRange
  <2>3. start - (start % Bank) + Bank - TagSize \in Nat BY <1>1, <2>2, Rounded
  <2>. QED BY <1>4, <1>5, <2>3 DEF RoundToBank
<1>6. CASE SkipTagged
  <2>1. Searching /\ ranges # << >> BY <1>6 DEF SkipTagged, InLoop
  <2>2. start' \in Nat BY <1>6, <2>1, SkipsOn
  <2>3. Advance(start') BY <1>6 DEF SkipTagged, Advance
  <2>. QED BY <1>4, <2>2, <2>3
<1>7. CASE SkipUsed
  <2>1. Searching /\ ranges # << >> BY <1>7 DEF SkipUsed, InLoop
  <2>2. start' \in Nat BY <1>7, <2>1, SkipsOn
  <2>3. Advance(start') BY <1>7, Zenon DEF SkipUsed, Advance
  <2>. QED BY <1>4, <2>2, <2>3
<1>8. ASSUME Searching, ranges # << >>, NextRange, UNCHANGED <<mapper, romlen, pass>>
      PROVE  start' \in Nat /\ (Searching => pass = 1 /\ ranges \in Seq(RangeFor(mapper, req, romlen)))'
  <2>1. Tail(ranges) \in Seq(RangeFor(mapper, req, romlen)) /\ pass = 1
    BY <1>8, FirstRange DEF Types
  <2>2. ranges' = Tail(ranges) /\ start' = IF ranges' = << >> THEN 0 ELSE Head(ranges').from
    BY <1>8, Zenon DEF NextRange
  <2>3. start' \in Nat BY <2>1, <2>2, RangeStart
  <2>. QED BY <1>8, <2>1, <2>2, <2>3, Zenon DEF NextRange
<1>9. CASE Take
  <2>1. Searching /\ ranges # << >> BY <1>9 DEF Take, InLoop
  <2>2. Spot \in Nat /\ req.size \in Nat \ {0} BY <2>1, SpotPlace, FirstRange
  <2>3. rom' = WithTag(rom, Spot, req.size) /\ UNCHANGED <<mapper, romlen, pass, patch, asked>>
    BY <1>9 DEF Take
  <2>4. IsRom(rom)' BY <1>1, <2>2, <2>3, WithTagTags
  <2> DEFINE b == [at |-> Spot, len |-> req.size]
  <2>5. b \in Blocks BY <2>2 DEF Blocks
  <2>6. CASE Head(ranges).used
    <3>1. Serve(Spot + TagSize) /\ owned' = owned \cup {b} /\ pending' = Append(pending, b)
      BY <1>9, <2>6, Zenon DEF Take
    <3> HIDE DEF b
    <3>2. owned' \subseteq Blocks /\ pending' \in Seq(Blocks) BY <1>1, <2>5, <3>1
    <3>3. req' = None /\ start' = 0 BY <3>1 DEF Serve
    <3>. QED BY <1>1, <2>3, <2>4, <3>2, <3>3, Zenon DEF Types, Searching
  <2>7. CASE ~Head(ranges).used
    <3>1. NextRange /\ UNCHANGED <<owned, pending>> BY <1>9, <2>7, Zenon DEF Take
    <3>2. req' = req BY <3>1 DEF NextRange
    <3>. QED BY <1>1, <1>8, <2>1, <2>3, <2>4, <3>1, <3>2, Zenon DEF Types
  <2>. QED BY <2>6, <2>7
<1>10. CASE RangeExhausted
  <2>1. Searching /\ ranges # << >> /\ NextRange BY <1>10 DEF RangeExhausted
  <2>2. UNCHANGED <<mapper, rom, romlen, pass, patch, asked, owned, pending>> /\ req' = req
    BY <1>10, <2>1 DEF RangeExhausted, NextRange
  <2>. QED BY <1>1, <1>8, <2>1, <2>2, Zenon DEF Types
<1>11. CASE Expand
  <2>1. /\ Searching /\ ExpandedLen(req, romlen) # 0 /\ romlen' = ExpandedLen(req, romlen)
        /\ rom' = Written(rom, HeaderPos, HeaderPos, Data)
        /\ req' = [req EXCEPT !.expand = FALSE]
        /\ ranges' = RangesOf(req, romlen')
        /\ start' = IF ranges' = << >> THEN 0 ELSE Head(ranges').from
        /\ UNCHANGED <<mapper, pass, patch, asked, answer, owned, pending>>
    BY <1>11, Zenon DEF Expand
  <2>2. romlen' \in Nat BY <1>1, <2>1, Expansion
  <2>3. req \in Requests /\ pass = 1 BY <1>1, <1>2, <2>1 DEF Types
  <2>4. ranges' \in Seq(RangeFor(mapper, req, romlen')) BY <1>1, <2>1, <2>2, <2>3, RangesTyped
  <2>5. start' \in Nat BY <2>1, <2>4, RangeStart
  <2>6. req' \in Requests /\ req'.align = req.align BY <2>1, <2>3 DEF Requests
  <2>7. RangeFor(mapper, req, romlen') = RangeFor(mapper', req', romlen')
    BY <2>1, <2>6 DEF RangeFor
  <2>8. IsRom(rom)'
    <3>1. HeaderPos \in Nat /\ HeaderPos \in Int BY Sizing
    <3>. QED BY <1>1, <2>1, <3>1, WrittenTags
  <2>. QED BY <1>1, <2>1, <2>2, <2>3, <2>4, <2>5, <2>6, <2>7, <2>8, Zenon DEF Types
<1>12. CASE NothingFound
  <2>1. req' = None /\ start' = 0 /\ UNCHANGED <<mapper, rom, romlen, pass, patch, asked, owned, pending>>
    BY <1>12 DEF NothingFound, Serve
  <2>. QED BY <1>1, <2>1 DEF Types, Searching
<1>13. CASE Autoclean
  <2>1. PICK b \in owned : rom' = Removed(b.at + TagSize) /\ owned' = owned \ {b}
    BY <1>13, Zenon DEF Autoclean
  <2>2. /\ UNCHANGED <<mapper, romlen, pass, patch, asked, req, ranges, start, pending>>
        /\ ~Searching
    BY <1>13 DEF Autoclean
  <2>3. b.at + TagSize \in Nat BY <1>1, Sizing DEF Blocks
  <2>4. IsRom(rom)' BY <1>1, <2>1, <2>3, BlockRemoved
  <2>5. owned' \subseteq Blocks BY <1>1, <2>1
  <2>. QED BY <1>1, <2>2, <2>4, <2>5, Zenon DEF Types, Searching
<1>14. CASE BeginPass2
  BY <1>1, <1>14 DEF BeginPass2, Types, Searching
<1>15. CASE WriteBlock
  <2>1. PICK n, at, pc :
          /\ n \in {Head(pending).len, Head(pending).len - 1} /\ n >= 0
          /\ at = Head(pending).at /\ pc = at + TagSize
          /\ rom' = Written(Resized(pc, n), pc, pc + n - 1, Data)
          /\ romlen' = IF n > 0 /\ pc + n > romlen THEN pc + n ELSE romlen
          /\ owned' = (owned \ {Head(pending)}) \cup {[Head(pending) EXCEPT !.len = StoredLen(n)]}
    BY <1>15, WriteBlockIs
  <2>2. /\ UNCHANGED <<mapper, pass, patch, asked, req, ranges, start>> /\ pass = 2
        /\ pending # << >> /\ pending' = Tail(pending)
    BY <1>15, WriteBlockIs
  <2>3. PICK b \in Blocks : b = Head(pending) BY <1>1, <2>2
  <2>4. n \in Nat /\ at \in Nat /\ pc \in Nat
    <3>1. n \in {b.len, b.len - 1} /\ n >= 0 /\ at = b.at /\ pc = at + TagSize BY <2>1, <2>3, Zenon
    <3>. QED BY <3>1, Sizing DEF Blocks
  <2>5. IsRom(rom)' BY <1>1, <2>1, <2>4, BlockWritten
  <2>6. romlen' \in Nat
    <3>1. romlen' = romlen \/ romlen' = pc + n BY <2>1, Zenon
    <3>. QED BY <1>1, <2>4, <3>1
  <2>7. owned' \subseteq Blocks /\ pending' \in Seq(Blocks)
    <3>1. StoredLen(n) \in Nat \ {0} BY <2>4 DEF StoredLen
    <3>2. [b EXCEPT !.len = StoredLen(n)] \in Blocks BY <3>1 DEF Blocks
    <3>3. owned' = (owned \ {b}) \cup {[b EXCEPT !.len = StoredLen(n)]} BY <2>1, <2>3
    <3>. QED BY <1>1, <2>2, <3>2, <3>3
  <2>8. ~Searching
    BY <2>2 DEF Types
  <2>. QED BY <1>1, <2>2, <2>5, <2>6, <2>7, <2>8, Zenon DEF Types, Searching
<1>16. CASE NextPatch
  <2>1. patch' \in 1 .. MaxPatches
    <3>1. patch \in 1 .. MaxPatches /\ patch < MaxPatches /\ patch' = patch + 1
      BY <1>16 DEF NextPatch, Types
    <3>. QED BY <3>1, Bounds
  <2>2. ~Searching BY <1>16 DEF NextPatch, Types
  <2>. QED BY <1>1, <1>16, <2>1, <2>2 DEF NextPatch, Types, Searching
<1>17. CASE UNCHANGED vars
  <2>1. UNCHANGED <<mapper, rom, romlen, pass, patch, asked, req, ranges, start, owned, pending>>
    BY <1>17 DEF vars, program
  <2>. QED BY <2>1 DEF Types, Searching
<1>. QED
  BY <1>3, <1>5, <1>6, <1>7, <1>9, <1>10, <1>11, <1>12, <1>13, <1>14, <1>15, <1>16, <1>17
  DEF Next, Turn

-----------------------------------------------------------------------------
(***************************************************************************)
(* The floors: no tag of a LoROM or of an SA-1 ROM is in the original game *)
(* (where expanding writes the ROM size), and no search comes below where  *)
(* its range began.                                                        *)
(***************************************************************************)
SearchFloor ==
  Searching /\ ranges # << >> =>
    /\ mapper \in {"lorom", "sa1rom"} => start >= Half
    /\ mapper = "bigsa1rom" /\ Bank = HiBank => start >= FourMeg

TagFloor == mapper \in {"lorom", "sa1rom"} => \A p \in Nat : TagIn(rom, p) => p >= Half

\* The floors hold of where the search looks, too.
LEMMA SpotFloor ==
  ASSUME Types, SearchFloor, Searching, ranges # << >>
  PROVE  /\ Spot \in Nat
         /\ mapper \in {"lorom", "sa1rom"} => Spot >= Half
         /\ mapper = "bigsa1rom" /\ Bank = HiBank => Spot >= FourMeg
<1>1. mapper \in {"lorom", "sa1rom"} => Align # HiBank BY FirstRange
<1>2. /\ Spot \in Nat /\ (start >= FourMeg => Spot >= FourMeg)
      /\ Align # HiBank /\ start >= Half => Spot >= Half
  BY SpotPlace
<1>. QED BY <1>1, <1>2, Zenon DEF SearchFloor

LEMMA SearchFloorNext ==
  ASSUME Types, SearchFloor, [Next]_vars, Types'
  PROVE  SearchFloor'
<1>1. ASSUME ~Searching' PROVE SearchFloor' BY <1>1, Zenon DEF SearchFloor
<1>2. ASSUME Searching', start' = IF ranges' = << >> THEN 0 ELSE Head(ranges').from
      PROVE  SearchFloor'
  <2>1. ranges' \in Seq(RangeFor(mapper', req', romlen')) BY <1>2, Zenon DEF Types
  <2>2. /\ ranges' # << >> /\ mapper' \in {"lorom", "sa1rom"} => Head(ranges').from >= Half
        /\ ranges' # << >> /\ mapper' = "bigsa1rom" /\ Head(ranges').bank = HiBank =>
             Head(ranges').from >= FourMeg
    BY <2>1, RangeStart, Zenon
  <2>. QED BY <1>2, <2>2, Zenon DEF SearchFloor, Bank
<1>3. ASSUME Searching, ranges # << >>, NEW p \in Nat, Advance(p),
             mapper \in {"lorom", "sa1rom"} => p >= Half,
             mapper = "bigsa1rom" /\ Bank = HiBank => p >= FourMeg
      PROVE  SearchFloor'
  <2>1. start' = p /\ mapper' = mapper /\ ranges' = ranges BY <1>3 DEF Advance
  <2>2. Bank' = Bank BY <2>1 DEF Bank
  <2>. QED BY <1>3, <2>1, <2>2, Zenon DEF SearchFloor
<1>4. ASSUME UNCHANGED <<mapper, ranges, start>>, Searching' => Searching PROVE SearchFloor'
  <2>1. Bank' = Bank BY <1>4 DEF Bank
  <2>2. mapper' = mapper /\ ranges' = ranges /\ start' = start BY <1>4
  <2>. QED BY <1>4, <2>1, <2>2, Zenon DEF SearchFloor
<1>5. CASE Request
  <2>1. ~Searching /\ mapper' = mapper BY <1>5 DEF Request
  <2>2. \/ UNCHANGED <<req, ranges, start>>
        \/ start' = IF ranges' = << >> THEN 0 ELSE Head(ranges').from
    BY <1>5, Zenon DEF Request
  <2>3. CASE UNCHANGED <<req, ranges, start>> BY <1>1, <2>1, <2>3 DEF Searching
  <2>. QED BY <1>1, <1>2, <2>2, <2>3, Zenon
<1>6. CASE RoundToBank
  <2>1. Searching /\ ranges # << >> BY <1>6 DEF RoundToBank, InLoop
  <2>2. Bank \in {HalfBank, HiBank} /\ (mapper \in {"lorom", "sa1rom"} => Bank = HalfBank)
    BY <2>1, FirstRange
  <2> DEFINE p == start - (start % Bank) + Bank - TagSize
  <2>3. start \in Nat BY DEF Types
  <2>4. p \in Nat /\ (start >= FourMeg => p >= FourMeg) /\ (Bank = HalfBank /\ start >= Half => p >= Half)
    BY <2>2, <2>3, Rounded
  <2>5. Advance(p) BY <1>6 DEF RoundToBank
  <2> HIDE DEF p
  <2>. QED BY <1>3, <2>1, <2>2, <2>4, <2>5, Zenon DEF SearchFloor
<1>7. ASSUME SkipTagged \/ SkipUsed PROVE SearchFloor'
  <2>1. Searching /\ ranges # << >> BY <1>7 DEF SkipTagged, SkipUsed, InLoop
  <2>2. start' \in Nat /\ start' >= Spot /\ Spot \in Nat
    <3>1. Spot \in Nat BY <2>1, SpotPlace
    <3>. QED BY <1>7, <2>1, <3>1, SkipsOn, Sizing
  <2>3. Advance(start') BY <1>7, Zenon DEF SkipTagged, SkipUsed, Advance
  <2>4. /\ mapper \in {"lorom", "sa1rom"} => Spot >= Half
        /\ mapper = "bigsa1rom" /\ Bank = HiBank => Spot >= FourMeg
    BY <2>1, SpotFloor
  <2>5. /\ mapper \in {"lorom", "sa1rom"} => start' >= Half
        /\ mapper = "bigsa1rom" /\ Bank = HiBank => start' >= FourMeg
    BY <2>2, <2>4, Sizing
  <2>. QED BY <1>3, <2>1, <2>2, <2>3, <2>5, Zenon
<1>8. ASSUME NextRange PROVE SearchFloor'
  <2>1. start' = IF ranges' = << >> THEN 0 ELSE Head(ranges').from
    BY <1>8, Zenon DEF NextRange
  <2>. QED BY <1>1, <1>2, <2>1, Zenon
<1>9. CASE Take
  <2>1. NextRange \/ req' = None BY <1>9, Zenon DEF Take, Serve
  <2>. QED BY <1>1, <1>8, <2>1, Zenon DEF Searching
<1>10. CASE RangeExhausted BY <1>8, <1>10 DEF RangeExhausted
<1>11. CASE Expand
  <2>1. start' = IF ranges' = << >> THEN 0 ELSE Head(ranges').from BY <1>11, Zenon DEF Expand
  <2>. QED BY <1>1, <1>2, <2>1, Zenon
<1>12. CASE NothingFound BY <1>1, <1>12 DEF NothingFound, Serve, Searching
<1>13. CASE Autoclean \/ BeginPass2 \/ WriteBlock \/ NextPatch \/ UNCHANGED vars
  <2>1. UNCHANGED <<mapper, ranges, start, req>>
    BY <1>13 DEF Autoclean, BeginPass2, WriteBlock, NextPatch, vars, program
  <2>. QED BY <1>4, <2>1 DEF Searching
<1>. QED BY <1>5, <1>6, <1>7, <1>9, <1>10, <1>11, <1>12, <1>13 DEF Next, Turn

\* A tag is only made where a search took its place.
LEMMA TagsMade ==
  ASSUME Types, [Next]_vars
  PROVE  /\ mapper' = mapper
         /\ \A p \in Nat : TagIn(rom', p) => TagIn(rom, p) \/ (Take /\ p = Spot)
<1>1. IsRom(rom) /\ owned \subseteq Blocks /\ pending \in Seq(Blocks) BY DEF Types
<1>2. CASE Take
  <2>1. Searching /\ ranges # << >> /\ rom' = WithTag(rom, Spot, req.size) /\ mapper' = mapper
    BY <1>2 DEF Take, InLoop
  <2>2. Spot \in Nat /\ req.size \in Nat BY <2>1, SpotPlace, FirstRange
  <2>3. \A p \in Nat \ {Spot} :
          IF (p .. p + TagSize - 1) \cap (Spot .. Spot + TagSize - 1) = {}
          THEN TagLenIn(rom', p) = TagLenIn(rom, p) ELSE ~TagIn(rom', p)
    BY <1>1, <2>1, <2>2, WithTagTags
  <2>. QED BY <1>2, <2>1, <2>3, Zenon DEF TagIn
<1>3. CASE Expand
  <2>1. rom' = Written(rom, HeaderPos, HeaderPos, Data) /\ mapper' = mapper
    BY <1>3 DEF Expand
  <2>2. HeaderPos \in Nat /\ HeaderPos \in Int BY Sizing
  <2>3. \A p \in Nat : IF (p .. p + TagSize - 1) \cap (HeaderPos .. HeaderPos) = {}
                       THEN TagLenIn(rom', p) = TagLenIn(rom, p) ELSE ~TagIn(rom', p)
    BY <1>1, <2>1, <2>2, WrittenTags
  <2>. QED BY <2>1, <2>3, Zenon DEF TagIn
<1>4. CASE Autoclean
  <2>1. PICK b \in owned : rom' = Removed(b.at + TagSize) BY <1>4, Zenon DEF Autoclean
  <2>2. b.at + TagSize \in Nat BY <1>1, Sizing DEF Blocks
  <2>3. mapper' = mapper BY <1>4 DEF Autoclean
  <2>. QED BY <1>1, <2>1, <2>2, <2>3, BlockRemoved
<1>5. CASE WriteBlock
  <2>1. PICK n, at, pc :
          /\ n \in {Head(pending).len, Head(pending).len - 1} /\ n >= 0
          /\ at = Head(pending).at /\ pc = at + TagSize
          /\ rom' = Written(Resized(pc, n), pc, pc + n - 1, Data)
    BY <1>5, WriteBlockIs
  <2>2. pending # << >> /\ mapper' = mapper BY <1>5 DEF WriteBlock
  <2>3. PICK b \in Blocks : b = Head(pending) BY <1>1, <2>2
  <2>4. n \in Nat /\ pc \in Nat
    <3>1. n \in {b.len, b.len - 1} /\ n >= 0 /\ pc = b.at + TagSize BY <2>1, <2>3, Zenon
    <3>. QED BY <3>1, Sizing DEF Blocks
  <2>. QED BY <1>1, <2>1, <2>2, <2>4, BlockWritten
<1>6. CASE UNCHANGED <<mapper, rom>> BY <1>6
<1>7. Next => Take \/ Expand \/ Autoclean \/ WriteBlock \/ UNCHANGED <<mapper, rom>>
  BY DEF Next, Turn, Request, RoundToBank, SkipTagged, SkipUsed, Advance, RangeExhausted,
         NothingFound, BeginPass2, NextPatch
<1>8. UNCHANGED vars => UNCHANGED <<mapper, rom>> BY DEF vars, program
<1>. QED BY <1>2, <1>3, <1>4, <1>5, <1>6, <1>7, <1>8

LEMMA TagFloorNext ==
  ASSUME Types, SearchFloor, TagFloor, [Next]_vars
  PROVE  TagFloor'
<1>1. ASSUME mapper \in {"lorom", "sa1rom"}, NEW p \in Nat, TagIn(rom', p) PROVE p >= Half
  <2>1. TagIn(rom, p) \/ (Take /\ p = Spot) BY <1>1, TagsMade
  <2>2. CASE TagIn(rom, p) BY <1>1, <2>2 DEF TagFloor
  <2>3. CASE Take /\ p = Spot
    <3>1. Searching /\ ranges # << >> BY <2>3 DEF Take, InLoop
    <3>. QED BY <1>1, <2>3, <3>1, SpotFloor
  <2>. QED BY <2>1, <2>2, <2>3
<1>2. mapper' = mapper BY TagsMade
<1>. QED BY <1>1, <1>2, Zenon DEF TagFloor

\* A ROM holds no tag when a patch begins to be applied to it for the first time.
LEMMA NoTagsYet ==
  ASSUME Init
  PROVE  \A p \in Nat : ~TagIn(rom, p)
<1>1. IsRom(rom) BY TypesInit DEF Types
<1>2. ASSUME NEW p \in Nat PROVE ~TagIn(rom, p)
  <2>1. \A c \in DOMAIN rom : rom[c] = Data BY DEF Init
  <2>2. 0 \in 0 .. TagSize - 1 /\ p + 0 = p BY Sizing
  <2>3. \A n \in Nat \ {0} : TagByte(0, n) # Data BY <2>2, TagByteTells
  <2>4. \A n \in Nat \ {0} : ~HasTag(rom, p, n)
    <3> SUFFICES ASSUME NEW n \in Nat \ {0}, HasTag(rom, p, n) PROVE FALSE
      OBVIOUS
    <3>1. p \in DOMAIN rom /\ rom[p] = TagByte(0, n) BY <2>2 DEF HasTag
    <3>. QED BY <2>1, <2>3, <3>1
  <2>. QED BY <1>1, <2>4, TagLen
<1>. QED BY <1>2

LEMMA FloorsInit == Init => SearchFloor /\ TagFloor
<1> SUFFICES ASSUME Init PROVE SearchFloor /\ TagFloor
  OBVIOUS
<1>1. SearchFloor BY DEF Init, SearchFloor, Searching
<1>. QED BY <1>1, NoTagsYet DEF TagFloor

-----------------------------------------------------------------------------
(***************************************************************************)
(* As long as no search has come to look inside of a block, the tags and   *)
(* what they announce do not overlap, and they are those of the blocks.    *)
(***************************************************************************)
Apart(r) == \A p, q \in Nat : TagIn(r, p) /\ TagIn(r, q) /\ p < q => TagEndIn(r, p) <= q

Guards(r, b) ==
  IF Seen(b.at) THEN TagLenIn(r, b.at) = b.len ELSE TagLenIn(r, b.at) >= b.len

OneEach == \A b, c \in owned : b.at = c.at => b = c
PendingOwned ==
  /\ \A k \in DOMAIN pending : pending[k] \in owned
  /\ \A j, k \in DOMAIN pending : pending[j] = pending[k] => j = k
TagsOwned ==
  mapper # "exlorom" => \A p \in Nat : Seen(p) /\ TagIn(rom, p) => \E b \in owned : b.at = p

SafeInv ==
  ~jumped =>
    /\ Apart(rom)
    /\ \A b \in owned : Guards(rom, b)
    /\ OneEach
    /\ PendingOwned
    /\ TagsOwned
    /\ ~LooksInside

LEMMA InsideIs ==
  ASSUME IsRom(rom), NEW p \in Nat
  PROVE  Inside(p) <=> \E q \in Nat : TagIn(rom, q) /\ q < p /\ p < TagEndIn(rom, q)
<1>1. ASSUME NEW q \in Nat, TagIn(rom, q), q < p, p < TagEndIn(rom, q) PROVE Inside(p)
  <2>1. /\ q .. q + TagSize - 1 \subseteq DOMAIN rom /\ TagLenIn(rom, q) \in Nat \ {0}
    BY <1>1, TagInUse
  <2>2. q \in DOMAIN rom /\ TagLenAt(q) # NoBlock BY <1>1, <2>1, Sizing DEF TagIn, TagLenAt
  <2>3. p \in q + 1 .. q + TagSize + TagLenAt(q) - 1
    BY <1>1, <2>1, Sizing DEF TagEndIn, TagLenAt
  <2>. QED BY <2>2, <2>3 DEF Inside
<1>2. ASSUME Inside(p) PROVE \E q \in Nat : TagIn(rom, q) /\ q < p /\ p < TagEndIn(rom, q)
  <2>1. PICK q \in DOMAIN rom :
          TagLenAt(q) # NoBlock /\ p \in q + 1 .. q + TagSize + TagLenAt(q) - 1
    BY <1>2 DEF Inside
  <2>2. q \in Nat /\ TagIn(rom, q) BY <2>1 DEF IsRom, TagIn, TagLenAt
  <2>3. TagLenIn(rom, q) \in Nat \ {0} BY <2>2, TagInUse
  <2>4. q < p /\ p < TagEndIn(rom, q) BY <2>1, <2>2, <2>3, Sizing DEF TagEndIn, TagLenAt
  <2>. QED BY <2>2, <2>4
<1>. QED BY <1>1, <1>2

\* The tags stay apart where all but one are what they were, and that one is gone or announces
\* no more than it did.
LEMMA ApartKept ==
  ASSUME NEW r, IsRom(r), Apart(r), NEW s, IsRom(s), NEW at \in Nat,
         \A q \in Nat \ {at} : TagLenIn(s, q) = TagLenIn(r, q),
         TagIn(s, at) => TagIn(r, at) /\ TagLenIn(s, at) <= TagLenIn(r, at)
  PROVE  Apart(s)
<1> SUFFICES ASSUME NEW p \in Nat, NEW q \in Nat, TagIn(s, p), TagIn(s, q), p < q
             PROVE  TagEndIn(s, p) <= q
  BY DEF Apart
<1>1. \A x \in Nat : TagIn(s, x) => TagIn(r, x) /\ TagLenIn(s, x) <= TagLenIn(r, x)
  <2> SUFFICES ASSUME NEW x \in Nat, TagIn(s, x), x # at
               PROVE  TagIn(r, x) /\ TagLenIn(s, x) <= TagLenIn(r, x)
    OBVIOUS
  <2>1. TagLenIn(s, x) = TagLenIn(r, x) /\ TagIn(r, x) BY DEF TagIn
  <2>2. TagLenIn(r, x) \in Nat BY <2>1, TagInUse
  <2>. QED BY <2>1, <2>2
<1>2. TagEndIn(r, p) <= q BY <1>1 DEF Apart
<1>3. TagLenIn(s, p) \in Nat /\ TagLenIn(r, p) \in Nat BY <1>1, TagInUse
<1>. QED BY <1>1, <1>2, <1>3, Sizing DEF TagEndIn

\* The tag of a block is the one that ratsstart finds, unless it is too low to be seen.
LEMMA OwnTag ==
  ASSUME IsRom(rom), Apart(rom), NEW b \in Blocks, Guards(rom, b)
  PROVE  /\ TagIn(rom, b.at) /\ TagLenIn(rom, b.at) \in Nat \ {0} /\ TagLenIn(rom, b.at) >= b.len
         /\ RatsStart(b.at + TagSize) = IF Seen(b.at) THEN b.at ELSE NoBlock
<1>1. b.at \in Nat /\ b.len \in Nat \ {0} BY DEF Blocks
<1>2. TagIn(rom, b.at)
  <2>1. NoBlock = -1 BY DEF NoBlock
  <2>. QED BY <1>1, <2>1 DEF Guards, TagIn
<1>3. TagLenIn(rom, b.at) \in Nat \ {0} BY <1>1, <1>2, TagInUse
<1>4. TagLenIn(rom, b.at) >= b.len BY <1>1, <1>3 DEF Guards
<1>5. \A p \in Nat : b.at < p /\ p <= b.at + TagSize => ~TagIn(rom, p)
  <2> SUFFICES ASSUME NEW p \in Nat, b.at < p, p <= b.at + TagSize, TagIn(rom, p) PROVE FALSE
    OBVIOUS
  <2>1. TagEndIn(rom, b.at) <= p BY <1>1, <1>2 DEF Apart
  <2>. QED BY <1>1, <1>3, <2>1, Sizing DEF TagEndIn
<1>6. RatsStart(b.at + TagSize) = IF b.at + TagSize < Half - TagSize THEN NoBlock ELSE b.at
  BY <1>1, <1>2, <1>5, RatsStartOwn
<1>7. Seen(b.at) <=> ~(b.at + TagSize < Half - TagSize) BY <1>1, Sizing DEF Seen
<1>. QED BY <1>2, <1>3, <1>4, <1>6, <1>7

\* A block taken from free space is apart from the others, if the search did not look inside
\* of one.
LEMMA TakenTag ==
  ASSUME IsRom(rom), Apart(rom), NEW at \in Nat, NEW n \in Nat \ {0},
         ~Inside(at), ~TagIn(rom, at), \A i \in 0 .. TagSize + n - 1 : at + i \notin DOMAIN rom
  PROVE  LET s == WithTag(rom, at, n) IN
         /\ IsRom(s) /\ Apart(s)
         /\ TagLenIn(s, at) = n
         /\ \A q \in Nat \ {at} : TagLenIn(s, q) = TagLenIn(rom, q)
<1> DEFINE s == WithTag(rom, at, n)
<1>1. /\ IsRom(s) /\ TagLenIn(s, at) = StoredLen(n) /\ TagIn(s, at)
      /\ \A p \in Nat \ {at} :
           IF (p .. p + TagSize - 1) \cap (at .. at + TagSize - 1) = {}
           THEN TagLenIn(s, p) = TagLenIn(rom, p) ELSE ~TagIn(s, p)
  BY WithTagTags
<1>2. StoredLen(n) = n BY DEF StoredLen
<1> HIDE DEF s
<1>3. \A c \in at .. at + TagSize + n - 1 : c \notin DOMAIN rom
  <2> SUFFICES ASSUME NEW c \in at .. at + TagSize + n - 1 PROVE c \notin DOMAIN rom
    OBVIOUS
  <2>1. c - at \in 0 .. TagSize + n - 1 /\ at + (c - at) = c BY Sizing
  <2>. QED BY <2>1
<1>4. ASSUME NEW q \in Nat, TagIn(rom, q) PROVE TagEndIn(rom, q) <= at \/ at + TagSize + n <= q
  <2>1. q \in DOMAIN rom
    <3>1. q .. q + TagSize - 1 \subseteq DOMAIN rom BY <1>4, TagInUse
    <3>. QED BY <3>1, Sizing
  <2>2. q < at \/ at + TagSize + n <= q BY <1>3, <2>1, Sizing
  <2>3. q < at => ~(at < TagEndIn(rom, q)) BY <1>4, InsideIs
  <2>4. TagEndIn(rom, q) \in Nat BY <1>4, TagInUse
  <2>. QED BY <2>2, <2>3, <2>4
<1>5. ASSUME NEW q \in Nat, q # at PROVE TagLenIn(s, q) = TagLenIn(rom, q)
  <2>1. CASE (q .. q + TagSize - 1) \cap (at .. at + TagSize - 1) = {} BY <1>1, <1>5, <2>1
  <2>2. CASE (q .. q + TagSize - 1) \cap (at .. at + TagSize - 1) # {}
    <3>1. ~TagIn(s, q) BY <1>1, <1>5, <2>2
    <3>2. PICK c \in q .. q + TagSize - 1 : c \in at .. at + TagSize - 1 BY <2>2
    <3>3. c \notin DOMAIN rom BY <1>3, <3>2, Sizing
    <3>4. ~TagIn(rom, q) BY <3>2, <3>3, TagInUse
    <3>. QED BY <3>1, <3>4 DEF TagIn
  <2>. QED BY <2>1, <2>2
<1>6. Apart(s)
  <2> SUFFICES ASSUME NEW p \in Nat, NEW q \in Nat, TagIn(s, p), TagIn(s, q), p < q
               PROVE  TagEndIn(s, p) <= q
    BY DEF Apart
  <2>1. CASE p # at /\ q # at
    <3>1. TagLenIn(s, p) = TagLenIn(rom, p) /\ TagLenIn(s, q) = TagLenIn(rom, q) BY <1>5, <2>1
    <3>2. TagIn(rom, p) /\ TagIn(rom, q) /\ TagEndIn(s, p) = TagEndIn(rom, p)
      BY <3>1, Zenon DEF TagIn, TagEndIn
    <3>. QED BY <3>2 DEF Apart
  <2>2. CASE p = at
    <3>1. TagLenIn(s, q) = TagLenIn(rom, q) BY <1>5, <2>2
    <3>2. TagIn(rom, q) BY <3>1 DEF TagIn
    <3>3. TagEndIn(rom, q) \in Nat /\ q + TagSize < TagEndIn(rom, q) BY <3>2, TagInUse
    <3>4. at + TagSize + n <= q BY <1>4, <2>2, <3>2, <3>3, Sizing
    <3>5. TagEndIn(s, p) = at + TagSize + n BY <1>1, <1>2, <2>2, Zenon DEF TagEndIn
    <3>. QED BY <3>4, <3>5
  <2>3. CASE q = at
    <3>1. TagLenIn(s, p) = TagLenIn(rom, p) BY <1>5, <2>3
    <3>2. TagIn(rom, p) /\ TagEndIn(s, p) = TagEndIn(rom, p) BY <3>1, Zenon DEF TagIn, TagEndIn
    <3>3. TagEndIn(rom, p) <= at BY <1>4, <2>3, <3>2, Sizing
    <3>. QED BY <2>3, <3>2, <3>3
  <2>. QED BY <2>1, <2>2, <2>3
<1>. QED BY <1>1, <1>2, <1>5, <1>6 DEF s

\* A block removed: its tag is gone, unless it was too low to be seen; the others are kept.
LEMMA RemovedTag ==
  ASSUME IsRom(rom), Apart(rom), NEW b \in Blocks, Guards(rom, b)
  PROVE  LET s == Removed(b.at + TagSize) IN
         /\ IsRom(s) /\ Apart(s)
         /\ Seen(b.at) => ~TagIn(s, b.at)
         /\ ~Seen(b.at) => s = rom
         /\ \A q \in Nat \ {b.at} : TagLenIn(s, q) = TagLenIn(rom, q)
<1> DEFINE s == Removed(b.at + TagSize)
<1>1. /\ TagIn(rom, b.at) /\ TagLenIn(rom, b.at) \in Nat \ {0}
      /\ RatsStart(b.at + TagSize) = IF Seen(b.at) THEN b.at ELSE NoBlock
  BY OwnTag
<1>2. PICK at \in Nat : at = b.at BY DEF Blocks
<1>3. CASE ~Seen(b.at)
  <2>1. s = rom BY <1>1, <1>3 DEF Removed
  <2>. QED BY <1>3, <2>1
<1>4. CASE Seen(b.at)
  <2> DEFINE last == at + TagSize + TagLenAt(at) - 1
  <2>1. RatsStart(b.at + TagSize) = at /\ at # NoBlock BY <1>1, <1>2, <1>4 DEF NoBlock
  <2>2. s = Cleared(rom, at, last) BY <2>1, Zenon DEF Removed
  <2>3. PICK n \in Nat \ {0} : n = TagLenIn(rom, at) BY <1>1, <1>2
  <2>4. last = at + TagSize + n - 1 /\ last \in Int BY <2>3, Sizing DEF TagLenAt
  <2> HIDE DEF s, last
  <2>5. /\ IsRom(s)
        /\ \A q \in Nat : IF (q .. q + TagSize - 1) \cap (at .. last) = {}
                          THEN TagLenIn(s, q) = TagLenIn(rom, q) ELSE ~TagIn(s, q)
    <3>1. at \in Int OBVIOUS
    <3>. QED BY <2>2, <2>4, <3>1, ClearedTags
  <2>6. ~TagIn(s, at)
    <3>1. at \in (at .. at + TagSize - 1) \cap (at .. last) BY <2>4, Sizing
    <3>. QED BY <2>5, <3>1
  <2>7. ASSUME NEW q \in Nat, q # at PROVE TagLenIn(s, q) = TagLenIn(rom, q)
    <3>1. CASE TagIn(rom, q)
      <4>1. TagEndIn(rom, at) = at + TagSize + n BY <2>3 DEF TagEndIn
      <4>2. TagIn(rom, at) BY <1>1, <1>2
      <4>3. at < q => at + TagSize + n <= q BY <3>1, <4>1, <4>2 DEF Apart
      <4>4. q < at => TagEndIn(rom, q) <= at BY <3>1, <4>2 DEF Apart
      <4>5. TagEndIn(rom, q) \in Nat /\ q + TagSize < TagEndIn(rom, q) BY <3>1, TagInUse
      <4>6. (q .. q + TagSize - 1) \cap (at .. last) = {}
        BY <2>4, <2>7, <4>3, <4>4, <4>5, Sizing
      <4>. QED BY <2>5, <4>6
    <3>2. CASE ~TagIn(rom, q) BY <2>5, <3>2, Zenon DEF TagIn
    <3>. QED BY <3>1, <3>2
  <2>8. Apart(s) BY <2>5, <2>6, <2>7, ApartKept
  <2>. QED BY <1>2, <1>4, <2>5, <2>6, <2>7, <2>8 DEF s
<1>. QED BY <1>3, <1>4 DEF s

\* A block written in pass 2: its tag gives the new length, unless it was too low to be seen;
\* the others are kept.
LEMMA RewrittenTag ==
  ASSUME IsRom(rom), Apart(rom), NEW b \in Blocks, Guards(rom, b), NEW n \in Nat, n <= b.len
  PROVE  LET pc == b.at + TagSize
             s == Written(Resized(pc, n), pc, pc + n - 1, Data) IN
         /\ IsRom(s) /\ Apart(s)
         /\ Guards(s, [b EXCEPT !.len = StoredLen(n)])
         /\ \A q \in Nat \ {b.at} : TagLenIn(s, q) = TagLenIn(rom, q)
<1> DEFINE pc == b.at + TagSize
           r == Resized(pc, n)
           last == pc + n - 1
           s == Written(r, pc, last, Data)
<1>1. /\ TagIn(rom, b.at) /\ TagLenIn(rom, b.at) \in Nat \ {0} /\ TagLenIn(rom, b.at) >= b.len
      /\ RatsStart(pc) = IF Seen(b.at) THEN b.at ELSE NoBlock
  BY OwnTag
<1>2. PICK at \in Nat, len \in Nat \ {0} : at = b.at /\ len = b.len BY DEF Blocks
<1>3. PICK m \in Nat \ {0} : m = TagLenIn(rom, at) BY <1>1, <1>2
<1>4. StoredLen(n) \in Nat \ {0} /\ StoredLen(n) <= len BY <1>2 DEF StoredLen
<1>5. /\ IsRom(r)
      /\ TagLenIn(r, at) = IF Seen(at) THEN StoredLen(n) ELSE m
      /\ \A q \in Nat \ {at} : TagLenIn(r, q) = TagLenIn(rom, q)
  <2>1. CASE ~Seen(at)
    <3>1. r = rom BY <1>1, <1>2, <2>1 DEF Resized
    <3>. QED BY <1>3, <2>1, <3>1
  <2>2. CASE Seen(at)
    <3>1. RatsStart(pc) = at /\ at # NoBlock BY <1>1, <1>2, <2>2 DEF NoBlock
    <3>2. r = WithTag(rom, at, n) BY <3>1, Zenon DEF Resized
    <3> HIDE DEF r
    <3>3. /\ IsRom(r) /\ TagLenIn(r, at) = StoredLen(n)
          /\ \A p \in Nat \ {at} :
               IF (p .. p + TagSize - 1) \cap (at .. at + TagSize - 1) = {}
               THEN TagLenIn(r, p) = TagLenIn(rom, p) ELSE ~TagIn(r, p)
      BY <3>2, WithTagTags
    <3>4. ASSUME NEW q \in Nat, q # at PROVE TagLenIn(r, q) = TagLenIn(rom, q)
      <4>1. CASE TagIn(rom, q)
        <5>1. TagIn(rom, at) /\ TagEndIn(rom, at) \in Nat /\ at + TagSize < TagEndIn(rom, at)
          BY <1>1, <1>2, TagInUse
        <5>2. TagEndIn(rom, q) \in Nat /\ q + TagSize < TagEndIn(rom, q) BY <4>1, TagInUse
        <5>3. (at < q => TagEndIn(rom, at) <= q) /\ (q < at => TagEndIn(rom, q) <= at)
          BY <4>1, <5>1 DEF Apart
        <5>4. (q .. q + TagSize - 1) \cap (at .. at + TagSize - 1) = {}
          BY <3>4, <5>1, <5>2, <5>3, Sizing
        <5>. QED BY <3>3, <3>4, <5>4
      <4>2. CASE ~TagIn(rom, q) BY <3>3, <3>4, <4>2, Zenon DEF TagIn
      <4>. QED BY <4>1, <4>2
    <3>. QED BY <2>2, <3>3, <3>4
  <2>. QED BY <2>1, <2>2
<1> HIDE DEF r
<1>6. pc \in Nat /\ last \in Int /\ pc = at + TagSize /\ last = at + TagSize + n - 1
  BY <1>2, Sizing
<1>7. Apart(r)
  <2>1. TagLenIn(r, at) <= TagLenIn(rom, at) /\ TagIn(rom, at)
    <3>1. len <= m BY <1>1, <1>2, <1>3
    <3>2. TagLenIn(r, at) \in {StoredLen(n), m} BY <1>5
    <3>. QED BY <1>1, <1>2, <1>3, <1>4, <3>1, <3>2
  <2>. QED BY <1>5, <2>1, ApartKept
<1> HIDE DEF pc, last
<1>8. /\ IsRom(s)
      /\ \A p \in Nat : IF (p .. p + TagSize - 1) \cap (pc .. last) = {}
                        THEN TagLenIn(s, p) = TagLenIn(r, p) ELSE ~TagIn(s, p)
  BY <1>5, <1>6, WrittenTags
<1> HIDE DEF s
<1>9. TagLenIn(s, at) = TagLenIn(r, at)
  <2>1. (at .. at + TagSize - 1) \cap (pc .. last) = {} BY <1>6, Sizing
  <2>. QED BY <1>8, <2>1
<1>10. ASSUME NEW q \in Nat, q # at PROVE TagLenIn(s, q) = TagLenIn(rom, q)
  <2>1. TagLenIn(r, q) = TagLenIn(rom, q) BY <1>5, <1>10
  <2>2. CASE TagIn(rom, q)
    <3>1. TagEndIn(rom, at) = at + TagSize + m /\ TagIn(rom, at) BY <1>1, <1>2, <1>3 DEF TagEndIn
    <3>2. TagEndIn(rom, q) \in Nat /\ q + TagSize < TagEndIn(rom, q) BY <2>2, TagInUse
    <3>3. (at < q => at + TagSize + m <= q) /\ (q < at => TagEndIn(rom, q) <= at)
      BY <2>2, <3>1 DEF Apart
    <3>4. n <= m BY <1>1, <1>2, <1>3
    <3>5. (q .. q + TagSize - 1) \cap (pc .. last) = {}
      BY <1>6, <1>10, <3>2, <3>3, <3>4, Sizing
    <3>. QED BY <1>8, <2>1, <3>5
  <2>3. CASE ~TagIn(rom, q) BY <1>8, <2>1, <2>3, Zenon DEF TagIn
  <2>. QED BY <2>2, <2>3
<1>11. Apart(s)
  <2>1. \A q \in Nat \ {at} : TagLenIn(s, q) = TagLenIn(r, q) BY <1>5, <1>10
  <2>2. TagIn(s, at) => TagIn(r, at) /\ TagLenIn(s, at) <= TagLenIn(r, at)
    <3>1. TagLenIn(r, at) \in Nat BY <1>4, <1>5
    <3>. QED BY <1>9, <3>1 DEF TagIn
  <2>. QED BY <1>5, <1>7, <1>8, <2>1, <2>2, ApartKept
<1>12. Guards(s, [b EXCEPT !.len = StoredLen(n)])
  <2> DEFINE c == [b EXCEPT !.len = StoredLen(n)]
  <2>1. c.at = at /\ c.len = StoredLen(n) BY <1>2 DEF Blocks
  <2>2. TagLenIn(s, at) = IF Seen(at) THEN StoredLen(n) ELSE m BY <1>5, <1>9
  <2>3. m >= StoredLen(n)
    <3>1. len <= m BY <1>1, <1>2, <1>3
    <3>. QED BY <1>4, <3>1
  <2> HIDE DEF c
  <2>4. Guards(s, c) BY <2>1, <2>2, <2>3 DEF Guards
  <2>. QED BY <2>4 DEF c
<1>. QED BY <1>2, <1>8, <1>10, <1>11, <1>12 DEF s, r, pc, last

\* Where the search goes on from what it has looked at, it does not come to be inside.
LEMMA SkipsOutside ==
  ASSUME Types, SafeInv, ~jumped, SkipTagged \/ SkipUsed, ~jumped'
  PROVE  ~LooksInside'
<1>1. Searching /\ ranges # << >> BY DEF SkipTagged, SkipUsed, InLoop
<1>2. UNCHANGED <<rom, req, ranges>> BY DEF SkipTagged, SkipUsed, Advance
<1>3. CASE Align # 0
  <2>1. Noted BY <1>3 DEF SkipTagged, SkipUsed, NotedIfAligned
  <2>. QED BY <2>1, Zenon DEF Noted
<1>4. CASE Align = 0
  <2>1. Spot = start /\ Spot \in Nat /\ IsRom(rom) /\ req.size \in Nat
    BY <1>1, <1>4, SpotPlace, FirstRange DEF Types
  <2>2. Spot' = start' /\ start' \in Nat
    <3>1. Align' = Align BY <1>2 DEF Align
    <3>. QED BY <1>1, <1>4, <3>1, SkipsOn DEF Spot
  <2>3. Apart(rom) /\ ~Inside(Spot) BY <1>1, <2>1, Zenon DEF SafeInv, LooksInside
  <2>4. ASSUME NEW q \in Nat, TagIn(rom, q), q < start', start' < TagEndIn(rom, q) PROVE FALSE
    <3>1. TagEndIn(rom, q) \in Nat /\ q \in DOMAIN rom
      <4>1. q .. q + TagSize - 1 \subseteq DOMAIN rom /\ TagEndIn(rom, q) \in Nat
        BY <2>1, <2>4, TagInUse
      <4>. QED BY <4>1, Sizing
    <3>2. ~(q < Spot /\ Spot < TagEndIn(rom, q)) BY <2>1, <2>3, <2>4, InsideIs
    <3>3. CASE SkipTagged
      <4>1. TagIn(rom, Spot) /\ start' = TagEndIn(rom, Spot) /\ start' > Spot + TagSize
        BY <1>1, <3>3, SkipsOn DEF SkipTagged, TagIn, TagLenAt
      <4>2. Spot < q => start' <= q BY <2>1, <2>3, <2>4, <4>1 DEF Apart
      <4>3. Spot # q BY <2>2, <2>4, <4>1
      <4>. QED BY <2>1, <2>2, <2>4, <3>1, <3>2, <4>1, <4>2, <4>3, Sizing
    <3>4. CASE SkipUsed
      <4>1. ~TagIn(rom, Spot) /\ UsedBytesAt(Spot) # {} BY <3>4 DEF SkipUsed, TagIn, TagLenAt
      <4>2. PICK i \in 0 .. TagSize + req.size - 1 : i = FirstUsed(Spot) BY <2>1, <4>1, FirstUsedIs
      <4>3. start' = Spot + (IF i = 0 THEN 1 ELSE i)
        BY <1>4, <3>4, <4>2, Zenon DEF SkipUsed, Advance
      <4>4. \A j \in Nat : j < i => Spot + j \notin DOMAIN rom BY <2>1, <4>1, <4>2, FirstUsedIs
      <4>5. Spot # q BY <2>4, <4>1
      <4>6. ~(Spot < q)
        <5> SUFFICES ASSUME Spot < q PROVE FALSE
          OBVIOUS
        <5>1. q - Spot \in Nat /\ q - Spot < i /\ Spot + (q - Spot) = q
          BY <2>1, <2>4, <4>2, <4>3, Sizing
        <5>. QED BY <3>1, <4>4, <5>1
      <4>. QED BY <2>1, <2>2, <2>4, <3>1, <3>2, <4>2, <4>3, <4>5, <4>6, Sizing
    <3>. QED BY <3>3, <3>4
  <2>5. ~Inside(start') BY <2>1, <2>2, <2>4, InsideIs
  <2>6. Inside(Spot)' <=> Inside(start')
    BY <1>2, <2>2, Zenon DEF Inside, TagLenAt
  <2>. QED BY <2>5, <2>6, Zenon DEF LooksInside
<1>. QED BY <1>3, <1>4

LEMMA SafeInit == Init => SafeInv
<1> SUFFICES ASSUME Init PROVE SafeInv
  OBVIOUS
<1>3. Apart(rom) /\ TagsOwned BY NoTagsYet DEF Apart, TagsOwned
<1>4. owned = {} /\ pending = << >> /\ ~Searching BY DEF Init, Searching
<1>5. OneEach /\ PendingOwned /\ ~LooksInside BY <1>4 DEF OneEach, PendingOwned, LooksInside
<1>. QED BY <1>3, <1>4, <1>5 DEF SafeInv

\* Whatever the ROM is changed to, a block whose tag is kept is guarded as it was.
LEMMA GuardsKept ==
  ASSUME NEW r, NEW s, NEW b, TagLenIn(s, b.at) = TagLenIn(r, b.at), Guards(r, b)
  PROVE  Guards(s, b)
BY DEF Guards

LEMMA SafeNext ==
  ASSUME Types, TagFloor, SafeInv, [Next]_vars
  PROVE  SafeInv'
<1> SUFFICES ASSUME ~jumped' PROVE SafeInv'
  BY Zenon DEF SafeInv
<1>1. IsRom(rom) /\ owned \subseteq Blocks /\ pending \in Seq(Blocks) /\ mapper \in Mappers
  BY FreespaceAssumption DEF Types
<1>2. ~jumped
  <2>1. jumped' = jumped \/ jumped' = (jumped \/ LooksInside')
    BY Zenon DEF Next, Turn, Request, RoundToBank, SkipTagged, SkipUsed, Take, RangeExhausted, Expand,
       NothingFound, Autoclean, BeginPass2, WriteBlock, NextPatch, Noted, NotedIfAligned, vars
  <2>. QED BY <2>1, Zenon
<1>3. /\ Apart(rom) /\ (\A b \in owned : Guards(rom, b)) /\ OneEach /\ PendingOwned /\ TagsOwned
      /\ ~LooksInside
  BY <1>2, Zenon DEF SafeInv
\* The ROM and the blocks are what they were.
<1>4. ASSUME UNCHANGED <<mapper, rom, owned, pending>>, ~LooksInside' PROVE SafeInv'
  <2>1. rom' = rom /\ owned' = owned /\ pending' = pending /\ mapper' = mapper BY <1>4
  <2>2. OneEach' BY <1>3, <2>1, Zenon DEF OneEach
  <2>3. PendingOwned' BY <1>3, <2>1, Zenon DEF PendingOwned
  <2>4. TagsOwned' BY <1>3, <2>1, Zenon DEF TagsOwned
  <2>. QED BY <1>3, <1>4, <2>1, <2>2, <2>3, <2>4, Zenon DEF SafeInv
<1>5. ASSUME Noted PROVE ~LooksInside' BY <1>5, Zenon DEF Noted
<1>6. CASE Request BY <1>4, <1>5, <1>6 DEF Request
<1>7. CASE RoundToBank BY <1>4, <1>5, <1>7 DEF RoundToBank, Advance
<1>8. CASE SkipTagged \/ SkipUsed
  <2>1. ~LooksInside' BY <1>2, <1>8, SkipsOutside
  <2>2. UNCHANGED <<mapper, rom, owned, pending>> BY <1>8 DEF SkipTagged, SkipUsed, Advance
  <2>. QED BY <1>4, <2>1, <2>2
<1>9. CASE RangeExhausted BY <1>4, <1>5, <1>9 DEF RangeExhausted
<1>10. CASE NothingFound
  <2>1. UNCHANGED <<mapper, rom, owned, pending>> /\ ~LooksInside'
    BY <1>10 DEF NothingFound, Serve, LooksInside, Searching
  <2>. QED BY <1>4, <2>1
<1>11. CASE BeginPass2 \/ NextPatch \/ UNCHANGED vars
  <2>1. UNCHANGED <<mapper, rom, owned, pending, req, ranges, start>>
    BY <1>11 DEF BeginPass2, NextPatch, vars, program
  <2>2. LooksInside' <=> LooksInside
    BY <2>1 DEF LooksInside, Searching, Inside, TagLenAt, Spot, Align
  <2>. QED BY <1>3, <1>4, <2>1, <2>2
<1>12. CASE Take
  <2>1. /\ Searching /\ ranges # << >> /\ ~TagIn(rom, Spot) /\ UsedBytesAt(Spot) = {}
        /\ rom' = WithTag(rom, Spot, req.size) /\ mapper' = mapper
        /\ ~LooksInside'
    BY <1>5, <1>12 DEF Take, InLoop, TagIn, TagLenAt
  <2>2. PICK at \in Nat, n \in Nat \ {0} : at = Spot /\ n = req.size
    BY <2>1, SpotPlace, FirstRange
  <2>3. ~Inside(at) BY <1>3, <2>1, <2>2, Zenon DEF LooksInside
  <2>4. \A i \in 0 .. TagSize + n - 1 : at + i \notin DOMAIN rom BY <2>1, <2>2 DEF UsedBytesAt
  <2>5. /\ Apart(rom') /\ TagLenIn(rom', at) = n
        /\ \A q \in Nat \ {at} : TagLenIn(rom', q) = TagLenIn(rom, q)
    <3>1. ~TagIn(rom, at) /\ rom' = WithTag(rom, at, n) BY <2>1, <2>2
    <3>. QED BY <1>1, <1>3, <2>3, <2>4, <3>1, TakenTag
  <2>6. ASSUME NEW b \in owned PROVE b.at # at /\ Guards(rom', b)
    <3>1. b \in Blocks /\ TagIn(rom, b.at) BY <1>1, <1>3, OwnTag
    <3>2. b.at \in Nat /\ b.at # at BY <2>1, <2>2, <3>1 DEF Blocks
    <3>. QED BY <1>3, <2>5, <3>2, GuardsKept
  <2> DEFINE b == [at |-> at, len |-> n]
  <2>7. CASE Head(ranges).used
    <3>1. owned' = owned \cup {b} /\ pending' = Append(pending, b)
      BY <1>12, <2>2, <2>7, Zenon DEF Take
    <3>2. b.at = at /\ b.len = n OBVIOUS
    <3> HIDE DEF b
    <3>3. Guards(rom', b)
      BY <2>2, <2>5, <3>2 DEF Guards
    <3>4. \A c \in owned' : Guards(rom', c) BY <2>6, <3>1, <3>3
    <3>5. OneEach' BY <1>3, <2>6, <3>1, <3>2 DEF OneEach
    <3>6. b \notin owned BY <2>6, <3>2
    <3>7. PendingOwned'
      <4>1. PICK l \in Nat : l = Len(pending) BY <1>1
      <4>2. /\ DOMAIN pending = 1 .. l /\ DOMAIN pending' = 1 .. l + 1
            /\ \A k \in 1 .. l : pending'[k] = pending[k]
            /\ pending'[l + 1] = b
        BY <1>1, <3>1, <4>1
      <4>3. \A k \in 1 .. l : pending[k] \in owned BY <1>3, <4>2 DEF PendingOwned
      <4>4. \A j, k \in 1 .. l : pending[j] = pending[k] => j = k BY <1>3, <4>2 DEF PendingOwned
      <4>5. \A k \in 1 .. l + 1 : k \in 1 .. l \/ k = l + 1 OBVIOUS
      <4>6. \A k \in 1 .. l + 1 : pending'[k] \in owned' BY <3>1, <4>2, <4>3, <4>5
      <4>7. \A j, k \in 1 .. l + 1 : pending'[j] = pending'[k] => j = k
        BY <3>6, <4>2, <4>3, <4>4, <4>5
      <4>. QED BY <4>2, <4>6, <4>7 DEF PendingOwned
    <3>8. TagsOwned'
      <4> SUFFICES ASSUME mapper # "exlorom", NEW p \in Nat, Seen(p), TagIn(rom', p)
                   PROVE  \E c \in owned' : c.at = p
        BY <2>1 DEF TagsOwned, Seen
      <4>1. CASE p = at BY <3>1, <3>2, <4>1
      <4>2. CASE p # at
        <5>1. TagIn(rom, p) BY <2>5, <4>2 DEF TagIn
        <5>2. \E c \in owned : c.at = p BY <1>3, <5>1 DEF TagsOwned
        <5>. QED BY <3>1, <5>2
      <4>. QED BY <4>1, <4>2
    <3>. QED BY <2>1, <2>5, <3>4, <3>5, <3>7, <3>8, Zenon DEF SafeInv
  <2>8. CASE ~Head(ranges).used
    <3>1. owned' = owned /\ pending' = pending BY <1>12, <2>8, Zenon DEF Take
    <3>2. mapper = "exlorom"
      <4>1. Head(ranges) \in RangeFor(mapper, req, romlen) BY <2>1, FirstRange
      <4>. QED BY <2>8, <4>1, Zenon DEF RangeFor
    <3>3. \A c \in owned' : Guards(rom', c) BY <2>6, <3>1
    <3>4. OneEach' BY <1>3, <3>1, Zenon DEF OneEach
    <3>5. PendingOwned' BY <1>3, <3>1, Zenon DEF PendingOwned
    <3>6. TagsOwned' BY <2>1, <3>2, Zenon DEF TagsOwned
    <3>. QED BY <2>1, <2>5, <3>3, <3>4, <3>5, <3>6, Zenon DEF SafeInv
  <2>. QED BY <2>7, <2>8
<1>13. CASE Expand
  <2>1. /\ rom' = Written(rom, HeaderPos, HeaderPos, Data)
        /\ ExpandedLen(req, romlen) # 0
        /\ UNCHANGED <<mapper, owned, pending>> /\ ~LooksInside'
    BY <1>5, <1>13 DEF Expand
  <2>2. mapper \in {"lorom", "sa1rom"}
    <3>1. romlen \in Nat BY DEF Types
    <3>. QED BY <1>1, <2>1, <3>1, Expansion
  <2>3. /\ IsRom(rom')
        /\ \A p \in Nat : IF (p .. p + TagSize - 1) \cap (HeaderPos .. HeaderPos) = {}
                          THEN TagLenIn(rom', p) = TagLenIn(rom, p) ELSE ~TagIn(rom', p)
    <3>1. HeaderPos \in Nat /\ HeaderPos \in Int BY Sizing
    <3>. QED BY <1>1, <2>1, <3>1, WrittenTags
  <2>4. ASSUME NEW p \in Nat PROVE TagLenIn(rom', p) = TagLenIn(rom, p)
    <3>1. CASE TagIn(rom, p)
      <4>1. p >= Half BY <2>2, <3>1 DEF TagFloor
      <4>2. (p .. p + TagSize - 1) \cap (HeaderPos .. HeaderPos) = {} BY <4>1, Sizing
      <4>. QED BY <2>3, <4>2
    <3>2. CASE ~TagIn(rom, p) BY <2>3, <3>2, Zenon DEF TagIn
    <3>. QED BY <3>1, <3>2
  <2>5. Apart(rom')
    <3>1. TagIn(rom', 0) => TagIn(rom, 0) /\ TagLenIn(rom', 0) <= TagLenIn(rom, 0)
      <4> SUFFICES ASSUME TagIn(rom', 0) PROVE TagIn(rom, 0) /\ TagLenIn(rom', 0) <= TagLenIn(rom, 0)
        OBVIOUS
      <4>1. TagLenIn(rom', 0) = TagLenIn(rom, 0) BY <2>4
      <4>2. TagLenIn(rom', 0) \in Nat BY <2>3, TagInUse
      <4>. QED BY <4>1, <4>2 DEF TagIn
    <3>2. 0 \in Nat /\ \A q \in Nat \ {0} : TagLenIn(rom', q) = TagLenIn(rom, q) BY <2>4
    <3>. QED BY <1>1, <1>3, <2>3, <3>1, <3>2, ApartKept
  <2>6. \A b \in owned' : Guards(rom', b)
    <3> SUFFICES ASSUME NEW b \in owned PROVE Guards(rom', b)
      BY <2>1
    <3>1. b.at \in Nat BY <1>1 DEF Blocks
    <3>. QED BY <1>3, <2>4, <3>1, GuardsKept
  <2>7. OneEach' BY <1>3, <2>1 DEF OneEach
  <2>8. PendingOwned' BY <1>3, <2>1 DEF PendingOwned
  <2>9. TagsOwned'
    <3>1. \A p \in Nat : TagIn(rom', p) <=> TagIn(rom, p) BY <2>4 DEF TagIn
    <3>. QED BY <1>3, <2>1, <3>1 DEF TagsOwned, Seen
  <2>. QED BY <2>1, <2>5, <2>6, <2>7, <2>8, <2>9, Zenon DEF SafeInv
<1>14. CASE Autoclean
  <2>1. PICK b \in owned : /\ \A k \in DOMAIN pending : pending[k] # b
                           /\ rom' = Removed(b.at + TagSize) /\ owned' = owned \ {b}
    BY <1>14, Zenon DEF Autoclean
  <2>2. UNCHANGED <<mapper, req, ranges, start, pending>> /\ ~Searching
    BY <1>14 DEF Autoclean
  <2>3. b \in Blocks /\ Guards(rom, b) BY <1>1, <1>3
  <2>4. /\ Apart(rom') /\ (Seen(b.at) => ~TagIn(rom', b.at))
        /\ \A q \in Nat \ {b.at} : TagLenIn(rom', q) = TagLenIn(rom, q)
    BY <1>1, <1>3, <2>1, <2>3, RemovedTag
  <2>5. ASSUME NEW c \in owned' PROVE Guards(rom', c)
    <3>1. c \in owned /\ c # b BY <2>1
    <3>2. c.at \in Nat /\ c.at # b.at BY <1>1, <1>3, <3>1 DEF Blocks, OneEach
    <3>. QED BY <1>3, <2>4, <3>1, <3>2, GuardsKept
  <2>6. OneEach' BY <1>3, <2>1 DEF OneEach
  <2>7. PendingOwned' BY <1>3, <2>1, <2>2 DEF PendingOwned
  <2>8. TagsOwned'
    <3> SUFFICES ASSUME mapper # "exlorom", NEW p \in Nat, Seen(p), TagIn(rom', p)
                 PROVE  \E c \in owned' : c.at = p
      BY <2>2 DEF TagsOwned, Seen
    <3>1. p # b.at BY <2>4
    <3>2. TagIn(rom, p) BY <2>4, <3>1 DEF TagIn
    <3>3. \E c \in owned : c.at = p BY <1>3, <3>2 DEF TagsOwned
    <3>. QED BY <2>1, <3>1, <3>3
  <2>9. ~LooksInside' BY <2>2 DEF LooksInside, Searching
  <2>. QED BY <2>4, <2>5, <2>6, <2>7, <2>8, <2>9, Zenon DEF SafeInv
<1>15. CASE WriteBlock
  <2>1. PICK n, at, pc :
          /\ n \in {Head(pending).len, Head(pending).len - 1} /\ n >= 0
          /\ at = Head(pending).at /\ pc = at + TagSize
          /\ rom' = Written(Resized(pc, n), pc, pc + n - 1, Data)
          /\ owned' = (owned \ {Head(pending)}) \cup {[Head(pending) EXCEPT !.len = StoredLen(n)]}
    BY <1>15, WriteBlockIs
  <2>2. /\ UNCHANGED <<mapper, req, ranges, start>> /\ pass = 2
        /\ pending # << >> /\ pending' = Tail(pending)
    BY <1>15, WriteBlockIs
  <2>3. PICK l \in Nat : l = Len(pending) /\ l # 0 /\ DOMAIN pending = 1 .. l BY <1>1, <2>2
  <2>4. Head(pending) = pending[1] /\ 1 \in DOMAIN pending BY <1>1, <2>2, <2>3
  <2>5. PICK b \in owned : b = Head(pending) BY <1>3, <2>4 DEF PendingOwned
  <2>6. b \in Blocks /\ Guards(rom, b) BY <1>1, <1>3
  <2>7. n \in Nat /\ n <= b.len /\ at = b.at /\ at \in Nat
    <3>1. n \in {b.len, b.len - 1} /\ n >= 0 /\ at = b.at BY <2>1, <2>5, Zenon
    <3>. QED BY <2>6, <3>1 DEF Blocks
  <2> DEFINE c == [b EXCEPT !.len = StoredLen(n)]
  <2>8. /\ Apart(rom') /\ Guards(rom', c)
        /\ \A q \in Nat \ {at} : TagLenIn(rom', q) = TagLenIn(rom, q)
    <3>1. rom' = Written(Resized(b.at + TagSize, n), b.at + TagSize, b.at + TagSize + n - 1, Data)
      BY <2>1, <2>7, Zenon
    <3>. QED BY <1>1, <1>3, <2>6, <2>7, <3>1, RewrittenTag
  <2>9. c.at = at /\ owned' = (owned \ {b}) \cup {c} BY <2>1, <2>5, <2>6, <2>7 DEF Blocks
  <2> HIDE DEF c
  <2>10. \A d \in owned \ {b} : d.at \in Nat /\ d.at # at BY <1>1, <1>3, <2>7 DEF Blocks, OneEach
  <2>11. \A d \in owned' : Guards(rom', d)
    <3> SUFFICES ASSUME NEW d \in owned \ {b} PROVE Guards(rom', d)
      BY <2>8, <2>9
    <3>. QED BY <1>3, <2>8, <2>10, GuardsKept
  <2>12. OneEach' BY <1>3, <2>9, <2>10 DEF OneEach
  <2>13. PendingOwned'
    <3>1. /\ DOMAIN pending' = 1 .. l - 1
          /\ \A k \in 1 .. l - 1 : pending'[k] = pending[k + 1]
      BY <1>1, <2>2, <2>3
    <3>2. \A k \in 1 .. l : pending[k] \in owned BY <1>3, <2>3 DEF PendingOwned
    <3>3. \A j, k \in 1 .. l : pending[j] = pending[k] => j = k BY <1>3, <2>3 DEF PendingOwned
    <3>4. ASSUME NEW k \in 1 .. l - 1 PROVE pending'[k] \in owned'
      <4>1. k + 1 \in 1 .. l /\ 1 \in 1 .. l /\ k + 1 # 1 BY <2>3
      <4>2. pending[k + 1] \in owned /\ pending[k + 1] # pending[1] BY <3>2, <3>3, <4>1
      <4>. QED BY <2>4, <2>5, <2>9, <3>1, <4>2
    <3>5. ASSUME NEW j \in 1 .. l - 1, NEW k \in 1 .. l - 1, pending'[j] = pending'[k] PROVE j = k
      <4>1. j + 1 \in 1 .. l /\ k + 1 \in 1 .. l BY <2>3
      <4>2. pending[j + 1] = pending[k + 1] BY <3>1, <3>5
      <4>3. j + 1 = k + 1 BY <3>3, <4>1, <4>2
      <4>. QED BY <4>3
    <3>. QED BY <3>1, <3>4, <3>5 DEF PendingOwned
  <2>14. TagsOwned'
    <3> SUFFICES ASSUME mapper # "exlorom", NEW p \in Nat, Seen(p), TagIn(rom', p)
                 PROVE  \E d \in owned' : d.at = p
      BY <2>2 DEF TagsOwned, Seen
    <3>1. CASE p = at BY <2>9, <3>1
    <3>2. CASE p # at
      <4>1. TagIn(rom, p) BY <2>8, <3>2 DEF TagIn
      <4>2. PICK d \in owned : d.at = p BY <1>3, <4>1 DEF TagsOwned
      <4>3. d # b BY <2>7, <3>2, <4>2
      <4>. QED BY <2>9, <4>2, <4>3
    <3>. QED BY <3>1, <3>2
  <2>15. ~LooksInside' BY <2>2 DEF LooksInside, Searching, Types
  <2>. QED BY <2>8, <2>11, <2>12, <2>13, <2>14, <2>15, Zenon DEF SafeInv
<1>. QED
  BY <1>6, <1>7, <1>8, <1>9, <1>10, <1>11, <1>12, <1>13, <1>14, <1>15 DEF Next, Turn

-----------------------------------------------------------------------------
(***************************************************************************)
(* Banks: the contents of a block begin in the last bytes that a tag may   *)
(* take of a bank, or end in the bank that they begin in.  The bank is     *)
(* that of the range that was searched, which may be half of the one that  *)
(* the contents have to stay in.                                           *)
(***************************************************************************)
Fits(bank, b) ==
  \/ (b.at + TagSize) % bank < TagSize
  \/ ((b.at + TagSize) % bank) + b.len <= bank

InItsBank(b) == \E bank \in {HalfBank, ContentBank(b.at + TagSize)} : Fits(bank, b)

BankInv ==
  /\ \A b \in owned : InItsBank(b)
  /\ \A k \in DOMAIN pending : InItsBank(pending[k])

LEMMA TakenFits ==
  ASSUME Types, SearchFloor, Searching, ranges # << >>, ~Misfits
  PROVE  InItsBank([at |-> Spot, len |-> req.size])
<1> DEFINE b == [at |-> Spot, len |-> req.size]
<1>1. PICK T \in Nat \ {0}, h \in Nat \ {0} : T = TagSize /\ h = HalfBank /\ T < h /\ HiBank = 2 * h
  BY Sizing
<1>2. PICK size \in Nat \ {0} : size = req.size BY FirstRange
<1>3. start \in Nat /\ Spot \in Nat BY SpotPlace DEF Types
<1>4. CASE Align # 0
  <2>1. PICK k \in Nat : Spot + T = Align * k BY <1>1, <1>4, SpotPlace
  <2>2. Align \in {h, 2 * h} BY <1>1, <1>4, FirstRange
  <2>3. PICK m \in Int : Spot + T = h * m + 0
    <3>1. CASE Align = h
      <4>1. h * k = h * k + 0 /\ k \in Int BY <1>1
      <4>. QED BY <2>1, <3>1, <4>1
    <3>2. CASE Align = 2 * h
      <4>1. (2 * h) * k = h * (2 * k) + 0 /\ 2 * k \in Int BY <1>1
      <4>. QED BY <2>1, <3>2, <4>1
    <3>. QED BY <2>2, <3>1, <3>2
  <2>4. (h * m + 0) % h = 0
    <3>1. 0 \in 0 .. h - 1 BY <1>1
    <3>. QED BY <3>1, DivUnique
  <2>5. (Spot + T) % h < T BY <1>1, <2>3, <2>4
  <2>6. Fits(HalfBank, b) BY <1>1, <2>5 DEF Fits
  <2>. QED BY <2>6 DEF InItsBank
<1>5. CASE Align = 0
  <2>1. PICK n \in {HalfBank, HiBank} : n = Bank BY FirstRange
  <2>2. n \in Nat \ {0} /\ T < n BY <1>1, <2>1
  <2>3. Spot = start BY <1>5, SpotPlace
  <2>4. n \in {HalfBank, ContentBank(Spot + TagSize)}
    <3>1. CASE n = HiBank
      <4>1. mapper \in {"hirom", "exhirom", "bigsa1rom"} BY <2>1, <3>1, FirstRange
      <4>2. mapper = "bigsa1rom" => Spot + TagSize >= FourMeg
        BY <1>1, <1>3, <2>1, <2>3, <3>1, Sizing DEF SearchFloor
      <4>3. ContentBank(Spot + TagSize) = HiBank BY <4>1, <4>2 DEF ContentBank
      <4>. QED BY <3>1, <4>3
    <3>. QED BY <2>1, <3>1
  <2> DEFINE f == start + T
  <2>5. f \in Nat /\ f + size - 1 \in Int BY <1>1, <1>2, <1>3
  <2>6. \/ f \div n = (f + size - 1) \div n
        \/ (start % n) - (start % T) = n - T
    BY <1>1, <1>2, <2>1 DEF Misfits
  <2>7. CASE f \div n = (f + size - 1) \div n
    <3>1. f \div n \in Int /\ f % n \in 0 .. n - 1 /\ f = n * (f \div n) + (f % n)
      <4>1. f \in Int /\ n \in Nat \ {0} BY <2>2, <2>5
      <4> HIDE DEF f
      <4>. QED BY <4>1, DivMod
    <3> DEFINE g == f + size - 1
    <3>2. g \div n \in Int /\ g % n \in 0 .. n - 1 /\ g = n * (g \div n) + (g % n)
      <4>1. g \in Int /\ n \in Nat \ {0} BY <2>2, <2>5
      <4> HIDE DEF g
      <4>. QED BY <4>1, DivMod
    <3>3. PICK m \in Int : m = n * (f \div n) /\ m = n * (g \div n) BY <2>2, <2>7, <3>1
    <3>4. (f % n) + size <= n
      <4>1. g = f + size - 1 OBVIOUS
      <4>2. g = m + (g % n) /\ f = m + (f % n) BY <3>1, <3>2, <3>3
      <4>3. f \in Int /\ g \in Int BY <2>5
      <4>4. f % n \in Int /\ g % n \in Int /\ g % n <= n - 1 /\ n \in Nat BY <2>2, <3>1, <3>2
      <4> HIDE DEF f, g
      <4>5. PICK i \in Int, j \in Int : i = f % n /\ j = g % n BY <4>4
      <4>6. g = m + j /\ f = m + i /\ j <= n - 1 BY <4>2, <4>4, <4>5
      <4>7. m \in Int /\ n \in Nat /\ size \in Nat /\ i \in Int /\ j \in Int
        BY <1>2, <3>3, <4>4, <4>5
      <4>8. i + size <= n BY <4>1, <4>3, <4>6, <4>7
      <4>. QED BY <4>5, <4>8
    <3>5. Fits(n, b) BY <1>1, <1>2, <2>3, <3>4 DEF Fits
    <3>. QED BY <2>4, <3>5 DEF InItsBank
  <2>8. CASE (start % n) - (start % T) = n - T
    <3>1. start \div n \in Int /\ start % n \in 0 .. n - 1 /\ start = n * (start \div n) + (start % n)
      <4>1. start \in Int /\ n \in Nat \ {0} BY <1>3, <2>2
      <4>. QED BY <4>1, DivMod
    <3>2. start % T \in 0 .. T - 1 BY <1>1, <1>3, DivMod
    <3>3. PICK t \in 0 .. T - 1, q \in Int, m \in Int :
            t = start % T /\ q = start \div n + 1 /\ m = n * (start \div n)
      BY <2>2, <3>1, <3>2
    <3>4. n * q = m + n BY <2>2, <3>1, <3>3
    <3>5. f = n * q + t BY <1>1, <1>3, <2>2, <2>8, <3>1, <3>3, <3>4
    <3>6. (n * q + t) % n = t
      <4>1. t \in 0 .. n - 1 BY <1>1, <2>2
      <4>. QED BY <2>2, <4>1, DivUnique
    <3>7. f % n < T BY <1>1, <3>5, <3>6
    <3>8. Fits(n, b) BY <1>1, <2>3, <3>7 DEF Fits
    <3>. QED BY <2>4, <3>8 DEF InItsBank
  <2>. QED BY <2>6, <2>7, <2>8
<1>. QED BY <1>4, <1>5

\* A shorter content fits where the longer one did.
LEMMA ShorterFits ==
  ASSUME NEW b \in Blocks, InItsBank(b), NEW n \in Nat \ {0}, n <= b.len
  PROVE  InItsBank([b EXCEPT !.len = n])
<1> DEFINE c == [b EXCEPT !.len = n]
<1>1. c.at = b.at /\ c.len = n /\ b.at \in Nat /\ b.len \in Nat BY DEF Blocks
<1>2. PICK bank \in {HalfBank, ContentBank(b.at + TagSize)} : Fits(bank, b) BY DEF InItsBank
<1>3. bank \in Nat \ {0} BY <1>2, Sizing DEF ContentBank
<1>4. (b.at + TagSize) % bank \in Int
  <2>1. b.at + TagSize \in Int BY <1>1, Sizing
  <2>. QED BY <1>3, <2>1, DivMod
<1> HIDE DEF c
<1>5. Fits(bank, c) BY <1>1, <1>2, <1>3, <1>4 DEF Fits
<1>6. InItsBank(c) BY <1>1, <1>2, <1>5 DEF InItsBank
<1>. QED BY <1>6 DEF c

LEMMA BankInit == Init => BankInv
BY DEF Init, BankInv

LEMMA BankNext ==
  ASSUME Types, SearchFloor, BankInv, [Next]_vars
  PROVE  BankInv'
<1>1. owned \subseteq Blocks /\ pending \in Seq(Blocks) BY DEF Types
<1>2. mapper' = mapper BY TagsMade
<1>3. \A b : InItsBank(b)' <=> InItsBank(b) BY <1>2 DEF InItsBank, Fits, ContentBank
<1>4. CASE UNCHANGED <<owned, pending>> BY <1>3, <1>4 DEF BankInv
<1>5. CASE Take
  <2>1. Searching /\ ranges # << >> /\ ~Misfits BY <1>5 DEF Take, InLoop
  <2> DEFINE b == [at |-> Spot, len |-> req.size]
  <2>2. InItsBank(b) BY <2>1, TakenFits
  <2>3. \/ owned' = owned /\ pending' = pending
        \/ owned' = owned \cup {b} /\ pending' = Append(pending, b)
    BY <1>5, Zenon DEF Take
  <2> HIDE DEF b
  <2>4. CASE owned' = owned \cup {b} /\ pending' = Append(pending, b)
    <3>1. \A c \in owned' : InItsBank(c) BY <2>2, <2>4 DEF BankInv
    <3>2. PICK l \in Nat : l = Len(pending) BY <1>1
    <3>3. /\ DOMAIN pending = 1 .. l /\ DOMAIN pending' = 1 .. l + 1
          /\ \A k \in 1 .. l : pending'[k] = pending[k]
          /\ pending'[l + 1] = b
      BY <1>1, <2>4, <3>2
    <3>4. \A k \in 1 .. l + 1 : k \in 1 .. l \/ k = l + 1 OBVIOUS
    <3>5. \A k \in 1 .. l + 1 : InItsBank(pending'[k]) BY <2>2, <3>3, <3>4 DEF BankInv
    <3>6. \A k \in DOMAIN pending' : InItsBank(pending'[k]) BY <3>3, <3>5
    <3>7. \A c \in owned' : InItsBank(c)' BY <1>3, <3>1
    <3>8. \A k \in DOMAIN pending' : InItsBank(pending[k])'
      BY <1>2, <3>6 DEF InItsBank, Fits, ContentBank
    <3>. QED BY <3>7, <3>8, Zenon DEF BankInv
  <2>. QED BY <1>4, <2>3, <2>4
<1>6. CASE Autoclean
  <2>1. owned' \subseteq owned /\ pending' = pending BY <1>6 DEF Autoclean
  <2>. QED BY <1>3, <2>1 DEF BankInv
<1>7. CASE WriteBlock
  <2>1. PICK n, at, pc :
          /\ n \in {Head(pending).len, Head(pending).len - 1} /\ n >= 0
          /\ owned' = (owned \ {Head(pending)}) \cup {[Head(pending) EXCEPT !.len = StoredLen(n)]}
    BY <1>7, WriteBlockIs
  <2>2. pending # << >> /\ pending' = Tail(pending) BY <1>7, WriteBlockIs
  <2>3. PICK l \in Nat : l = Len(pending) /\ l # 0 /\ DOMAIN pending = 1 .. l BY <1>1, <2>2
  <2>4. PICK b \in Blocks : b = Head(pending) /\ b = pending[1] BY <1>1, <2>2, <2>3
  <2>5. InItsBank(b) BY <2>3, <2>4 DEF BankInv
  <2>6. StoredLen(n) \in Nat \ {0} /\ StoredLen(n) <= b.len
    <3>1. n \in {b.len, b.len - 1} /\ n >= 0 BY <2>1, <2>4, Zenon
    <3>2. b.len \in Nat \ {0} BY DEF Blocks
    <3>. QED BY <3>1, <3>2 DEF StoredLen
  <2>7. InItsBank([b EXCEPT !.len = StoredLen(n)]) BY <2>5, <2>6, ShorterFits
  <2>8. \A c \in owned' : InItsBank(c)
    <3>1. owned' = (owned \ {b}) \cup {[b EXCEPT !.len = StoredLen(n)]} BY <2>1, <2>4
    <3>. QED BY <2>7, <3>1 DEF BankInv
  <2>9. \A k \in DOMAIN pending' : InItsBank(pending'[k])
    <3>1. /\ DOMAIN pending' = 1 .. l - 1
          /\ \A k \in 1 .. l - 1 : pending'[k] = pending[k + 1]
      BY <1>1, <2>2, <2>3
    <3>2. \A k \in 1 .. l - 1 : k + 1 \in 1 .. l BY <2>3
    <3>. QED BY <2>3, <3>1, <3>2 DEF BankInv
  <2>10. \A c \in owned' : InItsBank(c)' BY <1>3, <2>8
  <2>11. \A k \in DOMAIN pending' : InItsBank(pending[k])'
    BY <1>2, <2>9 DEF InItsBank, Fits, ContentBank
  <2>. QED BY <2>10, <2>11, Zenon DEF BankInv
<1>8. Next => Take \/ Autoclean \/ WriteBlock \/ UNCHANGED <<owned, pending>>
  BY DEF Next, Turn, Request, RoundToBank, SkipTagged, SkipUsed, Advance, RangeExhausted, Expand,
         NothingFound, BeginPass2, NextPatch
<1>9. UNCHANGED vars => UNCHANGED <<owned, pending>> BY DEF vars, program
<1>. QED BY <1>4, <1>5, <1>6, <1>7, <1>8, <1>9

\* What fits does not cross, unless it is as long as the bank less a tag.
LEMMA FitsInOne ==
  ASSUME NEW b \in Blocks, InItsBank(b), b.len <= HalfBank - TagSize + 1
  PROVE  LET first == b.at + TagSize
             bank == ContentBank(first)
         IN  first \div bank = (first + b.len - 1) \div bank
<1> DEFINE first == b.at + TagSize
           bank == ContentBank(first)
<1>1. PICK T \in Nat \ {0}, h \in Nat \ {0} : T = TagSize /\ h = HalfBank /\ T < h /\ HiBank = 2 * h
  BY Sizing
<1>2. PICK f \in Nat, len \in Nat \ {0} : f = first /\ len = b.len /\ len <= h - T + 1
  BY <1>1 DEF Blocks
<1>3. bank \in {h, 2 * h} BY <1>1 DEF ContentBank
<1>4. PICK n \in {h, bank} : Fits(n, b) BY <1>1 DEF InItsBank
<1> HIDE DEF first, bank
<1>5. n \in Nat \ {0} /\ n \in {h, 2 * h} BY <1>1, <1>3, <1>4
<1>6. f \div n \in Int /\ f % n \in 0 .. n - 1 /\ f = n * (f \div n) + (f % n) BY <1>5, DivMod
<1>7. (f % n) + len - 1 <= n - 1
  <2>1. f % n < T \/ (f % n) + len <= n BY <1>1, <1>2, <1>4 DEF Fits, first
  <2>. QED BY <1>1, <1>2, <1>5, <1>6, <2>1
<1>8. PICK q \in Int, r \in 0 .. n - 1 : f = n * q + r /\ r + len - 1 \in 0 .. n - 1
  <2>1. (f % n) + len - 1 \in 0 .. n - 1 BY <1>2, <1>5, <1>6, <1>7
  <2>. QED BY <1>6, <2>1
<1>9. f + len - 1 = n * q + (r + len - 1)
  <2>1. PICK m \in Int : m = n * q BY <1>5
  <2>. QED BY <1>2, <1>8, <2>1
<1>10. CASE n = bank
  <2>1. f \div n = q /\ (f + len - 1) \div n = q BY <1>5, <1>8, <1>9, DivUnique
  <2>. QED BY <1>2, <1>10, <2>1 DEF first, bank
<1>11. CASE n = h /\ bank = 2 * h
  <2>1. q \div 2 \in Int /\ q % 2 \in 0 .. 1 /\ q = 2 * (q \div 2) + (q % 2) BY DivMod
  <2>2. PICK p \in Int, e \in {0, 1} : q = 2 * p + e BY <2>1
  <2>3. PICK m \in Int : m = h * p /\ (2 * h) * p = 2 * m /\ h * q = 2 * m + h * e
    <3>1. h * (2 * p + e) = 2 * (h * p) + h * e /\ (2 * h) * p = 2 * (h * p) BY <1>1, <2>2
    <3>. QED BY <1>1, <2>2, <3>1
  <2>4. h * e \in {0, h} BY <1>1, <2>2
  <2>5. PICK s \in Int, t \in Int : s = h * e + r /\ t = h * e + (r + len - 1) BY <2>4, <1>8, <1>1
  <2>6. s \in 0 .. 2 * h - 1 /\ t \in 0 .. 2 * h - 1 BY <1>1, <1>8, <1>11, <2>4, <2>5
  <2>7. f = (2 * h) * p + s /\ f + len - 1 = (2 * h) * p + t
    BY <1>1, <1>8, <1>9, <1>11, <2>3, <2>4, <2>5
  <2>8. 2 * h \in Nat \ {0} BY <1>1
  <2>9. f \div (2 * h) = p /\ (f + len - 1) \div (2 * h) = p BY <2>6, <2>7, <2>8, DivUnique
  <2>. QED BY <1>2, <1>11, <2>9 DEF first, bank
<1>. QED BY <1>3, <1>4, <1>10, <1>11

-----------------------------------------------------------------------------
(***************************************************************************)
(* Room: where no aligned block is asked for, all that a search looks at   *)
(* and all that is handed out is in the buffer.  (An alignment moves the   *)
(* position after it was compared with the end.)                           *)
(***************************************************************************)
BlockInRom(b) == b.at + TagSize + b.len <= romlen

Room ==
  /\ romlen \in 1 .. BufferEnd - HiBank
  /\ DOMAIN rom \subseteq 0 .. romlen - 1
  /\ start \in 0 .. BufferEnd - 1
  /\ answer \in {NoBlock} \cup 0 .. BufferEnd - 1
  /\ Searching => req.align = FALSE
  /\ \A p \in Nat : TagIn(rom, p) => TagEndIn(rom, p) <= romlen + TagSize
  /\ \A b \in owned : BlockInRom(b)
  /\ \A k \in DOMAIN pending : BlockInRom(pending[k])
  /\ jumped \in BOOLEAN

LEMMA Buffer ==
  /\ BufferEnd \in Nat /\ BufferEnd >= FourMeg + HiBank
  /\ \A n \in RomLens : n \in 1 .. BufferEnd - HiBank
<1>1. BufferEnd \in Nat /\ BufferEnd >= 4 * Meg + 2 * HalfBank
  BY FreespaceAssumption
<1>2. \A n \in RomLens : n \in 1 .. BufferEnd - 2 * HalfBank BY FreespaceAssumption
<1>. QED BY <1>1, <1>2 DEF FourMeg, HiBank

LEMMA RoomInit == Init => Room
<1> SUFFICES ASSUME Init PROVE Room
  OBVIOUS
<1>1. romlen \in 1 .. BufferEnd - HiBank BY Buffer DEF Init
<1>2. DOMAIN rom \subseteq 0 .. romlen - 1 BY DEF Init
<1>3. start \in 0 .. BufferEnd - 1 BY Buffer, Sizing DEF Init
<1>4. owned = {} /\ pending = << >> /\ answer = NoBlock /\ jumped = FALSE /\ ~Searching
  BY DEF Init, Searching
<1>5. answer \in {NoBlock} \cup 0 .. BufferEnd - 1 /\ jumped \in BOOLEAN BY <1>4
<1>6. (\A b \in owned : BlockInRom(b)) /\ (\A k \in DOMAIN pending : BlockInRom(pending[k])) BY <1>4
<1>7. \A p \in Nat : TagIn(rom, p) => TagEndIn(rom, p) <= romlen + TagSize BY NoTagsYet
<1>. QED BY <1>1, <1>2, <1>3, <1>4, <1>5, <1>6, <1>7, Zenon DEF Room

\* Where a range that is asked for without an alignment begins and ends.
LEMMA RangeRoom ==
  ASSUME NEW m, NEW r, r.align = FALSE, NEW len \in 1 .. BufferEnd - HiBank,
         NEW s \in Seq(RangeFor(m, r, len))
  PROVE  /\ (IF s = << >> THEN 0 ELSE Head(s).from) \in 0 .. BufferEnd - 1
         /\ s # << >> => Head(s).to <= len /\ Head(s).align = 0
<1>1. CASE s = << >> BY <1>1, Buffer, Sizing
<1>2. CASE s # << >>
  <2>1. Head(s) \in RangeFor(m, r, len) BY <1>2
  <2>2. PICK x : x = Head(s) OBVIOUS
  <2>3. x \in TryRanges /\ x.to <= len /\ (x.from < len \/ x.from <= TwoMeg) /\ x.align = 0
    BY <2>1, <2>2, Zenon DEF RangeFor
  <2>4. x.from \in Nat BY <2>3 DEF TryRanges
  <2>5. x.from \in 0 .. BufferEnd - 1 BY <2>3, <2>4, Buffer, Sizing
  <2>. QED BY <1>2, <2>2, <2>3, <2>5
<1>. QED BY <1>1, <1>2

\* What a turn of the loop looks at is in the ROM.
LEMMA LoopRoom ==
  ASSUME Types, Room, InLoop
  PROVE  /\ Searching /\ ranges # << >> /\ Align = 0 /\ Spot = start
         /\ start \in Nat /\ req.size \in Nat \ {0} /\ start + TagSize + req.size <= romlen
<1>1. Searching /\ ranges # << >> /\ start + TagSize + req.size <= Head(ranges).to BY DEF InLoop
<1>2. ranges \in Seq(RangeFor(mapper, req, romlen)) BY <1>1 DEF Types
<1>3. req.align = FALSE /\ romlen \in 1 .. BufferEnd - HiBank BY <1>1 DEF Room
<1>4. Head(ranges).to <= romlen /\ Align = 0 BY <1>1, <1>2, <1>3, RangeRoom DEF Align
<1>5. req.size \in Nat \ {0} /\ Head(ranges) \in RangeFor(mapper, req, romlen) BY <1>1, FirstRange
<1>6. Head(ranges).to \in Int
  <2>1. Head(ranges) \in TryRanges BY <1>5, Zenon DEF RangeFor
  <2>. QED BY <2>1 DEF TryRanges
<1>7. start \in Nat BY DEF Types
<1>. QED BY <1>1, <1>3, <1>4, <1>5, <1>6, <1>7, Sizing DEF Spot

LEMMA RoomNext ==
  ASSUME TRUE \notin Aligns, Types, Room, [Next]_vars, Types'
  PROVE  Room'
<1>1. /\ romlen \in 1 .. BufferEnd - HiBank /\ DOMAIN rom \subseteq 0 .. romlen - 1
      /\ start \in 0 .. BufferEnd - 1 /\ answer \in {NoBlock} \cup 0 .. BufferEnd - 1
      /\ Searching => req.align = FALSE
      /\ \A p \in Nat : TagIn(rom, p) => TagEndIn(rom, p) <= romlen + TagSize
      /\ \A b \in owned : BlockInRom(b)
      /\ \A k \in DOMAIN pending : BlockInRom(pending[k])
      /\ jumped \in BOOLEAN
  BY Zenon DEF Room
<1>2. /\ mapper \in Mappers /\ IsRom(rom) /\ IsRom(rom') /\ owned \subseteq Blocks /\ pending \in Seq(Blocks)
  BY FreespaceAssumption DEF Types
<1>3. jumped' \in BOOLEAN
  <2>1. jumped' = jumped \/ jumped' = (jumped \/ LooksInside')
    BY Zenon DEF Next, Turn, Request, RoundToBank, SkipTagged, SkipUsed, Take, RangeExhausted, Expand,
       NothingFound, Autoclean, BeginPass2, WriteBlock, NextPatch, Noted, NotedIfAligned, vars
  <2>. QED BY <1>1, <2>1, Zenon
\* The ROM and the blocks are what they were.
<1>4. ASSUME UNCHANGED <<rom, romlen, owned, pending>>,
             start' \in 0 .. BufferEnd - 1, answer' \in {NoBlock} \cup 0 .. BufferEnd - 1,
             Searching' => req'.align = FALSE
      PROVE  Room'
  <2>1. rom' = rom /\ romlen' = romlen /\ owned' = owned /\ pending' = pending BY <1>4
  <2>2. \A b : BlockInRom(b)' <=> BlockInRom(b) BY <2>1 DEF BlockInRom
  <2>3. \A k \in DOMAIN pending' : BlockInRom(pending[k])' BY <1>1, <2>1 DEF BlockInRom
  <2>. QED BY <1>1, <1>3, <1>4, <2>1, <2>2, <2>3, Zenon DEF Room
\* A list of ranges is begun.
<1>5. ASSUME Searching', req'.align = FALSE, romlen' \in 1 .. BufferEnd - HiBank,
             start' = IF ranges' = << >> THEN 0 ELSE Head(ranges').from
      PROVE  start' \in 0 .. BufferEnd - 1
  <2>1. ranges' \in Seq(RangeFor(mapper', req', romlen')) BY <1>5, Zenon DEF Types
  <2>. QED BY <1>5, <2>1, RangeRoom
<1>6. CASE Request
  <2>1. UNCHANGED <<rom, romlen, owned, pending>> /\ ~Searching BY <1>6 DEF Request
  <2>2. PICK size \in Sizes, code \in Codes, align \in Aligns :
          \/ answer' \in {ZeroPos, NoBlock} /\ UNCHANGED <<req, ranges, start>>
          \/ /\ req' = [size |-> size, code |-> code, align |-> align, expand |-> TRUE]
             /\ start' = IF ranges' = << >> THEN 0 ELSE Head(ranges').from
             /\ UNCHANGED answer
    <3>1. PICK size \in Sizes, code \in Codes, align \in Aligns :
            \/ answer' = (IF size = 0 THEN ZeroPos ELSE NoBlock) /\ UNCHANGED <<req, ranges, start>>
            \/ /\ req' = [size |-> size, code |-> code, align |-> align, expand |-> TRUE]
               /\ start' = IF ranges' = << >> THEN 0 ELSE Head(ranges').from
               /\ UNCHANGED answer
      BY <1>6, Zenon DEF Request
    <3>2. (IF size = 0 THEN ZeroPos ELSE NoBlock) \in {ZeroPos, NoBlock} OBVIOUS
    <3>. QED BY <3>1, <3>2, Zenon
  <2>3. CASE answer' \in {ZeroPos, NoBlock} /\ UNCHANGED <<req, ranges, start>>
    <3>1. ZeroPos \in 0 .. BufferEnd - 1
      <4>1. ZeroPos \in 0 .. Half - 1 BY FreespaceAssumption
      <4>. QED BY <4>1, Buffer, Sizing
    <3>2. ~Searching' /\ start' = start BY <2>1, <2>3 DEF Searching
    <3>. QED BY <1>1, <1>4, <2>1, <2>3, <3>1, <3>2
  <2>4. CASE /\ req' = [size |-> size, code |-> code, align |-> align, expand |-> TRUE]
             /\ start' = IF ranges' = << >> THEN 0 ELSE Head(ranges').from
             /\ UNCHANGED answer
    <3>1. align = FALSE
      <4>1. Aligns \subseteq BOOLEAN BY FreespaceAssumption
      <4>. QED BY <4>1, Zenon
    <3>2. req'.align = FALSE BY <2>4, <3>1
    <3>3. Searching'
      <4>1. DOMAIN [size |-> size, code |-> code, align |-> align, expand |-> TRUE] # DOMAIN None
        BY DEF None
      <4>. QED BY <2>4, <4>1 DEF Searching
    <3>4. start' \in 0 .. BufferEnd - 1 BY <1>1, <1>5, <2>1, <2>4, <3>2, <3>3
    <3>. QED BY <1>1, <1>4, <2>1, <2>4, <3>2, <3>4
  <2>. QED BY <2>2, <2>3, <2>4
<1>7. CASE RoundToBank
  <2>1. InLoop /\ start' = start - (start % Bank) + Bank - TagSize BY <1>7 DEF RoundToBank, Advance
  <2>2. UNCHANGED <<rom, romlen, owned, pending, req, answer>> BY <1>7 DEF RoundToBank, Advance
  <2>3. PICK n \in {HalfBank, HiBank} : n = Bank BY <2>1, LoopRoom, FirstRange
  <2>4. PICK s \in Int : s = start' /\ s \in Nat /\ s <= start + n - TagSize
    <3>1. start \in Nat BY DEF Types
    <3>2. start - (start % n) + n - TagSize \in Nat /\ start - (start % n) + n - TagSize <= start + n - TagSize
      BY <3>1, Rounded
    <3>. QED BY <2>1, <2>3, <3>2
  <2>5. start \in Nat /\ req.size \in Nat /\ start + TagSize + req.size <= romlen BY <2>1, LoopRoom
  <2>6. s \in 0 .. BufferEnd - 1 BY <1>1, <2>3, <2>4, <2>5, Buffer, Sizing
  <2>. QED BY <1>1, <1>4, <2>2, <2>4, <2>6 DEF Searching
<1>8. CASE SkipTagged
  <2>1. InLoop /\ TagIn(rom, Spot) BY <1>8 DEF SkipTagged, TagIn, TagLenAt
  <2>2. UNCHANGED <<rom, romlen, owned, pending, req, answer>> BY <1>8 DEF SkipTagged, Advance
  <2>3. start' \in Nat /\ start' = TagEndIn(rom, Spot) /\ Spot \in Nat
    BY <1>8, <2>1, LoopRoom, SkipsOn, SpotPlace
  <2>4. start' <= romlen + TagSize BY <1>1, <2>1, <2>3
  <2>5. start' \in 0 .. BufferEnd - 1 BY <1>1, <2>3, <2>4, Buffer, Sizing
  <2>. QED BY <1>1, <1>4, <2>2, <2>5 DEF Searching
<1>9. CASE SkipUsed
  <2>1. InLoop BY <1>9 DEF SkipUsed
  <2>2. UNCHANGED <<rom, romlen, owned, pending, req, answer>> BY <1>9, Zenon DEF SkipUsed, Advance
  <2>3. start' \in Nat /\ start' <= Spot + TagSize + req.size BY <1>9, <2>1, LoopRoom, SkipsOn
  <2>4. Spot = start /\ start \in Nat /\ req.size \in Nat /\ start + TagSize + req.size <= romlen
    BY <2>1, LoopRoom
  <2>5. start' \in 0 .. BufferEnd - 1 BY <1>1, <2>3, <2>4, Buffer, Sizing
  <2>. QED BY <1>1, <1>4, <2>2, <2>5 DEF Searching
<1>10. ASSUME Searching, NextRange, romlen' = romlen
       PROVE  start' \in 0 .. BufferEnd - 1 /\ answer' = answer /\ req' = req
  <2>1. start' = (IF ranges' = << >> THEN 0 ELSE Head(ranges').from) /\ req' = req /\ answer' = answer
    BY <1>10, Zenon DEF NextRange
  <2>2. Searching' /\ req'.align = FALSE BY <1>1, <1>10, <2>1 DEF Searching
  <2>. QED BY <1>1, <1>5, <1>10, <2>1, <2>2
<1>11. CASE RangeExhausted
  <2>1. Searching /\ NextRange /\ UNCHANGED <<rom, romlen, owned, pending>>
    BY <1>11 DEF RangeExhausted
  <2>. QED BY <1>1, <1>4, <1>10, <2>1 DEF Searching
<1>12. CASE NothingFound
  <2>1. UNCHANGED <<rom, romlen, owned, pending>> /\ answer' = NoBlock /\ start' = 0 /\ ~Searching'
    BY <1>12 DEF NothingFound, Serve, Searching
  <2>2. 0 \in 0 .. BufferEnd - 1 BY Buffer, Sizing
  <2>. QED BY <1>4, <2>1, <2>2
<1>13. CASE BeginPass2 \/ NextPatch \/ UNCHANGED vars
  <2>1. UNCHANGED <<rom, romlen, owned, pending, req, start, answer>>
    BY <1>13 DEF BeginPass2, NextPatch, vars, program
  <2>. QED BY <1>1, <1>4, <2>1 DEF Searching
<1>14. CASE Take
  <2>1. /\ InLoop /\ rom' = WithTag(rom, Spot, req.size) /\ romlen' = romlen
    BY <1>14 DEF Take
  <2>2. PICK at \in Nat, n \in Nat \ {0} : at = Spot /\ n = req.size /\ at + TagSize + n <= romlen
    BY <2>1, LoopRoom
  <2>3. /\ DOMAIN rom' = DOMAIN rom \cup at .. at + TagSize - 1
        /\ TagLenIn(rom', at) = n
        /\ \A p \in Nat \ {at} :
             IF (p .. p + TagSize - 1) \cap (at .. at + TagSize - 1) = {}
             THEN TagLenIn(rom', p) = TagLenIn(rom, p) ELSE ~TagIn(rom', p)
    <3>1. StoredLen(n) = n BY DEF StoredLen
    <3>2. rom' = WithTag(rom, at, n) BY <2>1, <2>2
    <3>. QED BY <1>2, <3>1, <3>2, WithTagTags
  <2>4. DOMAIN rom' \subseteq 0 .. romlen' - 1 BY <1>1, <2>1, <2>2, <2>3, Sizing
  <2>5. ASSUME NEW p \in Nat, TagIn(rom', p) PROVE TagEndIn(rom', p) <= romlen' + TagSize
    <3>1. CASE p = at BY <1>1, <2>1, <2>2, <2>3, <3>1, Sizing DEF TagEndIn
    <3>2. CASE p # at
      <4>1. TagLenIn(rom', p) = TagLenIn(rom, p) BY <2>3, <2>5, <3>2, Zenon
      <4>2. TagIn(rom, p) /\ TagEndIn(rom', p) = TagEndIn(rom, p)
        BY <2>5, <4>1, Zenon DEF TagIn, TagEndIn
      <4>. QED BY <1>1, <2>1, <4>2
    <3>. QED BY <3>1, <3>2
  <2>6. \A b : BlockInRom(b)' <=> BlockInRom(b) BY <2>1 DEF BlockInRom
  <2> DEFINE b == [at |-> at, len |-> n]
  <2>7. BlockInRom(b) BY <2>2 DEF BlockInRom
  <2>8. CASE Head(ranges).used
    <3>1. owned' = owned \cup {b} /\ pending' = Append(pending, b) /\ Serve(at + TagSize)
      BY <1>14, <2>2, <2>8, Zenon DEF Take
    <3> HIDE DEF b
    <3>2. \A c \in owned' : BlockInRom(c)' BY <1>1, <2>6, <2>7, <3>1
    <3>3. \A k \in DOMAIN pending' : BlockInRom(pending[k])'
      <4>1. PICK l \in Nat : l = Len(pending) BY <1>2
      <4>2. /\ DOMAIN pending = 1 .. l /\ DOMAIN pending' = 1 .. l + 1
            /\ \A k \in 1 .. l : pending'[k] = pending[k]
            /\ pending'[l + 1] = b
        BY <1>2, <3>1, <4>1
      <4>3. \A k \in 1 .. l + 1 : k \in 1 .. l \/ k = l + 1 OBVIOUS
      <4>4. \A k \in DOMAIN pending' : BlockInRom(pending'[k])
        BY <1>1, <2>7, <4>2, <4>3
      <4>. QED BY <2>1, <4>4 DEF BlockInRom
    <3>4. answer' \in 0 .. BufferEnd - 1
      <4>1. answer' = at + TagSize BY <3>1 DEF Serve
      <4>. QED BY <1>1, <2>2, <4>1, Buffer, Sizing
    <3>5. start' \in 0 .. BufferEnd - 1 /\ ~Searching'
      <4>1. start' = 0 /\ req' = None BY <3>1 DEF Serve
      <4>. QED BY <4>1, Buffer, Sizing DEF Searching
    <3>6. answer' \in {NoBlock} \cup 0 .. BufferEnd - 1 /\ romlen' \in 1 .. BufferEnd - HiBank
      BY <1>1, <2>1, <3>4
    <3>. QED BY <1>3, <2>4, <2>5, <3>2, <3>3, <3>5, <3>6, Zenon DEF Room
  <2>9. CASE ~Head(ranges).used
    <3>1. NextRange /\ owned' = owned /\ pending' = pending BY <1>14, <2>9, Zenon DEF Take
    <3>2. start' \in 0 .. BufferEnd - 1 /\ answer' = answer /\ req' = req /\ (Searching' => req'.align = FALSE)
      BY <1>1, <1>10, <2>1, <3>1 DEF InLoop, Searching
    <3>3. \A c \in owned' : BlockInRom(c)' BY <1>1, <2>6, <3>1
    <3>4. \A k \in DOMAIN pending' : BlockInRom(pending[k])' BY <1>1, <2>1, <3>1 DEF BlockInRom
    <3>5. answer' \in {NoBlock} \cup 0 .. BufferEnd - 1 /\ romlen' \in 1 .. BufferEnd - HiBank
      BY <1>1, <2>1, <3>2
    <3>. QED BY <1>3, <2>4, <2>5, <3>2, <3>3, <3>4, <3>5, Zenon DEF Room
  <2>. QED BY <2>8, <2>9
<1>15. CASE Expand
  <2>1. /\ Searching /\ ExpandedLen(req, romlen) # 0 /\ romlen' = ExpandedLen(req, romlen)
        /\ rom' = Written(rom, HeaderPos, HeaderPos, Data)
        /\ req' = [req EXCEPT !.expand = FALSE]
        /\ start' = IF ranges' = << >> THEN 0 ELSE Head(ranges').from
        /\ answer' = answer /\ owned' = owned /\ pending' = pending
    BY <1>15, Zenon DEF Expand
  <2>2. /\ romlen' \in Nat /\ romlen <= romlen' /\ Meg <= romlen' /\ romlen' <= FourMeg
    <3>1. romlen \in Nat BY DEF Types
    <3>. QED BY <1>2, <2>1, <3>1, Expansion
  <2>3. romlen' \in 1 .. BufferEnd - HiBank BY <2>2, Buffer, Sizing
  <2>4. /\ DOMAIN rom' = DOMAIN rom \cup HeaderPos .. HeaderPos
        /\ \A p \in Nat : IF (p .. p + TagSize - 1) \cap (HeaderPos .. HeaderPos) = {}
                          THEN TagLenIn(rom', p) = TagLenIn(rom, p) ELSE ~TagIn(rom', p)
    <3>1. HeaderPos \in Nat /\ HeaderPos \in Int BY Sizing
    <3>. QED BY <1>2, <2>1, <3>1, WrittenTags
  <2>5. DOMAIN rom' \subseteq 0 .. romlen' - 1 BY <1>1, <2>2, <2>4, Sizing
  <2>6. ASSUME NEW p \in Nat, TagIn(rom', p) PROVE TagEndIn(rom', p) <= romlen' + TagSize
    <3>1. TagLenIn(rom', p) = TagLenIn(rom, p) BY <2>4, <2>6, Zenon
    <3>2. TagIn(rom, p) /\ TagEndIn(rom', p) = TagEndIn(rom, p) BY <2>6, <3>1, Zenon DEF TagIn, TagEndIn
    <3>3. TagEndIn(rom, p) \in Nat BY <1>2, <3>2, TagInUse
    <3>. QED BY <1>1, <2>2, <3>2, <3>3, Sizing
  <2>7. req.align = FALSE /\ req \in Requests BY <1>1, <2>1 DEF Types, Searching
  <2>8. req'.align = FALSE BY <2>1, <2>7 DEF Requests
  <2>9. Searching'
    <3>1. DOMAIN req' = {"size", "code", "align", "expand"} /\ DOMAIN None = {"size"}
      BY <2>1, <2>7 DEF Requests, None
    <3>. QED BY <3>1 DEF Searching
  <2>10. start' \in 0 .. BufferEnd - 1 BY <1>5, <2>1, <2>3, <2>8, <2>9
  <2>11. ASSUME NEW b \in Blocks, BlockInRom(b) PROVE b.at + TagSize + b.len <= romlen'
    <3>1. b.at \in Nat /\ b.len \in Nat BY DEF Blocks
    <3>. QED BY <1>1, <2>2, <2>11, <3>1, Sizing DEF BlockInRom
  <2>12. \A b \in owned' : BlockInRom(b)' BY <1>1, <1>2, <2>1, <2>11 DEF BlockInRom
  <2>13. \A k \in DOMAIN pending' : BlockInRom(pending[k])' BY <1>1, <1>2, <2>1, <2>11 DEF BlockInRom
  <2>. QED BY <1>1, <1>3, <2>1, <2>3, <2>5, <2>6, <2>8, <2>10, <2>12, <2>13, Zenon DEF Room
<1>16. CASE Autoclean
  <2>1. PICK b \in owned : rom' = Removed(b.at + TagSize) /\ owned' = owned \ {b}
    BY <1>16, Zenon DEF Autoclean
  <2>2. /\ UNCHANGED <<romlen, req, ranges, start, answer, pending>> /\ ~Searching
    BY <1>16 DEF Autoclean
  <2>3. b.at + TagSize \in Nat BY <1>2, Sizing DEF Blocks
  <2>4. /\ DOMAIN rom' \subseteq DOMAIN rom
        /\ \A q \in Nat : TagIn(rom', q) => TagIn(rom, q) /\ TagLenIn(rom', q) = TagLenIn(rom, q)
    BY <1>2, <2>1, <2>3, BlockRemoved
  <2>5. \A p \in Nat : TagIn(rom', p) => TagEndIn(rom', p) <= romlen' + TagSize
    BY <1>1, <2>2, <2>4 DEF TagEndIn
  <2>6. \A c \in owned' : BlockInRom(c)' BY <1>1, <2>1, <2>2 DEF BlockInRom
  <2>7. \A k \in DOMAIN pending' : BlockInRom(pending[k])' BY <1>1, <2>2 DEF BlockInRom
  <2>8. ~Searching' /\ DOMAIN rom' \subseteq 0 .. romlen' - 1 BY <1>1, <2>2, <2>4 DEF Searching
  <2>9. romlen' = romlen /\ start' = start /\ answer' = answer BY <2>2
  <2>. QED BY <1>1, <1>3, <2>5, <2>6, <2>7, <2>8, <2>9, Zenon DEF Room
<1>17. CASE WriteBlock
  <2>1. PICK n, at, pc :
          /\ n \in {Head(pending).len, Head(pending).len - 1} /\ n >= 0
          /\ at = Head(pending).at /\ pc = at + TagSize
          /\ rom' = Written(Resized(pc, n), pc, pc + n - 1, Data)
          /\ romlen' = IF n > 0 /\ pc + n > romlen THEN pc + n ELSE romlen
          /\ owned' = (owned \ {Head(pending)}) \cup {[Head(pending) EXCEPT !.len = StoredLen(n)]}
    BY <1>17, WriteBlockIs
  <2>2. /\ UNCHANGED <<req, start, answer>> /\ pass = 2 /\ pending # << >> /\ pending' = Tail(pending)
    BY <1>17, WriteBlockIs
  <2>3. PICK l \in Nat : l = Len(pending) /\ l # 0 /\ DOMAIN pending = 1 .. l BY <1>2, <2>2
  <2>4. PICK b \in Blocks : b = Head(pending) /\ b = pending[1] BY <1>2, <2>2, <2>3
  <2>5. b.at \in Nat /\ b.len \in Nat \ {0} /\ b.at + TagSize + b.len <= romlen
    <3>1. BlockInRom(b) BY <1>1, <2>3, <2>4
    <3>. QED BY <3>1 DEF Blocks, BlockInRom
  <2>6. n \in Nat /\ n <= b.len /\ at \in Nat /\ pc \in Nat /\ pc = b.at + TagSize /\ pc + b.len <= romlen
    <3>1. n \in {b.len, b.len - 1} /\ n >= 0 /\ at = b.at /\ pc = at + TagSize BY <2>1, <2>4, Zenon
    <3>. QED BY <2>5, <3>1, Sizing
  <2>7. romlen' = romlen
    <3>1. ~(pc + n > romlen) BY <1>1, <2>5, <2>6
    <3>. QED BY <2>1, <3>1, Zenon
  <2>8. /\ DOMAIN rom' = DOMAIN rom \cup pc .. pc + n - 1
        /\ \A q \in Nat : TagIn(rom', q) => TagIn(rom, q)
        /\ \A q \in Nat : TagIn(rom', q) =>
             \/ TagLenIn(rom', q) = TagLenIn(rom, q)
             \/ q <= pc /\ TagLenIn(rom', q) = StoredLen(n)
    BY <1>2, <2>1, <2>6, BlockWritten, ZenonT(60)
  <2>9. DOMAIN rom' \subseteq 0 .. romlen' - 1 BY <1>1, <2>5, <2>6, <2>7, <2>8
  <2>10. StoredLen(n) \in Nat \ {0} /\ StoredLen(n) <= b.len BY <2>5, <2>6 DEF StoredLen
  <2>11. ASSUME NEW p \in Nat, TagIn(rom', p) PROVE TagEndIn(rom', p) <= romlen' + TagSize
    <3>1. CASE TagLenIn(rom', p) = TagLenIn(rom, p)
      <4>1. TagIn(rom, p) /\ TagEndIn(rom', p) = TagEndIn(rom, p)
        BY <2>11, <3>1, Zenon DEF TagIn, TagEndIn
      <4>. QED BY <1>1, <2>7, <4>1
    <3>2. CASE p <= pc /\ TagLenIn(rom', p) = StoredLen(n)
      <4>1. TagEndIn(rom', p) = p + TagSize + StoredLen(n) BY <3>2 DEF TagEndIn
      <4>. QED BY <1>1, <2>5, <2>6, <2>7, <2>10, <3>2, <4>1, Sizing
    <3>. QED BY <2>8, <2>11, <3>1, <3>2
  <2>12. \A c : BlockInRom(c)' <=> BlockInRom(c) BY <2>7 DEF BlockInRom
  <2>13. \A c \in owned' : BlockInRom(c)'
    <3> DEFINE c == [b EXCEPT !.len = StoredLen(n)]
    <3>1. c.at = b.at /\ c.len = StoredLen(n) BY DEF Blocks
    <3>2. owned' = (owned \ {b}) \cup {c} BY <2>1, <2>4
    <3> HIDE DEF c
    <3>3. BlockInRom(c) BY <1>1, <2>5, <2>6, <2>10, <3>1, Sizing DEF BlockInRom
    <3>. QED BY <1>1, <2>12, <3>2, <3>3
  <2>14. \A k \in DOMAIN pending' : BlockInRom(pending[k])'
    <3>1. /\ DOMAIN pending' = 1 .. l - 1
          /\ \A k \in 1 .. l - 1 : pending'[k] = pending[k + 1]
      BY <1>2, <2>2, <2>3
    <3>2. \A k \in 1 .. l - 1 : k + 1 \in 1 .. l BY <2>3
    <3>3. \A k \in DOMAIN pending' : BlockInRom(pending'[k]) BY <1>1, <2>3, <3>1, <3>2
    <3>. QED BY <2>7, <3>3 DEF BlockInRom
  <2>15. ~Searching' BY <2>2 DEF Types, Searching
  <2>16. start' = start /\ answer' = answer BY <2>2
  <2>. QED BY <1>1, <1>3, <2>7, <2>9, <2>11, <2>13, <2>14, <2>15, <2>16, Zenon DEF Room
<1>. QED
  BY <1>6, <1>7, <1>8, <1>9, <1>11, <1>12, <1>13, <1>14, <1>15, <1>16, <1>17 DEF Next, Turn

-----------------------------------------------------------------------------
(***************************************************************************)
(* The theorems                                                            *)
(***************************************************************************)
Inv == Types /\ SearchFloor /\ TagFloor /\ SafeInv /\ BankInv

LEMMA InvAlways == Spec => []Inv
<1>1. Init => Inv BY TypesInit, FloorsInit, SafeInit, BankInit DEF Inv
<1>2. Inv /\ [Next]_vars => Inv'
  <2> SUFFICES ASSUME Inv, [Next]_vars PROVE Inv'
    OBVIOUS
  <2>1. Types /\ SearchFloor /\ TagFloor /\ SafeInv /\ BankInv BY DEF Inv
  <2>2. Types' BY <2>1, TypesNext
  <2>3. SearchFloor' BY <2>1, <2>2, SearchFloorNext
  <2>4. TagFloor' BY <2>1, TagFloorNext
  <2>5. SafeInv' BY <2>1, SafeNext
  <2>6. BankInv' BY <2>1, BankNext
  <2>. QED BY <2>2, <2>3, <2>4, <2>5, <2>6 DEF Inv
<1>. QED BY <1>1, <1>2, PTL DEF Spec

(***************************************************************************)
(* The types hold where no aligned block is asked for: nothing is looked   *)
(* at, answered or written outside of the buffer.                          *)
(***************************************************************************)
THEOREM TypeCorrect ==
  ASSUME TRUE \notin Aligns
  PROVE  Spec => []TypeOK
<1>1. Init => Types /\ Room BY TypesInit, RoomInit
<1>2. Types /\ Room /\ [Next]_vars => (Types /\ Room)' BY TypesNext, RoomNext
<1>3. Types /\ Room => TypeOK
  <2> SUFFICES ASSUME Types, Room PROVE TypeOK
    OBVIOUS
  <2>1. /\ mapper \in MappersUsed /\ pass \in {1, 2} /\ patch \in 1 .. MaxPatches
        /\ asked \in 0 .. MaxRequests /\ (req = None \/ req \in Requests)
        /\ owned \subseteq Blocks /\ pending \in Seq(Blocks)
    BY DEF Types
  <2>2. /\ romlen \in 1 .. BufferEnd - HiBank /\ DOMAIN rom \subseteq 0 .. romlen - 1
        /\ start \in 0 .. BufferEnd - 1 /\ answer \in {NoBlock} \cup 0 .. BufferEnd - 1
        /\ jumped \in BOOLEAN
    BY Zenon DEF Room
  <2>3. romlen \in 1 .. BufferEnd /\ DOMAIN rom \subseteq 0 .. BufferEnd - 1
    BY <2>2, Buffer, Sizing
  <2>4. req = None \/ req \in [size : Sizes, code : BOOLEAN, align : BOOLEAN, expand : BOOLEAN]
    BY <2>1 DEF Requests
  <2>5. Blocks \subseteq Block BY DEF Blocks, Block
  <2>6. owned \subseteq Block /\ pending \in Seq(Block) BY <2>1, <2>5
  <2>. QED BY <2>1, <2>2, <2>3, <2>4, <2>6, Zenon DEF TypeOK
<1>. QED BY <1>1, <1>2, <1>3, PTL DEF Spec

(***************************************************************************)
(* Unless a search has come to look inside of a block, no two blocks that  *)
(* trypcfreespace handed out overlap.                                      *)
(***************************************************************************)
THEOREM BlocksApart == Spec => []DisjointUnlessJumped
<1>1. Inv => DisjointUnlessJumped
  <2> SUFFICES ASSUME Inv, ~jumped, NEW b \in owned, NEW c \in owned, b # c
               PROVE  Extent(b) \cap Extent(c) = {}
    BY Zenon DEF DisjointUnlessJumped, OwnedDisjoint
  <2>1. /\ IsRom(rom) /\ owned \subseteq Blocks /\ Apart(rom) /\ OneEach
        /\ \A d \in owned : Guards(rom, d)
    BY Zenon DEF Inv, Types, SafeInv
  <2>2. /\ b \in Blocks /\ c \in Blocks /\ b.at # c.at /\ b.at \in Nat /\ c.at \in Nat
        /\ b.len \in Nat /\ c.len \in Nat
    BY <2>1 DEF OneEach, Blocks
  <2>3. /\ TagIn(rom, b.at) /\ TagLenIn(rom, b.at) \in Nat /\ TagLenIn(rom, b.at) >= b.len
        /\ TagIn(rom, c.at) /\ TagLenIn(rom, c.at) \in Nat /\ TagLenIn(rom, c.at) >= c.len
    BY <2>1, <2>2, OwnTag
  <2>4. b.at < c.at => b.at + TagSize + b.len <= c.at
    <3>1. b.at < c.at => TagEndIn(rom, b.at) <= c.at BY <2>1, <2>2, <2>3 DEF Apart
    <3>. QED BY <2>2, <2>3, <3>1, Sizing DEF TagEndIn
  <2>5. c.at < b.at => c.at + TagSize + c.len <= b.at
    <3>1. c.at < b.at => TagEndIn(rom, c.at) <= b.at BY <2>1, <2>2, <2>3 DEF Apart
    <3>. QED BY <2>2, <2>3, <3>1, Sizing DEF TagEndIn
  <2>. QED BY <2>2, <2>4, <2>5, Sizing DEF Extent
<1>. QED BY <1>1, InvAlways, PTL

(***************************************************************************)
(* Unless a search has come to look inside of a block, every block that    *)
(* was handed out and not removed has its tag, with its length.            *)
(***************************************************************************)
THEOREM BlocksProtected == Spec => []ProtectedUnlessJumped
<1>1. Inv => ProtectedUnlessJumped
  <2> SUFFICES ASSUME Inv, ~jumped, NEW b \in owned
               PROVE  IF Seen(b.at) THEN TagLenAt(b.at) = StoredLen(b.len)
                      ELSE TagLenAt(b.at) >= StoredLen(b.len)
    BY Zenon DEF ProtectedUnlessJumped
  <2>1. owned \subseteq Blocks /\ Guards(rom, b) BY Zenon DEF Inv, Types, SafeInv
  <2>2. StoredLen(b.len) = b.len BY <2>1 DEF StoredLen, Blocks
  <2>. QED BY <2>1, <2>2, Zenon DEF Guards, TagLenAt
<1>. QED BY <1>1, InvAlways, PTL

(***************************************************************************)
(* Unless a search has come to look inside of a block, and but for         *)
(* ExLoROM, every tag that ratsstart can see is that of a block.           *)
(***************************************************************************)
THEOREM NoTagLeaks == Spec => []NoLeakUnlessJumped
<1>1. Inv => NoLeakUnlessJumped
  <2> SUFFICES ASSUME Inv, ~jumped, mapper # "exlorom", NEW p \in DOMAIN rom, Seen(p),
                      TagLenAt(p) # NoBlock
               PROVE  \E b \in owned : b.at = p
    BY Zenon DEF NoLeakUnlessJumped
  <2>1. IsRom(rom) /\ TagsOwned BY Zenon DEF Inv, Types, SafeInv
  <2>2. p \in Nat /\ TagIn(rom, p) BY <2>1 DEF IsRom, TagIn, TagLenAt
  <2>. QED BY <2>1, <2>2 DEF TagsOwned
<1>. QED BY <1>1, InvAlways, PTL

(***************************************************************************)
(* Contents do not cross from one bank into another, unless they are as    *)
(* long as the bank less a tag.                                            *)
(***************************************************************************)
THEOREM OneBank == Spec => []ContentInOneBank
<1>1. Inv => ContentInOneBank
  <2> SUFFICES ASSUME Inv, NEW b \in owned, b.len <= HalfBank - TagSize + 1
               PROVE  LET first == b.at + TagSize
                          bank == ContentBank(first)
                      IN  first \div bank = (first + b.len - 1) \div bank
    BY DEF ContentInOneBank
  <2>1. b \in Blocks /\ InItsBank(b) BY DEF Inv, Types, BankInv
  <2>. QED BY <2>1, FitsInOne
<1>. QED BY <1>1, InvAlways, PTL
=============================================================================
