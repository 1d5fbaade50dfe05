------------------------------ MODULE Freespace -----------------------------
(***************************************************************************)
(* The freespace finder and the RATS tags that protect what it hands out.  *)
(*                                                                         *)
(* Freespace is found by content: bytes that hold the freespace byte are   *)
(* free, unless a RATS tag before them says that they are not.  Between    *)
(* pass 1, which allocates, and pass 2, which writes, a block's tag is all *)
(* that tells it from free space.  The finder's loop is one action per     *)
(* turn; what is done to a block afterwards (resized and written by pass   *)
(* 2, removed by an autoclean of a later patch) are actions of their own.  *)
(*                                                                         *)
(* A byte of the ROM is free (the freespace byte, and not in the domain of *)
(* rom), data, or one byte of a tag: TagSize bytes, the first half "STAR", *)
(* the second half the length.  Masks are arithmetic on bank sizes.        *)
(***************************************************************************)
EXTENDS Integers, Sequences, Functions

CONSTANTS
  HalfBank,    \* bytes in a LoROM bank ($8000)
  TagSize,     \* bytes in a RATS tag (8)
  Half,        \* $80000: the original game, which is left alone
  Meg,         \* $100000
  BufferEnd,   \* bytes in the romdata buffer (16 megabytes), longer than the ROM
  HeaderPos,   \* $7FD7, the byte that gives the ROM size
  ZeroPos,     \* $1234
  MappersUsed, \* the mappers that may be in use
  RomLens,     \* ROM lengths a patch may start with
  UsedBytes,   \* sets of ROM bytes that may be in use from the start
  Sizes,       \* lengths that are asked for
  Codes,       \* whether code (RAM mirrors needed) or data is asked for
  Aligns,      \* whether an aligned block is asked for
  MaxRequests, \* bound on the requests of a behaviour
  MaxPatches   \* bound on its patches

Mappers == {"lorom", "hirom", "exlorom", "exhirom", "sfxrom", "sa1rom", "bigsa1rom"}

ASSUME FreespaceAssumption ==
  /\ TagSize \in Nat \ {0} /\ TagSize % 2 = 0
  /\ HalfBank \in Nat \ {0} /\ HalfBank % TagSize = 0 /\ TagSize < HalfBank
  /\ Half \in Nat \ {0} /\ Half % HalfBank = 0 /\ Meg = 2 * Half
  /\ HeaderPos \in 0 .. Half - 1 /\ ZeroPos \in 0 .. Half - 1
  /\ MappersUsed \subseteq Mappers
  /\ BufferEnd \in Nat /\ BufferEnd >= 4 * Meg + 2 * HalfBank
  /\ \A n \in RomLens : n \in 1 .. BufferEnd - 2 * HalfBank
  /\ \A u \in UsedBytes : u \subseteq Nat
  /\ Sizes \subseteq Nat
  /\ Codes \subseteq BOOLEAN /\ Aligns \subseteq BOOLEAN
  /\ MaxRequests \in Nat /\ MaxPatches \in Nat \ {0}

HiBank == 2 * HalfBank
TwoMeg == 2 * Meg
FourMeg == 4 * Meg

Data == <<"data">>
TagByte(i, len) == IF i < TagSize \div 2 THEN <<"star", i>> ELSE <<"len", i, len>>

None == [size |-> -1]
NoBlock == 0 - 1

VARIABLES
  mapper,
  rom,       \* romdata, where it is not free
  romlen,
  pass,      \* 1 while freespace is asked for, 2 while it is written
  patch,     \* patches begun, for the bound
  asked,     \* requests made, for the bound
  req,       \* the request being served: the arguments of getpcfreespace
  ranges,    \* calls of trypcfreespace that remain, the one in progress first
  start,     \* the loop's position in it
  answer,    \* what the last request was answered
  owned,     \* blocks handed out and not removed: tag position and length
  pending,   \* those of them that pass 2 has not come to, in order
  jumped     \* a search has come to look inside of a block (history)

program == <<mapper, rom, romlen, pass, patch, asked, req, ranges, start, answer, owned, pending>>
vars == <<program, jumped>>

-----------------------------------------------------------------------------
(***************************************************************************)
(* RATS tags                                                               *)
(***************************************************************************)

\* A tag at p, in the ROM r, for len bytes of content.
HasTag(r, p, len) == \A i \in 0 .. TagSize - 1 : p + i \in DOMAIN r /\ r[p + i] = TagByte(i, len)

\* The length a tag at p gives, if there is a tag at all; NoBlock otherwise.
TagLenIn(r, p) ==
  LET end == p + TagSize - 1
      lens == IF end \in DOMAIN r /\ r[end][1] = "len" THEN {r[end][3]} ELSE {}
      said == { n \in lens : HasTag(r, p, n) }
  IN  IF said = {} THEN NoBlock ELSE CHOOSE n \in said : TRUE
TagLenAt(p) == TagLenIn(rom, p)

\* A tag stores the length less one, so that it cannot say zero.
StoredLen(n) == IF n = 0 THEN 1 ELSE n

Written(r, first, last, byte) ==
  [c \in DOMAIN r \cup first .. last |-> IF c \in first .. last THEN byte ELSE r[c]]
Cleared(r, first, last) == Restrict(r, DOMAIN r \ (first .. last))
WithTag(r, p, len) ==
  [c \in DOMAIN r \cup p .. p + TagSize - 1 |->
     IF c \in p .. p + TagSize - 1 THEN TagByte(c - p, StoredLen(len)) ELSE r[c]]

\* ratsstart: the nearest tag at or before pc, no further back than a HiROM
\* bank, if the content it announces reaches pc.
RatsStart(pc) ==
  LET tags == { p \in pc - HiBank .. pc : p >= 0 /\ TagLenAt(p) # NoBlock }
      near == CHOOSE p \in tags : \A q \in tags : q <= p
  IN  IF pc < Half - TagSize \/ tags = {} THEN NoBlock
      ELSE IF pc < near + TagSize + TagLenAt(near) THEN near ELSE NoBlock

\* resizerats and removerats: the tag found from pc is given the length n, or is removed
\* with its content.
Resized(pc, n) ==
  LET p == RatsStart(pc) IN IF p = NoBlock THEN rom ELSE WithTag(rom, p, n)
Removed(pc) ==
  LET p == RatsStart(pc)
  IN  IF p = NoBlock THEN rom ELSE Cleared(rom, p, p + TagSize + TagLenAt(p) - 1)

Extent(b)  == b.at .. b.at + TagSize + b.len - 1
Content(b) == b.at + TagSize .. b.at + TagSize + b.len - 1

-----------------------------------------------------------------------------
(***************************************************************************)
(* getpcfreespace: where each mapper looks, in order.                      *)
(*                                                                         *)
(* A range is a call of trypcfreespace: its bounds, the bank the content   *)
(* has to stay in, the alignment, and whether the caller uses the answer.  *)
(***************************************************************************)
Least(a, b) == IF a < b THEN a ELSE b

Try(from, to, bank, align) ==
  [from |-> from, to |-> to, bank |-> bank, align |-> align, used |-> TRUE]

LoAlign(align) == IF align THEN HalfBank ELSE 0
HiAlign(align) == IF align THEN HiBank ELSE 0

LoromRanges(r, len) ==
  (IF len > TwoMeg /\ ~r.code
   THEN << Try(TwoMeg - TagSize, Least(len, FourMeg), HalfBank, LoAlign(r.align)) >> ELSE << >>)
  \o << Try(Half, Least(len, TwoMeg), HalfBank, LoAlign(r.align)) >>

\* for (i=0x8000; i<min(len,top); i+=0xFFFF): one window of $7FFF bytes each.
HiromWindows(r, len, top) ==
  LET n == IF Least(len, top) <= HalfBank THEN 0
           ELSE (Least(len, top) - HalfBank - 1) \div (HiBank - 1) + 1
      at(k) == HalfBank + (k - 1) * (HiBank - 1)
  IN  [k \in 1 .. n |-> Try(at(k), Least(at(k) + HalfBank - 1, len), HalfBank, HiAlign(r.align))]

HiromRanges(r, len) ==
  IF r.code THEN HiromWindows(r, len, FourMeg)
  ELSE << Try(0, len, HiBank, HiAlign(r.align)) >>

ExloromRanges(r, len) ==
  (IF r.code
   THEN << [Try(0, Least(len, TwoMeg), HalfBank, LoAlign(r.align)) EXCEPT !.used = FALSE] >>
   ELSE << >>)
  \o << Try(0, len, HalfBank, LoAlign(r.align)) >>

SfxromRanges(r, len) ==
  IF ~r.code THEN << >> ELSE << Try(Half, len, HalfBank, LoAlign(r.align)) >>

\* sa1banks as they are by default: four megabytes, those with room for all of
\* their bytes.
Sa1Banks == << 0, Meg, TwoMeg, 3 * Meg >>
Sa1romRanges(r, len) ==
  [k \in 1 .. Least(Len(Sa1Banks), len \div Meg) |->
     Try(IF Sa1Banks[k] = 0 THEN Half ELSE Sa1Banks[k], Sa1Banks[k] + Meg, HalfBank, LoAlign(r.align))]

BigSa1romRanges(r, len) ==
  (IF ~r.code /\ len > FourMeg THEN << Try(FourMeg, len, HiBank, HiAlign(r.align)) >> ELSE << >>)
  \o << Try(Half, len, HalfBank, LoAlign(r.align)) >>

RangesOf(r, len) ==
  CASE mapper = "lorom"               -> LoromRanges(r, len)
    [] mapper \in {"hirom", "exhirom"} -> HiromRanges(r, len)
    [] mapper = "exlorom"             -> ExloromRanges(r, len)
    [] mapper = "sfxrom"              -> SfxromRanges(r, len)
    [] mapper = "sa1rom"              -> Sa1romRanges(r, len)
    [] mapper = "bigsa1rom"           -> BigSa1romRanges(r, len)

\* Mutant: a LoROM is doubled, however long it is.
ExpandedLen_Doubles(r, len) == IF mapper = "lorom" THEN 2 * len ELSE 0

\* The length the ROM is expanded to when nothing was found; 0 for no expansion.
ExpandedLen(r, len) ==
  CASE mapper = "lorom" /\ len = Half                              -> Meg
    [] mapper = "lorom" /\ len = Meg                               -> TwoMeg
    [] mapper = "lorom" /\ ~r.code /\ len \in {TwoMeg, 3 * Meg}    -> FourMeg
    [] mapper = "sa1rom" ->
         LET next == { b \in {Sa1Banks[k] : k \in DOMAIN Sa1Banks} : b <= len /\ b + Meg > len }
         IN  IF next = {} THEN 0 ELSE (CHOOSE b \in next : \A c \in next : c <= b) + Meg
    [] OTHER -> 0

-----------------------------------------------------------------------------
Init ==
  /\ mapper \in MappersUsed
  /\ romlen \in RomLens
  /\ \E used \in UsedBytes :
       rom = [c \in used \cap 0 .. romlen - 1 |-> Data]
  /\ pass = 1 /\ patch = 1 /\ asked = 0
  /\ req = None /\ ranges = << >> /\ start = 0 /\ answer = NoBlock
  /\ owned = {} /\ pending = << >> /\ jumped = FALSE

-----------------------------------------------------------------------------
(***************************************************************************)
(* The search                                                              *)
(***************************************************************************)
Searching == req # None
Bank == Head(ranges).bank
Align == Head(ranges).align

\* Where the block would start: with an alignment, before the start of a bank.
Spot == IF Align = 0 THEN start ELSE start - (start % Align) + Align - TagSize

(***************************************************************************)
(* Bytes of a block that is not written yet look free to a search that has *)
(* not come by the block's tag.  It has not where a range begins, where it *)
(* rounds to the end of a bank, and with an alignment: what it then looks  *)
(* at may be inside of a block, and jumped notes it.                       *)
(***************************************************************************)
Inside(p) ==
  \E q \in DOMAIN rom : TagLenAt(q) # NoBlock /\ p \in q + 1 .. q + TagSize + TagLenAt(q) - 1
LooksInside == Searching /\ ranges # << >> /\ Inside(Spot)
Noted == jumped' = (jumped \/ LooksInside')
\* Where the search goes on from what it has looked at, it does not come to be inside.
NotedIfAligned == IF Align = 0 THEN UNCHANGED jumped ELSE Noted

Request ==
  /\ pass = 1 /\ ~Searching /\ asked < MaxRequests
  /\ asked' = asked + 1
  /\ \E size \in Sizes, code \in Codes, align \in Aligns :
       LET r == [size |-> size, code |-> code, align |-> align, expand |-> TRUE] IN
       IF size = 0 \/ size > HiBank \/ (mapper = "lorom" /\ size > HalfBank)
       THEN /\ answer' = IF size = 0 THEN ZeroPos ELSE NoBlock
            /\ UNCHANGED <<req, ranges, start>>
       ELSE /\ req' = r
            /\ ranges' = RangesOf(r, romlen)
            /\ start' = IF ranges' = << >> THEN 0 ELSE Head(ranges').from
            /\ UNCHANGED answer
  /\ UNCHANGED <<mapper, rom, romlen, pass, patch, owned, pending>>
  /\ Noted

\* A turn of the loop of trypcfreespace, and what the turn looks at.
InLoop == Searching /\ ranges # << >> /\ start + TagSize + req.size <= Head(ranges).to

\* Mutant: bank borders are not respected.
Misfits_Never == FALSE

\* The contents do not fit in this bank, and the tag is not at the end of it.
Misfits ==
  /\ (start + TagSize) \div Bank # (start + TagSize + req.size - 1) \div Bank
  /\ (start % Bank) - (start % TagSize) # Bank - TagSize

UsedBytesAt(p) == { i \in 0 .. TagSize + req.size - 1 : p + i \in DOMAIN rom }
FirstUsed(p) == CHOOSE i \in UsedBytesAt(p) : \A j \in UsedBytesAt(p) : i <= j

Advance(p) ==
  /\ start' = p
  /\ UNCHANGED <<mapper, rom, romlen, pass, patch, asked, req, ranges, answer, owned, pending>>

RoundToBank ==
  /\ InLoop /\ Misfits
  /\ Advance(start - (start % Bank) + Bank - TagSize)
  /\ Noted

\* Mutant: the tag's own bytes are not skipped.
SkipTagged_Short ==
  /\ InLoop /\ ~Misfits
  /\ TagLenAt(Spot) # NoBlock
  /\ Advance(Spot + TagLenAt(Spot))
  /\ NotedIfAligned

SkipTagged ==
  /\ InLoop /\ ~Misfits
  /\ TagLenAt(Spot) # NoBlock
  /\ Advance(Spot + TagLenAt(Spot) + TagSize)
  /\ NotedIfAligned

\* Mutant: no step forward when the first byte is the one in use.
SkipUsed_Stuck ==
  /\ InLoop /\ ~Misfits
  /\ TagLenAt(Spot) = NoBlock
  /\ UsedBytesAt(Spot) # {}
  /\ Advance(Spot + FirstUsed(Spot))
  /\ NotedIfAligned

\* "fix freedata align freezing": past the tag position of a LoROM bank.
SkipUsed ==
  /\ InLoop /\ ~Misfits
  /\ TagLenAt(Spot) = NoBlock
  /\ UsedBytesAt(Spot) # {}
  /\ LET i == FirstUsed(Spot)
         jump == IF Align # 0 /\ Spot % Align = HalfBank - TagSize /\ i < TagSize THEN TagSize ELSE i
     IN  Advance(Spot + (IF jump = 0 THEN 1 ELSE jump))
  /\ NotedIfAligned

Serve(p) ==
  /\ answer' = p
  /\ req' = None /\ ranges' = << >> /\ start' = 0

\* The first range that is left, if any, becomes the one in progress.
NextRange ==
  /\ ranges' = Tail(ranges)
  /\ start' = IF Tail(ranges) = << >> THEN 0 ELSE Head(Tail(ranges)).from
  /\ UNCHANGED <<req, answer>>

Take ==
  /\ InLoop /\ ~Misfits
  /\ TagLenAt(Spot) = NoBlock
  /\ UsedBytesAt(Spot) = {}
  /\ rom' = WithTag(rom, Spot, req.size)
  /\ IF Head(ranges).used
     THEN LET b == [at |-> Spot, len |-> req.size] IN
          /\ Serve(Spot + TagSize)
          /\ owned' = owned \cup {b} /\ pending' = Append(pending, b)
     ELSE NextRange /\ UNCHANGED <<owned, pending>>
  /\ UNCHANGED <<mapper, romlen, pass, patch, asked>>
  /\ Noted

\* trypcfreespace gives up.
RangeExhausted ==
  /\ Searching /\ ranges # << >> /\ ~InLoop
  /\ NextRange
  /\ UNCHANGED <<mapper, rom, romlen, pass, patch, asked, owned, pending>>
  /\ Noted

\* All ranges were searched in vain: the ROM is expanded, once, and searched again.
Expand ==
  /\ Searching /\ ranges = << >>
  /\ req.expand /\ ExpandedLen(req, romlen) # 0
  /\ romlen' = ExpandedLen(req, romlen)
  /\ rom' = Written(rom, HeaderPos, HeaderPos, Data)
  /\ req' = [req EXCEPT !.expand = FALSE]
  /\ ranges' = RangesOf(req, romlen')
  /\ start' = IF ranges' = << >> THEN 0 ELSE Head(ranges').from
  /\ UNCHANGED <<mapper, pass, patch, asked, answer, owned, pending>>
  /\ Noted

NothingFound ==
  /\ Searching /\ ranges = << >>
  /\ ~(req.expand /\ ExpandedLen(req, romlen) # 0)
  /\ Serve(NoBlock)
  /\ UNCHANGED <<mapper, rom, romlen, pass, patch, asked, owned, pending, jumped>>

-----------------------------------------------------------------------------
(***************************************************************************)
(* What is done to a block afterwards                                      *)
(***************************************************************************)

\* Mutant: the content is cleaned, the tag is left.
Autoclean_LeavesTag ==
  /\ pass = 1 /\ ~Searching
  /\ \E b \in owned :
       LET p == RatsStart(b.at + TagSize) IN
       /\ \A k \in DOMAIN pending : pending[k] # b
       /\ rom' = IF p = NoBlock THEN rom
                 ELSE Cleared(rom, p + TagSize, p + TagSize + TagLenAt(p) - 1)
       /\ owned' = owned \ {b}
  /\ UNCHANGED <<mapper, romlen, pass, patch, asked, req, ranges, start, answer, pending, jumped>>

\* autoclean removes a block of an earlier patch, and none that pass 1 has just given out.
Autoclean ==
  /\ pass = 1 /\ ~Searching
  /\ \E b \in owned :
       /\ \A k \in DOMAIN pending : pending[k] # b
       /\ rom' = Removed(b.at + TagSize)
       /\ owned' = owned \ {b}
  /\ UNCHANGED <<mapper, romlen, pass, patch, asked, req, ranges, start, answer, pending, jumped>>

BeginPass2 ==
  /\ pass = 1 /\ ~Searching /\ pending # << >>
  /\ pass' = 2
  /\ UNCHANGED <<mapper, rom, romlen, patch, asked, req, ranges, start, answer, owned, pending, jumped>>

\* Mutant: the tag keeps the length that was asked for.
WriteBlock_NoResize ==
  /\ pass = 2 /\ pending # << >>
  /\ \E n \in {Head(pending).len, Head(pending).len - 1} :
       LET b == Head(pending)
           end == b.at + TagSize + n
       IN  /\ n >= 0
           /\ rom' = Written(rom, b.at + TagSize, end - 1, Data)
           /\ romlen' = IF n > 0 /\ end > romlen THEN end ELSE romlen
           /\ owned' = (owned \ {b}) \cup {[b EXCEPT !.len = StoredLen(n)]}
           /\ pending' = Tail(pending)
  /\ UNCHANGED <<mapper, pass, patch, asked, req, ranges, start, answer, jumped>>

\* The freespace command in pass 2: resizerats to the length measured in pass 1,
\* which is at most what was asked for, then the content.
WriteBlock ==
  /\ pass = 2 /\ pending # << >>
  /\ \E n \in {Head(pending).len, Head(pending).len - 1} :
       LET b == Head(pending)
           first == b.at + TagSize
           end == first + n
       IN  /\ n >= 0
           /\ rom' = Written(Resized(first, n), first, first + n - 1, Data)
           /\ romlen' = IF n > 0 /\ end > romlen THEN end ELSE romlen
           /\ owned' = (owned \ {b}) \cup {[b EXCEPT !.len = StoredLen(n)]}
           /\ pending' = Tail(pending)
  /\ UNCHANGED <<mapper, pass, patch, asked, req, ranges, start, answer, jumped>>

NextPatch ==
  /\ pass = 2 /\ pending = << >> /\ patch < MaxPatches
  /\ pass' = 1 /\ patch' = patch + 1
  /\ UNCHANGED <<mapper, rom, romlen, asked, req, ranges, start, answer, owned, pending, jumped>>

Turn == RoundToBank \/ SkipTagged \/ SkipUsed \/ Take \/ RangeExhausted \/ Expand \/ NothingFound

Next == Request \/ Turn \/ Autoclean \/ BeginPass2 \/ WriteBlock \/ NextPatch

\* The finder is an ordinary loop: once entered, it goes on turning.
Spec == Init /\ [][Next]_vars /\ WF_vars(Turn)

-----------------------------------------------------------------------------
Block == [at : Nat, len : Nat]

TypeOK ==
  /\ mapper \in MappersUsed
  /\ DOMAIN rom \subseteq 0 .. BufferEnd - 1
  /\ romlen \in 1 .. BufferEnd /\ pass \in {1, 2}
  /\ patch \in 1 .. MaxPatches /\ asked \in 0 .. MaxRequests
  /\ req = None \/ req \in [size : Sizes, code : BOOLEAN, align : BOOLEAN, expand : BOOLEAN]
  /\ start \in 0 .. BufferEnd - 1 /\ answer \in {NoBlock} \cup 0 .. BufferEnd - 1
  /\ owned \subseteq Block /\ pending \in Seq(Block)
  /\ jumped \in BOOLEAN

(***************************************************************************)
(* No two blocks handed out overlap, tags included, although until pass 2  *)
(* a block is indistinguishable from free space but for its tag: not so of *)
(* every ROM (see freespace_overlap), but unless a search has come to look *)
(* inside of a block.                                                      *)
(***************************************************************************)
OwnedDisjoint ==
  \A b, c \in owned : b # c => Extent(b) \cap Extent(c) = {}
DisjointUnlessJumped == ~jumped => OwnedDisjoint

\* ratsstart finds no tag of a block below the first half megabyte's end.
Seen(p) == p + TagSize >= Half - TagSize

(***************************************************************************)
(* Every block that was handed out and not removed is protected: its tag   *)
(* is where it was put and gives its length (at least, where ratsstart     *)
(* does not see it and it is never resized).  Without it a later patch     *)
(* takes the space, and an autoclean cannot give it back.                  *)
(***************************************************************************)
ProtectedUnlessJumped ==
  ~jumped => \A b \in owned :
    IF Seen(b.at) THEN TagLenAt(b.at) = StoredLen(b.len)
    ELSE TagLenAt(b.at) >= StoredLen(b.len)

(***************************************************************************)
(* Every tag in the ROM belongs to a block somebody was given: a tag that  *)
(* nobody knows of leaks its space for good.  Not so of ExLoROM, where a   *)
(* search allocates twice, nor of the tags ratsstart does not see.         *)
(***************************************************************************)
NoLeakUnlessJumped ==
  ~jumped /\ mapper # "exlorom" =>
    \A p \in DOMAIN rom : Seen(p) /\ TagLenAt(p) # NoBlock => \E b \in owned : b.at = p

\* The bank the contents of a block have to stay in.
ContentBank(p) ==
  IF mapper \in {"hirom", "exhirom"} \/ (mapper = "bigsa1rom" /\ p >= FourMeg)
  THEN HiBank ELSE HalfBank

(***************************************************************************)
(* "if the contents won't fit in this bank": contents do not cross into    *)
(* another.  A tag that is anywhere in the last TagSize bytes of a bank is *)
(* taken for one that ends with the bank, so that longer contents than     *)
(* these may.                                                              *)
(***************************************************************************)
ContentInOneBank ==
  \A b \in owned :
    LET first == b.at + TagSize
        bank == ContentBank(first)
    IN  b.len <= HalfBank - TagSize + 1 => first \div bank = (first + b.len - 1) \div bank

\* Every search ends, with a block or without.
SearchEnds == Searching ~> ~Searching
=============================================================================
