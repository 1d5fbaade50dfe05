---------------------------- MODULE WrittenBlocks ---------------------------
(***************************************************************************)
(* The list of blocks a patch has written, which the library hands to its  *)
(* caller: every write to the ROM is cut into banks, and each piece is     *)
(* merged into a list sorted by SNES address.                              *)
(*                                                                         *)
(* The functions that do it are called one inside the other, never two at  *)
(* a time, so that their loops are actions: a step of addromwrite's loop   *)
(* over banks, of findromwritepos's bisection, of the merging loop in      *)
(* addromwriteforbank.  Positions in the list count from 1.                *)
(*                                                                         *)
(* The mapper is LoROM or HiROM: BankLen bytes of the ROM are the last     *)
(* bytes of each bank from FirstBank on.                                   *)
(***************************************************************************)
EXTENDS Integers, SequencesExt

CONSTANTS
  BankSpan,   \* addresses in a bank ($10000)
  BankLen,    \* those of them that are ROM ($8000 in LoROM, $10000 in HiROM)
  FirstBank,  \* the bank of the first byte of the ROM ($80, $C0)
  Banks,      \* banks there are ($100): bank numbers wrap
  RomLen      \* bytes in the ROM

RomMax == (Banks - FirstBank) * BankLen     \* $400000

ASSUME WrittenBlocksAssumption ==
  /\ BankSpan \in Nat \ {0} /\ BankLen \in 1 .. BankSpan
  /\ Banks \in Nat \ {0} /\ FirstBank \in 0 .. Banks - 1
  /\ RomLen \in 1 .. RomMax

VARIABLES
  writtenblocks,                  \* the list
  pcoffset, snesaddr, bytesleft,  \* addromwrite: what is left of the write
  snesoffset, numbytes,           \* addromwriteforbank: the piece, as merged so far
  searchstartpos, searchendpos,   \* findromwritepos: the answer is between them
  pc,        \* "idle", or where the calls stand: "banks", "find" or "merge"
  dirty      \* every ROM byte written since the list was last reset

rest  == <<pcoffset, snesaddr, bytesleft>>
piece == <<snesoffset, numbytes>>
search == <<searchstartpos, searchendpos>>
vars == <<writtenblocks, rest, piece, search, pc, dirty>>

-----------------------------------------------------------------------------
BankOf(a)   == (a \div BankSpan) % Banks         \* (a >> 16) & 0xFF
BankBase(a) == BankOf(a) * BankSpan              \* a & 0xFF0000

Pctosnes(p) ==
  IF p < 0 \/ p >= RomMax THEN -1
  ELSE (FirstBank + (p \div BankLen)) * BankSpan + (BankSpan - BankLen) + (p % BankLen)

\* Only banks from FirstBank on come up: lower ones mirror them.
Snestopc(a) ==
  IF a < FirstBank * BankSpan \/ a >= Banks * BankSpan \/ a % BankSpan < BankSpan - BankLen
  THEN -1
  ELSE ((a \div BankSpan) - FirstBank) * BankLen + (a % BankSpan) - (BankSpan - BankLen)

End(b) == b.snesoffset + b.numbytes
MaxOf(a, b) == IF a > b THEN a ELSE b

Init ==
  /\ writtenblocks = << >>
  /\ pcoffset = 0 /\ snesaddr = 0 /\ bytesleft = 0
  /\ snesoffset = 0 /\ numbytes = 0
  /\ searchstartpos = 1 /\ searchendpos = 1
  /\ pc = "idle"
  /\ dirty = {}

\* reseteverything, before each patch.
Reset ==
  /\ pc = "idle"
  /\ writtenblocks' = << >> /\ dirty' = {}
  /\ UNCHANGED <<rest, piece, search, pc>>

\* writeromdata and its like: n bytes from ROM offset p on.
WriteRomData ==
  /\ pc = "idle"
  /\ \E p \in 0 .. RomLen - 1, n \in 1 .. RomLen :
       /\ p + n <= RomLen
       /\ pcoffset' = p /\ snesaddr' = Pctosnes(p) /\ bytesleft' = n
       /\ dirty' = dirty \cup p .. p + n - 1
  /\ pc' = "banks"
  /\ UNCHANGED <<writtenblocks, piece, search>>

\* The call of addromwriteforbank, and findromwritepos's over the whole list.
AddForBank(a, n) ==
  /\ snesoffset' = a /\ numbytes' = n
  /\ searchstartpos' = 1 /\ searchendpos' = Len(writtenblocks) + 1
  /\ pc' = "find"

\* addromwrite's loop, while the write does not end in the bank it starts in.
\* (Ending with the last byte of a bank is ending in the next one.)
SplitBank ==
  /\ pc = "banks"
  /\ BankOf(snesaddr) # BankOf(snesaddr + bytesleft)
  /\ LET bytesinbank == BankBase(snesaddr + BankSpan) - snesaddr IN
     /\ AddForBank(snesaddr, bytesinbank)
     /\ pcoffset' = pcoffset + bytesinbank
     /\ snesaddr' = Pctosnes(pcoffset + bytesinbank)
     /\ bytesleft' = bytesleft - bytesinbank
  /\ UNCHANGED <<writtenblocks, dirty>>

\* After the loop.  That nothing is left from here on stands for the return.
LastBank ==
  /\ pc = "banks"
  /\ BankOf(snesaddr) = BankOf(snesaddr + bytesleft)
  /\ IF bytesleft = 0 THEN pc' = "idle" /\ UNCHANGED <<piece, search>>
     ELSE AddForBank(snesaddr, bytesleft)
  /\ bytesleft' = 0
  /\ UNCHANGED <<writtenblocks, pcoffset, snesaddr, dirty>>

Center == searchstartpos + ((searchendpos - searchstartpos) \div 2)

FindLower ==
  /\ pc = "find" /\ searchstartpos # searchendpos
  /\ writtenblocks[Center].snesoffset >= snesoffset
  /\ searchendpos' = Center
  /\ UNCHANGED <<writtenblocks, rest, piece, searchstartpos, pc, dirty>>

FindUpper ==
  /\ pc = "find" /\ searchstartpos # searchendpos
  /\ writtenblocks[Center].snesoffset < snesoffset
  /\ searchstartpos' = Center + 1
  /\ UNCHANGED <<writtenblocks, rest, piece, searchendpos, pc, dirty>>

\* Mutant: > for >=, so that blocks that meet are not merged.
TouchesPreceding_OverlapOnly ==
  /\ searchstartpos > 1
  /\ BankOf(writtenblocks[searchstartpos - 1].snesoffset) = BankOf(snesoffset)
  /\ End(writtenblocks[searchstartpos - 1]) > snesoffset

\* insertpos is searchstartpos once the bisection is over.
TouchesPreceding ==
  /\ searchstartpos > 1
  /\ BankOf(writtenblocks[searchstartpos - 1].snesoffset) = BankOf(snesoffset)
  /\ End(writtenblocks[searchstartpos - 1]) >= snesoffset

\* Mutant: insertpos is not decremented with the list.
MergePreceding_KeepsPos ==
  /\ pc = "find" /\ searchstartpos = searchendpos
  /\ pc' = "merge"
  /\ IF TouchesPreceding
     THEN LET before == writtenblocks[searchstartpos - 1] IN
          /\ snesoffset' = before.snesoffset
          /\ numbytes' = MaxOf(End(before), snesoffset + numbytes) - before.snesoffset
          /\ writtenblocks' = RemoveAt(writtenblocks, searchstartpos - 1)
          /\ UNCHANGED search
     ELSE UNCHANGED <<writtenblocks, piece, search>>
  /\ UNCHANGED <<rest, dirty>>

\* Merge if we overlap with a preceding block.
MergePreceding ==
  /\ pc = "find" /\ searchstartpos = searchendpos
  /\ pc' = "merge"
  /\ IF TouchesPreceding
     THEN LET before == writtenblocks[searchstartpos - 1] IN
          /\ snesoffset' = before.snesoffset
          /\ numbytes' = MaxOf(End(before), snesoffset + numbytes) - before.snesoffset
          /\ writtenblocks' = RemoveAt(writtenblocks, searchstartpos - 1)
          /\ searchstartpos' = searchstartpos - 1 /\ searchendpos' = searchstartpos - 1
     ELSE UNCHANGED <<writtenblocks, piece, search>>
  /\ UNCHANGED <<rest, dirty>>

\* Mutant: the bank of the block that follows is not looked at.
TouchesSucceeding_AnyBank ==
  /\ searchstartpos <= Len(writtenblocks)
  /\ snesoffset + numbytes >= writtenblocks[searchstartpos].snesoffset

TouchesSucceeding ==
  /\ searchstartpos <= Len(writtenblocks)
  /\ BankOf(writtenblocks[searchstartpos].snesoffset) = BankOf(snesoffset)
  /\ snesoffset + numbytes >= writtenblocks[searchstartpos].snesoffset

\* Mutant: the merged piece ends where the block merged into it ends.
MergeSucceeding_TakesEnd ==
  /\ pc = "merge" /\ TouchesSucceeding
  /\ numbytes' = End(writtenblocks[searchstartpos]) - snesoffset
  /\ writtenblocks' = RemoveAt(writtenblocks, searchstartpos)
  /\ UNCHANGED <<rest, snesoffset, search, pc, dirty>>

\* Mutant: the block merged is not removed.
MergeSucceeding_Keeps ==
  /\ pc = "merge" /\ TouchesSucceeding
  /\ numbytes' = MaxOf(snesoffset + numbytes, End(writtenblocks[searchstartpos])) - snesoffset
  /\ UNCHANGED <<writtenblocks, rest, snesoffset, search, pc, dirty>>

\* Merge if we overlap with a succeeding block: a turn of the loop.
MergeSucceeding ==
  /\ pc = "merge" /\ TouchesSucceeding
  /\ numbytes' = MaxOf(snesoffset + numbytes, End(writtenblocks[searchstartpos])) - snesoffset
  /\ writtenblocks' = RemoveAt(writtenblocks, searchstartpos)
  /\ UNCHANGED <<rest, snesoffset, search, pc, dirty>>

Insert ==
  /\ pc = "merge" /\ ~TouchesSucceeding
  /\ writtenblocks' = InsertAt(writtenblocks, searchstartpos,
       [snesoffset |-> snesoffset, pcoffset |-> Snestopc(snesoffset), numbytes |-> numbytes])
  /\ pc' = "banks"
  /\ UNCHANGED <<rest, piece, search, dirty>>

Next ==
  \/ Reset \/ WriteRomData
  \/ SplitBank \/ LastBank
  \/ FindLower \/ FindUpper
  \/ MergePreceding \/ MergeSucceeding \/ Insert

Spec == Init /\ [][Next]_vars /\ WF_vars(SplitBank \/ LastBank \/ FindLower \/ FindUpper
                                         \/ MergePreceding \/ MergeSucceeding \/ Insert)

-----------------------------------------------------------------------------
Block == [snesoffset : Int, pcoffset : Int, numbytes : Int]

TypeOK ==
  /\ writtenblocks \in Seq(Block)
  /\ pcoffset \in Int /\ snesaddr \in Int /\ bytesleft \in Int
  /\ snesoffset \in Int /\ numbytes \in Int
  /\ pc \in {"find", "merge"} => /\ searchstartpos \in 1 .. Len(writtenblocks) + 1
                                /\ searchendpos \in searchstartpos .. Len(writtenblocks) + 1
  /\ pc \in {"idle", "banks", "find", "merge"}
  /\ dirty \subseteq 0 .. RomLen - 1

(***************************************************************************)
(* The list is sorted, and its blocks are as few as they can be: no two    *)
(* overlap, and two that meet are in different banks.  The bisection and   *)
(* the merging, which looks at one neighbour before and stops at the first *)
(* one after that does not touch, both rely on it.                         *)
(***************************************************************************)
SortedApart ==
  \A j \in DOMAIN writtenblocks : \A i \in 1 .. j - 1 :
    LET b == writtenblocks[i]
        c == writtenblocks[j]
    IN  /\ End(b) <= c.snesoffset
        /\ BankOf(b.snesoffset) = BankOf(c.snesoffset) => End(b) < c.snesoffset

\* "sort all ROM writes into banks": no block leaves the bank it starts in.
InOneBank ==
  \A i \in DOMAIN writtenblocks :
    LET b == writtenblocks[i] IN
      b.numbytes > 0 /\ BankOf(b.snesoffset) = BankOf(End(b) - 1)

(***************************************************************************)
(* When a write returns, the list names exactly the bytes of the ROM that  *)
(* have been written: "all the blocks written to the ROM".                 *)
(***************************************************************************)
BlocksAreTheWrites ==
  pc = "idle" =>
    dirty = UNION { writtenblocks[i].pcoffset ..
                      writtenblocks[i].pcoffset + writtenblocks[i].numbytes - 1 :
                    i \in DOMAIN writtenblocks }

\* Every write returns.
WriteReturns == pc = "banks" ~> pc = "idle"
=============================================================================
