------------------------------ MODULE Positions ------------------------------
(* Where the bytes of a patch go: the position in the ROM and the one that is   *)
(* displayed (base), what moves them, spcblock, the stacks of positions, bases  *)
(* and tables, and the settings a command leaves for those that follow.         *)
(* Freespaces are in Passes, namespaces in Names.  A patch is made up as pass 0 *)
(* reads it, and read again in passes 1 and 2; the next patch of the session    *)
(* follows.                                                                     *)
EXTENDS Mapper, Sequences, FiniteSets

CONSTANTS
  CommandSets,   \* the sets of commands a patch may be made of, [of, len, patches]:
                 \* at most len of them, in so many patches of a session
  MaxLen,        \* the largest len
  FileLen,       \* the length of the file that incbin reads
  RomLen,        \* the length of the ROM the patch is for
  MaxPad         \* bound on the bytes of a pad

Defaults ==
  [mapper |-> Plain("lorom"), check |-> "full", arch |-> "65816", table |-> "ascii",
   fillbyte |-> 0, padbyte |-> 0, freespacebyte |-> 0, bank |-> "auto", dpbase |-> 0,
   dp |-> "default", address |-> "unset", pri |-> FALSE, round |-> TRUE]

Tunable == {"table", "fillbyte", "padbyte", "freespacebyte", "dpbase", "bank", "optimize", "math"}
IsCommand(c) ==
  /\ c.c \in {"org", "base", "pad", "incbin_to"} => c.a \in Nat
  /\ c.c = "db" => c.n \in Nat
  /\ c.c \in {"skip", "fill"} => c.n \in Int /\ c.align \in Nat
  /\ c.c = "fill" /\ c.align = 0 => c.n \in Nat
  /\ c.c \in {"incbin", "incbin_to"} => c.from \in Int /\ c.to \in Int
  /\ c.c = "spcblock" => c.dest \in Nat
  /\ c.c = "mapper" => c.m \in Selectable
  /\ c.c = "check" => c.of = "check" /\ c.value \in {"full", "half", "off"}
  /\ c.c \in Tunable => c.of \in DOMAIN Defaults \ {"mapper", "check"}

ASSUME PositionsAssumption ==
  /\ MaxLen \in Nat \ {0} /\ FileLen \in Nat \ {0} /\ RomLen \in Nat /\ MaxPad \in Nat
  /\ \A s \in CommandSets : /\ s.len \in 1 .. MaxLen /\ s.patches \in Nat
                           /\ \A c \in s.of : IsCommand(c)

VARIABLES
  commands,      \* those of this session
  patches,       \* the patches that have begun
  patch,         \* the present one as far as it has been read in pass 0
  pass, at,      \* the pass (3: done), and the command that is next
  errored,
  pos,           \* the positions: snes and real, start and rstart
  set,           \* the settings
  spc,           \* the block of a spcblock
  bases, tables, pcs,        \* the stacks
  romlen,
  rom,           \* the bytes pass 2 has written, and the command they are of (history)
  marks, first,  \* position and settings before each command, in this pass and in pass 0 (history)
  blocks,        \* the spcblocks of pass 2: their commands and the length they say (history)
  stale          \* whether the patch has found a stack that is not empty (history)

stacks  == <<bases, tables, pcs>>
history == <<first, stale>>
vars == <<commands, patches, patch, pass, at, errored, pos, set, spc, stacks, romlen, rom, marks,
          history, blocks>>

None == -1                             \* a position that is not set
Nowhere == [snes |-> None, start |-> None, real |-> None, rstart |-> None]
Everywhere(a) == [snes |-> a, start |-> a, real |-> a, rstart |-> a]
NoBlock == [in |-> FALSE, dest |-> 0, size |-> 0, execute |-> None, from |-> 0]
NoMarks == [i \in 1 .. MaxLen + 1 |-> [pos |-> Nowhere, set |-> Defaults]]

\* What initstuff resets: not the stacks of bases and tables, and of the block only
\* that one is open.
NewSettings_Check == [Defaults EXCEPT !.check = set.check]
NewSettings == Defaults
Fresh ==
  /\ at' = 1 /\ pos' = Nowhere /\ set' = NewSettings
  /\ spc' = [spc EXCEPT !.in = FALSE] /\ pcs' = <<>>

Init ==
  /\ commands \in CommandSets /\ patches = 1 /\ patch = <<>> /\ pass = 0 /\ at = 1
  /\ errored = FALSE /\ pos = Nowhere /\ set = Defaults /\ spc = NoBlock
  /\ bases = <<>> /\ tables = <<>> /\ pcs = <<>> /\ romlen = RomLen
  /\ rom = <<>> /\ marks = NoMarks /\ first = NoMarks /\ blocks = <<>> /\ stale = FALSE

-----------------------------------------------------------------------------
Reads(c) ==
  /\ at' = at + 1
  /\ IF pass = 0 THEN at <= commands.len /\ c \in commands.of /\ patch' = Append(patch, c)
     ELSE pass < 3 /\ at <= Len(patch) /\ c = patch[at] /\ UNCHANGED patch
  /\ marks' = [marks EXCEPT ![at] = [pos |-> pos, set |-> set]]
  /\ UNCHANGED <<commands, patches, history>>
Candidates(kinds) ==
  { c \in (IF pass = 0 THEN commands.of ELSE IF at <= Len(patch) THEN {patch[at]} ELSE {}) : c.c \in kinds }

\* An error of pass n stops the command in every pass, and the patch in this one.
Error(n) == errored' = (errored \/ pass = n) /\ UNCHANGED pass

\* checkbankcross, after each command that has not been stopped.
Part(check, a) == IF check = "half" THEN a \div HalfBank ELSE a \div FullBank
Left(check, a, start) == Part(check, a) # Part(check, start) /\ Part(check, a - 1) # Part(check, start)
BankCrossed(check, p) ==
  /\ check # "off"
  /\ p # Nowhere
  /\ Left(check, p.snes, p.start) \/ Left(check, p.real, p.rstart)
\* The command is done, with these settings and positions.
Done(s, p) ==
  /\ set' = s /\ pos' = p
  /\ IF BankCrossed(s.check, p) THEN errored' = TRUE /\ pass' = 3 ELSE UNCHANGED <<errored, pass>>
Sets(s) == Done(s, pos)
Goes(p) == Done(set, p)

-----------------------------------------------------------------------------
\* step.  The byte above the 24 bits is the freespace's: a step that leaves the
\* space of addresses sets it.
Above(a) == (a \div EndOfSpace) * EndOfSpace
Joined(above, to) == IF to < 0 THEN None ELSE IF to < EndOfSpace THEN above + to ELSE to
Further(s, a, n) == IF a < 0 THEN None ELSE Joined(Above(a), fixsnespos(s.mapper, a % EndOfSpace, n))
Restarted(snes, real) == [snes |-> snes, start |-> snes, real |-> real, rstart |-> real]
Stepped(s, p, n) ==
  IF s.check = "off"
  THEN Restarted(Further(s, p.snes, n), Further(s, p.real, n))
  ELSE [p EXCEPT !.snes = @ + n, !.real = @ + n]

\* verifysnespos: missing_org is a warning.
Verified(p) == IF p.snes < 0 \/ p.real < 0 THEN Everywhere(HalfBank) ELSE p

\* write1, n times: the position after the last byte, and where in the ROM each one
\* belongs.
Stored(s, v, out) == [pos |-> Stepped(s, v, 1), out |-> Append(out, snestopc(s.mapper, v.real % EndOfSpace))]
write1(s, w) == Stored(s, Verified(w.pos), w.out)
Walk(s, p, n) ==
  LET write[k \in 0 .. n] == IF k = 0 THEN [pos |-> p, out |-> <<>>] ELSE write1(s, write[k - 1])
  IN  write[n]
\* Pass 2 ends it early (~ok), where an address is not of the ROM.
Stops(w) == [pos |-> Verified(w.pos), out |-> w.out, ok |-> FALSE]
Cut(p, w, bad) ==
  IF pass < 2 \/ bad = {} THEN [pos |-> w.pos, out |-> w.out, ok |-> TRUE]
  ELSE Stops(Walk(set, p, (CHOOSE k \in bad : \A j \in bad : k <= j) - 1))
Bad(out) == { k \in DOMAIN out : out[k] < 0 }
Written(p, n) ==
  LET w == Walk(set, p, n) IN Cut(p, w, Bad(w.out))
Of(out) == [i \in DOMAIN out |-> [pc |-> out[i], by |-> at]]
Extended_Last(pcs_) ==                 \* also where the ROM is longer
  IF pass < 2 \/ pcs_ = {} THEN romlen ELSE (CHOOSE p \in pcs_ : \A q \in pcs_ : q <= p) + 1
Extended(pcs_) ==
  LET beyond == { p \in pcs_ : p >= romlen }
  IN  IF pass < 2 \/ beyond = {} THEN romlen
      ELSE (CHOOSE p \in beyond : \A q \in beyond : q <= p) + 1
Elements(s) == { s[i] : i \in DOMAIN s }
\* A command whose last step is to write n bytes from p on.
Writes(s, p, n) ==
  LET w == Written(p, n) IN
  /\ rom' = IF pass = 2 THEN rom \o Of(w.out) ELSE rom
  /\ romlen' = Extended(Elements(w.out))
  /\ IF w.ok THEN Done(s, w.pos) ELSE Error(2) /\ pos' = w.pos /\ set' = s

-----------------------------------------------------------------------------
\* db; a text has a byte for each of its letters.
Db ==
  \E c \in Candidates({"db"}) :
    /\ Reads(c) /\ Writes(set, pos, c.n)
    /\ UNCHANGED <<spc, stacks, blocks>>

Refused == spc.in                      \* the commands that a spcblock may not have in it
Org ==
  \E c \in Candidates({"org"}) :
    /\ Reads(c)
    /\ IF Refused THEN Error(0) /\ UNCHANGED <<pos, set>> ELSE Goes(Everywhere(c.a))
    /\ UNCHANGED <<spc, stacks, romlen, rom, blocks>>

Displayed(p, a) == [snes |-> a, start |-> a, real |-> p.real, rstart |-> p.rstart]
Base ==
  \E c \in Candidates({"base"}) :
    /\ Reads(c) /\ Done([set EXCEPT !.bank = "auto"], Displayed(pos, c.a))
    /\ UNCHANGED <<spc, stacks, romlen, rom, blocks>>
BaseOff ==
  \E c \in Candidates({"base_off"}) :
    /\ Reads(c) /\ Goes([pos EXCEPT !.snes = pos.real, !.start = pos.rstart])
    /\ UNCHANGED <<spc, stacks, romlen, rom, blocks>>

\* skip and fill, by a number or up to an alignment.
Amount(c, p) == IF c.align = 0 THEN c.n ELSE (c.n - p.snes) % c.align
Skip ==
  \E c \in Candidates({"skip"}) :
    /\ Reads(c) /\ Goes(Stepped(set, pos, Amount(c, pos)))
    /\ UNCHANGED <<spc, stacks, romlen, rom, blocks>>
Fill ==
  \E c \in Candidates({"fill"}) :
    /\ Reads(c) /\ Writes(set, pos, Amount(c, pos))
    /\ UNCHANGED <<spc, stacks, blocks>>

\* pad: up to an address that lies before the present one it does nothing.
From(p) == p.real
Pad ==
  \E c \in Candidates({"pad"}) :
    LET len == snestopc(set.mapper, c.a) - snestopc(set.mapper, From(pos)) IN
    /\ len <= MaxPad /\ Reads(c)
    /\ IF Above(pos.real) # 0 THEN Error(0) /\ UNCHANGED <<pos, set, romlen, rom>>
       ELSE IF c.a > pos.real /\ len > 0 THEN Writes(set, pos, len)
       ELSE Goes(pos) /\ UNCHANGED <<romlen, rom>>
    /\ UNCHANGED <<spc, stacks, blocks>>

\* incbin of a range; an end of 0 is the end of the file.
Range_(c) == [from |-> c.from, to |-> IF c.to = 0 THEN FileLen ELSE c.to]
Outside(r) == r.from < 0 \/ r.to < r.from \/ r.to > FileLen
Incbin ==
  \E c \in Candidates({"incbin"}) :
    LET r == Range_(c) IN
    /\ Reads(c)
    /\ IF Outside(r) THEN Error(0) /\ UNCHANGED <<pos, set, romlen, rom>>
       ELSE Writes(set, pos, r.to - r.from)
    /\ UNCHANGED <<spc, stacks, blocks>>
\* The form with a target address (an address of the ROM), which moves no position.
IncbinTo ==
  \E c \in Candidates({"incbin_to"}) :
    LET r == Range_(c)
        offset == snestopc(set.mapper, c.a)
        out == [i \in 1 .. r.to - r.from |-> offset + i - 1]
    IN
    /\ offset >= 0 /\ Reads(c)
    /\ IF Outside(r) THEN Error(0) /\ UNCHANGED <<pos, set, romlen, rom>>
       ELSE /\ Goes(pos)
            /\ romlen' = IF offset + r.to - r.from > romlen THEN offset + r.to - r.from ELSE romlen
            /\ rom' = IF pass = 2 THEN rom \o Of(out) ELSE rom
    /\ UNCHANGED <<spc, stacks, blocks>>

-----------------------------------------------------------------------------
\* spcblock: two bytes for the length, where the real position is before it is
\* verified, and two for the target, which is what is displayed then.
Spcblock ==
  \E c \in Candidates({"spcblock"}) :
    LET w == Written(pos, 4)
        block == [in |-> TRUE, dest |-> c.dest, size |-> pos.real, execute |-> None, from |-> at]
    IN
    /\ Reads(c)
    /\ rom' = IF pass = 2 THEN rom \o Of(w.out) ELSE rom
    /\ romlen' = Extended(Elements(w.out))
    /\ IF w.ok THEN Goes(Displayed(w.pos, c.dest)) /\ spc' = block
       ELSE /\ Error(2) /\ pos' = w.pos
            /\ spc' = [block EXCEPT !.in = spc.in, !.execute = spc.execute] /\ UNCHANGED set
    /\ UNCHANGED <<stacks, blocks>>

\* endspcblock: the length is the distance of the displayed position from its start;
\* four more bytes follow if there is an address to execute.
Length_Real == pos.real - spc.size     \* counts the header
Length == pos.snes - pos.start
EndSpcblock ==
  \E c \in Candidates({"endspcblock"}) :
    LET executes == c.execute \/ spc.execute # None
        pc == snestopc(set.mapper, spc.size % EndOfSpace)
    IN
    /\ Reads(c)
    /\ IF ~spc.in THEN Error(0) /\ UNCHANGED <<pos, set, spc, romlen, rom, blocks>>
       ELSE IF pass = 2 /\ pc < 0 THEN Error(2) /\ UNCHANGED <<pos, set, spc, romlen, rom, blocks>>
       ELSE /\ Writes(set, pos, IF executes THEN 4 ELSE 0)
            /\ spc' = [spc EXCEPT !.in = FALSE]
            /\ blocks' = IF pass = 2
                         THEN Append(blocks, [from |-> spc.from, to |-> at, pc |-> pc, length |-> Length])
                         ELSE blocks
    /\ UNCHANGED stacks
\* startpos, the form of endspcblock's execute that came before it.
Startpos ==
  \E c \in Candidates({"startpos"}) :
    /\ Reads(c)
    /\ IF spc.in THEN Goes(pos) /\ spc' = [spc EXCEPT !.execute = 0]
       ELSE Error(0) /\ UNCHANGED <<pos, set, spc>>
    /\ UNCHANGED <<stacks, romlen, rom, blocks>>

-----------------------------------------------------------------------------
Top(s) == s[Len(s)]
Pop(s) == SubSeq(s, 1, Len(s) - 1)

PushPc ==
  \E c \in Candidates({"pushpc"}) :
    /\ Reads(c) /\ Goes(Nowhere)
    /\ pcs' = Append(pcs, [arch |-> set.arch, pos |-> pos])
    /\ UNCHANGED <<spc, bases, tables, romlen, rom, blocks>>
Restored_Real(s) == Everywhere(Top(s).pos.real)     \* loses what was displayed
Restored(s) == Top(s).pos
PullPc ==
  \E c \in Candidates({"pullpc"}) :
    /\ Reads(c)
    /\ IF pcs = <<>> THEN Error(0) /\ UNCHANGED <<pos, set, pcs>>
       ELSE /\ pcs' = Pop(pcs)
            /\ IF set.arch # Top(pcs).arch THEN Error(0) /\ UNCHANGED <<pos, set>>
               ELSE Goes(Restored(pcs))
    /\ UNCHANGED <<spc, bases, tables, romlen, rom, blocks>>

PushBase ==
  \E c \in Candidates({"pushbase"}) :
    /\ Reads(c) /\ bases' = Append(bases, pos.snes) /\ Goes(pos)
    /\ UNCHANGED <<spc, tables, pcs, romlen, rom, blocks>>
PullBase ==
  \E c \in Candidates({"pullbase"}) :
    /\ Reads(c)
    /\ IF bases = <<>> THEN Error(0) /\ UNCHANGED <<pos, set, bases>>
       ELSE LET a == Top(bases) IN
            /\ bases' = Pop(bases)
            /\ Done([set EXCEPT !.bank = IF a # pos.rstart THEN "auto" ELSE @], Displayed(pos, a))
    /\ UNCHANGED <<spc, tables, pcs, romlen, rom, blocks>>

PushTable ==
  \E c \in Candidates({"pushtable"}) :
    /\ Reads(c) /\ tables' = Append(tables, set.table) /\ Goes(pos)
    /\ UNCHANGED <<spc, bases, pcs, romlen, rom, blocks>>
PullTable ==
  \E c \in Candidates({"pulltable"}) :
    /\ Reads(c)
    /\ IF tables = <<>> THEN Error(0) /\ UNCHANGED <<pos, set, tables>>
       ELSE Sets([set EXCEPT !.table = Top(tables)]) /\ tables' = Pop(tables)
    /\ UNCHANGED <<spc, bases, pcs, romlen, rom, blocks>>

-----------------------------------------------------------------------------
\* The commands that change one setting, for all that follows them.
Sets1(kind) ==
  \E c \in Candidates({kind}) :
    /\ Reads(c) /\ Sets([set EXCEPT ![c.of] = c.value])
    /\ UNCHANGED <<spc, stacks, romlen, rom, blocks>>
CheckBankcross == Sets1("check")
Table        == Sets1("table")         \* table, cleartable, 'c' = n
FillByte     == Sets1("fillbyte")
PadByte      == Sets1("padbyte")
FreespaceByte == Sets1("freespacebyte")
DpBase       == Sets1("dpbase")
Optimize     == Sets1("optimize")
BankIs       == Sets1("bank")
Math         == Sets1("math")
\* A mapper command has set the mapper by the time a spcblock refuses it.
Mapper ==
  \E c \in Candidates({"mapper"}) :
    /\ Reads(c)
    /\ IF Refused THEN Error(0) /\ set' = [set EXCEPT !.mapper = c.m] /\ UNCHANGED pos
       ELSE Sets([set EXCEPT !.mapper = c.m])
    /\ UNCHANGED <<spc, stacks, romlen, rom, blocks>>
Arch ==
  \E c \in Candidates({"arch"}) :
    /\ Reads(c)
    /\ IF Refused THEN Error(0) /\ UNCHANGED <<pos, set>>
       ELSE Sets([set EXCEPT !.arch = c.arch])
    /\ UNCHANGED <<spc, stacks, romlen, rom, blocks>>
\* check title: the title of a ROM is 21 letters from $00FFC0 on.
TooShort == romlen < IF set.mapper.name \in {"hirom", "exhirom"} THEN FullBank ELSE HalfBank
CheckTitle ==
  \E c \in Candidates({"check_title"}) :
    /\ Reads(c)
    /\ IF (TooShort \/ ~c.same) /\ ~c.ignored THEN Error(0) /\ UNCHANGED <<pos, set>> ELSE Goes(pos)
    /\ UNCHANGED <<spc, stacks, romlen, rom, blocks>>

-----------------------------------------------------------------------------
\* finishpass: a block that is open is an error thrown outside of any command, and
\* ends the patch; a position that is pushed is one of pass 0.
FinishPass ==
  /\ pass < 3 /\ (IF pass = 0 THEN patch # <<>> ELSE at > Len(patch))
  /\ errored' = (errored \/ (pass = 0 /\ (spc.in \/ pcs # <<>>)))
  /\ pass' = IF spc.in THEN 3 ELSE pass + 1
  /\ LET seen == [marks EXCEPT ![at] = [pos |-> pos, set |-> set]]
     IN  /\ first' = IF pass = 0 THEN seen ELSE first
         /\ marks' = IF pass = 2 THEN seen ELSE NoMarks
  /\ Fresh
  /\ UNCHANGED <<commands, patches, patch, bases, tables, romlen, rom, blocks, stale>>

\* Another call of asar_patch of the same session.
NextPatch ==
  /\ pass = 3 /\ patches < commands.patches
  /\ patches' = patches + 1 /\ patch' = <<>> /\ pass' = 0 /\ errored' = FALSE
  /\ romlen' = RomLen /\ rom' = <<>> /\ marks' = NoMarks /\ first' = NoMarks /\ blocks' = <<>>
  /\ stale' = (bases # <<>> \/ tables # <<>>)
  /\ Fresh
  /\ UNCHANGED <<commands, bases, tables>>

Next ==
  \/ Db \/ Org \/ Base \/ BaseOff \/ Skip \/ Fill \/ Pad \/ Incbin \/ IncbinTo
  \/ Spcblock \/ EndSpcblock \/ Startpos \/ PushPc \/ PullPc \/ PushBase \/ PullBase
  \/ PushTable \/ PullTable \/ CheckBankcross \/ Table \/ FillByte \/ PadByte \/ FreespaceByte
  \/ DpBase \/ Optimize \/ BankIs \/ Math \/ Mapper \/ Arch \/ CheckTitle
  \/ FinishPass \/ NextPatch
Spec == Init /\ [][Next]_vars

-----------------------------------------------------------------------------
(* Properties.                                                               *)

TypeOK ==
  /\ pass \in 0 .. 3 /\ at \in 1 .. MaxLen + 1 /\ errored \in BOOLEAN /\ romlen >= RomLen
  /\ \A f \in DOMAIN pos : pos[f] \in Int
  /\ set.check \in {"full", "half", "off"} /\ set.mapper.name \in Mappers
  /\ spc.in \in BOOLEAN /\ \A i \in DOMAIN rom : rom[i].pc \in Nat /\ rom[i].by \in 1 .. MaxLen
  /\ \A i \in DOMAIN bases : bases[i] \in Int

Final == ~errored /\ pass = 3
After(i) == marks[i + 1]               \* position and settings after a command
Commands(kinds) == { i \in DOMAIN patch : patch[i].c \in kinds }

\* Positions and settings before a command are the same in each pass, so that a
\* label has one value: what they depend on starts anew in initstuff, but for the
\* stacks, which the patch before is to have left empty.
SameInEveryPass ==
  ~errored /\ ~stale /\ pass \in {1, 2} => \A i \in 1 .. at - 1 : marks[i] = first[i]

\* In a patch without errors the bytes of a command lie in the ROM in their order,
\* also where check bankcross off lets them cross a bank (step, fixsnespos).  Addresses
\* turn back where they end and begin anew: with x, position and settings before
\* the command, at byte p of the ROM.
Last_(m, p) ==
  LET size == CASE m.name \in {"lorom", "hirom", "exhirom"} -> FourMegabytes
                [] m.name = "fullsa1rom" -> 2 * FourMegabytes
                [] m.name = "sa1rom" -> IF m = SA1Default THEN FourMegabytes ELSE Megabyte
                [] OTHER -> EndOfSpace
  IN  p % size = size - 1
LowMirror(x) == x.set.mapper.name \in {"lorom", "exlorom"} /\ ~IsHigh(x.pos.real)
TurnsBack(x, p) ==
  \/ LowMirror(x) /\ p % HalfBank = HalfBank - 1
  \/ /\ x.set.check = "off"
     /\ \/ Last_(x.set.mapper, p)
        \/ x.set.mapper.name = "sfxrom"
        \/ x.set.mapper.name = "fullsa1rom" /\ x.pos.snes # x.pos.real
BytesInOrder ==
  Final => \A j \in 1 .. Len(rom) - 1 :
    /\ rom[j].by = rom[j + 1].by
    /\ ~TurnsBack(marks[rom[j].by], rom[j].pc)
    => rom[j].pc < rom[j + 1].pc

\* In a patch without errors a spcblock is one piece of the ROM: its header, and as
\* many bytes as its length says, in order.  This is so of a block that nothing
\* but bytes is in, where banks are checked and the position is set.
Moving == {"base", "base_off", "pullbase", "pushpc", "pullpc", "skip", "check", "mapper",
           "spcblock", "incbin_to"}
Inside(b) == { i \in DOMAIN patch : b.from < i /\ i < b.to }
SpcPieces(b) ==
  \E s \in 0 .. Len(rom) : s + b.length \in s .. Len(rom) /\ \A k \in DOMAIN rom :
    /\ b.from < rom[k].by /\ rom[k].by < b.to <=> s < k /\ k <= s + b.length
    /\ s < k /\ k <= s + b.length => rom[k].pc = b.pc + 3 + k - s
SpcBlockWhole ==
  Final => \A n \in DOMAIN blocks :
    LET b == blocks[n]
        x == marks[b.from] IN
    /\ x.pos.snes >= 0 /\ x.pos.real >= 0 /\ x.set.check # "off" /\ ~LowMirror(x)
    /\ \A i \in Inside(b) : patch[i].c \notin Moving
    => SpcPieces(b)
\* In a patch without errors a pull brings back what the push it is paired with has
\* saved, in each of the passes; so it is if the patch before has left no stack.
Count(q, kind, k, i) == Cardinality({ j \in k .. i - 1 : q[j].c = kind })
Level(q, push, pull, k, i) == Count(q, push, k, i) - Count(q, pull, k, i)
Pair(q, push, pull, i) ==
  LET open == { k \in 1 .. i - 1 : q[k].c = push /\ Level(q, push, pull, k, i) = 1 }
  IN  IF open = {} THEN 0 ELSE CHOOSE k \in open : \A j \in open : j <= k
PullsWhatWasPushed ==
  Final /\ ~stale =>
    /\ \A i \in Commands({"pullpc"}) :
         LET k == Pair(patch, "pushpc", "pullpc", i) IN k # 0 /\ After(i).pos = marks[k].pos
    /\ \A i \in Commands({"pullbase"}) :
         LET k == Pair(patch, "pushbase", "pullbase", i) IN k # 0 /\ After(i).pos.snes = marks[k].pos.snes
    /\ \A i \in Commands({"pulltable"}) :
         LET k == Pair(patch, "pushtable", "pulltable", i) IN k # 0 /\ After(i).set.table = marks[k].set.table
=============================================================================
