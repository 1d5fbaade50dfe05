------------------------------- MODULE Passes -------------------------------
(***************************************************************************)
(* The three passes of the assembler.                                      *)
(*                                                                         *)
(* A patch is assembled three times.  Pass 0 finds which freespace (or     *)
(* bank) every label is in and how long every freespace is; pass 1 asks    *)
(* the freespace finder for blocks of those lengths and places every       *)
(* label; pass 2 writes the ROM.  Nothing but the label table, the         *)
(* freespace lengths and the freespace positions is carried over, so the   *)
(* later passes rely on the earlier ones having predicted every position   *)
(* correctly, although a reference is two or three bytes long depending on *)
(* a label that pass 0 may not have seen yet.                              *)
(*                                                                         *)
(* A program is a sequence of commands.  Addresses are offsets in the ROM, *)
(* BankSize to a bank: the mapper's bijection between these and the SNES   *)
(* addresses is left out.  The freespace id, which the code keeps in the   *)
(* top byte of snespos, is the field fs of a position.                     *)
(***************************************************************************)
EXTENDS Integers, FiniteSets, SequencesExt

CONSTANTS
  Programs,       \* the programs that may be assembled
  Names,          \* names of ordinary labels
  PlusNames,      \* names that +/- labels are given, one for each definition
  BankSize,       \* bytes in a bank
  TagSize,        \* bytes of a RATS tag (8 in the code)
  Pool,           \* ROM offsets the freespace finder may hand out
  ZeroPos,        \* what it hands out for zero bytes ($1234 in the code)
  MaxFreespaces,  \* max_num_freespaces
  Slack,          \* freespaceextra added by an instruction with an unknown label
  StaleLens,      \* what freespacelen may hold when a patch starts
  StaleMoving     \* what movinglabelspossible may be then

LabelNames == Names \cup PlusNames

Command ==
       [op : {"org", "base"}, at : Nat]
  \cup [op : {"freespace", "baseoff", "pushpc", "pullpc"}]
  \cup [op : {"db"}, n : Nat]
  \cup [op : {"label", "ref"}, l : LabelNames]

ASSUME PassesAssumption ==
  /\ \A p \in Programs : p \in Seq(Command)
  /\ Names \cap PlusNames = {}
  /\ BankSize \in Nat \ {0}
  /\ TagSize \in Nat \ {0}
  /\ Pool \subseteq Nat
  /\ ZeroPos \in Nat \ Pool
  /\ MaxFreespaces \in 0 .. 125
  /\ Slack \in Nat \ {0}
  /\ StaleLens \subseteq Int
  /\ StaleMoving \subseteq BOOLEAN

Ids == 1 .. MaxFreespaces + 1       \* freespaceid starts at 1, unused or not

Pos    == [fs : Ids \cup {-1, 0}, addr : Int]
Unset  == [fs |-> -1, addr |-> -1]              \* snespos = 0xFFFFFFFF
At(f, a)   == [fs |-> f, addr |-> a]            \* (f << 24) | a
Plus(p, n) == [p EXCEPT !.addr = @ + n]
Bank(p)    == p.addr \div BankSize

\* An entry of pushpc's stack.
Saved == [snespos : Pos, snesstart : Pos, snesposreal : Pos, snesstartreal : Pos,
          freeid : Ids, freeex : Nat, freest : Pos]

VARIABLES
  prog,       \* the program
  ip,         \* the next command
  pass,       \* 0, 1, 2; 3 when assembling has ended
  snespos, startpos, realsnespos, realstartpos,
  labels,     \* the label table
  freespaceid, freespaceidnext, freespacestart, freespaceextra,
  freespacelen, freespacepos,
  pushpc,     \* the stack of pushpc
  errored,
  movinglabelspossible,   \* pass 2 is not to check where the labels are
  blocks,     \* RATS blocks of this patch: content start and length
  written,    \* pass 2's bytes: the offset, and the freespace they are for
  operands,   \* pass 2's operands: the label, and the position written for it
  placed      \* pass 2's definitions: the label, and where it really is

position  == <<snespos, startpos, realsnespos, realstartpos>>
freespace == <<freespaceid, freespaceidnext, freespacestart, freespaceextra,
               freespacelen, freespacepos>>
output    == <<blocks, written, operands, placed>>
vars == <<prog, ip, pass, position, labels, freespace, pushpc, errored,
          movinglabelspossible, output>>

-----------------------------------------------------------------------------
(***************************************************************************)
(* Lengths and positions                                                   *)
(***************************************************************************)

\* getlenforlabel with the default optimisation settings: two bytes within a
\* freespace, or within a bank outside of any; three bytes otherwise.
LenForLabel(here, label) ==
  IF label.fs # 0 \/ here.fs # 0
  THEN IF label.fs # here.fs THEN 3 ELSE 2
  ELSE IF Bank(label) # Bank(here) THEN 3 ELSE 2

\* Mutant: labels count two bytes until they are written.
OperandLen_Short(l) ==
  IF l \notin DOMAIN labels \/ pass < 2
  THEN 2 ELSE LenForLabel(snespos, labels[l])

\* getlen of an operand that is one label: a +/- label is not looked up in
\* pass 0, and an unknown label counts two bytes.
OperandLen(l) ==
  IF l \notin DOMAIN labels \/ (l \in PlusNames /\ pass = 0)
  THEN 2 ELSE LenForLabel(snespos, labels[l])

\* Mutant: no room is kept for a label that is not known yet.
OperandSlack_None(l) == 0

\* What getlen adds to freespaceextra on the way, so that the freespace is
\* asked for large enough.
OperandSlack(l) ==
  IF l \in DOMAIN labels \/ (l \in PlusNames /\ pass = 0) THEN 0 ELSE Slack

NoOrg == snespos.fs = -1 \/ realsnespos.fs = -1

\* verifysnespos: without an org, everything goes to $008000.
Verified(p) == IF NoOrg THEN At(0, 0) ELSE p

\* checkbankcross, which runs after every command: the position may be the
\* first byte after the bank, never a later one.
Crosses(p, start) ==
  /\ p.addr \div BankSize # Bank(start)
  /\ (p.addr - 1) \div BankSize # Bank(start)

BankCrossed ==
  /\ ~(snespos.fs = -1 /\ realsnespos.fs = -1 /\ startpos.fs = -1 /\ realstartpos.fs = -1)
  /\ Crosses(snespos, startpos) \/ Crosses(realsnespos, realstartpos)

\* freespaceend, which records the length of the freespace that ends here.
Ended ==
  IF snespos.fs > 0
  THEN [freespacelen EXCEPT ![freespaceid] =
          snespos.addr - freespacestart.addr + freespaceextra]
  ELSE freespacelen
PosEnded == IF snespos.fs > 0 THEN Unset ELSE snespos

-----------------------------------------------------------------------------
(***************************************************************************)
(* RATS blocks                                                             *)
(***************************************************************************)

Extent(b)  == b.start - TagSize .. b.start + b.len - 1
Content(b) == b.start .. b.start + b.len - 1
TagArea(b) == b.start - TagSize .. b.start - 1
Intact(b)  == ~\E w \in written : w.addr \in TagArea(b)

\* ratsstart: the nearest tag that starts at or before addr, if it reaches addr.
RatsStart(addr) ==
  LET before == { b \in blocks : Intact(b) /\ b.start - TagSize <= addr }
  IN  { b \in before : /\ \A c \in before : c.start <= b.start
                       /\ addr < b.start + b.len }

\* The length a RATS tag stores for n bytes: it cannot say zero.
TagLen(n) == IF n = 0 THEN 1 ELSE n

\* What the freespace finder may answer for len bytes.
Candidates(len) ==
  IF len = 0 THEN {ZeroPos}
  ELSE { p \in Pool :
          LET b == [start |-> p, len |-> len] IN
          /\ len > 0
          /\ Extent(b) \subseteq Pool
          /\ (p + len - 1) \div BankSize = p \div BankSize
          /\ \A c \in blocks : Extent(b) \cap Extent(c) = {} }

\* resizerats, which keeps the start and says nothing of what follows.
Resized(p, len) ==
  (blocks \ RatsStart(p.addr))
    \cup { [start |-> b.start, len |-> TagLen(len)] : b \in RatsStart(p.addr) }

-----------------------------------------------------------------------------
(***************************************************************************)
(* Initial state, and what initstuff resets before every pass              *)
(***************************************************************************)

FreshPositions == /\ snespos' = Unset /\ startpos' = Unset
                  /\ realsnespos' = Unset /\ realstartpos' = Unset

Init ==
  /\ prog \in Programs
  /\ ip = 1 /\ pass = 0
  /\ snespos = Unset /\ startpos = Unset /\ realsnespos = Unset /\ realstartpos = Unset
  /\ labels = << >>
  /\ freespaceid = 1 /\ freespaceidnext = 1 /\ freespacestart = At(0, 0) /\ freespaceextra = 0
  /\ \E n \in StaleLens : freespacelen = [i \in Ids |-> n]
  /\ freespacepos = [i \in Ids |-> Unset]
  /\ pushpc = << >>
  /\ errored = FALSE
  /\ movinglabelspossible \in StaleMoving
  /\ blocks = {} /\ written = {} /\ operands = {} /\ placed = {}

-----------------------------------------------------------------------------
(***************************************************************************)
(* Commands                                                                *)
(***************************************************************************)

Running(op) == pass < 3 /\ ip <= Len(prog) /\ prog[ip].op = op
Cmd == prog[ip]

\* A fatal error leaves the loop over the passes.
Fatal == pass' = 3 /\ errored' = TRUE /\ UNCHANGED ip

\* An error of the block: the rest of the command is skipped, the next one runs.
BlockError == errored' = TRUE /\ ip' = ip + 1 /\ UNCHANGED pass

\* The command went through: checkbankcross decides whether the next one runs.
Proceed ==
  IF BankCrossed' THEN Fatal ELSE ip' = ip + 1 /\ UNCHANGED <<pass, errored>>

SetAll(p) == snespos' = p /\ startpos' = p /\ realsnespos' = p /\ realstartpos' = p

\* verifysnespos, where nothing is written.
Verify ==
  IF NoOrg THEN SetAll(At(0, 0)) ELSE UNCHANGED position

\* write1 n times: verifysnespos, then the ROM in pass 2, then step.
Write(n) ==
  LET real == Verified(realsnespos) IN
  /\ snespos' = Plus(Verified(snespos), n)
  /\ realsnespos' = Plus(real, n)
  /\ startpos' = Verified(startpos) /\ realstartpos' = Verified(realstartpos)
  /\ written' = IF pass = 2
                THEN written \cup [addr : real.addr .. real.addr + n - 1, fs : {real.fs}]
                ELSE written

Org ==
  /\ Running("org")
  /\ freespacelen' = Ended
  /\ freespaceextra' = 0
  /\ SetAll(At(0, Cmd.at))
  /\ Proceed
  /\ UNCHANGED <<prog, movinglabelspossible, labels, freespaceid, freespaceidnext, freespacestart, freespacepos,
                 pushpc, output>>

\* base: only the position labels get, not the one bytes are written to.
Base ==
  /\ Running("base")
  /\ snespos' = At(0, Cmd.at) /\ startpos' = At(0, Cmd.at)
  /\ UNCHANGED <<realsnespos, realstartpos>>
  /\ Proceed
  /\ UNCHANGED <<prog, movinglabelspossible, labels, freespace, pushpc, output>>

BaseOff ==
  /\ Running("baseoff")
  /\ snespos' = realsnespos /\ startpos' = realstartpos
  /\ UNCHANGED <<realsnespos, realstartpos>>
  /\ Proceed
  /\ UNCHANGED <<prog, movinglabelspossible, labels, freespace, pushpc, output>>

Db ==
  /\ Running("db")
  /\ Write(Cmd.n)
  /\ Proceed
  /\ UNCHANGED <<prog, movinglabelspossible, labels, freespace, pushpc, blocks, operands, placed>>

\* An instruction with a label for its operand: the opcode and OperandLen bytes.
Instr ==
  /\ Running("ref")
  /\ pass = 2 => Cmd.l \in DOMAIN labels
  /\ freespaceextra' = freespaceextra + OperandSlack(Cmd.l)
  /\ Write(1 + OperandLen(Cmd.l))
  /\ operands' = IF pass = 2
                 THEN operands \cup {[l |-> Cmd.l, pos |-> labels[Cmd.l]]}
                 ELSE operands
  /\ Proceed
  /\ UNCHANGED <<prog, movinglabelspossible, labels, freespaceid, freespaceidnext, freespacestart, freespacelen,
                 freespacepos, pushpc, blocks, placed>>

\* label_not_found: only pass 2 evaluates the operand.
InstrUnknown ==
  /\ Running("ref")
  /\ pass = 2 /\ Cmd.l \notin DOMAIN labels
  /\ BlockError
  /\ UNCHANGED <<prog, movinglabelspossible, position, labels, freespace, pushpc, output>>

Before(p, q) == p.fs < q.fs \/ (p.fs = q.fs /\ p.addr < q.addr)
SameBank(p, q) == p.fs = q.fs /\ Bank(p) = Bank(q)

\* Mutant: pass 2 does not look where the label is.
LabelCheck_None(l, here) == Proceed

\* What pass 2 checks of a label, unless movinglabelspossible: a label that is
\* not where pass 1 put it stops the block with label_ambiguous if it has moved
\* down to an earlier bank, and otherwise with label_moving, which is left out
\* after any other error.
LabelCheck(l, here) ==
  \/ l \notin DOMAIN labels /\ BlockError                \* label_on_third_pass
  \/ l \in DOMAIN labels
     /\ IF labels[l] = here \/ movinglabelspossible THEN Proceed
        ELSE IF Before(here, labels[l]) /\ ~SameBank(here, labels[l]) THEN BlockError
        ELSE IF errored THEN Proceed
        ELSE BlockError

(***************************************************************************)
(* setlabel.  verifysnespos comes first, so that even a label that is      *)
(* refused may have set the position.                                      *)
(***************************************************************************)
Label ==
  LET here == Verified(snespos) IN
  /\ Running("label")
  /\ Verify
  /\ \/ pass = 0 /\ Cmd.l \in DOMAIN labels            \* label_redefined
        /\ movinglabelspossible' = TRUE
        /\ BlockError
        /\ UNCHANGED <<labels, placed>>
     \/ pass = 0 /\ Cmd.l \notin DOMAIN labels
        /\ labels' = [n \in DOMAIN labels \cup {Cmd.l} |->
                        IF n = Cmd.l THEN here ELSE labels[n]]
        /\ Proceed
        /\ UNCHANGED <<movinglabelspossible, placed>>
     \/ pass = 1
        /\ labels' = [n \in DOMAIN labels \cup {Cmd.l} |->
                        IF n = Cmd.l THEN here ELSE labels[n]]
        /\ Proceed
        /\ UNCHANGED <<movinglabelspossible, placed>>
     \/ pass = 2
        /\ placed' = placed \cup {[l |-> Cmd.l, pos |-> here]}
        /\ LabelCheck(Cmd.l, here)
        /\ UNCHANGED <<movinglabelspossible, labels>>
  /\ UNCHANGED <<prog, freespace, pushpc, blocks, written, operands>>

(***************************************************************************)
(* freespace, freecode and freedata.                                       *)
(***************************************************************************)

\* Mutant: the limit is checked one freespace too late.
TakeId_Late ==
  /\ Running("freespace")
  /\ freespaceidnext <= MaxFreespaces + 1
  /\ freespacelen' = Ended
  /\ freespaceextra' = 0
  /\ freespaceid' = freespaceidnext
  /\ freespaceidnext' = freespaceidnext + 1

\* What every freespace command does first: it ends the one before and takes
\* the next id.
TakeId ==
  /\ Running("freespace")
  /\ freespaceidnext <= MaxFreespaces
  /\ freespacelen' = Ended
  /\ freespaceextra' = 0
  /\ freespaceid' = freespaceidnext
  /\ freespaceidnext' = freespaceidnext + 1

EnterFreespace(p) ==
  /\ SetAll(p)
  /\ freespacestart' = p
  /\ Proceed

\* Pass 0: every freespace starts at $8000 of its own id.
FreespaceMeasure ==
  /\ TakeId /\ pass = 0
  /\ EnterFreespace(At(freespaceidnext, 0))
  /\ UNCHANGED <<prog, movinglabelspossible, labels, freespacepos, pushpc, output>>

\* Pass 1: a block as long as pass 0 said.
FreespaceAllocate ==
  /\ TakeId /\ pass = 1
  /\ LET len == Ended[freespaceidnext] IN
     \E p \in Candidates(len) :
       /\ freespacepos' = [freespacepos EXCEPT ![freespaceidnext] = At(freespaceidnext, p)]
       /\ blocks' = IF len = 0 THEN blocks ELSE blocks \cup {[start |-> p, len |-> len]}
       /\ EnterFreespace(At(freespaceidnext, p))
  /\ UNCHANGED <<prog, movinglabelspossible, labels, pushpc, written, operands, placed>>

\* Pass 2: the same block, its tag rewritten with the length pass 1 measured.
FreespaceResize ==
  /\ TakeId /\ pass = 2
  /\ LET p == freespacepos[freespaceidnext] IN
     /\ blocks' = Resized(p, Ended[freespaceidnext])
     /\ EnterFreespace(p)
  /\ UNCHANGED <<prog, movinglabelspossible, labels, freespacepos, pushpc, written, operands, placed>>

\* no_freespace: the finder answers -1.
FreespaceFull ==
  /\ TakeId /\ pass = 1
  /\ Candidates(Ended[freespaceidnext]) = {}
  /\ freespacepos' = [freespacepos EXCEPT ![freespaceidnext] = Unset]
  /\ snespos' = Unset
  /\ UNCHANGED <<startpos, realsnespos, realstartpos, freespacestart>>
  /\ Fatal
  /\ UNCHANGED <<prog, movinglabelspossible, labels, pushpc, output>>

\* freespace_limit_reached.
FreespaceLimit ==
  /\ Running("freespace")
  /\ freespaceidnext > MaxFreespaces
  /\ freespacelen' = Ended
  /\ freespaceextra' = 0
  /\ snespos' = PosEnded
  /\ Fatal
  /\ UNCHANGED <<prog, movinglabelspossible, startpos, realsnespos, realstartpos, labels, freespaceid,
                 freespaceidnext, freespacestart, freespacepos, pushpc, output>>

(***************************************************************************)
(* pushpc and pullpc.                                                      *)
(***************************************************************************)
PushPc ==
  /\ Running("pushpc")
  /\ pushpc' = Append(pushpc,
       [snespos |-> snespos, snesstart |-> startpos,
        snesposreal |-> realsnespos, snesstartreal |-> realstartpos,
        freeid |-> freespaceid, freeex |-> freespaceextra, freest |-> freespacestart])
  /\ SetAll(Unset)
  /\ Proceed
  /\ UNCHANGED <<prog, movinglabelspossible, labels, freespace, output>>

\* Mutant: freespaceid stays that of the code that was pulled away from.
PullPc_KeepsId ==
  /\ Running("pullpc")
  /\ pushpc # << >>
  /\ LET top == pushpc[Len(pushpc)] IN
     /\ pushpc' = Front(pushpc)
     /\ freespacelen' = Ended
     /\ snespos' = top.snespos /\ startpos' = top.snesstart
     /\ realsnespos' = top.snesposreal /\ realstartpos' = top.snesstartreal
     /\ freespaceextra' = top.freeex
     /\ freespacestart' = top.freest
  /\ Proceed
  /\ UNCHANGED <<prog, movinglabelspossible, labels, freespaceid, freespaceidnext, freespacepos, output>>

PullPc ==
  /\ Running("pullpc")
  /\ pushpc # << >>
  /\ LET top == pushpc[Len(pushpc)] IN
     /\ pushpc' = Front(pushpc)
     /\ freespacelen' = Ended
     /\ snespos' = top.snespos /\ startpos' = top.snesstart
     /\ realsnespos' = top.snesposreal /\ realstartpos' = top.snesstartreal
     /\ freespaceid' = top.freeid
     /\ freespaceextra' = top.freeex
     /\ freespacestart' = top.freest
  /\ Proceed
  /\ UNCHANGED <<prog, movinglabelspossible, labels, freespaceidnext, freespacepos, output>>

\* pullpc_without_pushpc.
PullPcEmpty ==
  /\ Running("pullpc")
  /\ pushpc = << >>
  /\ BlockError
  /\ UNCHANGED <<prog, movinglabelspossible, position, labels, freespace, pushpc, output>>

\* Mutant: the freespace that the program ends in is not ended.
FinishPass_Open ==
  /\ pass < 3 /\ ip = Len(prog) + 1
  /\ freespaceextra' = 0
  /\ errored' = (errored \/ (pass = 0 /\ pushpc # << >>))
  /\ pass' = pass + 1
  /\ IF pass = 2
     THEN UNCHANGED <<ip, position, freespaceid, freespaceidnext, pushpc>>
     ELSE /\ FreshPositions
          /\ ip' = 1
          /\ freespaceid' = 1 /\ freespaceidnext' = 1
          /\ pushpc' = << >>
  /\ UNCHANGED <<prog, movinglabelspossible, labels, freespacelen, freespacestart, freespacepos, output>>

(***************************************************************************)
(* finishpass, and initstuff of the pass that follows.                     *)
(***************************************************************************)
FinishPass ==
  /\ pass < 3 /\ ip = Len(prog) + 1
  /\ freespacelen' = Ended
  /\ freespaceextra' = 0
  /\ errored' = (errored \/ (pass = 0 /\ pushpc # << >>))   \* pushpc_without_pullpc
  /\ pass' = pass + 1
  /\ IF pass = 2
     THEN /\ snespos' = PosEnded
          /\ UNCHANGED <<ip, startpos, realsnespos, realstartpos, freespaceid,
                         freespaceidnext, pushpc>>
     ELSE /\ FreshPositions
          /\ ip' = 1
          /\ freespaceid' = 1 /\ freespaceidnext' = 1
          /\ pushpc' = << >>
  /\ UNCHANGED <<prog, movinglabelspossible, labels, freespacestart, freespacepos, output>>

Next ==
  \/ Org \/ Base \/ BaseOff \/ Db \/ Instr \/ InstrUnknown \/ Label
  \/ FreespaceMeasure \/ FreespaceAllocate \/ FreespaceResize
  \/ FreespaceFull \/ FreespaceLimit
  \/ PushPc \/ PullPc \/ PullPcEmpty
  \/ FinishPass

Spec == Init /\ [][Next]_vars /\ WF_vars(Next)

-----------------------------------------------------------------------------
TypeOK ==
  /\ prog \in Seq(Command) /\ ip \in 1 .. Len(prog) + 1 /\ pass \in 0 .. 3
  /\ snespos \in Pos /\ startpos \in Pos /\ realsnespos \in Pos /\ realstartpos \in Pos
  /\ DOMAIN labels \subseteq LabelNames
  /\ \A l \in DOMAIN labels : labels[l] \in Pos
  /\ freespaceid \in Ids /\ freespaceidnext \in Ids
  /\ freespacestart \in Pos /\ freespaceextra \in Nat
  /\ freespacelen \in [Ids -> Int] /\ freespacepos \in [Ids -> Pos]
  /\ pushpc \in Seq(Saved)
  /\ errored \in BOOLEAN /\ movinglabelspossible \in BOOLEAN
  /\ blocks \subseteq [start : Nat, len : Int]
  /\ written \subseteq [addr : Int, fs : Ids \cup {-1, 0}]
  /\ operands \subseteq [l : LabelNames, pos : Pos]
  /\ placed \subseteq [l : LabelNames, pos : Pos]

Succeeded == pass = 3 /\ ~errored

(***************************************************************************)
(* Every operand of a patch that assembles without an error is the address *)
(* its label really has in the output: what pass 1 predicted and pass 2    *)
(* emitted is where pass 2 put the label.                                  *)
(***************************************************************************)
OperandsResolve ==
  Succeeded => \A o \in operands : \A p \in placed : o.l = p.l => o.pos = p.pos

(***************************************************************************)
(* Inside a freespace, the position, freespaceid and freespacestart speak  *)
(* of the same freespace whatever was pushed and pulled in between, so     *)
(* that freespaceend measures the freespace that it files the length for.  *)
(***************************************************************************)
MeasuresOwnFreespace ==
  pass < 3 /\ snespos.fs > 0 =>
    snespos.fs = freespaceid /\ freespacestart.fs = freespaceid

(***************************************************************************)
(* No two RATS blocks of a patch overlap, not even when pass 2 has resized *)
(* a block in place without looking at what follows it.                    *)
(***************************************************************************)
BlocksDisjoint ==
  ~errored => \A b, c \in blocks : b # c => Extent(b) \cap Extent(c) = {}

(***************************************************************************)
(* Every byte of a patch that assembles without an error, written in a     *)
(* freespace, is inside a block whose RATS tag has survived and says so:   *)
(* otherwise the next patch would take the space again.                    *)
(***************************************************************************)
BytesProtected ==
  Succeeded => \A w \in written :
    w.fs > 0 => \E b \in blocks : Intact(b) /\ w.addr \in Content(b)

(***************************************************************************)
(* Once pass 1 has allocated a freespace, measuring it again never finds   *)
(* it longer than what was asked for; and pass 2 measures exactly what     *)
(* pass 1 measured, so that the tags it wrote on entering the freespaces   *)
(* are still right when it leaves them.                                    *)
(***************************************************************************)
LengthsSettle ==
  [][pass > 0 /\ ~errored' => \A i \in Ids :
       /\ freespacelen'[i] <= freespacelen[i]
       /\ pass = 2 => freespacelen'[i] = freespacelen[i]]_vars

(***************************************************************************)
(* No label of a freespace is anywhere else in pass 2 than in pass 1:      *)
(* label_moving, which the code calls an internal error, is for none of    *)
(* them.  (Outside of freespaces a label at the border of a bank may move, *)
(* and OperandsResolve says that the patch then fails.)                    *)
(***************************************************************************)
LabelsStay ==
  [][~errored => \A p \in placed' \ placed : p.pos.fs > 0 => labels[p.l] = p.pos]_vars
=============================================================================
