---------------------------- MODULE PassesProofs ----------------------------
(***************************************************************************)
(* Theorems about the three passes, for every set of programs.             *)
(***************************************************************************)
EXTENDS Passes, TLAPS, WellFoundedInduction, SequenceTheorems

(***************************************************************************)
(* Lemmas about the operators                                              *)
(***************************************************************************)

\* Positions of a freespace, of no freespace, and positions not set.
LEMMA PosType ==
  /\ \A f \in Ids \cup {-1, 0}, a \in Int : At(f, a) \in Pos /\ At(f, a).fs = f
  /\ Unset \in Pos /\ Unset.fs = -1
BY DEF At, Pos, Unset

\* Going on in a bank does not leave the freespace.
LEMMA PlusType ==
  \A p \in Pos, n \in Int : Plus(p, n) \in Pos /\ Plus(p, n).fs = p.fs
BY DEF Plus, Pos

\* A position is left alone by verifysnespos, or it is that of no freespace.
LEMMA VerifiedType ==
  \A p \in Pos : /\ Verified(p) \in Pos
                 /\ Verified(p).fs = p.fs \/ Verified(p).fs = 0
BY PosType DEF Verified

\* What is left of a stack when its top is taken.
LEMMA FrontType ==
  ASSUME NEW S, NEW s \in Seq(S), s # << >>
  PROVE  /\ s[Len(s)] \in S /\ Len(s) \in DOMAIN s
         /\ Front(s) \in Seq(S)
         /\ \A i \in DOMAIN Front(s) : i \in DOMAIN s /\ Front(s)[i] = s[i]
BY DEF Front

\* freespaceend files an integer, if anything, under an id.
LEMMA EndedType == TypeOK => Ended \in [Ids -> Int]
BY DEF TypeOK, Ended, Pos

\* The ids that getfreespaceid hands out are those the arrays have room for.
LEMMA TakeIdType ==
  TypeOK /\ TakeId =>
    /\ freespaceidnext \in Ids \ {MaxFreespaces + 1}
    /\ freespacelen' \in [Ids -> Int] /\ freespaceextra' \in Nat
    /\ freespaceid' \in Ids /\ freespaceidnext' \in Ids
BY EndedType, PassesAssumption DEF TypeOK, TakeId, Ids

\* A command that goes through goes on to the next one or ends the assembly.
LEMMA ProceedType ==
  ASSUME TypeOK, ip <= Len(prog), UNCHANGED prog, Proceed \/ BlockError \/ Fatal
  PROVE  ip' \in 1 .. Len(prog') + 1 /\ pass' \in 0 .. 3 /\ errored' \in BOOLEAN
<1>1. prog \in Seq(Command) /\ ip \in 1 .. Len(prog) + 1 /\ pass \in 0 .. 3
  BY DEF TypeOK
<1>2. errored \in BOOLEAN BY DEF TypeOK
<1>3. errored' = errored \/ errored' = TRUE
  BY DEF Proceed, BlockError, Fatal
<1>4. (ip' = ip + 1 /\ pass' = pass) \/ (ip' = ip /\ pass' = 3)
  BY DEF Proceed, BlockError, Fatal
<1>5. Len(prog) \in Nat /\ Len(prog') = Len(prog) BY <1>1
<1>6. ip' \in 1 .. Len(prog) + 1 /\ pass' \in 0 .. 3 BY <1>1, <1>4, <1>5
<1>7. errored' \in BOOLEAN BY <1>2, <1>3
<1>. QED BY <1>5, <1>6, <1>7

\* What a command of the program is.
LEMMA CmdType ==
  ASSUME TypeOK, NEW op, Running(op)
  PROVE  /\ Cmd \in Command /\ ip <= Len(prog)
         /\ op = "org" \/ op = "base" => Cmd.at \in Nat
         /\ op = "db" => Cmd.n \in Nat
         /\ op = "label" \/ op = "ref" => Cmd.l \in LabelNames
<1>1. prog \in Seq(Command) /\ ip \in 1 .. Len(prog) BY DEF TypeOK, Running
<1>2. Cmd \in Command BY <1>1 DEF Cmd
<1>3. Cmd.op = op BY DEF Running, Cmd
<1>. QED BY <1>1, <1>2, <1>3 DEF Command

-----------------------------------------------------------------------------
(***************************************************************************)
(* Type correctness                                                        *)
(***************************************************************************)

\* The four positions.
PositionsOK ==
  snespos \in Pos /\ startpos \in Pos /\ realsnespos \in Pos /\ realstartpos \in Pos

\* What writing does to the positions and to the ROM.
LEMMA WriteType ==
  ASSUME TypeOK, NEW n \in Nat, Write(n)
  PROVE  PositionsOK' /\ written' \subseteq [addr : Int, fs : Ids \cup {-1, 0}]
<1>1. PositionsOK BY DEF TypeOK, PositionsOK
<1>2. PositionsOK' BY <1>1, VerifiedType, PlusType DEF Write, PositionsOK
<1>3. Verified(realsnespos) \in Pos BY <1>1, VerifiedType DEF PositionsOK
<1>4. \A a \in Verified(realsnespos).addr .. Verified(realsnespos).addr + n - 1 : a \in Int
  BY <1>3 DEF Pos
<1>5. Verified(realsnespos).fs \in Ids \cup {-1, 0} BY <1>3 DEF Pos
<1>6. written' \subseteq [addr : Int, fs : Ids \cup {-1, 0}]
  BY <1>4, <1>5 DEF Write, TypeOK
<1>. QED BY <1>2, <1>6

LEMMA TypeInit == Init => TypeOK
<1> SUFFICES ASSUME Init PROVE TypeOK
  OBVIOUS
<1>1. prog \in Seq(Command) /\ ip \in 1 .. Len(prog) + 1 /\ pass \in 0 .. 3
  BY PassesAssumption DEF Init
<1>2. errored \in BOOLEAN /\ movinglabelspossible \in BOOLEAN
  BY PassesAssumption DEF Init
<1>3. freespacelen \in [Ids -> Int] /\ freespacepos \in [Ids -> Pos]
  BY PassesAssumption, PosType DEF Init
<1>4. 0 \in Ids \cup {-1, 0} /\ 1 \in Ids
  BY PassesAssumption DEF Ids
<1>5. /\ DOMAIN labels \subseteq LabelNames
      /\ \A l \in DOMAIN labels : labels[l] \in Pos
  BY DEF Init
<1>6. PositionsOK /\ freespacestart \in Pos
  <2>1. At(0, 0) \in Pos BY <1>4, PosType
  <2>. QED BY <2>1, PosType DEF Init, PositionsOK
<1>7. /\ pushpc = << >> /\ blocks = {} /\ written = {} /\ operands = {} /\ placed = {}
      /\ freespaceextra = 0 /\ freespaceid = 1 /\ freespaceidnext = 1
  BY DEF Init
<1>. QED BY <1>1, <1>2, <1>3, <1>4, <1>5, <1>6, <1>7 DEF PositionsOK, TypeOK

LEMMA TypeNext == TypeOK /\ [Next]_vars => TypeOK'
<1> SUFFICES ASSUME TypeOK, [Next]_vars PROVE TypeOK'
  OBVIOUS
<1>1. CASE Org
  <2>1. ip' \in 1 .. Len(prog') + 1 /\ pass' \in 0 .. 3 /\ errored' \in BOOLEAN
    BY <1>1, CmdType, ProceedType DEF Org
  <2>2. At(0, Cmd.at) \in Pos
    <3>1. Cmd.at \in Nat BY <1>1, CmdType DEF Org
    <3>2. 0 \in Ids \cup {-1, 0} OBVIOUS
    <3>. QED BY <3>1, <3>2, PosType
  <2>. QED BY <1>1, <2>1, <2>2, EndedType DEF Org, SetAll, output, TypeOK
<1>2. CASE Base
  <2>1. ip' \in 1 .. Len(prog') + 1 /\ pass' \in 0 .. 3 /\ errored' \in BOOLEAN
    BY <1>2, CmdType, ProceedType DEF Base
  <2>2. At(0, Cmd.at) \in Pos
    <3>1. Cmd.at \in Nat BY <1>2, CmdType DEF Base
    <3>2. 0 \in Ids \cup {-1, 0} OBVIOUS
    <3>. QED BY <3>1, <3>2, PosType
  <2>. QED BY <1>2, <2>1, <2>2 DEF Base, freespace, output, TypeOK
<1>3. CASE BaseOff
  <2>1. ip' \in 1 .. Len(prog') + 1 /\ pass' \in 0 .. 3 /\ errored' \in BOOLEAN
    BY <1>3, CmdType, ProceedType DEF BaseOff
  <2>. QED BY <1>3, <2>1 DEF BaseOff, freespace, output, TypeOK
<1>4. CASE Db
  <2>1. ip' \in 1 .. Len(prog') + 1 /\ pass' \in 0 .. 3 /\ errored' \in BOOLEAN
    BY <1>4, CmdType, ProceedType DEF Db
  <2>2. Cmd.n \in Nat /\ Write(Cmd.n) BY <1>4, CmdType DEF Db
  <2>3. PositionsOK' /\ written' \subseteq [addr : Int, fs : Ids \cup {-1, 0}]
    BY <2>2, WriteType
  <2>. QED BY <1>4, <2>1, <2>3 DEF Db, freespace, PositionsOK, TypeOK
<1>5. CASE Instr
  <2>1. ip' \in 1 .. Len(prog') + 1 /\ pass' \in 0 .. 3 /\ errored' \in BOOLEAN
    BY <1>5, CmdType, ProceedType DEF Instr
  <2>2. Cmd.l \in LabelNames /\ Write(1 + OperandLen(Cmd.l)) BY <1>5, CmdType DEF Instr
  <2>3. OperandLen(Cmd.l) \in Nat /\ OperandSlack(Cmd.l) \in Nat
    BY PassesAssumption DEF OperandLen, LenForLabel, OperandSlack
  <2>4. PositionsOK' /\ written' \subseteq [addr : Int, fs : Ids \cup {-1, 0}]
    BY <2>2, <2>3, WriteType
  <2>5. operands' \subseteq [l : LabelNames, pos : Pos]
    BY <1>5, <2>2 DEF Instr, TypeOK
  <2>6. freespaceextra' \in Nat
    BY <1>5, <2>2, <2>3 DEF Instr, TypeOK
  <2>7. UNCHANGED <<prog, movinglabelspossible, labels, freespaceid, freespaceidnext, freespacestart,
                    freespacelen, freespacepos, pushpc, blocks, placed>>
    BY <1>5 DEF Instr
  <2>. QED BY <2>1, <2>4, <2>5, <2>6, <2>7 DEF PositionsOK, TypeOK
<1>6. CASE InstrUnknown
  <2>1. ip' \in 1 .. Len(prog') + 1 /\ pass' \in 0 .. 3 /\ errored' \in BOOLEAN
    BY <1>6, CmdType, ProceedType DEF InstrUnknown
  <2>. QED BY <1>6, <2>1 DEF InstrUnknown, position, freespace, output, TypeOK
<1>7. CASE Label
  <2>1. ip' \in 1 .. Len(prog') + 1 /\ pass' \in 0 .. 3 /\ errored' \in BOOLEAN
    <3>1. Proceed \/ BlockError \/ Fatal BY <1>7 DEF Label, LabelCheck
    <3>2. Running("label") /\ UNCHANGED prog BY <1>7 DEF Label
    <3>. QED BY <3>1, <3>2, CmdType, ProceedType
  <2>2. Cmd.l \in LabelNames BY <1>7, CmdType DEF Label
  <2>3. PositionsOK /\ Verified(snespos) \in Pos
    BY VerifiedType DEF TypeOK, PositionsOK
  <2>4. PositionsOK'
    BY <1>7, <2>3, PosType DEF Label, Verify, SetAll, PositionsOK, position
  <2>5. /\ DOMAIN labels' \subseteq LabelNames
        /\ \A l \in DOMAIN labels' : labels'[l] \in Pos
    BY <1>7, <2>2, <2>3 DEF Label, TypeOK
  <2>6. placed' \subseteq [l : LabelNames, pos : Pos]
    BY <1>7, <2>2, <2>3 DEF Label, TypeOK
  <2>7. movinglabelspossible' \in BOOLEAN
    BY <1>7 DEF Label, TypeOK
  <2>. QED BY <1>7, <2>1, <2>4, <2>5, <2>6, <2>7 DEF Label, freespace, PositionsOK, TypeOK
<1>8. CASE FreespaceMeasure
  <2>1. ip' \in 1 .. Len(prog') + 1 /\ pass' \in 0 .. 3 /\ errored' \in BOOLEAN
    <3>1. Proceed \/ BlockError \/ Fatal BY <1>8 DEF FreespaceMeasure, EnterFreespace
    <3>2. Running("freespace") /\ UNCHANGED prog BY <1>8 DEF FreespaceMeasure, TakeId
    <3>. QED BY <3>1, <3>2, CmdType, ProceedType
  <2>2. At(freespaceidnext, 0) \in Pos
    BY <1>8, PosType, TakeIdType DEF FreespaceMeasure
  <2>3. PositionsOK' /\ freespacestart' \in Pos
    BY <1>8, <2>2 DEF FreespaceMeasure, EnterFreespace, SetAll, PositionsOK
  <2>. QED BY <1>8, <2>1, <2>3, TakeIdType DEF FreespaceMeasure, PositionsOK, output, TypeOK
<1>9. CASE FreespaceAllocate
  <2>1. ip' \in 1 .. Len(prog') + 1 /\ pass' \in 0 .. 3 /\ errored' \in BOOLEAN
    <3>1. Proceed \/ BlockError \/ Fatal BY <1>9 DEF FreespaceAllocate, EnterFreespace
    <3>2. Running("freespace") /\ UNCHANGED prog BY <1>9 DEF FreespaceAllocate, TakeId
    <3>. QED BY <3>1, <3>2, CmdType, ProceedType
  <2> DEFINE len == Ended[freespaceidnext]
  <2>2. PICK p \in Candidates(len) :
          /\ freespacepos' = [freespacepos EXCEPT ![freespaceidnext] = At(freespaceidnext, p)]
          /\ blocks' = IF len = 0 THEN blocks ELSE blocks \cup {[start |-> p, len |-> len]}
          /\ EnterFreespace(At(freespaceidnext, p))
    BY <1>9 DEF FreespaceAllocate
  <2>3. TakeId BY <1>9 DEF FreespaceAllocate
  <2>4. p \in Nat BY PassesAssumption DEF Candidates
  <2>5. len \in Int BY <2>3, EndedType, TakeIdType
  <2>6. At(freespaceidnext, p) \in Pos BY <2>3, <2>4, PosType, TakeIdType
  <2>7. PositionsOK' /\ freespacestart' \in Pos
    BY <2>2, <2>6 DEF EnterFreespace, SetAll, PositionsOK
  <2>8. freespacepos' \in [Ids -> Pos] BY <2>2, <2>6 DEF TypeOK
  <2>9. blocks' \subseteq [start : Nat, len : Int] BY <2>2, <2>4, <2>5 DEF TypeOK
  <2>. QED BY <1>9, <2>1, <2>3, <2>7, <2>8, <2>9, TakeIdType DEF FreespaceAllocate, PositionsOK, TypeOK
<1>10. CASE FreespaceResize
  <2>1. ip' \in 1 .. Len(prog') + 1 /\ pass' \in 0 .. 3 /\ errored' \in BOOLEAN
    <3>1. Proceed \/ BlockError \/ Fatal BY <1>10 DEF FreespaceResize, EnterFreespace
    <3>2. Running("freespace") /\ UNCHANGED prog BY <1>10 DEF FreespaceResize, TakeId
    <3>. QED BY <3>1, <3>2, CmdType, ProceedType
  <2>2. TakeId BY <1>10 DEF FreespaceResize
  <2>3. freespacepos[freespaceidnext] \in Pos /\ Ended[freespaceidnext] \in Int
    BY <2>2, TakeIdType, EndedType DEF TypeOK
  <2>4. PositionsOK' /\ freespacestart' \in Pos
    BY <1>10, <2>3 DEF FreespaceResize, EnterFreespace, SetAll, PositionsOK
  <2>5. blocks' \subseteq [start : Nat, len : Int]
    BY <1>10, <2>3 DEF FreespaceResize, Resized, RatsStart, TagLen, TypeOK
  <2>. QED BY <1>10, <2>1, <2>2, <2>4, <2>5, TakeIdType DEF FreespaceResize, PositionsOK, TypeOK
<1>11. CASE FreespaceFull
  <2>1. ip' \in 1 .. Len(prog') + 1 /\ pass' \in 0 .. 3 /\ errored' \in BOOLEAN
    <3>1. Proceed \/ BlockError \/ Fatal BY <1>11 DEF FreespaceFull, EnterFreespace
    <3>2. Running("freespace") /\ UNCHANGED prog BY <1>11 DEF FreespaceFull, TakeId
    <3>. QED BY <3>1, <3>2, CmdType, ProceedType
  <2>2. TakeId BY <1>11 DEF FreespaceFull
  <2>3. freespacepos' \in [Ids -> Pos] BY <1>11, PosType DEF FreespaceFull, TypeOK
  <2>. QED BY <1>11, <2>1, <2>2, <2>3, TakeIdType, PosType DEF FreespaceFull, output, TypeOK
<1>12. CASE FreespaceLimit
  <2>1. ip' \in 1 .. Len(prog') + 1 /\ pass' \in 0 .. 3 /\ errored' \in BOOLEAN
    <3>1. Proceed \/ BlockError \/ Fatal BY <1>12 DEF FreespaceLimit, EnterFreespace
    <3>2. Running("freespace") /\ UNCHANGED prog BY <1>12 DEF FreespaceLimit, TakeId
    <3>. QED BY <3>1, <3>2, CmdType, ProceedType
  <2>2. PosEnded \in Pos BY PosType DEF PosEnded, TypeOK
  <2>. QED BY <1>12, <2>1, <2>2, EndedType DEF FreespaceLimit, output, TypeOK
<1>13. CASE PushPc
  <2>1. ip' \in 1 .. Len(prog') + 1 /\ pass' \in 0 .. 3 /\ errored' \in BOOLEAN
    BY <1>13, CmdType, ProceedType DEF PushPc
  <2>2. pushpc' \in Seq(Saved) BY <1>13 DEF PushPc, Saved, TypeOK
  <2>. QED BY <1>13, <2>1, <2>2, PosType DEF PushPc, SetAll, freespace, output, TypeOK
<1>14. CASE PullPc
  <2>1. ip' \in 1 .. Len(prog') + 1 /\ pass' \in 0 .. 3 /\ errored' \in BOOLEAN
    BY <1>14, CmdType, ProceedType DEF PullPc
  <2>2. pushpc \in Seq(Saved) BY DEF TypeOK
  <2>3. pushpc[Len(pushpc)] \in Saved /\ Front(pushpc) \in Seq(Saved)
    BY <1>14, <2>2, FrontType DEF PullPc
  <2>. QED BY <1>14, <2>1, <2>3, EndedType DEF PullPc, Saved, output, TypeOK
<1>15. CASE PullPcEmpty
  <2>1. ip' \in 1 .. Len(prog') + 1 /\ pass' \in 0 .. 3 /\ errored' \in BOOLEAN
    BY <1>15, CmdType, ProceedType DEF PullPcEmpty
  <2>. QED BY <1>15, <2>1 DEF PullPcEmpty, position, freespace, output, TypeOK
<1>16. CASE FinishPass
  <2>1. Len(prog) \in Nat BY DEF TypeOK
  <2>2. ip' \in 1 .. Len(prog') + 1 /\ pass' \in 0 .. 3
    BY <1>16, <2>1 DEF FinishPass, TypeOK
  <2>3. errored' \in BOOLEAN BY <1>16 DEF FinishPass, TypeOK
  <2>4. PosEnded \in Pos BY PosType DEF PosEnded, TypeOK
  <2>5. PositionsOK' BY <1>16, <2>4, PosType DEF FinishPass, FreshPositions, PositionsOK, TypeOK
  <2>6. 1 \in Ids BY PassesAssumption DEF Ids
  <2>7. freespaceid' \in Ids /\ freespaceidnext' \in Ids /\ freespacelen' \in [Ids -> Int]
    BY <1>16, <2>6, EndedType DEF FinishPass, TypeOK
  <2>8. pushpc' \in Seq(Saved)
    <3>1. pushpc' = pushpc \/ pushpc' = << >> BY <1>16 DEF FinishPass
    <3>2. pushpc \in Seq(Saved) BY DEF TypeOK
    <3>3. << >> \in Seq(Saved) OBVIOUS
    <3>. QED BY <3>1, <3>2, <3>3
  <2>9. /\ freespaceextra' = 0
        /\ UNCHANGED <<prog, movinglabelspossible, labels, freespacestart, freespacepos, output>>
    BY <1>16 DEF FinishPass
  <2>. QED BY <2>2, <2>3, <2>5, <2>7, <2>8, <2>9 DEF output, PositionsOK, TypeOK
<1>17. CASE UNCHANGED vars
  BY <1>17 DEF vars, position, freespace, output, TypeOK
<1>. QED BY <1>1, <1>2, <1>3, <1>4, <1>5, <1>6, <1>7, <1>8, <1>9, <1>10, <1>11, <1>12,
            <1>13, <1>14, <1>15, <1>16, <1>17 DEF Next

(***************************************************************************)
(* TypeOK is an invariant of the passes.                                   *)
(***************************************************************************)
THEOREM TypeCorrect == Spec => []TypeOK
<1>. QED BY TypeInit, TypeNext, PTL DEF Spec

-----------------------------------------------------------------------------
(***************************************************************************)
(* Freespaces measure themselves                                           *)
(***************************************************************************)

\* A position, and the freespaceid and freespacestart it is used with.
Own(p, id, start) == p.fs > 0 => p.fs = id /\ start.fs = id

\* What pullpc brings back must fit together as well, and so must what base off
\* goes back to.
OwnInv ==
  /\ \A i \in Ids : freespacepos[i].fs \in {-1, i}
  /\ pass < 3 =>
       /\ Own(snespos, freespaceid, freespacestart)
       /\ Own(realsnespos, freespaceid, freespacestart)
       /\ \A i \in DOMAIN pushpc :
            /\ Own(pushpc[i].snespos, pushpc[i].freeid, pushpc[i].freest)
            /\ Own(pushpc[i].snesposreal, pushpc[i].freeid, pushpc[i].freest)

LEMMA OwnInit == Init => OwnInv
BY PosType DEF Init, OwnInv, Own

\* Entering a freespace with a position of its own or with none.
LEMMA EnterOwn ==
  ASSUME TypeOK, OwnInv, TakeId, pass < 3, UNCHANGED pushpc,
         NEW p, p.fs \in {-1, freespaceidnext}, EnterFreespace(p),
         \A i \in Ids : freespacepos'[i].fs \in {-1, i}
  PROVE  OwnInv'
BY DEF OwnInv, Own, TakeId, EnterFreespace, SetAll

\* Positions that stay, become those of no freespace, or change places.
LEMMA StayOwn ==
  ASSUME TypeOK, OwnInv, pass < 3, UNCHANGED <<freespaceid, freespacestart, freespacepos, pushpc>>,
         snespos'.fs \in {snespos.fs, realsnespos.fs, 0, -1},
         realsnespos'.fs \in {realsnespos.fs, 0, -1}
  PROVE  OwnInv'
BY DEF OwnInv, Own

LEMMA OwnNext == TypeOK /\ TypeOK' /\ OwnInv /\ [Next]_vars => OwnInv'
<1> SUFFICES ASSUME TypeOK, TypeOK', OwnInv, [Next]_vars PROVE OwnInv'
  OBVIOUS
<1>. 0 \in Ids \cup {-1, 0}
  OBVIOUS
<1>1. CASE Org
  <2>1. At(0, Cmd.at).fs = 0 BY DEF At
  <2>. QED BY <1>1, <2>1, StayOwn DEF Org, SetAll, Running
<1>2. CASE Base
  <2>1. At(0, Cmd.at).fs = 0 BY DEF At
  <2>. QED BY <1>2, <2>1, StayOwn DEF Base, freespace, Running
<1>3. CASE BaseOff
  BY <1>3, StayOwn DEF BaseOff, freespace, Running
<1>4. ASSUME NEW n \in Nat, Write(n)
      PROVE  snespos'.fs \in {snespos.fs, 0} /\ realsnespos'.fs \in {realsnespos.fs, 0}
  <2>1. snespos \in Pos /\ realsnespos \in Pos BY DEF TypeOK
  <2>2. \A p \in Pos : Plus(Verified(p), n).fs \in {p.fs, 0} BY VerifiedType, PlusType
  <2>. QED BY <1>4, <2>1, <2>2 DEF Write
<1>5. CASE Db
  <2>1. Cmd.n \in Nat /\ Write(Cmd.n) BY <1>5, CmdType DEF Db
  <2>. QED BY <1>5, <2>1, <1>4, StayOwn DEF Db, freespace, Running
<1>6. CASE Instr
  <2>1. OperandLen(Cmd.l) \in Nat BY DEF OperandLen, LenForLabel
  <2>2. Write(1 + OperandLen(Cmd.l)) BY <1>6 DEF Instr
  <2>. QED BY <1>6, <2>1, <2>2, <1>4, StayOwn DEF Instr, Running
<1>7. CASE InstrUnknown
  BY <1>7, StayOwn DEF InstrUnknown, position, freespace, Running
<1>8. CASE Label
  <2>1. At(0, 0).fs = 0 BY DEF At
  <2>2. snespos'.fs \in {snespos.fs, 0} /\ realsnespos'.fs \in {realsnespos.fs, 0}
    BY <1>8, <2>1 DEF Label, Verify, SetAll, position
  <2>. QED BY <1>8, <2>2, StayOwn DEF Label, freespace, Running
<1>9. CASE FreespaceMeasure
  <2>1. At(freespaceidnext, 0).fs = freespaceidnext BY DEF At
  <2>2. \A i \in Ids : freespacepos'[i].fs \in {-1, i} BY <1>9 DEF FreespaceMeasure, OwnInv
  <2>. QED BY <1>9, <2>1, <2>2, EnterOwn DEF FreespaceMeasure
<1>10. CASE FreespaceAllocate
  <2>1. PICK p : /\ freespacepos' = [freespacepos EXCEPT ![freespaceidnext] = At(freespaceidnext, p)]
                 /\ EnterFreespace(At(freespaceidnext, p))
    BY <1>10 DEF FreespaceAllocate
  <2>2. At(freespaceidnext, p).fs = freespaceidnext BY DEF At
  <2>3. \A i \in Ids : freespacepos'[i].fs \in {-1, i} BY <2>1, <2>2 DEF OwnInv, TypeOK
  <2>. QED BY <1>10, <2>1, <2>2, <2>3, EnterOwn DEF FreespaceAllocate
<1>11. CASE FreespaceResize
  <2>1. freespacepos[freespaceidnext].fs \in {-1, freespaceidnext} BY DEF OwnInv, TypeOK
  <2>2. \A i \in Ids : freespacepos'[i].fs \in {-1, i} BY <1>11 DEF FreespaceResize, OwnInv
  <2>. QED BY <1>11, <2>1, <2>2, EnterOwn DEF FreespaceResize
<1>12. CASE FreespaceFull
  <2>1. pass' = 3 BY <1>12 DEF FreespaceFull, Fatal
  <2>2. Unset.fs = -1 BY DEF Unset, At
  <2>3. freespacepos' = [freespacepos EXCEPT ![freespaceidnext] = Unset] BY <1>12 DEF FreespaceFull
  <2>4. \A i \in Ids : freespacepos'[i].fs \in {-1, i} BY <2>2, <2>3 DEF OwnInv, TypeOK
  <2>. QED BY <2>1, <2>4 DEF OwnInv
<1>13. CASE FreespaceLimit
  BY <1>13 DEF FreespaceLimit, Fatal, OwnInv
<1>14. CASE PushPc
  <2>1. pushpc \in Seq(Saved) BY DEF TypeOK
  <2>2. pass < 3 BY <1>14 DEF PushPc, Running
  <2>. QED BY <1>14, <2>1, <2>2, PosType DEF PushPc, SetAll, freespace, OwnInv, Own
<1>15. CASE PullPc
  <2>1. pushpc \in Seq(Saved) BY DEF TypeOK
  <2>2. pass < 3 /\ pushpc # << >> BY <1>15 DEF PullPc, Running
  <2>3. Len(pushpc) \in DOMAIN pushpc /\ \A i \in DOMAIN Front(pushpc) :
          i \in DOMAIN pushpc /\ Front(pushpc)[i] = pushpc[i]
    BY <2>1, <2>2, FrontType
  <2>. QED BY <1>15, <2>2, <2>3 DEF PullPc, OwnInv, Own
<1>16. CASE PullPcEmpty
  BY <1>16, StayOwn DEF PullPcEmpty, position, freespace, Running
<1>17. CASE FinishPass
  BY <1>17, PosType DEF FinishPass, FreshPositions, OwnInv, Own, TypeOK
<1>18. CASE UNCHANGED vars
  BY <1>18 DEF vars, position, freespace, OwnInv, Own
<1>. QED BY <1>1, <1>2, <1>3, <1>5, <1>6, <1>7, <1>8, <1>9, <1>10, <1>11, <1>12,
            <1>13, <1>14, <1>15, <1>16, <1>17, <1>18 DEF Next

(***************************************************************************)
(* Every freespace is measured by its own start and filed under its own    *)
(* id, whatever pushpc, pullpc, base and org do in between.                *)
(***************************************************************************)
THEOREM MeasuresOwn == Spec => []MeasuresOwnFreespace
<1>1. OwnInv => MeasuresOwnFreespace BY DEF OwnInv, Own, MeasuresOwnFreespace
<1>. QED BY OwnInit, OwnNext, TypeCorrect, <1>1, PTL DEF Spec

-----------------------------------------------------------------------------
(***************************************************************************)
(* Operands resolve                                                        *)
(***************************************************************************)

\* Pass 2 writes operands from a label table that no longer changes, and until
\* an error every label it meets is where the table says.
OperandsInv ==
  /\ pass < 2 => operands = {} /\ placed = {}
  /\ \A o \in operands : o.l \in DOMAIN labels /\ o.pos = labels[o.l]
  /\ ~errored => ~movinglabelspossible
  /\ ~errored => \A p \in placed : p.l \in DOMAIN labels /\ p.pos = labels[p.l]

LEMMA OperandsInit == StaleMoving = {FALSE} /\ Init => OperandsInv
BY DEF Init, OperandsInv

\* No command undoes an error or goes back to an earlier pass.
LEMMA NoWayBack ==
  ASSUME TypeOK, Proceed \/ BlockError \/ Fatal
  PROVE  (~errored' => ~errored) /\ (pass' < 2 => pass < 2)
<1>1. ~errored' => ~errored BY DEF Proceed, BlockError, Fatal
<1>2. pass' = pass \/ pass' = 3 BY DEF Proceed, BlockError, Fatal
<1>. QED BY <1>1, <1>2

\* Commands that neither define a label nor use one.
LEMMA QuietStep ==
  ASSUME TypeOK, OperandsInv, Proceed \/ BlockError \/ Fatal,
         UNCHANGED <<labels, operands, placed, movinglabelspossible>>
  PROVE  OperandsInv'
BY NoWayBack DEF OperandsInv

LEMMA OperandsNext == TypeOK /\ OperandsInv /\ [Next]_vars => OperandsInv'
<1> SUFFICES ASSUME TypeOK, OperandsInv, [Next]_vars PROVE OperandsInv'
  OBVIOUS
<1>1. CASE Org \/ Base \/ BaseOff \/ Db
  BY <1>1, QuietStep DEF Org, Base, BaseOff, Db, output
<1>2. CASE FreespaceMeasure \/ FreespaceAllocate \/ FreespaceResize
  BY <1>2, QuietStep DEF FreespaceMeasure, FreespaceAllocate, FreespaceResize, EnterFreespace, output
<1>3. CASE FreespaceFull \/ FreespaceLimit
  BY <1>3, QuietStep DEF FreespaceFull, FreespaceLimit, output
<1>4. CASE PushPc \/ PullPc \/ PullPcEmpty \/ InstrUnknown
  BY <1>4, QuietStep DEF PushPc, PullPc, PullPcEmpty, InstrUnknown, output
<1>5. CASE Instr
  <2>1. /\ Proceed
        /\ UNCHANGED <<labels, placed, movinglabelspossible>>
        /\ pass = 2 => Cmd.l \in DOMAIN labels
        /\ operands' = IF pass = 2
                       THEN operands \cup {[l |-> Cmd.l, pos |-> labels[Cmd.l]]}
                       ELSE operands
    BY <1>5 DEF Instr
  <2>2. \A o \in operands' : o.l \in DOMAIN labels /\ o.pos = labels[o.l]
    BY <2>1 DEF OperandsInv
  <2>3. (~errored' => ~errored) /\ (pass' < 2 => pass < 2) BY <2>1, NoWayBack
  <2>4. pass < 2 => operands' = {} BY <2>1 DEF OperandsInv
  <2>. QED BY <2>1, <2>2, <2>3, <2>4 DEF OperandsInv
<1>6. CASE Label
  <2> DEFINE here == Verified(snespos)
  <2>1. CASE pass < 2
    <3>1. operands' = {} /\ placed' = {} BY <1>6, <2>1 DEF Label, OperandsInv
    <3>2. ~errored' => ~errored /\ ~movinglabelspossible'
      BY <1>6, <2>1 DEF Label, Proceed, BlockError, Fatal, OperandsInv
    <3>. QED BY <3>1, <3>2 DEF OperandsInv
  <2>2. CASE pass = 2
    <3>1. /\ placed' = placed \cup {[l |-> Cmd.l, pos |-> here]}
          /\ LabelCheck(Cmd.l, here)
          /\ UNCHANGED <<movinglabelspossible, labels, operands>>
      BY <1>6, <2>2 DEF Label
    <3>2. Proceed \/ BlockError BY <3>1 DEF LabelCheck
    <3>3. (~errored' => ~errored) /\ (pass' < 2 => pass < 2) BY <3>2, NoWayBack
    <3>4. ~errored' => Cmd.l \in DOMAIN labels /\ labels[Cmd.l] = here
      BY <3>1, <3>3 DEF LabelCheck, BlockError, OperandsInv
    <3>5. ~errored' => \A p \in placed' : p.l \in DOMAIN labels /\ p.pos = labels[p.l]
      BY <3>1, <3>3, <3>4 DEF OperandsInv
    <3>. QED BY <2>2, <3>1, <3>3, <3>5 DEF OperandsInv
  <2>3. pass \in 0 .. 2 BY <1>6 DEF Label, Running, TypeOK
  <2>. QED BY <2>1, <2>2, <2>3
<1>7. CASE FinishPass
  <2>1. /\ UNCHANGED <<labels, operands, placed, movinglabelspossible>>
        /\ ~errored' => ~errored
    BY <1>7 DEF FinishPass, output
  <2>2. pass' < 2 => pass < 2 BY <1>7 DEF FinishPass, TypeOK
  <2>. QED BY <2>1, <2>2 DEF OperandsInv
<1>8. CASE UNCHANGED vars
  BY <1>8 DEF vars, output, OperandsInv
<1>. QED BY <1>1, <1>2, <1>3, <1>4, <1>5, <1>6, <1>7, <1>8 DEF Next

(***************************************************************************)
(* In a process that has met no redefined label before, an assembly        *)
(* without errors has put every label where every operand says it is.      *)
(***************************************************************************)
THEOREM OperandsCorrect ==
  ASSUME StaleMoving = {FALSE}
  PROVE  Spec => []OperandsResolve
<1>1. Init => OperandsInv BY OperandsInit
<1>2. OperandsInv => OperandsResolve BY DEF OperandsInv, OperandsResolve, Succeeded
<1>. QED BY <1>1, <1>2, OperandsNext, TypeCorrect, PTL DEF Spec

-----------------------------------------------------------------------------
(***************************************************************************)
(* What a pass makes of a program                                          *)
(***************************************************************************)

\* A position as far as the length of freespaces goes: the freespaces of snespos
\* and of realsnespos and, in a freespace, the bytes from its start to
\* realsnespos and the freespaceextra.
Frame   == [s : Ids \cup {-1, 0}, r : Ids \cup {-1, 0}, off : Nat, extra : Nat]
Lost    == [s |-> -1, r |-> -1, off |-> 0, extra |-> 0]
Outside == [s |-> 0, r |-> 0, off |-> 0, extra |-> 0]
Total(f) == f.off + f.extra

\* verifysnespos, and n bytes that are written, x of freespaceextra with them.
Checked(f) == IF f.s = -1 \/ f.r = -1 THEN Outside ELSE f
Grown(f, n, x) ==
  LET g == Checked(f) IN
  IF g.r > 0 THEN [s |-> g.s, r |-> g.r, off |-> g.off + n, extra |-> g.extra + x] ELSE g

\* A point of a pass: the position, those on pushpc's stack, the next freespace,
\* the freespaces that have been measured and their lengths, the freespaces of
\* the labels (-1: not known), and whether there was an error.
Point ==
  [cur : Frame, open : Seq(Frame), next : Ids, done : SUBSET Ids, len : [Ids -> Nat],
   where : [LabelNames -> Ids \cup {-1, 0}], bad : BOOLEAN]

\* freespaceend.
DoneAfter(m) == IF m.cur.r > 0 THEN m.done \cup {m.cur.r} ELSE m.done
LenAfter(m)  == IF m.cur.r > 0 THEN [m.len EXCEPT ![m.cur.r] = Total(m.cur)] ELSE m.len

\* Bytes and freespaceextra of an operand, in pass 0 and in the later ones.
Unseen(q, m, l)  == m.where[l] = -1 \/ (q = 0 /\ l \in PlusNames)
RefLen(q, m, l)  == IF Unseen(q, m, l) \/ m.where[l] = m.cur.s THEN 2 ELSE 3
RefSlack(q, m, l) == IF m.where[l] # -1 \/ (q = 0 /\ l \in PlusNames) THEN 0 ELSE Slack

Moved(m, f) ==
  [cur |-> f, open |-> m.open, next |-> m.next, done |-> m.done, len |-> m.len,
   where |-> m.where, bad |-> m.bad]
Left(m, f, open, next) ==
  [cur |-> f, open |-> open, next |-> next, done |-> DoneAfter(m), len |-> LenAfter(m),
   where |-> m.where, bad |-> m.bad]
Failed(m) ==
  [cur |-> m.cur, open |-> m.open, next |-> m.next, done |-> m.done, len |-> m.len,
   where |-> m.where, bad |-> TRUE]
Labelled(m, l) ==
  [cur |-> Checked(m.cur), open |-> m.open, next |-> m.next, done |-> m.done, len |-> m.len,
   where |-> [m.where EXCEPT ![l] = Checked(m.cur).s], bad |-> m.bad]
Pushed(m) ==
  [cur |-> Lost, open |-> Append(m.open, m.cur), next |-> m.next, done |-> m.done, len |-> m.len,
   where |-> m.where, bad |-> m.bad]

\* What command c of pass q does to point m.
After(q, m, c) ==
  CASE c.op = "org" -> Left(m, Outside, m.open, m.next)
    [] c.op = "base" -> Moved(m, [s |-> 0, r |-> m.cur.r, off |-> m.cur.off, extra |-> m.cur.extra])
    [] c.op = "baseoff" -> Moved(m, [s |-> m.cur.r, r |-> m.cur.r, off |-> m.cur.off, extra |-> m.cur.extra])
    [] c.op = "db" -> Moved(m, Grown(m.cur, c.n, 0))
    [] c.op = "ref" -> Moved(m, Grown(m.cur, 1 + RefLen(q, m, c.l), RefSlack(q, m, c.l)))
    [] c.op = "label" -> IF q > 0 THEN Moved(m, Checked(m.cur))
                         ELSE IF m.where[c.l] = -1 THEN Labelled(m, c.l)
                         ELSE Failed(Moved(m, Checked(m.cur)))
    [] c.op = "freespace" ->
         IF m.next > MaxFreespaces THEN Failed(m)
         ELSE Left(m, [s |-> m.next, r |-> m.next, off |-> 0, extra |-> 0], m.open, m.next + 1)
    [] c.op = "pushpc" -> Pushed(m)
    [] c.op = "pullpc" -> IF m.open = << >> THEN Failed(m)
                          ELSE Left(m, Last(m.open), Front(m.open), m.next)

\* The points of a pass that starts at m.
IsCourse(f, q, m, p) ==
  /\ f \in [1 .. Len(p) + 1 -> Point]
  /\ f[1] = m
  /\ \A i \in 1 .. Len(p) : f[i + 1] = After(q, f[i], p[i])
Course(q, m, p) == CHOOSE f : IsCourse(f, q, m, p)

Begin(where) ==
  [cur |-> Lost, open |-> << >>, next |-> 1, done |-> {}, len |-> [i \in Ids |-> 0],
   where |-> where, bad |-> FALSE]
First(p)  == Course(0, Begin([l \in LabelNames |-> -1]), p)
Second(p) == Course(1, Begin(First(p)[Len(p) + 1].where), p)   \* pass 1, and pass 2

(***************************************************************************)
(* Induction, by which the points of a pass exist and what is said of them *)
(* is true: the numbers of a set without its least counterexample.         *)
(***************************************************************************)
Below == { ss \in Nat \X Nat : ss[1] < ss[2] }

LEMMA BelowFounded == IsWellFoundedOn(Below, Nat)
BY NatLessThanWellFounded DEF OpToRel, Below

LEMMA Induction ==
  ASSUME NEW S \in SUBSET Nat, 0 \in S, \A n \in S : n + 1 \in S
  PROVE  S = Nat
<1>1. SUFFICES ASSUME Nat \ S # {} PROVE FALSE
  OBVIOUS
<1>2. PICK x \in Nat \ S : \A y \in Nat \ S : <<y, x>> \notin Below
  <2>1. Nat \ S \subseteq Nat OBVIOUS
  <2>. QED BY <1>1, <2>1, BelowFounded, WFMin
<1>3. x # 0 /\ x - 1 \in Nat BY <1>2
<1>4. x - 1 \notin S BY <1>3
<1>5. <<x - 1, x>> \in Below BY <1>2, <1>3 DEF Below
<1>. QED BY <1>2, <1>3, <1>4, <1>5

\* The last of a sequence, the rest, and a longer one.
LEMMA StackFacts ==
  ASSUME NEW S, NEW s \in Seq(S)
  PROVE  /\ \A e \in S : /\ Append(s, e) \in Seq(S) /\ Len(Append(s, e)) = Len(s) + 1
                         /\ Append(s, e)[Len(s) + 1] = e
                         /\ \A i \in 1 .. Len(s) : Append(s, e)[i] = s[i]
         /\ s # << >> => /\ Last(s) = s[Len(s)] /\ Last(s) \in S /\ Len(s) \in Nat \ {0}
                         /\ Front(s) \in Seq(S) /\ Len(Front(s)) = Len(s) - 1
                         /\ \A i \in 1 .. Len(s) - 1 : Front(s)[i] = s[i]
<1>1. ASSUME NEW e \in S
      PROVE  /\ Append(s, e) \in Seq(S) /\ Len(Append(s, e)) = Len(s) + 1
             /\ Append(s, e)[Len(s) + 1] = e
             /\ \A i \in 1 .. Len(s) : Append(s, e)[i] = s[i]
  OBVIOUS
<1>2. ASSUME s # << >>
      PROVE  /\ Last(s) = s[Len(s)] /\ Last(s) \in S /\ Len(s) \in Nat \ {0}
             /\ Front(s) \in Seq(S) /\ Len(Front(s)) = Len(s) - 1
             /\ \A i \in 1 .. Len(s) - 1 : Front(s)[i] = s[i]
  <2>1. Len(s) \in Nat \ {0} BY <1>2
  <2>2. Last(s) = s[Len(s)] /\ Last(s) \in S BY <2>1 DEF Last
  <2>3. Front(s) = SubSeq(s, 1, Len(s) - 1) BY DEF Front
  <2>4. \A i \in 1 .. Len(s) - 1 : s[i] \in S OBVIOUS
  <2>5. 1 <= Len(s) - 1 \/ Len(s) - 1 = 0 BY <2>1
  <2>6. /\ SubSeq(s, 1, Len(s) - 1) \in Seq(S) /\ Len(SubSeq(s, 1, Len(s) - 1)) = Len(s) - 1
        /\ \A i \in 1 .. Len(s) - 1 : SubSeq(s, 1, Len(s) - 1)[i] = s[i]
    BY <2>1, <2>4, <2>5, SubSeqProperties
  <2>. QED BY <2>1, <2>2, <2>3, <2>6
<1>. QED BY <1>1, <1>2

\* The commands.
LEMMA Commands ==
  ASSUME NEW c \in Command
  PROVE  /\ c.op \in {"org", "base", "baseoff", "db", "ref", "label", "freespace", "pushpc", "pullpc"}
         /\ c.op = "db" => c.n \in Nat
         /\ c.op \in {"label", "ref"} => c.l \in LabelNames
BY DEF Command

LEMMA Frames == Lost \in Frame /\ Outside \in Frame
BY DEF Lost, Outside, Frame

LEMMA FrameGrows ==
  ASSUME NEW f \in Frame, NEW n \in Nat, NEW x \in Nat
  PROVE  Checked(f) \in Frame /\ Grown(f, n, x) \in Frame
<1>1. Checked(f) \in Frame BY Frames DEF Checked
<1>. QED BY <1>1 DEF Grown, Frame

LEMMA MeasureType ==
  ASSUME NEW m \in Point
  PROVE  DoneAfter(m) \in SUBSET Ids /\ LenAfter(m) \in [Ids -> Nat]
<1>1. m.cur \in Frame /\ m.done \in SUBSET Ids /\ m.len \in [Ids -> Nat] BY DEF Point
<1>2. m.cur.r > 0 => m.cur.r \in Ids BY <1>1 DEF Frame, Ids
<1>3. Total(m.cur) \in Nat BY <1>1 DEF Frame, Total
<1>. QED BY <1>1, <1>2, <1>3 DEF DoneAfter, LenAfter

LEMMA PointSteps ==
  ASSUME NEW m \in Point
  PROVE  /\ \A f \in Frame : Moved(m, f) \in Point
         /\ \A f \in Frame, o \in Seq(Frame), n \in Ids : Left(m, f, o, n) \in Point
         /\ Failed(m) \in Point /\ Pushed(m) \in Point
         /\ \A l \in LabelNames : Labelled(m, l) \in Point
<1>1. /\ m.cur \in Frame /\ m.open \in Seq(Frame) /\ m.next \in Ids /\ m.done \in SUBSET Ids
      /\ m.len \in [Ids -> Nat] /\ m.where \in [LabelNames -> Ids \cup {-1, 0}] /\ m.bad \in BOOLEAN
  BY DEF Point
<1>2. \A f \in Frame : Moved(m, f) \in Point BY <1>1 DEF Moved, Point
<1>3. \A f \in Frame, o \in Seq(Frame), n \in Ids : Left(m, f, o, n) \in Point
  BY <1>1, MeasureType DEF Left, Point
<1>4. Failed(m) \in Point BY <1>1 DEF Failed, Point
<1>5. Pushed(m) \in Point
  <2>1. Append(m.open, m.cur) \in Seq(Frame) BY <1>1, StackFacts
  <2>. QED BY <1>1, <2>1, Frames DEF Pushed, Point
<1>6. ASSUME NEW l \in LabelNames PROVE Labelled(m, l) \in Point
  <2>1. Checked(m.cur) \in Frame BY <1>1, Frames DEF Checked
  <2>2. [m.where EXCEPT ![l] = Checked(m.cur).s] \in [LabelNames -> Ids \cup {-1, 0}]
    BY <1>1, <2>1 DEF Frame
  <2>. QED BY <1>1, <2>1, <2>2 DEF Labelled, Point
<1>. QED BY <1>2, <1>3, <1>4, <1>5, <1>6

\* What a command does, one by one.
LEMMA AfterIs ==
  ASSUME NEW q, NEW m, NEW c
  PROVE  /\ c.op = "org" => After(q, m, c) = Left(m, Outside, m.open, m.next)
         /\ c.op = "base" => After(q, m, c) =
              Moved(m, [s |-> 0, r |-> m.cur.r, off |-> m.cur.off, extra |-> m.cur.extra])
         /\ c.op = "baseoff" => After(q, m, c) =
              Moved(m, [s |-> m.cur.r, r |-> m.cur.r, off |-> m.cur.off, extra |-> m.cur.extra])
         /\ c.op = "db" => After(q, m, c) = Moved(m, Grown(m.cur, c.n, 0))
         /\ c.op = "ref" => After(q, m, c) =
              Moved(m, Grown(m.cur, 1 + RefLen(q, m, c.l), RefSlack(q, m, c.l)))
         /\ c.op = "label" => After(q, m, c) =
              IF q > 0 THEN Moved(m, Checked(m.cur))
              ELSE IF m.where[c.l] = -1 THEN Labelled(m, c.l)
              ELSE Failed(Moved(m, Checked(m.cur)))
         /\ c.op = "freespace" => After(q, m, c) =
              IF m.next > MaxFreespaces THEN Failed(m)
              ELSE Left(m, [s |-> m.next, r |-> m.next, off |-> 0, extra |-> 0], m.open, m.next + 1)
         /\ c.op = "pushpc" => After(q, m, c) = Pushed(m)
         /\ c.op = "pullpc" => After(q, m, c) =
              IF m.open = << >> THEN Failed(m) ELSE Left(m, Last(m.open), Front(m.open), m.next)
BY DEF After

LEMMA AfterType ==
  ASSUME NEW q, NEW m \in Point, NEW c \in Command
  PROVE  After(q, m, c) \in Point
<1>1. /\ m.cur \in Frame /\ m.open \in Seq(Frame) /\ m.next \in Ids BY DEF Point
<1>2. CASE c.op \in {"org", "base", "baseoff"}
  <2>1. /\ [s |-> 0, r |-> m.cur.r, off |-> m.cur.off, extra |-> m.cur.extra] \in Frame
        /\ [s |-> m.cur.r, r |-> m.cur.r, off |-> m.cur.off, extra |-> m.cur.extra] \in Frame
    BY <1>1 DEF Frame
  <2>2. CASE c.op = "org"
    <3>1. Left(m, Outside, m.open, m.next) \in Point BY <1>1, PointSteps, Frames
    <3>. QED BY <2>2, <3>1, AfterIs
  <2>3. CASE c.op = "base"
    <3>1. Moved(m, [s |-> 0, r |-> m.cur.r, off |-> m.cur.off, extra |-> m.cur.extra]) \in Point
      BY <2>1, PointSteps
    <3>. QED BY <2>3, <3>1, AfterIs
  <2>4. CASE c.op = "baseoff"
    <3>1. Moved(m, [s |-> m.cur.r, r |-> m.cur.r, off |-> m.cur.off, extra |-> m.cur.extra]) \in Point
      BY <2>1, PointSteps
    <3>. QED BY <2>4, <3>1, AfterIs
  <2>. QED BY <1>2, <2>2, <2>3, <2>4
<1>3. CASE c.op \in {"db", "ref"}
  <2>1. \A n \in Nat, x \in Nat : Grown(m.cur, n, x) \in Frame BY <1>1, FrameGrows
  <2>2. \A l : 1 + RefLen(q, m, l) \in Nat /\ RefSlack(q, m, l) \in Nat
    BY PassesAssumption DEF RefLen, RefSlack
  <2>3. CASE c.op = "db"
    <3>1. Moved(m, Grown(m.cur, c.n, 0)) \in Point BY <2>1, <2>3, PointSteps, Commands
    <3>. QED BY <2>3, <3>1, AfterIs
  <2>4. CASE c.op = "ref"
    <3>1. Moved(m, Grown(m.cur, 1 + RefLen(q, m, c.l), RefSlack(q, m, c.l))) \in Point
      BY <2>1, <2>2, PointSteps
    <3>. QED BY <2>4, <3>1, AfterIs
  <2>. QED BY <1>3, <2>3, <2>4
<1>4. CASE c.op = "label"
  <2>1. Checked(m.cur) \in Frame BY <1>1, Frames DEF Checked
  <2>2. c.l \in LabelNames BY <1>4, Commands
  <2>3. Moved(m, Checked(m.cur)) \in Point /\ Labelled(m, c.l) \in Point
    BY <2>1, <2>2, PointSteps
  <2>3a. Failed(Moved(m, Checked(m.cur))) \in Point BY <2>3, PointSteps
  <2>4. After(q, m, c) = IF q > 0 THEN Moved(m, Checked(m.cur))
                         ELSE IF m.where[c.l] = -1 THEN Labelled(m, c.l)
                         ELSE Failed(Moved(m, Checked(m.cur)))
    BY <1>4, AfterIs
  <2>. QED BY <2>3, <2>3a, <2>4
<1>5. CASE c.op = "freespace"
  <2>1. m.next <= MaxFreespaces => m.next + 1 \in Ids BY <1>1, PassesAssumption DEF Ids
  <2>2. [s |-> m.next, r |-> m.next, off |-> 0, extra |-> 0] \in Frame BY <1>1 DEF Frame
  <2>3. m.next \in Int /\ MaxFreespaces \in Int BY <1>1, PassesAssumption DEF Ids
  <2>4. m.next <= MaxFreespaces =>
          Left(m, [s |-> m.next, r |-> m.next, off |-> 0, extra |-> 0], m.open, m.next + 1) \in Point
    BY <1>1, <2>1, <2>2, PointSteps
  <2>5. Failed(m) \in Point BY PointSteps
  <2>6. After(q, m, c) =
          IF m.next > MaxFreespaces THEN Failed(m)
          ELSE Left(m, [s |-> m.next, r |-> m.next, off |-> 0, extra |-> 0], m.open, m.next + 1)
    BY <1>5, AfterIs
  <2>. QED BY <2>3, <2>4, <2>5, <2>6
<1>6. CASE c.op \in {"pushpc", "pullpc"}
  <2>1. m.open # << >> => Last(m.open) \in Frame /\ Front(m.open) \in Seq(Frame) BY <1>1, StackFacts
  <2>2. m.open # << >> => Left(m, Last(m.open), Front(m.open), m.next) \in Point
    BY <1>1, <2>1, PointSteps
  <2>3. Failed(m) \in Point /\ Pushed(m) \in Point BY PointSteps
  <2>4. CASE c.op = "pushpc" BY <2>3, <2>4, AfterIs
  <2>5. CASE c.op = "pullpc" BY <2>2, <2>3, <2>5, AfterIs
  <2>. QED BY <1>6, <2>4, <2>5
<1>. QED BY <1>2, <1>3, <1>4, <1>5, <1>6, Commands

\* There is a course of points for every program.
LEMMA CourseExists ==
  ASSUME NEW q, NEW m \in Point, NEW p \in Seq(Command)
  PROVE  IsCourse(Course(q, m, p), q, m, p)
<1> DEFINE Upto(f, n) == /\ f \in [1 .. n + 1 -> Point] /\ f[1] = m
                         /\ \A i \in 1 .. n : f[i + 1] = After(q, f[i], p[i])
           S == { n \in Nat : n <= Len(p) => \E f : Upto(f, n) }
<1>1. 0 \in S
  <2>1. Upto([i \in 1 .. 1 |-> m], 0) OBVIOUS
  <2>. QED BY <2>1
<1>2. ASSUME NEW n \in S PROVE n + 1 \in S
  <2>1. SUFFICES ASSUME n + 1 <= Len(p) PROVE \E f : Upto(f, n + 1)
    OBVIOUS
  <2>2. PICK f : Upto(f, n) BY <2>1
  <2> DEFINE g == [i \in 1 .. n + 2 |-> IF i = n + 2 THEN After(q, f[n + 1], p[n + 1]) ELSE f[i]]
  <2>3. p[n + 1] \in Command /\ f[n + 1] \in Point BY <2>1, <2>2
  <2>4. g \in [1 .. n + 2 -> Point]
    <3>1. After(q, f[n + 1], p[n + 1]) \in Point BY <2>3, AfterType
    <3>2. \A i \in 1 .. n + 2 : i # n + 2 => f[i] \in Point BY <2>2
    <3>. QED BY <3>1, <3>2
  <2>5. g[1] = m BY <2>2
  <2>6. \A i \in 1 .. n + 1 : g[i + 1] = After(q, g[i], p[i])
    <3>1. \A i \in 1 .. n : g[i + 1] = f[i + 1] /\ g[i] = f[i] OBVIOUS
    <3>2. g[n + 2] = After(q, f[n + 1], p[n + 1]) /\ g[n + 1] = f[n + 1] OBVIOUS
    <3>. QED BY <2>2, <3>1, <3>2
  <2>7. n + 1 + 1 = n + 2 OBVIOUS
  <2>. QED BY <2>4, <2>5, <2>6, <2>7
<1>3. S = Nat
  <2>1. S \in SUBSET Nat OBVIOUS
  <2>. HIDE DEF S
  <2>. QED BY <1>1, <1>2, <2>1, Induction
<1>4. \E f : Upto(f, Len(p))
  <2>1. Len(p) \in Nat OBVIOUS
  <2>2. Len(p) \in S
    <3>. HIDE DEF S
    <3>. QED BY <1>3, <2>1
  <2>. QED BY <2>2
<1>4a. PICK f : Upto(f, Len(p)) BY <1>4
<1>5. IsCourse(f, q, m, p) BY <1>4a DEF IsCourse
<1>. QED BY <1>5 DEF Course

-----------------------------------------------------------------------------
\* A position in a freespace, with or without base: base leaves that of
\* realsnespos, and a position that is not set is not set at all.
Upright(f) == (f.s > 0 => f.s = f.r) /\ (f.s = -1 => f.r = -1)

\* Every freespace that was taken has been measured, or it is that of the
\* position or of one entry of pushpc's stack.
Sound(m) ==
  /\ Upright(m.cur) /\ \A k \in DOMAIN m.open : Upright(m.open[k])
  /\ m.cur.r > 0 => m.cur.r < m.next /\ m.cur.r \notin m.done
  /\ \A k \in DOMAIN m.open : m.open[k].r > 0 =>
       /\ m.open[k].r < m.next /\ m.open[k].r \notin m.done
       /\ m.open[k].r # m.cur.r
       /\ \A j \in DOMAIN m.open : j # k => m.open[j].r # m.open[k].r
  /\ \A i \in Ids : i < m.next =>
       i \in m.done \/ i = m.cur.r \/ \E k \in DOMAIN m.open : m.open[k].r = i
  /\ \A i \in m.done : i < m.next

\* The parts of a point.
LEMMA PointParts ==
  ASSUME NEW m \in Point
  PROVE  /\ m.cur \in Frame /\ m.open \in Seq(Frame) /\ m.next \in Ids /\ m.done \in SUBSET Ids
         /\ m.len \in [Ids -> Nat] /\ m.where \in [LabelNames -> Ids \cup {-1, 0}] /\ m.bad \in BOOLEAN
         /\ m.cur.s \in Int /\ m.cur.r \in Int /\ m.cur.off \in Nat /\ m.cur.extra \in Nat
         /\ m.next \in Nat \ {0}
         /\ \A k \in DOMAIN m.open : m.open[k] \in Frame /\ m.open[k].r \in Int /\ m.open[k].s \in Int
         /\ DOMAIN m.open = 1 .. Len(m.open) /\ Len(m.open) \in Nat
<1>1. /\ m.cur \in Frame /\ m.open \in Seq(Frame) /\ m.next \in Ids /\ m.done \in SUBSET Ids
      /\ m.len \in [Ids -> Nat] /\ m.where \in [LabelNames -> Ids \cup {-1, 0}] /\ m.bad \in BOOLEAN
  BY DEF Point
<1>2. \A f \in Frame : f.s \in Int /\ f.r \in Int /\ f.off \in Nat /\ f.extra \in Nat
  BY DEF Frame, Ids
<1>3. m.next \in Nat \ {0} BY <1>1, PassesAssumption DEF Ids
<1>4. \A k \in DOMAIN m.open : m.open[k] \in Frame BY <1>1
<1>5. DOMAIN m.open = 1 .. Len(m.open) /\ Len(m.open) \in Nat BY <1>1
<1>. QED BY <1>1, <1>2, <1>3, <1>4, <1>5

\* Steps that stay in the freespace, or outside of any.
LEMMA SoundMoved ==
  ASSUME NEW m \in Point, Sound(m), NEW f \in Frame, Upright(f),
         f.r = m.cur.r \/ (f.r <= 0 /\ m.cur.r <= 0)
  PROVE  Sound(Moved(m, f))
<1>1. f.r \in Int BY DEF Frame, Ids
<1>. QED BY <1>1, PointParts DEF Sound, Moved, Ids

\* Steps that leave it: for no freespace, for a new one, for one on the stack.
LEMMA SoundLeft ==
  ASSUME NEW m \in Point, Sound(m)
  PROVE  /\ Sound(Left(m, Outside, m.open, m.next))
         /\ Sound(Left(m, [s |-> m.next, r |-> m.next, off |-> 0, extra |-> 0], m.open, m.next + 1))
         /\ m.open # << >> => Sound(Left(m, Last(m.open), Front(m.open), m.next))
<1>1. \A i : i \in DoneAfter(m) <=> i \in m.done \/ (m.cur.r > 0 /\ i = m.cur.r)
  BY DEF DoneAfter
<1>2. \A i \in m.done : i \in Int BY PointParts DEF Ids
<1>3. Sound(Left(m, Outside, m.open, m.next))
  <2>1. Upright(Outside) /\ Outside.r = 0 BY DEF Upright, Outside
  <2>. QED BY <1>1, <2>1, PointParts DEF Sound, Left, Ids
<1>4. Sound(Left(m, [s |-> m.next, r |-> m.next, off |-> 0, extra |-> 0], m.open, m.next + 1))
  <2> DEFINE f == [s |-> m.next, r |-> m.next, off |-> 0, extra |-> 0]
  <2>1. Upright(f) /\ f.r = m.next BY PointParts DEF Upright
  <2>. HIDE DEF f
  <2>2. \A i \in Ids : i < m.next + 1 => i < m.next \/ i = m.next BY PointParts DEF Ids
  <2> DEFINE n == Left(m, f, m.open, m.next + 1)
  <2>3. n.cur = f /\ n.open = m.open /\ n.next = m.next + 1 /\ n.done = DoneAfter(m) BY DEF Left
  <2>. HIDE DEF n
  <2>4. Upright(n.cur) /\ \A k \in DOMAIN n.open : Upright(n.open[k])
    BY <2>1, <2>3 DEF Sound
  <2>5. n.cur.r < n.next /\ n.cur.r \notin n.done BY <1>1, <2>1, <2>3, PointParts DEF Sound
  <2>6. \A k \in DOMAIN n.open : n.open[k].r > 0 =>
           /\ n.open[k].r < n.next /\ n.open[k].r \notin n.done
           /\ n.open[k].r # n.cur.r
           /\ \A j \in DOMAIN n.open : j # k => n.open[j].r # n.open[k].r
    BY <1>1, <2>1, <2>3, PointParts DEF Sound
  <2>7. \A i \in Ids : i < n.next =>
           i \in n.done \/ i = n.cur.r \/ \E k \in DOMAIN n.open : n.open[k].r = i
    <3> SUFFICES ASSUME NEW i \in Ids, i < n.next, i \notin n.done, i # n.cur.r
                 PROVE  \E k \in DOMAIN n.open : n.open[k].r = i
      OBVIOUS
    <3>1. i > 0 BY PassesAssumption DEF Ids
    <3>2. i < m.next BY <2>1, <2>2, <2>3
    <3>. QED BY <1>1, <2>3, <3>1, <3>2 DEF Sound
  <2>8. \A i \in n.done : i < n.next BY <1>1, <1>2, <2>3, PointParts DEF Sound
  <2>9. Sound(n) BY <2>4, <2>5, <2>6, <2>7, <2>8 DEF Sound
  <2>. QED BY <2>9 DEF n, f
<1>5. ASSUME m.open # << >> PROVE Sound(Left(m, Last(m.open), Front(m.open), m.next))
  <2>1. m.open \in Seq(Frame) BY PointParts
  <2>2. /\ Last(m.open) = m.open[Len(m.open)] /\ Len(m.open) \in Nat \ {0}
        /\ Front(m.open) \in Seq(Frame) /\ Len(Front(m.open)) = Len(m.open) - 1
        /\ \A i \in 1 .. Len(m.open) - 1 : Front(m.open)[i] = m.open[i]
    BY <1>5, <2>1, StackFacts
  <2>3. DOMAIN Front(m.open) = 1 .. Len(m.open) - 1 BY <2>2
  <2>4. DOMAIN m.open = 1 .. Len(m.open) BY <2>1
  <2>5. \A k \in DOMAIN m.open : k \in DOMAIN Front(m.open) \/ k = Len(m.open) BY <2>2, <2>3, <2>4
  <2>6. Len(m.open) \in DOMAIN m.open /\ Len(m.open) \notin DOMAIN Front(m.open) BY <2>2, <2>3, <2>4
  <2>7. \A k \in DOMAIN Front(m.open) : k \in DOMAIN m.open /\ Front(m.open)[k] = m.open[k]
    BY <2>2, <2>3, <2>4
  <2> DEFINE n == Left(m, Last(m.open), Front(m.open), m.next)
  <2>8. /\ n.cur = m.open[Len(m.open)] /\ n.open = Front(m.open) /\ n.next = m.next
        /\ n.done = DoneAfter(m)
    BY <2>2 DEF Left
  <2>. HIDE DEF n
  <2>9. Upright(n.cur) /\ \A k \in DOMAIN n.open : Upright(n.open[k])
    BY <2>6, <2>7, <2>8 DEF Sound
  <2>10. n.cur.r > 0 => n.cur.r < n.next /\ n.cur.r \notin n.done
    BY <1>1, <2>6, <2>8 DEF Sound
  <2>11. \A k \in DOMAIN n.open : n.open[k].r > 0 =>
           /\ n.open[k].r < n.next /\ n.open[k].r \notin n.done
           /\ n.open[k].r # n.cur.r
           /\ \A j \in DOMAIN n.open : j # k => n.open[j].r # n.open[k].r
    BY <1>1, <2>6, <2>7, <2>8 DEF Sound
  <2>12. \A i \in Ids : i < n.next =>
           i \in n.done \/ i = n.cur.r \/ \E k \in DOMAIN n.open : n.open[k].r = i
    <3> SUFFICES ASSUME NEW i \in Ids, i < n.next, i \notin n.done, i # n.cur.r
                 PROVE  \E k \in DOMAIN n.open : n.open[k].r = i
      OBVIOUS
    <3>1. i > 0 BY PassesAssumption DEF Ids
    <3>2. i \notin m.done /\ i # m.cur.r BY <1>1, <2>8, <3>1
    <3>3. PICK k \in DOMAIN m.open : m.open[k].r = i BY <2>8, <3>2 DEF Sound
    <3>4. k # Len(m.open) BY <2>8, <3>3
    <3>. QED BY <2>5, <2>7, <2>8, <3>3, <3>4
  <2>13. \A i \in n.done : i < n.next BY <1>1, <2>8 DEF Sound
  <2>14. Sound(n) BY <2>9, <2>10, <2>11, <2>12, <2>13 DEF Sound
  <2>. QED BY <2>14 DEF n
<1>. QED BY <1>3, <1>4, <1>5

LEMMA SoundPushed == ASSUME NEW m \in Point, Sound(m) PROVE Sound(Pushed(m))
<1>1. m.open \in Seq(Frame) /\ m.cur \in Frame BY PointParts
<1> DEFINE n == Pushed(m)
<1>2. n.cur = Lost /\ n.open = Append(m.open, m.cur) /\ n.next = m.next /\ n.done = m.done
  BY DEF Pushed
<1>. HIDE DEF n
<1>3. /\ Len(n.open) = Len(m.open) + 1 /\ n.open \in Seq(Frame)
      /\ n.open[Len(m.open) + 1] = m.cur
      /\ \A k \in 1 .. Len(m.open) : n.open[k] = m.open[k]
  BY <1>1, <1>2, StackFacts
<1>4. DOMAIN n.open = 1 .. Len(m.open) + 1 /\ DOMAIN m.open = 1 .. Len(m.open) /\ Len(m.open) \in Nat
  BY <1>1, <1>3
<1>5. \A k \in DOMAIN n.open : \/ k = Len(m.open) + 1 /\ n.open[k] = m.cur
                               \/ k \in DOMAIN m.open /\ n.open[k] = m.open[k]
  BY <1>3, <1>4
<1>6. Upright(Lost) /\ Lost.r = -1 BY DEF Upright, Lost
<1>7. Upright(n.cur) /\ \A k \in DOMAIN n.open : Upright(n.open[k])
  BY <1>2, <1>5, <1>6 DEF Sound
<1>8. \A k \in DOMAIN n.open : n.open[k].r > 0 =>
           /\ n.open[k].r < n.next /\ n.open[k].r \notin n.done
           /\ n.open[k].r # n.cur.r
           /\ \A j \in DOMAIN n.open : j # k => n.open[j].r # n.open[k].r
  <2> SUFFICES ASSUME NEW k \in DOMAIN n.open, n.open[k].r > 0
               PROVE  /\ n.open[k].r < n.next /\ n.open[k].r \notin n.done
                      /\ n.open[k].r # n.cur.r
                      /\ \A j \in DOMAIN n.open : j # k => n.open[j].r # n.open[k].r
    OBVIOUS
  <2>1. n.open[k].r < n.next /\ n.open[k].r \notin n.done BY <1>2, <1>5 DEF Sound
  <2>2. n.open[k].r # n.cur.r BY <1>2, <1>6
  <2>3. ASSUME NEW j \in DOMAIN n.open, j # k PROVE n.open[j].r # n.open[k].r
    BY <1>5, <2>3 DEF Sound
  <2>. QED BY <2>1, <2>2, <2>3
<1>9. \A i \in Ids : i < n.next =>
           i \in n.done \/ i = n.cur.r \/ \E k \in DOMAIN n.open : n.open[k].r = i
  <2> SUFFICES ASSUME NEW i \in Ids, i < n.next, i \notin n.done
               PROVE  \E k \in DOMAIN n.open : n.open[k].r = i
    OBVIOUS
  <2>1. i = m.cur.r \/ \E k \in DOMAIN m.open : m.open[k].r = i BY <1>2 DEF Sound
  <2>2. CASE i = m.cur.r BY <1>3, <1>4, <2>2
  <2>3. CASE \E k \in DOMAIN m.open : m.open[k].r = i BY <1>3, <1>4, <2>3
  <2>. QED BY <2>1, <2>2, <2>3
<1>10. Sound(n) BY <1>2, <1>6, <1>7, <1>8, <1>9 DEF Sound
<1>. QED BY <1>10 DEF n

LEMMA SoundChecked ==
  ASSUME NEW f \in Frame, Upright(f), NEW n \in Nat, NEW x \in Nat
  PROVE  /\ Upright(Checked(f)) /\ Upright(Grown(f, n, x))
         /\ Checked(f).r = f.r \/ (Checked(f).r <= 0 /\ f.r <= 0)
         /\ Grown(f, n, x).r = Checked(f).r /\ Grown(f, n, x).s = Checked(f).s
         /\ Checked(f).r > 0 => f = Checked(f)
         /\ Checked(f).r >= 0 /\ Checked(f).s >= 0
         /\ Checked(f).s > 0 => f = Checked(f)
<1>1. /\ f.s \in Int /\ f.r \in Int /\ f.s >= -1 /\ f.r >= -1 BY PassesAssumption DEF Frame, Ids
<1>2. Outside.s = 0 /\ Outside.r = 0 BY DEF Outside
<1>3. Checked(f) = f \/ Checked(f) = Outside BY DEF Checked
<1>4. /\ Upright(Checked(f))
      /\ Checked(f).r = f.r \/ (Checked(f).r <= 0 /\ f.r <= 0)
      /\ Checked(f).r >= 0 /\ Checked(f).s >= 0
  BY <1>1, <1>2 DEF Checked, Upright
<1>5. /\ Checked(f).r > 0 => f = Checked(f)
      /\ Checked(f).s > 0 => f = Checked(f)
  BY <1>2, <1>3
<1>6. Grown(f, n, x).r = Checked(f).r /\ Grown(f, n, x).s = Checked(f).s BY DEF Grown
<1>. QED BY <1>4, <1>5, <1>6 DEF Upright

LEMMA OperandNat ==
  \A q, m, l : 1 + RefLen(q, m, l) \in Nat /\ RefSlack(q, m, l) \in Nat
BY PassesAssumption DEF RefLen, RefSlack

LEMMA AfterSound ==
  ASSUME NEW q, NEW m \in Point, NEW c \in Command, Sound(m)
  PROVE  Sound(After(q, m, c))
<1>1. m.cur \in Frame /\ Upright(m.cur) /\ m.cur.r \in Int BY PointParts DEF Sound
<1>2. CASE c.op = "org" BY <1>2, AfterIs, SoundLeft
<1>3. CASE c.op = "base"
  <2> DEFINE f == [s |-> 0, r |-> m.cur.r, off |-> m.cur.off, extra |-> m.cur.extra]
  <2>1. f \in Frame /\ Upright(f) /\ f.r = m.cur.r BY <1>1 DEF Frame, Upright
  <2>2. After(q, m, c) = Moved(m, f) BY <1>3, AfterIs
  <2>. HIDE DEF f
  <2>. QED BY <2>1, <2>2, SoundMoved
<1>4. CASE c.op = "baseoff"
  <2> DEFINE f == [s |-> m.cur.r, r |-> m.cur.r, off |-> m.cur.off, extra |-> m.cur.extra]
  <2>1. f \in Frame /\ Upright(f) /\ f.r = m.cur.r BY <1>1 DEF Frame, Upright
  <2>2. After(q, m, c) = Moved(m, f) BY <1>4, AfterIs
  <2>. HIDE DEF f
  <2>. QED BY <2>1, <2>2, SoundMoved
<1>5. ASSUME NEW n \in Nat, NEW x \in Nat PROVE Sound(Moved(m, Grown(m.cur, n, x)))
  <2>1. Grown(m.cur, n, x) \in Frame BY <1>1, FrameGrows
  <2>2. /\ Upright(Grown(m.cur, n, x)) /\ Grown(m.cur, n, x).r = Checked(m.cur).r
        /\ Checked(m.cur).r = m.cur.r \/ (Checked(m.cur).r <= 0 /\ m.cur.r <= 0)
    BY <1>1, SoundChecked
  <2>. QED BY <2>1, <2>2, SoundMoved
<1>6. CASE c.op = "db"
  <2>1. c.n \in Nat BY <1>6, Commands
  <2>. QED BY <1>5, <1>6, <2>1, AfterIs
<1>7. CASE c.op = "ref"
  <2>1. 1 + RefLen(q, m, c.l) \in Nat /\ RefSlack(q, m, c.l) \in Nat BY OperandNat
  <2>. QED BY <1>5, <1>7, <2>1, AfterIs
<1>8. CASE c.op = "label"
  <2>1. Sound(Moved(m, Checked(m.cur)))
    <3>1. Checked(m.cur) \in Frame BY <1>1, Frames DEF Checked
    <3>2. /\ Upright(Checked(m.cur))
          /\ Checked(m.cur).r = m.cur.r \/ (Checked(m.cur).r <= 0 /\ m.cur.r <= 0)
      BY <1>1, SoundChecked, 0 \in Nat
    <3>. QED BY <3>1, <3>2, SoundMoved
  <2>2. Sound(Labelled(m, c.l)) BY <2>1 DEF Sound, Labelled, Moved
  <2>3. Sound(Failed(Moved(m, Checked(m.cur)))) BY <2>1 DEF Sound, Failed
  <2>4. After(q, m, c) = IF q > 0 THEN Moved(m, Checked(m.cur))
                         ELSE IF m.where[c.l] = -1 THEN Labelled(m, c.l)
                         ELSE Failed(Moved(m, Checked(m.cur)))
    BY <1>8, AfterIs
  <2>. QED BY <2>1, <2>2, <2>3, <2>4
<1>9. CASE c.op = "freespace"
  <2>1. Sound(Failed(m)) BY DEF Sound, Failed
  <2>2. After(q, m, c) \in {Failed(m),
          Left(m, [s |-> m.next, r |-> m.next, off |-> 0, extra |-> 0], m.open, m.next + 1)}
    BY <1>9, AfterIs
  <2>. QED BY <2>1, <2>2, SoundLeft
<1>10. CASE c.op = "pushpc" BY <1>10, AfterIs, SoundPushed
<1>11. CASE c.op = "pullpc"
  <2>1. Sound(Failed(m)) BY DEF Sound, Failed
  <2>2. After(q, m, c) =
          IF m.open = << >> THEN Failed(m) ELSE Left(m, Last(m.open), Front(m.open), m.next)
    BY <1>11, AfterIs
  <2>. QED BY <2>1, <2>2, SoundLeft
<1>. QED BY <1>2, <1>3, <1>4, <1>6, <1>7, <1>8, <1>9, <1>10, <1>11, Commands

-----------------------------------------------------------------------------
\* What a pass has found out, it does not forget.
Later(m, n) ==
  /\ m.bad => n.bad
  /\ m.next <= n.next
  /\ m.done \subseteq n.done
  /\ \A i \in m.done : n.len[i] = m.len[i]
  /\ \A l \in LabelNames : m.where[l] # -1 => n.where[l] = m.where[l]

LEMMA LaterStill ==
  ASSUME NEW m \in Point, NEW n \in Point, NEW o \in Point, Later(m, n), Later(n, o)
  PROVE  Later(m, o)
<1>1. m.next <= o.next BY PointParts DEF Later
<1>2. \A i \in m.done : i \in n.done /\ o.len[i] = m.len[i] BY DEF Later
<1>3. \A l \in LabelNames : m.where[l] # -1 => o.where[l] = m.where[l] BY DEF Later
<1>. QED BY <1>1, <1>2, <1>3 DEF Later

LEMMA LaterLen ==
  ASSUME NEW m \in Point, Sound(m)
  PROVE  /\ m.done \subseteq DoneAfter(m)
         /\ \A i \in m.done : LenAfter(m)[i] = m.len[i]
         /\ m.cur.r > 0 => m.cur.r \in DoneAfter(m) /\ LenAfter(m)[m.cur.r] = Total(m.cur)
<1>1. \A i \in m.done : i \in Ids BY PointParts
<1>2. m.cur.r > 0 => m.cur.r \in Ids BY PointParts DEF Frame, Ids
<1>. QED BY <1>1, <1>2, PointParts DEF DoneAfter, LenAfter, Sound

LEMMA AfterLater ==
  ASSUME NEW q, NEW m \in Point, NEW c \in Command, Sound(m)
  PROVE  Later(m, After(q, m, c))
<1>1. m.next \in Nat BY PointParts
<1>2. \A f : Later(m, Moved(m, f)) BY <1>1 DEF Later, Moved
<1>3. Later(m, Failed(m)) BY <1>1 DEF Later, Failed
<1>4. Later(m, Pushed(m)) BY <1>1 DEF Later, Pushed
<1>5. ASSUME NEW f, NEW o, NEW n \in {m.next, m.next + 1} PROVE Later(m, Left(m, f, o, n))
  BY <1>1, LaterLen DEF Later, Left
<1>6. ASSUME c.op = "label" PROVE Later(m, After(q, m, c))
  <2>1. c.l \in LabelNames BY <1>6, Commands
  <2>2. ASSUME m.where[c.l] = -1 PROVE Later(m, Labelled(m, c.l))
    <3>1. \A l \in LabelNames : m.where[l] # -1 => Labelled(m, c.l).where[l] = m.where[l]
      BY <2>1, <2>2, PointParts DEF Labelled
    <3>. QED BY <1>1, <3>1 DEF Later, Labelled
  <2>3. After(q, m, c) = IF q > 0 THEN Moved(m, Checked(m.cur))
                         ELSE IF m.where[c.l] = -1 THEN Labelled(m, c.l)
                         ELSE Failed(Moved(m, Checked(m.cur)))
    BY <1>6, AfterIs
  <2>4. Later(m, Failed(Moved(m, Checked(m.cur)))) BY <1>1 DEF Later, Failed, Moved
  <2>. QED BY <1>2, <2>2, <2>3, <2>4
<1>7. CASE c.op = "org"
  <2>1. After(q, m, c) = Left(m, Outside, m.open, m.next) BY <1>7, AfterIs
  <2>. QED BY <1>5, <2>1
<1>8. CASE c.op = "freespace"
  <2>1. After(q, m, c) = IF m.next > MaxFreespaces THEN Failed(m)
          ELSE Left(m, [s |-> m.next, r |-> m.next, off |-> 0, extra |-> 0], m.open, m.next + 1)
    BY <1>8, AfterIs
  <2>. QED BY <1>3, <1>5, <2>1
<1>9. CASE c.op = "pullpc"
  <2>1. After(q, m, c) = IF m.open = << >> THEN Failed(m)
          ELSE Left(m, Last(m.open), Front(m.open), m.next)
    BY <1>9, AfterIs
  <2>. QED BY <1>3, <1>5, <2>1
<1>10. CASE c.op \in {"base", "baseoff", "db", "ref", "pushpc"}
  BY <1>2, <1>4, <1>10, AfterIs
<1>. QED BY <1>6, <1>7, <1>8, <1>9, <1>10, Commands

\* The points of a course: their type, their steps, and that they are sound.
LEMMA Points ==
  ASSUME NEW q, NEW m \in Point, Sound(m), NEW p \in Seq(Command)
  PROVE  /\ Course(q, m, p) \in [1 .. Len(p) + 1 -> Point]
         /\ Course(q, m, p)[1] = m
         /\ \A i \in 1 .. Len(p) : Course(q, m, p)[i + 1] = After(q, Course(q, m, p)[i], p[i])
         /\ \A i \in 1 .. Len(p) + 1 : Sound(Course(q, m, p)[i])
         /\ \A i, j \in 1 .. Len(p) + 1 : i <= j => Later(Course(q, m, p)[i], Course(q, m, p)[j])
<1> DEFINE f == Course(q, m, p)
<1>1. /\ f \in [1 .. Len(p) + 1 -> Point] /\ f[1] = m
      /\ \A i \in 1 .. Len(p) : f[i + 1] = After(q, f[i], p[i])
  BY CourseExists DEF IsCourse
<1>. HIDE DEF f
<1>2. Len(p) \in Nat /\ \A i \in 1 .. Len(p) : p[i] \in Command OBVIOUS
<1>3. \A i \in 1 .. Len(p) + 1 : Sound(f[i])
  <2> DEFINE S == { n \in Nat : n <= Len(p) => Sound(f[n + 1]) }
  <2>1. 0 \in S BY <1>1
  <2>2. ASSUME NEW n \in S PROVE n + 1 \in S
    <3>1. SUFFICES ASSUME n + 1 <= Len(p) PROVE Sound(f[n + 1 + 1])
      OBVIOUS
    <3>2. Sound(f[n + 1]) /\ n + 1 \in 1 .. Len(p) BY <1>2, <3>1
    <3>3. f[n + 1] \in Point /\ p[n + 1] \in Command BY <1>1, <1>2, <3>2
    <3>. QED BY <1>1, <3>2, <3>3, AfterSound
  <2>3. S \in SUBSET Nat OBVIOUS
  <2>4. S = Nat
    <3>. HIDE DEF S
    <3>. QED BY <2>1, <2>2, <2>3, Induction
  <2>5. ASSUME NEW i \in 1 .. Len(p) + 1 PROVE Sound(f[i])
    <3>1. i - 1 \in Nat /\ i - 1 <= Len(p) /\ i - 1 + 1 = i BY <1>2
    <3>2. i - 1 \in S BY <2>4, <3>1
    <3>. QED BY <3>1, <3>2
  <2>. QED BY <2>5
<1>4. \A i, j \in 1 .. Len(p) + 1 : i <= j => Later(f[i], f[j])
  <2> SUFFICES ASSUME NEW i \in 1 .. Len(p) + 1
               PROVE  \A j \in 1 .. Len(p) + 1 : i <= j => Later(f[i], f[j])
    OBVIOUS
  <2> DEFINE S == { n \in Nat : i + n <= Len(p) + 1 => Later(f[i], f[i + n]) }
  <2>1. 0 \in S
    <3>1. f[i] \in Point /\ i + 0 = i BY <1>1
    <3>2. Later(f[i], f[i]) BY <3>1, PointParts DEF Later
    <3>. QED BY <3>1, <3>2
  <2>2. ASSUME NEW n \in S PROVE n + 1 \in S
    <3>1. SUFFICES ASSUME i + (n + 1) <= Len(p) + 1 PROVE Later(f[i], f[i + (n + 1)])
      OBVIOUS
    <3>2. i + n \in 1 .. Len(p) /\ i + (n + 1) = (i + n) + 1 BY <1>2, <3>1
    <3>3. Later(f[i], f[i + n]) BY <1>2, <3>2
    <3>4. f[i] \in Point /\ f[i + n] \in Point /\ f[(i + n) + 1] \in Point /\ p[i + n] \in Command
      <4>1. i + n \in 1 .. Len(p) + 1 /\ (i + n) + 1 \in 1 .. Len(p) + 1 BY <1>2, <3>2
      <4>2. p[i + n] \in Command BY <1>2, <3>2
      <4>. QED BY <1>1, <4>1, <4>2
    <3>5. f[(i + n) + 1] = After(q, f[i + n], p[i + n]) BY <1>1, <3>2
    <3>6. Sound(f[i + n]) BY <1>2, <1>3, <3>2
    <3>7. Later(f[i + n], f[(i + n) + 1]) BY <3>4, <3>5, <3>6, AfterLater
    <3>. QED BY <3>2, <3>3, <3>4, <3>7, LaterStill
  <2>3. S \in SUBSET Nat OBVIOUS
  <2>4. S = Nat
    <3>. HIDE DEF S
    <3>. QED BY <2>1, <2>2, <2>3, Induction
  <2>5. ASSUME NEW j \in 1 .. Len(p) + 1, i <= j PROVE Later(f[i], f[j])
    <3>1. j - i \in Nat /\ i + (j - i) = j BY <1>2, <2>5
    <3>2. j - i \in S BY <2>4, <3>1
    <3>. QED BY <1>2, <3>1, <3>2
  <2>. QED BY <2>5
<1>. QED BY <1>1, <1>3, <1>4 DEF f

LEMMA BeginPoint ==
  ASSUME NEW w \in [LabelNames -> Ids \cup {-1, 0}]
  PROVE  Begin(w) \in Point /\ Sound(Begin(w))
<1>1. 1 \in Ids /\ \A i \in Ids : i >= 1 BY PassesAssumption DEF Ids
<1>2. Begin(w) \in Point
  <2>1. << >> \in Seq(Frame) OBVIOUS
  <2>. QED BY <1>1, <2>1, Frames DEF Begin, Point
<1>3. Sound(Begin(w)) BY <1>1 DEF Sound, Begin, Lost, Upright, Ids
<1>. QED BY <1>2, <1>3

LEMMA NoWhere == [l \in LabelNames |-> -1] \in [LabelNames -> Ids \cup {-1, 0}]
OBVIOUS

\* The courses of the passes.
LEMMA FirstCourse ==
  ASSUME NEW p \in Seq(Command)
  PROVE  /\ First(p) \in [1 .. Len(p) + 1 -> Point]
         /\ First(p)[1] = Begin([l \in LabelNames |-> -1])
         /\ \A i \in 1 .. Len(p) : First(p)[i + 1] = After(0, First(p)[i], p[i])
         /\ \A i \in 1 .. Len(p) + 1 : Sound(First(p)[i])
         /\ \A i, j \in 1 .. Len(p) + 1 : i <= j => Later(First(p)[i], First(p)[j])
BY Points, BeginPoint, NoWhere DEF First

LEMMA SecondCourse ==
  ASSUME NEW p \in Seq(Command)
  PROVE  /\ Second(p) \in [1 .. Len(p) + 1 -> Point]
         /\ Second(p)[1] = Begin(First(p)[Len(p) + 1].where)
         /\ \A i \in 1 .. Len(p) : Second(p)[i + 1] = After(1, Second(p)[i], p[i])
         /\ \A i \in 1 .. Len(p) + 1 : Sound(Second(p)[i])
         /\ \A i, j \in 1 .. Len(p) + 1 : i <= j => Later(Second(p)[i], Second(p)[j])
<1>1. Len(p) + 1 \in 1 .. Len(p) + 1 OBVIOUS
<1>2. First(p)[Len(p) + 1] \in Point BY <1>1, FirstCourse
<1>3. First(p)[Len(p) + 1].where \in [LabelNames -> Ids \cup {-1, 0}] BY <1>2, PointParts
<1>. QED BY <1>3, Points, BeginPoint DEF Second

-----------------------------------------------------------------------------
\* Two points at the same place of the same program, whatever the lengths are.
Alike(m, n) ==
  /\ m.cur.s = n.cur.s /\ m.cur.r = n.cur.r
  /\ m.next = n.next /\ m.done = n.done
  /\ Len(m.open) = Len(n.open)
  /\ \A k \in DOMAIN m.open : m.open[k].s = n.open[k].s /\ m.open[k].r = n.open[k].r

LEMMA AlikeFrames ==
  ASSUME NEW f, NEW g, f.s = g.s, f.r = g.r
  PROVE  /\ Checked(f).s = Checked(g).s /\ Checked(f).r = Checked(g).r
         /\ \A n, x, o, y : /\ Grown(f, n, x).s = Grown(g, o, y).s
                            /\ Grown(f, n, x).r = Grown(g, o, y).r
<1>1. Checked(f).s = Checked(g).s /\ Checked(f).r = Checked(g).r BY DEF Checked
<1>2. \A n, x : Grown(f, n, x).s = Checked(f).s /\ Grown(f, n, x).r = Checked(f).r
  BY DEF Grown
<1>3. \A n, x : Grown(g, n, x).s = Checked(g).s /\ Grown(g, n, x).r = Checked(g).r
  BY DEF Grown
<1>. QED BY <1>1, <1>2, <1>3

LEMMA AfterAlike ==
  ASSUME NEW q, NEW r, NEW m \in Point, NEW n \in Point, NEW c \in Command, Alike(m, n)
  PROVE  Alike(After(q, m, c), After(r, n, c))
<1>1. /\ m.open \in Seq(Frame) /\ n.open \in Seq(Frame)
      /\ DOMAIN m.open = 1 .. Len(m.open) /\ DOMAIN n.open = 1 .. Len(n.open)
      /\ Len(m.open) = Len(n.open) /\ Len(m.open) \in Nat
      /\ m.cur \in Frame /\ n.cur \in Frame
  BY PointParts DEF Alike
<1>2. DoneAfter(m) = DoneAfter(n) BY DEF Alike, DoneAfter
<1>3. ASSUME NEW f, NEW g, f.s = g.s, f.r = g.r PROVE Alike(Moved(m, f), Moved(n, g))
  BY <1>3 DEF Alike, Moved
<1>4. CASE c.op = "org"
  <2>1. Alike(Left(m, Outside, m.open, m.next), Left(n, Outside, n.open, n.next))
    BY <1>2 DEF Alike, Left
  <2>. QED BY <1>4, <2>1, AfterIs
<1>5. CASE c.op = "base"
  <2> DEFINE f == [s |-> 0, r |-> m.cur.r, off |-> m.cur.off, extra |-> m.cur.extra]
             g == [s |-> 0, r |-> n.cur.r, off |-> n.cur.off, extra |-> n.cur.extra]
  <2>1. After(q, m, c) = Moved(m, f) /\ After(r, n, c) = Moved(n, g) BY <1>5, AfterIs
  <2>2. f.s = g.s /\ f.r = g.r BY DEF Alike
  <2>. HIDE DEF f, g
  <2>. QED BY <1>3, <2>1, <2>2
<1>6. CASE c.op = "baseoff"
  <2> DEFINE f == [s |-> m.cur.r, r |-> m.cur.r, off |-> m.cur.off, extra |-> m.cur.extra]
             g == [s |-> n.cur.r, r |-> n.cur.r, off |-> n.cur.off, extra |-> n.cur.extra]
  <2>1. After(q, m, c) = Moved(m, f) /\ After(r, n, c) = Moved(n, g) BY <1>6, AfterIs
  <2>2. f.s = g.s /\ f.r = g.r BY DEF Alike
  <2>. HIDE DEF f, g
  <2>. QED BY <1>3, <2>1, <2>2
<1>7. m.cur.s = n.cur.s /\ m.cur.r = n.cur.r BY DEF Alike
<1>8. CASE c.op = "db"
  <2> DEFINE f == Grown(m.cur, c.n, 0)
             g == Grown(n.cur, c.n, 0)
  <2>1. After(q, m, c) = Moved(m, f) /\ After(r, n, c) = Moved(n, g) BY <1>8, AfterIs
  <2>2. f.s = g.s /\ f.r = g.r BY <1>7, AlikeFrames
  <2>. HIDE DEF f, g
  <2>. QED BY <1>3, <2>1, <2>2
<1>9. CASE c.op = "ref"
  <2> DEFINE f == Grown(m.cur, 1 + RefLen(q, m, c.l), RefSlack(q, m, c.l))
             g == Grown(n.cur, 1 + RefLen(r, n, c.l), RefSlack(r, n, c.l))
  <2>1. After(q, m, c) = Moved(m, f) /\ After(r, n, c) = Moved(n, g) BY <1>9, AfterIs
  <2>2. f.s = g.s /\ f.r = g.r BY <1>7, AlikeFrames
  <2>. HIDE DEF f, g
  <2>. QED BY <1>3, <2>1, <2>2
<1>10. CASE c.op = "label"
  <2> DEFINE f == Checked(m.cur)
             g == Checked(n.cur)
  <2>1. f.s = g.s /\ f.r = g.r BY <1>7, AlikeFrames
  <2>. HIDE DEF f, g
  <2>2. ASSUME NEW a, a.cur = f, a.open = m.open, a.next = m.next, a.done = m.done,
               NEW b, b.cur = g, b.open = n.open, b.next = n.next, b.done = n.done
        PROVE  Alike(a, b)
    BY <2>1, <2>2 DEF Alike
  <2>3. ASSUME NEW t, NEW x
        PROVE  /\ After(t, x, c).cur = Checked(x.cur) /\ After(t, x, c).open = x.open
               /\ After(t, x, c).next = x.next /\ After(t, x, c).done = x.done
    <3>1. After(t, x, c) = IF t > 0 THEN Moved(x, Checked(x.cur))
                           ELSE IF x.where[c.l] = -1 THEN Labelled(x, c.l)
                           ELSE Failed(Moved(x, Checked(x.cur)))
      BY <1>10, AfterIs
    <3>. QED BY <3>1 DEF Moved, Labelled, Failed
  <2>4. /\ After(q, m, c).cur = f /\ After(q, m, c).open = m.open
        /\ After(q, m, c).next = m.next /\ After(q, m, c).done = m.done
    BY <2>3 DEF f
  <2>5. /\ After(r, n, c).cur = g /\ After(r, n, c).open = n.open
        /\ After(r, n, c).next = n.next /\ After(r, n, c).done = n.done
    BY <2>3 DEF g
  <2>. QED BY <2>2, <2>4, <2>5
<1>11. Alike(Failed(m), Failed(n)) BY DEF Alike, Failed
<1>12. CASE c.op = "freespace"
  <2>1. Alike(Left(m, [s |-> m.next, r |-> m.next, off |-> 0, extra |-> 0], m.open, m.next + 1),
              Left(n, [s |-> n.next, r |-> n.next, off |-> 0, extra |-> 0], n.open, n.next + 1))
    BY <1>2 DEF Alike, Left
  <2>2. m.next = n.next BY DEF Alike
  <2>3. After(q, m, c) =
          IF m.next > MaxFreespaces THEN Failed(m)
          ELSE Left(m, [s |-> m.next, r |-> m.next, off |-> 0, extra |-> 0], m.open, m.next + 1)
    BY <1>12, AfterIs
  <2>4. After(r, n, c) =
          IF n.next > MaxFreespaces THEN Failed(n)
          ELSE Left(n, [s |-> n.next, r |-> n.next, off |-> 0, extra |-> 0], n.open, n.next + 1)
    BY <1>12, AfterIs
  <2>. QED BY <1>11, <2>1, <2>2, <2>3, <2>4
<1>13. CASE c.op = "pushpc"
  <2>1. /\ Len(Append(m.open, m.cur)) = Len(m.open) + 1 /\ Append(m.open, m.cur) \in Seq(Frame)
        /\ Append(m.open, m.cur)[Len(m.open) + 1] = m.cur
        /\ \A k \in 1 .. Len(m.open) : Append(m.open, m.cur)[k] = m.open[k]
    BY <1>1, StackFacts
  <2>2. /\ Len(Append(n.open, n.cur)) = Len(n.open) + 1
        /\ Append(n.open, n.cur)[Len(n.open) + 1] = n.cur
        /\ \A k \in 1 .. Len(n.open) : Append(n.open, n.cur)[k] = n.open[k]
    BY <1>1, StackFacts
  <2>3. DOMAIN Append(m.open, m.cur) = 1 .. Len(m.open) + 1 BY <2>1
  <2>4. \A k \in 1 .. Len(m.open) + 1 : k \in 1 .. Len(m.open) \/ k = Len(m.open) + 1 BY <1>1
  <2>5. \A k \in DOMAIN Append(m.open, m.cur) :
          /\ Append(m.open, m.cur)[k].s = Append(n.open, n.cur)[k].s
          /\ Append(m.open, m.cur)[k].r = Append(n.open, n.cur)[k].r
    BY <1>1, <2>1, <2>2, <2>3, <2>4 DEF Alike
  <2>6. Alike(Pushed(m), Pushed(n)) BY <1>1, <2>1, <2>2, <2>5 DEF Alike, Pushed
  <2>. QED BY <1>13, <2>6, AfterIs
<1>14. CASE c.op = "pullpc"
  <2>1. m.open = << >> <=> n.open = << >> BY <1>1
  <2>2. ASSUME m.open # << >>
        PROVE  Alike(Left(m, Last(m.open), Front(m.open), m.next),
                     Left(n, Last(n.open), Front(n.open), n.next))
    <3>1. /\ Last(m.open) = m.open[Len(m.open)] /\ Len(m.open) \in Nat \ {0}
          /\ Front(m.open) \in Seq(Frame) /\ Len(Front(m.open)) = Len(m.open) - 1
          /\ \A i \in 1 .. Len(m.open) - 1 : Front(m.open)[i] = m.open[i]
      BY <1>1, <2>2, StackFacts
    <3>2. /\ Last(n.open) = n.open[Len(n.open)]
          /\ Len(Front(n.open)) = Len(n.open) - 1
          /\ \A i \in 1 .. Len(n.open) - 1 : Front(n.open)[i] = n.open[i]
      BY <1>1, <2>1, <2>2, StackFacts
    <3>3. DOMAIN Front(m.open) = 1 .. Len(m.open) - 1 BY <3>1
    <3>4. \A k \in 1 .. Len(m.open) - 1 : k \in DOMAIN m.open BY <1>1, <3>1
    <3>5. Len(m.open) \in DOMAIN m.open BY <1>1, <3>1
    <3>. QED BY <1>1, <1>2, <3>1, <3>2, <3>3, <3>4, <3>5 DEF Alike, Left
  <2>. QED BY <1>11, <1>14, <2>1, <2>2, AfterIs
<1>. QED BY <1>4, <1>5, <1>6, <1>8, <1>9, <1>10, <1>12, <1>13, <1>14, Commands

LEMMA LabelAfter ==
  ASSUME NEW q, NEW m, NEW c, c.op = "label"
  PROVE  /\ q > 0 => After(q, m, c) = Moved(m, Checked(m.cur))
         /\ ~(q > 0) => After(q, m, c) = IF m.where[c.l] = -1 THEN Labelled(m, c.l)
                                         ELSE Failed(Moved(m, Checked(m.cur)))
<1>1. After(q, m, c) = IF q > 0 THEN Moved(m, Checked(m.cur))
                       ELSE IF m.where[c.l] = -1 THEN Labelled(m, c.l)
                       ELSE Failed(Moved(m, Checked(m.cur)))
  BY AfterIs
<1>. QED BY <1>1

LEMMA WhereStays ==
  ASSUME NEW q, q > 0, NEW m \in Point, NEW c \in Command
  PROVE  After(q, m, c).where = m.where
<1>1. /\ \A f : Moved(m, f).where = m.where
      /\ \A f, o, n : Left(m, f, o, n).where = m.where
      /\ Failed(m).where = m.where /\ Pushed(m).where = m.where
  BY DEF Moved, Left, Failed, Pushed
<1>2. CASE c.op = "label" BY <1>1, <1>2, LabelAfter
<1>3. CASE c.op = "org"
  <2>1. After(q, m, c) = Left(m, Outside, m.open, m.next) BY <1>3, AfterIs
  <2>. QED BY <1>1, <2>1
<1>4. CASE c.op \in {"base", "baseoff"}
  <2>1. PICK f : After(q, m, c) = Moved(m, f) BY <1>4, AfterIs
  <2>. QED BY <1>1, <2>1
<1>5. CASE c.op = "db"
  <2>1. After(q, m, c) = Moved(m, Grown(m.cur, c.n, 0)) BY <1>5, AfterIs
  <2>. QED BY <1>1, <2>1
<1>6. CASE c.op = "ref"
  <2>1. After(q, m, c) = Moved(m, Grown(m.cur, 1 + RefLen(q, m, c.l), RefSlack(q, m, c.l)))
    BY <1>6, AfterIs
  <2>. QED BY <1>1, <2>1
<1>7. CASE c.op = "freespace"
  <2>1. After(q, m, c) =
          IF m.next > MaxFreespaces THEN Failed(m)
          ELSE Left(m, [s |-> m.next, r |-> m.next, off |-> 0, extra |-> 0], m.open, m.next + 1)
    BY <1>7, AfterIs
  <2>. QED BY <1>1, <2>1
<1>8. CASE c.op = "pushpc"
  <2>1. After(q, m, c) = Pushed(m) BY <1>8, AfterIs
  <2>. QED BY <1>1, <2>1
<1>9. CASE c.op = "pullpc"
  <2>1. After(q, m, c) =
          IF m.open = << >> THEN Failed(m) ELSE Left(m, Last(m.open), Front(m.open), m.next)
    BY <1>9, AfterIs
  <2>. QED BY <1>1, <2>1
<1>. QED BY <1>2, <1>3, <1>4, <1>5, <1>6, <1>7, <1>8, <1>9, Commands

\* Passes 1 and 2 go the way of pass 0, and know its labels from the start.
LEMMA CoursesAlike ==
  ASSUME NEW p \in Seq(Command)
  PROVE  \A i \in 1 .. Len(p) + 1 :
           /\ Alike(First(p)[i], Second(p)[i])
           /\ Second(p)[i].where = First(p)[Len(p) + 1].where
<1> DEFINE f == First(p)
           g == Second(p)
           w == First(p)[Len(p) + 1].where
           P(i) == Alike(f[i], g[i]) /\ g[i].where = w
           S == { n \in Nat : n <= Len(p) => P(n + 1) }
<1>1. Len(p) \in Nat /\ \A i \in 1 .. Len(p) : p[i] \in Command OBVIOUS
<1>2. 0 \in S
  <2>1. f[1] = Begin([l \in LabelNames |-> -1]) /\ g[1] = Begin(w)
    BY FirstCourse, SecondCourse
  <2>2. P(1) BY <2>1 DEF Alike, Begin
  <2>. QED BY <2>2
<1>3. ASSUME NEW n \in S PROVE n + 1 \in S
  <2>1. SUFFICES ASSUME n + 1 <= Len(p) PROVE P(n + 1 + 1)
    OBVIOUS
  <2>2. P(n + 1) /\ n + 1 \in 1 .. Len(p) /\ n + 1 \in 1 .. Len(p) + 1 BY <1>1, <2>1
  <2>3. f[n + 1] \in Point /\ g[n + 1] \in Point /\ p[n + 1] \in Command
    BY <1>1, <2>2, FirstCourse, SecondCourse
  <2>4. f[n + 1 + 1] = After(0, f[n + 1], p[n + 1]) BY <2>2, FirstCourse
  <2>5. g[n + 1 + 1] = After(1, g[n + 1], p[n + 1]) BY <2>2, SecondCourse
  <2>. HIDE DEF f, g, w
  <2>6. Alike(f[n + 1 + 1], g[n + 1 + 1]) BY <2>2, <2>3, <2>4, <2>5, AfterAlike
  <2>7. g[n + 1 + 1].where = g[n + 1].where
    <3>1. 1 > 0 OBVIOUS
    <3>2. After(1, g[n + 1], p[n + 1]).where = g[n + 1].where BY <2>3, <3>1, WhereStays
    <3>. QED BY <2>5, <3>2
  <2>. QED BY <2>2, <2>6, <2>7
<1>4. S \in SUBSET Nat OBVIOUS
<1>5. S = Nat
  <2>. HIDE DEF S
  <2>. QED BY <1>2, <1>3, <1>4, Induction
<1>6. ASSUME NEW i \in 1 .. Len(p) + 1 PROVE P(i)
  <2>1. i - 1 \in Nat /\ i - 1 <= Len(p) /\ i - 1 + 1 = i BY <1>1
  <2>2. i - 1 \in S BY <1>5, <2>1
  <2>. QED BY <2>1, <2>2
<1>. QED BY <1>6

\* A label that pass 0 defines without an error was not known before, is known
\* from then on to be in the freespace it is defined in, and is defined nowhere
\* else.
LEMMA Definitions ==
  ASSUME NEW p \in Seq(Command), ~First(p)[Len(p) + 1].bad,
         NEW i \in 1 .. Len(p), p[i].op = "label"
  PROVE  /\ First(p)[Len(p) + 1].where[p[i].l] = Checked(First(p)[i].cur).s
         /\ Checked(First(p)[i].cur).s >= 0
         /\ \A j \in 1 .. Len(p) : p[j].op = "label" /\ p[j].l = p[i].l => j = i
<1> DEFINE f == First(p)
           N == Len(p) + 1
<1>1. N \in 1 .. N /\ Len(p) \in Nat OBVIOUS
<1>2. ASSUME NEW j \in 1 .. Len(p), p[j].op = "label"
      PROVE  /\ p[j].l \in LabelNames
             /\ f[j].where[p[j].l] = -1
             /\ Checked(f[j].cur).s >= 0
             /\ f[j + 1].where[p[j].l] = Checked(f[j].cur).s
  <2>1. p[j] \in Command /\ j \in 1 .. N /\ j + 1 \in 1 .. N /\ j + 1 <= N BY <1>1
  <2>2. p[j].l \in LabelNames BY <1>2, <2>1, Commands
  <2>3. f[j] \in Point /\ f[j + 1] = After(0, f[j], p[j]) /\ Sound(f[j]) BY <2>1, FirstCourse
  <2>4. ~f[j + 1].bad BY <1>1, <2>1, FirstCourse DEF Later
  <2>. HIDE DEF f
  <2>5. After(0, f[j], p[j]) = IF f[j].where[p[j].l] = -1 THEN Labelled(f[j], p[j].l)
                               ELSE Failed(Moved(f[j], Checked(f[j].cur)))
    <3>1. ~(0 > 0) OBVIOUS
    <3>. QED BY <1>2, <3>1, LabelAfter
  <2>6. f[j].where[p[j].l] = -1 BY <2>3, <2>4, <2>5 DEF Failed
  <2>7. f[j].where \in [LabelNames -> Ids \cup {-1, 0}] /\ f[j].cur \in Frame BY <2>3, PointParts
  <2>8. f[j + 1].where[p[j].l] = Checked(f[j].cur).s
    BY <2>2, <2>3, <2>5, <2>6, <2>7 DEF Labelled
  <2>9. Checked(f[j].cur).s >= 0
    <3>1. Upright(f[j].cur) /\ 0 \in Nat BY <2>3 DEF Sound
    <3>. QED BY <2>7, <3>1, SoundChecked
  <2>. QED BY <2>2, <2>6, <2>8, <2>9
<1>3. ASSUME NEW j \in 1 .. Len(p), p[j].op = "label", NEW k \in j + 1 .. N
      PROVE  f[k].where[p[j].l] = Checked(f[j].cur).s
  <2>1. k \in 1 .. N /\ j + 1 \in 1 .. N /\ j + 1 <= k BY <1>1
  <2>2. Later(f[j + 1], f[k]) BY <2>1, FirstCourse
  <2>3. f[j + 1].where[p[j].l] # -1 BY <1>2, <1>3
  <2>. QED BY <1>2, <1>3, <2>2, <2>3 DEF Later
<1>4. ASSUME NEW j \in 1 .. Len(p), p[j].op = "label",
             NEW k \in 1 .. Len(p), p[k].op = "label", p[k].l = p[j].l, j < k
      PROVE  FALSE
  <2>1. k \in j + 1 .. N BY <1>1, <1>4
  <2>2. f[k].where[p[j].l] = Checked(f[j].cur).s BY <1>3, <1>4, <2>1
  <2>3. f[k].where[p[k].l] = -1 /\ Checked(f[j].cur).s >= 0 BY <1>2, <1>4
  <2>. QED BY <1>4, <2>2, <2>3
<1>5. ASSUME NEW j \in 1 .. Len(p), p[j].op = "label", p[j].l = p[i].l PROVE j = i
  <2>1. j < i \/ i < j \/ j = i BY <1>1
  <2>2. ~(j < i) BY <1>4, <1>5
  <2>3. ~(i < j) BY <1>4, <1>5
  <2>. QED BY <2>1, <2>2, <2>3
<1>6. N \in i + 1 .. N BY <1>1
<1>. QED BY <1>2, <1>3, <1>5, <1>6

-----------------------------------------------------------------------------
(***************************************************************************)
(* The passes go the way the program says                                  *)
(***************************************************************************)

\* The point the assembler is at, and what the passes end with.
Q     == IF pass = 0 THEN 0 ELSE 1
Here  == IF pass = 0 THEN First(prog)[ip] ELSE Second(prog)[ip]
End0  == First(prog)[Len(prog) + 1]
End1  == Second(prog)[Len(prog) + 1]
Len0  == LenAfter(End0)
Len1  == LenAfter(End1)

\* A position, or one of pushpc's stack, is where the frame says.
Follows(f, pos, real, start, extra) ==
  /\ pos.fs = f.s /\ real.fs = f.r
  /\ f.s > 0 => pos = real
  /\ f.r > 0 => real.addr = start.addr + f.off /\ extra = f.extra
FollowsSaved(f, e) == Follows(f, e.snespos, e.snesposreal, e.freest, e.freeex)
OnCourse ==
  /\ freespaceidnext = Here.next
  /\ Follows(Here.cur, snespos, realsnespos, freespacestart, freespaceextra)
  /\ Len(pushpc) = Len(Here.open)
  /\ \A k \in DOMAIN pushpc : FollowsSaved(Here.open[k], pushpc[k])

\* From pass 1 on a freespace starts where it was allocated.
AtHome ==
  pass > 0 =>
    /\ Here.cur.r > 0 => freespacestart = freespacepos[Here.cur.r]
    /\ \A k \in DOMAIN pushpc : Here.open[k].r > 0 => pushpc[k].freest = freespacepos[Here.open[k].r]

\* The labels that are known are those that the pass knows here.
LabelsKnown ==
  /\ \A l \in LabelNames : l \in DOMAIN labels <=> Here.where[l] # -1
  /\ \A l \in DOMAIN labels : labels[l].fs = Here.where[l]
  /\ IF pass = 0 THEN ~Here.bad ELSE ~End0.bad /\ End0.open = << >>

\* A freespace that has been measured in this pass is as long as this pass says,
\* and the others are as long as the pass before says.
Measured ==
  /\ pass < 2 => \A i \in Here.done : freespacelen[i] = Here.len[i]
  /\ pass = 1 => \A i \in Ids \ Here.done : i < End0.next => freespacelen[i] = Len0[i]
  /\ pass = 2 => \A i \in Ids : i < End0.next => freespacelen[i] = Len1[i]

\* No freespace is longer at n than at m.
Covers(m, n) ==
  /\ Total(n.cur) <= Total(m.cur)
  /\ \A k \in DOMAIN m.open : Total(n.open[k]) <= Total(m.open[k])
  /\ \A i \in m.done : n.len[i] <= m.len[i]
Enough ==
  /\ pass = 1 => Covers(First(prog)[ip], Second(prog)[ip])
  /\ pass > 1 => \A i \in Ids : i < End0.next => Len1[i] <= Len0[i]

\* Labels of freespaces are where pass 1 finds them.
LabelsPlaced ==
  pass > 0 => \A i \in 1 .. Len(prog) :
    LET f == Second(prog)[i].cur IN
    prog[i].op = "label" /\ f.s > 0 /\ (pass = 1 => i < ip) =>
      /\ prog[i].l \in DOMAIN labels
      /\ labels[prog[i].l] = At(f.s, freespacepos[f.s].addr + f.off)

\* The block of freespace i: n bytes in pass 1, and room for n bytes later on.
Has(i, n) ==
  /\ freespacepos[i].fs = i
  /\ \/ n = 0 /\ freespacepos[i].addr = ZeroPos
     \/ [start |-> freespacepos[i].addr, len |-> n] \in blocks
HasRoom(i, n) ==
  /\ freespacepos[i].fs = i
  /\ \/ n = 0 /\ freespacepos[i].addr = ZeroPos
     \/ \E b \in blocks : b.start = freespacepos[i].addr /\ b.len >= n
Allocated(i) == IF pass = 1 THEN i < freespaceidnext ELSE i < End0.next
BlocksApart ==
  /\ \A b \in blocks : b.len >= 1 /\ Extent(b) \subseteq Pool
  /\ \A b, c \in blocks : b # c => Extent(b) \cap Extent(c) = {}
BlocksHeld ==
  /\ pass = 0 => blocks = {}
  /\ pass > 0 => \A i, j \in Ids : Allocated(i) /\ Allocated(j) /\ i # j
       /\ freespacepos[i].addr = freespacepos[j].addr => freespacepos[i].addr = ZeroPos
  /\ pass = 1 => \A i \in Ids : i < freespaceidnext => Has(i, Len0[i])
  /\ pass = 2 => /\ \A i \in Ids : freespaceidnext <= i /\ i < End0.next => Has(i, Len0[i])
                 /\ \A i \in Ids : i < freespaceidnext => HasRoom(i, Len1[i])
  /\ pass = 3 => \A i \in Ids : i < End0.next => HasRoom(i, Len1[i])

\* Every byte of a freespace is one of those that have been counted for it.
Counted(w) ==
  LET d == w.addr - freespacepos[w.fs].addr IN
  /\ w.fs < freespaceidnext /\ 0 <= d
  /\ w.fs \in Here.done => d < Here.len[w.fs]
  /\ w.fs = Here.cur.r => d < Here.cur.off
  /\ \A k \in DOMAIN Here.open : w.fs = Here.open[k].r => d < Here.open[k].off
BytesCounted ==
  /\ pass < 2 => written = {}
  /\ pass = 2 => \A w \in written : w.fs > 0 => Counted(w)
  /\ pass = 3 => \A w \in written : w.fs > 0 =>
       w.fs < End0.next /\ w.addr - freespacepos[w.fs].addr \in 0 .. Len1[w.fs] - 1

PlanInv ==
  ~errored =>
    /\ pass < 3 => OnCourse /\ AtHome /\ LabelsKnown /\ Measured /\ LabelsPlaced
    /\ Enough /\ BlocksApart /\ BlocksHeld /\ BytesCounted

(***************************************************************************)
(* What the theorems ask of a program.  A base is turned off before its    *)
(* freespace ends; a +/- label that is used in a freespace is in the same  *)
(* one; and code under a base refers to labels under a base in its bank    *)
(* only.                                                                   *)
(***************************************************************************)
Ends == pass < 3 /\ (ip = Len(prog) + 1 \/ Cmd.op \in {"org", "freespace", "pullpc"})
BaseIsClosed == Ends /\ realsnespos.fs > 0 => snespos.fs > 0
RefersInFreespace == Running("ref") /\ realsnespos.fs > 0
SignsStayInside ==
  RefersInFreespace /\ pass > 0 /\ Cmd.l \in PlusNames =>
    Cmd.l \in DOMAIN labels /\ labels[Cmd.l].fs = snespos.fs
BaseInOneBank ==
  RefersInFreespace /\ snespos.fs = 0 /\ Cmd.l \in DOMAIN labels /\ labels[Cmd.l].fs = 0 =>
    Bank(labels[Cmd.l]) = Bank(snespos)
Ordinary == BaseIsClosed /\ SignsStayInside /\ BaseInOneBank

\* Bytes that are not for a freespace are not written where the finder looks.
FreeAreaFree == \A w \in written : w.fs <= 0 => w.addr \notin Pool

\* A command that has gone through.
Onward ==
  /\ pass < 3 /\ ip <= Len(prog) /\ ip' = ip + 1 /\ pass' = pass /\ prog' = prog
  /\ ~errored /\ ~errored'
Through ==
  \/ Org \/ Base \/ BaseOff \/ Db \/ Instr \/ Label
  \/ FreespaceMeasure \/ FreespaceAllocate \/ FreespaceResize \/ PushPc \/ PullPc

LEMMA WentThrough ==
  ASSUME TypeOK, Next, ~errored'
  PROVE  ~errored /\ pass < 3 /\ prog' = prog /\ (FinishPass \/ (Through /\ Onward))
<1>1. ASSUME Proceed, ~errored' PROVE ip' = ip + 1 /\ pass' = pass /\ ~errored
  BY <1>1 DEF Proceed, Fatal
<1>2. ASSUME NEW op, Running(op), Proceed, prog' = prog PROVE Onward
  BY <1>1, <1>2 DEF Running, Onward
<1>3. ASSUME TakeId PROVE Running("freespace") BY <1>3 DEF TakeId
<1>4. CASE Org \/ Base \/ BaseOff \/ Db \/ Instr
  <2>1. Onward BY <1>2, <1>4 DEF Org, Base, BaseOff, Db, Instr
  <2>. QED BY <1>4, <2>1 DEF Onward, Through
<1>5. CASE FreespaceMeasure \/ FreespaceAllocate \/ FreespaceResize
  <2>1. Onward
    BY <1>2, <1>3, <1>5 DEF FreespaceMeasure, FreespaceAllocate, FreespaceResize, EnterFreespace
  <2>. QED BY <1>5, <2>1 DEF Onward, Through
<1>6. CASE PushPc \/ PullPc
  <2>1. Onward BY <1>2, <1>6 DEF PushPc, PullPc
  <2>. QED BY <1>6, <2>1 DEF Onward, Through
<1>7. CASE Label
  <2>1. ~BlockError BY DEF BlockError
  <2>2. Proceed /\ Running("label") /\ prog' = prog BY <1>7, <2>1 DEF Label, LabelCheck
  <2>3. Onward BY <1>2, <2>2
  <2>. QED BY <1>7, <2>3 DEF Onward, Through
<1>8. CASE InstrUnknown \/ PullPcEmpty \/ FreespaceFull \/ FreespaceLimit
  BY <1>8 DEF InstrUnknown, PullPcEmpty, FreespaceFull, FreespaceLimit, BlockError, Fatal
<1>9. CASE FinishPass
  BY <1>9 DEF FinishPass
<1>. QED BY <1>4, <1>5, <1>6, <1>7, <1>8, <1>9 DEF Next

\* The courses of this program.
LEMMA Courses ==
  ASSUME TypeOK
  PROVE  /\ Len(prog) \in Nat /\ prog \in Seq(Command) /\ ip \in 1 .. Len(prog) + 1
         /\ \A i \in 1 .. Len(prog) : prog[i] \in Command
         /\ \A i \in 1 .. Len(prog) + 1 :
              /\ First(prog)[i] \in Point /\ Sound(First(prog)[i])
              /\ Second(prog)[i] \in Point /\ Sound(Second(prog)[i])
              /\ Alike(First(prog)[i], Second(prog)[i])
              /\ Second(prog)[i].where = End0.where
              /\ Later(First(prog)[i], End0) /\ Later(Second(prog)[i], End1)
         /\ \A i \in 1 .. Len(prog) :
              /\ First(prog)[i + 1] = After(0, First(prog)[i], prog[i])
              /\ Second(prog)[i + 1] = After(1, Second(prog)[i], prog[i])
         /\ \A i, j \in 1 .. Len(prog) + 1 : i <= j => Later(Second(prog)[i], Second(prog)[j])
         /\ Here \in Point /\ Sound(Here)
         /\ End0 \in Point /\ Sound(End0) /\ End1 \in Point /\ Sound(End1) /\ Alike(End0, End1)
<1>1. prog \in Seq(Command) /\ Len(prog) \in Nat /\ ip \in 1 .. Len(prog) + 1 BY DEF TypeOK
<1>2. \A i \in 1 .. Len(prog) : prog[i] \in Command BY <1>1
<1>3. Len(prog) + 1 \in 1 .. Len(prog) + 1 /\ \A i \in 1 .. Len(prog) + 1 : i <= Len(prog) + 1
  BY <1>1
<1>4. \A i \in 1 .. Len(prog) + 1 :
        /\ First(prog)[i] \in Point /\ Sound(First(prog)[i])
        /\ Second(prog)[i] \in Point /\ Sound(Second(prog)[i])
  BY <1>1, FirstCourse, SecondCourse
<1>5. \A i \in 1 .. Len(prog) + 1 :
        /\ Alike(First(prog)[i], Second(prog)[i]) /\ Second(prog)[i].where = End0.where
  BY <1>1, CoursesAlike DEF End0
<1>6. \A i \in 1 .. Len(prog) + 1 : Later(First(prog)[i], End0) /\ Later(Second(prog)[i], End1)
  BY <1>1, <1>3, FirstCourse, SecondCourse DEF End0, End1
<1>7. \A i \in 1 .. Len(prog) :
        /\ First(prog)[i + 1] = After(0, First(prog)[i], prog[i])
        /\ Second(prog)[i + 1] = After(1, Second(prog)[i], prog[i])
  BY <1>1, FirstCourse, SecondCourse
<1>8. \A i, j \in 1 .. Len(prog) + 1 : i <= j => Later(Second(prog)[i], Second(prog)[j])
  BY <1>1, SecondCourse
<1>9. Here \in Point /\ Sound(Here) BY <1>1, <1>4 DEF Here
<1>10. End0 \in Point /\ Sound(End0) /\ End1 \in Point /\ Sound(End1) /\ Alike(End0, End1)
  BY <1>3, <1>4, <1>5 DEF End0, End1
<1>. QED BY <1>1, <1>2, <1>4, <1>5, <1>6, <1>7, <1>8, <1>9, <1>10

\* A command goes to the next point.
LEMMA HereMoves ==
  ASSUME TypeOK, Onward
  PROVE  /\ Here' = After(Q, Here, Cmd) /\ Cmd \in Command /\ Cmd = prog[ip] /\ ip \in 1 .. Len(prog)
         /\ Q' = Q /\ End0' = End0 /\ End1' = End1 /\ Len0' = Len0 /\ Len1' = Len1
         /\ Here' \in Point /\ Sound(Here')
<1>1. ip \in 1 .. Len(prog) /\ ip + 1 \in 1 .. Len(prog) + 1 BY Courses DEF Onward
<1>2. prog' = prog /\ ip' = ip + 1 /\ pass' = pass BY DEF Onward
<1>3. Here' = After(Q, Here, Cmd)
  <2>1. CASE pass = 0
    <3>1. Here' = First(prog)[ip + 1] /\ Here = First(prog)[ip] /\ Q = 0 BY <1>2, <2>1 DEF Here, Q
    <3>. QED BY <1>1, <3>1, Courses DEF Cmd
  <2>2. CASE pass # 0
    <3>1. Here' = Second(prog)[ip + 1] /\ Here = Second(prog)[ip] /\ Q = 1 BY <1>2, <2>2 DEF Here, Q
    <3>. QED BY <1>1, <3>1, Courses DEF Cmd
  <2>. QED BY <2>1, <2>2
<1>4. Cmd \in Command /\ Cmd = prog[ip] BY <1>1, Courses DEF Cmd
<1>5. Here \in Point /\ Sound(Here) BY Courses
<1>6. Here' \in Point /\ Sound(Here') BY <1>3, <1>4, <1>5, AfterType, AfterSound
<1>7. Q' = Q /\ End0' = End0 /\ End1' = End1 BY <1>2 DEF Q, End0, End1
<1>8. Len0' = Len0 /\ Len1' = Len1 BY <1>7 DEF Len0, Len1
<1>. QED BY <1>1, <1>3, <1>4, <1>6, <1>7, <1>8

\* freespaceend files what the frame says.
LEMMA EndedIs ==
  ASSUME TypeOK, OwnInv, OnCourse, Ends, BaseIsClosed
  PROVE  /\ Here.cur.r > 0 => /\ Ended = [freespacelen EXCEPT ![Here.cur.r] = Total(Here.cur)]
                              /\ Here.cur.r \in Ids /\ freespaceid = Here.cur.r
         /\ ~(Here.cur.r > 0) => Ended = freespacelen
<1>1. Here \in Point /\ Sound(Here) BY Courses
<1>2. /\ snespos.fs = Here.cur.s /\ realsnespos.fs = Here.cur.r
      /\ Here.cur.s > 0 => snespos = realsnespos
      /\ Here.cur.r > 0 => /\ realsnespos.addr = freespacestart.addr + Here.cur.off
                           /\ freespaceextra = Here.cur.extra
  BY DEF OnCourse, Follows
<1>3. CASE Here.cur.r > 0
  <2>1. snespos.fs > 0 /\ snespos = realsnespos BY <1>2, <1>3 DEF BaseIsClosed
  <2>2. freespaceid = Here.cur.r BY <1>2, <2>1 DEF OwnInv, Own, Ends
  <2>3. snespos.addr = freespacestart.addr + Here.cur.off /\ freespaceextra = Here.cur.extra
    BY <1>2, <1>3, <2>1
  <2>4. freespacestart.addr \in Int /\ Here.cur.off \in Nat /\ Here.cur.extra \in Nat
    BY <1>1, PointParts DEF TypeOK, Pos
  <2>5. snespos.addr - freespacestart.addr + freespaceextra = Total(Here.cur)
    BY <2>3, <2>4 DEF Total
  <2>6. Ended = [freespacelen EXCEPT ![Here.cur.r] = Total(Here.cur)]
    BY <2>1, <2>2, <2>5 DEF Ended
  <2>7. Here.cur.r \in Ids BY <2>2 DEF TypeOK
  <2>. QED BY <1>3, <2>2, <2>6, <2>7
<1>4. CASE ~(Here.cur.r > 0)
  <2>1. ~(snespos.fs > 0) BY <1>1, <1>2, <1>4 DEF Sound, Upright
  <2>. QED BY <1>4, <2>1 DEF Ended
<1>. QED BY <1>3, <1>4

\* The same stack, at the same points.
LEMMA StackKept ==
  ASSUME OnCourse, pushpc' = pushpc, Here'.open = Here.open
  PROVE  Len(pushpc') = Len(Here'.open)
         /\ \A k \in DOMAIN pushpc' : FollowsSaved(Here'.open[k], pushpc'[k])
BY DEF OnCourse

\* An operand is as long as the course says, where that matters.
LEMMA OperandIs ==
  ASSUME TypeOK, OnCourse, LabelsKnown, Ordinary, Running("ref"), Here.cur.r > 0
  PROVE  OperandLen(Cmd.l) = RefLen(Q, Here, Cmd.l) /\ OperandSlack(Cmd.l) = RefSlack(Q, Here, Cmd.l)
<1>1. Cmd.l \in LabelNames BY CmdType
<1>2. realsnespos.fs > 0 /\ snespos.fs = Here.cur.s BY DEF OnCourse, Follows
<1>3. Q = 0 <=> pass = 0 BY DEF Q
<1>4. Cmd.l \in DOMAIN labels <=> Here.where[Cmd.l] # -1 BY <1>1 DEF LabelsKnown
<1>5. OperandSlack(Cmd.l) = RefSlack(Q, Here, Cmd.l) BY <1>3, <1>4 DEF OperandSlack, RefSlack
<1>6. CASE Unseen(Q, Here, Cmd.l)
  BY <1>3, <1>4, <1>5, <1>6 DEF OperandLen, RefLen, Unseen
<1>7. CASE ~Unseen(Q, Here, Cmd.l)
  <2>1. Cmd.l \in DOMAIN labels /\ OperandLen(Cmd.l) = LenForLabel(snespos, labels[Cmd.l])
    BY <1>3, <1>4, <1>7 DEF OperandLen, Unseen
  <2>2. labels[Cmd.l].fs = Here.where[Cmd.l] BY <2>1 DEF LabelsKnown
  <2>3. RefLen(Q, Here, Cmd.l) = IF labels[Cmd.l].fs = snespos.fs THEN 2 ELSE 3
    BY <1>2, <1>7, <2>2 DEF RefLen
  <2>4. labels[Cmd.l].fs = 0 /\ snespos.fs = 0 => Bank(labels[Cmd.l]) = Bank(snespos)
    BY <1>2, <2>1 DEF Ordinary, BaseInOneBank, RefersInFreespace
  <2>. QED BY <1>5, <2>1, <2>3, <2>4 DEF LenForLabel
<1>. QED BY <1>6, <1>7

LEMMA FramePos ==
  ASSUME TypeOK, OnCourse
  PROVE  /\ Here \in Point /\ Sound(Here) /\ Here.cur \in Frame /\ Upright(Here.cur)
         /\ NoOrg <=> Here.cur.s = -1 \/ Here.cur.r = -1
         /\ Checked(Here.cur).s = Verified(snespos).fs
         /\ Checked(Here.cur).r = Verified(realsnespos).fs
<1>1. Here \in Point /\ Sound(Here) BY Courses
<1>2. Here.cur \in Frame /\ Upright(Here.cur) BY <1>1, PointParts DEF Sound
<1>3. snespos.fs = Here.cur.s /\ realsnespos.fs = Here.cur.r BY DEF OnCourse, Follows
<1>4. At(0, 0).fs = 0 /\ Outside.s = 0 /\ Outside.r = 0 BY DEF At, Outside
<1>. QED BY <1>1, <1>2, <1>3, <1>4 DEF NoOrg, Verified, Checked

\* Writing goes on by as many bytes.
LEMMA WriteFollows ==
  ASSUME TypeOK, OnCourse, NEW n \in Nat, NEW x \in Nat, NEW k \in Nat, NEW y \in Nat,
         Write(n), freespacestart' = freespacestart, freespaceextra' = freespaceextra + x,
         Here.cur.r > 0 => k = n /\ y = x
  PROVE  Follows(Grown(Here.cur, k, y), snespos', realsnespos', freespacestart', freespaceextra')
<1> DEFINE f == Here.cur
           g == Grown(f, k, y)
<1>1. /\ Here \in Point /\ f \in Frame /\ Upright(f)
      /\ NoOrg <=> f.s = -1 \/ f.r = -1
      /\ Checked(f).s = Verified(snespos).fs /\ Checked(f).r = Verified(realsnespos).fs
  BY FramePos
<1>2. /\ snespos' = Plus(Verified(snespos), n) /\ realsnespos' = Plus(Verified(realsnespos), n)
  BY DEF Write
<1>3. /\ Verified(snespos) \in Pos /\ Verified(realsnespos) \in Pos
      /\ freespacestart.addr \in Int
  BY VerifiedType DEF TypeOK, Pos
<1>4. snespos'.fs = Verified(snespos).fs /\ realsnespos'.fs = Verified(realsnespos).fs
  <2>1. n \in Int OBVIOUS
  <2>. QED BY <1>2, <1>3, <2>1, PlusType
<1>5. /\ g.s = Checked(f).s /\ g.r = Checked(f).r /\ Upright(Checked(f))
      /\ Checked(f).r > 0 => f = Checked(f)
      /\ Checked(f).s > 0 => f = Checked(f)
  BY <1>1, SoundChecked
<1>6. snespos'.fs = g.s /\ realsnespos'.fs = g.r BY <1>1, <1>4, <1>5
<1>7. /\ snespos.fs = f.s /\ realsnespos.fs = f.r
      /\ f.s > 0 => snespos = realsnespos
      /\ f.r > 0 => realsnespos.addr = freespacestart.addr + f.off /\ freespaceextra = f.extra
  BY DEF OnCourse, Follows
<1>8. ASSUME g.s > 0 PROVE snespos' = realsnespos'
  <2>1. f.s > 0 /\ f.r = f.s BY <1>1, <1>5, <1>8 DEF Upright
  <2>2. ~NoOrg BY <1>1, <2>1
  <2>. QED BY <1>2, <1>7, <2>1, <2>2 DEF Verified
<1>9. ASSUME g.r > 0
      PROVE  realsnespos'.addr = freespacestart'.addr + g.off /\ freespaceextra' = g.extra
  <2>1. f.r > 0 /\ f = Checked(f) BY <1>5, <1>9
  <2>2. ~NoOrg BY <1>1, <2>1, PointParts DEF Upright
  <2>3. Verified(realsnespos) = realsnespos BY <2>2 DEF Verified
  <2>4. realsnespos'.addr = realsnespos.addr + n BY <1>2, <1>3, <2>3 DEF Plus, Pos
  <2>5. g = [s |-> f.s, r |-> f.r, off |-> f.off + k, extra |-> f.extra + y] BY <2>1 DEF Grown
  <2>6. f.off \in Nat /\ f.extra \in Nat BY <1>1, PointParts
  <2>. QED BY <1>3, <1>7, <2>1, <2>4, <2>5, <2>6
<1>. QED BY <1>6, <1>8, <1>9 DEF Follows

\* A freespace command that goes through, and the point after it.
LEMMA FreespaceGoes ==
  ASSUME TypeOK, OnCourse, Onward, TakeId
  PROVE  /\ freespaceidnext < MaxFreespaces + 1
         /\ Here' = Left(Here, [s |-> Here.next, r |-> Here.next, off |-> 0, extra |-> 0],
                         Here.open, Here.next + 1)
         /\ pass > 0 => freespaceidnext < End0.next
<1>1. Here \in Point /\ Here' = After(Q, Here, Cmd) /\ Cmd.op = "freespace" /\ ip \in 1 .. Len(prog)
  BY FramePos, HereMoves DEF TakeId, Running, Cmd
<1>2. freespaceidnext = Here.next /\ freespaceidnext <= MaxFreespaces BY DEF OnCourse, TakeId
<1>3. Here.next \in Nat /\ MaxFreespaces \in Int BY <1>1, PointParts, PassesAssumption
<1>4. Here' = IF Here.next > MaxFreespaces THEN Failed(Here)
              ELSE Left(Here, [s |-> Here.next, r |-> Here.next, off |-> 0, extra |-> 0],
                        Here.open, Here.next + 1)
  BY <1>1, AfterIs
<1>5. Here' = Left(Here, [s |-> Here.next, r |-> Here.next, off |-> 0, extra |-> 0],
                   Here.open, Here.next + 1)
  BY <1>2, <1>3, <1>4
<1>6. ASSUME pass > 0 PROVE freespaceidnext < End0.next
  <2>1. Here' = Second(prog)[ip + 1] BY <1>6 DEF Here, Onward
  <2>2. ip + 1 \in 1 .. Len(prog) + 1 BY <1>1, Courses
  <2>3. Later(Here', End1) /\ Alike(End0, End1) /\ End0 \in Point BY <2>1, <2>2, Courses
  <2>4. Here'.next <= End0.next BY <2>3 DEF Later, Alike
  <2>5. Here'.next = freespaceidnext + 1 BY <1>2, <1>5 DEF Left
  <2>6. End0.next \in Nat BY <2>3, PointParts
  <2>. QED BY <1>2, <1>3, <2>4, <2>5, <2>6
<1>. QED BY <1>2, <1>3, <1>5, <1>6

\* pushpc, and the point after it.
LEMMA PushGoes ==
  ASSUME TypeOK, OnCourse, Onward, PushPc
  PROVE  /\ Here'.cur = Lost /\ Here'.next = Here.next /\ freespaceidnext' = freespaceidnext
         /\ DOMAIN pushpc' = 1 .. Len(pushpc) + 1 /\ DOMAIN pushpc = 1 .. Len(pushpc)
         /\ Len(pushpc') = Len(pushpc) + 1 /\ Len(Here'.open) = Len(pushpc) + 1
         /\ DOMAIN Here'.open = DOMAIN pushpc' /\ DOMAIN Here.open = DOMAIN pushpc
         /\ \A k \in 1 .. Len(pushpc) + 1 : k \in 1 .. Len(pushpc) \/ k = Len(pushpc) + 1
         /\ \A k \in 1 .. Len(pushpc) : pushpc'[k] = pushpc[k] /\ Here'.open[k] = Here.open[k]
         /\ Here'.open[Len(pushpc) + 1] = Here.cur
         /\ pushpc'[Len(pushpc) + 1] =
              [snespos |-> snespos, snesstart |-> startpos,
               snesposreal |-> realsnespos, snesstartreal |-> realstartpos,
               freeid |-> freespaceid, freeex |-> freespaceextra, freest |-> freespacestart]
<1>1. Here \in Point /\ Here' \in Point /\ Here' = After(Q, Here, Cmd) /\ Len(pushpc) = Len(Here.open)
  BY FramePos, HereMoves DEF OnCourse
<1>2. Here' = Pushed(Here)
  <2>1. Cmd.op = "pushpc" BY DEF PushPc, Running, Cmd
  <2>. QED BY <1>1, <2>1, AfterIs
<1>3. Here'.cur = Lost /\ Here'.open = Append(Here.open, Here.cur) /\ Here'.next = Here.next
  BY <1>2 DEF Pushed
<1> DEFINE e == [snespos |-> snespos, snesstart |-> startpos,
                 snesposreal |-> realsnespos, snesstartreal |-> realstartpos,
                 freeid |-> freespaceid, freeex |-> freespaceextra, freest |-> freespacestart]
<1>4. pushpc' = Append(pushpc, e) /\ freespaceidnext' = freespaceidnext BY DEF PushPc, freespace
<1>5. e \in Saved BY DEF Saved, TypeOK
<1>. HIDE DEF e
<1>6. pushpc \in Seq(Saved) /\ Here.open \in Seq(Frame) BY <1>1, PointParts DEF TypeOK
<1>7. /\ Len(pushpc') = Len(pushpc) + 1 /\ pushpc'[Len(pushpc) + 1] = e /\ pushpc' \in Seq(Saved)
      /\ \A k \in 1 .. Len(pushpc) : pushpc'[k] = pushpc[k]
  BY <1>4, <1>5, <1>6, StackFacts
<1>8. /\ Len(Here'.open) = Len(pushpc) + 1 /\ Here'.open[Len(pushpc) + 1] = Here.cur
      /\ \A k \in 1 .. Len(pushpc) : Here'.open[k] = Here.open[k]
  BY <1>1, <1>3, <1>6, PointParts, StackFacts
<1>9. /\ DOMAIN pushpc' = 1 .. Len(pushpc) + 1 /\ DOMAIN pushpc = 1 .. Len(pushpc)
      /\ \A k \in 1 .. Len(pushpc) + 1 : k \in 1 .. Len(pushpc) \/ k = Len(pushpc) + 1
  BY <1>6, <1>7
<1>10. DOMAIN Here'.open = 1 .. Len(pushpc) + 1 /\ DOMAIN Here.open = 1 .. Len(pushpc)
  BY <1>1, <1>8, PointParts
<1>. QED BY <1>3, <1>4, <1>7, <1>8, <1>9, <1>10 DEF e

\* pullpc, and the point after it.
LEMMA PullGoes ==
  ASSUME TypeOK, OnCourse, Onward, PullPc
  PROVE  /\ Here'.next = Here.next /\ freespaceidnext' = freespaceidnext
         /\ Len(pushpc) \in DOMAIN pushpc /\ DOMAIN Here.open = DOMAIN pushpc
         /\ Len(pushpc') = Len(Here'.open) /\ DOMAIN Here'.open = DOMAIN pushpc'
         /\ \A k \in DOMAIN pushpc' : k \in DOMAIN pushpc /\ k # Len(pushpc)
         /\ \A k \in DOMAIN pushpc' : pushpc'[k] = pushpc[k] /\ Here'.open[k] = Here.open[k]
         /\ Here'.cur = Here.open[Len(pushpc)]
         /\ snespos' = pushpc[Len(pushpc)].snespos /\ realsnespos' = pushpc[Len(pushpc)].snesposreal
         /\ freespaceextra' = pushpc[Len(pushpc)].freeex /\ freespacestart' = pushpc[Len(pushpc)].freest
<1>1. Here \in Point /\ Here' \in Point /\ Here' = After(Q, Here, Cmd) /\ Len(pushpc) = Len(Here.open)
  BY FramePos, HereMoves DEF OnCourse
<1>2. pushpc \in Seq(Saved) /\ pushpc # << >> /\ Here.open \in Seq(Frame)
  BY <1>1, PointParts DEF TypeOK, PullPc
<1>3. /\ Len(pushpc) \in Nat \ {0} /\ Front(pushpc) \in Seq(Saved)
      /\ Len(Front(pushpc)) = Len(pushpc) - 1
      /\ \A k \in 1 .. Len(pushpc) - 1 : Front(pushpc)[k] = pushpc[k]
  BY <1>2, StackFacts
<1>4. Here.open # << >> BY <1>1, <1>2, <1>3
<1>5. /\ Last(Here.open) = Here.open[Len(pushpc)]
      /\ Len(Front(Here.open)) = Len(pushpc) - 1
      /\ \A k \in 1 .. Len(pushpc) - 1 : Front(Here.open)[k] = Here.open[k]
  BY <1>1, <1>2, <1>4, StackFacts
<1>6. Here' = Left(Here, Last(Here.open), Front(Here.open), Here.next)
  <2>1. Cmd.op = "pullpc" BY DEF PullPc, Running, Cmd
  <2>. QED BY <1>1, <1>4, <2>1, AfterIs
<1>7. Here'.cur = Here.open[Len(pushpc)] /\ Here'.open = Front(Here.open) /\ Here'.next = Here.next
  BY <1>5, <1>6 DEF Left
<1>8. /\ pushpc' = Front(pushpc) /\ freespaceidnext' = freespaceidnext
      /\ snespos' = pushpc[Len(pushpc)].snespos /\ realsnespos' = pushpc[Len(pushpc)].snesposreal
      /\ freespaceextra' = pushpc[Len(pushpc)].freeex /\ freespacestart' = pushpc[Len(pushpc)].freest
  BY DEF PullPc
<1>9. /\ DOMAIN pushpc' = 1 .. Len(pushpc) - 1 /\ DOMAIN pushpc = 1 .. Len(pushpc)
      /\ \A k \in 1 .. Len(pushpc) - 1 : k \in 1 .. Len(pushpc) /\ k # Len(pushpc)
      /\ Len(pushpc) \in 1 .. Len(pushpc)
  BY <1>2, <1>3, <1>8
<1>10. DOMAIN Here'.open = 1 .. Len(pushpc) - 1 /\ DOMAIN Here.open = 1 .. Len(pushpc)
  BY <1>1, <1>5, <1>7, PointParts
<1>. QED BY <1>3, <1>5, <1>7, <1>8, <1>9, <1>10

\* The commands that stay where they are, and the point after them.
LEMMA QuietGoes ==
  ASSUME TypeOK, OnCourse, Onward, Base \/ BaseOff \/ Db \/ Instr \/ Label
  PROVE  /\ Here'.next = Here.next /\ Here'.open = Here.open
         /\ Here'.cur.r > 0 => Here'.cur.r = Here.cur.r /\ Here.cur.off <= Here'.cur.off
         /\ pushpc' = pushpc /\ freespaceid' = freespaceid /\ freespaceidnext' = freespaceidnext
         /\ freespacestart' = freespacestart /\ freespacepos' = freespacepos /\ blocks' = blocks
<1>1. /\ Here \in Point /\ Here.cur \in Frame /\ Upright(Here.cur) /\ Here' = After(Q, Here, Cmd)
      /\ Cmd \in Command /\ Here.cur.off \in Nat
  BY FramePos, HereMoves, PointParts
<1>2. /\ pushpc' = pushpc /\ freespaceid' = freespaceid /\ freespaceidnext' = freespaceidnext
      /\ freespacestart' = freespacestart /\ freespacepos' = freespacepos /\ blocks' = blocks
  BY DEF Base, BaseOff, Db, Instr, Label, freespace, output
<1>3. ASSUME NEW f, Here' = Moved(Here, f) \/ Here' = Failed(Moved(Here, f))
                      \/ (Here' = Labelled(Here, Cmd.l) /\ f = Checked(Here.cur)),
             f.r > 0 => f.r = Here.cur.r /\ Here.cur.off <= f.off
      PROVE  /\ Here'.next = Here.next /\ Here'.open = Here.open
             /\ Here'.cur.r > 0 => Here'.cur.r = Here.cur.r /\ Here.cur.off <= Here'.cur.off
  BY <1>3 DEF Moved, Failed, Labelled
<1>4. CASE Base
  <2> DEFINE f == [s |-> 0, r |-> Here.cur.r, off |-> Here.cur.off, extra |-> Here.cur.extra]
  <2>1. Cmd.op = "base" BY <1>4 DEF Base, Running, Cmd
  <2>2. Here' = Moved(Here, f) BY <1>1, <2>1, AfterIs
  <2>3. f.r = Here.cur.r /\ Here.cur.off <= f.off BY <1>1
  <2>. QED BY <1>2, <1>3, <2>2, <2>3
<1>5. CASE BaseOff
  <2> DEFINE f == [s |-> Here.cur.r, r |-> Here.cur.r, off |-> Here.cur.off, extra |-> Here.cur.extra]
  <2>1. Cmd.op = "baseoff" BY <1>5 DEF BaseOff, Running, Cmd
  <2>2. Here' = Moved(Here, f) BY <1>1, <2>1, AfterIs
  <2>3. f.r = Here.cur.r /\ Here.cur.off <= f.off BY <1>1
  <2>. QED BY <1>2, <1>3, <2>2, <2>3
<1>6. ASSUME NEW n \in Nat, NEW x \in Nat, Here' = Moved(Here, Grown(Here.cur, n, x))
      PROVE  /\ Here'.next = Here.next /\ Here'.open = Here.open
             /\ Here'.cur.r > 0 => Here'.cur.r = Here.cur.r /\ Here.cur.off <= Here'.cur.off
  <2> DEFINE f == Grown(Here.cur, n, x)
  <2>1. f.r > 0 => Checked(Here.cur).r > 0 /\ Here.cur = Checked(Here.cur)
    BY <1>1, SoundChecked
  <2>2. f.r > 0 => f = [s |-> Here.cur.s, r |-> Here.cur.r, off |-> Here.cur.off + n,
                        extra |-> Here.cur.extra + x]
    BY <2>1 DEF Grown
  <2>3. f.r > 0 => f.r = Here.cur.r /\ Here.cur.off <= f.off BY <1>1, <2>2
  <2>. HIDE DEF f
  <2>. QED BY <1>3, <1>6, <2>3 DEF f
<1>7. CASE Db
  <2>1. Cmd.op = "db" BY <1>7 DEF Db, Running, Cmd
  <2>2. Here' = Moved(Here, Grown(Here.cur, Cmd.n, 0)) /\ Cmd.n \in Nat BY <1>1, <2>1, AfterIs, Commands
  <2>3. 0 \in Nat OBVIOUS
  <2>. QED BY <1>2, <1>6, <2>2, <2>3
<1>8. CASE Instr
  <2>1. Cmd.op = "ref" BY <1>8 DEF Instr, Running, Cmd
  <2>2. Here' = Moved(Here, Grown(Here.cur, 1 + RefLen(Q, Here, Cmd.l), RefSlack(Q, Here, Cmd.l)))
    BY <1>1, <2>1, AfterIs
  <2>3. 1 + RefLen(Q, Here, Cmd.l) \in Nat /\ RefSlack(Q, Here, Cmd.l) \in Nat BY OperandNat
  <2>. QED BY <1>2, <1>6, <2>2, <2>3
<1>9. CASE Label
  <2> DEFINE f == Checked(Here.cur)
  <2>1. Cmd.op = "label" BY <1>9 DEF Label, Running, Cmd
  <2>2. Here' = Moved(Here, f) \/ Here' = Labelled(Here, Cmd.l) \/ Here' = Failed(Moved(Here, f))
    BY <1>1, <2>1, LabelAfter
  <2>3. f.r > 0 => f = Here.cur BY <1>1, 0 \in Nat, SoundChecked
  <2>4. f.r > 0 => f.r = Here.cur.r /\ Here.cur.off <= f.off BY <1>1, <2>3
  <2>. HIDE DEF f
  <2>. QED BY <1>2, <1>3, <2>2, <2>4 DEF f
<1>. QED BY <1>4, <1>5, <1>7, <1>8, <1>9

LEMMA CourseKept ==
  ASSUME TypeOK, TypeOK', OwnInv, OnCourse, BlocksHeld, LabelsKnown, Ordinary, Onward, Through
  PROVE  OnCourse'
<1>1. /\ Here \in Point /\ Sound(Here) /\ Here.cur \in Frame /\ Upright(Here.cur)
      /\ Here' = After(Q, Here, Cmd) /\ Cmd \in Command
  BY FramePos, HereMoves
<1>2. /\ freespaceidnext = Here.next /\ Len(pushpc) = Len(Here.open)
      /\ Follows(Here.cur, snespos, realsnespos, freespacestart, freespaceextra)
  BY DEF OnCourse
<1>3. ASSUME NEW f, Here' = Moved(Here, f), pushpc' = pushpc, freespaceidnext' = freespaceidnext,
             Follows(f, snespos', realsnespos', freespacestart', freespaceextra')
      PROVE  OnCourse'
  <2>1. Here'.cur = f /\ Here'.open = Here.open /\ Here'.next = Here.next BY <1>3 DEF Moved
  <2>. QED BY <1>2, <1>3, <2>1, StackKept DEF OnCourse
<1>4. CASE Org
  <2>1. Here' = Left(Here, Outside, Here.open, Here.next)
    <3>1. Cmd.op = "org" BY <1>4 DEF Org, Running, Cmd
    <3>. QED BY <1>1, <3>1, AfterIs
  <2>2. Here'.cur = Outside /\ Here'.open = Here.open /\ Here'.next = Here.next BY <2>1 DEF Left
  <2>3. pushpc' = pushpc /\ freespaceidnext' = freespaceidnext BY <1>4 DEF Org
  <2>4. snespos'.fs = 0 /\ realsnespos'.fs = 0 BY <1>4 DEF Org, SetAll, At
  <2>5. Follows(Outside, snespos', realsnespos', freespacestart', freespaceextra')
    BY <2>4 DEF Follows, Outside
  <2>. QED BY <1>2, <2>2, <2>3, <2>5, StackKept DEF OnCourse
<1>5. CASE Base
  <2> DEFINE f == [s |-> 0, r |-> Here.cur.r, off |-> Here.cur.off, extra |-> Here.cur.extra]
  <2>1. Here' = Moved(Here, f)
    <3>1. Cmd.op = "base" BY <1>5 DEF Base, Running, Cmd
    <3>. QED BY <1>1, <3>1, AfterIs
  <2>2. /\ snespos'.fs = 0 /\ realsnespos' = realsnespos /\ pushpc' = pushpc
        /\ freespaceidnext' = freespaceidnext /\ freespacestart' = freespacestart
        /\ freespaceextra' = freespaceextra
    BY <1>5 DEF Base, freespace, At
  <2>3. Follows(f, snespos', realsnespos', freespacestart', freespaceextra')
    BY <1>2, <2>2 DEF Follows
  <2>. QED BY <1>3, <2>1, <2>2, <2>3
<1>6. CASE BaseOff
  <2> DEFINE f == [s |-> Here.cur.r, r |-> Here.cur.r, off |-> Here.cur.off, extra |-> Here.cur.extra]
  <2>1. Here' = Moved(Here, f)
    <3>1. Cmd.op = "baseoff" BY <1>6 DEF BaseOff, Running, Cmd
    <3>. QED BY <1>1, <3>1, AfterIs
  <2>2. /\ snespos' = realsnespos /\ realsnespos' = realsnespos /\ pushpc' = pushpc
        /\ freespaceidnext' = freespaceidnext /\ freespacestart' = freespacestart
        /\ freespaceextra' = freespaceextra
    BY <1>6 DEF BaseOff, freespace
  <2>3. Follows(f, snespos', realsnespos', freespacestart', freespaceextra')
    BY <1>2, <2>2 DEF Follows
  <2>. QED BY <1>3, <2>1, <2>2, <2>3
<1>7. CASE Db
  <2>1. Here' = Moved(Here, Grown(Here.cur, Cmd.n, 0))
    <3>1. Cmd.op = "db" BY <1>7 DEF Db, Running, Cmd
    <3>. QED BY <1>1, <3>1, AfterIs
  <2>2. Cmd.n \in Nat BY <1>7, CmdType DEF Db
  <2>3. /\ Write(Cmd.n) /\ pushpc' = pushpc /\ freespaceidnext' = freespaceidnext
        /\ freespacestart' = freespacestart /\ freespaceextra' = freespaceextra
    BY <1>7 DEF Db, freespace
  <2>4. freespaceextra' = freespaceextra + 0 BY <2>3 DEF TypeOK
  <2>5. Follows(Grown(Here.cur, Cmd.n, 0), snespos', realsnespos', freespacestart', freespaceextra')
    BY <2>2, <2>3, <2>4, WriteFollows
  <2>. QED BY <1>3, <2>1, <2>3, <2>5
<1>8. CASE Instr
  <2> DEFINE k == 1 + RefLen(Q, Here, Cmd.l)
             y == RefSlack(Q, Here, Cmd.l)
             n == 1 + OperandLen(Cmd.l)
             x == OperandSlack(Cmd.l)
  <2>1. Here' = Moved(Here, Grown(Here.cur, k, y))
    <3>1. Cmd.op = "ref" BY <1>8 DEF Instr, Running, Cmd
    <3>. QED BY <1>1, <3>1, AfterIs
  <2>2. k \in Nat /\ y \in Nat BY OperandNat
  <2>3. n \in Nat /\ x \in Nat BY PassesAssumption DEF OperandLen, LenForLabel, OperandSlack
  <2>4. Running("ref") BY <1>8 DEF Instr
  <2>5. Here.cur.r > 0 => k = n /\ y = x BY <2>4, OperandIs
  <2>6. /\ Write(n) /\ pushpc' = pushpc /\ freespaceidnext' = freespaceidnext
        /\ freespacestart' = freespacestart /\ freespaceextra' = freespaceextra + x
    BY <1>8 DEF Instr
  <2>. HIDE DEF k, y, n, x
  <2>7. Follows(Grown(Here.cur, k, y), snespos', realsnespos', freespacestart', freespaceextra')
    BY <2>2, <2>3, <2>5, <2>6, WriteFollows
  <2>. QED BY <1>3, <2>1, <2>6, <2>7
<1>9. CASE Label
  <2> DEFINE f == Checked(Here.cur)
  <2>1. Here'.cur = f /\ Here'.open = Here.open /\ Here'.next = Here.next
    <3>1. Cmd.op = "label" BY <1>9 DEF Label, Running, Cmd
    <3>2. \/ Here' = Moved(Here, f) \/ Here' = Labelled(Here, Cmd.l) \/ Here' = Failed(Moved(Here, f))
      BY <1>1, <3>1, LabelAfter
    <3>. QED BY <3>2 DEF Moved, Labelled, Failed
  <2>2. /\ Verify /\ pushpc' = pushpc /\ freespaceidnext' = freespaceidnext
        /\ freespacestart' = freespacestart /\ freespaceextra' = freespaceextra
    BY <1>9 DEF Label, freespace
  <2>3. snespos' = Verified(snespos) /\ realsnespos' = Verified(realsnespos)
    BY <2>2 DEF Verify, Verified, SetAll, position
  <2>4. f.s = snespos'.fs /\ f.r = realsnespos'.fs BY <2>3, FramePos
  <2>5. (f.r > 0 => Here.cur = f) /\ (f.s > 0 => Here.cur = f) BY <1>1, 0 \in Nat, SoundChecked
  <2>6. f = Here.cur => f.s # -1 /\ f.r # -1
    <3>1. f.s >= 0 /\ f.r >= 0 BY <1>1, 0 \in Nat, SoundChecked
    <3>. QED BY <3>1
  <2>7. f = Here.cur => snespos' = snespos /\ realsnespos' = realsnespos
    <3>1. f = Here.cur => ~NoOrg BY <2>6, FramePos
    <3>. QED BY <2>3, <3>1 DEF Verified
  <2>. HIDE DEF f
  <2>8. Follows(f, snespos', realsnespos', freespacestart', freespaceextra')
    BY <1>2, <2>2, <2>4, <2>5, <2>7 DEF Follows
  <2>. QED BY <1>2, <2>1, <2>2, <2>8, StackKept DEF OnCourse
<1>10. CASE FreespaceMeasure \/ FreespaceAllocate \/ FreespaceResize
  <2>1. TakeId BY <1>10 DEF FreespaceMeasure, FreespaceAllocate, FreespaceResize
  <2>2. /\ freespaceidnext < MaxFreespaces + 1
        /\ Here' = Left(Here, [s |-> Here.next, r |-> Here.next, off |-> 0, extra |-> 0],
                        Here.open, Here.next + 1)
    BY <2>1, FreespaceGoes
  <2>3. \E p \in Pos : EnterFreespace(p) /\ p.fs = freespaceidnext
    <3>1. CASE FreespaceMeasure
      <4>1. At(freespaceidnext, 0) \in Pos BY PosType DEF TypeOK
      <4>. QED BY <3>1, <4>1 DEF FreespaceMeasure, At
    <3>2. CASE FreespaceAllocate
      <4>1. PICK p : p \in Nat /\ EnterFreespace(At(freespaceidnext, p))
        BY <3>2, PassesAssumption DEF FreespaceAllocate, Candidates
      <4>2. At(freespaceidnext, p) \in Pos BY <4>1, PosType DEF TypeOK
      <4>. QED BY <4>1, <4>2 DEF At
    <3>3. CASE FreespaceResize
      <4>1. pass = 2 /\ EnterFreespace(freespacepos[freespaceidnext]) BY <3>3 DEF FreespaceResize
      <4>2. freespaceidnext < End0.next BY <2>1, <4>1, FreespaceGoes
      <4>3. freespaceidnext \in Ids /\ freespaceidnext <= freespaceidnext BY <2>1, TakeIdType DEF Ids
      <4>4. freespacepos[freespaceidnext].fs = freespaceidnext
        BY <4>1, <4>2, <4>3 DEF BlocksHeld, Has
      <4>. QED BY <4>1, <4>3, <4>4 DEF TypeOK
    <3>. QED BY <1>10, <3>1, <3>2, <3>3
  <2>4. PICK p \in Pos : EnterFreespace(p) /\ p.fs = freespaceidnext BY <2>3
  <2>5. /\ snespos' = p /\ realsnespos' = p /\ freespacestart' = p
        /\ freespaceextra' = 0 /\ freespaceidnext' = freespaceidnext + 1
    BY <2>1, <2>4 DEF EnterFreespace, SetAll, TakeId
  <2>6. pushpc' = pushpc BY <1>10 DEF FreespaceMeasure, FreespaceAllocate, FreespaceResize
  <2> DEFINE f == [s |-> Here.next, r |-> Here.next, off |-> 0, extra |-> 0]
  <2>7. Here'.cur = f /\ Here'.open = Here.open /\ Here'.next = Here.next + 1 BY <2>2 DEF Left
  <2>8. p.addr \in Int /\ Here.next \in Nat BY <1>1, PointParts DEF Pos
  <2>9. Follows(f, p, p, p, 0) BY <1>2, <2>4, <2>8 DEF Follows
  <2>. HIDE DEF f
  <2>. QED BY <1>2, <2>5, <2>6, <2>7, <2>9, StackKept DEF OnCourse
<1>11. CASE PushPc
  <2>1. snespos' = Unset /\ realsnespos' = Unset BY <1>11 DEF PushPc, SetAll
  <2>2. \A k \in DOMAIN pushpc' : FollowsSaved(Here'.open[k], pushpc'[k])
    <3>1. FollowsSaved(Here.cur, pushpc'[Len(pushpc) + 1]) BY <1>2, <1>11, PushGoes DEF FollowsSaved
    <3>. QED BY <1>11, <3>1, PushGoes DEF OnCourse
  <2>3. Follows(Lost, snespos', realsnespos', freespacestart', freespaceextra')
    BY <2>1 DEF Follows, Lost, Unset, At
  <2>. QED BY <1>2, <1>11, <2>2, <2>3, PushGoes DEF OnCourse
<1>12. CASE PullPc
  <2>1. Follows(Here'.cur, snespos', realsnespos', freespacestart', freespaceextra')
    <3>1. FollowsSaved(Here.open[Len(pushpc)], pushpc[Len(pushpc)]) BY <1>12, PullGoes DEF OnCourse
    <3>. QED BY <1>12, <3>1, PullGoes DEF FollowsSaved
  <2>2. \A k \in DOMAIN pushpc' : FollowsSaved(Here'.open[k], pushpc'[k])
    BY <1>12, PullGoes DEF OnCourse
  <2>. QED BY <1>2, <1>12, <2>1, <2>2, PullGoes DEF OnCourse
<1>. QED BY <1>4, <1>5, <1>6, <1>7, <1>8, <1>9, <1>10, <1>11, <1>12 DEF Through

\* The commands that end a freespace.
Leaving(m, c) ==
  \/ c.op = "org"
  \/ c.op = "freespace" /\ ~(m.next > MaxFreespaces)
  \/ c.op = "pullpc" /\ m.open # << >>

LEMMA Leaves ==
  ASSUME NEW q, NEW m \in Point, NEW c \in Command
  PROVE  /\ Leaving(m, c) => After(q, m, c).done = DoneAfter(m) /\ After(q, m, c).len = LenAfter(m)
         /\ ~Leaving(m, c) => After(q, m, c).done = m.done /\ After(q, m, c).len = m.len
<1>1. CASE c.op = "org"
  <2>1. After(q, m, c) = Left(m, Outside, m.open, m.next) BY <1>1, AfterIs
  <2>. QED BY <1>1, <2>1 DEF Left, Leaving
<1>2. CASE c.op = "freespace"
  <2>1. After(q, m, c) = IF m.next > MaxFreespaces THEN Failed(m)
          ELSE Left(m, [s |-> m.next, r |-> m.next, off |-> 0, extra |-> 0], m.open, m.next + 1)
    BY <1>2, AfterIs
  <2>. QED BY <1>2, <2>1 DEF Left, Failed, Leaving
<1>3. CASE c.op = "pullpc"
  <2>1. After(q, m, c) = IF m.open = << >> THEN Failed(m) ELSE Left(m, Last(m.open), Front(m.open), m.next)
    BY <1>3, AfterIs
  <2>. QED BY <1>3, <2>1 DEF Left, Failed, Leaving
<1>4. CASE c.op = "label"
  <2>1. \/ After(q, m, c) = Moved(m, Checked(m.cur)) \/ After(q, m, c) = Labelled(m, c.l)
        \/ After(q, m, c) = Failed(Moved(m, Checked(m.cur)))
    BY <1>4, LabelAfter
  <2>. QED BY <1>4, <2>1 DEF Moved, Labelled, Failed, Leaving
<1>5. CASE c.op \in {"base", "baseoff", "db", "ref", "pushpc"}
  <2>1. ~Leaving(m, c) BY <1>5 DEF Leaving
  <2>2. \A f : Moved(m, f).done = m.done /\ Moved(m, f).len = m.len BY DEF Moved
  <2>3. c.op = "pushpc" => After(q, m, c) = Pushed(m) BY AfterIs
  <2>4. c.op \in {"base", "baseoff", "db", "ref"} => \E f : After(q, m, c) = Moved(m, f)
    <3>1. c.op = "base" => \E f : After(q, m, c) = Moved(m, f) BY AfterIs
    <3>2. c.op = "baseoff" => \E f : After(q, m, c) = Moved(m, f) BY AfterIs
    <3>3. c.op = "db" => \E f : After(q, m, c) = Moved(m, f) BY AfterIs
    <3>4. c.op = "ref" => \E f : After(q, m, c) = Moved(m, f) BY AfterIs
    <3>. QED BY <3>1, <3>2, <3>3, <3>4
  <2>5. Pushed(m).done = m.done /\ Pushed(m).len = m.len BY DEF Pushed
  <2>. QED BY <1>5, <2>1, <2>2, <2>3, <2>4, <2>5
<1>. QED BY <1>1, <1>2, <1>3, <1>4, <1>5, Commands

LEMMA LeavesAlike ==
  ASSUME NEW m \in Point, NEW n \in Point, NEW c, Alike(m, n)
  PROVE  Leaving(m, c) <=> Leaving(n, c)
<1>1. m.next = n.next /\ Len(m.open) = Len(n.open) BY DEF Alike
<1>2. m.open \in Seq(Frame) /\ n.open \in Seq(Frame) BY PointParts
<1>3. m.open = << >> <=> n.open = << >> BY <1>1, <1>2
<1>. QED BY <1>1, <1>3 DEF Leaving

\* A freespace that ends here is as long as it is at the end of the pass.
LEMMA LastLen ==
  ASSUME TypeOK, NEW i \in 1 .. Len(prog) + 1, i = Len(prog) + 1 \/ Leaving(Second(prog)[i], prog[i]),
         Second(prog)[i].cur.r > 0
  PROVE  /\ Len1[Second(prog)[i].cur.r] = Total(Second(prog)[i].cur)
         /\ Len0[Second(prog)[i].cur.r] = Total(First(prog)[i].cur)
         /\ First(prog)[i].cur.r = Second(prog)[i].cur.r
<1> DEFINE m == First(prog)[i]
           n == Second(prog)[i]
<1>1. /\ m \in Point /\ Sound(m) /\ n \in Point /\ Sound(n) /\ Alike(m, n)
      /\ End0 \in Point /\ Sound(End0) /\ End1 \in Point /\ Sound(End1)
  BY Courses
<1>2. m.cur.r = n.cur.r /\ n.cur.r > 0 BY <1>1 DEF Alike
<1>3. CASE i = Len(prog) + 1
  <2>1. m = End0 /\ n = End1 BY <1>3 DEF End0, End1
  <2>. HIDE DEF m, n
  <2>2. Len0[m.cur.r] = Total(m.cur) /\ Len1[n.cur.r] = Total(n.cur)
    BY <1>1, <1>2, <2>1, LaterLen DEF Len0, Len1
  <2>. QED BY <1>2, <2>2 DEF m, n
<1>4. CASE i # Len(prog) + 1
  <2>1. i \in 1 .. Len(prog) /\ i + 1 \in 1 .. Len(prog) + 1 BY <1>4, Courses
  <2> DEFINE c == prog[i]
             a == First(prog)[i + 1]
             b == Second(prog)[i + 1]
  <2>2. Leaving(n, c) /\ Leaving(m, c) BY <1>1, <1>4, LeavesAlike
  <2>3. a = After(0, m, c) /\ b = After(1, n, c) /\ c \in Command BY <2>1, Courses
  <2>4. a \in Point /\ b \in Point /\ Later(a, End0) /\ Later(b, End1) BY <2>1, Courses
  <2>. HIDE DEF m, n, a, b, c
  <2>5. a.done = DoneAfter(m) /\ a.len = LenAfter(m) /\ b.done = DoneAfter(n) /\ b.len = LenAfter(n)
    BY <1>1, <2>2, <2>3, Leaves
  <2>6. /\ m.cur.r \in a.done /\ a.len[m.cur.r] = Total(m.cur)
        /\ n.cur.r \in b.done /\ b.len[n.cur.r] = Total(n.cur)
    BY <1>1, <1>2, <2>5, LaterLen
  <2>7. /\ m.cur.r \in End0.done /\ End0.len[m.cur.r] = Total(m.cur)
        /\ n.cur.r \in End1.done /\ End1.len[n.cur.r] = Total(n.cur)
    BY <2>4, <2>6 DEF Later
  <2>8. Len0[m.cur.r] = Total(m.cur) /\ Len1[n.cur.r] = Total(n.cur)
    BY <1>1, <2>7, LaterLen DEF Len0, Len1
  <2>. QED BY <1>2, <2>8 DEF m, n
<1>. QED BY <1>3, <1>4

\* What the commands do to freespacelen.
LEMMA LenMoves ==
  ASSUME TypeOK, OnCourse, Onward, Through
  PROVE  /\ Leaving(Here, Cmd) => Ends /\ freespacelen' = Ended
         /\ ~Leaving(Here, Cmd) => freespacelen' = freespacelen
<1>1. ip \in 1 .. Len(prog) /\ pass < 3 BY HereMoves DEF Onward
<1>2. Here \in Point /\ freespaceidnext = Here.next /\ Len(pushpc) = Len(Here.open)
  BY FramePos DEF OnCourse
<1>3. CASE Org
  <2>1. Cmd.op = "org" /\ freespacelen' = Ended BY <1>3 DEF Org, Running, Cmd
  <2>. QED BY <1>1, <2>1 DEF Ends, Leaving
<1>4. CASE FreespaceMeasure \/ FreespaceAllocate \/ FreespaceResize
  <2>1. TakeId BY <1>4 DEF FreespaceMeasure, FreespaceAllocate, FreespaceResize
  <2>2. Cmd.op = "freespace" /\ freespacelen' = Ended /\ freespaceidnext <= MaxFreespaces
    BY <2>1 DEF TakeId, Running, Cmd
  <2>3. ~(Here.next > MaxFreespaces) BY <1>2, <2>2, PassesAssumption, PointParts
  <2>. QED BY <1>1, <2>2, <2>3 DEF Ends, Leaving
<1>5. CASE PullPc
  <2>1. Cmd.op = "pullpc" /\ freespacelen' = Ended /\ pushpc # << >> /\ pushpc \in Seq(Saved)
    BY <1>5 DEF PullPc, Running, Cmd, TypeOK
  <2>2. Here.open # << >> /\ Here.open \in Seq(Frame)
    <3>1. Here.open \in Seq(Frame) BY <1>2, PointParts
    <3>2. Len(pushpc) # 0 BY <2>1
    <3>. QED BY <1>2, <3>1, <3>2
  <2>. QED BY <1>1, <2>1, <2>2 DEF Ends, Leaving
<1>6. CASE Base \/ BaseOff \/ Db \/ Instr \/ Label \/ PushPc
  <2>1. Cmd.op \in {"base", "baseoff", "db", "ref", "label", "pushpc"} /\ freespacelen' = freespacelen
    BY <1>6 DEF Base, BaseOff, Db, Instr, Label, PushPc, freespace, Running, Cmd
  <2>. QED BY <2>1 DEF Leaving
<1>. QED BY <1>3, <1>4, <1>5, <1>6 DEF Through

LEMMA MeasuredKept ==
  ASSUME TypeOK, OwnInv, OnCourse, Measured, BaseIsClosed, Onward, Through
  PROVE  Measured'
<1>1. /\ Here \in Point /\ Sound(Here) /\ Here' = After(Q, Here, Cmd) /\ Cmd \in Command
      /\ End0' = End0 /\ Len0' = Len0 /\ Len1' = Len1 /\ pass' = pass /\ Cmd = prog[ip] /\ ip \in 1 .. Len(prog)
  BY FramePos, HereMoves DEF Onward
<1>2. CASE ~Leaving(Here, Cmd)
  <2>1. freespacelen' = freespacelen /\ Here'.done = Here.done /\ Here'.len = Here.len
    BY <1>1, <1>2, LenMoves, Leaves
  <2>. QED BY <1>1, <2>1 DEF Measured
<1>3. CASE Leaving(Here, Cmd)
  <2>1. Ends /\ freespacelen' = Ended /\ Here'.done = DoneAfter(Here) /\ Here'.len = LenAfter(Here)
    BY <1>1, <1>3, LenMoves, Leaves
  <2>2. CASE ~(Here.cur.r > 0)
    <3>1. freespacelen' = freespacelen /\ Here'.done = Here.done /\ Here'.len = Here.len
      BY <2>1, <2>2, EndedIs DEF DoneAfter, LenAfter
    <3>. QED BY <1>1, <3>1 DEF Measured
  <2>3. CASE Here.cur.r > 0
    <3> DEFINE r == Here.cur.r
    <3>1. /\ freespacelen' = [freespacelen EXCEPT ![r] = Total(Here.cur)] /\ r \in Ids
          /\ Here'.done = Here.done \cup {r}
          /\ Here'.len = [Here.len EXCEPT ![r] = Total(Here.cur)]
          /\ freespacelen \in [Ids -> Int] /\ Here.len \in [Ids -> Nat] /\ Here.done \subseteq Ids
      BY <1>1, <2>1, <2>3, EndedIs, PointParts DEF DoneAfter, LenAfter, TypeOK
    <3>2. pass = 2 => Len1[r] = Total(Here.cur)
      <4>1. ASSUME pass = 2 PROVE Here = Second(prog)[ip] BY <4>1 DEF Here
      <4>2. ip \in 1 .. Len(prog) + 1 BY <1>1, Courses
      <4>. QED BY <1>1, <1>3, <2>3, <4>1, <4>2, LastLen
    <3>. HIDE DEF r
    <3>3. \A i \in Ids : freespacelen'[i] = IF i = r THEN Total(Here.cur) ELSE freespacelen[i] BY <3>1
    <3>4. \A i \in Ids : Here'.len[i] = IF i = r THEN Total(Here.cur) ELSE Here.len[i] BY <3>1
    <3>5. pass < 2 => \A i \in Here'.done : freespacelen'[i] = Here'.len[i]
      BY <3>1, <3>3, <3>4 DEF Measured
    <3>6. pass = 1 => \A i \in Ids \ Here'.done : i < End0.next => freespacelen'[i] = Len0[i]
      BY <3>1, <3>3 DEF Measured
    <3>7. pass = 2 => \A i \in Ids : i < End0.next => freespacelen'[i] = Len1[i]
      BY <3>2, <3>3 DEF Measured
    <3>. QED BY <1>1, <3>5, <3>6, <3>7 DEF Measured
  <2>. QED BY <2>2, <2>3
<1>. QED BY <1>2, <1>3

\* A freespace that ends is no longer than it was said to be; in pass 2 it is as long.
LEMMA EndedSettles ==
  ASSUME TypeOK, OwnInv, OnCourse, Measured, Enough, BaseIsClosed, Ends, pass > 0, NEW i \in Ids,
         ip = Len(prog) + 1 \/ Leaving(Here, Cmd)
  PROVE  Ended[i] <= freespacelen[i] /\ (pass = 2 => Ended[i] = freespacelen[i])
<1>1. /\ Here \in Point /\ Sound(Here) /\ ip \in 1 .. Len(prog) + 1 /\ freespacelen \in [Ids -> Int]
      /\ pass \in {1, 2} /\ Here = Second(prog)[ip]
  BY FramePos, Courses DEF TypeOK, Ends, Here
<1>2. freespacelen[i] \in Int BY <1>1
<1>3. CASE ~(Here.cur.r > 0) \/ i # Here.cur.r
  <2>1. Ended[i] = freespacelen[i] BY <1>1, <1>3, EndedIs
  <2>. QED BY <1>2, <2>1
<1>4. CASE Here.cur.r > 0 /\ i = Here.cur.r
  <2>1. Ended[i] = Total(Here.cur) BY <1>1, <1>4, EndedIs
  <2>2. /\ Len1[i] = Total(Here.cur) /\ Len0[i] = Total(First(prog)[ip].cur)
    BY <1>1, <1>4, LastLen DEF Cmd
  <2>3. i < End0.next /\ i \notin Here.done
    <3>1. i < Here.next /\ i \notin Here.done BY <1>1, <1>4 DEF Sound
    <3>2. Here.next <= End1.next /\ End1.next = End0.next /\ End0 \in Point
      BY <1>1, Courses DEF Later, Alike
    <3>3. i \in Int /\ Here.next \in Int /\ End0.next \in Int BY <1>1, <1>4, <3>2, PointParts
    <3>. QED BY <3>1, <3>2, <3>3
  <2>4. CASE pass = 1
    <3>1. freespacelen[i] = Len0[i] BY <2>3, <2>4 DEF Measured
    <3>2. Total(Here.cur) <= Total(First(prog)[ip].cur) BY <1>1, <2>4 DEF Enough, Covers
    <3>. QED BY <2>1, <2>2, <2>4, <3>1, <3>2
  <2>5. CASE pass = 2
    <3>1. freespacelen[i] = Len1[i] BY <2>3, <2>5 DEF Measured
    <3>. QED BY <1>2, <2>1, <2>2, <3>1
  <2>. QED BY <1>1, <2>4, <2>5
<1>. QED BY <1>3, <1>4

\* A freespace's position is set when it is allocated, and never again.
LEMMA PosStays ==
  ASSUME TypeOK, Onward, Through
  PROVE  /\ ~FreespaceAllocate => freespacepos' = freespacepos
         /\ \A i \in Ids : i # freespaceidnext => freespacepos'[i] = freespacepos[i]
<1>1. freespacepos \in [Ids -> Pos] BY DEF TypeOK
<1>2. ~FreespaceAllocate => freespacepos' = freespacepos
  BY DEF Through, Org, Base, BaseOff, Db, Instr, Label, FreespaceMeasure, FreespaceResize, PushPc, PullPc,
         freespace
<1>3. FreespaceAllocate => \E p : freespacepos' = [freespacepos EXCEPT ![freespaceidnext] = p]
  BY DEF FreespaceAllocate
<1>. QED BY <1>1, <1>2, <1>3

\* A freespace is entered at its position.
LEMMA Enters ==
  ASSUME TypeOK, OnCourse, Onward, FreespaceAllocate \/ FreespaceResize
  PROVE  freespacestart' = freespacepos'[freespaceidnext]
<1>1. CASE FreespaceAllocate
  <2>1. freespaceidnext \in Ids /\ freespacepos \in [Ids -> Pos] BY DEF TypeOK
  <2>2. PICK p : /\ freespacepos' = [freespacepos EXCEPT ![freespaceidnext] = At(freespaceidnext, p)]
                 /\ EnterFreespace(At(freespaceidnext, p))
    BY <1>1 DEF FreespaceAllocate
  <2>. QED BY <2>1, <2>2 DEF EnterFreespace
<1>2. CASE FreespaceResize
  BY <1>2 DEF FreespaceResize, EnterFreespace
<1>. QED BY <1>1, <1>2

\* freespacestart is the position of the freespace in pass 1 and 2.
LEMMA AtHomeKept ==
  ASSUME TypeOK, OnCourse, OnCourse', AtHome, Onward, Through
  PROVE  AtHome'
<1>1. /\ Here \in Point /\ Sound(Here) /\ Here' \in Point /\ Sound(Here')
      /\ Here' = After(Q, Here, Cmd) /\ Cmd \in Command /\ pass' = pass
      /\ freespaceidnext = Here.next /\ Len(pushpc) = Len(Here.open) /\ pushpc \in Seq(Saved)
  BY FramePos, HereMoves DEF OnCourse, Onward, TypeOK
<1>2. SUFFICES ASSUME pass > 0
               PROVE  /\ Here'.cur.r > 0 => freespacestart' = freespacepos'[Here'.cur.r]
                      /\ \A k \in DOMAIN pushpc' :
                           Here'.open[k].r > 0 => pushpc'[k].freest = freespacepos'[Here'.open[k].r]
  BY <1>1 DEF AtHome
<1>3. DOMAIN Here.open = DOMAIN pushpc BY <1>1, PointParts
<1>4. /\ Here.cur.r > 0 => Here.cur.r \in Ids /\ Here.cur.r < freespaceidnext
      /\ \A k \in DOMAIN pushpc : Here.open[k].r > 0 => Here.open[k].r \in Ids /\ Here.open[k].r < freespaceidnext
  <2>1. \A f \in Frame : f.r > 0 => f.r \in Ids BY DEF Frame
  <2>2. Here.cur \in Frame /\ \A k \in DOMAIN pushpc : Here.open[k] \in Frame BY <1>1, <1>3, PointParts
  <2>. QED BY <1>1, <1>3, <2>1, <2>2 DEF Sound
<1>5. /\ Here.cur.r > 0 => freespacepos'[Here.cur.r] = freespacestart
      /\ \A k \in DOMAIN pushpc : Here.open[k].r > 0 => freespacepos'[Here.open[k].r] = pushpc[k].freest
  <2>1. \A i \in Ids : i < freespaceidnext => freespacepos'[i] = freespacepos[i]
    <3>1. freespaceidnext \in Int BY <1>1, PointParts
    <3>. QED BY <3>1, PosStays
  <2>. QED BY <1>2, <1>4, <2>1 DEF AtHome
<1>6. CASE Org
  <2>1. Cmd.op = "org" /\ pushpc' = pushpc BY <1>6 DEF Org, Running, Cmd
  <2>2. Here' = Left(Here, Outside, Here.open, Here.next) BY <1>1, <2>1, AfterIs
  <2>3. Here'.open = Here.open /\ ~(Here'.cur.r > 0) BY <2>2 DEF Left, Outside
  <2>. QED BY <1>5, <2>1, <2>3
<1>7. CASE Base \/ BaseOff \/ Db \/ Instr \/ Label
  BY <1>5, <1>7, QuietGoes
<1>8. CASE FreespaceMeasure
  BY <1>2, <1>8 DEF FreespaceMeasure
<1>9. CASE FreespaceAllocate \/ FreespaceResize
  <2>1. TakeId /\ pushpc' = pushpc BY <1>9 DEF FreespaceAllocate, FreespaceResize
  <2>2. Here'.cur.r = freespaceidnext /\ Here'.open = Here.open BY <1>1, <2>1, FreespaceGoes DEF Left
  <2>. QED BY <1>5, <1>9, <2>1, <2>2, Enters
<1>10. CASE PushPc
  <2>1. ~(Here'.cur.r > 0) BY <1>10, PushGoes DEF Lost
  <2>2. pushpc'[Len(pushpc) + 1].freest = freespacestart /\ Here'.open[Len(pushpc) + 1] = Here.cur
    BY <1>10, PushGoes
  <2>. QED BY <1>5, <1>10, <2>1, <2>2, PushGoes
<1>11. CASE PullPc
  BY <1>5, <1>11, PullGoes
<1>. QED BY <1>6, <1>7, <1>8, <1>9, <1>10, <1>11 DEF Through

\* The label table goes on as the pass says.
LEMMA LabelsKept ==
  ASSUME TypeOK, OnCourse, LabelsKnown, Onward, Through
  PROVE  LabelsKnown'
<1>1. /\ Here \in Point /\ Here' \in Point /\ Here.cur \in Frame /\ Upright(Here.cur)
      /\ Here' = After(Q, Here, Cmd) /\ Cmd \in Command /\ pass' = pass
      /\ End0' = End0 /\ Cmd = prog[ip] /\ ip \in 1 .. Len(prog) /\ ~errored'
      /\ Checked(Here.cur).s = Verified(snespos).fs
  BY FramePos, HereMoves DEF Onward
<1>2. ASSUME labels' = labels, Here'.where = Here.where, pass = 0 => Here'.bad = Here.bad
      PROVE  LabelsKnown'
  BY <1>1, <1>2 DEF LabelsKnown
<1>3. CASE ~Label
  <2>1. labels' = labels
    BY <1>3 DEF Through, Org, Base, BaseOff, Db, Instr, FreespaceMeasure, FreespaceAllocate,
                FreespaceResize, PushPc, PullPc
  <2>2. Here'.where = Here.where /\ Here'.bad = Here.bad
    <3>1. CASE Org
      <4>1. Cmd.op = "org" BY <3>1 DEF Org, Running, Cmd
      <4>2. Here' = Left(Here, Outside, Here.open, Here.next) BY <1>1, <4>1, AfterIs
      <4>. QED BY <4>2 DEF Left
    <3>2. CASE FreespaceMeasure \/ FreespaceAllocate \/ FreespaceResize
      <4>1. TakeId BY <3>2 DEF FreespaceMeasure, FreespaceAllocate, FreespaceResize
      <4>. QED BY <4>1, FreespaceGoes DEF Left
    <3>3. CASE PullPc
      <4>1. Cmd.op = "pullpc" /\ pushpc # << >> /\ pushpc \in Seq(Saved) /\ Len(pushpc) = Len(Here.open)
        BY <3>3 DEF PullPc, Running, Cmd, TypeOK, OnCourse
      <4>2. Len(pushpc) # 0 BY <4>1
      <4>3. Here.open # << >> BY <4>1, <4>2
      <4>4. Here' = Left(Here, Last(Here.open), Front(Here.open), Here.next) BY <1>1, <4>1, <4>3, AfterIs
      <4>. QED BY <4>4 DEF Left
    <3>4. CASE PushPc
      <4>1. Cmd.op = "pushpc" BY <3>4 DEF PushPc, Running, Cmd
      <4>2. Here' = Pushed(Here) BY <1>1, <4>1, AfterIs
      <4>. QED BY <4>2 DEF Pushed
    <3>5. CASE Base \/ BaseOff \/ Db \/ Instr
      <4>1. Cmd.op \in {"base", "baseoff", "db", "ref"} BY <3>5 DEF Base, BaseOff, Db, Instr, Running, Cmd
      <4>2. \E f : Here' = Moved(Here, f)
        <5>1. Cmd.op = "base" => \E f : Here' = Moved(Here, f) BY <1>1, AfterIs
        <5>2. Cmd.op = "baseoff" => \E f : Here' = Moved(Here, f) BY <1>1, AfterIs
        <5>3. Cmd.op = "db" => \E f : Here' = Moved(Here, f) BY <1>1, AfterIs
        <5>4. ASSUME Cmd.op = "ref" PROVE \E f : Here' = Moved(Here, f)
          <6>1. Here' = After(Q, Here, Cmd) BY <1>1
          <6>2. After(Q, Here, Cmd) =
                  Moved(Here, Grown(Here.cur, 1 + RefLen(Q, Here, Cmd.l), RefSlack(Q, Here, Cmd.l)))
            BY <5>4, AfterIs
          <6>. QED BY <6>1, <6>2
        <5>. QED BY <4>1, <5>1, <5>2, <5>3, <5>4
      <4>. QED BY <4>2 DEF Moved
    <3>. QED BY <1>3, <3>1, <3>2, <3>3, <3>4, <3>5 DEF Through
  <2>. QED BY <1>2, <2>1, <2>2
<1>4. CASE Label
  <2>1. Cmd.op = "label" /\ Cmd.l \in LabelNames BY <1>1, <1>4, Commands DEF Label, Running, Cmd
  <2>2. (Cmd.l \in DOMAIN labels) <=> Here.where[Cmd.l] # -1 BY <2>1 DEF LabelsKnown
  <2>3. ~BlockError BY <1>1 DEF BlockError
  <2> DEFINE s == Verified(snespos)
  <2>4. CASE pass = 0
    <3>1. /\ Cmd.l \notin DOMAIN labels
          /\ labels' = [n \in DOMAIN labels \cup {Cmd.l} |-> IF n = Cmd.l THEN s ELSE labels[n]]
      BY <1>4, <2>3, <2>4 DEF Label
    <3>2. Here' = Labelled(Here, Cmd.l)
      <4>1. ~(Q > 0) BY <2>4 DEF Q
      <4>2. Here.where[Cmd.l] = -1 BY <2>2, <3>1
      <4>. QED BY <1>1, <2>1, <4>1, <4>2, LabelAfter
    <3>3. Here'.where = [Here.where EXCEPT ![Cmd.l] = Checked(Here.cur).s] /\ Here'.bad = Here.bad
      BY <3>2 DEF Labelled
    <3>4. Here.where \in [LabelNames -> Ids \cup {-1, 0}] BY <1>1, PointParts
    <3>5. Checked(Here.cur).s # -1
      <4>1. Checked(Here.cur).s >= 0 BY <1>1, 0 \in Nat, SoundChecked
      <4>. QED BY <4>1
    <3>. HIDE DEF s
    <3>6. \A l \in LabelNames : Here'.where[l] = IF l = Cmd.l THEN Checked(Here.cur).s ELSE Here.where[l]
      BY <3>3, <3>4
    <3>7. DOMAIN labels \subseteq LabelNames BY DEF TypeOK
    <3>8. \A l \in LabelNames : l \in DOMAIN labels' <=> Here'.where[l] # -1
      BY <2>1, <3>1, <3>5, <3>6 DEF LabelsKnown
    <3>9. \A l \in DOMAIN labels' : labels'[l].fs = Here'.where[l]
      BY <1>1, <2>1, <3>1, <3>6, <3>7 DEF LabelsKnown, s
    <3>. QED BY <1>1, <2>4, <3>3, <3>8, <3>9 DEF LabelsKnown
  <2>5. CASE pass # 0
    <3>1. Here'.where = Here.where
      <4>1. Q > 0 BY <2>5 DEF Q
      <4>2. Here' = Moved(Here, Checked(Here.cur)) BY <1>1, <2>1, <4>1, LabelAfter
      <4>. QED BY <4>2 DEF Moved
    <3>2. CASE pass = 2
      <4>1. labels' = labels BY <1>4, <3>2 DEF Label
      <4>. QED BY <1>2, <2>5, <3>1, <4>1
    <3>3. CASE pass = 1
      <4>1. labels' = [n \in DOMAIN labels \cup {Cmd.l} |-> IF n = Cmd.l THEN s ELSE labels[n]]
        BY <1>4, <3>3 DEF Label
      <4>2. Here.where[Cmd.l] = s.fs /\ s.fs # -1
        <5>1. Here = Second(prog)[ip] /\ Here.where = End0.where BY <1>1, <3>3, Courses DEF Here
        <5>2. ~First(prog)[Len(prog) + 1].bad BY <3>3 DEF LabelsKnown, End0
        <5>3. /\ End0.where[Cmd.l] = Checked(First(prog)[ip].cur).s /\ Checked(First(prog)[ip].cur).s >= 0
          BY <1>1, <2>1, <5>2, Courses, Definitions DEF End0
        <5>4. Checked(First(prog)[ip].cur).s = Checked(Here.cur).s
          <6>1. Alike(First(prog)[ip], Here) BY <5>1, Courses
          <6>. QED BY <6>1, AlikeFrames DEF Alike
        <5>. QED BY <1>1, <5>1, <5>3, <5>4
      <4>3. Cmd.l \in DOMAIN labels BY <2>2, <4>2
      <4>. HIDE DEF s
      <4>4. DOMAIN labels' = DOMAIN labels BY <4>1, <4>3
      <4>5. \A l \in DOMAIN labels' : labels'[l].fs = Here'.where[l]
        BY <3>1, <4>1, <4>2, <4>4 DEF LabelsKnown
      <4>6. \A l \in LabelNames : l \in DOMAIN labels' <=> Here'.where[l] # -1
        BY <3>1, <4>4 DEF LabelsKnown
      <4>. QED BY <1>1, <3>3, <4>5, <4>6 DEF LabelsKnown
    <3>4. pass \in {1, 2} BY <2>5 DEF Onward, TypeOK
    <3>. QED BY <3>2, <3>3, <3>4
  <2>. QED BY <2>4, <2>5
<1>. QED BY <1>3, <1>4

\* Only pass 0 and pass 1 set labels.
LEMMA OtherLabels ==
  ASSUME Through, ~(Label /\ pass < 2), pass \in {0, 1, 2}
  PROVE  labels' = labels
BY DEF Through, Org, Base, BaseOff, Db, Instr, Label, FreespaceMeasure, FreespaceAllocate,
       FreespaceResize, PushPc, PullPc

\* Pass 1 puts the labels of freespaces where its course says.
LEMMA PlacedKept ==
  ASSUME TypeOK, OnCourse, AtHome, LabelsKnown, LabelsPlaced, Onward, Through
  PROVE  LabelsPlaced'
<1>1. /\ Here \in Point /\ Here.cur \in Frame /\ Upright(Here.cur) /\ Sound(Here)
      /\ Cmd \in Command /\ pass' = pass /\ prog' = prog /\ ip' = ip + 1
      /\ Cmd = prog[ip] /\ ip \in 1 .. Len(prog) /\ ~errored' /\ pass \in {0, 1, 2}
      /\ freespaceidnext = Here.next
  BY FramePos, HereMoves DEF Onward, TypeOK, OnCourse
<1>2. SUFFICES ASSUME pass > 0, NEW i \in 1 .. Len(prog), prog[i].op = "label",
                      Second(prog)[i].cur.s > 0, pass = 1 => i < ip + 1
               PROVE  /\ prog[i].l \in DOMAIN labels'
                      /\ labels'[prog[i].l] =
                           At(Second(prog)[i].cur.s,
                              freespacepos'[Second(prog)[i].cur.s].addr + Second(prog)[i].cur.off)
  BY <1>1 DEF LabelsPlaced
<1> DEFINE f == Second(prog)[i].cur
           l == prog[i].l
<1>3. /\ Second(prog)[i] \in Point /\ Sound(Second(prog)[i]) /\ i \in 1 .. Len(prog) + 1
      /\ l \in LabelNames
  BY <1>2, Courses, Commands
<1>4. f.s = f.r /\ f.s \in Ids /\ f.off \in Nat
  BY <1>2, <1>3, PointParts DEF Sound, Upright, Frame
<1>5. pass = 1 \/ pass = 2 BY <1>1, <1>2
<1>6. CASE pass = 2
  <2>1. labels' = labels BY <1>1, <1>6, OtherLabels
  <2>2. freespacepos' = freespacepos BY <1>6, PosStays DEF FreespaceAllocate
  <2>. QED BY <1>2, <1>6, <2>1, <2>2 DEF LabelsPlaced
<1>7. CASE pass = 1 /\ i < ip
  <2>1. l \in DOMAIN labels /\ labels[l] = At(f.s, freespacepos[f.s].addr + f.off)
    BY <1>2, <1>7 DEF LabelsPlaced
  <2>2. freespacepos'[f.s] = freespacepos[f.s]
    <3>1. f.s < Second(prog)[i].next BY <1>2, <1>3, <1>4 DEF Sound
    <3>2. i <= ip /\ ip \in 1 .. Len(prog) + 1 BY <1>1, <1>7, Courses
    <3>3. Second(prog)[i].next <= Second(prog)[ip].next BY <1>3, <3>2, Courses DEF Later
    <3>4. Second(prog)[ip] = Here BY <1>7 DEF Here
    <3>5. f.s \in Int /\ Here.next \in Int /\ Second(prog)[i].next \in Int
      BY <1>1, <1>3, PointParts
    <3>6. f.s # freespaceidnext BY <1>1, <3>1, <3>3, <3>4, <3>5
    <3>. QED BY <1>4, <3>6, PosStays
  <2>3. l \in DOMAIN labels' /\ labels'[l] = labels[l]
    <3>1. CASE ~Label BY <1>1, <2>1, <3>1, OtherLabels
    <3>2. CASE Label
      <4>1. Cmd.op = "label" BY <3>2 DEF Label, Running, Cmd
      <4>2. ~First(prog)[Len(prog) + 1].bad BY <1>7 DEF LabelsKnown, End0
      <4>3. Cmd.l # l
        <5>1. i # ip BY <1>1, <1>7
        <5>2. prog \in Seq(Command) BY DEF TypeOK
        <5>. QED BY <1>1, <1>2, <4>1, <4>2, <5>1, <5>2, Definitions
      <4>4. labels' = [n \in DOMAIN labels \cup {Cmd.l} |->
                         IF n = Cmd.l THEN Verified(snespos) ELSE labels[n]]
        BY <1>7, <3>2 DEF Label
      <4>. QED BY <2>1, <4>3, <4>4
    <3>. QED BY <3>1, <3>2
  <2>. QED BY <2>1, <2>2, <2>3
<1>8. CASE pass = 1 /\ i = ip
  <2>1. f = Here.cur /\ Cmd.op = "label" /\ Cmd.l = l BY <1>1, <1>2, <1>8 DEF Here
  <2>2. Label
    BY <2>1 DEF Through, Org, Base, BaseOff, Db, Instr, FreespaceMeasure, FreespaceAllocate,
                FreespaceResize, TakeId, PushPc, PullPc, Running, Cmd
  <2>3. labels' = [n \in DOMAIN labels \cup {l} |-> IF n = l THEN Verified(snespos) ELSE labels[n]]
    BY <1>8, <2>1, <2>2 DEF Label
  <2>4. Verified(snespos) = snespos
    <3>1. ~(f.s = -1 \/ f.r = -1) BY <1>2, <1>4
    <3>. QED BY <2>1, <3>1, FramePos DEF Verified
  <2>5. snespos.fs = f.s /\ snespos.addr = freespacestart.addr + f.off /\ snespos \in Pos
    BY <1>2, <1>4, <2>1 DEF OnCourse, Follows, TypeOK
  <2>6. freespacestart = freespacepos[f.s] BY <1>2, <1>4, <2>1 DEF AtHome
  <2>7. freespacepos' = freespacepos BY <2>2 DEF Label, freespace
  <2>8. snespos = At(f.s, freespacepos'[f.s].addr + f.off) BY <2>5, <2>6, <2>7 DEF At, Pos
  <2>. HIDE DEF f, l
  <2>. QED BY <2>3, <2>4, <2>8 DEF f, l
<1>. QED
  <2>1. i < ip \/ i = ip \/ pass = 2 BY <1>1, <1>2, <1>5
  <2>. QED BY <1>5, <1>6, <1>7, <1>8, <2>1

\* Measuring keeps one pass below the other.
LEMMA LeftCovers ==
  ASSUME NEW m \in Point, NEW n \in Point, Alike(m, n), Covers(m, n),
         NEW f, NEW g, NEW o, NEW p, NEW j, NEW k, Total(g) <= Total(f),
         \A h \in DOMAIN o : Total(p[h]) <= Total(o[h])
  PROVE  Covers(Left(m, f, o, j), Left(n, g, p, k))
<1>1. /\ m.cur.r = n.cur.r /\ m.done = n.done /\ Total(n.cur) <= Total(m.cur)
      /\ \A i \in m.done : n.len[i] <= m.len[i]
  BY DEF Alike, Covers
<1>2. m.len \in [Ids -> Nat] /\ n.len \in [Ids -> Nat] /\ m.done \subseteq Ids /\ m.cur \in Frame BY PointParts
<1>3. \A i \in DoneAfter(m) : LenAfter(n)[i] <= LenAfter(m)[i]
  <2>1. CASE m.cur.r > 0
    <3>1. m.cur.r \in Ids BY <1>2, <2>1 DEF Frame
    <3>2. \A i \in Ids : /\ LenAfter(m)[i] = IF i = m.cur.r THEN Total(m.cur) ELSE m.len[i]
                         /\ LenAfter(n)[i] = IF i = m.cur.r THEN Total(n.cur) ELSE n.len[i]
      BY <1>1, <1>2, <2>1, <3>1 DEF LenAfter
    <3>3. DoneAfter(m) = m.done \cup {m.cur.r} BY <2>1 DEF DoneAfter
    <3>. QED BY <1>1, <1>2, <3>1, <3>2, <3>3
  <2>2. CASE ~(m.cur.r > 0)
    BY <1>1, <2>2 DEF DoneAfter, LenAfter
  <2>. QED BY <2>1, <2>2
<1>. QED BY <1>3 DEF Covers, Left

LEMMA MovedCovers ==
  ASSUME NEW m \in Point, NEW n \in Point, Covers(m, n), NEW f, NEW g, Total(g) <= Total(f)
  PROVE  Covers(Moved(m, f), Moved(n, g))
BY DEF Covers, Moved

\* An operand in pass 1 takes no more than it was given in pass 0.
LEMMA OperandCovered ==
  ASSUME NEW q, q > 0, NEW m \in Point, NEW n \in Point, NEW l \in LabelNames, m.cur.s = n.cur.s,
         m.where[l] # -1 => n.where[l] = m.where[l],
         l \in PlusNames => n.where[l] # -1 /\ n.where[l] = n.cur.s
  PROVE  RefLen(q, n, l) + RefSlack(q, n, l) <= RefLen(0, m, l) + RefSlack(0, m, l)
<1>1. q # 0 BY q > 0, 0 > 0 <=> FALSE
<1>2. Slack \in Nat \ {0} BY PassesAssumption
<1>3. CASE l \in PlusNames
  <2>1. RefLen(q, n, l) = 2 /\ RefSlack(q, n, l) = 0 BY <1>1, <1>3 DEF RefLen, RefSlack, Unseen
  <2>2. RefLen(0, m, l) = 2 /\ RefSlack(0, m, l) = 0 BY <1>3 DEF RefLen, RefSlack, Unseen
  <2>. QED BY <2>1, <2>2
<1>4. CASE l \notin PlusNames /\ m.where[l] # -1
  <2>1. RefLen(q, n, l) = RefLen(0, m, l) BY <1>1, <1>4 DEF RefLen, Unseen
  <2>2. RefSlack(q, n, l) = 0 /\ RefSlack(0, m, l) = 0 BY <1>4 DEF RefSlack
  <2>3. RefLen(0, m, l) \in {2, 3} BY DEF RefLen
  <2>. QED BY <2>1, <2>2, <2>3
<1>5. CASE l \notin PlusNames /\ m.where[l] = -1
  <2>1. RefLen(0, m, l) = 2 /\ RefSlack(0, m, l) = Slack BY <1>5 DEF RefLen, RefSlack, Unseen
  <2>2. CASE n.where[l] = -1
    <3>1. RefLen(q, n, l) = 2 /\ RefSlack(q, n, l) = Slack
      BY <1>1, <1>5, <2>2 DEF RefLen, RefSlack, Unseen
    <3>. QED BY <1>2, <2>1, <3>1
  <2>3. CASE n.where[l] # -1
    <3>1. RefLen(q, n, l) \in {2, 3} /\ RefSlack(q, n, l) = 0 BY <1>1, <1>5, <2>3 DEF RefLen, RefSlack
    <3>. QED BY <1>2, <2>1, <3>1
  <2>. QED BY <2>2, <2>3
<1>. QED BY <1>3, <1>4, <1>5

\* A frame that was no longer is no longer with as much or less added.
LEMMA GrownCovers ==
  ASSUME NEW f \in Frame, NEW g \in Frame, f.s = g.s, f.r = g.r, Total(g) <= Total(f),
         NEW a \in Nat, NEW x \in Nat, NEW b \in Nat, NEW y \in Nat, f.r > 0 => b + y <= a + x
  PROVE  Total(Grown(g, b, y)) <= Total(Grown(f, a, x)) /\ Total(Checked(g)) <= Total(Checked(f))
<1>1. f.off \in Nat /\ f.extra \in Nat /\ g.off \in Nat /\ g.extra \in Nat BY DEF Frame
<1>2. CASE f.s = -1 \/ f.r = -1
  <2>1. Checked(f) = Outside /\ Checked(g) = Outside BY <1>2 DEF Checked
  <2>2. ~(Outside.r > 0) /\ Total(Outside) = 0 BY DEF Outside, Total
  <2>. QED BY <2>1, <2>2 DEF Grown
<1>3. CASE ~(f.s = -1 \/ f.r = -1)
  <2>1. Checked(f) = f /\ Checked(g) = g BY <1>3 DEF Checked
  <2>2. CASE f.r > 0
    <3>1. /\ Total(Grown(f, a, x)) = f.off + a + (f.extra + x)
          /\ Total(Grown(g, b, y)) = g.off + b + (g.extra + y)
      BY <2>1, <2>2 DEF Grown, Total
    <3>. QED BY <1>1, <2>1, <2>2, <3>1 DEF Total
  <2>3. CASE ~(f.r > 0)
    BY <2>1, <2>3 DEF Grown
  <2>. QED BY <2>2, <2>3
<1>. QED BY <1>2, <1>3

\* What pass 0 measured covers what pass 1 measures, one command on.
LEMMA AfterCovers ==
  ASSUME NEW z, NEW q, NEW m \in Point, NEW n \in Point, NEW c \in Command, Alike(m, n), Covers(m, n),
         c.op = "ref" /\ m.cur.r > 0 =>
           RefLen(q, n, c.l) + RefSlack(q, n, c.l) <= RefLen(z, m, c.l) + RefSlack(z, m, c.l)
  PROVE  Covers(After(z, m, c), After(q, n, c))
<1>1. /\ m.cur.s = n.cur.s /\ m.cur.r = n.cur.r /\ m.next = n.next /\ Len(m.open) = Len(n.open)
      /\ Total(n.cur) <= Total(m.cur) /\ \A k \in DOMAIN m.open : Total(n.open[k]) <= Total(m.open[k])
  BY DEF Alike, Covers
<1>2. /\ m.cur \in Frame /\ n.cur \in Frame /\ m.open \in Seq(Frame) /\ n.open \in Seq(Frame)
  BY PointParts
<1>3. CASE c.op = "org"
  <2>1. /\ After(z, m, c) = Left(m, Outside, m.open, m.next)
        /\ After(q, n, c) = Left(n, Outside, n.open, n.next)
    BY <1>3, AfterIs
  <2>2. Total(Outside) <= Total(Outside) BY DEF Total, Outside
  <2>. QED BY <1>1, <2>1, <2>2, LeftCovers
<1>4. CASE c.op = "base"
  <2> DEFINE f == [s |-> 0, r |-> m.cur.r, off |-> m.cur.off, extra |-> m.cur.extra]
             g == [s |-> 0, r |-> n.cur.r, off |-> n.cur.off, extra |-> n.cur.extra]
  <2>1. After(z, m, c) = Moved(m, f) /\ After(q, n, c) = Moved(n, g) BY <1>4, AfterIs
  <2>2. Total(g) <= Total(f) BY <1>1 DEF Total
  <2>. QED BY <2>1, <2>2, MovedCovers
<1>5. CASE c.op = "baseoff"
  <2> DEFINE f == [s |-> m.cur.r, r |-> m.cur.r, off |-> m.cur.off, extra |-> m.cur.extra]
             g == [s |-> n.cur.r, r |-> n.cur.r, off |-> n.cur.off, extra |-> n.cur.extra]
  <2>1. After(z, m, c) = Moved(m, f) /\ After(q, n, c) = Moved(n, g) BY <1>5, AfterIs
  <2>2. Total(g) <= Total(f) BY <1>1 DEF Total
  <2>. QED BY <2>1, <2>2, MovedCovers
<1>6. CASE c.op = "db"
  <2>1. c.n \in Nat /\ 0 \in Nat /\ c.n + 0 <= c.n + 0 BY <1>6, Commands
  <2>2. Total(Grown(n.cur, c.n, 0)) <= Total(Grown(m.cur, c.n, 0)) BY <1>1, <1>2, <2>1, GrownCovers
  <2>3. /\ After(z, m, c) = Moved(m, Grown(m.cur, c.n, 0))
        /\ After(q, n, c) = Moved(n, Grown(n.cur, c.n, 0))
    BY <1>6, AfterIs
  <2>. QED BY <2>2, <2>3, MovedCovers
<1>7. CASE c.op = "ref"
  <2> DEFINE a == 1 + RefLen(z, m, c.l)
             x == RefSlack(z, m, c.l)
             b == 1 + RefLen(q, n, c.l)
             y == RefSlack(q, n, c.l)
  <2>1. a \in Nat /\ x \in Nat /\ b \in Nat /\ y \in Nat BY OperandNat
  <2>2. ASSUME m.cur.r > 0 PROVE b + y <= a + x
    <3>1. RefLen(q, n, c.l) + y <= RefLen(z, m, c.l) + x BY <1>7, <2>2
    <3>2. RefLen(q, n, c.l) \in Nat /\ RefLen(z, m, c.l) \in Nat BY DEF RefLen
    <3>. QED BY <2>1, <3>1, <3>2
  <2>3. /\ After(z, m, c) = Moved(m, Grown(m.cur, a, x))
        /\ After(q, n, c) = Moved(n, Grown(n.cur, b, y))
    BY <1>7, AfterIs
  <2>. HIDE DEF a, x, b, y
  <2>4. Total(Grown(n.cur, b, y)) <= Total(Grown(m.cur, a, x)) BY <1>1, <1>2, <2>1, <2>2, GrownCovers
  <2>. QED BY <2>3, <2>4, MovedCovers
<1>8. CASE c.op = "label"
  <2>1. Total(Checked(n.cur)) <= Total(Checked(m.cur))
    <3>1. 0 \in Nat /\ 0 + 0 <= 0 + 0 OBVIOUS
    <3>. QED BY <1>1, <1>2, <3>1, GrownCovers
  <2>2. /\ \/ After(z, m, c) = Moved(m, Checked(m.cur)) \/ After(z, m, c) = Labelled(m, c.l)
           \/ After(z, m, c) = Failed(Moved(m, Checked(m.cur)))
        /\ \/ After(q, n, c) = Moved(n, Checked(n.cur)) \/ After(q, n, c) = Labelled(n, c.l)
           \/ After(q, n, c) = Failed(Moved(n, Checked(n.cur)))
    BY <1>8, LabelAfter
  <2>3. /\ After(z, m, c).cur = Checked(m.cur) /\ After(z, m, c).open = m.open
        /\ After(z, m, c).done = m.done /\ After(z, m, c).len = m.len
        /\ After(q, n, c).cur = Checked(n.cur) /\ After(q, n, c).open = n.open
        /\ After(q, n, c).done = n.done /\ After(q, n, c).len = n.len
    BY <2>2 DEF Moved, Labelled, Failed
  <2>. QED BY <2>1, <2>3 DEF Covers
<1>9. CASE c.op = "freespace"
  <2> DEFINE f == [s |-> m.next, r |-> m.next, off |-> 0, extra |-> 0]
             g == [s |-> n.next, r |-> n.next, off |-> 0, extra |-> 0]
  <2>1. /\ After(z, m, c) = IF m.next > MaxFreespaces THEN Failed(m) ELSE Left(m, f, m.open, m.next + 1)
        /\ After(q, n, c) = IF n.next > MaxFreespaces THEN Failed(n) ELSE Left(n, g, n.open, n.next + 1)
    BY <1>9, AfterIs
  <2>2. Covers(Failed(m), Failed(n)) BY DEF Covers, Failed
  <2>3. Total(g) <= Total(f) BY DEF Total
  <2>. HIDE DEF f, g
  <2>4. Covers(Left(m, f, m.open, m.next + 1), Left(n, g, n.open, n.next + 1))
    BY <1>1, <2>3, LeftCovers
  <2>. QED BY <1>1, <2>1, <2>2, <2>4
<1>10. CASE c.op = "pushpc"
  <2>1. After(z, m, c) = Pushed(m) /\ After(q, n, c) = Pushed(n) BY <1>10, AfterIs
  <2>2. /\ Len(Append(m.open, m.cur)) = Len(m.open) + 1 /\ Append(m.open, m.cur) \in Seq(Frame)
        /\ Append(m.open, m.cur)[Len(m.open) + 1] = m.cur
        /\ Append(n.open, n.cur)[Len(m.open) + 1] = n.cur
        /\ \A i \in 1 .. Len(m.open) : /\ Append(m.open, m.cur)[i] = m.open[i]
                                       /\ Append(n.open, n.cur)[i] = n.open[i]
    BY <1>1, <1>2, StackFacts
  <2>3. DOMAIN Append(m.open, m.cur) = 1 .. Len(m.open) + 1 /\ DOMAIN m.open = 1 .. Len(m.open)
        /\ \A k \in 1 .. Len(m.open) + 1 : k \in 1 .. Len(m.open) \/ k = Len(m.open) + 1
    BY <1>2, <2>2
  <2>4. \A k \in DOMAIN Append(m.open, m.cur) :
          Total(Append(n.open, n.cur)[k]) <= Total(Append(m.open, m.cur)[k])
    BY <1>1, <2>2, <2>3
  <2>5. Total(Lost) <= Total(Lost) BY DEF Total, Lost
  <2>6. Covers(Pushed(m), Pushed(n)) BY <2>4, <2>5 DEF Covers, Pushed
  <2>. QED BY <2>1, <2>6
<1>11. CASE c.op = "pullpc"
  <2>1. /\ After(z, m, c) = IF m.open = << >> THEN Failed(m) ELSE Left(m, Last(m.open), Front(m.open), m.next)
        /\ After(q, n, c) = IF n.open = << >> THEN Failed(n) ELSE Left(n, Last(n.open), Front(n.open), n.next)
    BY <1>11, AfterIs
  <2>2. m.open = << >> <=> n.open = << >> BY <1>1, <1>2
  <2>3. CASE m.open = << >>
    <3>1. Covers(Failed(m), Failed(n)) BY DEF Covers, Failed
    <3>. QED BY <2>1, <2>2, <2>3, <3>1
  <2>4. CASE m.open # << >>
    <3>0. /\ Last(m.open) = m.open[Len(m.open)]
          /\ Len(m.open) \in Nat \ {0} /\ Len(Front(m.open)) = Len(m.open) - 1
          /\ Front(m.open) \in Seq(Frame)
          /\ \A i \in 1 .. Len(m.open) - 1 : Front(m.open)[i] = m.open[i]
      BY <1>2, <2>4, StackFacts
    <3>1. /\ Last(n.open) = n.open[Len(m.open)]
          /\ \A i \in 1 .. Len(m.open) - 1 : Front(n.open)[i] = n.open[i]
      BY <1>1, <1>2, <2>2, <2>4, StackFacts
    <3>2. /\ DOMAIN Front(m.open) = 1 .. Len(m.open) - 1 /\ DOMAIN m.open = 1 .. Len(m.open)
          /\ Len(m.open) \in 1 .. Len(m.open)
          /\ \A k \in 1 .. Len(m.open) - 1 : k \in 1 .. Len(m.open)
      BY <1>2, <3>0
    <3>3. /\ Total(Last(n.open)) <= Total(Last(m.open))
          /\ \A k \in DOMAIN Front(m.open) : Total(Front(n.open)[k]) <= Total(Front(m.open)[k])
      BY <1>1, <3>0, <3>1, <3>2
    <3>4. Covers(Left(m, Last(m.open), Front(m.open), m.next), Left(n, Last(n.open), Front(n.open), n.next))
      BY <3>3, LeftCovers
    <3>. QED BY <2>1, <2>2, <2>4, <3>4
  <2>. QED BY <2>3, <2>4
<1>. QED BY <1>3, <1>4, <1>5, <1>6, <1>7, <1>8, <1>9, <1>10, <1>11, Commands

LEMMA EnoughKept ==
  ASSUME TypeOK, OnCourse, LabelsKnown, SignsStayInside, Enough, Onward, Through
  PROVE  Enough'
<1>1. /\ Cmd \in Command /\ pass' = pass /\ prog' = prog /\ ip' = ip + 1
      /\ Cmd = prog[ip] /\ ip \in 1 .. Len(prog) /\ End0' = End0 /\ Len0' = Len0 /\ Len1' = Len1
  BY HereMoves DEF Onward
<1>2. CASE pass = 1
  <2> DEFINE m == First(prog)[ip]
             n == Second(prog)[ip]
  <2>1. ip \in 1 .. Len(prog) + 1 BY <1>1, Courses
  <2>2. /\ m \in Point /\ n \in Point /\ Alike(m, n) /\ n.where = End0.where /\ Later(m, End0)
        /\ First(prog)[ip + 1] = After(0, m, Cmd) /\ Second(prog)[ip + 1] = After(1, n, Cmd)
    BY <1>1, <2>1, Courses
  <2>3. Here = n /\ Covers(m, n) BY <1>2 DEF Here, Enough
  <2>4. \A l \in LabelNames : m.where[l] # -1 => n.where[l] = m.where[l] BY <2>2 DEF Later
  <2>5. ASSUME Cmd.op = "ref", m.cur.r > 0
        PROVE  RefLen(1, n, Cmd.l) + RefSlack(1, n, Cmd.l) <= RefLen(0, m, Cmd.l) + RefSlack(0, m, Cmd.l)
    <3>1. m.cur.r = n.cur.r /\ m.cur.s = n.cur.s BY <2>2 DEF Alike
    <3>2. snespos.fs = n.cur.s /\ realsnespos.fs = n.cur.r BY <2>3 DEF OnCourse, Follows
    <3>3. RefersInFreespace
      <4>1. ip <= Len(prog) BY <1>1, Courses
      <4>. QED BY <1>2, <2>5, <3>1, <3>2, <4>1 DEF RefersInFreespace, Running, Cmd
    <3>4. Cmd.l \in LabelNames BY <1>1, <2>5, Commands
    <3>5. ASSUME Cmd.l \in PlusNames PROVE n.where[Cmd.l] # -1 /\ n.where[Cmd.l] = n.cur.s
      <4>1. Cmd.l \in DOMAIN labels /\ labels[Cmd.l].fs = snespos.fs
        BY <1>2, <3>3, <3>5 DEF SignsStayInside
      <4>. QED BY <2>3, <3>2, <3>4, <4>1 DEF LabelsKnown
    <3>6. 1 > 0 OBVIOUS
    <3>. QED BY <2>2, <2>4, <3>1, <3>4, <3>5, <3>6, OperandCovered
  <2>. HIDE DEF m, n
  <2>7. Covers(After(0, m, Cmd), After(1, n, Cmd)) BY <1>1, <2>2, <2>3, <2>5, AfterCovers
  <2>8. Covers(First(prog)[ip + 1], Second(prog)[ip + 1]) BY <2>2, <2>7
  <2>. QED BY <1>1, <1>2, <2>8 DEF Enough
<1>3. CASE pass # 1
  BY <1>1, <1>3 DEF Enough
<1>. QED BY <1>2, <1>3

\* The bytes of a block.
LEMMA BlockIs ==
  ASSUME TypeOK, BlocksApart, NEW b \in blocks
  PROVE  /\ b.start \in Nat /\ b.len \in Nat /\ b.len >= 1 /\ b = [start |-> b.start, len |-> b.len]
         /\ Extent(b) \subseteq Pool /\ b.start \in Extent(b)
         /\ \A a \in Int : b.start - TagSize <= a /\ a < b.start + b.len => a \in Extent(b)
<1>1. b.start \in Nat /\ b.len \in Int /\ b = [start |-> b.start, len |-> b.len] BY DEF TypeOK
<1>2. b.len >= 1 /\ Extent(b) \subseteq Pool BY DEF BlocksApart
<1>3. TagSize \in Nat \ {0} BY PassesAssumption
<1>. QED BY <1>1, <1>2, <1>3 DEF Extent

\* A new block, whose content starts at p.
LEMMA NewBlock ==
  ASSUME TypeOK, NEW len \in Int, NEW p \in Candidates(len), len # 0
  PROVE  LET b == [start |-> p, len |-> len] IN
         /\ p \in Nat /\ len >= 1 /\ Extent(b) \subseteq Pool /\ p \in Extent(b)
         /\ \A c \in blocks : Extent(b) \cap Extent(c) = {}
<1> DEFINE b == [start |-> p, len |-> len]
<1>1. p \in Pool /\ len > 0 /\ Extent(b) \subseteq Pool /\ \A c \in blocks : Extent(b) \cap Extent(c) = {}
  BY DEF Candidates
<1>2. p \in Nat /\ TagSize \in Nat \ {0} BY <1>1, PassesAssumption
<1>3. p \in Extent(b) BY <1>1, <1>2 DEF Extent
<1>. QED BY <1>1, <1>2, <1>3

\* The freespace that is entered has not been measured in this pass.
LEMMA NextLen ==
  ASSUME TypeOK, OwnInv, OnCourse, Measured, BaseIsClosed, Onward, Through, TakeId
  PROVE  /\ freespaceidnext \in Ids /\ (pass > 0 => freespaceidnext < End0.next)
         /\ pass = 1 => Ended[freespaceidnext] = Len0[freespaceidnext]
         /\ pass = 2 => Ended[freespaceidnext] = Len1[freespaceidnext]
<1> DEFINE x == freespaceidnext
<1>1. x \in Ids /\ (pass > 0 => x < End0.next) BY FreespaceGoes, TakeIdType
<1>2. /\ Here \in Point /\ Sound(Here) /\ x = Here.next /\ Here.cur.r \in Int /\ Here.done \subseteq Ids
      /\ \A i \in Ids : i \in Int
  BY FramePos, PointParts DEF OnCourse, Ids
<1>3. x # Here.cur.r /\ x \notin Here.done
  <2>1. x \in Int BY <1>1, <1>2
  <2>2. ~(x < x) BY <2>1
  <2>3. Here.cur.r = x => x > 0 BY <1>1 DEF Ids
  <2>. QED BY <1>2, <2>2, <2>3 DEF Sound
<1>4. Ends BY LenMoves, HereMoves DEF Ends, TakeId, Running, Cmd
<1>5. Ended[x] = freespacelen[x]
  <2>1. freespacelen \in [Ids -> Int] BY DEF TypeOK
  <2>2. CASE Here.cur.r > 0 BY <1>1, <1>3, <1>4, <2>1, <2>2, EndedIs
  <2>3. CASE ~(Here.cur.r > 0) BY <1>4, <2>3, EndedIs
  <2>. QED BY <2>2, <2>3
<1>6. pass = 1 => freespacelen[x] = Len0[x] BY <1>1, <1>3 DEF Measured
<1>7. pass = 2 => freespacelen[x] = Len1[x] BY <1>1 DEF Measured
<1>. QED BY <1>1, <1>5, <1>6, <1>7

\* Pass 1 gives every freespace a block of its own.
LEMMA AllocateKept ==
  ASSUME TypeOK, OwnInv, OnCourse, Measured, BaseIsClosed, BlocksApart, BlocksHeld,
         Onward, Through, FreespaceAllocate
  PROVE  BlocksApart' /\ BlocksHeld'
<1>0. PICK x, n : x = freespaceidnext /\ n = Len0[x] OBVIOUS
<1>1. /\ TakeId /\ pass = 1 /\ pass' = pass /\ freespaceidnext' = x + 1 /\ prog' = prog
      /\ Len0' = Len0 /\ Len1' = Len1 /\ End0' = End0
  BY <1>0, HereMoves DEF FreespaceAllocate, TakeId, Onward
<1>2. x \in Ids /\ x < End0.next /\ Ended[x] = n BY <1>0, <1>1, NextLen
<1>3. PICK p \in Candidates(n) :
        /\ freespacepos' = [freespacepos EXCEPT ![x] = At(x, p)]
        /\ blocks' = IF n = 0 THEN blocks ELSE blocks \cup {[start |-> p, len |-> n]}
  BY <1>0, <1>2 DEF FreespaceAllocate
<1>4. n \in Nat /\ n \in Int
  <2>1. Len0 \in [Ids -> Nat] BY Courses, MeasureType DEF Len0
  <2>. QED BY <1>0, <1>2, <2>1
<1> DEFINE e == [start |-> p, len |-> n]
<1>5. n # 0 => /\ p \in Nat /\ n >= 1 /\ Extent(e) \subseteq Pool /\ p \in Extent(e)
               /\ \A c \in blocks : Extent(e) \cap Extent(c) = {}
  BY <1>4, NewBlock
<1>6. n = 0 => p = ZeroPos BY DEF Candidates
<1>7. /\ freespacepos'[x] = At(x, p) /\ \A i \in Ids : i # x => freespacepos'[i] = freespacepos[i]
      /\ At(x, p).fs = x /\ At(x, p).addr = p
  BY <1>2, <1>3 DEF TypeOK, At
<1>8. BlocksApart'
  <2>1. CASE n = 0
    <3>1. blocks' = blocks BY <1>3, <2>1
    <3>. QED BY <3>1 DEF BlocksApart, Extent
  <2>2. CASE n # 0
    <3>1. blocks' = blocks \cup {e} BY <1>3, <2>2
    <3>2. e.len >= 1 BY <1>5, <2>2
    <3>3. \A c \in blocks : Extent(c) \cap Extent(e) = {} BY <1>5, <2>2
    <3>. HIDE DEF e
    <3>. QED BY <1>5, <2>2, <3>1, <3>2, <3>3 DEF BlocksApart, Extent
  <2>. QED BY <2>1, <2>2
<1>9. \A i \in Ids : i < x + 1 <=> i < x \/ i = x
  <2>1. \A i \in Ids : i \in Int BY DEF Ids
  <2>. QED BY <1>2, <2>1
<1>10. \A i \in Ids : i < x => i # x
  <2>1. x \in Int BY <1>2 DEF Ids
  <2>. QED BY <2>1
<1>11. blocks \subseteq blocks' BY <1>3
<1>12. \A i \in Ids : i < x => Has(i, Len0[i])' 
  BY <1>0, <1>1, <1>7, <1>10, <1>11 DEF BlocksHeld, Has
<1>13. Has(x, n)'
  BY <1>3, <1>6, <1>7 DEF Has
<1>14. ASSUME NEW j \in Ids, j < x, freespacepos[j].addr = p PROVE p = ZeroPos
  <2>1. CASE n = 0 BY <1>6, <2>1
  <2>2. CASE n # 0 /\ p # ZeroPos
    <3>1. Has(j, Len0[j]) BY <1>0, <1>1, <1>14 DEF BlocksHeld
    <3>2. PICK b \in blocks : b.start = p BY <1>14, <2>2, <3>1 DEF Has
    <3>3. p \in Extent(b) BY <3>2, BlockIs
    <3>. QED BY <1>5, <2>2, <3>3
  <2>. QED BY <2>1, <2>2
<1>15. ASSUME NEW i \in Ids, NEW j \in Ids, i < x \/ i = x, j < x \/ j = x, i # j,
              freespacepos'[i].addr = freespacepos'[j].addr
       PROVE  freespacepos'[i].addr = ZeroPos
  <2>1. CASE i = x
    <3>1. j < x /\ j # x BY <1>15, <2>1
    <3>. QED BY <1>7, <1>14, <1>15, <2>1, <3>1
  <2>2. CASE j = x
    <3>1. i < x /\ i # x BY <1>15, <2>2
    <3>. QED BY <1>7, <1>14, <1>15, <2>2, <3>1
  <2>3. CASE i # x /\ j # x
    <3>1. freespacepos[i].addr = freespacepos[j].addr /\ freespacepos'[i] = freespacepos[i]
          /\ i < x /\ j < x
      BY <1>7, <1>15, <2>3
    <3>. QED BY <1>0, <1>1, <1>15, <3>1 DEF BlocksHeld, Allocated
  <2>. QED BY <2>1, <2>2, <2>3
<1>16. BlocksHeld'
  <2>1. pass' = 1 /\ freespaceidnext' = x + 1 BY <1>1
  <2>2. \A i \in Ids : i < x + 1 => Has(i, Len0[i])' BY <1>0, <1>1, <1>9, <1>12, <1>13
  <2>3. \A i, j \in Ids : i < x + 1 /\ j < x + 1 /\ i # j /\ freespacepos'[i].addr = freespacepos'[j].addr
          => freespacepos'[i].addr = ZeroPos
    BY <1>9, <1>15
  <2>. QED BY <1>0, <1>1, <2>1, <2>2, <2>3 DEF BlocksHeld, Allocated
<1>. QED BY <1>8, <1>16

\* Pass 2 gives up what pass 1 asked for and did not need.
LEMMA ResizeKept ==
  ASSUME TypeOK, OwnInv, OnCourse, Measured, Enough, BaseIsClosed, BlocksApart, BlocksHeld,
         Onward, Through, FreespaceResize
  PROVE  BlocksApart' /\ BlocksHeld'
<1>0. PICK x, n, a : x = freespaceidnext /\ n = Len1[x] /\ a = freespacepos[x].addr OBVIOUS
<1>1. /\ TakeId /\ pass = 2 /\ pass' = pass /\ freespaceidnext' = x + 1 /\ prog' = prog
      /\ Len0' = Len0 /\ Len1' = Len1 /\ End0' = End0 /\ freespacepos' = freespacepos
  BY <1>0, HereMoves DEF FreespaceResize, TakeId, Onward
<1>2. x \in Ids /\ x < End0.next /\ Ended[x] = n BY <1>0, <1>1, NextLen
<1>3. blocks' = Resized(freespacepos[x], n) BY <1>0, <1>2 DEF FreespaceResize
<1>4. n \in Nat /\ Len0[x] \in Nat /\ n <= Len0[x] /\ x \in Nat /\ a \in Int
  <2>1. Len0 \in [Ids -> Nat] /\ Len1 \in [Ids -> Nat] BY Courses, MeasureType DEF Len0, Len1
  <2>2. x \in Nat /\ freespacepos[x] \in Pos BY <1>2 DEF Ids, TypeOK
  <2>. QED BY <1>0, <1>1, <1>2, <2>1, <2>2 DEF Enough, Pos
<1>5. x <= x /\ ~(x < x) BY <1>4
<1>6. /\ freespacepos[x].fs = x
      /\ (Len0[x] = 0 /\ a = ZeroPos) \/ [start |-> a, len |-> Len0[x]] \in blocks
  <2>1. Has(x, Len0[x]) BY <1>0, <1>1, <1>2, <1>5 DEF BlocksHeld
  <2>. QED BY <1>0, <2>1 DEF Has
<1>7. \A b \in RatsStart(a) : b \in blocks /\ b.start - TagSize <= a /\ a < b.start + b.len
  BY DEF RatsStart
<1>8. \A b \in RatsStart(a) : a \in Extent(b) BY <1>4, <1>7, BlockIs
<1>9. ZeroPos \notin Pool BY PassesAssumption
<1>10. TagLen(n) \in Nat /\ TagLen(n) >= 1 /\ TagLen(n) >= n BY <1>4 DEF TagLen
<1>11. blocks' = (blocks \ RatsStart(a)) \cup {[start |-> b.start, len |-> TagLen(n)] : b \in RatsStart(a)}
  BY <1>0, <1>3 DEF Resized
<1>12. \A i \in Ids : (i < x + 1 <=> i < x \/ i = x) /\ (x + 1 <= i => x <= i /\ i # x) /\ (i < x => i # x)
  <2>1. \A i \in Ids : i \in Int BY DEF Ids
  <2>. QED BY <1>4, <2>1
<1>13. ASSUME BlocksApart', HasRoom(x, n)',
              \A b \in blocks : b \notin blocks' => b.start = a /\ a # ZeroPos
       PROVE  BlocksApart' /\ BlocksHeld'
  <2>1. ASSUME NEW i \in Ids, i # x, i < End0.next, NEW b \in blocks, b.start = freespacepos[i].addr
        PROVE  b \in blocks'
    <3>1. SUFFICES ASSUME b \notin blocks' PROVE FALSE OBVIOUS
    <3>2. freespacepos[i].addr = a /\ a # ZeroPos BY <1>13, <2>1, <3>1
    <3>3. Allocated(i) /\ Allocated(x) BY <1>0, <1>1, <1>2, <2>1 DEF Allocated
    <3>. QED BY <1>0, <1>1, <1>2, <2>1, <3>2, <3>3 DEF BlocksHeld
  <2>2. \A i \in Ids : x + 1 <= i /\ i < End0.next => Has(i, Len0[i])'
    <3>1. ASSUME NEW i \in Ids, x + 1 <= i, i < End0.next PROVE Has(i, Len0[i])'
      <4>1. Has(i, Len0[i]) /\ i # x BY <1>0, <1>1, <1>12, <3>1 DEF BlocksHeld
      <4>2. CASE Len0[i] = 0 /\ freespacepos[i].addr = ZeroPos BY <1>1, <4>1, <4>2 DEF Has
      <4>3. CASE [start |-> freespacepos[i].addr, len |-> Len0[i]] \in blocks
        <5>1. [start |-> freespacepos[i].addr, len |-> Len0[i]] \in blocks' BY <2>1, <3>1, <4>1, <4>3
        <5>. QED BY <1>1, <4>1, <5>1 DEF Has
      <4>. QED BY <4>1, <4>2, <4>3 DEF Has
    <3>. QED BY <3>1
  <2>3. \A i \in Ids : i < x => HasRoom(i, Len1[i])'
    <3>1. ASSUME NEW i \in Ids, i < x PROVE HasRoom(i, Len1[i])'
      <4>1. HasRoom(i, Len1[i]) /\ i # x BY <1>0, <1>1, <1>12, <3>1 DEF BlocksHeld
      <4>2. i < End0.next
        <5>1. i \in Int /\ End0.next \in Int BY Courses, PointParts DEF Ids
        <5>. QED BY <1>2, <1>4, <3>1, <5>1
      <4>3. CASE Len1[i] = 0 /\ freespacepos[i].addr = ZeroPos BY <1>1, <4>1, <4>3 DEF HasRoom
      <4>4. CASE \E b \in blocks : b.start = freespacepos[i].addr /\ b.len >= Len1[i]
        <5>1. PICK b \in blocks : b.start = freespacepos[i].addr /\ b.len >= Len1[i] BY <4>4
        <5>2. b \in blocks' BY <2>1, <4>1, <4>2, <5>1
        <5>. QED BY <1>1, <4>1, <5>1, <5>2 DEF HasRoom
      <4>. QED BY <4>1, <4>3, <4>4 DEF HasRoom
    <3>. QED BY <3>1
  <2>4. \A i \in Ids : i < x + 1 => HasRoom(i, Len1[i])' BY <1>0, <1>1, <1>12, <1>13, <2>3
  <2>5. \A i, j \in Ids : (Allocated(i) /\ Allocated(j) /\ i # j /\ freespacepos[i].addr = freespacepos[j].addr)'
          => freespacepos'[i].addr = ZeroPos
    <3>1. \A i \in Ids : Allocated(i)' => Allocated(i) BY <1>1 DEF Allocated
    <3>. QED BY <1>1, <3>1 DEF BlocksHeld
  <2>6. pass' = 2 /\ freespaceidnext' = x + 1 BY <1>1
  <2>. QED BY <1>0, <1>1, <1>13, <2>2, <2>4, <2>5, <2>6 DEF BlocksHeld
<1>14. ASSUME blocks' = blocks PROVE BlocksApart' /\ BlocksHeld'
  <2>1. BlocksApart' BY <1>14 DEF BlocksApart, Extent
  <2>2. HasRoom(x, n)'
    <3>1. CASE Len0[x] = 0 /\ a = ZeroPos
      <4>1. n = 0 BY <1>4, <3>1
      <4>. QED BY <1>0, <1>1, <1>6, <3>1, <4>1 DEF HasRoom
    <3>2. CASE [start |-> a, len |-> Len0[x]] \in blocks
      BY <1>0, <1>1, <1>4, <1>6, <1>14, <3>2 DEF HasRoom
    <3>. QED BY <1>6, <3>1, <3>2
  <2>. QED BY <1>13, <1>14, <2>1, <2>2
<1>15. CASE RatsStart(a) = {}
  <2>1. blocks' = blocks BY <1>11, <1>15
  <2>. QED BY <1>14, <2>1
<1>16. CASE RatsStart(a) # {}
  <2>1. PICK b \in RatsStart(a) : TRUE BY <1>16
  <2>2. b \in blocks /\ a \in Extent(b) /\ Extent(b) \subseteq Pool BY <1>7, <1>8, <2>1, BlockIs
  <2>3. a # ZeroPos BY <1>9, <2>2
  <2> DEFINE c == [start |-> a, len |-> Len0[x]]
  <2>4. c \in blocks /\ c.start = a BY <1>6, <2>3
  <2>. HIDE DEF c
  <2>5. a \in Extent(c) BY <2>4, BlockIs
  <2>6. RatsStart(a) = {c} BY <1>7, <1>8, <2>1, <2>4, <2>5 DEF BlocksApart
  <2> DEFINE e == [start |-> a, len |-> TagLen(n)]
  <2>7. blocks' = (blocks \ {c}) \cup {e} BY <1>11, <2>4, <2>6
  <2>8. Extent(e) \subseteq Extent(c) /\ e.len >= 1 /\ e.start = a /\ e.len >= n
    <3>1. c.len = Len0[x] /\ c.len >= 1 /\ TagSize \in Nat BY <2>4, BlockIs, PassesAssumption DEF c
    <3>2. TagLen(n) <= c.len BY <1>4, <3>1 DEF TagLen
    <3>. QED BY <1>4, <1>10, <2>4, <3>1, <3>2 DEF Extent
  <2>. HIDE DEF e
  <2>9. Extent(c) \subseteq Pool /\ \A d \in blocks \ {c} : Extent(c) \cap Extent(d) = {}
    BY <2>4 DEF BlocksApart
  <2>10. \A d \in blocks \ {c} : Extent(e) \cap Extent(d) = {} /\ Extent(d) \cap Extent(e) = {}
    BY <2>8, <2>9
  <2>11. BlocksApart'
    <3>1. \A d \in blocks' : d.len >= 1 /\ Extent(d) \subseteq Pool
      BY <2>7, <2>8, <2>9 DEF BlocksApart
    <3>2. \A d, f \in blocks' : d # f => Extent(d) \cap Extent(f) = {}
      BY <2>7, <2>10 DEF BlocksApart
    <3>. QED BY <3>1, <3>2 DEF BlocksApart, Extent
  <2>12. HasRoom(x, n)' BY <1>0, <1>1, <1>6, <2>7, <2>8 DEF HasRoom
  <2>13. \A d \in blocks : d \notin blocks' => d.start = a /\ a # ZeroPos BY <2>3, <2>4, <2>7
  <2>. QED BY <1>13, <2>11, <2>12, <2>13
<1>. QED BY <1>15, <1>16

LEMMA BlocksKept ==
  ASSUME TypeOK, OwnInv, OnCourse, Measured, Enough, BaseIsClosed, BlocksApart, BlocksHeld, Onward, Through
  PROVE  BlocksApart' /\ BlocksHeld'
<1>1. CASE FreespaceAllocate BY <1>1, AllocateKept
<1>2. CASE FreespaceResize BY <1>2, ResizeKept
<1>3. CASE FreespaceMeasure
  <2>1. pass = 0 /\ pass' = 0 /\ blocks' = blocks BY <1>3 DEF FreespaceMeasure, output, Onward
  <2>. QED BY <2>1 DEF BlocksApart, BlocksHeld, Extent
<1>4. CASE Org \/ Base \/ BaseOff \/ Db \/ Instr \/ Label \/ PushPc \/ PullPc
  <2>1. /\ blocks' = blocks /\ freespacepos' = freespacepos /\ freespaceidnext' = freespaceidnext
        /\ pass' = pass /\ End0' = End0 /\ Len0' = Len0 /\ Len1' = Len1
    BY <1>4, HereMoves DEF Org, Base, BaseOff, Db, Instr, Label, PushPc, PullPc, output, freespace, Onward
  <2>2. BlocksApart' BY <2>1 DEF BlocksApart, Extent
  <2>3. BlocksHeld' BY <2>1 DEF BlocksHeld, Allocated, Has, HasRoom
  <2>. QED BY <2>2, <2>3
<1>. QED BY <1>1, <1>2, <1>3, <1>4 DEF Through

\* Bytes go on in the frame.
LEMMA WriteGoes ==
  ASSUME TypeOK, Onward
  PROVE  /\ Cmd.op = "db" => Here' = Moved(Here, Grown(Here.cur, Cmd.n, 0)) /\ Cmd.n \in Nat
         /\ Cmd.op = "ref" => Here' =
              Moved(Here, Grown(Here.cur, 1 + RefLen(Q, Here, Cmd.l), RefSlack(Q, Here, Cmd.l)))
<1>1. Here' = After(Q, Here, Cmd) /\ Cmd \in Command BY HereMoves
<1>2. ASSUME Cmd.op = "db" PROVE After(Q, Here, Cmd) = Moved(Here, Grown(Here.cur, Cmd.n, 0))
  BY <1>2, AfterIs
<1>3. ASSUME Cmd.op = "ref"
      PROVE  After(Q, Here, Cmd) =
               Moved(Here, Grown(Here.cur, 1 + RefLen(Q, Here, Cmd.l), RefSlack(Q, Here, Cmd.l)))
  BY <1>3, AfterIs
<1>4. Cmd.op = "db" => Cmd.n \in Nat BY <1>1, Commands
<1>. QED BY <1>1, <1>2, <1>3, <1>4

\* The bytes of a command in a freespace are the next ones of that freespace.
LEMMA NewBytes ==
  ASSUME TypeOK, OnCourse, LabelsKnown, Ordinary, Onward, Db \/ Instr, pass = 2,
         NEW w \in written', w \notin written, w.fs > 0
  PROVE  /\ w.fs = Here.cur.r /\ w.fs = Here'.cur.r /\ w.addr \in Int
         /\ freespacestart.addr + Here.cur.off <= w.addr
         /\ w.addr < freespacestart.addr + Here'.cur.off
<1>1. /\ Here \in Point /\ Here.cur \in Frame /\ Upright(Here.cur) /\ Cmd \in Command
      /\ Here' = After(Q, Here, Cmd)
      /\ NoOrg <=> Here.cur.s = -1 \/ Here.cur.r = -1
      /\ Checked(Here.cur).r = Verified(realsnespos).fs
  BY FramePos, HereMoves
<1>2. ASSUME NEW n \in Nat, NEW k \in Nat, NEW y \in Nat, Here.cur.r > 0 => k = n, Write(n),
             Here' = Moved(Here, Grown(Here.cur, k, y))
      PROVE  /\ w.fs = Here.cur.r /\ w.fs = Here'.cur.r /\ w.addr \in Int
             /\ freespacestart.addr + Here.cur.off <= w.addr
             /\ w.addr < freespacestart.addr + Here'.cur.off
  <2> DEFINE real == Verified(realsnespos)
  <2>1. w \in [addr : real.addr .. real.addr + n - 1, fs : {real.fs}] BY <1>2 DEF Write
  <2>2. w.fs = real.fs /\ w.addr \in real.addr .. real.addr + n - 1 BY <2>1
  <2>3. Checked(Here.cur).r > 0 BY <1>1, <2>2
  <2>4. Here.cur = Checked(Here.cur) /\ Here.cur.r > 0 BY <1>1, <2>3, 0 \in Nat, SoundChecked
  <2>5. real = realsnespos
    <3>1. ~(Here.cur.s = -1 \/ Here.cur.r = -1) BY <1>1, <2>4, PointParts DEF Upright
    <3>. QED BY <1>1, <3>1 DEF Verified
  <2>6. realsnespos.fs = Here.cur.r /\ realsnespos.addr = freespacestart.addr + Here.cur.off
    BY <2>4 DEF OnCourse, Follows
  <2>7. Here'.cur = [s |-> Here.cur.s, r |-> Here.cur.r, off |-> Here.cur.off + n,
                     extra |-> Here.cur.extra + y]
    BY <1>2, <2>4 DEF Grown, Moved
  <2>8. freespacestart.addr \in Int /\ Here.cur.off \in Nat BY <1>1, PointParts DEF TypeOK, Pos
  <2>. HIDE DEF real
  <2>. QED BY <1>2, <2>2, <2>5, <2>6, <2>7, <2>8
<1>3. CASE Db
  <2>1. Cmd.op = "db" BY <1>3 DEF Db, Running, Cmd
  <2>2. Here' = Moved(Here, Grown(Here.cur, Cmd.n, 0)) /\ Cmd.n \in Nat BY <2>1, WriteGoes
  <2>3. Write(Cmd.n) /\ 0 \in Nat BY <1>3 DEF Db
  <2>. QED BY <1>2, <2>2, <2>3
<1>4. CASE Instr
  <2>1. Cmd.op = "ref" BY <1>4 DEF Instr, Running, Cmd
  <2>2. Here' = Moved(Here, Grown(Here.cur, 1 + RefLen(Q, Here, Cmd.l), RefSlack(Q, Here, Cmd.l)))
    BY <2>1, WriteGoes
  <2>3. 1 + RefLen(Q, Here, Cmd.l) \in Nat /\ RefSlack(Q, Here, Cmd.l) \in Nat BY OperandNat
  <2>4. Write(1 + OperandLen(Cmd.l)) /\ Running("ref") BY <1>4 DEF Instr
  <2>5. 1 + OperandLen(Cmd.l) \in Nat BY DEF OperandLen, LenForLabel
  <2>6. Here.cur.r > 0 => 1 + RefLen(Q, Here, Cmd.l) = 1 + OperandLen(Cmd.l) BY <2>4, OperandIs
  <2>. QED BY <1>2, <2>2, <2>3, <2>4, <2>5, <2>6
<1>. QED BY <1>3, <1>4

\* Every byte of a freespace has been counted for it.
LEMMA BytesKept ==
  ASSUME TypeOK, TypeOK', OnCourse, AtHome, LabelsKnown, Ordinary, BytesCounted, Onward, Through
  PROVE  BytesCounted'
<1>1. /\ Here \in Point /\ Sound(Here) /\ Here' \in Point /\ Sound(Here') /\ Here.cur \in Frame
      /\ Here' = After(Q, Here, Cmd) /\ Cmd \in Command /\ pass' = pass /\ pass \in {0, 1, 2}
      /\ freespaceidnext = Here.next /\ Here.cur.off \in Nat /\ Here'.cur.off \in Nat
  <2>1. Here \in Point /\ Sound(Here) /\ Here.cur \in Frame BY FramePos
  <2>2. /\ Here' \in Point /\ Sound(Here') /\ Here' = After(Q, Here, Cmd) /\ Cmd \in Command
    BY HereMoves
  <2>3. pass' = pass /\ pass \in {0, 1, 2} /\ freespaceidnext = Here.next
    BY DEF OnCourse, Onward, TypeOK
  <2>4. Here.cur.off \in Nat BY <2>1, PointParts
  <2>5. Here'.cur.off \in Nat BY <2>2, PointParts
  <2>. QED BY <2>1, <2>2, <2>3, <2>4, <2>5
<1>2. ~(Db \/ Instr) => written' = written
  BY DEF Through, Org, Base, BaseOff, Label, FreespaceMeasure, FreespaceAllocate, FreespaceResize,
         PushPc, PullPc, output
<1>3. CASE pass # 2
  <2>1. pass < 2 BY <1>1, <1>3
  <2>2. written' = written BY <1>2, <1>3 DEF Db, Instr, Write
  <2>. QED BY <1>1, <2>1, <2>2 DEF BytesCounted
<1>4. CASE pass = 2
  <2>1. freespacepos' = freespacepos BY <1>4, PosStays DEF FreespaceAllocate
  <2>2. SUFFICES ASSUME NEW w \in written', w.fs > 0 PROVE Counted(w)'
    BY <1>1, <1>4 DEF BytesCounted
  <2>3. w.fs \in Ids /\ w.addr \in Int /\ freespacepos[w.fs].addr \in Int /\ w.fs \in Int
    <3>1. w.fs \in Ids \cup {-1, 0} /\ w.addr \in Int BY <2>2 DEF TypeOK
    <3>2. w.fs \in Ids BY <2>2, <3>1
    <3>3. freespacepos[w.fs] \in Pos BY <3>2 DEF TypeOK
    <3>. QED BY <3>1, <3>2, <3>3 DEF Pos, Ids
  <2> DEFINE d == w.addr - freespacepos[w.fs].addr
  <2>4. d \in Int BY <2>3
  <2>5. CASE w \notin written
    <3>1. Db \/ Instr BY <1>2, <2>5
    <3>2. /\ w.fs = Here.cur.r /\ w.fs = Here'.cur.r
          /\ freespacestart.addr + Here.cur.off <= w.addr
          /\ w.addr < freespacestart.addr + Here'.cur.off
      BY <1>4, <2>2, <2>5, <3>1, NewBytes
    <3>3. freespacestart = freespacepos[w.fs] BY <1>4, <2>2, <3>2 DEF AtHome
    <3>4. 0 <= d /\ d < Here'.cur.off BY <1>1, <2>3, <3>2, <3>3
    <3>5. w.fs \notin Here'.done /\ \A k \in DOMAIN Here'.open : Here'.open[k].r > 0 => Here'.open[k].r # w.fs
      BY <1>1, <2>2, <3>2 DEF Sound
    <3>6. w.fs < freespaceidnext' BY <1>1, <2>2, <3>1, <3>2, QuietGoes DEF Sound
    <3>. QED BY <2>1, <2>2, <3>4, <3>5, <3>6 DEF Counted
  <2>6. CASE w \in written
    <3>1. Counted(w) BY <1>4, <2>2, <2>6 DEF BytesCounted
    <3>2. /\ w.fs < freespaceidnext /\ 0 <= d
          /\ w.fs \in Here.done => d < Here.len[w.fs]
          /\ w.fs = Here.cur.r => d < Here.cur.off
          /\ \A k \in DOMAIN Here.open : w.fs = Here.open[k].r => d < Here.open[k].off
      BY <3>1 DEF Counted
    <3>3. w.fs \in Here'.done => d < Here'.len[w.fs]
      <4>1. Later(Here, Here') BY <1>1, AfterLater
      <4>2. w.fs \in Here.done => d < Here'.len[w.fs] BY <3>2, <4>1 DEF Later
      <4>3. ASSUME w.fs \in Here'.done, w.fs \notin Here.done PROVE d < Here'.len[w.fs]
        <5>1. Leaving(Here, Cmd) BY <1>1, <4>3, Leaves
        <5>2. Here'.done = DoneAfter(Here) /\ Here'.len = LenAfter(Here) BY <1>1, <5>1, Leaves
        <5>3. Here.cur.r > 0 /\ w.fs = Here.cur.r BY <4>3, <5>2 DEF DoneAfter
        <5>4. Here'.len[w.fs] = Total(Here.cur) BY <1>1, <5>2, <5>3, LaterLen
        <5>5. d < Here.cur.off /\ Here.cur.extra \in Nat BY <1>1, <3>2, <5>3, PointParts
        <5>. HIDE DEF d
        <5>. QED BY <1>1, <2>4, <5>4, <5>5 DEF Total
      <4>. QED BY <4>2, <4>3
    <3>4. ASSUME w.fs < freespaceidnext', w.fs = Here'.cur.r => d < Here'.cur.off,
                 \A k \in DOMAIN Here'.open : w.fs = Here'.open[k].r => d < Here'.open[k].off
          PROVE  Counted(w)'
      BY <2>1, <3>2, <3>3, <3>4 DEF Counted
    <3>. HIDE DEF d
    <3>5. CASE Org
      <4>1. Cmd.op = "org" /\ freespaceidnext' = freespaceidnext BY <3>5 DEF Org, Running, Cmd
      <4>2. Here' = Left(Here, Outside, Here.open, Here.next) BY <1>1, <4>1, AfterIs
      <4>3. Here'.cur.r = 0 /\ Here'.open = Here.open BY <4>2 DEF Left, Outside
      <4>. QED BY <2>2, <3>2, <3>4, <4>1, <4>3
    <3>6. CASE Base \/ BaseOff \/ Db \/ Instr \/ Label
      <4>1. ASSUME w.fs = Here'.cur.r PROVE d < Here'.cur.off
        <5>1. w.fs = Here.cur.r /\ Here.cur.off <= Here'.cur.off BY <2>2, <3>6, <4>1, QuietGoes
        <5>. QED BY <1>1, <2>4, <3>2, <5>1
      <4>. QED BY <3>2, <3>4, <3>6, <4>1, QuietGoes
    <3>7. CASE FreespaceMeasure \/ FreespaceAllocate \/ FreespaceResize
      <4>1. TakeId BY <3>7 DEF FreespaceMeasure, FreespaceAllocate, FreespaceResize
      <4>2. Here'.cur.r = freespaceidnext /\ Here'.open = Here.open BY <1>1, <4>1, FreespaceGoes DEF Left
      <4>3. freespaceidnext' = freespaceidnext + 1 /\ freespaceidnext \in Int
        BY <1>1, <4>1, PointParts DEF TakeId
      <4>4. w.fs # Here'.cur.r /\ w.fs < freespaceidnext' BY <2>3, <3>2, <4>2, <4>3
      <4>. QED BY <3>2, <3>4, <4>2, <4>4
    <3>8. CASE PushPc
      <4>1. Here'.cur.r = -1 BY <3>8, PushGoes DEF Lost
      <4>2. w.fs # Here'.cur.r BY <2>2, <2>3, <4>1
      <4>3. \A k \in DOMAIN Here'.open : w.fs = Here'.open[k].r => d < Here'.open[k].off
        BY <3>2, <3>8, PushGoes
      <4>4. freespaceidnext' = freespaceidnext BY <3>8, PushGoes
      <4>. QED BY <3>2, <3>4, <4>2, <4>3, <4>4
    <3>9. CASE PullPc
      <4>1. \A k \in DOMAIN Here'.open : w.fs = Here'.open[k].r => d < Here'.open[k].off
        BY <3>2, <3>9, PullGoes
      <4>2. w.fs = Here'.cur.r => d < Here'.cur.off BY <3>2, <3>9, PullGoes
      <4>3. freespaceidnext' = freespaceidnext BY <3>9, PullGoes
      <4>. QED BY <3>2, <3>4, <4>1, <4>2, <4>3
    <3>. QED BY <3>5, <3>6, <3>7, <3>8, <3>9 DEF Through
  <2>. QED BY <2>5, <2>6
<1>. QED BY <1>3, <1>4

\* Every command that goes through keeps the invariant.
LEMMA PlanGoes ==
  ASSUME TypeOK, TypeOK', OwnInv, PlanInv, Ordinary, Onward, Through
  PROVE  PlanInv'
<1>1. /\ OnCourse /\ AtHome /\ LabelsKnown /\ Measured /\ LabelsPlaced
      /\ Enough /\ BlocksApart /\ BlocksHeld /\ BytesCounted
  BY DEF PlanInv, Onward
<1>2. BaseIsClosed /\ SignsStayInside BY DEF Ordinary
<1>3. OnCourse' BY <1>1, CourseKept
<1>4. AtHome' BY <1>1, <1>3, AtHomeKept
<1>5. LabelsKnown' BY <1>1, LabelsKept
<1>6. Measured' BY <1>1, <1>2, MeasuredKept
<1>7. LabelsPlaced' BY <1>1, PlacedKept
<1>8. Enough' BY <1>1, <1>2, EnoughKept
<1>9. BlocksApart' /\ BlocksHeld' BY <1>1, <1>2, BlocksKept
<1>10. BytesCounted' BY <1>1, BytesKept
<1>. QED BY <1>3, <1>4, <1>5, <1>6, <1>7, <1>8, <1>9, <1>10 DEF PlanInv

\* At the end of the first two passes nothing is left open.
LEMMA LensAtEnd ==
  ASSUME TypeOK, NEW i \in Ids, i < End0.next, NEW e \in {End0, End1}, End0.open = << >>
  PROVE  \/ i \in e.done /\ LenAfter(e)[i] = e.len[i] /\ i # e.cur.r
         \/ i = e.cur.r /\ e.cur.r > 0 /\ LenAfter(e)[i] = Total(e.cur)
<1>1. End0 \in Point /\ Sound(End0) /\ End1 \in Point /\ Sound(End1) /\ Alike(End0, End1) BY Courses
<1>2. e \in Point /\ Sound(e) /\ e.next = End0.next BY <1>1 DEF Alike
<1>3. e.open = << >>
  <2>1. Len(End0.open) = 0 /\ End1.open \in Seq(Frame) BY <1>1, PointParts
  <2>2. Len(End1.open) = 0 BY <1>1, <2>1 DEF Alike
  <2>3. End1.open = << >> BY <2>1, <2>2
  <2>. QED BY <2>3
<1>4. i \in e.done \/ i = e.cur.r BY <1>2, <1>3 DEF Sound
<1>5. CASE i = e.cur.r
  <2>1. e.cur.r > 0 BY <1>5 DEF Ids
  <2>. QED BY <1>2, <1>5, <2>1, LaterLen
<1>6. CASE i # e.cur.r
  BY <1>2, <1>4, <1>6, LaterLen
<1>. QED BY <1>5, <1>6

\* What finishpass finds.
LEMMA AtEnd ==
  ASSUME TypeOK, FinishPass, PlanInv, Ordinary, ~errored'
  PROVE  /\ ~errored /\ pass \in {0, 1, 2} /\ pass' = pass + 1 /\ prog' = prog /\ ip = Len(prog) + 1
         /\ Ends /\ BaseIsClosed /\ freespacelen' = Ended
         /\ OnCourse /\ AtHome /\ LabelsKnown /\ Measured /\ LabelsPlaced
         /\ Enough /\ BlocksApart /\ BlocksHeld /\ BytesCounted
         /\ End0' = End0 /\ End1' = End1 /\ Len0' = Len0 /\ Len1' = Len1
         /\ Here = (IF pass = 0 THEN End0 ELSE End1) /\ ~End0.bad /\ End0.open = << >>
         /\ freespaceidnext = End0.next
         /\ Len0 \in [Ids -> Nat] /\ Len1 \in [Ids -> Nat]
<1>1. /\ ~errored /\ pass \in {0, 1, 2} /\ pass' = pass + 1 /\ prog' = prog /\ ip = Len(prog) + 1
      /\ freespacelen' = Ended /\ (pass = 0 => pushpc = << >>)
  <2>1. /\ pass < 3 /\ pass' = pass + 1 /\ prog' = prog /\ ip = Len(prog) + 1 /\ freespacelen' = Ended
        /\ errored' = (errored \/ (pass = 0 /\ pushpc # << >>))
    BY DEF FinishPass
  <2>2. pass \in {0, 1, 2} BY <2>1 DEF TypeOK
  <2>. QED BY <2>1, <2>2, Zenon
<1>2. pass < 3 BY <1>1
<1>3. /\ OnCourse /\ AtHome /\ LabelsKnown /\ Measured /\ LabelsPlaced
      /\ Enough /\ BlocksApart /\ BlocksHeld /\ BytesCounted
  BY <1>1, <1>2 DEF PlanInv
<1>4. Ends /\ BaseIsClosed BY <1>1, <1>2 DEF Ends, Ordinary
<1>5. End0' = End0 /\ End1' = End1 BY <1>1 DEF End0, End1
<1>6. Len0' = Len0 /\ Len1' = Len1 BY <1>5 DEF Len0, Len1
<1>7. Here = IF pass = 0 THEN End0 ELSE End1 BY <1>1 DEF Here, End0, End1
<1>8. End0 \in Point /\ End1 \in Point /\ Alike(End0, End1) BY Courses
<1>9. ~End0.bad /\ End0.open = << >>
  <2>1. CASE pass = 0
    <3>1. ~End0.bad BY <1>3, <1>7, <2>1 DEF LabelsKnown
    <3>2. Len(End0.open) = Len(pushpc) /\ pushpc = << >> BY <1>1, <1>3, <1>7, <2>1 DEF OnCourse
    <3>3. End0.open \in Seq(Frame) BY <1>8, PointParts
    <3>. QED BY <3>1, <3>2, <3>3
  <2>2. CASE pass # 0 BY <1>3, <2>2 DEF LabelsKnown
  <2>. QED BY <2>1, <2>2
<1>10. freespaceidnext = End0.next BY <1>3, <1>7, <1>8 DEF OnCourse, Alike
<1>11. Len0 \in [Ids -> Nat] /\ Len1 \in [Ids -> Nat] BY <1>8, MeasureType DEF Len0, Len1
<1>. QED BY <1>1, <1>3, <1>4, <1>5, <1>6, <1>7, <1>9, <1>10, <1>11

\* freespaceend completes the lengths of pass 0 and pass 1.
LEMMA LensComplete ==
  ASSUME TypeOK, OwnInv, FinishPass, PlanInv, Ordinary, ~errored', NEW i \in Ids, i < End0.next
  PROVE  freespacelen'[i] = (IF pass = 0 THEN Len0[i] ELSE Len1[i])
<1>1. /\ ~errored /\ pass \in {0, 1, 2} /\ Ends /\ BaseIsClosed /\ freespacelen' = Ended
      /\ OnCourse /\ Measured /\ ip = Len(prog) + 1
      /\ Here = (IF pass = 0 THEN End0 ELSE End1) /\ End0.open = << >>
  BY AtEnd
<1>2. freespacelen \in [Ids -> Int] BY DEF TypeOK
<1>3. LenAfter(Here)[i] = IF pass = 0 THEN Len0[i] ELSE Len1[i] BY <1>1 DEF Len0, Len1
<1>4. Here \in {End0, End1} BY <1>1
<1>5. CASE i \in Here.done /\ LenAfter(Here)[i] = Here.len[i] /\ i # Here.cur.r
  <2>1. Ended[i] = freespacelen[i]
    <3>1. CASE Here.cur.r > 0 BY <1>1, <1>2, <1>5, <3>1, EndedIs
    <3>2. CASE ~(Here.cur.r > 0) BY <1>1, <3>2, EndedIs
    <3>. QED BY <3>1, <3>2
  <2>2. CASE pass < 2
    <3>1. freespacelen[i] = Here.len[i] BY <1>1, <1>5, <2>2 DEF Measured
    <3>. QED BY <1>1, <1>3, <1>5, <2>1, <3>1
  <2>3. CASE pass = 2
    <3>1. freespacelen[i] = Len1[i] BY <1>1, <2>3 DEF Measured
    <3>. QED BY <1>1, <2>1, <2>3, <3>1
  <2>. QED BY <1>1, <2>2, <2>3
<1>6. CASE i = Here.cur.r /\ Here.cur.r > 0 /\ LenAfter(Here)[i] = Total(Here.cur)
  <2>1. Ended[i] = Total(Here.cur) BY <1>1, <1>2, <1>6, EndedIs
  <2>. QED BY <1>1, <1>3, <1>6, <2>1
<1>. QED BY <1>1, <1>4, <1>5, <1>6, LensAtEnd

\* initstuff goes back to the beginning.
LEMMA Restart ==
  ASSUME TypeOK, FinishPass, PlanInv, Ordinary, ~errored', pass < 2
  PROVE  /\ Here' = Begin(End0.where) /\ pass' \in {1, 2} /\ freespaceidnext' = 1
         /\ OnCourse' /\ AtHome' /\ LabelsKnown'
<1>1. /\ pass' = pass + 1 /\ pass \in {0, 1} /\ prog' = prog /\ LabelsKnown
      /\ End0' = End0 /\ ~End0.bad /\ End0.open = << >>
      /\ Here = (IF pass = 0 THEN End0 ELSE End1)
  BY AtEnd
<1>2. /\ ip' = 1 /\ freespaceidnext' = 1 /\ pushpc' = << >> /\ labels' = labels
      /\ snespos' = Unset /\ realsnespos' = Unset
  BY <1>1 DEF FinishPass, FreshPositions
<1>3. prog \in Seq(Command) /\ Len(prog) \in Nat /\ Len(prog) + 1 \in 1 .. Len(prog) + 1 BY DEF TypeOK
<1>4. pass' \in {1, 2} /\ pass' # 0 BY <1>1
<1>5. Here' = Begin(End0.where)
  <2>1. Here' = Second(prog)[1] BY <1>1, <1>2, <1>4 DEF Here
  <2>. QED BY <1>3, <2>1, SecondCourse DEF End0
<1>6. /\ Here'.cur = Lost /\ Here'.open = << >> /\ Here'.next = 1 /\ Here'.done = {} /\ Here'.where = End0.where
  BY <1>5 DEF Begin
<1>7. OnCourse'
  <2>1. Follows(Lost, snespos', realsnespos', freespacestart', freespaceextra')
    BY <1>2 DEF Follows, Lost, Unset, At
  <2>. QED BY <1>2, <1>6, <2>1 DEF OnCourse
<1>8. AtHome'
  <2>1. Here'.cur.r = -1 BY <1>6 DEF Lost
  <2>. QED BY <1>2, <1>6, <2>1 DEF AtHome
<1>9. Here.where = End0.where
  <2>1. Second(prog)[Len(prog) + 1].where = End0.where BY <1>3, Courses
  <2>. QED BY <1>1, <2>1 DEF End1
<1>10. LabelsKnown' BY <1>1, <1>2, <1>4, <1>6, <1>9 DEF LabelsKnown
<1>. QED BY <1>2, <1>4, <1>5, <1>7, <1>8, <1>10

\* What pass 0 measured covers what pass 1 measured.
LEMMA LensSettle ==
  ASSUME TypeOK, FinishPass, PlanInv, Ordinary, ~errored', pass = 1, NEW i \in Ids, i < End0.next
  PROVE  Len1[i] <= Len0[i]
<1>1. Enough /\ ip = Len(prog) + 1 /\ End0.open = << >> BY AtEnd
<1>2. Covers(End0, End1) BY <1>1, pass = 1 DEF Enough, End0, End1
<1>3. Alike(End0, End1) BY Courses
<1>4. \/ i \in End0.done /\ Len0[i] = End0.len[i] /\ i # End0.cur.r
      \/ i = End0.cur.r /\ Len0[i] = Total(End0.cur)
  BY <1>1, LensAtEnd DEF Len0
<1>5. \/ i \in End1.done /\ Len1[i] = End1.len[i] /\ i # End1.cur.r
      \/ i = End1.cur.r /\ Len1[i] = Total(End1.cur)
  BY <1>1, LensAtEnd DEF Len1
<1>. QED BY <1>2, <1>3, <1>4, <1>5 DEF Covers, Alike

\* The end of a pass keeps the invariant.
LEMMA PlanEnds ==
  ASSUME TypeOK, TypeOK', OwnInv, PlanInv, Ordinary, FinishPass, ~errored'
  PROVE  PlanInv'
<1>1. /\ ~errored /\ pass \in {0, 1, 2} /\ pass' = pass + 1 /\ prog' = prog /\ ip = Len(prog) + 1
      /\ OnCourse /\ AtHome /\ LabelsKnown /\ Measured /\ LabelsPlaced
      /\ Enough /\ BlocksApart /\ BlocksHeld /\ BytesCounted
      /\ End0' = End0 /\ End1' = End1 /\ Len0' = Len0 /\ Len1' = Len1
      /\ Here = (IF pass = 0 THEN End0 ELSE End1) /\ End0.open = << >>
      /\ freespaceidnext = End0.next
  BY AtEnd
<1>2. blocks' = blocks /\ freespacepos' = freespacepos /\ written' = written /\ labels' = labels
  BY DEF FinishPass, output
<1>3. BlocksApart' BY <1>1, <1>2 DEF BlocksApart, Extent
<1>4. \A i \in Ids : i \in Int /\ ~(i < 1) BY DEF Ids
<1>5. CASE pass < 2
  <2>1. /\ Here' = Begin(End0.where) /\ pass' \in {1, 2} /\ freespaceidnext' = 1
        /\ OnCourse' /\ AtHome' /\ LabelsKnown'
    BY <1>5, Restart
  <2>2. Here'.done = {} BY <2>1 DEF Begin
  <2>3. ip' = 1 BY <1>5 DEF FinishPass
  <2>4. BytesCounted'
    <3>1. written' = {} BY <1>1, <1>2, <1>5 DEF BytesCounted
    <3>. QED BY <2>1, <3>1 DEF BytesCounted
  <2>5. CASE pass = 0
    <3>1. pass' = 1 BY <1>1, <2>5
    <3>2. \A i \in Ids : i < End0.next => freespacelen'[i] = Len0[i] BY <2>5, LensComplete
    <3>3. Measured' BY <1>1, <2>2, <3>1, <3>2 DEF Measured
    <3>4. LabelsPlaced'
      <4>1. \A i \in 1 .. Len(prog) : ~(i < 1) OBVIOUS
      <4>. QED BY <1>1, <2>3, <3>1, <4>1 DEF LabelsPlaced
    <3>5. Enough'
      <4>1. /\ First(prog)[1] = Begin([l \in LabelNames |-> -1])
            /\ Second(prog)[1] = Begin(End0.where)
        BY FirstCourse, SecondCourse DEF End0, TypeOK
      <4>2. Total(Lost) <= Total(Lost) BY DEF Total, Lost
      <4>3. Covers(First(prog)[1], Second(prog)[1]) BY <4>1, <4>2 DEF Covers, Begin
      <4>. QED BY <1>1, <2>3, <3>1, <4>3 DEF Enough
    <3>6. BlocksHeld'
      <4>1. \A i \in Ids : ~(i < freespaceidnext') BY <1>4, <2>1
      <4>2. \A i \in Ids : ~Allocated(i)' BY <3>1, <4>1 DEF Allocated
      <4>. QED BY <3>1, <4>1, <4>2 DEF BlocksHeld
    <3>. QED BY <1>3, <2>1, <2>4, <3>1, <3>3, <3>4, <3>5, <3>6 DEF PlanInv
  <2>6. CASE pass = 1
    <3>1. pass' = 2 BY <1>1, <2>6
    <3>2. \A i \in Ids : i < End0.next => freespacelen'[i] = Len1[i] BY <2>6, LensComplete
    <3>3. Measured' BY <1>1, <3>1, <3>2 DEF Measured
    <3>4. LabelsPlaced'
      <4>1. \A i \in 1 .. Len(prog) : i < ip BY <1>1
      <4>. QED BY <1>1, <1>2, <2>6, <3>1, <4>1 DEF LabelsPlaced
    <3>5. \A i \in Ids : i < End0.next => Len1[i] <= Len0[i] BY <2>6, LensSettle
    <3>6. Enough' BY <1>1, <3>1, <3>5 DEF Enough
    <3>7. BlocksHeld'
      <4>1. \A i \in Ids : ~(i < freespaceidnext') BY <1>4, <2>1
      <4>2. \A i \in Ids : i < End0.next => Has(i, Len0[i])' BY <1>1, <1>2, <2>6 DEF BlocksHeld, Has
      <4>3. \A i \in Ids : Allocated(i)' => Allocated(i) BY <1>1, <2>6, <3>1 DEF Allocated
      <4>4. \A i, j \in Ids : (Allocated(i) /\ Allocated(j) /\ i # j
              /\ freespacepos[i].addr = freespacepos[j].addr)' => freespacepos'[i].addr = ZeroPos
        <5>1. \A i, j \in Ids : Allocated(i) /\ Allocated(j) /\ i # j
                /\ freespacepos[i].addr = freespacepos[j].addr => freespacepos[i].addr = ZeroPos
          BY <1>1, <2>6 DEF BlocksHeld
        <5>. QED BY <1>2, <4>3, <5>1
      <4>. QED BY <1>1, <3>1, <4>1, <4>2, <4>4 DEF BlocksHeld
    <3>. QED BY <1>3, <2>1, <2>4, <3>1, <3>3, <3>4, <3>6, <3>7 DEF PlanInv
  <2>. QED BY <1>1, <1>5, <2>5, <2>6
<1>6. CASE pass = 2
  <2>1. pass' = 3 BY <1>1, <1>6
  <2>2. Enough' BY <1>1, <1>6, <2>1 DEF Enough
  <2>3. BlocksHeld'
    <3>1. \A i \in Ids : i < End0.next => HasRoom(i, Len1[i])' BY <1>1, <1>2, <1>6 DEF BlocksHeld, HasRoom
    <3>2. \A i, j \in Ids : (Allocated(i) /\ Allocated(j) /\ i # j
            /\ freespacepos[i].addr = freespacepos[j].addr)' => freespacepos'[i].addr = ZeroPos
      BY <1>1, <1>2, <1>6, <2>1 DEF BlocksHeld, Allocated
    <3>. QED BY <1>1, <2>1, <3>1, <3>2 DEF BlocksHeld
  <2>4. BytesCounted'
    <3>1. ASSUME NEW w \in written, w.fs > 0
          PROVE  w.fs < End0.next /\ w.addr - freespacepos[w.fs].addr \in 0 .. Len1[w.fs] - 1
      <4> DEFINE d == w.addr - freespacepos[w.fs].addr
      <4>1. w.fs \in Ids /\ d \in Int
        <5>1. w.fs \in Ids \cup {-1, 0} /\ w.addr \in Int BY DEF TypeOK
        <5>2. w.fs \in Ids BY <3>1, <5>1
        <5>3. freespacepos[w.fs] \in Pos BY <5>2 DEF TypeOK
        <5>. QED BY <5>1, <5>2, <5>3 DEF Pos
      <4>2. Counted(w) /\ Here = End1 BY <1>1, <1>6, <3>1 DEF BytesCounted
      <4>3. /\ w.fs < End0.next /\ 0 <= d
            /\ w.fs \in End1.done => d < End1.len[w.fs]
            /\ w.fs = End1.cur.r => d < End1.cur.off
        BY <1>1, <4>2 DEF Counted
      <4>. HIDE DEF d
      <4>4. /\ End1 \in Point /\ End1.cur.off \in Nat /\ End1.cur.extra \in Nat /\ Len1 \in [Ids -> Nat]
        <5>1. End1 \in Point BY Courses
        <5>. QED BY <5>1, PointParts, MeasureType DEF Len1
      <4>5. d < Len1[w.fs]
        <5>1. CASE w.fs \in End1.done /\ Len1[w.fs] = End1.len[w.fs] BY <4>3, <5>1
        <5>2. CASE w.fs = End1.cur.r /\ Len1[w.fs] = Total(End1.cur)
          BY <4>1, <4>3, <4>4, <5>2 DEF Total
        <5>. QED BY <1>1, <4>1, <4>3, <5>1, <5>2, LensAtEnd DEF Len1
      <4>6. Len1[w.fs] \in Nat BY <4>1, <4>4
      <4>7. d \in 0 .. Len1[w.fs] - 1 BY <4>1, <4>3, <4>5, <4>6
      <4>. QED BY <4>3, <4>7 DEF d
    <3>. QED BY <1>1, <1>2, <2>1, <3>1 DEF BytesCounted
  <2>. QED BY <1>3, <2>1, <2>2, <2>3, <2>4 DEF PlanInv
<1>. QED BY <1>1, <1>5, <1>6

LEMMA PlanInit == Init => PlanInv
<1>1. SUFFICES ASSUME Init PROVE PlanInv OBVIOUS
<1>2. /\ ip = 1 /\ pass = 0 /\ labels = << >> /\ freespaceidnext = 1 /\ pushpc = << >>
      /\ snespos = Unset /\ realsnespos = Unset /\ blocks = {} /\ written = {}
      /\ prog \in Seq(Command)
  BY <1>1, PassesAssumption DEF Init
<1>3. Here = Begin([l \in LabelNames |-> -1]) BY <1>2, FirstCourse DEF Here
<1>4. /\ Here.cur = Lost /\ Here.open = << >> /\ Here.next = 1 /\ Here.done = {}
      /\ Here.where = [l \in LabelNames |-> -1] /\ Here.bad = FALSE
  BY <1>3 DEF Begin
<1>5. OnCourse
  <2>1. Follows(Lost, snespos, realsnespos, freespacestart, freespaceextra)
    BY <1>2 DEF Follows, Lost, Unset, At
  <2>. QED BY <1>2, <1>4, <2>1 DEF OnCourse
<1>6. AtHome /\ LabelsPlaced /\ Enough BY <1>2 DEF AtHome, LabelsPlaced, Enough
<1>7. LabelsKnown BY <1>2, <1>4 DEF LabelsKnown
<1>8. Measured BY <1>2, <1>4 DEF Measured
<1>9. BlocksApart /\ BlocksHeld /\ BytesCounted BY <1>2 DEF BlocksApart, BlocksHeld, BytesCounted
<1>. QED BY <1>5, <1>6, <1>7, <1>8, <1>9 DEF PlanInv

LEMMA PlanStays == PlanInv /\ UNCHANGED vars => PlanInv'
<1>1. SUFFICES ASSUME PlanInv, UNCHANGED vars, ~errored PROVE PlanInv'
  BY DEF PlanInv, vars
<1>2. /\ prog' = prog /\ ip' = ip /\ pass' = pass /\ labels' = labels /\ pushpc' = pushpc
      /\ snespos' = snespos /\ realsnespos' = realsnespos
      /\ freespaceidnext' = freespaceidnext /\ freespacestart' = freespacestart
      /\ freespaceextra' = freespaceextra /\ freespacelen' = freespacelen
      /\ freespacepos' = freespacepos /\ blocks' = blocks /\ written' = written
  BY <1>1 DEF vars, position, freespace, output
<1>3. Here' = Here /\ End0' = End0 /\ End1' = End1 BY <1>2 DEF Here, End0, End1
<1>4. Len0' = Len0 /\ Len1' = Len1 BY <1>3 DEF Len0, Len1
<1>5. /\ OnCourse => OnCourse'
      /\ AtHome => AtHome'
      /\ LabelsKnown => LabelsKnown'
  BY <1>2, <1>3 DEF OnCourse, AtHome, LabelsKnown
<1>6. /\ Measured => Measured'
      /\ LabelsPlaced => LabelsPlaced'
      /\ Enough => Enough'
  BY <1>2, <1>3, <1>4 DEF Measured, LabelsPlaced, Enough
<1>7. /\ BlocksApart => BlocksApart'
      /\ BlocksHeld => BlocksHeld'
      /\ BytesCounted => BytesCounted'
  BY <1>2, <1>3, <1>4 DEF BlocksApart, Extent, BlocksHeld, Allocated, Has, HasRoom, BytesCounted, Counted
<1>. QED BY <1>1, <1>2, <1>5, <1>6, <1>7 DEF PlanInv

LEMMA PlanNext == TypeOK /\ TypeOK' /\ OwnInv /\ PlanInv /\ Ordinary /\ [Next]_vars => PlanInv'
<1>1. SUFFICES ASSUME TypeOK, TypeOK', OwnInv, PlanInv, Ordinary, Next, ~errored' PROVE PlanInv'
  BY PlanStays DEF PlanInv
<1>2. FinishPass \/ (Through /\ Onward) BY <1>1, WentThrough
<1>. QED BY <1>1, <1>2, PlanEnds, PlanGoes

LEMMA PlanHolds == Spec /\ []Ordinary => [](TypeOK /\ OwnInv /\ PlanInv)
<1>1. Init => TypeOK /\ OwnInv /\ PlanInv BY TypeInit, OwnInit, PlanInit
<1>2. TypeOK /\ OwnInv /\ PlanInv /\ Ordinary /\ [Next]_vars => (TypeOK /\ OwnInv /\ PlanInv)'
  BY TypeNext, OwnNext, PlanNext
<1>. QED BY <1>1, <1>2, PTL DEF Spec

(***************************************************************************)
(* The blocks of an ordinary program never overlap, whatever the finder    *)
(* answers and although pass 2 resizes a block without a look at what      *)
(* follows it.                                                             *)
(***************************************************************************)
THEOREM BlocksStayDisjoint == Spec /\ []Ordinary => []BlocksDisjoint
<1>1. PlanInv => BlocksDisjoint BY DEF PlanInv, BlocksApart, BlocksDisjoint
<1>. QED BY <1>1, PlanHolds, PTL

(***************************************************************************)
(* Pass 1 never finds a freespace of an ordinary program longer than pass  *)
(* 0 did, and pass 2 finds it as long as pass 1 did.                       *)
(***************************************************************************)
THEOREM LengthsDoSettle == Spec /\ []Ordinary => LengthsSettle
<1>1. ASSUME TypeOK, OwnInv, PlanInv, Ordinary, [Next]_vars
      PROVE  [pass > 0 /\ ~errored' => \A i \in Ids :
                /\ freespacelen'[i] <= freespacelen[i]
                /\ pass = 2 => freespacelen'[i] = freespacelen[i]]_vars
  <2>1. SUFFICES ASSUME Next, pass > 0, ~errored', NEW i \in Ids
                 PROVE  /\ freespacelen'[i] <= freespacelen[i]
                        /\ pass = 2 => freespacelen'[i] = freespacelen[i]
    BY <1>1
  <2>2. freespacelen[i] \in Int BY <1>1 DEF TypeOK
  <2>3. ~errored /\ pass < 3 /\ (FinishPass \/ (Through /\ Onward)) BY <1>1, <2>1, WentThrough
  <2>4. OnCourse /\ Measured /\ Enough /\ BaseIsClosed BY <1>1, <2>3 DEF PlanInv, Ordinary
  <2>5. CASE FinishPass
    <3>1. freespacelen' = Ended /\ ip = Len(prog) + 1 BY <2>5 DEF FinishPass
    <3>2. Ends BY <2>3, <3>1 DEF Ends
    <3>. QED BY <1>1, <2>1, <2>4, <3>1, <3>2, EndedSettles
  <2>6. CASE Through /\ Onward
    <3>1. CASE Leaving(Here, Cmd)
      <4>1. Ends /\ freespacelen' = Ended BY <1>1, <2>4, <2>6, <3>1, LenMoves
      <4>. QED BY <1>1, <2>1, <2>4, <3>1, <4>1, EndedSettles
    <3>2. CASE ~Leaving(Here, Cmd)
      <4>1. freespacelen' = freespacelen BY <1>1, <2>4, <2>6, <3>2, LenMoves
      <4>. QED BY <2>2, <4>1
    <3>. QED BY <3>1, <3>2
  <2>. QED BY <2>3, <2>5, <2>6
<1>. QED BY <1>1, PlanHolds, PTL DEF Spec, LengthsSettle

(***************************************************************************)
(* Every label of a freespace of an ordinary program is in pass 2 where    *)
(* pass 1 put it.                                                          *)
(***************************************************************************)
THEOREM LabelsDoStay == Spec /\ []Ordinary => LabelsStay
<1>1. ASSUME TypeOK, OwnInv, PlanInv, [Next]_vars
      PROVE  [~errored => \A p \in placed' \ placed : p.pos.fs > 0 => labels[p.l] = p.pos]_vars
  <2>1. SUFFICES ASSUME Next, ~errored, NEW p \in placed', p \notin placed, p.pos.fs > 0
                 PROVE  labels[p.l] = p.pos
    BY <1>1
  <2>2. Label
    BY <2>1 DEF Next, Org, Base, BaseOff, Db, Instr, InstrUnknown, FreespaceMeasure, FreespaceAllocate,
                FreespaceResize, FreespaceFull, FreespaceLimit, PushPc, PullPc, PullPcEmpty, FinishPass, output
  <2>3. /\ pass = 2 /\ placed' = placed \cup {[l |-> Cmd.l, pos |-> Verified(snespos)]}
        /\ Cmd.op = "label" /\ ip <= Len(prog)
    BY <2>1, <2>2 DEF Label, Running, Cmd
  <2>4. p.l = Cmd.l /\ p.pos = Verified(snespos) BY <2>1, <2>3
  <2>5. OnCourse /\ AtHome /\ LabelsPlaced BY <1>1, <2>1, <2>3 DEF PlanInv
  <2> DEFINE f == Second(prog)[ip].cur
  <2>6. Here = Second(prog)[ip] /\ f = Here.cur BY <2>3 DEF Here
  <2>7. ip \in 1 .. Len(prog) /\ prog[ip].op = "label" /\ prog[ip].l = Cmd.l
    BY <1>1, <2>3, Courses DEF Cmd
  <2>8. Checked(f).s > 0 BY <1>1, <2>1, <2>4, <2>5, <2>6, FramePos
  <2>9. Upright(f) /\ f \in Frame BY <1>1, <2>5, <2>6, FramePos
  <2>10. f.s > 0 /\ f.s = f.r /\ f.off \in Nat
    <3>1. f = Checked(f) BY <2>8, <2>9, 0 \in Nat, SoundChecked
    <3>. QED BY <2>8, <2>9, <3>1 DEF Upright, Frame
  <2>11. Verified(snespos) = snespos
    <3>1. ~(f.s = -1 \/ f.r = -1) BY <2>10
    <3>. QED BY <1>1, <2>5, <2>6, <3>1, FramePos DEF Verified
  <2>12. snespos.fs = f.s /\ snespos.addr = freespacestart.addr + f.off /\ snespos \in Pos
    BY <1>1, <2>5, <2>6, <2>10 DEF OnCourse, Follows, TypeOK
  <2>13. freespacestart = freespacepos[f.s] BY <2>3, <2>5, <2>6, <2>10 DEF AtHome
  <2>14. snespos = At(f.s, freespacepos[f.s].addr + f.off) BY <2>12, <2>13 DEF At, Pos
  <2>15. labels[Cmd.l] = At(f.s, freespacepos[f.s].addr + f.off)
    BY <2>3, <2>5, <2>7, <2>10 DEF LabelsPlaced
  <2>. QED BY <2>4, <2>11, <2>14, <2>15
<1>. QED BY <1>1, PlanHolds, PTL DEF Spec, LabelsStay

(***************************************************************************)
(* The bytes of an ordinary program that leaves the free area alone are    *)
(* inside of blocks, and the tags of these are as they were written.       *)
(***************************************************************************)
THEOREM BytesAreProtected == Spec /\ []Ordinary /\ []FreeAreaFree => []BytesProtected
<1>1. ASSUME TypeOK, PlanInv, FreeAreaFree PROVE BytesProtected
  <2>1. SUFFICES ASSUME Succeeded, NEW w \in written, w.fs > 0
                 PROVE  \E b \in blocks : Intact(b) /\ w.addr \in Content(b)
    BY DEF BytesProtected
  <2>2. BlocksApart /\ BlocksHeld /\ BytesCounted /\ pass = 3 BY <1>1, <2>1 DEF Succeeded, PlanInv
  <2>3. ASSUME NEW v \in written, v.fs > 0 PROVE \E b \in blocks : v.addr \in Content(b)
    <3>1. v.fs \in Ids /\ v.addr \in Int
      <4>1. v.fs \in Ids \cup {-1, 0} /\ v.addr \in Int BY <1>1 DEF TypeOK
      <4>. QED BY <2>3, <4>1
    <3>2. freespacepos[v.fs].addr \in Int BY <1>1, <3>1 DEF TypeOK, Pos
    <3>3. Len1[v.fs] \in Nat
      <4>1. End1 \in Point BY <1>1, Courses
      <4>. QED BY <3>1, <4>1, MeasureType DEF Len1
    <3> DEFINE d == v.addr - freespacepos[v.fs].addr
    <3>4. v.fs < End0.next /\ d \in 0 .. Len1[v.fs] - 1 BY <2>2, <2>3 DEF BytesCounted
    <3>5. HasRoom(v.fs, Len1[v.fs]) BY <2>2, <3>1, <3>4 DEF BlocksHeld
    <3>6. Len1[v.fs] # 0 BY <3>3, <3>4
    <3>7. PICK b \in blocks : b.start = freespacepos[v.fs].addr /\ b.len >= Len1[v.fs]
      BY <3>5, <3>6 DEF HasRoom
    <3>8. b.start \in Nat /\ b.len \in Nat BY <1>1, <2>2, BlockIs
    <3>9. v.addr >= b.start /\ v.addr <= b.start + b.len - 1
      BY <3>1, <3>2, <3>3, <3>4, <3>7, <3>8
    <3>10. v.addr \in Content(b) BY <3>1, <3>8, <3>9 DEF Content
    <3>. QED BY <3>10
  <2>4. ASSUME NEW b \in blocks PROVE Intact(b)
    <3>1. SUFFICES ASSUME NEW v \in written, v.addr \in TagArea(b) PROVE FALSE BY DEF Intact
    <3>2. /\ b.start \in Nat /\ b.len \in Nat /\ b.len >= 1 /\ Extent(b) \subseteq Pool
          /\ TagSize \in Nat \ {0}
      BY <1>1, <2>2, BlockIs, PassesAssumption
    <3>3. v.addr \in Extent(b) /\ v.addr < b.start BY <3>1, <3>2 DEF TagArea, Extent
    <3>4. CASE v.fs <= 0 BY <1>1, <3>2, <3>3, <3>4 DEF FreeAreaFree
    <3>5. CASE v.fs > 0
      <4>1. PICK c \in blocks : v.addr \in Content(c) BY <2>3, <3>5
      <4>2. c.start \in Nat /\ c.len \in Nat BY <1>1, <2>2, BlockIs
      <4>3. v.addr \in Extent(c) /\ v.addr >= c.start BY <3>2, <4>1, <4>2 DEF Content, Extent
      <4>4. b # c
        <5>1. v.addr \in Int BY <1>1 DEF TypeOK
        <5>. QED BY <3>2, <3>3, <4>2, <4>3, <5>1
      <4>. QED BY <2>2, <3>3, <4>3, <4>4 DEF BlocksApart
    <3>6. v.fs \in Int BY <1>1 DEF TypeOK, Ids
    <3>. QED BY <3>4, <3>5, <3>6
  <2>. QED BY <2>1, <2>3, <2>4
<1>. QED BY <1>1, PlanHolds, PTL
==============================================================================
