-------------------------------- MODULE Lines --------------------------------
(* How Asar goes through the lines of a patch: files and macros, the blocks   *)
(* of a line, conditionals and loops, rep, and the three classes of errors.   *)
(*                                                                            *)
(* A statement that is about none of this is an "op", which stands for any    *)
(* command: it is executed or skipped.  "use" is one that needs the variable  *)
(* of the for loops.  Conditions are "true", "false", "bad" (an error stops the   *)
(* block) or "deep" (evaluating it reaches the recursion limit); those of     *)
(* while loops are chosen as they are evaluated, true at most WhileFuel times.*)
EXTENDS Integers, Sequences, FiniteSets, SequencesExt

CONSTANTS
  Programs,     \* Programs[i]: the i-th patches, whose files map names to sequences of lines
  Root,         \* the file a patch starts with
  MaxPatches,   \* patches one process applies
  Limit,        \* calls that may be nested: 250 in recurseblock
  WhileFuel,    \* bound on the turns of the while loops of a pass
  MaxLevel      \* bound on the depth of conditionals, for TypeOK

ASSUME LinesAssumption ==
  /\ \A i \in 1 .. MaxPatches : \A p \in Programs[i] : Root \in DOMAIN p.files
  /\ MaxPatches \in Nat /\ Limit \in Nat \ {0} /\ WhileFuel \in Nat /\ MaxLevel \in Nat

None == -1

VARIABLES
  prog, patches, pass, mode,                    \* what is assembled, and how far
  numif, numtrue, elsestatus, whilestatus,      \* conditionals
  fakeendif, moreonlinecond, tracker,           \* the line
  repeatnext,
  frames, thisfile, inmacro, macrorecursion, recursioncount, macros, includeonce,
  loopvar,      \* the define that for loops use as their variable
  errored,
  fuel,         \* turns that are left to the while loops
  out           \* what the commands of this pass have written

levels == <<numif, numtrue, elsestatus, whilestatus>>
line   == <<fakeendif, moreonlinecond, tracker, repeatnext>>
calls  == <<thisfile, inmacro, macrorecursion, recursioncount, macros, includeonce>>
vars   == <<prog, patches, pass, mode, levels, line, frames, calls, loopvar, errored, fuel, out>>

NoWhile == [kind |-> "none", at |-> 0, cond |-> FALSE, cur |-> 0, end |-> 0, backup |-> None]

Init ==
  /\ prog = (CHOOSE p \in Programs[1] : TRUE) /\ patches = 0 /\ pass = 0 /\ mode = "idle"
  /\ numif = 0 /\ numtrue = 0
  /\ elsestatus = [k \in 1 .. MaxLevel |-> FALSE]
  /\ whilestatus = [k \in 0 .. MaxLevel |-> NoWhile]
  /\ fakeendif = 0 /\ moreonlinecond = TRUE /\ tracker = 0 /\ repeatnext = 1
  /\ frames = <<>> /\ thisfile = Root /\ inmacro = FALSE /\ macrorecursion = 0 /\ recursioncount = 0
  /\ macros = <<>> /\ includeonce = {}
  /\ loopvar = None /\ errored = FALSE /\ fuel = 0 /\ out = <<>>

-----------------------------------------------------------------------------
(* The frames: files and macros that are being assembled.  block is 0 between *)
(* the lines of a frame, and Done after the last block of a line.             *)

Done == -1

top == Last(frames)
Text(f) == prog.files[f.unit][f.at]
Block == Text(top)[top.block]
MoreOnLine == top.block < Len(Text(top))
Active == numif = numtrue

Frame(kind, unit, first, last) ==
  [kind |-> kind, unit |-> unit, at |-> first, last |-> last, block |-> 0, left |-> 1,
   startif |-> numif, prevnumif |-> numif, aborted |-> FALSE, val |-> None,
   defining |-> FALSE, first |-> 0, recording |-> "",
   keep |-> <<fakeendif, moreonlinecond, tracker>>]

WithTop(f) == [frames EXCEPT ![Len(frames)] = f]
Pop == Front(frames)

\* The block of frame f at the end of fs has been assembled once: the same again
\* for rep, or the next one, which takes what rep has left.  r and t are
\* repeatnext and the tracker after the block.
Advance(fs, r, t) ==
  LET f == Last(fs)
      put(g) == [fs EXCEPT ![Len(fs)] = g]
  IN  IF f.left > 1
      THEN /\ frames' = put([f EXCEPT !.left = @ - 1])
           /\ repeatnext' = r /\ tracker' = t
      ELSE LET more == f.block < Len(Text(f))
           IN  /\ frames' = put([f EXCEPT !.block = IF more THEN @ + 1 ELSE Done,
                                          !.left = IF more THEN r ELSE 1])
               /\ repeatnext' = IF more THEN 1 ELSE r
               /\ tracker' = IF t = 1 THEN 0 ELSE t

NextBlock == Advance(frames, repeatnext, tracker)

\* An error of class line ends the line, one of class block the block.
EndOfLine(t) ==
  /\ frames' = WithTop([top EXCEPT !.block = Done, !.aborted = TRUE])
  /\ tracker' = t /\ UNCHANGED repeatnext
BlockError == errored' = TRUE /\ NextBlock

\* A fatal error ends the patch: whatever was under way stays as it is.  The
\* recurseblock whose constructor throws has counted itself and is not destroyed.
OpenLines == Cardinality({ k \in DOMAIN frames : frames[k].block # 0 })
Fatal ==
  /\ errored' = TRUE /\ mode' = "idle" /\ frames' = <<>>
  /\ recursioncount' = recursioncount - OpenLines + 1

-----------------------------------------------------------------------------
(* A patch and its passes.                                                   *)

\* asar_patch with reset: of what the properties are about, these go.
CallPatch(p) ==
  /\ mode = "idle"
  /\ prog' = p /\ patches' = patches + 1 /\ pass' = 0 /\ mode' = "pass"
  /\ macros' = <<>> /\ errored' = FALSE
  /\ UNCHANGED <<levels, line, frames, thisfile, inmacro, macrorecursion, recursioncount,
                 includeonce, loopvar, fuel, out>>

StartPass ==
  /\ mode = "pass"
  /\ macrorecursion' = 0 /\ repeatnext' = 1 /\ includeonce' = {} /\ loopvar' = None
  /\ fuel' = WhileFuel /\ out' = <<>> /\ mode' = "run"
  /\ frames' = <<Frame("file", Root, 1, Len(prog.files[Root]))>> /\ thisfile' = Root
  /\ UNCHANGED <<prog, patches, pass, levels, fakeendif, moreonlinecond, tracker,
                 inmacro, recursioncount, macros, errored>>

FinishPass ==
  /\ mode = "run" /\ frames = <<>>
  /\ IF pass < 2 THEN pass' = pass + 1 /\ mode' = "pass"
                 ELSE mode' = "idle" /\ UNCHANGED pass
  /\ UNCHANGED <<prog, patches, levels, line, frames, calls, loopvar, errored, fuel, out>>

-----------------------------------------------------------------------------
(* Between the lines of a file or a macro.                                   *)

InLine == mode = "run" /\ frames # <<>> /\ top.block # 0
AtBlock == InLine /\ top.block > 0
Between(kind) == /\ mode = "run" /\ frames # <<>>
                 /\ top.block = 0 /\ top.kind = kind
More == top.at <= top.last
Starts(k) == Text(top) # <<>> /\ Text(top)[1].k = k

\* The lines between macro and endmacro are kept in pass 0 and passed over later.
\* startmacro throws, before it has a macro, for a name that is taken: then the
\* lines up to endmacro are dropped (recording is NoMacro).
NoMacro == ""
Recorded(m) == IF pass = 0 /\ m \in DOMAIN macros THEN NoMacro ELSE m
MacroLine ==
  /\ Between("file") /\ More /\ Starts("macro") /\ Active
  /\ LET m == Text(top)[1].m
         next == [top EXCEPT !.at = @ + 1]
     IN  IF top.defining
         THEN errored' = TRUE /\ frames' = WithTop(next) /\ UNCHANGED macros
         ELSE /\ frames' = WithTop([next EXCEPT !.defining = TRUE, !.first = top.at,
                                                !.recording = Recorded(m)])
              /\ errored' = (errored \/ Recorded(m) = NoMacro)
              /\ UNCHANGED macros
  /\ UNCHANGED <<prog, patches, pass, mode, levels, line, thisfile, inmacro, macrorecursion,
                 recursioncount, includeonce, loopvar, fuel, out>>

Defined ==
  IF top.defining /\ pass = 0 /\ top.recording # NoMacro
  THEN (top.recording :> [unit |-> top.unit, first |-> top.first + 1, last |-> top.at - 1])
         @@ macros
  ELSE macros
EndmacroLine ==
  /\ Between("file") /\ More /\ Starts("endmacro") /\ Active
  /\ frames' = WithTop([top EXCEPT !.at = @ + 1, !.defining = FALSE])
  /\ errored' = (errored \/ ~top.defining)
  /\ macros' = Defined
  /\ UNCHANGED <<prog, patches, pass, mode, levels, line, thisfile, inmacro, macrorecursion,
                 recursioncount, includeonce, loopvar, fuel, out>>

MacroBodyLine ==
  /\ Between("file") /\ More /\ top.defining
  /\ ~(Active /\ (Starts("macro") \/ Starts("endmacro")))
  /\ frames' = WithTop([top EXCEPT !.at = @ + 1])
  /\ UNCHANGED <<prog, patches, pass, mode, levels, line, calls, loopvar, errored, fuel, out>>

\* assembleline: the defines of a line are resolved before it is cut into blocks.
NeedsVar == \E b \in ToSet(Text(top)) : b.k = "use"
BeginLine ==
  /\ Between("file") \/ Between("macro")
  /\ More /\ ~top.defining
  /\ top.kind = "file" /\ Active => ~Starts("macro") /\ ~Starts("endmacro")
  /\ thisfile' = top.unit
  /\ IF recursioncount + (IF Active THEN 2 ELSE 1) > Limit
     THEN Fatal /\ UNCHANGED line
     ELSE /\ recursioncount' = recursioncount + 1
          /\ LET f == [top EXCEPT !.prevnumif = numif, !.val = loopvar, !.aborted = FALSE]
             IN  IF Active /\ NeedsVar /\ loopvar = None
                 THEN /\ errored' = TRUE /\ tracker' = 1
                      /\ frames' = WithTop([f EXCEPT !.block = Done, !.aborted = TRUE])
                      /\ UNCHANGED <<fakeendif, moreonlinecond, repeatnext>>
                 ELSE /\ frames' = WithTop([f EXCEPT !.block = IF Text(top) = <<>> THEN Done ELSE 1,
                                                     !.left = repeatnext])
                      /\ repeatnext' = 1 /\ tracker' = 1
                      /\ moreonlinecond' = TRUE /\ fakeendif' = 0
                      /\ UNCHANGED errored
          /\ UNCHANGED mode
  /\ UNCHANGED <<prog, patches, pass, levels, inmacro, macrorecursion, macros, includeonce,
                 loopvar, fuel, out>>

\* The end of a line: an inline if without endif is closed, and a loop that has
\* ended its turn goes back to its first line.
LineDone == InLine /\ top.block = Done
Unclosed == fakeendif > 0 /\ ~top.aborted
LevelAfter_Always == numif - 1      \* ends an inline if that has had its endif
LevelAfter == IF Unclosed THEN numif - 1 ELSE numif
LoopAfter == IF LevelAfter < 0 THEN NoWhile ELSE whilestatus[LevelAfter]
LoopsBack_Always ==                 \* does not look at the condition
  (LevelAfter # top.prevnumif \/ tracker = 3) /\ LoopAfter.kind \in {"while", "for"}
LoopsBack ==
  /\ LevelAfter # top.prevnumif \/ tracker = 3
  /\ LoopAfter.kind \in {"while", "for"} /\ LoopAfter.cond
LineReturns == recursioncount - 1
EndLine ==
  /\ LineDone
  /\ numif' = LevelAfter
  /\ numtrue' = IF Unclosed /\ Active THEN numtrue - 1 ELSE numtrue
  /\ recursioncount' = LineReturns
  /\ frames' = WithTop([top EXCEPT !.block = 0, !.left = 1,
                 !.at = IF LoopsBack THEN whilestatus[LevelAfter].at ELSE @ + 1])
  /\ UNCHANGED <<prog, patches, pass, mode, elsestatus, whilestatus, line, thisfile, inmacro,
                 macrorecursion, macros, includeonce, loopvar, errored, fuel, out>>

\* The end of assemblefile.  A file that was included returns to the block that
\* included it.
LeftOpen == numif # top.startif
Return(r) == IF Pop = <<>> THEN frames' = <<>> /\ repeatnext' = r /\ UNCHANGED tracker
                           ELSE Advance(Pop, r, tracker)
EndFile ==
  /\ Between("file") /\ ~More
  /\ errored' = (errored \/ top.defining \/ repeatnext # 1 \/ LeftOpen)
  /\ Return(1)
  /\ IF LeftOpen THEN numif' = top.startif /\ numtrue' = top.startif
                 ELSE UNCHANGED <<numif, numtrue>>
  /\ UNCHANGED <<prog, patches, pass, mode, elsestatus, whilestatus, fakeendif,
                 moreonlinecond, calls, loopvar, fuel, out>>

\* The end of callmacro, and of the call in assembleblock, which an error skips.
EndMacro ==
  /\ Between("macro") /\ ~More
  /\ macrorecursion' = macrorecursion - 1 /\ inmacro' = (macrorecursion' > 0)
  /\ LET rep == repeatnext # 1
         open == LeftOpen
     IN  /\ errored' = (errored \/ rep \/ open)
         /\ Advance(Pop, 1, IF rep \/ open THEN tracker ELSE top.keep[3])
         /\ IF rep \/ open THEN UNCHANGED <<fakeendif, moreonlinecond>>
            ELSE fakeendif' = top.keep[1] /\ moreonlinecond' = top.keep[2]
         /\ IF open /\ ~rep THEN numif' = top.startif /\ numtrue' = top.startif
            ELSE UNCHANGED <<numif, numtrue>>
  /\ UNCHANGED <<prog, patches, pass, mode, elsestatus, whilestatus, recursioncount,
                 thisfile, macros, includeonce, loopvar, fuel, out>>

-----------------------------------------------------------------------------
(* The blocks of a line: assembleblock.                                      *)

Assembles(kinds) ==
  /\ AtBlock /\ top.left > 0
  /\ Block.k \in kinds

\* The rest of a line after an inline condition that is false.
PassedOver(kinds) ==
  /\ ~moreonlinecond
  /\ kinds \cap {"elseif", "else", "endif", "endwhile"} = {}

Keeps(vs) == UNCHANGED <<prog, patches, pass, macros, includeonce, thisfile, inmacro,
                         macrorecursion, vs>>
Stays == UNCHANGED <<mode, recursioncount>>

\* rep 0 leaves its block out.
RepeatedNever ==
  /\ AtBlock /\ ~(top.left > 0)
  /\ NextBlock
  /\ Stays /\ Keeps(<<levels, fakeendif, moreonlinecond, loopvar, errored, fuel, out>>)

SkipBlock ==
  /\ AtBlock /\ top.left > 0
  /\ PassedOver({Block.k})
  /\ NextBlock
  /\ Stays /\ Keeps(<<levels, fakeendif, moreonlinecond, loopvar, errored, fuel, out>>)

Entry(kind) == [NoWhile EXCEPT !.kind = kind, !.at = top.at]
SetWhile(w) == whilestatus' = [whilestatus EXCEPT ![numif] = w]

\* The outcomes of a condition: a while loop may change its mind.
Outcomes == IF Block.k = "while" /\ Block.c = "true"
            THEN IF fuel > 0 THEN {"true", "false"} ELSE {"false"}
            ELSE {Block.c}

\* What an if or a while does with the outcome of its condition.
Concludes(c) ==
  \/ /\ c = "true"
     /\ numtrue' = numtrue + 1
     /\ elsestatus' = [elsestatus EXCEPT ![numif + 1] = TRUE]
     /\ NextBlock /\ Stays /\ UNCHANGED <<moreonlinecond, errored>>
  \/ /\ c = "false"
     /\ moreonlinecond' = (moreonlinecond /\ ~MoreOnLine)
     /\ elsestatus' = [elsestatus EXCEPT ![numif + 1] = FALSE]
     /\ NextBlock /\ Stays /\ UNCHANGED <<numtrue, errored>>
  \/ /\ c = "bad"
     /\ BlockError /\ Stays
     /\ UNCHANGED <<numtrue, elsestatus, moreonlinecond>>
  \/ /\ c = "deep"
     /\ Fatal
     /\ UNCHANGED <<numtrue, elsestatus, moreonlinecond, tracker, repeatnext>>
IfWhile ==
  /\ Assembles({"if", "while"}) /\ ~PassedOver({Block.k})
  /\ fakeendif' = IF Block.k = "if" /\ MoreOnLine THEN fakeendif + 1 ELSE fakeendif
  /\ numif' = numif + 1
  /\ LET w == Entry(IF Block.k = "while" THEN "while" ELSE "none")
     IN  IF ~Active
         THEN /\ SetWhile(w) /\ NextBlock /\ Stays
              /\ UNCHANGED <<numtrue, elsestatus, moreonlinecond, errored, fuel>>
         ELSE \E c \in Outcomes :
           /\ SetWhile([w EXCEPT !.cond = (c = "true")])
           /\ fuel' = IF Block.k = "while" /\ c = "true" THEN fuel - 1 ELSE fuel
           /\ Concludes(c)
  /\ Keeps(<<loopvar, out>>)

\* assert takes the entry of its level like an if, and fails in the last pass only.
AssertThat ==
  /\ Assembles({"assert"}) /\ ~PassedOver({"assert"})
  /\ SetWhile(Entry("none"))
  /\ \/ /\ Active /\ Block.c = "deep"
        /\ Fatal /\ UNCHANGED <<tracker, repeatnext>>
     \/ /\ Active /\ (Block.c = "bad" \/ (Block.c = "false" /\ pass = 2))
        /\ BlockError /\ Stays
     \/ /\ ~Active \/ Block.c = "true" \/ (Block.c = "false" /\ pass < 2)
        /\ NextBlock /\ Stays /\ UNCHANGED errored
  /\ Keeps(<<numif, numtrue, elsestatus, fakeendif, moreonlinecond, loopvar, fuel, out>>)

\* The defines of an elseif are resolved here, one call deeper than its line.
Elseif ==
  /\ Assembles({"elseif"})
  /\ LET seen  == Active \/ numtrue + 1 = numif
         c     == Block.c
         right == numif > 0 /\ whilestatus[numif - 1].kind # "while"
         takes == c = "true" /\ ~elsestatus[numif]
         base  == IF Active THEN numtrue - 1 ELSE numtrue
         keeps == UNCHANGED <<numtrue, elsestatus, moreonlinecond>>
     IN  IF numtrue + 1 = numif /\ recursioncount + 1 > Limit
         THEN Fatal /\ keeps /\ UNCHANGED <<whilestatus, tracker, repeatnext>>
         ELSE /\ SetWhile(Entry("none"))
              /\ \/ /\ ~seen
                    /\ NextBlock /\ Stays /\ keeps /\ UNCHANGED errored
                 \/ /\ seen /\ c = "deep"
                    /\ Fatal /\ keeps /\ UNCHANGED <<tracker, repeatnext>>
                 \/ /\ seen /\ c # "deep" /\ (c = "bad" \/ ~right)
                    /\ BlockError /\ Stays /\ keeps
                 \/ /\ seen /\ c \in {"true", "false"} /\ right
                    /\ numtrue' = IF takes THEN base + 1 ELSE base
                    /\ elsestatus' = IF takes THEN [elsestatus EXCEPT ![numif] = TRUE]
                                              ELSE elsestatus
                    /\ moreonlinecond' = (moreonlinecond \/ (takes /\ MoreOnLine))
                    /\ NextBlock /\ Stays /\ UNCHANGED errored
  /\ Keeps(<<numif, fakeendif, loopvar, fuel, out>>)

\* A for loop: the entry of its level tells whether it is under way already.
UnderWay_OneMore == whilestatus[numif].kind = "for" /\ whilestatus[numif].cur <= whilestatus[numif].end
UnderWay == whilestatus[numif].kind = "for" /\ whilestatus[numif].cur < whilestatus[numif].end
For ==
  /\ Assembles({"for"}) /\ ~PassedOver({"for"})
  /\ LET w  == IF UnderWay THEN whilestatus[numif] ELSE Entry("for")
         cur == IF UnderWay THEN w.cur + 1 ELSE Block.from
         end == IF UnderWay THEN w.end ELSE Block.to
         on == cur < end
     IN  CASE ~Active -> /\ numif' = numif + 1 /\ SetWhile(w) /\ NextBlock
                         /\ UNCHANGED <<numtrue, loopvar, errored>>
           [] Active /\ tracker # 1 ->
                /\ SetWhile(w) /\ errored' = TRUE /\ EndOfLine(tracker)
                /\ UNCHANGED <<numif, numtrue, loopvar>>
           [] Active /\ tracker = 1 /\ ~UnderWay /\ Block.c = "bad" ->
                /\ numif' = numif + 1 /\ SetWhile(w) /\ BlockError
                /\ UNCHANGED <<numtrue, loopvar>>
           [] Active /\ tracker = 1 /\ (UnderWay \/ Block.c # "bad") ->
                /\ numif' = numif + 1
                /\ numtrue' = IF on THEN numtrue + 1 ELSE numtrue
                /\ SetWhile([w EXCEPT !.cur = cur, !.end = end, !.cond = on,
                               !.backup = IF on /\ loopvar # None THEN loopvar ELSE @])
                /\ loopvar' = IF on THEN cur ELSE loopvar
                /\ Advance(frames, repeatnext, 2)
                /\ UNCHANGED errored
  /\ Stays /\ Keeps(<<elsestatus, fakeendif, moreonlinecond, fuel, out>>)

Terminators == {"endif", "endwhile", "endfor"}
End ==
  /\ Assembles(Terminators) /\ ~PassedOver({Block.k})
  /\ fakeendif' = IF fakeendif > 0 THEN fakeendif - 1 ELSE 0
  /\ IF numif = 0
     THEN BlockError /\ UNCHANGED <<numif, numtrue, whilestatus, loopvar>>
     ELSE LET w == whilestatus[numif - 1]
              for == w.kind = "for"
              t == IF for /\ tracker = 2 THEN 3 ELSE tracker
          IN  /\ numtrue' = IF Active THEN numtrue - 1 ELSE numtrue
              /\ numif' = numif - 1
              /\ Advance(frames, repeatnext, t)
              /\ whilestatus' = IF for /\ MoreOnLine
                                THEN [whilestatus EXCEPT ![numif - 1].cur = w.end,
                                                         ![numif - 1].cond = FALSE]
                                ELSE whilestatus
              /\ errored' = (errored \/ (for /\ MoreOnLine))
              /\ loopvar' = IF for /\ ~MoreOnLine /\ w.cond THEN w.backup ELSE loopvar
  /\ Stays /\ Keeps(<<elsestatus, moreonlinecond, fuel, out>>)

ElseTakes_Any == numif = numtrue + 1    \* also when an earlier branch was assembled
ElseTakes == numif = numtrue + 1 /\ ~elsestatus[numif]
Else ==
  /\ Assembles({"else"})
  /\ moreonlinecond' = TRUE
  /\ LET wrong == numif = 0 \/ whilestatus[numif - 1].kind # "none"
     IN  IF wrong
         THEN BlockError /\ UNCHANGED <<numtrue, elsestatus>>
         ELSE /\ numtrue' = CASE Active -> numtrue - 1
                              [] ~Active /\ ElseTakes -> numtrue + 1
                              [] OTHER -> numtrue
              /\ elsestatus' = IF ElseTakes THEN [elsestatus EXCEPT ![numif] = TRUE] ELSE elsestatus
              /\ NextBlock /\ UNCHANGED errored
  /\ Stays /\ Keeps(<<numif, whilestatus, fakeendif, loopvar, fuel, out>>)

\* Every other command is for numif = numtrue only.
Commands == {"op", "use", "rep", "error", "call", "incsrc", "includeonce"}
Inactive ==
  /\ Assembles(Commands \cup {"macro", "endmacro"}) /\ ~PassedOver({Block.k}) /\ ~Active
  /\ NextBlock
  /\ Stays /\ Keeps(<<levels, fakeendif, moreonlinecond, loopvar, errored, fuel, out>>)

Executes(k) == Assembles({k}) /\ ~PassedOver({k}) /\ Active

Op ==
  /\ Executes("op") \/ Executes("use")
  /\ out' = Append(out, IF Block.k = "op" THEN Block.v ELSE top.val)
  /\ NextBlock
  /\ Stays /\ Keeps(<<levels, fakeendif, moreonlinecond, loopvar, errored, fuel>>)

Rep ==
  /\ Executes("rep")
  /\ Advance(frames, Block.n, tracker)
  /\ Stays /\ Keeps(<<levels, fakeendif, moreonlinecond, loopvar, errored, fuel, out>>)

\* A command that fails, with an error of class null, block, line or fatal.  Within
\* a macro, macro and endmacro are unknown commands.
Error ==
  /\ \E k \in {"error", "macro", "endmacro"} : Executes(k)
  /\ LET class == IF Block.k = "error" THEN Block.class ELSE "block"
     IN  /\ errored' = TRUE
         /\ \/ class \in {"null", "block"} /\ NextBlock /\ Stays
            \/ class = "line" /\ EndOfLine(tracker) /\ Stays
            \/ /\ class = "fatal" /\ mode' = "idle" /\ frames' = <<>>
               /\ recursioncount' = recursioncount - OpenLines
               /\ UNCHANGED <<tracker, repeatnext>>
  /\ Keeps(<<levels, fakeendif, moreonlinecond, loopvar, fuel, out>>)

CallMacro(m) ==
  /\ frames' = Append(frames, Frame("macro", m.unit, m.first, m.last))
  /\ inmacro' = TRUE /\ macrorecursion' = macrorecursion + 1
Call ==
  /\ Executes("call")
  /\ IF Block.m \notin DOMAIN macros
     THEN BlockError /\ UNCHANGED <<inmacro, macrorecursion>>
     ELSE CallMacro(macros[Block.m]) /\ UNCHANGED <<tracker, repeatnext, errored>>
  /\ Stays
  /\ UNCHANGED <<prog, patches, pass, thisfile, macros, includeonce, levels, fakeendif,
                 moreonlinecond, loopvar, fuel, out>>

Incsrc ==
  /\ Executes("incsrc")
  /\ CASE Block.f \in includeonce -> NextBlock /\ UNCHANGED errored
       [] Block.f \notin includeonce /\ Block.f \notin DOMAIN prog.files -> BlockError
       [] Block.f \in DOMAIN prog.files \ includeonce ->
            /\ frames' = Append(frames, Frame("file", Block.f, 1, Len(prog.files[Block.f])))
            /\ UNCHANGED <<tracker, repeatnext, errored>>
  /\ thisfile' = IF Block.f \in DOMAIN prog.files \ includeonce THEN Block.f ELSE thisfile
  /\ Stays
  /\ UNCHANGED <<prog, patches, pass, macros, includeonce, inmacro, macrorecursion, levels,
                 fakeendif, moreonlinecond, loopvar, fuel, out>>

Includeonce ==
  /\ Executes("includeonce")
  /\ includeonce' = includeonce \cup {thisfile}
  /\ NextBlock /\ Stays
  /\ UNCHANGED <<prog, patches, pass, macros, thisfile, inmacro, macrorecursion, levels,
                 fakeendif, moreonlinecond, loopvar, errored, fuel, out>>

-----------------------------------------------------------------------------
Step ==
  \/ FinishPass \/ StartPass
  \/ MacroLine \/ EndmacroLine \/ MacroBodyLine \/ BeginLine \/ EndLine
  \/ EndFile \/ EndMacro
  \/ RepeatedNever \/ SkipBlock \/ Inactive
  \/ IfWhile \/ AssertThat \/ Elseif \/ For \/ End \/ Else
  \/ Op \/ Rep \/ Error \/ Call \/ Incsrc \/ Includeonce
Next == Step \/ (patches < MaxPatches /\ \E p \in Programs[patches + 1] : CallPatch(p))

\* asar goes on for as long as a patch has lines.
Spec == Init /\ [][Next]_vars /\ WF_vars(Step)

-----------------------------------------------------------------------------
(* Properties.                                                               *)

\* The variables stay in their ranges; numtrue conditionals of numif are true.
TypeOK ==
  /\ patches \in 0 .. MaxPatches /\ pass \in 0 .. 2 /\ mode \in {"idle", "pass", "run"}
  /\ numif \in 0 .. MaxLevel /\ numtrue \in 0 .. numif
  /\ tracker \in 0 .. 3 /\ fakeendif \in Nat /\ repeatnext \in Int
  /\ moreonlinecond \in BOOLEAN /\ errored \in BOOLEAN
  /\ recursioncount \in 0 .. Limit + MaxPatches /\ fuel \in 0 .. WhileFuel

\* The stack that numif, numtrue and elsestatus stand for (assembleblock).
StackOf ==
  [k \in 1 .. numif |->
     IF k <= numtrue THEN "on"
     ELSE IF k > numtrue + 1 \/ whilestatus[k - 1].kind # "none" THEN "off"
     ELSE IF elsestatus[k] THEN "done" ELSE "seek"]
CommandMet ==
  IF AtBlock /\ top.left > 0 /\ Block.k \in {"op", "use"}
  THEN <<IF Block.k = "op" THEN Block.v ELSE top.val>>
  ELSE <<>>
Abstract == INSTANCE Conditionals WITH
  stack   <- IF errored THEN <<>> ELSE StackOf,
  command <- IF errored THEN <<>> ELSE CommandMet,
  out     <- IF errored \/ mode = "pass" THEN <<>> ELSE out,
  failed  <- errored

\* As long as there is no error, every command is executed exactly when the
\* conditionals around it are all on, those of files and macros that are under way
\* included, although two counters stand for the stack.
RefinesConditionals == Abstract!Spec

\* What the two counters are not a stack for: conditionals that an earlier patch has
\* left open, an elseif in a for loop, which is not refused, commands behind the endif
\* of a false inline if, and an included file whose last line leaves an inline if.
Shallow       == numif <= MaxLevel
StartsClosed  == mode = "pass" /\ ~errored => numif = 0 /\ numtrue = 0
ElseifsInIfs  == AtBlock /\ Block.k = "elseif" /\ numif > 0 => whilestatus[numif - 1].kind # "for"
NothingBehind == AtBlock /\ Block.k \in {"endif", "endwhile"} /\ ~moreonlinecond => ~MoreOnLine
FilesEndLines == Between("file") /\ ~More /\ Len(frames) > 1 => moreonlinecond /\ fakeendif = 0
Orderly == Shallow /\ StartsClosed /\ ElseifsInIfs /\ NothingBehind /\ FilesEndLines

\* Loops, rep and macros come to an end, whatever errors they meet, when the
\* conditions of while loops become false.
Terminates == mode = "pass" ~> mode = "idle"

=============================================================================
