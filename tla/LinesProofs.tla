----------------------------- MODULE LinesProofs -----------------------------
(***************************************************************************)
(* The lines of a patch implement the stack of conditionals: for patches   *)
(* of any files and macros, of any length and any depth.  And however they *)
(* include and call each other, they are not nested deeper than Limit.     *)
(***************************************************************************)
EXTENDS Lines, SequenceTheorems, FiniteSetTheorems, TLAPS

IsList(s) == s \in Seq(ToSet(s))

(***************************************************************************)
(* Lemmas about lists                                                      *)
(***************************************************************************)

\* A sequence over any set is a list.
LEMMA IsListOf ==
  ASSUME NEW S, NEW s \in Seq(S)
  PROVE  IsList(s) /\ Len(s) \in Nat /\ DOMAIN s = 1 .. Len(s)
<1>1. Len(s) \in Nat /\ DOMAIN s = 1 .. Len(s) /\ s = [i \in 1 .. Len(s) |-> s[i]] OBVIOUS
<1>2. s \in [1 .. Len(s) -> ToSet(s)] BY <1>1 DEF ToSet
<1>. QED BY <1>1, <1>2, SeqDef DEF IsList

\* What has been put at the end of a list, in place of its last element, and what is
\* left without it.
LEMMA AppendList ==
  ASSUME NEW s, IsList(s), NEW x
  PROVE  /\ IsList(Append(s, x)) /\ Len(Append(s, x)) = Len(s) + 1 /\ Len(s) \in Nat
         /\ \A i \in 1 .. Len(s) : Append(s, x)[i] = s[i]
         /\ Append(s, x)[Len(s) + 1] = x
<1>1. s \in Seq(ToSet(s) \cup {x})
  <2>1. s \in [1 .. Len(s) -> ToSet(s)] /\ Len(s) \in Nat BY DEF IsList
  <2>2. s \in [1 .. Len(s) -> ToSet(s) \cup {x}] BY <2>1
  <2>. QED BY <2>1, <2>2, SeqDef
<1>2. Append(s, x) \in Seq(ToSet(s) \cup {x}) BY <1>1
<1>3. IsList(Append(s, x)) BY <1>2, IsListOf
<1>. QED BY <1>1, <1>3, AppendProperties

Replace(s, x) == [s EXCEPT ![Len(s)] = x]
LEMMA ReplaceList ==
  ASSUME NEW s, IsList(s), s # <<>>, NEW x
  PROVE  /\ IsList(Replace(s, x)) /\ Len(Replace(s, x)) = Len(s)
         /\ Len(s) \in Nat /\ Len(s) > 0
         /\ \A i \in 1 .. Len(s) - 1 : Replace(s, x)[i] = s[i]
         /\ Replace(s, x)[Len(s)] = x
<1>. DEFINE t == Replace(s, x)
<1>1. s \in [1 .. Len(s) -> ToSet(s)] /\ Len(s) \in Nat BY DEF IsList
<1>2. Len(s) > 0 BY <1>1, EmptySeq DEF IsList
<1>3. PICK n \in Nat : n = Len(s) BY <1>1
<1>. DEFINE S == ToSet(s) \cup {x}
<1>4. t \in [1 .. n -> S] /\ t[n] = x /\ \A i \in 1 .. n - 1 : t[i] = s[i]
  BY <1>1, <1>2, <1>3 DEF Replace
<1>. HIDE DEF S, t
<1>5. t \in Seq(S) BY <1>4, SeqDef
<1>6. Len(t) = n BY <1>4, <1>5
<1>7. IsList(t) BY <1>5, IsListOf
<1>. QED BY <1>2, <1>3, <1>4, <1>6, <1>7 DEF t

LEMMA FrontList ==
  ASSUME NEW s, IsList(s), s # <<>>
  PROVE  /\ IsList(Front(s)) /\ Len(Front(s)) = Len(s) - 1 /\ Len(s) \in Nat /\ Len(s) > 0
         /\ \A i \in 1 .. Len(s) - 1 : Front(s)[i] = s[i]
<1>1. Len(s) \in Nat /\ s \in Seq(ToSet(s)) BY DEF IsList
<1>2. Len(s) > 0 BY <1>1, EmptySeq
<1>3. PICK n \in Nat : n = Len(s) BY <1>1
<1>4. \A i \in 1 .. n - 1 : s[i] \in ToSet(s) BY <1>1, <1>3
<1>5. \A m \in Nat : m > 0 => (IF 1 <= m - 1 THEN m - 1 - 1 + 1 ELSE 0) = m - 1 OBVIOUS
<1>6. /\ SubSeq(s, 1, n - 1) \in Seq(ToSet(s))
      /\ Len(SubSeq(s, 1, n - 1)) = IF 1 <= n - 1 THEN n - 1 - 1 + 1 ELSE 0
      /\ \A i \in 1 .. n - 1 - 1 + 1 : SubSeq(s, 1, n - 1)[i] = s[1 + i - 1]
  BY <1>1, <1>3, <1>4, SubSeqProperties
<1>7. Front(s) = SubSeq(s, 1, n - 1) BY <1>3 DEF Front
<1>8. Len(Front(s)) = n - 1 BY <1>5, <1>6, <1>7, <1>2, <1>3
<1>9. IsList(Front(s)) BY <1>6, <1>7, IsListOf
<1>10. \A i \in 1 .. n - 1 : Front(s)[i] = s[i] BY <1>6, <1>7, <1>3
<1>. QED BY <1>1, <1>2, <1>3, <1>8, <1>9, <1>10

LEMMA OneList == \A x : IsList(<<x>>) /\ Len(<<x>>) = 1 /\ <<x>>[1] = x /\ <<x>> # <<>>
<1>. SUFFICES ASSUME NEW x PROVE IsList(<<x>>) /\ Len(<<x>>) = 1 /\ <<x>>[1] = x /\ <<x>> # <<>>
  OBVIOUS
<1>1. <<x>> \in Seq({x}) OBVIOUS
<1>2. Len(<<x>>) = 1 /\ <<x>>[1] = x /\ <<x>> # <<>> OBVIOUS
<1>. QED BY <1>1, <1>2, IsListOf

-----------------------------------------------------------------------------
(***************************************************************************)
(* The frames: the first is the file that a pass starts with, and those    *)
(* above it were entered on a line that was assembled.                     *)
(***************************************************************************)
Fields == {"kind", "unit", "at", "startif", "block", "left", "keep"}
Entered(f) == f.keep[2] /\ f.startif \in Nat /\ f.keep[1] \in 0 .. f.startif
Framed(fs) ==
  /\ IsList(fs)
  /\ \A i \in 1 .. Len(fs) : Fields \subseteq DOMAIN fs[i]
  /\ fs # <<>> => fs[1].kind = "file" /\ fs[1].startif = 0
  /\ \A i \in 2 .. Len(fs) : Entered(fs[i])

\* g is the frame f, further on, or further on in the same line.
SameFrame(g, f) ==
  Fields \subseteq DOMAIN g /\ g.kind = f.kind /\ g.startif = f.startif /\ g.keep = f.keep
SameText(g, f) == g.unit = f.unit /\ g.at = f.at

LEMMA Replaced ==
  ASSUME NEW fs, Framed(fs), fs # <<>>, NEW g, SameFrame(g, Last(fs)),
         NEW gs, gs = [fs EXCEPT ![Len(fs)] = g]
  PROVE  Framed(gs) /\ gs # <<>> /\ Last(gs) = g /\ Len(gs) = Len(fs)
<1>1. PICK n \in Nat \ {0} : n = Len(fs) BY ReplaceList DEF Framed
<1>2. /\ IsList(gs) /\ Len(gs) = n /\ gs[n] = g /\ \A i \in 1 .. n - 1 : gs[i] = fs[i]
  <2>1. IsList(fs) BY DEF Framed
  <2>2. gs = Replace(fs, g) BY DEF Replace
  <2>3. /\ IsList(Replace(fs, g)) /\ Len(Replace(fs, g)) = Len(fs)
        /\ \A i \in 1 .. Len(fs) - 1 : Replace(fs, g)[i] = fs[i]
        /\ Replace(fs, g)[Len(fs)] = g
    BY ONLY <2>1, fs # <<>>, ReplaceList
  <2>. QED BY ONLY <1>1, <2>2, <2>3
<1>3. gs # <<>> /\ Last(gs) = g BY <1>1, <1>2, EmptySeq DEF Last
<1>4. Last(fs) = fs[n] BY <1>1 DEF Last
<1>5. \A i \in 1 .. n : /\ Fields \subseteq DOMAIN gs[i] /\ gs[i].kind = fs[i].kind
                        /\ gs[i].startif = fs[i].startif /\ gs[i].keep = fs[i].keep
  <2>. SUFFICES ASSUME NEW i \in 1 .. n
                PROVE  /\ Fields \subseteq DOMAIN gs[i] /\ gs[i].kind = fs[i].kind
                       /\ gs[i].startif = fs[i].startif /\ gs[i].keep = fs[i].keep
    OBVIOUS
  <2>1. CASE i = n BY <1>2, <1>4, <2>1 DEF SameFrame
  <2>2. CASE i # n
    <3>1. i \in 1 .. n - 1 BY <2>2
    <3>2. gs[i] = fs[i] BY <1>2, <3>1
    <3>. QED BY <1>1, <3>2 DEF Framed
  <2>. QED BY <2>1, <2>2
<1>6. 1 \in 1 .. n /\ \A i \in 2 .. n : i \in 1 .. n BY <1>1
<1>7. \A i \in 2 .. n : Entered(gs[i])
  BY <1>1, <1>5, <1>6, Zenon DEF Framed, Entered
<1>. QED BY <1>1, <1>2, <1>3, <1>5, <1>6, <1>7, Zenon DEF Framed

LEMMA Opened ==
  ASSUME NEW fs, Framed(fs), fs # <<>>, NEW f, Fields \subseteq DOMAIN f, Entered(f)
  PROVE  /\ Framed(Append(fs, f)) /\ Append(fs, f) # <<>> /\ Last(Append(fs, f)) = f
         /\ Len(Append(fs, f)) > 1
<1>1. PICK n \in Nat \ {0} : n = Len(fs) BY ReplaceList DEF Framed
<1>. DEFINE gs == Append(fs, f)
<1>2. IsList(gs) /\ Len(gs) = n + 1 /\ gs[n + 1] = f /\ \A i \in 1 .. n : gs[i] = fs[i]
  BY <1>1, AppendList DEF Framed
<1>. HIDE DEF gs
<1>3. gs # <<>> /\ Last(gs) = f BY <1>1, <1>2, EmptySeq DEF Last
<1>4. 1 \in 1 .. n /\ \A i \in 1 .. n + 1 : i \in 1 .. n \/ i = n + 1 BY <1>1
<1>5. \A i \in 2 .. n + 1 : (i \in 2 .. n /\ i \in 1 .. n) \/ i = n + 1 BY <1>1
<1>6. \A i \in 1 .. n + 1 : Fields \subseteq DOMAIN gs[i] BY <1>1, <1>2, <1>4, Zenon DEF Framed
<1>7. \A i \in 2 .. n + 1 : Entered(gs[i])
  <2>. SUFFICES ASSUME NEW i \in 2 .. n + 1 PROVE Entered(gs[i]) OBVIOUS
  <2>1. CASE i = n + 1
    <3>1. gs[i] = f BY <1>2, <2>1
    <3>. QED BY <3>1, Zenon
  <2>2. CASE i \in 2 .. n /\ i \in 1 .. n
    <3>1. gs[i] = fs[i] /\ Entered(fs[i]) BY <1>1, <1>2, <2>2, Zenon DEF Framed
    <3>. QED BY <3>1, Zenon
  <2>. QED BY <1>5, <2>1, <2>2
<1>8. gs[1].kind = "file" /\ gs[1].startif = 0 BY <1>2, <1>4, Zenon DEF Framed
<1>9. Framed(gs) BY <1>2, <1>6, <1>7, <1>8, Zenon DEF Framed
<1>10. Len(gs) > 1 BY <1>1, <1>2
<1>. QED BY <1>3, <1>9, <1>10 DEF gs

LEMMA Closed ==
  ASSUME NEW fs, Framed(fs), fs # <<>>
  PROVE  /\ Framed(Front(fs)) /\ (Front(fs) = <<>> <=> Len(fs) = 1)
         /\ Fields \subseteq DOMAIN Last(fs)
         /\ Len(fs) = 1 => Last(fs).kind = "file" /\ Last(fs).startif = 0
         /\ Len(fs) # 1 => Len(fs) > 1 /\ Entered(Last(fs))
<1>1. PICK n \in Nat \ {0} : n = Len(fs) BY ReplaceList DEF Framed
<1>. DEFINE gs == Front(fs)
<1>2. IsList(gs) /\ Len(gs) = n - 1 /\ \A i \in 1 .. n - 1 : gs[i] = fs[i]
  BY <1>1, FrontList DEF Framed
<1>. HIDE DEF gs
<1>3. gs = <<>> <=> n = 1
  <2>1. gs \in Seq(ToSet(gs)) BY <1>2 DEF IsList
  <2>. QED BY <1>1, <1>2, <2>1, EmptySeq
<1>4. Last(fs) = fs[n] /\ n \in 1 .. n BY <1>1 DEF Last
<1>5. n # 1 => n > 1 /\ n \in 2 .. n BY <1>1
<1>6. \A i \in 1 .. n - 1 : i \in 1 .. n BY <1>1
<1>7. \A i \in 2 .. n - 1 : i \in 1 .. n - 1 /\ i \in 2 .. n BY <1>1
<1>8. \A i \in 1 .. n - 1 : Fields \subseteq DOMAIN gs[i] BY <1>1, <1>2, <1>6, Zenon DEF Framed
<1>9. \A i \in 2 .. n - 1 : Entered(gs[i])
  <2>. SUFFICES ASSUME NEW i \in 2 .. n - 1 PROVE Entered(gs[i]) OBVIOUS
  <2>1. gs[i] = fs[i] BY <1>2, <1>7
  <2>2. Entered(fs[i]) BY <1>1, <1>7, Zenon DEF Framed
  <2>. QED BY <2>1, <2>2, Zenon
<1>10. n # 1 => gs[1] = fs[1]
  <2>1. n # 1 => 1 \in 1 .. n - 1 BY <1>1
  <2>. QED BY <1>2, <2>1
<1>11. Framed(gs) BY <1>2, <1>3, <1>8, <1>9, <1>10, Zenon DEF Framed
<1>12. Fields \subseteq DOMAIN fs[n] /\ (n # 1 => Entered(fs[n])) BY <1>1, <1>4, <1>5, Zenon DEF Framed
<1>13. n = 1 => fs[n].kind = "file" /\ fs[n].startif = 0 BY <1>1, Zenon DEF Framed
<1>. QED BY <1>1, <1>3, <1>4, <1>5, <1>11, <1>12, <1>13, Zenon DEF gs

\* After a block the same is next (rep), or the next one of the line, or none.
LEMMA Advanced ==
  ASSUME NEW fs, Framed(fs), fs # <<>>, NEW r, NEW t, Advance(fs, r, t)
  PROVE  \E g : /\ frames' = [fs EXCEPT ![Len(fs)] = g]
                /\ SameFrame(g, Last(fs)) /\ SameText(g, Last(fs))
                /\ \/ g.block = Last(fs).block
                   \/ g.block = Last(fs).block + 1 /\ Last(fs).block < Len(Text(Last(fs)))
                   \/ g.block = Done
<1>. DEFINE f == Last(fs)
<1>1. Fields \subseteq DOMAIN f BY Closed
<1>2. CASE f.left > 1
  <2>. DEFINE g == [f EXCEPT !.left = @ - 1]
  <2>1. frames' = [fs EXCEPT ![Len(fs)] = g] BY <1>2 DEF Advance
  <2>2. SameFrame(g, f) /\ SameText(g, f) /\ g.block = f.block
    BY <1>1 DEF SameFrame, SameText, Fields
  <2>. QED BY <2>1, <2>2
<1>3. CASE ~(f.left > 1)
  <2>. DEFINE more == f.block < Len(Text(f))
              g == [f EXCEPT !.block = IF more THEN @ + 1 ELSE Done, !.left = IF more THEN r ELSE 1]
  <2>1. frames' = [fs EXCEPT ![Len(fs)] = g] BY <1>3, Zenon DEF Advance
  <2>2. SameFrame(g, f) /\ SameText(g, f) /\ g.block = IF more THEN f.block + 1 ELSE Done
    BY <1>1 DEF SameFrame, SameText, Fields
  <2>. QED BY <2>1, <2>2
<1>. QED BY <1>2, <1>3

-----------------------------------------------------------------------------
(***************************************************************************)
(* The inductive invariant.  Once there has been an error only the arrays  *)
(* keep their shape.                                                       *)
(***************************************************************************)
Elses(e)  == e \in [1 .. MaxLevel -> BOOLEAN]
Kinds     == {"none", "while", "for"}
Marked(w) == "kind" \in DOMAIN w /\ w.kind \in Kinds
Whiles(w) == DOMAIN w = 0 .. MaxLevel /\ \A k \in 0 .. MaxLevel : Marked(w[k])
Arrays    == Elses(elsestatus) /\ Whiles(whilestatus)

\* A conditional that is on has had its branch, unless it is a loop.
Counters ==
  /\ numif \in Nat /\ numtrue \in 0 .. numif
  /\ \A k \in 1 .. numtrue : whilestatus[k - 1].kind = "none" => elsestatus[k]

\* What is left of a line behind a false inline condition is passed over by all
\* but the blocks in Ends, and of these one that makes the conditionals true is
\* the last block of its line.
Ends == {"elseif", "else", "endif", "endwhile"}
Row ==
  InLine => /\ fakeendif \in 0 .. numif
            /\ AtBlock /\ ~moreonlinecond
                 => ~Active \/ (Block.k \in Ends /\ ~MoreOnLine)
Running == Framed(frames) /\ (frames = <<>> => numif = 0) /\ Row
Sound ==
  /\ Counters
  /\ mode # "run" => numif = 0
  /\ mode = "run" => Running
IInv == errored \in BOOLEAN /\ Arrays /\ (~errored => Sound)

(***************************************************************************)
(* The arrays                                                              *)
(***************************************************************************)
LEMMA SetElse ==
  ASSUME NEW e, Elses(e), NEW i, NEW b \in BOOLEAN
  PROVE  Elses([e EXCEPT ![i] = b])
BY DEF Elses

LEMMA SetWhileArray ==
  ASSUME NEW ws, Whiles(ws), NEW i, NEW w, i \in 0 .. MaxLevel => Marked(w)
  PROVE  Whiles([ws EXCEPT ![i] = w])
BY DEF Whiles

LEMMA EntryKind ==
  \A kind \in Kinds : /\ Marked(Entry(kind))
                      /\ \A c : Marked([Entry(kind) EXCEPT !.cond = c])
BY DEF Entry, NoWhile, Marked

LEMMA ArraysStep ==
  ASSUME Arrays, [Next]_vars
  PROVE  Arrays'
<1>1. ASSUME UNCHANGED <<elsestatus, whilestatus>> PROVE Arrays' BY <1>1 DEF Arrays
<1>2. CASE UNCHANGED vars BY <1>1, <1>2 DEF vars, levels
<1>3. CASE \E p \in Programs[patches + 1] : CallPatch(p) BY <1>1, <1>3 DEF CallPatch, levels
<1>4. CASE FinishPass \/ StartPass BY <1>1, <1>4 DEF FinishPass, StartPass, levels
<1>5. CASE MacroLine \/ EndmacroLine \/ MacroBodyLine \/ BeginLine \/ EndLine
  BY <1>1, <1>5 DEF MacroLine, EndmacroLine, MacroBodyLine, BeginLine, EndLine, levels
<1>6. CASE EndFile \/ EndMacro BY <1>1, <1>6 DEF EndFile, EndMacro
<1>7. CASE RepeatedNever \/ SkipBlock \/ Inactive
  BY <1>1, <1>7 DEF RepeatedNever, SkipBlock, Inactive, Keeps, levels
<1>8. CASE Op \/ Rep \/ Error \/ Call \/ Incsrc \/ Includeonce
  BY <1>1, <1>8 DEF Op, Rep, Error, Call, Incsrc, Includeonce, Keeps, levels
<1>9. CASE IfWhile
  <2>. DEFINE kind == IF Block.k = "while" THEN "while" ELSE "none"
  <2>0. kind \in Kinds BY DEF Kinds
  <2>1. PICK c : SetWhile(Entry(kind)) \/ SetWhile([Entry(kind) EXCEPT !.cond = c])
    BY <1>9, Zenon DEF IfWhile
  <2>. HIDE DEF kind
  <2>2. Whiles(whilestatus') BY <2>0, <2>1, EntryKind, SetWhileArray DEF Arrays, SetWhile
  <2>3. \/ UNCHANGED elsestatus
        \/ \E b \in BOOLEAN : elsestatus' = [elsestatus EXCEPT ![numif + 1] = b]
    BY <1>9 DEF IfWhile, Concludes
  <2>4. Elses(elsestatus') BY <2>3, SetElse DEF Arrays
  <2>. QED BY <2>2, <2>4 DEF Arrays
<1>10. CASE AssertThat
  <2>1. SetWhile(Entry("none")) /\ UNCHANGED elsestatus BY <1>10 DEF AssertThat, Keeps
  <2>. QED BY <2>1, EntryKind, SetWhileArray DEF Arrays, SetWhile, Kinds
<1>11. CASE Elseif
  <2>1. SetWhile(Entry("none")) \/ UNCHANGED whilestatus BY <1>11, Zenon DEF Elseif
  <2>2. UNCHANGED elsestatus \/ elsestatus' = [elsestatus EXCEPT ![numif] = TRUE]
    BY <1>11, Zenon DEF Elseif
  <2>3. Whiles(whilestatus') BY <2>1, EntryKind, SetWhileArray DEF Arrays, SetWhile, Kinds
  <2>4. Elses(elsestatus') BY <2>2, SetElse DEF Arrays
  <2>. QED BY <2>3, <2>4 DEF Arrays
<1>12. CASE For
  <2>1. PICK w : /\ w = whilestatus[numif] \/ w = Entry("for")
                 /\ \/ SetWhile(w)
                    \/ \E a, b, c, d : SetWhile([w EXCEPT !.cur = a, !.end = b, !.cond = c, !.backup = d])
    BY <1>12, Zenon DEF For
  <2>2. numif \in 0 .. MaxLevel => Marked(w) BY <2>1, EntryKind DEF Arrays, Whiles, Kinds
  <2>3. \A a, b, c, d : numif \in 0 .. MaxLevel =>
           Marked([w EXCEPT !.cur = a, !.end = b, !.cond = c, !.backup = d])
    BY <2>2 DEF Marked
  <2>4. PICK v : SetWhile(v) /\ (numif \in 0 .. MaxLevel => Marked(v))
    BY <2>1, <2>2, <2>3, Zenon
  <2>5. Whiles(whilestatus') BY <2>4, SetWhileArray DEF Arrays, SetWhile
  <2>. QED BY <1>12, <2>5 DEF Arrays, For, Keeps
<1>13. CASE End
  <2>. DEFINE n == numif - 1
  <2>1. UNCHANGED whilestatus \/ whilestatus' = [whilestatus EXCEPT ![numif - 1].cur = whilestatus[numif - 1].end, ![numif - 1].cond = FALSE]
    BY <1>13, Zenon DEF End
  <2>2. Whiles(whilestatus') BY <2>1 DEF Arrays, Whiles, Marked
  <2>. QED BY <1>13, <2>2 DEF Arrays, End, Keeps
<1>14. CASE Else
  <2>1. UNCHANGED elsestatus \/ elsestatus' = [elsestatus EXCEPT ![numif] = TRUE]
    BY <1>14, Zenon DEF Else
  <2>2. Elses(elsestatus') BY <2>1, SetElse DEF Arrays
  <2>. QED BY <1>14, <2>2 DEF Arrays, Else, Keeps
<1>. QED
  BY <1>2, <1>3, <1>4, <1>5, <1>6, <1>7, <1>8, <1>9, <1>10, <1>11, <1>12, <1>13, <1>14
  DEF Next, Step

(***************************************************************************)
(* The line                                                                *)
(***************************************************************************)
LEMMA AdvancedFramed ==
  ASSUME NEW fs, Framed(fs), fs # <<>>, NEW r, NEW t, Advance(fs, r, t)
  PROVE  Framed(frames') /\ frames' # <<>>
BY Advanced, Replaced

\* A step from one block of a line to the next.
LEMMA NextRow ==
  ASSUME Framed(frames), AtBlock, NEW r, NEW t, Advance(frames, r, t),
         prog' = prog,
         numif' \in Nat, fakeendif' \in 0 .. numif',
         moreonlinecond' \/ numif' # numtrue' \/ (Block.k \in Ends /\ ~MoreOnLine)
  PROVE  Running'
<1>1. frames # <<>> BY DEF AtBlock, InLine
<1>2. PICK g : /\ frames' = [frames EXCEPT ![Len(frames)] = g]
               /\ SameFrame(g, top) /\ SameText(g, top)
               /\ \/ g.block = top.block
                  \/ g.block = top.block + 1 /\ top.block < Len(Text(top))
                  \/ g.block = Done
  BY <1>1, Advanced DEF top
<1>3. Framed(frames') /\ frames' # <<>> /\ top' = g BY <1>1, <1>2, Replaced DEF top
<1>4. Text(top)' = Text(top) BY <1>2, <1>3 DEF Text, SameText
<1>5. ASSUME AtBlock', ~moreonlinecond', ~(numif' # numtrue')
      PROVE  Block'.k \in Ends /\ ~MoreOnLine'
  <2>1. ~MoreOnLine /\ Block.k \in Ends BY <1>5
  <2>2. top'.block = top.block BY <1>2, <1>3, <1>5, <2>1 DEF AtBlock, Done, MoreOnLine
  <2>3. Block' = Block /\ MoreOnLine' = MoreOnLine BY <1>4, <2>2 DEF Block, MoreOnLine
  <2>. QED BY <2>1, <2>3
<1>. QED BY <1>3, <1>5 DEF Running, Row, Active

\* A step to a state between two lines, or behind a block that has been included.
LEMMA FreshRow ==
  ASSUME Framed(frames'), frames' # <<>>,
         InLine' => moreonlinecond' /\ fakeendif' \in 0 .. numif'
  PROVE  Running'
BY DEF Running, Row

LEMMA WithTopFramed ==
  ASSUME Framed(frames), frames # <<>>, NEW g, SameFrame(g, top), frames' = WithTop(g)
  PROVE  Framed(frames') /\ frames' # <<>> /\ top' = g
BY Replaced DEF WithTop, top

-----------------------------------------------------------------------------
(***************************************************************************)
(* The stack that the counters stand for                                   *)
(***************************************************************************)
AllOn(s) == \A i \in DOMAIN s : s[i] = "on"
Below(s) == SubSeq(s, 1, Len(s) - 1)
Pushes(s, t) ==
  \E x \in Abstract!Status : /\ x \in (IF AllOn(s) THEN {"on", "seek", "off"} ELSE {"off"})
                             /\ t = Append(s, x)
Pops(s, t) == s # <<>> /\ t = Below(s)
Switches(s, t) ==
  /\ s # <<>>
  /\ \/ AllOn(s) /\ t = Append(Below(s), "done")
     \/ s[Len(s)] = "seek" /\ t = Append(Below(s), "on")

\* What sequences are when they agree below the last element.
LEMMA OneMore ==
  ASSUME NEW S, NEW s \in Seq(S), NEW t \in Seq(S), NEW n \in Nat, Len(s) = n, Len(t) = n + 1,
         \A i \in 1 .. n : t[i] = s[i]
  PROVE  t = Append(s, t[n + 1])
<1>1. t[n + 1] \in S BY ElementOfSeq
<1>2. Append(s, t[n + 1]) \in Seq(S) /\ Len(Append(s, t[n + 1])) = n + 1 BY <1>1
<1>3. \A i \in 1 .. n + 1 : t[i] = Append(s, t[n + 1])[i] BY <1>1
<1>. QED BY <1>2, <1>3, SeqEqual

LEMMA OneLess ==
  ASSUME NEW S, NEW s \in Seq(S), NEW t \in Seq(S), NEW n \in Nat, Len(s) = n + 1, Len(t) = n,
         \A i \in 1 .. n : t[i] = s[i]
  PROVE  t = Below(s) /\ s # <<>>
<1>1. s # <<>> BY EmptySeq
<1>2. \A i \in 1 .. n : s[i] \in S /\ i \in 1 .. n + 1 BY ElementOfSeq
<1>3. /\ Below(s) \in Seq(S) /\ Len(Below(s)) = IF 1 <= n THEN n - 1 + 1 ELSE 0
      /\ \A i \in 1 .. n - 1 + 1 : Below(s)[i] = s[1 + i - 1]
  BY <1>2, SubSeqProperties DEF Below
<1>4. Len(Below(s)) = n BY <1>3
<1>5. \A i \in 1 .. n : t[i] = Below(s)[i] BY <1>3
<1>. QED BY <1>1, <1>3, <1>4, <1>5, SeqEqual

LEMMA LastOther ==
  ASSUME NEW S, NEW s \in Seq(S), NEW t \in Seq(S), NEW n \in Nat, Len(s) = n + 1, Len(t) = n + 1,
         \A i \in 1 .. n : t[i] = s[i]
  PROVE  t = Append(Below(s), t[n + 1]) /\ s # <<>>
<1>1. s # <<>> BY EmptySeq
<1>2. \A i \in 1 .. n : s[i] \in S /\ i \in 1 .. n + 1 BY ElementOfSeq
<1>3. /\ Below(s) \in Seq(S) /\ Len(Below(s)) = IF 1 <= n THEN n - 1 + 1 ELSE 0
      /\ \A i \in 1 .. n - 1 + 1 : Below(s)[i] = s[1 + i - 1]
  BY <1>2, SubSeqProperties DEF Below
<1>4. Len(Below(s)) = n BY <1>3
<1>5. \A i \in 1 .. n : t[i] = Below(s)[i] BY <1>3
<1>. QED BY <1>1, <1>3, <1>4, <1>5, OneMore

Shape == /\ StackOf \in Seq(Abstract!Status) /\ Len(StackOf) = numif
         /\ DOMAIN StackOf = 1 .. numif
         /\ AllOn(StackOf) <=> Active
         /\ numif = 0 <=> StackOf = <<>>
LEMMA StackShape == Counters => Shape
<1>. SUFFICES ASSUME Counters PROVE Shape OBVIOUS
<1>1. StackOf \in [1 .. numif -> Abstract!Status] BY DEF StackOf, Abstract!Status
<1>2. StackOf \in Seq(Abstract!Status) BY <1>1, SeqDef DEF Counters
<1>3. Len(StackOf) = numif /\ DOMAIN StackOf = 1 .. numif BY <1>1, <1>2 DEF Counters
<1>4. AllOn(StackOf) <=> Active
  <2>1. CASE Active BY <1>3, <2>1 DEF AllOn, Active, StackOf, Counters
  <2>2. CASE ~Active
    <3>1. numtrue + 1 \in 1 .. numif /\ ~(numtrue + 1 <= numtrue) BY <2>2 DEF Active, Counters
    <3>2. StackOf[numtrue + 1] # "on" BY <3>1 DEF StackOf
    <3>. QED BY <1>3, <2>2, <3>1, <3>2 DEF AllOn
  <2>. QED BY <2>1, <2>2
<1>5. numif = 0 <=> StackOf = <<>> BY <1>2, <1>3, EmptySeq
<1>. QED BY <1>2, <1>3, <1>4, <1>5 DEF Shape

\* What the arrays hold for the first n conditionals.
SameArrays(n) ==
  /\ \A k \in 1 .. n : whilestatus'[k - 1] = whilestatus[k - 1]
  /\ \A k \in 1 .. n : elsestatus'[k] = elsestatus[k]

LEMMA SameStack ==
  ASSUME Counters, numif' = numif, numtrue' = numtrue, SameArrays(numif)
  PROVE  Counters' /\ StackOf' = StackOf
<1>1. Counters' BY DEF Counters, SameArrays
<1>2. StackOf' = StackOf BY Zenon DEF StackOf, SameArrays
<1>. QED BY <1>1, <1>2

\* A conditional is opened: on, or waiting for a branch, or off.
LEMMA PushStep ==
  ASSUME Counters, numif' = numif + 1, SameArrays(numif),
         \/ numtrue' = numtrue + 1 /\ Active
         \/ numtrue' = numtrue,
         whilestatus'[numif].kind = "none" /\ Active
            => (elsestatus'[numif + 1] <=> numtrue' = numtrue + 1)
  PROVE  Counters' /\ Pushes(StackOf, StackOf')
<1>1. Counters'
  <2>1. numif' \in Nat /\ numtrue' \in 0 .. numif' BY DEF Counters, Active
  <2>2. ASSUME NEW k \in 1 .. numtrue', whilestatus'[k - 1].kind = "none" PROVE elsestatus'[k]
    <3>1. CASE k \in 1 .. numtrue
      BY <2>2, <3>1 DEF Counters, SameArrays
    <3>2. CASE k = numif + 1 /\ Active /\ numtrue' = numtrue + 1
      <4>1. k - 1 = numif BY <3>2 DEF Counters
      <4>. QED BY <2>2, <3>2, <4>1
    <3>. QED BY <3>1, <3>2 DEF Counters, Active
  <2>. QED BY <2>1, <2>2 DEF Counters
<1>. DEFINE s == StackOf
            t == StackOf'
<1>2. s \in Seq(Abstract!Status) /\ Len(s) = numif /\ (AllOn(s) <=> Active) BY StackShape DEF Shape
<1>3. t \in Seq(Abstract!Status) /\ Len(t) = numif + 1 /\ DOMAIN t = 1 .. numif + 1
  <2>1. Shape' BY <1>1, StackShape, PTL
  <2>. QED BY <2>1 DEF Shape
<1>4. \A k \in 1 .. numif : t[k] = s[k]
  <2>. SUFFICES ASSUME NEW k \in 1 .. numif PROVE t[k] = s[k] OBVIOUS
  <2>1. k \in 1 .. numif' BY DEF Counters
  <2>2. k <= numtrue' <=> k <= numtrue BY DEF Counters, Active
  <2>3. (k > numtrue' + 1 <=> k > numtrue + 1) \/ k <= numtrue BY DEF Counters, Active
  <2>4. whilestatus'[k - 1] = whilestatus[k - 1] /\ elsestatus'[k] = elsestatus[k]
    BY DEF SameArrays
  <2>. QED BY <2>1, <2>2, <2>3, <2>4, Zenon DEF StackOf
<1>5. t[numif + 1] \in (IF AllOn(s) THEN {"on", "seek", "off"} ELSE {"off"})
  <2>1. numif + 1 \in 1 .. numif' BY DEF Counters
  <2>2. t[numif + 1] = IF numif + 1 <= numtrue' THEN "on"
                       ELSE IF numif + 1 > numtrue' + 1 \/ whilestatus'[(numif + 1) - 1].kind # "none" THEN "off"
                       ELSE IF elsestatus'[numif + 1] THEN "done" ELSE "seek"
    BY <2>1, Zenon DEF StackOf
  <2>3. (numif + 1) - 1 = numif BY DEF Counters
  <2>4. CASE ~Active
    <3>1. numif + 1 > numtrue' + 1 /\ ~(numif + 1 <= numtrue') BY <2>4 DEF Active, Counters
    <3>. QED BY <1>2, <2>2, <2>4, <3>1
  <2>5. CASE Active /\ numtrue' = numtrue + 1
    <3>1. numif + 1 <= numtrue' BY <2>5 DEF Active, Counters
    <3>. QED BY <1>2, <2>2, <2>5, <3>1
  <2>6. CASE Active /\ numtrue' = numtrue
    <3>1. numtrue' # numtrue + 1 BY <2>6 DEF Counters
    <3>. QED BY <1>2, <2>2, <2>3, <2>6, <3>1
  <2>. QED BY <2>4, <2>5, <2>6
<1>6. numif \in Nat BY DEF Counters
<1>. HIDE DEF s, t
<1>7. t = Append(s, t[numif + 1]) BY <1>2, <1>3, <1>4, <1>6, OneMore
<1>8. t[numif + 1] \in Abstract!Status BY <1>5 DEF Abstract!Status
<1>9. Pushes(s, t) BY <1>5, <1>7, <1>8, Zenon DEF Pushes
<1>. QED BY <1>1, <1>9 DEF s, t

\* The innermost conditional is closed.
LEMMA PopStep ==
  ASSUME Counters, numif > 0, numif' = numif - 1, SameArrays(numif - 1),
         numtrue' = IF Active THEN numtrue - 1 ELSE numtrue
  PROVE  Counters' /\ Pops(StackOf, StackOf')
<1>1. numif' \in Nat /\ numtrue' \in 0 .. numif' /\ numif = numif' + 1 BY DEF Counters, Active
<1>2. Counters'
  <2>1. \A k \in 1 .. numtrue' : k \in 1 .. numif - 1 /\ k \in 1 .. numtrue BY <1>1 DEF Counters, Active
  <2>. QED BY <1>1, <2>1, Zenon DEF Counters, SameArrays
<1>. DEFINE s == StackOf
            t == StackOf'
<1>3. s \in Seq(Abstract!Status) /\ Len(s) = numif BY StackShape DEF Shape
<1>4. t \in Seq(Abstract!Status) /\ Len(t) = numif'
  <2>1. Shape' BY <1>2, StackShape, PTL
  <2>. QED BY <2>1 DEF Shape
<1>5. \A k \in 1 .. numif' : t[k] = s[k]
  <2>. SUFFICES ASSUME NEW k \in 1 .. numif' PROVE t[k] = s[k] OBVIOUS
  <2>1. k \in 1 .. numif /\ k \in 1 .. numif - 1 BY <1>1
  <2>2. k <= numtrue' <=> k <= numtrue BY <1>1 DEF Counters, Active
  <2>3. (k > numtrue' + 1 <=> k > numtrue + 1) \/ k <= numtrue BY <1>1 DEF Counters, Active
  <2>4. whilestatus'[k - 1] = whilestatus[k - 1] /\ elsestatus'[k] = elsestatus[k]
    BY <2>1 DEF SameArrays
  <2>. QED BY <2>1, <2>2, <2>3, <2>4, Zenon DEF StackOf
<1>. HIDE DEF s, t
<1>6. t = Below(s) /\ s # <<>> BY <1>1, <1>3, <1>4, <1>5, OneLess
<1>. QED BY <1>2, <1>6 DEF Pops, s, t

\* The next branch of the innermost conditional, an if: it has had one, or has one now.
LEMMA SwitchStep ==
  ASSUME Counters, numif > 0, numif' = numif, SameArrays(numif - 1),
         whilestatus[numif - 1].kind = "none", whilestatus'[numif - 1] = whilestatus[numif - 1],
         \/ /\ Active /\ numtrue' = numtrue - 1
            /\ elsestatus'[numif] = elsestatus[numif]
         \/ /\ numif = numtrue + 1 /\ ~elsestatus[numif]
            /\ numtrue' = numtrue + 1 /\ elsestatus'[numif]
  PROVE  Counters' /\ Switches(StackOf, StackOf')
<1>1. numif' \in Nat /\ numtrue' \in 0 .. numif' /\ numif \in Nat BY DEF Counters, Active
<1>2. PICK n \in Nat : numif = n + 1
  <2>1. numif - 1 \in Nat /\ numif = (numif - 1) + 1 BY <1>1
  <2>. QED BY <2>1
<1>3. numif - 1 = n BY <1>2
<1>4. Active => elsestatus[numif]
  <2>1. Active => numif \in 1 .. numtrue BY <1>1 DEF Active
  <2>. QED BY <2>1, Zenon DEF Counters
<1>5. Counters'
  <2>1. ASSUME NEW k \in 1 .. numtrue', whilestatus'[k - 1].kind = "none" PROVE elsestatus'[k]
    <3>1. CASE k \in 1 .. numtrue /\ k \in 1 .. numif - 1
      BY <2>1, <3>1, Zenon DEF Counters, SameArrays
    <3>2. CASE k = numif /\ numtrue' = numtrue + 1
      BY <3>2, <1>1, <1>2, <1>3 DEF Active, Counters
    <3>. QED BY <1>1, <3>1, <3>2 DEF Counters, Active
  <2>. QED BY <1>1, <2>1 DEF Counters
<1>. DEFINE s == StackOf
            t == StackOf'
<1>6. s \in Seq(Abstract!Status) /\ Len(s) = n + 1 /\ (AllOn(s) <=> Active) BY <1>2, StackShape DEF Shape
<1>7. t \in Seq(Abstract!Status) /\ Len(t) = n + 1
  <2>1. Shape' BY <1>5, StackShape, PTL
  <2>. QED BY <1>2, <2>1 DEF Shape
<1>8. \A k \in 1 .. n : t[k] = s[k]
  <2>. SUFFICES ASSUME NEW k \in 1 .. n PROVE t[k] = s[k] OBVIOUS
  <2>1. k \in 1 .. numif /\ k \in 1 .. numif' /\ k \in 1 .. numif - 1 BY <1>2
  <2>2. k <= numtrue' /\ k <= numtrue BY <1>1, <1>2 DEF Counters, Active
  <2>. QED BY <2>1, <2>2, Zenon DEF StackOf
<1>9. numif \in 1 .. numif /\ numif \in 1 .. numif' BY <1>2
<1>10. CASE Active /\ numtrue' = numtrue - 1 /\ elsestatus'[numif] = elsestatus[numif]
  <2>1. ~(numif <= numtrue') /\ ~(numif > numtrue' + 1) BY <1>1, <1>10 DEF Active, Counters
  <2>2. t[numif] = "done" BY <1>4, <1>9, <1>10, <2>1 DEF StackOf
  <2>. HIDE DEF s, t
  <2>3. t = Append(Below(s), "done") /\ s # <<>> BY <1>2, <1>6, <1>7, <1>8, <2>2, LastOther
  <2>4. Switches(s, t) BY <1>6, <1>10, <2>3 DEF Switches
  <2>. QED BY <1>5, <2>4 DEF s, t
<1>11. CASE /\ numif = numtrue + 1 /\ ~elsestatus[numif]
            /\ numtrue' = numtrue + 1 /\ elsestatus'[numif]
  <2>1. numif <= numtrue' /\ ~(numif <= numtrue) /\ ~(numif > numtrue + 1) BY <1>1, <1>11 DEF Counters
  <2>2. t[numif] = "on" /\ s[numif] = "seek" BY <1>9, <1>11, <2>1 DEF StackOf
  <2>. HIDE DEF s, t
  <2>3. t = Append(Below(s), "on") /\ s # <<>> BY <1>2, <1>6, <1>7, <1>8, <2>2, LastOther
  <2>4. Switches(s, t) BY <1>2, <1>6, <2>2, <2>3 DEF Switches
  <2>. QED BY <1>5, <2>4 DEF s, t
<1>. QED BY <1>10, <1>11

-----------------------------------------------------------------------------
(***************************************************************************)
(* Which steps of the stack the steps of a patch are                       *)
(***************************************************************************)
Promised == [Abstract!Next]_(Abstract!vars)

LEMMA Fails ==
  ASSUME errored' = TRUE
  PROVE  Promised
BY DEF Promised, Abstract!Next, Abstract!Fail

LEMMA Moves ==
  ASSUME errored = FALSE, errored' = FALSE, CommandMet = <<>>,
         mode # "pass", mode' # "pass", out' = out,
         \/ StackOf' = StackOf
         \/ Pushes(StackOf, StackOf')
         \/ Pops(StackOf, StackOf')
         \/ Switches(StackOf, StackOf')
  PROVE  Promised
<1>1. CASE StackOf' = StackOf
  BY <1>1 DEF Promised, Abstract!Next, Abstract!Move
<1>2. CASE Pushes(StackOf, StackOf')
  <2>1. Abstract!Open BY <1>2 DEF Pushes, AllOn, Abstract!Open, Abstract!AllOn
  <2>. QED BY <2>1 DEF Promised, Abstract!Next, Abstract!Move
<1>3. CASE Pops(StackOf, StackOf')
  <2>1. Abstract!Close BY <1>3 DEF Pops, Below, Abstract!Close, Abstract!Outer
  <2>. QED BY <2>1 DEF Promised, Abstract!Next, Abstract!Move
<1>4. CASE Switches(StackOf, StackOf')
  <2>1. Abstract!NextBranch
    BY <1>4 DEF Switches, AllOn, Below, Abstract!NextBranch, Abstract!AllOn, Abstract!Top, Abstract!Outer
  <2>. QED BY <2>1 DEF Promised, Abstract!Next, Abstract!Move
<1>. QED BY <1>1, <1>2, <1>3, <1>4

\* A command is met: executed when the counters are equal, and passed over otherwise.
LEMMA Meets ==
  ASSUME Counters, errored = FALSE, errored' = FALSE, CommandMet # <<>>,
         mode # "pass", mode' # "pass", StackOf' = StackOf,
         out' = IF Active THEN Append(out, CommandMet[1]) ELSE out
  PROVE  Promised
<1>1. Abstract!AllOn <=> Active BY StackShape DEF Shape, AllOn, Abstract!AllOn
<1>. QED BY <1>1 DEF Promised, Abstract!Next, Abstract!Meet

LEMMA StartsOver ==
  ASSUME errored' = FALSE, errored \in BOOLEAN, errored = FALSE => StackOf = <<>>, StackOf' = <<>>,
         CommandMet' = <<>>, mode' = "pass" \/ out' = <<>>
  PROVE  Promised
<1>1. Abstract!Start
  <2>1. (IF errored' THEN <<>> ELSE StackOf') = <<>> BY Zenon
  <2>2. (IF errored' THEN <<>> ELSE CommandMet') = <<>> BY Zenon
  <2>3. (IF errored' \/ mode' = "pass" THEN <<>> ELSE out') = <<>> BY Zenon
  <2>4. (IF errored THEN <<>> ELSE StackOf) = <<>> \/ errored BY Zenon
  <2>. QED BY <2>1, <2>2, <2>3, <2>4 DEF Abstract!Start
<1>. QED BY <1>1 DEF Promised, Abstract!Next

\* A step that leaves the conditionals alone and meets a command that is passed over,
\* or none.
LEMMA Passes ==
  ASSUME Counters, errored = FALSE, errored' = FALSE, mode # "pass", mode' # "pass",
         UNCHANGED <<levels, out>>, CommandMet = <<>> \/ ~Active
  PROVE  Counters' /\ Promised
<1>1. Counters' /\ StackOf' = StackOf BY SameStack DEF levels, SameArrays
<1>2. CASE CommandMet = <<>> BY <1>1, <1>2, Moves
<1>3. CASE CommandMet # <<>> /\ ~Active BY <1>1, <1>3, Meets
<1>. QED BY <1>1, <1>2, <1>3

-----------------------------------------------------------------------------
(***************************************************************************)
(* The steps                                                               *)
(***************************************************************************)
LEMMA NoCommand == (~AtBlock => CommandMet = <<>>) /\ (~AtBlock' => CommandMet' = <<>>)
BY DEF CommandMet

LEMMA EmptyStack == (numif = 0 => StackOf = <<>>) /\ (numif' = 0 => StackOf' = <<>>)
BY DEF StackOf

LEMMA CallPatchStep ==
  ASSUME NEW p, CallPatch(p), errored \in BOOLEAN, errored = FALSE => Sound, StartsClosed'
  PROVE  errored' = FALSE /\ Sound' /\ Promised
<1>1. errored' = FALSE /\ mode = "idle" /\ mode' = "pass" BY DEF CallPatch
<1>2. numif' = 0 /\ numtrue' = 0 BY <1>1 DEF StartsClosed
<1>3. Sound' BY <1>1, <1>2 DEF Sound, Counters
<1>4. errored = FALSE => StackOf = <<>> BY <1>1, EmptyStack DEF Sound
<1>5. StackOf' = <<>> BY <1>2, EmptyStack
<1>6. CommandMet' = <<>>
  <2>1. ~AtBlock' BY <1>1 DEF AtBlock, InLine
  <2>. QED BY <2>1, NoCommand
<1>. QED BY <1>1, <1>3, <1>4, <1>5, <1>6, StartsOver

LEMMA StartPassStep ==
  ASSUME Sound, errored = FALSE, errored' = FALSE, StartPass
  PROVE  Sound' /\ Promised
<1>1. /\ mode = "pass" /\ mode' = "run" /\ out' = <<>> /\ UNCHANGED levels
      /\ frames' = <<Frame("file", Root, 1, Len(prog.files[Root]))>>
  BY DEF StartPass
<1>2. numif = 0 /\ numif' = 0 BY <1>1 DEF Sound, levels
<1>. DEFINE f == Frame("file", Root, 1, Len(prog.files[Root]))
<1>3. f.kind = "file" /\ f.startif = 0 /\ f.block = 0 /\ Fields \subseteq DOMAIN f
  BY <1>2 DEF Frame, Fields
<1>. HIDE DEF f
<1>4. IsList(frames') /\ Len(frames') = 1 /\ frames'[1] = f /\ frames' # <<>>
  BY <1>1, OneList DEF f
<1>5. Framed(frames') BY <1>3, <1>4 DEF Framed
<1>6. ~InLine' BY <1>3, <1>4 DEF InLine, top, Last
<1>7. Counters' /\ StackOf' = StackOf
  <2>1. Counters BY DEF Sound
  <2>. QED BY <1>1, <2>1, SameStack DEF levels, SameArrays
<1>8. Sound' BY <1>1, <1>4, <1>5, <1>6, <1>7, FreshRow DEF Sound
<1>9. StackOf = <<>> /\ CommandMet' = <<>>
  <2>1. ~AtBlock' BY <1>6 DEF AtBlock
  <2>2. CommandMet' = <<>> BY <2>1, NoCommand
  <2>. QED BY <1>2, <2>2, EmptyStack
<1>. QED BY <1>1, <1>7, <1>8, <1>9, StartsOver

LEMMA FinishPassStep ==
  ASSUME Sound, errored = FALSE, errored' = FALSE, FinishPass
  PROVE  Sound' /\ Promised
<1>1. /\ mode = "run" /\ frames = <<>> /\ UNCHANGED <<levels, out>>
      /\ mode' = "pass" \/ mode' = "idle"
  BY DEF FinishPass
<1>2. Counters /\ numif = 0 BY <1>1 DEF Sound, Running
<1>3. Counters' /\ StackOf' = StackOf BY <1>1, <1>2, SameStack DEF levels, SameArrays
<1>4. Sound' BY <1>1, <1>2, <1>3 DEF Sound, levels
<1>5. CommandMet = <<>> /\ CommandMet' = <<>>
  <2>1. ~AtBlock /\ ~AtBlock' BY <1>1 DEF AtBlock, InLine
  <2>2. CommandMet' = <<>> BY <2>1, NoCommand
  <2>. QED BY <2>1, <2>2, NoCommand
<1>6. out' = out /\ StackOf = <<>> /\ StackOf' = <<>> BY <1>1, <1>2, <1>3, EmptyStack
<1>7. CASE mode' = "pass" BY <1>4, <1>5, <1>6, <1>7, StartsOver
<1>8. CASE mode' = "idle" BY <1>1, <1>4, <1>5, <1>6, <1>8, Moves
<1>. QED BY <1>1, <1>7, <1>8

\* Between two lines no command is met.
LEMMA BetweenQuiet ==
  \A kind : Between(kind) => mode = "run" /\ frames # <<>> /\ top.block = 0 /\ CommandMet = <<>>
BY DEF Between, CommandMet, AtBlock, InLine

\* A step to another line of the same frame.
LEMMA NextLineStep ==
  ASSUME Sound, errored = FALSE, errored' = FALSE, mode = "run", mode' = "run",
         frames # <<>>, CommandMet = <<>>, UNCHANGED <<levels, out>>,
         NEW g, SameFrame(g, top), frames' = WithTop(g),
         g.block # 0 => moreonlinecond' /\ fakeendif' \in 0 .. numif
  PROVE  Sound' /\ Promised
<1>1. Counters /\ Framed(frames) BY DEF Sound, Running
<1>2. Framed(frames') /\ frames' # <<>> /\ top' = g BY <1>1, WithTopFramed
<1>3. Counters' /\ Promised BY <1>1, Passes
<1>4. InLine' => g.block # 0 BY <1>2 DEF InLine
<1>5. Running' BY <1>2, <1>4, FreshRow DEF levels
<1>. QED BY <1>3, <1>5 DEF Sound

LEMMA TopFields ==
  ASSUME Sound, mode = "run", frames # <<>>
  PROVE  Fields \subseteq DOMAIN top
BY Closed DEF Sound, Running, top

LEMMA MacroLinesStep ==
  ASSUME Sound, errored = FALSE, errored' = FALSE, MacroLine \/ EndmacroLine \/ MacroBodyLine
  PROVE  Sound' /\ Promised
<1>1. /\ Between("file") /\ UNCHANGED <<levels, out, mode>>
  BY DEF MacroLine, EndmacroLine, MacroBodyLine
<1>2. mode = "run" /\ frames # <<>> /\ top.block = 0 /\ CommandMet = <<>> BY <1>1, BetweenQuiet
<1>3. Fields \subseteq DOMAIN top BY <1>2, TopFields
<1>4. PICK a, b, c, d :
        \/ frames' = WithTop([top EXCEPT !.at = a])
        \/ frames' = WithTop([top EXCEPT !.at = a, !.defining = b])
        \/ frames' = WithTop([[top EXCEPT !.at = a] EXCEPT !.defining = b, !.first = c, !.recording = d])
  BY Zenon DEF MacroLine, EndmacroLine, MacroBodyLine
<1>5. PICK g : frames' = WithTop(g) /\ SameFrame(g, top) /\ g.block = 0
  <2>. DEFINE g1 == [top EXCEPT !.at = a]
              g2 == [top EXCEPT !.at = a, !.defining = b]
              g3 == [g1 EXCEPT !.defining = b, !.first = c, !.recording = d]
  <2>1. /\ SameFrame(g1, top) /\ g1.block = 0
        /\ SameFrame(g2, top) /\ g2.block = 0
        /\ SameFrame(g3, top) /\ g3.block = 0
    BY <1>2, <1>3 DEF SameFrame, Fields
  <2>2. frames' = WithTop(g1) \/ frames' = WithTop(g2) \/ frames' = WithTop(g3) BY <1>4
  <2>. HIDE DEF g1, g2, g3
  <2>. QED BY <2>1, <2>2
<1>. QED BY <1>1, <1>2, <1>5, NextLineStep

LEMMA BeginLineStep ==
  ASSUME Sound, errored = FALSE, errored' = FALSE, BeginLine
  PROVE  Sound' /\ Promised
<1>1. mode = "run" /\ frames # <<>> /\ CommandMet = <<>> BY BetweenQuiet DEF BeginLine
<1>2. UNCHANGED <<levels, out>> BY DEF BeginLine
<1>3. Fields \subseteq DOMAIN top BY <1>1, TopFields
<1>. DEFINE f == [top EXCEPT !.prevnumif = numif, !.val = loopvar, !.aborted = FALSE]
<1>4. PICK d, e : /\ frames' = WithTop([f EXCEPT !.block = d, !.left = e])
                  /\ mode' = mode /\ moreonlinecond' = TRUE /\ fakeendif' = 0
  <2>1. ~Fatal BY DEF Fatal
  <2>2. ~(Active /\ NeedsVar /\ loopvar = None) BY <2>1, Zenon DEF BeginLine
  <2>. QED BY <2>1, <2>2, Zenon DEF BeginLine
<1>5. PICK g : frames' = WithTop(g) /\ SameFrame(g, top)
  <2>. DEFINE g == [f EXCEPT !.block = d, !.left = e]
  <2>1. SameFrame(g, top) BY <1>3 DEF SameFrame, Fields
  <2>. QED BY <1>4, <2>1
<1>6. 0 \in 0 .. numif BY DEF Sound, Counters
<1>. QED BY <1>1, <1>2, <1>4, <1>5, <1>6, NextLineStep

\* The end of a line closes an inline if that has no endif.
LEMMA EndLineStep ==
  ASSUME Sound, errored = FALSE, errored' = FALSE, EndLine
  PROVE  Sound' /\ Promised
<1>1. /\ InLine /\ top.block = Done /\ UNCHANGED <<mode, out, elsestatus, whilestatus>>
      /\ numif' = LevelAfter
      /\ numtrue' = IF Unclosed /\ Active THEN numtrue - 1 ELSE numtrue
  BY DEF EndLine, LineDone
<1>2. mode = "run" /\ frames # <<>> /\ CommandMet = <<>>
  <2>1. ~AtBlock BY <1>1 DEF AtBlock, Done
  <2>. QED BY <1>1, <2>1, NoCommand DEF InLine
<1>3. Counters /\ Framed(frames) /\ fakeendif \in 0 .. numif /\ numif \in Nat
  BY <1>1, <1>2 DEF Sound, Running, Row, Counters
<1>4. Counters' /\ Promised
  <2>1. CASE Unclosed
    <3>1. numif > 0 BY <1>3, <2>1 DEF Unclosed
    <3>2. SameArrays(numif - 1) BY <1>1 DEF SameArrays
    <3>3. Counters' /\ Pops(StackOf, StackOf')
      BY <1>1, <1>3, <2>1, <3>1, <3>2, PopStep DEF LevelAfter
    <3>. QED BY <1>1, <1>2, <3>3, Moves
  <2>2. CASE ~Unclosed
    <3>1. SameArrays(numif) BY <1>1 DEF SameArrays
    <3>2. Counters' /\ StackOf' = StackOf BY <1>1, <1>3, <2>2, <3>1, SameStack DEF LevelAfter
    <3>. QED BY <1>1, <1>2, <3>2, Moves
  <2>. QED BY <2>1, <2>2
<1>5. PICK a : frames' = WithTop([top EXCEPT !.block = 0, !.left = 1, !.at = a])
  BY Zenon DEF EndLine
<1>. DEFINE g == [top EXCEPT !.block = 0, !.left = 1, !.at = a]
<1>6. SameFrame(g, top) /\ g.block = 0
  <2>1. Fields \subseteq DOMAIN top BY <1>2, TopFields
  <2>. QED BY <2>1 DEF SameFrame, Fields
<1>. HIDE DEF g
<1>7. Framed(frames') /\ frames' # <<>> /\ top' = g
  BY <1>2, <1>3, <1>5, <1>6, WithTopFramed DEF g
<1>8. Running'
  <2>1. ~InLine' BY <1>6, <1>7 DEF InLine
  <2>. QED BY <1>7, <2>1, FreshRow
<1>. QED BY <1>1, <1>2, <1>4, <1>8 DEF Sound

\* The end of a file or a macro that has closed its conditionals.
LEMMA EndFileStep ==
  ASSUME Sound, errored = FALSE, errored' = FALSE, FilesEndLines, EndFile
  PROVE  Sound' /\ Promised
<1>1. /\ Between("file") /\ ~More /\ ~LeftOpen /\ Return(1)
      /\ UNCHANGED <<mode, out, elsestatus, whilestatus, numif, numtrue, fakeendif, moreonlinecond>>
  BY DEF EndFile
<1>2. mode = "run" /\ frames # <<>> /\ CommandMet = <<>> BY <1>1, BetweenQuiet
<1>3. Counters /\ Framed(frames) BY <1>2 DEF Sound, Running
<1>4. /\ Framed(Pop) /\ (Pop = <<>> <=> Len(frames) = 1)
      /\ Len(frames) = 1 => top.startif = 0
      /\ Len(frames) # 1 => Len(frames) > 1
  BY <1>2, <1>3, Closed DEF Pop, top
<1>5. Counters' /\ Promised BY <1>1, <1>2, <1>3, Passes DEF levels
<1>6. Running'
  <2>1. CASE Pop = <<>>
    <3>1. frames' = <<>> /\ Framed(frames') BY <1>1, <1>4, <2>1 DEF Return
    <3>2. numif' = 0 BY <1>1, <1>4, <2>1 DEF LeftOpen
    <3>3. ~InLine' BY <3>1 DEF InLine
    <3>. QED BY <3>1, <3>2, <3>3 DEF Running, Row
  <2>2. CASE Pop # <<>>
    <3>1. Framed(frames') /\ frames' # <<>>
      BY <1>1, <1>4, <2>2, AdvancedFramed DEF Return
    <3>2. moreonlinecond' /\ fakeendif' = 0 BY <1>1, <1>4, <2>2 DEF FilesEndLines
    <3>3. 0 \in 0 .. numif' BY <1>5 DEF Counters
    <3>. QED BY <3>1, <3>2, <3>3, FreshRow
  <2>. QED BY <2>1, <2>2
<1>. QED BY <1>1, <1>2, <1>5, <1>6 DEF Sound

LEMMA EndMacroStep ==
  ASSUME Sound, errored = FALSE, errored' = FALSE, EndMacro
  PROVE  Sound' /\ Promised
<1>1. /\ Between("macro") /\ numif = top.startif
      /\ \E t : Advance(Pop, 1, t)
      /\ fakeendif' = top.keep[1] /\ moreonlinecond' = top.keep[2]
      /\ UNCHANGED <<mode, out, elsestatus, whilestatus, numif, numtrue>>
  <2>1. ~LeftOpen /\ ~(repeatnext # 1) BY DEF EndMacro
  <2>. QED BY <2>1, Zenon DEF EndMacro, LeftOpen
<1>2. mode = "run" /\ frames # <<>> /\ CommandMet = <<>> BY <1>1, BetweenQuiet
<1>3. Counters /\ Framed(frames) BY <1>2 DEF Sound, Running
<1>4. Framed(Pop) /\ Pop # <<>> /\ Entered(top)
  <2>1. top.kind = "macro" BY <1>1 DEF Between
  <2>. QED BY <1>2, <1>3, <2>1, Closed DEF Pop, top
<1>5. Counters' /\ Promised BY <1>1, <1>2, <1>3, Passes DEF levels
<1>6. Framed(frames') /\ frames' # <<>> BY <1>1, <1>4, AdvancedFramed
<1>7. moreonlinecond' /\ fakeendif' \in 0 .. numif' BY <1>1, <1>4 DEF Entered
<1>8. Running' BY <1>6, <1>7, FreshRow
<1>. QED BY <1>1, <1>2, <1>5, <1>8 DEF Sound

-----------------------------------------------------------------------------
(***************************************************************************)
(* The blocks                                                              *)
(***************************************************************************)

\* What a step from a block to the next one of the line must show.
LEMMA BlockStep ==
  ASSUME Sound, AtBlock, NEW r, NEW t, Advance(frames, r, t), Counters',
         prog' = prog, mode' = mode, fakeendif' \in 0 .. numif',
         moreonlinecond' \/ numif' # numtrue' \/ (Block.k \in Ends /\ ~MoreOnLine)
  PROVE  Sound'
<1>1. mode = "run" /\ Framed(frames) BY DEF AtBlock, InLine, Sound, Running
<1>2. numif' \in Nat BY DEF Counters
<1>3. Running' BY <1>1, <1>2, NextRow
<1>. QED BY <1>1, <1>3 DEF Sound

LEMMA AtBlockFacts ==
  ASSUME Sound, AtBlock
  PROVE  /\ Counters /\ Framed(frames) /\ mode = "run" /\ frames # <<>> /\ Fields \subseteq DOMAIN top
         /\ fakeendif \in 0 .. numif
         /\ moreonlinecond \/ ~Active \/ (Block.k \in Ends /\ ~MoreOnLine)
<1>1. mode = "run" /\ frames # <<>> /\ InLine BY DEF AtBlock, InLine
<1>. QED BY <1>1, TopFields DEF Sound, Running, Row

\* Blocks that are left out or passed over, and commands that change neither the
\* conditionals nor what has been written.
LEMMA PassedStep ==
  ASSUME Sound, errored = FALSE, errored' = FALSE, AtBlock,
         NEW r, NEW t, Advance(frames, r, t), CommandMet = <<>> \/ ~Active,
         UNCHANGED <<prog, mode, levels, fakeendif, moreonlinecond, out>>
  PROVE  Sound' /\ Promised
<1>1. Counters /\ mode = "run" /\ fakeendif \in 0 .. numif
      /\ (moreonlinecond \/ ~Active \/ (Block.k \in Ends /\ ~MoreOnLine))
  BY AtBlockFacts
<1>2. Counters' /\ Promised BY <1>1, Passes
<1>3. fakeendif' \in 0 .. numif' /\ (~Active => numif' # numtrue')
  BY <1>1 DEF levels, Active
<1>4. Sound' BY <1>1, <1>2, <1>3, BlockStep
<1>. QED BY <1>2, <1>4

LEMMA RepeatedNeverStep ==
  ASSUME Sound, errored = FALSE, errored' = FALSE, RepeatedNever
  PROVE  Sound' /\ Promised
<1>1. /\ AtBlock /\ ~(top.left > 0) /\ Advance(frames, repeatnext, tracker)
      /\ UNCHANGED <<prog, mode, levels, fakeendif, moreonlinecond, out>>
  BY DEF RepeatedNever, NextBlock, Stays, Keeps
<1>2. CommandMet = <<>> BY <1>1, Zenon DEF CommandMet
<1>. QED BY <1>1, <1>2, PassedStep

LEMMA SkipBlockStep ==
  ASSUME Sound, errored = FALSE, errored' = FALSE, SkipBlock
  PROVE  Sound' /\ Promised
<1>1. /\ AtBlock /\ Advance(frames, repeatnext, tracker)
      /\ UNCHANGED <<prog, mode, levels, fakeendif, moreonlinecond, out>>
      /\ ~moreonlinecond /\ Block.k \notin Ends
  BY DEF SkipBlock, NextBlock, Stays, Keeps, PassedOver, Ends
<1>2. ~Active BY <1>1, AtBlockFacts
<1>. QED BY <1>1, <1>2, PassedStep

LEMMA InactiveStep ==
  ASSUME Sound, errored = FALSE, errored' = FALSE, Inactive
  PROVE  Sound' /\ Promised
<1>1. /\ AtBlock /\ Advance(frames, repeatnext, tracker) /\ ~Active
      /\ UNCHANGED <<prog, mode, levels, fakeendif, moreonlinecond, out>>
  BY DEF Inactive, Assembles, NextBlock, Stays, Keeps
<1>. QED BY <1>1, PassedStep

\* Only op and use write.
LEMMA NoWrite ==
  ASSUME NEW kinds, Assembles(kinds), kinds \cap {"op", "use"} = {}
  PROVE  AtBlock /\ CommandMet = <<>>
BY DEF Assembles, CommandMet

\* An entry that is set for the next level, or for this one, leaves those below alone.
LEMMA SetWhileAbove ==
  ASSUME Counters, NEW w, SetWhile(w)
  PROVE  \A k \in 1 .. numif : whilestatus'[k - 1] = whilestatus[k - 1]
<1>. SUFFICES ASSUME NEW k \in 1 .. numif PROVE whilestatus'[k - 1] = whilestatus[k - 1] OBVIOUS
<1>1. k - 1 # numif BY DEF Counters
<1>. QED BY <1>1 DEF SetWhile

LEMMA IfWhileStep ==
  ASSUME Sound, Arrays, errored = FALSE, errored' = FALSE, Shallow', IfWhile
  PROVE  Sound' /\ Promised
<1>1. /\ Assembles({"if", "while"}) /\ ~PassedOver({Block.k})
      /\ numif' = numif + 1 /\ UNCHANGED <<prog, out>>
      /\ fakeendif' = fakeendif + 1 \/ fakeendif' = fakeendif
  BY DEF IfWhile, Keeps
<1>2. AtBlock /\ CommandMet = <<>> /\ Block.k \notin Ends
  BY <1>1, NoWrite DEF Assembles, Ends
<1>3. /\ Counters /\ mode = "run" /\ fakeendif \in 0 .. numif /\ numif \in Nat /\ numtrue \in Nat
      /\ moreonlinecond \/ ~Active
  BY <1>2, AtBlockFacts DEF Counters
<1>4. moreonlinecond BY <1>1, <1>2 DEF PassedOver, Ends
<1>5. numif \in 0 .. MaxLevel /\ numif + 1 \in 1 .. MaxLevel
  BY <1>1, <1>3, LinesAssumption DEF Shallow
<1>6. PICK w : SetWhile(w)
  BY Zenon DEF IfWhile
<1>7. \A k \in 1 .. numif : whilestatus'[k - 1] = whilestatus[k - 1] BY <1>3, <1>6, SetWhileAbove
<1>8. /\ Advance(frames, repeatnext, tracker) /\ mode' = mode
      /\ \/ /\ ~Active /\ UNCHANGED <<numtrue, elsestatus, moreonlinecond>>
         \/ /\ Active /\ numtrue' = numtrue + 1 /\ UNCHANGED moreonlinecond
            /\ elsestatus' = [elsestatus EXCEPT ![numif + 1] = TRUE]
         \/ /\ Active /\ numtrue' = numtrue
            /\ elsestatus' = [elsestatus EXCEPT ![numif + 1] = FALSE]
  <2>1. CASE ~Active BY <2>1 DEF IfWhile, NextBlock, Stays
  <2>2. CASE Active
    <3>1. PICK c : Concludes(c) BY <2>2, Zenon DEF IfWhile
    <3>. QED BY <2>2, <3>1 DEF Concludes, BlockError, Fatal, NextBlock, Stays
  <2>. QED BY <2>1, <2>2
<1>9. SameArrays(numif)
  <2>. SUFFICES ASSUME NEW k \in 1 .. numif PROVE elsestatus'[k] = elsestatus[k]
    BY <1>7 DEF SameArrays
  <2>1. k # numif + 1 BY <1>3
  <2>2. \/ elsestatus' = elsestatus
        \/ \E b : elsestatus' = [elsestatus EXCEPT ![numif + 1] = b]
    BY <1>8, Zenon
  <2>3. k \in DOMAIN elsestatus BY <1>3, <1>5, LinesAssumption DEF Arrays, Elses
  <2>. QED BY <2>1, <2>2, <2>3
<1>10. Active => (elsestatus'[numif + 1] <=> numtrue' = numtrue + 1)
  <2>1. numif + 1 \in DOMAIN elsestatus BY <1>5 DEF Arrays, Elses
  <2>2. CASE numtrue' = numtrue + 1 /\ elsestatus' = [elsestatus EXCEPT ![numif + 1] = TRUE]
    BY <2>1, <2>2
  <2>3. CASE numtrue' = numtrue /\ elsestatus' = [elsestatus EXCEPT ![numif + 1] = FALSE]
    <3>1. numtrue' # numtrue + 1 BY <1>3, <2>3
    <3>. QED BY <2>1, <2>3, <3>1
  <2>. QED BY <1>8, <2>2, <2>3
<1>11. Counters' /\ Pushes(StackOf, StackOf')
  BY <1>1, <1>3, <1>8, <1>9, <1>10, PushStep
<1>12. Promised BY <1>1, <1>2, <1>3, <1>8, <1>11, Moves
<1>13. fakeendif' \in 0 .. numif' BY <1>1, <1>3
<1>14. moreonlinecond' \/ numif' # numtrue'
  <2>1. CASE moreonlinecond' = moreonlinecond BY <1>4, <2>1
  <2>2. CASE Active /\ numtrue' = numtrue BY <1>1, <1>3, <2>2 DEF Active
  <2>. QED BY <1>8, <2>1, <2>2
<1>15. Sound' BY <1>1, <1>2, <1>8, <1>11, <1>13, <1>14, BlockStep
<1>. QED BY <1>12, <1>15

LEMMA AssertThatStep ==
  ASSUME Sound, errored = FALSE, errored' = FALSE, AssertThat
  PROVE  Sound' /\ Promised
<1>1. /\ Assembles({"assert"}) /\ ~PassedOver({"assert"}) /\ SetWhile(Entry("none"))
      /\ UNCHANGED <<prog, numif, numtrue, elsestatus, fakeendif, moreonlinecond, out>>
      /\ Advance(frames, repeatnext, tracker) /\ mode' = mode
  BY DEF AssertThat, Keeps, BlockError, Fatal, NextBlock, Stays
<1>2. AtBlock /\ CommandMet = <<>> BY <1>1, NoWrite
<1>3. Counters /\ mode = "run" /\ fakeendif \in 0 .. numif BY <1>2, AtBlockFacts
<1>4. moreonlinecond BY <1>1 DEF PassedOver
<1>5. SameArrays(numif) BY <1>1, <1>3, SetWhileAbove DEF SameArrays
<1>6. Counters' /\ StackOf' = StackOf BY <1>1, <1>3, <1>5, SameStack
<1>7. Promised BY <1>1, <1>2, <1>3, <1>6, Moves
<1>8. Sound' BY <1>1, <1>2, <1>3, <1>4, <1>6, BlockStep
<1>. QED BY <1>7, <1>8

LEMMA ElseifStep ==
  ASSUME Sound, Arrays, errored = FALSE, errored' = FALSE, Shallow, ElseifsInIfs, Elseif
  PROVE  Sound' /\ Promised
<1>. DEFINE seen  == Active \/ numtrue + 1 = numif
            takes == Block.c = "true" /\ ~elsestatus[numif]
            base  == IF Active THEN numtrue - 1 ELSE numtrue
<1>1. /\ Assembles({"elseif"}) /\ UNCHANGED <<prog, numif, fakeendif, out>>
      /\ SetWhile(Entry("none"))
      /\ Advance(frames, repeatnext, tracker) /\ mode' = mode
      /\ \/ ~seen /\ UNCHANGED <<numtrue, elsestatus, moreonlinecond>>
         \/ /\ seen /\ numif > 0 /\ whilestatus[numif - 1].kind # "while"
            /\ numtrue' = IF takes THEN base + 1 ELSE base
            /\ elsestatus' = IF takes THEN [elsestatus EXCEPT ![numif] = TRUE] ELSE elsestatus
            /\ moreonlinecond' = (moreonlinecond \/ (takes /\ MoreOnLine))
  <2>1. ~Fatal /\ ~BlockError BY DEF Fatal, BlockError
  <2>2. Assembles({"elseif"}) /\ UNCHANGED <<prog, numif, fakeendif, out>>
    BY DEF Elseif, Keeps
  <2>3. ~(numtrue + 1 = numif /\ recursioncount + 1 > Limit) BY <2>1, Zenon DEF Elseif
  <2>4. SetWhile(Entry("none")) BY <2>3, Zenon DEF Elseif
  <2>5. NextBlock /\ Stays BY <2>1, <2>3, Zenon DEF Elseif
  <2>6. \/ ~seen /\ UNCHANGED <<numtrue, elsestatus, moreonlinecond>>
        \/ /\ seen /\ numif > 0 /\ whilestatus[numif - 1].kind # "while"
           /\ numtrue' = IF takes THEN base + 1 ELSE base
           /\ elsestatus' = IF takes THEN [elsestatus EXCEPT ![numif] = TRUE] ELSE elsestatus
           /\ moreonlinecond' = (moreonlinecond \/ (takes /\ MoreOnLine))
    BY <2>1, <2>3, Zenon DEF Elseif
  <2>. QED BY <2>2, <2>4, <2>5, <2>6 DEF NextBlock, Stays
<1>2. AtBlock /\ CommandMet = <<>> /\ Block.k = "elseif"
  BY <1>1, NoWrite DEF Assembles
<1>3. /\ Counters /\ mode = "run" /\ fakeendif \in 0 .. numif /\ numif \in Nat /\ numtrue \in 0 .. numif
      /\ moreonlinecond \/ ~Active \/ ~MoreOnLine
  BY <1>2, AtBlockFacts DEF Counters
<1>4. \A k \in 1 .. numif : whilestatus'[k - 1] = whilestatus[k - 1] BY <1>1, <1>3, SetWhileAbove
<1>. HIDE DEF takes
<1>5. CASE UNCHANGED <<numtrue, elsestatus>> /\ (moreonlinecond' = moreonlinecond \/ ~Active)
  <2>1. SameArrays(numif) BY <1>4, <1>5 DEF SameArrays
  <2>2. Counters' /\ StackOf' = StackOf BY <1>1, <1>3, <1>5, <2>1, SameStack
  <2>3. Promised BY <1>1, <1>2, <1>3, <2>2, Moves
  <2>4. moreonlinecond' \/ numif' # numtrue' \/ ~MoreOnLine BY <1>1, <1>3, <1>5 DEF Active
  <2>5. Sound' BY <1>1, <1>2, <1>3, <2>2, <2>4, BlockStep DEF Ends
  <2>. QED BY <2>3, <2>5
<1>6. CASE seen /\ numif > 0 /\ whilestatus[numif - 1].kind # "while"
           /\ ~(UNCHANGED <<numtrue, elsestatus>> /\ (moreonlinecond' = moreonlinecond \/ ~Active))
  <2>1. whilestatus[numif - 1].kind = "none"
    <3>1. numif - 1 \in 0 .. MaxLevel BY <1>3, <1>6, LinesAssumption DEF Shallow
    <3>2. whilestatus[numif - 1].kind \in Kinds BY <3>1 DEF Arrays, Whiles, Marked
    <3>. QED BY <1>2, <1>6, <3>2 DEF ElseifsInIfs, Kinds
  <2>2. numif \in 1 .. numif /\ numif \in 1 .. MaxLevel BY <1>3, <1>6, LinesAssumption DEF Shallow
  <2>3. \A k \in 1 .. numif - 1 : k \in 1 .. numif /\ k # numif BY <1>3
  <2>4. whilestatus'[numif - 1] = whilestatus[numif - 1] BY <1>4, <2>2
  <2>5. \/ /\ Active /\ ~takes /\ numtrue' = numtrue - 1 /\ elsestatus' = elsestatus
        \/ /\ numif = numtrue + 1 /\ takes /\ numtrue' = numtrue + 1
           /\ elsestatus' = [elsestatus EXCEPT ![numif] = TRUE]
    <3>1. CASE Active
      <4>1. numif \in 1 .. numtrue BY <2>2, <3>1 DEF Active
      <4>2. elsestatus[numif] BY <1>3, <2>1, <4>1, Zenon DEF Counters
      <4>3. ~takes BY <4>2 DEF takes
      <4>. QED BY <1>1, <1>6, <3>1, <4>3
    <3>2. CASE ~Active
      <4>1. takes BY <1>1, <1>6, <3>2
      <4>. QED BY <1>1, <1>6, <3>2, <4>1
    <3>. QED BY <3>1, <3>2
  <2>6. SameArrays(numif - 1)
    <3>. SUFFICES ASSUME NEW k \in 1 .. numif - 1 PROVE elsestatus'[k] = elsestatus[k]
      BY <1>4, <2>3 DEF SameArrays
    <3>1. k \in DOMAIN elsestatus BY <1>3, <2>2, LinesAssumption DEF Arrays, Elses
    <3>. QED BY <2>3, <2>5, <3>1
  <2>7. Counters' /\ Switches(StackOf, StackOf')
    <3>1. CASE Active /\ numtrue' = numtrue - 1 /\ elsestatus' = elsestatus
      BY <1>1, <1>3, <1>6, <2>1, <2>4, <2>6, <3>1, SwitchStep
    <3>2. CASE /\ numif = numtrue + 1 /\ takes /\ numtrue' = numtrue + 1
               /\ elsestatus' = [elsestatus EXCEPT ![numif] = TRUE]
      <4>1. elsestatus'[numif] /\ ~elsestatus[numif] BY <2>2, <3>2 DEF takes, Arrays, Elses
      <4>. QED BY <1>1, <1>3, <1>6, <2>1, <2>4, <2>6, <3>2, <4>1, SwitchStep
    <3>. QED BY <2>5, <3>1, <3>2
  <2>8. Promised BY <1>1, <1>2, <1>3, <2>7, Moves
  <2>9. moreonlinecond' \/ numif' # numtrue' \/ ~MoreOnLine
    <3>1. CASE Active /\ numtrue' = numtrue - 1 BY <1>1, <1>3, <3>1 DEF Active
    <3>2. CASE takes BY <1>1, <1>6, <3>2
    <3>. QED BY <2>5, <3>1, <3>2
  <2>10. Sound' BY <1>1, <1>2, <1>3, <2>7, <2>9, BlockStep DEF Ends
  <2>. QED BY <2>8, <2>10
<1>. QED BY <1>1, <1>3, <1>5, <1>6

LEMMA ForStep ==
  ASSUME Sound, Arrays, errored = FALSE, errored' = FALSE, Shallow', For
  PROVE  Sound' /\ Promised
<1>1. /\ Assembles({"for"}) /\ ~PassedOver({"for"})
      /\ UNCHANGED <<prog, elsestatus, fakeendif, moreonlinecond, out, mode>>
  BY DEF For, Keeps, Stays
<1>2. PICK w : /\ (UnderWay /\ w = whilestatus[numif]) \/ w = Entry("for")
               /\ numif' = numif + 1
               /\ \E t : Advance(frames, repeatnext, t)
               /\ \/ ~Active /\ numtrue' = numtrue /\ SetWhile(w)
                  \/ /\ Active /\ (numtrue' = numtrue \/ numtrue' = numtrue + 1)
                     /\ \E a, b, c, d : SetWhile([w EXCEPT !.cur = a, !.end = b, !.cond = c, !.backup = d])
  <2>. DEFINE w == IF UnderWay THEN whilestatus[numif] ELSE Entry("for")
              cur == IF UnderWay THEN w.cur + 1 ELSE Block.from
              end == IF UnderWay THEN w.end ELSE Block.to
              on == cur < end
  <2>1. errored' # TRUE /\ ~BlockError BY DEF BlockError
  <2>2. \/ ~Active /\ numif' = numif + 1 /\ SetWhile(w) /\ NextBlock /\ numtrue' = numtrue
        \/ /\ Active /\ numif' = numif + 1
           /\ numtrue' = IF on THEN numtrue + 1 ELSE numtrue
           /\ SetWhile([w EXCEPT !.cur = cur, !.end = end, !.cond = on,
                                 !.backup = IF on /\ loopvar # None THEN loopvar ELSE @])
           /\ Advance(frames, repeatnext, 2)
    BY <2>1, Zenon DEF For
  <2>3. (UnderWay /\ w = whilestatus[numif]) \/ w = Entry("for") BY Zenon
  <2>4. numtrue' = (IF on THEN numtrue + 1 ELSE numtrue) => numtrue' = numtrue \/ numtrue' = numtrue + 1
    BY Zenon
  <2>. HIDE DEF w, cur, end, on
  <2>. QED BY <2>2, <2>3, <2>4, Zenon DEF NextBlock
<1>3. AtBlock /\ CommandMet = <<>> /\ moreonlinecond BY <1>1, NoWrite DEF PassedOver
<1>4. /\ Counters /\ mode = "run" /\ fakeendif \in 0 .. numif /\ numif \in Nat /\ numtrue \in Nat
  BY <1>3, AtBlockFacts DEF Counters
<1>5. numif \in 0 .. MaxLevel /\ numif' = numif + 1
  <2>1. numif' = numif + 1 BY <1>2, Zenon
  <2>. QED BY <1>4, <2>1, LinesAssumption DEF Shallow
<1>6. Marked(w) /\ w.kind = "for"
  BY <1>2, <1>5, EntryKind DEF Arrays, Whiles, UnderWay, Entry, NoWhile, Marked, Kinds
<1>7. PICK v : SetWhile(v) /\ (Active => v.kind = "for")
  <2>1. \A a, b, c, d : [w EXCEPT !.cur = a, !.end = b, !.cond = c, !.backup = d].kind = "for"
    BY <1>6 DEF Marked
  <2>2. CASE ~Active
    <3>1. SetWhile(w) BY <1>2, <2>2, Zenon
    <3>. QED BY <2>2, <3>1
  <2>3. CASE Active
    <3>1. PICK a, b, c, d : SetWhile([w EXCEPT !.cur = a, !.end = b, !.cond = c, !.backup = d])
      BY <1>2, <2>3, Zenon
    <3>. DEFINE v == [w EXCEPT !.cur = a, !.end = b, !.cond = c, !.backup = d]
    <3>2. SetWhile(v) /\ v.kind = "for" BY <2>1, <3>1
    <3>. HIDE DEF v
    <3>. QED BY <3>2
  <2>. QED BY <2>2, <2>3
<1>8. SameArrays(numif) BY <1>1, <1>4, <1>7, SetWhileAbove DEF SameArrays
<1>9. Active => whilestatus'[numif].kind = "for" BY <1>5, <1>7 DEF SetWhile, Arrays, Whiles
<1>10. Counters' /\ Pushes(StackOf, StackOf') BY <1>2, <1>4, <1>8, <1>9, PushStep
<1>11. Promised BY <1>1, <1>3, <1>4, <1>10, Moves
<1>12. fakeendif' \in 0 .. numif' BY <1>1, <1>4, <1>5
<1>13. Sound' BY <1>1, <1>2, <1>3, <1>10, <1>12, BlockStep
<1>. QED BY <1>11, <1>13

LEMMA EndStep ==
  ASSUME Sound, errored = FALSE, errored' = FALSE, NothingBehind, End
  PROVE  Sound' /\ Promised
<1>1. /\ Assembles(Terminators) /\ ~PassedOver({Block.k})
      /\ fakeendif' = IF fakeendif > 0 THEN fakeendif - 1 ELSE 0
      /\ UNCHANGED <<prog, elsestatus, moreonlinecond, out, mode>>
  BY DEF End, Keeps, Stays
<1>2. /\ numif # 0 /\ numif' = numif - 1
      /\ numtrue' = IF Active THEN numtrue - 1 ELSE numtrue
      /\ whilestatus' = whilestatus
      /\ \E t : Advance(frames, repeatnext, t)
  <2>1. ~BlockError BY DEF BlockError
  <2>2. numif # 0 BY <2>1, Zenon DEF End
  <2>. DEFINE for == whilestatus[numif - 1].kind = "for"
  <2>3. errored' = (errored \/ (for /\ MoreOnLine)) BY <2>2, Zenon DEF End
  <2>4. ~(for /\ MoreOnLine) BY <2>3, Zenon
  <2>5. whilestatus' = whilestatus BY <2>2, <2>4, Zenon DEF End
  <2>6. numif' = numif - 1 /\ numtrue' = IF Active THEN numtrue - 1 ELSE numtrue
    BY <2>2, Zenon DEF End
  <2>7. \E t : Advance(frames, repeatnext, t) BY <2>2, Zenon DEF End
  <2>. QED BY <2>2, <2>5, <2>6, <2>7
<1>3. AtBlock /\ CommandMet = <<>> BY <1>1, NoWrite DEF Terminators
<1>4. /\ Counters /\ mode = "run" /\ fakeendif \in 0 .. numif /\ numif \in Nat /\ numif > 0
  BY <1>2, <1>3, AtBlockFacts DEF Counters
<1>5. SameArrays(numif - 1) BY <1>1, <1>2 DEF SameArrays
<1>6. Counters' /\ Pops(StackOf, StackOf') BY <1>2, <1>4, <1>5, PopStep
<1>7. Promised BY <1>1, <1>3, <1>4, <1>6, Moves
<1>8. fakeendif' \in 0 .. numif' BY <1>1, <1>2, <1>4
<1>9. moreonlinecond' \/ (Block.k \in Ends /\ ~MoreOnLine)
  <2>1. CASE moreonlinecond BY <1>1, <2>1
  <2>2. CASE ~moreonlinecond
    <3>1. Block.k \in {"endif", "endwhile"}
      BY <1>1, <2>2 DEF PassedOver, Assembles, Terminators
    <3>2. ~MoreOnLine BY <1>3, <2>2, <3>1 DEF NothingBehind
    <3>. QED BY <3>1, <3>2 DEF Ends
  <2>. QED BY <2>1, <2>2
<1>10. Sound' BY <1>1, <1>2, <1>3, <1>6, <1>8, <1>9, BlockStep
<1>. QED BY <1>7, <1>10

LEMMA ElseStep ==
  ASSUME Sound, Arrays, errored = FALSE, errored' = FALSE, Shallow, Else
  PROVE  Sound' /\ Promised
<1>1. /\ Assembles({"else"}) /\ moreonlinecond' = TRUE
      /\ UNCHANGED <<prog, numif, whilestatus, fakeendif, out, mode>>
  BY DEF Else, Keeps, Stays
<1>2. /\ numif # 0 /\ whilestatus[numif - 1].kind = "none"
      /\ Advance(frames, repeatnext, tracker)
      /\ elsestatus' = IF ElseTakes THEN [elsestatus EXCEPT ![numif] = TRUE] ELSE elsestatus
      /\ \/ Active /\ numtrue' = numtrue - 1
         \/ ~Active /\ ElseTakes /\ numtrue' = numtrue + 1
         \/ ~Active /\ ~ElseTakes /\ numtrue' = numtrue
  <2>1. ~BlockError BY DEF BlockError
  <2>2. ~(numif = 0 \/ whilestatus[numif - 1].kind # "none") BY <2>1, Zenon DEF Else
  <2>3. numtrue' = CASE Active -> numtrue - 1
                     [] ~Active /\ ElseTakes -> numtrue + 1
                     [] OTHER -> numtrue
    BY <2>2, Zenon DEF Else
  <2>4. \/ Active /\ numtrue' = numtrue - 1
        \/ ~Active /\ ElseTakes /\ numtrue' = numtrue + 1
        \/ ~Active /\ ~ElseTakes /\ numtrue' = numtrue
    BY <2>3
  <2>5. elsestatus' = IF ElseTakes THEN [elsestatus EXCEPT ![numif] = TRUE] ELSE elsestatus
    BY <2>2, Zenon DEF Else
  <2>6. NextBlock BY <2>2, Zenon DEF Else
  <2>. QED BY <2>2, <2>4, <2>5, <2>6 DEF NextBlock
<1>3. AtBlock /\ CommandMet = <<>> BY <1>1, NoWrite
<1>4. /\ Counters /\ mode = "run" /\ fakeendif \in 0 .. numif /\ numif \in Nat /\ numif > 0
      /\ numtrue \in Nat
  BY <1>2, <1>3, AtBlockFacts DEF Counters
<1>5. numif \in 1 .. MaxLevel /\ \A k \in 1 .. numif : k \in 1 .. MaxLevel
  BY <1>4, LinesAssumption DEF Shallow
<1>6. Counters' /\ Promised
  <2>1. CASE ~Active /\ ~ElseTakes /\ numtrue' = numtrue
    <3>1. SameArrays(numif) BY <1>1, <1>2, <2>1 DEF SameArrays
    <3>2. Counters' /\ StackOf' = StackOf BY <1>1, <1>4, <2>1, <3>1, SameStack
    <3>. QED BY <1>1, <1>3, <1>4, <3>2, Moves
  <2>2. CASE Active /\ numtrue' = numtrue - 1
    <3>1. ~ElseTakes BY <1>4, <2>2 DEF Active, ElseTakes
    <3>2. elsestatus' = elsestatus BY <1>2, <3>1, Zenon
    <3>3. SameArrays(numif - 1) BY <1>1, <3>2 DEF SameArrays
    <3>4. Counters' /\ Switches(StackOf, StackOf')
      BY <1>1, <1>2, <1>4, <2>2, <3>2, <3>3, SwitchStep
    <3>. QED BY <1>1, <1>3, <1>4, <3>4, Moves
  <2>3. CASE ~Active /\ ElseTakes /\ numtrue' = numtrue + 1
    <3>1. elsestatus' = [elsestatus EXCEPT ![numif] = TRUE] BY <1>2, <2>3, Zenon
    <3>2. SameArrays(numif - 1)
      <4>. SUFFICES ASSUME NEW k \in 1 .. numif - 1 PROVE elsestatus'[k] = elsestatus[k]
        BY <1>1 DEF SameArrays
      <4>1. k # numif /\ k \in 1 .. MaxLevel BY <1>4, <1>5
      <4>. QED BY <3>1, <4>1 DEF Arrays, Elses
    <3>3. elsestatus'[numif] BY <1>5, <3>1 DEF Arrays, Elses
    <3>4. numif = numtrue + 1 /\ ~elsestatus[numif] BY <2>3 DEF ElseTakes
    <3>5. Counters' /\ Switches(StackOf, StackOf')
      BY <1>1, <1>2, <1>4, <2>3, <3>2, <3>3, <3>4, SwitchStep
    <3>. QED BY <1>1, <1>3, <1>4, <3>5, Moves
  <2>. QED BY <1>2, <2>1, <2>2, <2>3
<1>7. Sound' BY <1>1, <1>2, <1>3, <1>4, <1>6, BlockStep
<1>. QED BY <1>6, <1>7

\* A command that is executed: the conditionals around it are on.
LEMMA Executed ==
  ASSUME Sound, NEW k, Executes(k), k \notin Ends
  PROVE  AtBlock /\ Active /\ moreonlinecond /\ Block.k = k
BY DEF Executes, Assembles, PassedOver, Ends

LEMMA OpStep ==
  ASSUME Sound, errored = FALSE, errored' = FALSE, Op
  PROVE  Sound' /\ Promised
<1>1. /\ Advance(frames, repeatnext, tracker)
      /\ UNCHANGED <<prog, mode, levels, fakeendif, moreonlinecond>>
      /\ out' = Append(out, IF Block.k = "op" THEN Block.v ELSE top.val)
      /\ Executes("op") \/ Executes("use")
  BY DEF Op, NextBlock, Stays, Keeps
<1>2. AtBlock /\ Active /\ moreonlinecond /\ Block.k \in {"op", "use"}
  BY <1>1, Executed DEF Ends
<1>3. top.left > 0 BY <1>1 DEF Executes, Assembles
<1>4. CommandMet = <<IF Block.k = "op" THEN Block.v ELSE top.val>>
  BY <1>2, <1>3, Zenon DEF CommandMet
<1>. DEFINE v == IF Block.k = "op" THEN Block.v ELSE top.val
<1>5. Counters /\ mode = "run" /\ fakeendif \in 0 .. numif BY <1>2, AtBlockFacts
<1>6. Counters' /\ StackOf' = StackOf BY <1>1, <1>5, SameStack DEF levels, SameArrays
<1>7. CommandMet # <<>> /\ out' = Append(out, CommandMet[1])
  <2>. HIDE DEF v
  <2>1. CommandMet = <<v>> /\ out' = Append(out, v) BY <1>1, <1>4, Zenon DEF v
  <2>. QED BY <2>1
<1>8. Promised BY <1>1, <1>2, <1>5, <1>6, <1>7, Meets
<1>9. Sound' BY <1>1, <1>2, <1>5, <1>6, BlockStep DEF levels
<1>. QED BY <1>8, <1>9

LEMMA RepIncludeonceStep ==
  ASSUME Sound, errored = FALSE, errored' = FALSE, Rep \/ Includeonce
  PROVE  Sound' /\ Promised
<1>1. /\ \E r : Advance(frames, r, tracker)
      /\ UNCHANGED <<prog, mode, levels, fakeendif, moreonlinecond, out>>
      /\ Executes("rep") \/ Executes("includeonce")
  BY DEF Rep, Includeonce, NextBlock, Stays, Keeps
<1>2. AtBlock /\ Block.k \in {"rep", "includeonce"} BY <1>1, Executed DEF Ends
<1>3. CommandMet = <<>> BY <1>2, Zenon DEF CommandMet
<1>. QED BY <1>1, <1>2, <1>3, PassedStep

LEMMA NoErrorStep ==
  ASSUME Error
  PROVE  errored' = TRUE
BY DEF Error

\* A macro or a file is entered: it will have to leave the conditionals as they are.
LEMMA EnterStep ==
  ASSUME Sound, errored = FALSE, errored' = FALSE, NEW k, Executes(k), k \notin Ends \cup {"op", "use"},
         UNCHANGED <<prog, mode, levels, fakeendif, moreonlinecond, out>>,
         NEW kind, NEW unit, NEW first, NEW last,
         frames' = Append(frames, Frame(kind, unit, first, last))
  PROVE  Sound' /\ Promised
<1>1. AtBlock /\ moreonlinecond /\ Block.k = k BY Executed
<1>2. CommandMet = <<>> BY <1>1, Zenon DEF CommandMet
<1>3. /\ Counters /\ Framed(frames) /\ mode = "run" /\ frames # <<>> /\ fakeendif \in 0 .. numif
      /\ numif \in Nat
  BY <1>1, AtBlockFacts DEF Counters
<1>4. Counters' /\ Promised BY <1>2, <1>3, Passes
<1>. DEFINE f == Frame(kind, unit, first, last)
<1>5. Fields \subseteq DOMAIN f /\ f.block = 0 BY DEF Frame, Fields
<1>6. Entered(f)
  <2>1. f.keep = <<fakeendif, moreonlinecond, tracker>> /\ f.startif = numif BY DEF Frame
  <2>. HIDE DEF f
  <2>. QED BY <1>1, <1>3, <2>1 DEF Entered
<1>. HIDE DEF f
<1>7. Framed(frames') /\ frames' # <<>> /\ Last(frames') = f
  BY <1>3, <1>5, <1>6, Opened DEF f
<1>8. ~InLine' BY <1>5, <1>7 DEF InLine, top
<1>9. Running' BY <1>7, <1>8, FreshRow
<1>. QED BY <1>3, <1>4, <1>9 DEF Sound

LEMMA CallStep ==
  ASSUME Sound, errored = FALSE, errored' = FALSE, Call
  PROVE  Sound' /\ Promised
<1>1. /\ Executes("call")
      /\ UNCHANGED <<prog, mode, levels, fakeendif, moreonlinecond, out>>
  BY DEF Call, Stays
<1>2. PICK m : CallMacro(m) BY Zenon DEF Call, BlockError
<1>3. frames' = Append(frames, Frame("macro", m.unit, m.first, m.last)) BY <1>2 DEF CallMacro
<1>. QED BY <1>1, <1>3, EnterStep DEF Ends

LEMMA IncsrcStep ==
  ASSUME Sound, errored = FALSE, errored' = FALSE, Incsrc
  PROVE  Sound' /\ Promised
<1>1. /\ Executes("incsrc")
      /\ UNCHANGED <<prog, mode, levels, fakeendif, moreonlinecond, out>>
  BY DEF Incsrc, Stays
<1>2. CASE NextBlock
  <2>1. AtBlock /\ Block.k = "incsrc" BY <1>1, Executed DEF Ends
  <2>2. CommandMet = <<>> BY <2>1, Zenon DEF CommandMet
  <2>. QED BY <1>1, <1>2, <2>1, <2>2, PassedStep DEF NextBlock
<1>3. CASE frames' = Append(frames, Frame("file", Block.f, 1, Len(prog.files[Block.f])))
  BY <1>1, <1>3, EnterStep DEF Ends
<1>4. NextBlock \/ frames' = Append(frames, Frame("file", Block.f, 1, Len(prog.files[Block.f])))
  <2>1. ~BlockError BY DEF BlockError
  <2>2. \/ Block.f \in includeonce
        \/ Block.f \notin includeonce /\ Block.f \notin DOMAIN prog.files
        \/ Block.f \in DOMAIN prog.files \ includeonce
    OBVIOUS
  <2>. QED BY <2>1, <2>2, Zenon DEF Incsrc
<1>. QED BY <1>2, <1>3, <1>4

-----------------------------------------------------------------------------
(***************************************************************************)
(* The theorem                                                             *)
(***************************************************************************)
\* An error stays until the next patch.
LEMMA ErrorsStay ==
  ASSUME errored \in BOOLEAN, Step
  PROVE  errored' \in BOOLEAN /\ (errored => errored')
<1>1. CASE FinishPass \/ StartPass BY <1>1 DEF FinishPass, StartPass
<1>2. CASE MacroLine \/ EndmacroLine \/ MacroBodyLine \/ BeginLine \/ EndLine
  BY <1>2 DEF MacroLine, EndmacroLine, MacroBodyLine, BeginLine, EndLine, Fatal
<1>3. CASE EndFile \/ EndMacro BY <1>3 DEF EndFile, EndMacro
<1>4. CASE RepeatedNever \/ SkipBlock \/ Inactive
  BY <1>4 DEF RepeatedNever, SkipBlock, Inactive, Keeps
<1>5. CASE Op \/ Rep \/ Error \/ Call \/ Includeonce
  BY <1>5 DEF Op, Rep, Error, Call, Includeonce, Keeps, BlockError
<1>6. CASE Incsrc BY <1>6 DEF Incsrc, BlockError
<1>7. CASE IfWhile BY <1>7 DEF IfWhile, Concludes, BlockError, Fatal
<1>8. CASE AssertThat
  <2>1. errored' = errored \/ errored' = TRUE BY <1>8, Zenon DEF AssertThat, BlockError, Fatal
  <2>. QED BY <2>1
<1>9. CASE Elseif BY <1>9 DEF Elseif, BlockError, Fatal
<1>10. CASE For
  <2>1. errored' = errored \/ errored' = TRUE BY <1>10, Zenon DEF For, BlockError
  <2>. QED BY <2>1
<1>11. CASE End BY <1>11 DEF End, BlockError
<1>12. CASE Else BY <1>12 DEF Else, BlockError
<1>. QED
  BY <1>1, <1>2, <1>3, <1>4, <1>5, <1>6, <1>7, <1>8, <1>9, <1>10, <1>11, <1>12
  DEF Step

LEMMA StutterStep ==
  ASSUME UNCHANGED vars
  PROVE  (Sound => Sound') /\ Promised
<1>1. UNCHANGED <<prog, mode, numif, numtrue, elsestatus, whilestatus, fakeendif, moreonlinecond,
                  frames, errored, out>>
  BY DEF vars, levels, line
<1>2. UNCHANGED <<top, InLine, AtBlock, Active>> BY <1>1 DEF top, InLine, AtBlock, Active
<1>3. UNCHANGED <<Block, MoreOnLine>> BY <1>1, <1>2 DEF Block, MoreOnLine, Text
<1>4. (Counters => Counters') /\ (Running => Running')
  BY <1>1, <1>2, <1>3 DEF Counters, Running, Row
<1>5. Sound => Sound' BY <1>1, <1>4 DEF Sound
<1>6. UNCHANGED <<StackOf, CommandMet>>
  BY <1>1, <1>2, <1>3, Zenon DEF StackOf, CommandMet
<1>7. Promised BY <1>1, <1>6 DEF Promised, Abstract!vars
<1>. QED BY <1>5, <1>7

\* A step that follows no error and meets none.
LEMMA SoundStep ==
  ASSUME Sound, Arrays, errored = FALSE, errored' = FALSE, Orderly, Orderly', Step
  PROVE  Sound' /\ Promised
<1>1. /\ Shallow /\ Shallow' /\ ElseifsInIfs /\ NothingBehind /\ FilesEndLines
  BY DEF Orderly
<1>2. ~Error BY NoErrorStep
<1>. QED
  BY <1>1, <1>2, StartPassStep, FinishPassStep, MacroLinesStep, BeginLineStep, EndLineStep, EndFileStep,
     EndMacroStep, RepeatedNeverStep, SkipBlockStep, InactiveStep, IfWhileStep, AssertThatStep,
     ElseifStep, ForStep, EndStep, ElseStep, OpStep, RepIncludeonceStep, CallStep, IncsrcStep, Zenon
  DEF Step

LEMMA InvStep ==
  ASSUME IInv, Orderly, Orderly', [Next]_vars
  PROVE  IInv' /\ Promised
<1>1. errored \in BOOLEAN /\ Arrays' BY ArraysStep DEF IInv
<1>2. CASE UNCHANGED vars BY <1>1, <1>2, StutterStep DEF IInv, vars
<1>3. CASE \E p \in Programs[patches + 1] : CallPatch(p)
  <2>1. StartsClosed' /\ (errored = FALSE => Sound) BY DEF Orderly, IInv
  <2>2. errored' = FALSE /\ Sound' /\ Promised BY <1>1, <1>3, <2>1, CallPatchStep
  <2>. QED BY <1>1, <2>2 DEF IInv
<1>4. CASE Step
  <2>1. errored' \in BOOLEAN /\ (errored => errored') BY <1>1, <1>4, ErrorsStay
  <2>2. CASE errored' = TRUE BY <1>1, <2>2, Fails DEF IInv
  <2>3. CASE errored' = FALSE
    <3>1. errored = FALSE BY <1>1, <2>1, <2>3
    <3>2. Sound' /\ Promised BY <1>4, <2>3, <3>1, SoundStep DEF IInv
    <3>. QED BY <1>1, <2>1, <3>2 DEF IInv
  <2>. QED BY <2>1, <2>2, <2>3
<1>. QED BY <1>2, <1>3, <1>4 DEF Next

LEMMA InvInit ==
  ASSUME Init
  PROVE  IInv /\ Abstract!Init
<1>1. /\ errored = FALSE /\ mode = "idle" /\ numif = 0 /\ numtrue = 0 /\ out = <<>>
      /\ elsestatus = [k \in 1 .. MaxLevel |-> FALSE]
      /\ whilestatus = [k \in 0 .. MaxLevel |-> NoWhile]
  BY DEF Init
<1>2. Arrays
  <2>1. Marked(NoWhile) BY DEF Marked, NoWhile, Kinds
  <2>2. Whiles(whilestatus) BY <1>1, <2>1 DEF Whiles
  <2>. QED BY <1>1, <2>2 DEF Arrays, Elses
<1>3. Sound BY <1>1 DEF Sound, Counters
<1>4. StackOf = <<>> BY <1>1, EmptyStack
<1>5. CommandMet = <<>>
  <2>1. ~AtBlock BY <1>1 DEF AtBlock, InLine
  <2>. QED BY <2>1, NoCommand
<1>6. Abstract!Init BY <1>1, <1>4, <1>5 DEF Abstract!Init
<1>. QED BY <1>1, <1>2, <1>3, <1>6 DEF IInv

\* The main loop, assembleline and assembleblock execute a command exactly when all
\* the conditionals that are open around it are on, and open, switch and close
\* conditionals as a stack would, although all they keep is two counters, of the
\* conditionals and of those that are true: whatever files, macros and repetitions
\* are under way, however deep, in every pass of every patch.  Orderly rules out the
\* states that the code lets the counters go wrong in.
THEOREM CountersAreAStack == Spec /\ []Orderly => RefinesConditionals
<1>1. Init => IInv /\ Abstract!Init BY InvInit
<1>2. IInv /\ Orderly /\ Orderly' /\ [Next]_vars => IInv' /\ Promised BY InvStep
<1>. QED BY <1>1, <1>2, PTL DEF Spec, RefinesConditionals, Abstract!Spec, Promised

\* As long as there is no error the counters are those of a stack: none is negative and
\* no more conditionals are true than there are, none is open between two passes, and
\* the inline conditions that the end of the line closes are among those that are open.
CountersInRange ==
  ~errored => /\ numif \in 0 .. MaxLevel /\ numtrue \in 0 .. numif
              /\ mode # "run" => numif = 0
              /\ InLine => fakeendif \in 0 .. numif
THEOREM CountersKeepRange == Spec /\ []Orderly => []CountersInRange
<1>1. Init => IInv BY InvInit
<1>2. IInv /\ Orderly /\ Orderly' /\ [Next]_vars => IInv' BY InvStep
<1>3. IInv /\ Orderly => CountersInRange
  <2>. SUFFICES ASSUME IInv, Orderly, ~errored PROVE CountersInRange BY DEF CountersInRange
  <2>1. Sound /\ Shallow BY DEF IInv, Orderly
  <2>2. numif \in 0 .. MaxLevel BY <2>1, LinesAssumption DEF Sound, Counters, Shallow
  <2>3. InLine => fakeendif \in 0 .. numif BY <2>1 DEF Sound, Running, Row, InLine
  <2>. QED BY <2>1, <2>2, <2>3 DEF CountersInRange, Sound, Counters
<1>. QED BY <1>1, <1>2, <1>3, PTL DEF Spec

-----------------------------------------------------------------------------
(***************************************************************************)
(* The depth of calls.  Each frame but the last is on a line, and each     *)
(* line is one call; patches that ended in a fatal error have left calls   *)
(* behind, one each at most.                                               *)
(***************************************************************************)
Blocks == Nat \cup {Done}
Begun(f) == f.block \in Nat \ {0}
Layered(fs) ==
  /\ IsList(fs)
  /\ \A i \in 1 .. Len(fs) : {"kind", "block"} \subseteq DOMAIN fs[i] /\ fs[i].block \in Blocks
  /\ \A i \in 1 .. Len(fs) - 1 : Begun(fs[i])
  /\ fs # <<>> => fs[1].kind = "file"
OnALine(f) == f.block # 0
Depth(fs) == IF fs = <<>> THEN 0
             ELSE IF OnALine(Last(fs)) THEN Len(fs) ELSE Len(fs) - 1
Leaks == recursioncount - Depth(frames)

CallsInv ==
  /\ Layered(frames) /\ (mode # "run" => frames = <<>>)
  /\ patches \in 0 .. MaxPatches /\ recursioncount \in Int
  /\ Leaks \in 0 .. patches /\ (mode # "idle" => Leaks < patches)
  /\ Depth(frames) > 0 => recursioncount <= Limit

LEMMA NoLayers == Layered(<<>>) /\ Depth(<<>>) = 0
<1>1. <<>> \in Seq(Nat) /\ Len(<<>>) = 0 OBVIOUS
<1>2. IsList(<<>>) BY <1>1, IsListOf
<1>. QED BY <1>1, <1>2 DEF Layered, Depth

\* The last frame goes on, is left, or calls another one.
LEMMA LayerReplaced ==
  ASSUME NEW fs, Layered(fs), fs # <<>>, NEW g, {"kind", "block"} \subseteq DOMAIN g,
         g.kind = Last(fs).kind, g.block \in Blocks,
         NEW gs, gs = [fs EXCEPT ![Len(fs)] = g]
  PROVE  Layered(gs) /\ gs # <<>> /\ Last(gs) = g /\ Len(gs) = Len(fs) /\ Len(fs) \in Nat \ {0}
<1>1. PICK n \in Nat \ {0} : n = Len(fs) BY ReplaceList DEF Layered
<1>2. /\ IsList(gs) /\ Len(gs) = n /\ gs[n] = g /\ \A i \in 1 .. n - 1 : gs[i] = fs[i]
  <2>1. IsList(fs) BY DEF Layered
  <2>2. gs = Replace(fs, g) BY DEF Replace
  <2>3. /\ IsList(Replace(fs, g)) /\ Len(Replace(fs, g)) = Len(fs)
        /\ \A i \in 1 .. Len(fs) - 1 : Replace(fs, g)[i] = fs[i]
        /\ Replace(fs, g)[Len(fs)] = g
    BY ONLY <2>1, fs # <<>>, ReplaceList
  <2>. QED BY ONLY <1>1, <2>2, <2>3
<1>3. gs # <<>> /\ Last(gs) = g BY <1>1, <1>2, EmptySeq DEF Last
<1>4. Last(fs) = fs[n] BY <1>1 DEF Last
<1>5. \A i \in 1 .. n : i = n \/ i \in 1 .. n - 1 BY <1>1
<1>6. \A i \in 1 .. n : {"kind", "block"} \subseteq DOMAIN gs[i] /\ gs[i].block \in Blocks
  BY <1>1, <1>2, <1>5, Zenon DEF Layered
<1>7. \A i \in 1 .. n - 1 : Begun(gs[i]) BY <1>1, <1>2, Zenon DEF Layered
<1>8. gs[1].kind = "file"
  <2>1. 1 \in 1 .. n BY <1>1
  <2>. QED BY <1>2, <1>4, <1>5, <2>1, Zenon DEF Layered
<1>9. Layered(gs) BY <1>2, <1>6, <1>7, <1>8, Zenon DEF Layered
<1>. QED BY <1>1, <1>2, <1>3, <1>9

LEMMA LayerAdded ==
  ASSUME NEW fs, Layered(fs), fs # <<>>, Begun(Last(fs)),
         NEW f, {"kind", "block"} \subseteq DOMAIN f, f.block = 0
  PROVE  /\ Layered(Append(fs, f)) /\ Append(fs, f) # <<>>
         /\ Depth(Append(fs, f)) = Depth(fs)
<1>1. PICK n \in Nat \ {0} : n = Len(fs) BY ReplaceList DEF Layered
<1>. DEFINE gs == Append(fs, f)
<1>2. IsList(gs) /\ Len(gs) = n + 1 /\ gs[n + 1] = f /\ \A i \in 1 .. n : gs[i] = fs[i]
  BY <1>1, AppendList DEF Layered
<1>. HIDE DEF gs
<1>3. gs # <<>> /\ Last(gs) = f BY <1>1, <1>2, EmptySeq DEF Last
<1>4. Last(fs) = fs[n] BY <1>1 DEF Last
<1>5. /\ 1 \in 1 .. n /\ \A i \in 1 .. n + 1 : i \in 1 .. n \/ i = n + 1
      /\ \A i \in 1 .. n : i \in 1 .. n - 1 \/ i = n
  BY <1>1
<1>6. f.block \in Blocks BY DEF Blocks
<1>7. \A i \in 1 .. n + 1 : {"kind", "block"} \subseteq DOMAIN gs[i] /\ gs[i].block \in Blocks
  <2>. SUFFICES ASSUME NEW i \in 1 .. n + 1
                PROVE  {"kind", "block"} \subseteq DOMAIN gs[i] /\ gs[i].block \in Blocks
    OBVIOUS
  <2>1. CASE i = n + 1
    <3>1. gs[i] = f BY <1>2, <2>1
    <3>. QED BY <1>6, <3>1
  <2>2. CASE i \in 1 .. n
    <3>1. gs[i] = fs[i] BY <1>2, <2>2
    <3>. QED BY <1>1, <2>2, <3>1, Zenon DEF Layered
  <2>. QED BY <1>5, <2>1, <2>2
<1>8. \A i \in 1 .. n : Begun(gs[i])
  BY <1>1, <1>2, <1>4, <1>5, Zenon DEF Layered
<1>9. gs[1].kind = "file" BY <1>2, <1>5, Zenon DEF Layered
<1>10. Len(gs) - 1 = n BY <1>1, <1>2
<1>11. Layered(gs)
  <2>1. \A i \in 1 .. Len(gs) : {"kind", "block"} \subseteq DOMAIN gs[i] /\ gs[i].block \in Blocks
    BY <1>2, <1>7
  <2>2. \A i \in 1 .. Len(gs) - 1 : Begun(gs[i]) BY <1>8, <1>10
  <2>. QED BY <1>2, <1>9, <2>1, <2>2, Zenon DEF Layered
<1>12. Depth(gs) = n BY <1>3, <1>10 DEF Depth, OnALine
<1>13. Depth(fs) = n
  <2>1. OnALine(Last(fs)) BY DEF OnALine, Begun
  <2>. QED BY <1>1, <2>1 DEF Depth
<1>. QED BY <1>3, <1>11, <1>12, <1>13 DEF gs

LEMMA LayerLeft ==
  ASSUME NEW fs, Layered(fs), fs # <<>>
  PROVE  /\ Layered(Front(fs)) /\ Len(fs) \in Nat \ {0} /\ Len(Front(fs)) = Len(fs) - 1
         /\ {"kind", "block"} \subseteq DOMAIN Last(fs) /\ Last(fs).block \in Blocks
         /\ Front(fs) # <<>> => Begun(Last(Front(fs)))
         /\ Front(fs) = <<>> <=> Len(fs) = 1
         /\ Front(fs) = <<>> => Last(fs).kind = "file"
<1>1. PICK n \in Nat \ {0} : n = Len(fs) BY ReplaceList DEF Layered
<1>. DEFINE gs == Front(fs)
<1>2. IsList(gs) /\ Len(gs) = n - 1 /\ \A i \in 1 .. n - 1 : gs[i] = fs[i]
  BY <1>1, FrontList DEF Layered
<1>. HIDE DEF gs
<1>3. gs = <<>> <=> n = 1
  <2>1. gs \in Seq(ToSet(gs)) BY <1>2 DEF IsList
  <2>. QED BY <1>1, <1>2, <2>1, EmptySeq
<1>4. Last(fs) = fs[n] /\ n \in 1 .. n BY <1>1 DEF Last
<1>5. /\ \A i \in 1 .. n - 1 : i \in 1 .. n
      /\ \A i \in 1 .. n - 1 - 1 : i \in 1 .. n - 1
      /\ n # 1 => 1 \in 1 .. n - 1 /\ n - 1 \in 1 .. n - 1
  BY <1>1
<1>6. \A i \in 1 .. n - 1 : {"kind", "block"} \subseteq DOMAIN gs[i] /\ gs[i].block \in Blocks
  BY <1>1, <1>2, <1>5, Zenon DEF Layered
<1>7. \A i \in 1 .. n - 1 : Begun(gs[i]) BY <1>1, <1>2, Zenon DEF Layered
<1>8. gs # <<>> => gs[1].kind = "file" BY <1>2, <1>3, <1>5, Zenon DEF Layered
<1>9. Layered(gs) BY <1>2, <1>5, <1>6, <1>7, <1>8, Zenon DEF Layered
<1>10. gs # <<>> => Begun(Last(gs))
  <2>1. gs # <<>> => Last(gs) = gs[n - 1] BY <1>2 DEF Last
  <2>. QED BY <1>3, <1>5, <1>7, <2>1, Zenon
<1>11. {"kind", "block"} \subseteq DOMAIN Last(fs) /\ Last(fs).block \in Blocks
  BY <1>1, <1>4, Zenon DEF Layered
<1>12. gs = <<>> => Last(fs).kind = "file" BY <1>3, <1>4, Zenon DEF Layered
<1>. QED BY <1>1, <1>2, <1>3, <1>9, <1>10, <1>11, <1>12, Zenon DEF gs

\* After a block the last frame is on the same line.
LEMMA LayerAdvanced ==
  ASSUME NEW fs, Layered(fs), fs # <<>>, Begun(Last(fs)), NEW r, NEW t, Advance(fs, r, t)
  PROVE  Layered(frames') /\ frames' # <<>> /\ Depth(frames') = Len(fs) /\ Depth(fs) = Len(fs)
<1>. DEFINE f == Last(fs)
<1>1. {"kind", "block"} \subseteq DOMAIN f /\ f.block \in Nat \ {0} BY LayerLeft DEF Begun
<1>2. PICK g : /\ frames' = [fs EXCEPT ![Len(fs)] = g]
               /\ {"kind", "block"} \subseteq DOMAIN g /\ g.kind = f.kind
               /\ g.block \in Blocks /\ g.block # 0
  <2>1. CASE f.left > 1
    <3>. DEFINE g == [f EXCEPT !.left = @ - 1]
    <3>1. frames' = [fs EXCEPT ![Len(fs)] = g] BY <2>1 DEF Advance
    <3>2. {"kind", "block"} \subseteq DOMAIN g /\ g.kind = f.kind /\ g.block = f.block BY <1>1
    <3>. QED BY <1>1, <3>1, <3>2 DEF Blocks
  <2>2. CASE ~(f.left > 1)
    <3>. DEFINE more == f.block < Len(Text(f))
                g == [f EXCEPT !.block = IF more THEN @ + 1 ELSE Done, !.left = IF more THEN r ELSE 1]
    <3>1. frames' = [fs EXCEPT ![Len(fs)] = g] BY <2>2, Zenon DEF Advance
    <3>2. /\ {"kind", "block"} \subseteq DOMAIN g /\ g.kind = f.kind
          /\ g.block = IF more THEN f.block + 1 ELSE Done
      BY <1>1
    <3>3. g.block \in Blocks /\ g.block # 0 BY <1>1, <3>2 DEF Blocks, Done
    <3>. QED BY <3>1, <3>2, <3>3
  <2>. QED BY <2>1, <2>2
<1>3. /\ Layered(frames') /\ frames' # <<>> /\ Last(frames') = g /\ Len(frames') = Len(fs)
  BY <1>2, LayerReplaced
<1>4. Depth(frames') = Len(fs)
  <2>1. OnALine(Last(frames')) BY <1>2, <1>3 DEF OnALine
  <2>. QED BY <1>3, <2>1 DEF Depth
<1>5. Depth(fs) = Len(fs)
  <2>1. OnALine(f) BY <1>1 DEF OnALine
  <2>. QED BY <2>1 DEF Depth
<1>. QED BY <1>3, <1>4, <1>5

\* OpenLines is the depth.
LEMMA LinesOfFrames ==
  ASSUME NEW fs, Layered(fs)
  PROVE  /\ Depth(fs) = Cardinality({ k \in DOMAIN fs : fs[k].block # 0 })
         /\ Depth(fs) \in Nat
<1>1. Len(fs) \in Nat /\ DOMAIN fs = 1 .. Len(fs) /\ (fs = <<>> <=> Len(fs) = 0)
  BY EmptySeq DEF Layered, IsList
<1>. DEFINE K == { k \in DOMAIN fs : fs[k].block # 0 }
<1>2. CASE fs = <<>>
  <2>1. K = {} BY <1>1, <1>2
  <2>. QED BY <1>2, <2>1, FS_EmptySet DEF Depth
<1>3. CASE fs # <<>>
  <2>. DEFINE n == Len(fs)
  <2>1. n \in Nat \ {0} /\ Last(fs) = fs[n] BY <1>1, <1>3 DEF Last
  <2>2. \A i \in 1 .. n - 1 : fs[i].block # 0 BY DEF Layered, Begun
  <2>3. K = 1 .. Depth(fs) /\ Depth(fs) \in Nat
    <3>1. CASE fs[n].block # 0 BY <1>1, <1>3, <2>1, <2>2, <3>1 DEF Depth, OnALine
    <3>2. CASE fs[n].block = 0 BY <1>1, <1>3, <2>1, <2>2, <3>2 DEF Depth, OnALine
    <3>. QED BY <3>1, <3>2
  <2>4. Cardinality(1 .. Depth(fs)) = Depth(fs)
    <3>1. \A d \in Nat : Cardinality(1 .. d) = d
      <4>1. \A d \in Nat : Cardinality(1 .. d) = IF 1 > d THEN 0 ELSE d - 1 + 1 BY FS_Interval
      <4>. QED BY <4>1
    <3>. QED BY <2>3, <3>1
  <2>. QED BY <2>3, <2>4
<1>. QED BY <1>2, <1>3

-----------------------------------------------------------------------------
\* What the steps of a patch do to the frames and to the counter.
Goes      == Layered(frames') /\ Depth(frames') = Depth(frames) /\ UNCHANGED <<patches, mode, recursioncount>>
Aborts(k) == mode' = "idle" /\ frames' = <<>> /\ UNCHANGED patches
             /\ recursioncount' = recursioncount - Depth(frames) + k
Starts1   == Layered(frames') /\ Depth(frames') = Depth(frames) + 1 /\ UNCHANGED <<patches, mode>>
             /\ recursioncount' = recursioncount + 1 /\ recursioncount' <= Limit
Returns   == Layered(frames') /\ Depth(frames') = Depth(frames) - 1 /\ UNCHANGED <<patches, mode>>
             /\ recursioncount' = recursioncount - 1
Counts    == Goes \/ Aborts(0) \/ Aborts(1) \/ Starts1 \/ Returns

LEMMA CountsKeepCalls ==
  ASSUME CallsInv, Counts, mode = "run"
  PROVE  CallsInv'
<1>. DEFINE d == Depth(frames)
<1>1. /\ Layered(frames) /\ patches \in 0 .. MaxPatches /\ recursioncount \in Int
      /\ Leaks \in 0 .. patches /\ Leaks < patches /\ (d > 0 => recursioncount <= Limit)
  BY DEF CallsInv
<1>2. d \in Nat BY <1>1, LinesOfFrames
<1>3. MaxPatches \in Nat /\ Limit \in Nat \ {0} BY LinesAssumption
<1>4. Leaks = recursioncount - d BY DEF Leaks
<1>5. Leaks' = recursioncount' - Depth(frames') BY DEF Leaks
<1>. HIDE DEF d
<1>6. CASE Goes
  <2>1. /\ Layered(frames') /\ Depth(frames') = d /\ patches' = patches /\ mode' = mode
        /\ recursioncount' = recursioncount
    BY <1>6 DEF Goes, d
  <2>. QED BY <1>1, <1>2, <1>3, <1>4, <1>5, <2>1 DEF CallsInv
<1>7. CASE Starts1
  <2>1. /\ Layered(frames') /\ Depth(frames') = d + 1 /\ patches' = patches /\ mode' = mode
        /\ recursioncount' = recursioncount + 1 /\ recursioncount' <= Limit
    BY <1>7 DEF Starts1, d
  <2>. QED BY <1>1, <1>2, <1>3, <1>4, <1>5, <2>1 DEF CallsInv
<1>8. CASE Returns
  <2>1. /\ Layered(frames') /\ Depth(frames') = d - 1 /\ patches' = patches /\ mode' = mode
        /\ recursioncount' = recursioncount - 1
    BY <1>8 DEF Returns, d
  <2>. QED BY <1>1, <1>2, <1>3, <1>4, <1>5, <2>1 DEF CallsInv
<1>9. ASSUME NEW k \in 0 .. 1, Aborts(k) PROVE CallsInv'
  <2>1. /\ mode' = "idle" /\ frames' = <<>> /\ patches' = patches
        /\ recursioncount' = recursioncount - d + k
    BY <1>9 DEF Aborts, d
  <2>2. Layered(<<>>) /\ Depth(<<>>) = 0 BY NoLayers
  <2>3. Depth(frames') = 0 BY <2>1, <2>2
  <2>. QED BY <1>1, <1>2, <1>3, <1>4, <1>5, <2>1, <2>2, <2>3 DEF CallsInv
<1>. QED BY <1>6, <1>7, <1>8, <1>9 DEF Counts

\* A block that has been assembled, entered or broken off.
LEMMA BlockGoes ==
  ASSUME CallsInv, AtBlock
  PROVE  /\ \A r, t : Advance(frames, r, t) /\ UNCHANGED <<patches, mode, recursioncount>> => Goes
         /\ \A t : EndOfLine(t) /\ UNCHANGED <<patches, mode, recursioncount>> => Goes
         /\ \A f : frames' = Append(frames, f) /\ {"kind", "block"} \subseteq DOMAIN f /\ f.block = 0
                  /\ UNCHANGED <<patches, mode, recursioncount>> => Goes
<1>1. /\ Layered(frames) /\ frames # <<>> /\ top = Last(frames) /\ Begun(top) /\ mode = "run"
      /\ {"kind", "block"} \subseteq DOMAIN top
  <2>1. Layered(frames) /\ frames # <<>> /\ top = Last(frames) /\ top.block > 0 /\ mode = "run"
    BY DEF CallsInv, AtBlock, InLine, top
  <2>2. {"kind", "block"} \subseteq DOMAIN top /\ top.block \in Blocks BY <2>1, LayerLeft
  <2>. QED BY <2>1, <2>2 DEF Begun, Blocks, Done
<1>2. ASSUME NEW r, NEW t, Advance(frames, r, t), UNCHANGED <<patches, mode, recursioncount>>
      PROVE  Goes
  BY <1>1, <1>2, LayerAdvanced DEF Goes
<1>3. ASSUME NEW t, EndOfLine(t), UNCHANGED <<patches, mode, recursioncount>>
      PROVE  Goes
  <2>. DEFINE g == [top EXCEPT !.block = Done, !.aborted = TRUE]
  <2>1. frames' = [frames EXCEPT ![Len(frames)] = g] BY <1>3 DEF EndOfLine, WithTop
  <2>2. {"kind", "block"} \subseteq DOMAIN g /\ g.kind = top.kind /\ g.block = Done BY <1>1
  <2>3. g.block \in Blocks /\ g.block # 0 BY <2>2 DEF Blocks, Done
  <2>. HIDE DEF g
  <2>4. /\ Layered(frames') /\ frames' # <<>> /\ Last(frames') = g /\ Len(frames') = Len(frames)
    BY <1>1, <2>1, <2>2, <2>3, LayerReplaced
  <2>5. OnALine(Last(frames')) /\ OnALine(Last(frames)) BY <1>1, <2>3, <2>4 DEF OnALine, Begun
  <2>6. Depth(frames') = Depth(frames) BY <1>1, <2>4, <2>5 DEF Depth
  <2>. QED BY <1>3, <2>4, <2>6 DEF Goes
<1>4. ASSUME NEW f, frames' = Append(frames, f), {"kind", "block"} \subseteq DOMAIN f, f.block = 0,
             UNCHANGED <<patches, mode, recursioncount>>
      PROVE  Goes
  BY <1>1, <1>4, LayerAdded DEF Goes
<1>. QED BY <1>2, <1>3, <1>4

LEMMA FatalAborts ==
  ASSUME CallsInv, UNCHANGED patches
  PROVE  /\ Fatal => Aborts(1)
         /\ mode' = "idle" /\ frames' = <<>> /\ recursioncount' = recursioncount - OpenLines => Aborts(0)
<1>1. OpenLines = Depth(frames) /\ Depth(frames) \in Nat BY LinesOfFrames DEF CallsInv, OpenLines
<1>2. recursioncount \in Int BY DEF CallsInv
<1>. QED BY <1>1, <1>2 DEF Fatal, Aborts

\* The actions between lines, one by one.
LEMMA LinesCount ==
  ASSUME CallsInv, MacroLine \/ EndmacroLine \/ MacroBodyLine \/ BeginLine \/ EndLine
  PROVE  Counts
<1>1. /\ Layered(frames) /\ frames # <<>> /\ top = Last(frames) /\ mode = "run"
  BY DEF CallsInv, MacroLine, EndmacroLine, MacroBodyLine, BeginLine, EndLine, Between, LineDone,
         InLine, top
<1>2. {"kind", "block"} \subseteq DOMAIN top BY <1>1, LayerLeft
<1>3. ASSUME NEW g, {"kind", "block"} \subseteq DOMAIN g, g.kind = top.kind, g.block \in Blocks,
             frames' = WithTop(g)
      PROVE  /\ Layered(frames')
             /\ Depth(frames') = IF OnALine(g) THEN Len(frames) ELSE Len(frames) - 1
  <2>1. frames' = [frames EXCEPT ![Len(frames)] = g] BY <1>3 DEF WithTop
  <2>2. Layered(frames') /\ frames' # <<>> /\ Last(frames') = g /\ Len(frames') = Len(frames)
    BY <1>1, <1>3, <2>1, LayerReplaced
  <2>. QED BY <2>2 DEF Depth
<1>4. Depth(frames) = IF OnALine(top) THEN Len(frames) ELSE Len(frames) - 1 BY <1>1 DEF Depth
<1>5. Len(frames) \in Nat \ {0} /\ recursioncount \in Int BY <1>1, LayerLeft DEF CallsInv
<1>6. 0 \in Blocks /\ 1 \in Blocks /\ Done \in Blocks /\ Done # 0 BY DEF Blocks, Done
<1>7. CASE MacroLine \/ EndmacroLine \/ MacroBodyLine
  <2>1. top.block = 0 BY <1>7 DEF MacroLine, EndmacroLine, MacroBodyLine, Between
  <2>2. PICK g : /\ frames' = WithTop(g)
                 /\ {"kind", "block"} \subseteq DOMAIN g /\ g.kind = top.kind /\ g.block = top.block
    <3>1. CASE MacroLine
      <4>. DEFINE next == [top EXCEPT !.at = @ + 1]
                  begun == [next EXCEPT !.defining = TRUE, !.first = top.at,
                                        !.recording = Recorded(Text(top)[1].m)]
      <4>1. frames' = WithTop(next) \/ frames' = WithTop(begun) BY <3>1 DEF MacroLine
      <4>2. /\ {"kind", "block"} \subseteq DOMAIN next /\ next.kind = top.kind /\ next.block = top.block
            /\ {"kind", "block"} \subseteq DOMAIN begun /\ begun.kind = top.kind
            /\ begun.block = top.block
        BY <1>2
      <4>. QED BY <4>1, <4>2
    <3>2. CASE EndmacroLine
      <4>. DEFINE g == [top EXCEPT !.at = @ + 1, !.defining = FALSE]
      <4>1. frames' = WithTop(g) BY <3>2 DEF EndmacroLine
      <4>2. {"kind", "block"} \subseteq DOMAIN g /\ g.kind = top.kind /\ g.block = top.block BY <1>2
      <4>. QED BY <4>1, <4>2
    <3>3. CASE MacroBodyLine
      <4>. DEFINE g == [top EXCEPT !.at = @ + 1]
      <4>1. frames' = WithTop(g) BY <3>3 DEF MacroBodyLine
      <4>2. {"kind", "block"} \subseteq DOMAIN g /\ g.kind = top.kind /\ g.block = top.block BY <1>2
      <4>. QED BY <4>1, <4>2
    <3>. QED BY <1>7, <3>1, <3>2, <3>3
  <2>3. g.block \in Blocks /\ ~OnALine(g) /\ ~OnALine(top) BY <1>6, <2>1, <2>2 DEF OnALine
  <2>4. Layered(frames') /\ Depth(frames') = Depth(frames) BY <1>3, <1>4, <2>2, <2>3
  <2>5. UNCHANGED <<patches, mode, recursioncount>>
    BY <1>7 DEF MacroLine, EndmacroLine, MacroBodyLine, calls
  <2>. QED BY <2>4, <2>5 DEF Counts, Goes
<1>8. CASE BeginLine
  <2>1. top.block = 0 /\ UNCHANGED patches BY <1>8 DEF BeginLine, Between
  <2>2. Depth(frames) = Len(frames) - 1 BY <1>4, <2>1 DEF OnALine
  <2>3. CASE recursioncount + (IF Active THEN 2 ELSE 1) > Limit
    <3>1. Fatal BY <1>8, <2>3 DEF BeginLine
    <3>. QED BY <2>1, <3>1, FatalAborts DEF Counts
  <2>4. CASE ~(recursioncount + (IF Active THEN 2 ELSE 1) > Limit)
    <3>. DEFINE f == [top EXCEPT !.prevnumif = numif, !.val = loopvar, !.aborted = FALSE]
                g == [f EXCEPT !.block = Done, !.aborted = TRUE]
                h == [f EXCEPT !.block = IF Text(top) = <<>> THEN Done ELSE 1, !.left = repeatnext]
    <3>1. recursioncount' = recursioncount + 1 /\ UNCHANGED mode
      BY <1>8, <2>4 DEF BeginLine
    <3>2. frames' = WithTop(g) \/ frames' = WithTop(h) BY <1>8, <2>4, Zenon DEF BeginLine
    <3>3. /\ {"kind", "block"} \subseteq DOMAIN g /\ g.kind = top.kind /\ g.block = Done
          /\ {"kind", "block"} \subseteq DOMAIN h /\ h.kind = top.kind /\ h.block \in {1, Done}
      BY <1>2
    <3>. HIDE DEF g, h
    <3>4. g.block \in Blocks /\ h.block \in Blocks /\ OnALine(g) /\ OnALine(h)
      BY <1>6, <3>3 DEF OnALine
    <3>5. Layered(frames') /\ Depth(frames') = Len(frames) BY <1>3, <3>2, <3>3, <3>4
    <3>6. recursioncount + 1 <= Limit BY <1>5, <2>4, LinesAssumption
    <3>. QED BY <1>5, <2>1, <2>2, <3>1, <3>5, <3>6 DEF Counts, Starts1
  <2>. QED BY <2>3, <2>4
<1>9. CASE EndLine
  <2>. DEFINE g == [top EXCEPT !.block = 0, !.left = 1,
                 !.at = IF LoopsBack THEN whilestatus[LevelAfter].at ELSE @ + 1]
  <2>1. top.block = Done /\ frames' = WithTop(g) /\ UNCHANGED <<patches, mode>>
        /\ recursioncount' = recursioncount - 1
    BY <1>9 DEF EndLine, LineDone, LineReturns
  <2>2. {"kind", "block"} \subseteq DOMAIN g /\ g.kind = top.kind /\ g.block = 0 BY <1>2
  <2>. HIDE DEF g
  <2>3. ~OnALine(g) /\ OnALine(top) BY <1>6, <2>1, <2>2 DEF OnALine
  <2>4. Layered(frames') /\ Depth(frames') = Len(frames) - 1 BY <1>3, <1>6, <2>1, <2>2, <2>3
  <2>5. Depth(frames) = Len(frames) BY <1>4, <2>3
  <2>. QED BY <2>1, <2>4, <2>5 DEF Counts, Returns
<1>. QED BY <1>7, <1>8, <1>9

\* The end of a file or a macro: its caller goes on, on the line that called it.
LEMMA EndsCount ==
  ASSUME CallsInv, EndFile \/ EndMacro
  PROVE  Counts
<1>1. Layered(frames) /\ frames # <<>> /\ top = Last(frames) /\ top.block = 0
  BY DEF CallsInv, EndFile, EndMacro, Between, top
<1>2. UNCHANGED <<patches, mode, recursioncount>> BY DEF EndFile, EndMacro, calls
<1>3. /\ Layered(Pop) /\ Len(frames) \in Nat \ {0} /\ Len(Pop) = Len(frames) - 1
      /\ (Pop # <<>> => Begun(Last(Pop))) /\ (Pop = <<>> <=> Len(frames) = 1)
      /\ (Pop = <<>> => top.kind = "file")
  BY <1>1, LayerLeft, Zenon DEF Pop
<1>4. Depth(frames) = Len(frames) - 1
  <2>1. ~OnALine(Last(frames)) BY <1>1 DEF OnALine
  <2>. QED BY <1>1, <2>1 DEF Depth
<1>5. ASSUME Pop # <<>>, NEW r, NEW t, Advance(Pop, r, t) PROVE Counts
  <2>1. Layered(frames') /\ Depth(frames') = Len(Pop) BY <1>3, <1>5, LayerAdvanced
  <2>. QED BY <1>2, <1>3, <1>4, <2>1 DEF Counts, Goes
<1>6. CASE EndFile
  <2>1. Return(1) BY <1>6 DEF EndFile
  <2>2. CASE Pop = <<>>
    <3>1. frames' = <<>> BY <2>1, <2>2 DEF Return
    <3>2. Layered(frames') /\ Depth(frames') = 0 BY <3>1, NoLayers
    <3>. QED BY <1>2, <1>3, <1>4, <2>2, <3>2 DEF Counts, Goes
  <2>3. CASE Pop # <<>>
    <3>1. Advance(Pop, 1, tracker) BY <2>1, <2>3 DEF Return
    <3>. QED BY <1>5, <2>3, <3>1
  <2>. QED BY <2>2, <2>3
<1>7. CASE EndMacro
  <2>1. top.kind = "macro" BY <1>7 DEF EndMacro, Between
  <2>2. Pop # <<>> BY <1>3, <2>1
  <2>3. PICK t : Advance(Pop, 1, t) BY <1>7, Zenon DEF EndMacro
  <2>. QED BY <1>5, <2>2, <2>3
<1>. QED BY <1>6, <1>7

\* The blocks of a line: the next block, the end of the line, a call or the end of the patch.
NextOrFails == \/ \E r, t : Advance(frames, r, t) /\ Stays
               \/ \E t : EndOfLine(t) /\ Stays
               \/ Fatal
LEMMA BlockCounts ==
  ASSUME CallsInv, AtBlock, NextOrFails, UNCHANGED patches
  PROVE  Counts
<1>1. CASE \E r, t : Advance(frames, r, t) /\ Stays BY <1>1, BlockGoes DEF Counts, Stays
<1>2. CASE \E t : EndOfLine(t) /\ Stays BY <1>2, BlockGoes DEF Counts, Stays
<1>3. CASE Fatal BY <1>3, FatalAborts DEF Counts
<1>. QED BY <1>1, <1>2, <1>3 DEF NextOrFails

LEMMA BlocksCount ==
  ASSUME CallsInv,
         \/ RepeatedNever \/ SkipBlock \/ Inactive
         \/ IfWhile \/ AssertThat \/ Elseif \/ For \/ End \/ Else
         \/ Op \/ Rep \/ Error \/ Call \/ Incsrc \/ Includeonce
  PROVE  Counts
<1>1. (BlockError => NextBlock) /\ (NextBlock /\ Stays => NextOrFails) /\ (Fatal => NextOrFails)
  BY DEF BlockError, NextBlock, NextOrFails
<1>2. \A r, t : Advance(frames, r, t) /\ Stays => NextOrFails BY DEF NextOrFails
<1>3. \A t : EndOfLine(t) /\ Stays => NextOrFails BY DEF NextOrFails
<1>4. CASE RepeatedNever \/ SkipBlock \/ Inactive \/ Op \/ Includeonce
  <2>1. AtBlock /\ NextBlock /\ Stays /\ UNCHANGED patches
    BY <1>4 DEF RepeatedNever, SkipBlock, Inactive, Op, Includeonce, Executes, Assembles, Keeps
  <2>. QED BY <1>1, <2>1, BlockCounts
<1>5. CASE IfWhile
  <2>1. AtBlock /\ UNCHANGED patches BY <1>5 DEF IfWhile, Assembles, Keeps
  <2>2. (NextBlock /\ Stays) \/ \E c : Concludes(c) BY <1>5, Zenon DEF IfWhile
  <2>3. NextOrFails BY <1>1, <2>2, Zenon DEF Concludes
  <2>. QED BY <2>1, <2>3, BlockCounts
<1>6. CASE AssertThat
  <2>1. AtBlock /\ UNCHANGED patches BY <1>6 DEF AssertThat, Assembles, Keeps
  <2>2. NextOrFails BY <1>1, <1>6, Zenon DEF AssertThat
  <2>. QED BY <2>1, <2>2, BlockCounts
<1>7. CASE Elseif
  <2>1. AtBlock /\ UNCHANGED patches BY <1>7 DEF Elseif, Assembles, Keeps
  <2>2. NextOrFails BY <1>1, <1>7, Zenon DEF Elseif
  <2>. QED BY <2>1, <2>2, BlockCounts
<1>8. CASE For
  <2>1. AtBlock /\ Stays /\ UNCHANGED patches BY <1>8 DEF For, Assembles, Keeps
  <2>2. NextBlock \/ EndOfLine(tracker) \/ BlockError \/ Advance(frames, repeatnext, 2)
    BY <1>8, Zenon DEF For
  <2>3. NextOrFails BY <1>1, <1>2, <1>3, <2>1, <2>2, Zenon
  <2>. QED BY <2>1, <2>3, BlockCounts
<1>9. CASE End
  <2>1. AtBlock /\ Stays /\ UNCHANGED patches BY <1>9 DEF End, Assembles, Keeps
  <2>2. BlockError \/ \E t : Advance(frames, repeatnext, t) BY <1>9, Zenon DEF End
  <2>3. NextOrFails BY <1>1, <1>2, <2>1, <2>2, Zenon
  <2>. QED BY <2>1, <2>3, BlockCounts
<1>10. CASE Else
  <2>1. AtBlock /\ Stays /\ UNCHANGED patches BY <1>10 DEF Else, Assembles, Keeps
  <2>2. BlockError \/ NextBlock BY <1>10, Zenon DEF Else
  <2>. QED BY <1>1, <2>1, <2>2, BlockCounts
<1>11. CASE Rep
  <2>1. AtBlock /\ Stays /\ UNCHANGED patches /\ Advance(frames, Block.n, tracker)
    BY <1>11 DEF Rep, Executes, Assembles, Keeps
  <2>. QED BY <1>2, <2>1, BlockCounts
<1>12. CASE Error
  <2>1. AtBlock /\ UNCHANGED patches BY <1>12 DEF Error, Executes, Assembles, Keeps
  <2>2. \/ NextBlock /\ Stays
        \/ EndOfLine(tracker) /\ Stays
        \/ mode' = "idle" /\ frames' = <<>> /\ recursioncount' = recursioncount - OpenLines
    BY <1>12, Zenon DEF Error
  <2>3. CASE NextOrFails BY <2>1, <2>3, BlockCounts
  <2>4. CASE mode' = "idle" /\ frames' = <<>> /\ recursioncount' = recursioncount - OpenLines
    BY <2>1, <2>4, FatalAborts DEF Counts
  <2>. QED BY <1>1, <1>3, <2>2, <2>3, <2>4, Zenon
<1>13. ASSUME AtBlock, Stays, UNCHANGED patches,
              \E k, u, i, j : frames' = Append(frames, Frame(k, u, i, j))
       PROVE  Counts
  <2>1. PICK k, u, i, j : frames' = Append(frames, Frame(k, u, i, j)) BY <1>13
  <2>2. {"kind", "block"} \subseteq DOMAIN Frame(k, u, i, j) /\ Frame(k, u, i, j).block = 0
    BY DEF Frame
  <2>. QED BY <1>13, <2>1, <2>2, BlockGoes DEF Counts, Stays
<1>14. CASE Call
  <2>1. AtBlock /\ Stays /\ UNCHANGED patches BY <1>14 DEF Call, Executes, Assembles
  <2>2. CASE Block.m \notin DOMAIN macros
    <3>1. BlockError BY <1>14, <2>2 DEF Call
    <3>. QED BY <1>1, <2>1, <3>1, BlockCounts
  <2>3. CASE Block.m \in DOMAIN macros
    <3>. DEFINE m == macros[Block.m]
    <3>1. frames' = Append(frames, Frame("macro", m.unit, m.first, m.last))
      BY <1>14, <2>3 DEF Call, CallMacro
    <3>. QED BY <1>13, <2>1, <3>1
  <2>. QED BY <2>2, <2>3
<1>15. CASE Incsrc
  <2>1. AtBlock /\ Stays /\ UNCHANGED patches BY <1>15 DEF Incsrc, Executes, Assembles
  <2>2. \/ NextBlock \/ BlockError
        \/ frames' = Append(frames, Frame("file", Block.f, 1, Len(prog.files[Block.f])))
    BY <1>15, Zenon DEF Incsrc
  <2>3. CASE NextBlock \/ BlockError BY <1>1, <2>1, <2>3, BlockCounts
  <2>4. CASE frames' = Append(frames, Frame("file", Block.f, 1, Len(prog.files[Block.f])))
    BY <1>13, <2>1, <2>4
  <2>. QED BY <2>2, <2>3, <2>4
<1>. QED
  BY <1>4, <1>5, <1>6, <1>7, <1>8, <1>9, <1>10, <1>11, <1>12, <1>14, <1>15

LEMMA CallsStep ==
  ASSUME CallsInv, [Next]_vars
  PROVE  CallsInv'
<1>1. CASE UNCHANGED vars
  <2>1. UNCHANGED <<frames, mode, patches, recursioncount>> BY <1>1 DEF vars, calls
  <2>. QED BY <2>1 DEF CallsInv, Leaks
<1>2. ASSUME patches < MaxPatches, NEW p, CallPatch(p) PROVE CallsInv'
  <2>1. /\ UNCHANGED <<frames, recursioncount>> /\ mode = "idle" /\ mode' = "pass"
        /\ patches' = patches + 1
    BY <1>2 DEF CallPatch
  <2>2. Leaks' = Leaks BY <2>1 DEF Leaks
  <2>3. patches' \in 0 .. MaxPatches BY <1>2, <2>1, LinesAssumption DEF CallsInv
  <2>. QED BY <2>1, <2>2, <2>3 DEF CallsInv
<1>3. CASE FinishPass
  <2>1. UNCHANGED <<frames, recursioncount, patches>> /\ frames = <<>> /\ mode = "run"
    BY <1>3 DEF FinishPass, calls
  <2>. QED BY <2>1 DEF CallsInv, Leaks
<1>4. CASE StartPass
  <2>. DEFINE f == Frame("file", Root, 1, Len(prog.files[Root]))
  <2>1. /\ UNCHANGED <<recursioncount, patches>> /\ mode = "pass" /\ mode' = "run"
        /\ frames' = <<f>>
    BY <1>4 DEF StartPass
  <2>2. frames = <<>> BY <2>1 DEF CallsInv
  <2>3. {"kind", "block"} \subseteq DOMAIN f /\ f.block = 0 /\ f.kind = "file" BY DEF Frame
  <2>. HIDE DEF f
  <2>4. Layered(<<f>>) /\ Depth(<<f>>) = 0
    <3>1. IsList(<<f>>) /\ Len(<<f>>) = 1 /\ <<f>>[1] = f /\ <<f>> # <<>> BY OneList
    <3>2. /\ \A i \in 1 .. Len(<<f>>) : <<f>>[i] = f
          /\ \A i \in 1 .. Len(<<f>>) - 1 : FALSE
      BY <3>1
    <3>3. f.block \in Blocks BY <2>3 DEF Blocks
    <3>4. Layered(<<f>>) BY <2>3, <3>1, <3>2, <3>3, Zenon DEF Layered
    <3>5. Last(<<f>>) = f /\ ~OnALine(f) BY <2>3, <3>1 DEF Last, OnALine
    <3>. QED BY <3>1, <3>4, <3>5 DEF Depth
  <2>5. Depth(frames) = 0 BY <2>2, NoLayers
  <2>6. Depth(frames') = 0 /\ Layered(frames') BY <2>1, <2>4
  <2>7. Leaks = recursioncount /\ Leaks' = recursioncount BY <2>1, <2>5, <2>6 DEF Leaks, CallsInv
  <2>. QED BY <2>1, <2>6, <2>7 DEF CallsInv
<1>5. CASE \/ MacroLine \/ EndmacroLine \/ MacroBodyLine \/ BeginLine \/ EndLine
           \/ EndFile \/ EndMacro
  <2>1. mode = "run"
    BY <1>5 DEF MacroLine, EndmacroLine, MacroBodyLine, BeginLine, EndLine, EndFile, EndMacro,
                Between, LineDone, InLine
  <2>2. Counts BY <1>5, LinesCount, EndsCount
  <2>. QED BY <2>1, <2>2, CountsKeepCalls
<1>6. CASE \/ RepeatedNever \/ SkipBlock \/ Inactive
           \/ IfWhile \/ AssertThat \/ Elseif \/ For \/ End \/ Else
           \/ Op \/ Rep \/ Error \/ Call \/ Incsrc \/ Includeonce
  <2>1. mode = "run"
    BY <1>6, Zenon DEF RepeatedNever, SkipBlock, Inactive, IfWhile, AssertThat, Elseif, For, End, Else,
                Op, Rep, Error, Call, Incsrc, Includeonce, Executes, Assembles, AtBlock, InLine
  <2>2. Counts BY <1>6, BlocksCount
  <2>. QED BY <2>1, <2>2, CountsKeepCalls
<1>. QED BY <1>1, <1>2, <1>3, <1>4, <1>5, <1>6, Zenon DEF Next, Step

\* recurseblock keeps files and macros from being nested deeper than Limit, whatever
\* includes or calls what, and is balanced: its count is of the lines under way, but
\* for one that each patch may have left behind, which the constructor does when it
\* throws.  So a fatal error brings later patches nearer to the limit, and no other does.
CallsAreLimited ==
  /\ Len(frames) <= Limit + 1
  /\ recursioncount - OpenLines \in 0 .. patches
  /\ recursioncount \in 0 .. Limit + MaxPatches
THEOREM CallsStayLimited == Spec => []CallsAreLimited
<1>1. Init => CallsInv
  <2>. SUFFICES ASSUME Init PROVE CallsInv OBVIOUS
  <2>1. frames = <<>> /\ patches = 0 /\ mode = "idle" /\ recursioncount = 0 BY DEF Init
  <2>2. Layered(frames) /\ Depth(frames) = 0 BY <2>1, NoLayers
  <2>. QED BY <2>1, <2>2, LinesAssumption DEF CallsInv, Leaks
<1>2. CallsInv /\ [Next]_vars => CallsInv' BY CallsStep
<1>3. CallsInv => CallsAreLimited
  <2>. SUFFICES ASSUME CallsInv PROVE CallsAreLimited OBVIOUS
  <2>1. Depth(frames) = OpenLines /\ Depth(frames) \in Nat BY LinesOfFrames DEF CallsInv, OpenLines
  <2>2. /\ Leaks = recursioncount - Depth(frames) /\ Leaks \in 0 .. patches
        /\ patches \in 0 .. MaxPatches /\ recursioncount \in Int
        /\ (Depth(frames) > 0 => recursioncount <= Limit)
    BY DEF CallsInv, Leaks
  <2>3. MaxPatches \in Nat /\ Limit \in Nat \ {0} BY LinesAssumption
  <2>4. recursioncount \in 0 .. Limit + MaxPatches BY <2>1, <2>2, <2>3
  <2>5. Len(frames) <= Limit + 1
    <3>1. Len(frames) \in Nat /\ Len(frames) - 1 <= Depth(frames)
      <4>1. CASE frames = <<>> BY <4>1, <2>1 DEF Depth
      <4>2. CASE frames # <<>>
        <5>1. Len(frames) \in Nat \ {0} BY <4>2, LayerLeft DEF CallsInv
        <5>2. CASE OnALine(Last(frames)) BY <4>2, <5>1, <5>2 DEF Depth
        <5>3. CASE ~OnALine(Last(frames)) BY <4>2, <5>1, <5>3 DEF Depth
        <5>. QED BY <5>2, <5>3
      <4>. QED BY <4>1, <4>2
    <3>2. Depth(frames) <= Limit BY <2>1, <2>2, <2>3
    <3>. QED BY <2>1, <2>3, <3>1, <3>2
  <2>. QED BY <2>1, <2>2, <2>4, <2>5 DEF CallsAreLimited
<1>. QED BY <1>1, <1>2, <1>3, PTL DEF Spec
====
