---------------------------- MODULE SessionProofs ----------------------------
(***************************************************************************)
(* Theorems about a process that applies patches: for every set of calls   *)
(* and command lines, in every order, with patches of any length.          *)
(***************************************************************************)
EXTENDS Session, FiniteSetTheorems, SequenceTheorems, TLAPS

Sums == {"good", "stale", "missing"}
Rom == [len : Nat, data : SUBSET (Nat \X Nat), sum : Sums]

CommandStep ==
  \/ Fails \/ Warn \/ PrintText \/ WarningsPush \/ WarningsPull \/ WarningsSet
  \/ Define \/ UseDefine \/ Label \/ Writes \/ NoChecksum \/ OpenFile

(***************************************************************************)
(* Lemmas about the operators                                              *)
(***************************************************************************)

\* The slots are taken in turn.
LEMMA NextSlotType == next \in 1 .. Slots => NextSlot \in 1 .. Slots
<1>1. Slots \in Nat /\ Slots > 0 BY SessionAssumption
<1>2. \A a \in Nat, n \in Nat : n > 0 => (a % n) \in 0 .. n - 1 OBVIOUS
<1>. QED BY <1>1, <1>2 DEF NextSlot

\* Settings are about the warnings there are.
LEMMA SettingsType == \A ws, from : Settings(ws, from) \subseteq Warnings
BY DEF Settings

LEMMA ListType == \A s : IsList(s) => Len(s) \in Nat /\ DOMAIN s = 1 .. Len(s)
BY DEF IsList

\* A call that is made is one of those the caller may make.
LEMMA CallType ==
  \A c \in Calls \cup Runs :
    /\ IsCall(c) /\ Len(c.patch) \in Nat /\ DOMAIN c.patch = 1 .. Len(c.patch)
    /\ Len(c.defines) \in Nat /\ DOMAIN c.defines = 1 .. Len(c.defines)
    /\ Len(c.warnings) \in Nat /\ DOMAIN c.warnings = 1 .. Len(c.warnings)
<1>. SUFFICES ASSUME NEW c \in Calls \cup Runs
     PROVE  /\ IsCall(c) /\ Len(c.patch) \in Nat /\ DOMAIN c.patch = 1 .. Len(c.patch)
            /\ Len(c.defines) \in Nat /\ DOMAIN c.defines = 1 .. Len(c.defines)
            /\ Len(c.warnings) \in Nat /\ DOMAIN c.warnings = 1 .. Len(c.warnings)
  OBVIOUS
<1>1. IsCall(c) BY SessionAssumption
<1>. QED BY <1>1, ListType DEF IsCall

\* What the checksum does to a ROM, and what is written of it.
LEMMA FixedType ==
  \A r \in Rom : /\ Fixed(r) \in Rom /\ Fixed(r).len = r.len /\ Fixed(r).data = r.data
                 /\ fix => Fixed(r).sum = "good"
BY DEF Fixed, Rom, Sums
LEMMA SavedType == \A r \in Rom : caller \in Rom => Saved(r) \in Rom
BY DEF Saved, Rom

\* What is left of a stack when its top is taken.
LEMMA FrontType ==
  ASSUME NEW S, NEW s \in Seq(S), s # << >>
  PROVE  Last(s) \in S /\ Front(s) \in Seq(S) /\ Len(Front(s)) = Len(s) - 1 /\ Len(s) > 0
<1>1. Len(s) \in Nat /\ Len(s) > 0 BY EmptySeq
<1>2. Front(s) = SubSeq(s, 1, Len(s) - 1) BY DEF Front
<1>3. \A i \in 1 .. Len(s) - 1 : s[i] \in S BY <1>1
<1>5. Front(s) \in Seq(S) /\ Len(Front(s)) = IF 1 <= Len(s) - 1 THEN Len(s) - 1 - 1 + 1 ELSE 0
  BY <1>1, <1>2, <1>3, SubSeqProperties
<1>6. CASE Len(s) = 1 BY <1>1, <1>3, <1>5, <1>6 DEF Last
<1>7. CASE Len(s) > 1 BY <1>1, <1>3, <1>5, <1>7 DEF Last
<1>9. \A n \in Nat : n > 0 => n = 1 \/ n > 1 OBVIOUS
<1>8. Len(s) = 1 \/ Len(s) > 1 BY <1>1, <1>9, Zenon
<1>. QED BY <1>1, <1>6, <1>7, <1>8

-----------------------------------------------------------------------------
(***************************************************************************)
(* Type correctness, and what a mode says of the call under way            *)
(***************************************************************************)

\* Before the command line program has begun.
Fresh ==
  /\ calls = 0 /\ call = NoCall /\ pass = 0 /\ fix /\ ~errored /\ clidefines = {}
  /\ labels = {} /\ stack = <<>> /\ cache = SlotsEmpty /\ clean /\ result = "none"
  /\ optionAt = 1 /\ caller.len = RomLen /\ caller.sum = "stale"

Shape ==
  /\ lib \in BOOLEAN /\ builtin \in BOOLEAN /\ calls \in Nat /\ at \in Nat
  /\ stack \in Seq(SUBSET Warnings) /\ given \subseteq Warnings /\ clean \in BOOLEAN
  /\ caller \in Rom /\ rom \in Rom /\ DOMAIN cache = 1 .. Slots
  /\ optionAt \in Nat \ {0}
  /\ lib  => call = NoCall \/ call \in Calls
  /\ ~lib => (IF mode = "idle" THEN Fresh ELSE call \in Runs)
  /\ mode \in {"pass", "commands", "end"} => call # NoCall
  /\ mode \in {"options", "caught", "exit"} => ~lib
  /\ mode = "options" => pass = 0
  /\ mode \in {"pass", "commands"} => pass \in Passes
  /\ mode = "commands" => at \in 1 .. Len(call.patch) + 1
Types == TypeOK /\ Shape

LEMMA TypesInit == Init => Types
<1>. SUFFICES ASSUME Init PROVE Types OBVIOUS
<1>1. caller \in Rom /\ rom \in Rom BY SessionAssumption DEF Init, Rom, Sums, NoRom
<1>2. next \in 1 .. Slots BY SessionAssumption DEF Init
<1>3. stack \in Seq(SUBSET Warnings) BY DEF Init
<1>6. Default \subseteq Warnings BY SessionAssumption
<1>7. caller.sum \in Sums BY DEF Init, Sums
<1>8. pass \in 0 .. 3 /\ mode = "idle" /\ result = "none" BY DEF Init
<1>9. errored \in BOOLEAN /\ fix \in BOOLEAN /\ force \in BOOLEAN BY DEF Init
<1>10. enabled \subseteq Warnings /\ main \subseteq Warnings BY <1>6 DEF Init
<1>4. TypeOK BY <1>2, <1>7, <1>8, <1>9, <1>10 DEF TypeOK, Sums
<1>11. Fresh BY DEF Init, Fresh
<1>12. lib \in BOOLEAN /\ builtin \in BOOLEAN /\ clean \in BOOLEAN BY DEF Init
<1>13. call = NoCall /\ calls \in Nat /\ at \in Nat /\ optionAt \in Nat \ {0} BY DEF Init
<1>14. given \subseteq Warnings BY <1>6 DEF Init
<1>5. DOMAIN cache = 1 .. Slots BY DEF Init, SlotsEmpty
<1>. QED BY <1>1, <1>3, <1>4, <1>5, <1>8, <1>11, <1>12, <1>13, <1>14 DEF Types, Shape

\* The call of a patch whose passes are under way, and its command.
LEMMA RunningCall ==
  ASSUME Types, mode \in {"pass", "commands", "end"}
  PROVE  call \in Calls \cup Runs /\ (lib => call \in Calls) /\ (~lib => call \in Runs)
BY DEF Types, Shape

LEMMA CmdType ==
  ASSUME Types, NEW op, AtCommand(op)
  PROVE  /\ at \in 1 .. Len(call.patch) /\ Len(call.patch) \in Nat /\ pass \in Passes
         /\ Cmd = call.patch[at] /\ Cmd.c = op /\ IsCommand(Cmd)
<1>1. mode = "commands" /\ call \in Calls \cup Runs BY RunningCall DEF AtCommand
<1>2. at \in DOMAIN call.patch BY DEF AtCommand
<1>3. at \in 1 .. Len(call.patch) /\ IsCall(call) /\ Len(call.patch) \in Nat
  BY <1>1, <1>2, CallType
<1>. QED BY <1>1, <1>2, <1>3 DEF AtCommand, Cmd, IsCall, Types, Shape

\* A command that goes through goes on to the next one; one that fails may end the patch.
LEMMA CommandFrame ==
  ASSUME Types, CommandStep
  PROVE  /\ mode = "commands" /\ at \in 1 .. Len(call.patch) /\ Len(call.patch) \in Nat
         /\ pass \in Passes /\ IsCommand(call.patch[at])
         /\ UNCHANGED <<lib, calls, call, pass, caller, optionAt, result, history,
                        main, clidefines, builtin, force, fs>>
         /\ errored => errored'
         /\ errored' \in BOOLEAN
         /\ \/ mode' = "commands" /\ at' = at + 1
            \/ mode' = (IF lib THEN "end" ELSE "caught") /\ at' = at /\ errored'
<1>1. PICK op : AtCommand(op)
  BY DEF CommandStep, Fails, Warn, PrintText, WarningsPush, WarningsPull, WarningsSet, Define,
         UseDefine, Label, Writes, NoChecksum, OpenFile
<1>2. /\ mode = "commands" /\ at \in 1 .. Len(call.patch) /\ Len(call.patch) \in Nat
      /\ pass \in Passes /\ IsCommand(call.patch[at])
  BY <1>1, CmdType DEF AtCommand
<1>3. UNCHANGED <<lib, calls, call, pass, caller, optionAt, result, history,
                  main, clidefines, builtin, force, fs>>
  BY DEF CommandStep, Fails, Warn, PrintText, WarningsPush, WarningsPull, WarningsSet, Define,
         UseDefine, Label, Writes, NoChecksum, OpenFile, Commons, warning, names, checksum, files
<1>4. errored \in BOOLEAN BY DEF Types, TypeOK
<1>5. CASE (\E e : Raises(e))
  <2>1. PICK e : Raises(e) BY <1>5
  <2>2. errored' = TRUE BY <2>1 DEF Raises, Reports, Stops
  <2>3. \/ mode' = "commands" /\ at' = at + 1
        \/ mode' = (IF lib THEN "end" ELSE "caught") /\ at' = at
    BY <2>1 DEF Raises
  <2>. QED BY <1>2, <1>3, <2>2, <2>3
<1>6. CASE ~ (\E e : Raises(e))
  <2>1. Done /\ UNCHANGED errored
    BY <1>6 DEF CommandStep, Fails, Warn, PrintText, WarningsPush, WarningsPull, WarningsSet, Define,
           UseDefine, Label, Writes, NoChecksum, OpenFile, report
  <2>. QED BY <1>2, <1>3, <1>4, <2>1 DEF Done
<1>. QED BY <1>5, <1>6

\* The warnings that a command leaves enabled and pushed.
LEMMA CommandWarnings ==
  ASSUME Types, CommandStep
  PROVE  enabled' \subseteq Warnings /\ stack' \in Seq(SUBSET Warnings)
<1>. USE DEF Types, TypeOK, Shape
<1>1. CASE WarningsPush BY <1>1, AppendProperties DEF WarningsPush
<1>2. CASE WarningsPull
  <2>1. CASE stack = <<>> BY <1>2, <2>1 DEF WarningsPull
  <2>2. CASE stack # <<>> BY <1>2, <2>2, FrontType DEF WarningsPull
  <2>. QED BY <2>1, <2>2
<1>3. CASE WarningsSet
  <2>1. Cmd.w \in Warnings BY <1>3, CmdType DEF WarningsSet, IsCommand
  <2>. QED BY <1>3, <2>1 DEF WarningsSet
<1>4. CASE Fails \/ Warn \/ PrintText \/ Define \/ UseDefine \/ Label \/ Writes \/ NoChecksum \/ OpenFile
  BY <1>4 DEF Fails, Warn, PrintText, Define, UseDefine, Label, Writes, NoChecksum, OpenFile, warning
<1>. QED BY <1>1, <1>2, <1>3, <1>4 DEF CommandStep

\* The ROM that a command leaves: a write adds its bytes in the last pass.
LEMMA CommandRom ==
  ASSUME Types, CommandStep
  PROVE  /\ rom' \in Rom /\ rom.len <= rom'.len
         /\ IF pass < 2 \/ call.patch[at].c # "write" THEN rom' = rom
            ELSE /\ rom'.data = rom.data \cup {<<calls, at>>}
                 /\ rom'.len = IF call.patch[at].to > rom.len THEN call.patch[at].to ELSE rom.len
<1>1. rom \in Rom /\ calls \in Nat /\ at \in Nat /\ rom.len \in Nat BY DEF Types, Shape, Rom
<1>2. CASE Writes
  <2>1. Cmd = call.patch[at] /\ Cmd.c = "write" /\ Cmd.to \in Nat
    BY <1>2, CmdType DEF Writes, IsCommand
  <2>2. CASE pass < 2 BY <1>1, <1>2, <2>2 DEF Writes
  <2>3. CASE ~(pass < 2)
    <3>1. rom' = [len |-> IF Cmd.to > rom.len THEN Cmd.to ELSE rom.len,
                  data |-> rom.data \cup {<<calls, at>>}, sum |-> "stale"]
      BY <1>2, <2>3 DEF Writes
    <3>2. rom.data \cup {<<calls, at>>} \subseteq Nat \X Nat BY <1>1 DEF Rom
    <3>3. rom' \in Rom BY <1>1, <2>1, <3>1, <3>2 DEF Rom, Sums
    <3>. QED BY <1>1, <2>1, <2>3, <3>1, <3>3
  <2>. QED BY <2>2, <2>3
<1>3. CASE ~Writes
  <2>1. rom' = rom
    BY <1>3 DEF CommandStep, Fails, Warn, PrintText, WarningsPush, WarningsPull, WarningsSet, Define,
           UseDefine, Label, NoChecksum, OpenFile
  <2>2. call.patch[at].c # "write"
    <3>1. PICK op : AtCommand(op) /\ op # "write"
      BY <1>3 DEF CommandStep, Fails, Warn, PrintText, WarningsPush, WarningsPull, WarningsSet, Define,
           UseDefine, Label, NoChecksum, OpenFile
    <3>. QED BY <3>1 DEF AtCommand
  <2>. QED BY <1>1, <2>1, <2>2
<1>. QED BY <1>2, <1>3

LEMMA CommandTypes == Types /\ CommandStep => Types'
<1>. SUFFICES ASSUME Types, CommandStep PROVE Types' OBVIOUS
<1>1. next' \in 1 .. Slots /\ DOMAIN cache' = 1 .. Slots
  <2>. USE DEF Types, TypeOK, Shape
  <2>1. CASE OpenFile BY <2>1, NextSlotType DEF OpenFile
  <2>2. CASE ~OpenFile
    BY <2>2 DEF CommandStep, Fails, Warn, PrintText, WarningsPush, WarningsPull, WarningsSet, Define,
           UseDefine, Label, Writes, NoChecksum, files
  <2>. QED BY <2>1, <2>2
<1>2. fix' \in BOOLEAN
  <2>. USE DEF Types, TypeOK
  <2>1. CASE NoChecksum BY <2>1 DEF NoChecksum, FixUnlessForced
  <2>2. CASE ~NoChecksum
    BY <2>2 DEF CommandStep, Fails, Warn, PrintText, WarningsPush, WarningsPull, WarningsSet, Define,
           UseDefine, Label, Writes, OpenFile, checksum
  <2>. QED BY <2>1, <2>2
<1>3. enabled' \subseteq Warnings /\ stack' \in Seq(SUBSET Warnings) BY CommandWarnings
<1>4. rom' \in Rom BY CommandRom
<1>5. /\ mode = "commands" /\ at \in 1 .. Len(call.patch) /\ Len(call.patch) \in Nat
      /\ pass \in Passes /\ errored' \in BOOLEAN
      /\ UNCHANGED <<lib, calls, call, pass, caller, optionAt, result, given, clean, main, builtin, force>>
  BY CommandFrame DEF history
<1>6. \/ mode' = "commands" /\ at' = at + 1
      \/ mode' = (IF lib THEN "end" ELSE "caught") /\ at' = at
  BY CommandFrame
<1>7. at' \in Nat /\ (mode' = "commands" => at' \in 1 .. Len(call.patch) + 1) BY <1>5, <1>6
<1>8. TypeOK' BY <1>1, <1>2, <1>3, <1>5, <1>6 DEF Types, TypeOK
<1>9. Shape' BY <1>1, <1>3, <1>4, <1>5, <1>6, <1>7 DEF Types, Shape
<1>. QED BY <1>8, <1>9 DEF Types

\* The calls of the library.
LEMMA BeginsType ==
  ASSUME Types, NEW c, Begins(c)
  PROVE  mode = "idle" /\ lib /\ lib' = lib => calls' \in Nat /\ call' = c
BY DEF Begins, Types, Shape

LEMMA LibraryTypes ==
  ASSUME Types, AsarPatch \/ AsarPatchEx \/ AsarReset \/ AsarMath \/ AsarPatchEnd
  PROVE  Types'
<1>. USE DEF Types, TypeOK, Shape
<1>0. Default \subseteq Warnings /\ 1 \in 1 .. Slots /\ DOMAIN SlotsEmpty = 1 .. Slots
  BY SessionAssumption DEF SlotsEmpty
<1>1. CASE AsarPatch
  <2>1. PICK c \in Calls : Begins(c) /\ CopyRom /\ ResetDllStuff
    BY <1>1 DEF AsarPatch
  <2>2. c # NoCall BY SessionAssumption DEF NoCall
  <2>3. /\ mode = "idle" /\ lib /\ calls' \in Nat /\ call' = c
        /\ rom' = caller /\ enabled' = Default /\ errored' = FALSE
        /\ fix' = TRUE /\ force' = FALSE /\ cache' = SlotsEmpty /\ next' = 1
    BY <2>1 DEF Begins, CopyRom, ResetDllStuff, ResetEverything, Closed
  <2>4. /\ mode' = "pass" /\ pass' = 0 /\ given' = enabled' /\ clean' = (stack = <<>>)
        /\ UNCHANGED <<lib, at, caller, stack, main, builtin, optionAt, result>>
    BY <1>1 DEF AsarPatch
  <2>9. next' \in 1 .. Slots /\ pass' \in 0 .. 3 BY <1>0, <2>3, <2>4
  <2>10. errored' \in BOOLEAN /\ fix' \in BOOLEAN /\ force' \in BOOLEAN BY <2>3
  <2>11. enabled' \subseteq Warnings /\ main' \subseteq Warnings BY <1>0, <2>3, <2>4
  <2>5. TypeOK' BY <2>4, <2>9, <2>10, <2>11
  <2>6. stack' \in Seq(SUBSET Warnings) /\ given' \subseteq Warnings /\ clean' \in BOOLEAN
        /\ builtin' \in BOOLEAN /\ at' \in Nat /\ optionAt' \in Nat \ {0}
    BY <1>0, <2>3, <2>4
  <2>7. caller' \in Rom /\ rom' \in Rom /\ DOMAIN cache' = 1 .. Slots BY <1>0, <2>3, <2>4
  <2>8. Shape' BY <2>2, <2>3, <2>4, <2>6, <2>7 DEF Passes
  <2>. QED BY <2>5, <2>8
<1>2. CASE AsarPatchEx
  <2>1. PICK c \in Calls :
          /\ Begins(c) /\ CopyRom
          /\ errored' = SetupFails(c) \/ errored' = (errored \/ SetupFails(c))
          /\ \/ enabled' = Default \/ enabled' = enabled
             \/ enabled' = Settings(c.warnings, Default) \/ enabled' = Settings(c.warnings, enabled)
          /\ Closed \/ UNCHANGED <<cache, next>>
          /\ LET says == c.checksum # "as it is" /\ ~Twice(c)
             IN  /\ force' = (says \/ (~c.reset /\ force))
                 /\ fix' = IF says THEN c.checksum = "on" ELSE c.reset \/ fix
          /\ \/ mode' = "pass" /\ pass' = 0 /\ builtin' = TRUE /\ UNCHANGED result
             \/ UNCHANGED <<mode, pass, builtin>> /\ result' = "false"
    BY <1>2 DEF AsarPatchEx
  <2>9. SetupFails(c) \in BOOLEAN BY Zenon DEF SetupFails, Invalid, Twice, Unknown
  <2>13. c # NoCall BY SessionAssumption DEF NoCall
  <2>14. IsCall(c) BY SessionAssumption
  <2>2. c # NoCall /\ c.reset \in BOOLEAN BY <2>13, <2>14 DEF IsCall
  <2>10. Begins(c) /\ CopyRom BY <2>1
  <2>3. mode = "idle" /\ lib /\ calls' \in Nat /\ call' = c /\ rom' = caller
    BY <2>10 DEF Begins, CopyRom
  <2>4. given' = enabled' /\ clean' = (stack = <<>>) /\ UNCHANGED <<lib, at, caller, stack, main, optionAt>>
    BY <1>2 DEF AsarPatchEx
  <2>5. enabled' \subseteq Warnings
    <3>1. \/ enabled' = Default \/ enabled' = enabled
          \/ enabled' = Settings(c.warnings, Default) \/ enabled' = Settings(c.warnings, enabled)
      BY <2>1
    <3>. QED BY <1>0, <3>1, SettingsType
  <2>6. next' \in 1 .. Slots /\ DOMAIN cache' = 1 .. Slots BY <1>0, <2>1 DEF Closed
  <2>7. errored' \in BOOLEAN /\ fix' \in BOOLEAN /\ force' \in BOOLEAN
    <3>1. errored' \in BOOLEAN BY <2>1, <2>9, Zenon
    <3>2. fix' \in BOOLEAN BY <2>1, <2>2
    <3>3. force' \in BOOLEAN BY <2>1, <2>2
    <3>. QED BY <3>1, <3>2, <3>3
  <2>11. CASE mode' = "pass" /\ pass' = 0 /\ builtin' = TRUE /\ UNCHANGED result
    <3>1. TypeOK' BY <2>3, <2>4, <2>5, <2>6, <2>7, <2>11
    <3>2. Shape' BY <2>2, <2>3, <2>4, <2>5, <2>6, <2>7, <2>11 DEF Passes
    <3>. QED BY <3>1, <3>2
  <2>12. CASE UNCHANGED <<mode, pass, builtin>> /\ result' = "false"
    <3>1. TypeOK' BY <2>3, <2>4, <2>5, <2>6, <2>7, <2>12
    <3>2. Shape' BY <2>2, <2>3, <2>4, <2>5, <2>6, <2>7, <2>12
    <3>. QED BY <3>1, <3>2
  <2>. QED BY <2>1, <2>11, <2>12
<1>3. CASE AsarReset
  <2>1. /\ mode = "idle" /\ lib /\ calls' \in Nat /\ call' = NoCall
        /\ enabled' = Default /\ errored' = FALSE /\ pass' = 0 /\ result' = "none"
        /\ fix' = TRUE /\ force' = FALSE /\ cache' = SlotsEmpty /\ next' = 1
    BY <1>3 DEF AsarReset, Begins, ResetDllStuff, ResetEverything, Closed
  <2>2. UNCHANGED <<mode, lib, at, caller, rom, stack, main, builtin, optionAt, given, clean>>
    BY <1>3 DEF AsarReset, history
  <2>5. next' \in 1 .. Slots /\ pass' \in 0 .. 3 BY <1>0, <2>1
  <2>6. errored' \in BOOLEAN /\ fix' \in BOOLEAN /\ force' \in BOOLEAN BY <2>1
  <2>7. enabled' \subseteq Warnings /\ main' \subseteq Warnings BY <1>0, <2>1, <2>2
  <2>3. TypeOK' BY <2>1, <2>2, <2>5, <2>6, <2>7
  <2>4. Shape' BY <1>0, <2>1, <2>2
  <2>. QED BY <2>3, <2>4
<1>4. CASE AsarMath
  <2>1. mode = "idle" /\ lib /\ calls' \in Nat /\ call' = NoCall /\ errored' \in BOOLEAN /\ result' = "none"
    BY <1>4 DEF AsarMath, Begins
  <2>2. UNCHANGED <<mode, lib, pass, at, caller, rom, enabled, stack, main, builtin, fix, force,
                    cache, next, optionAt, given, clean>>
    BY <1>4 DEF AsarMath, history, warning, names, checksum, files
  <2>. QED BY <2>1, <2>2
<1>5. CASE AsarPatchEnd
  <2>1. mode = "end" /\ lib /\ mode' = "idle" /\ rom' = Fixed(rom) BY <1>5 DEF AsarPatchEnd
  <2>2. rom' \in Rom BY <2>1, FixedType
  <2>3. caller' \in Rom BY <1>5, <2>2 DEF AsarPatchEnd
  <2>4. result' \in {"true", "false"} /\ errored' \in BOOLEAN BY <1>5 DEF AsarPatchEnd
  <2>5. next' \in 1 .. Slots /\ DOMAIN cache' = 1 .. Slots BY <1>0, <1>5 DEF AsarPatchEnd, Closed
  <2>6. UNCHANGED <<lib, calls, call, pass, at, enabled, stack, main, builtin, fix, force,
                    optionAt, given, clean>>
    BY <1>5 DEF AsarPatchEnd, history, warning, names, checksum
  <2>7. caller'.sum \in Sums BY <2>3 DEF Rom
  <2>. QED BY <2>1, <2>2, <2>3, <2>4, <2>5, <2>6, <2>7 DEF Sums
<1>. QED BY <1>1, <1>2, <1>3, <1>4, <1>5

\* The passes: each begins and ends with its warnings.
LEMMA PassTypes == Types /\ (StartPass \/ FinishPass) => Types'
<1>. SUFFICES ASSUME Types, StartPass \/ FinishPass PROVE Types' OBVIOUS
<1>. USE DEF Types, TypeOK, Shape
<1>1. CASE StartPass
  <2>1. /\ mode = "pass" /\ mode' = "commands" /\ at' = 1 /\ main' = enabled
        /\ UNCHANGED <<lib, calls, call, pass, caller, rom, errored, enabled, stack, builtin,
                       fix, force, cache, next, optionAt, result, given, clean>>
    BY <1>1 DEF StartPass, report, checksum, files, history
  <2>2. Len(call.patch) \in Nat BY <2>1, RunningCall, CallType
  <2>3. 1 \in 1 .. Len(call.patch) + 1 BY <2>2
  <2>. QED BY <2>1, <2>3
<1>2. CASE FinishPass
  <2>1. /\ mode = "commands"
        /\ UNCHANGED <<lib, calls, call, at, caller, rom, main, builtin, fix, force,
                       cache, next, optionAt, result, given, clean>>
    BY <1>2 DEF FinishPass, names, checksum, files, history
  <2>2. errored' \in BOOLEAN BY <1>2 DEF FinishPass, Reports, Stops
  <2>3. CASE stack # <<>> /\ IsFatal(Unpulled)
    <3>1. mode' = "caught" /\ UNCHANGED <<stack, enabled, pass>> BY <1>2, <2>3 DEF FinishPass
    <3>2. ~lib BY <2>3 DEF IsFatal, Unpulled, LimitReached
    <3>. QED BY <2>1, <2>2, <3>1, <3>2
  <2>4. CASE ~(stack # <<>> /\ IsFatal(Unpulled))
    <3>1. /\ stack' = <<>> /\ enabled' = main /\ pass' = pass + 1
          /\ mode' = IF pass + 1 = 3 THEN "end" ELSE "pass"
      BY <1>2, <2>4 DEF FinishPass, Restored, NextPass
    <3>2. pass' \in 0 .. 3 /\ (mode' = "pass" => pass' \in Passes) BY <2>1, <3>1 DEF Passes
    <3>. QED BY <2>1, <2>2, <3>1, <3>2
  <2>. QED BY <2>3, <2>4
<1>. QED BY <1>1, <1>2

\* The command line program.
LEMMA CliTypes ==
  ASSUME Types, CliStart \/ CliOption \/ CliOpen \/ CliEnd \/ CliCaught
  PROVE  Types'
<1>. USE DEF Types, TypeOK
<1>0. Default \subseteq Warnings /\ 1 \in 1 .. Slots /\ DOMAIN SlotsEmpty = 1 .. Slots
  BY SessionAssumption DEF SlotsEmpty
<1>6. NoRom \in Rom /\ \A s \in Sums : [NoRom EXCEPT !.sum = s] \in Rom BY DEF NoRom, Rom, Sums
<1>1. CASE CliStart
  <2>1. PICK c \in Runs :
          /\ mode = "idle" /\ ~lib /\ calls = 0 /\ calls' = 1 /\ call' = c /\ mode' = "options"
          /\ caller' = IF c.romExists THEN caller ELSE [NoRom EXCEPT !.sum = "missing"]
    BY <1>1 DEF CliStart
  <2>2. UNCHANGED <<lib, pass, at, rom, errored, enabled, stack, main, builtin, fix, force,
                    cache, next, optionAt, result, given, clean>>
    BY <1>1 DEF CliStart, report, warning, names, checksum, files, history
  <2>3. caller' \in Rom BY <1>6, <2>1 DEF Sums, Shape
  <2>4. caller'.sum \in Sums BY <2>3 DEF Rom
  <2>5. TypeOK' BY <2>1, <2>2, <2>4 DEF Sums
  <2>6. pass = 0 BY <2>1 DEF Shape, Fresh
  <2>7. Shape' BY <2>1, <2>2, <2>3, <2>6 DEF Shape
  <2>. QED BY <2>5, <2>7
<1>2. CASE CliOption
  <2>1. /\ mode = "options" /\ ~lib
        /\ UNCHANGED <<lib, calls, call, pass, at, caller, rom, stack, main, builtin, cache, next,
                       given, clean>>
    BY <1>2 DEF CliOption, names, files, history, Shape
  <2>2. /\ \/ mode' = "caught" /\ UNCHANGED <<result, optionAt>>
           \/ mode' = "exit" /\ result' = "1" /\ UNCHANGED optionAt
           \/ mode' = "options" /\ UNCHANGED result /\ optionAt' = optionAt + 1
        /\ errored' \in {errored, TRUE}
        /\ fix' \in BOOLEAN /\ force' \in BOOLEAN
        /\ \/ enabled' = enabled
           \/ \E w : enabled' = Settings(<<w>>, enabled)
    <3>1. CASE \E d : CliDefine(d)
      BY <2>1, <3>1 DEF CliDefine, CliError, NextOption, NoError, Exit, Reports, Stops, checksum
    <3>2. CASE \E w : CliWarning(w)
      BY <2>1, <3>2 DEF CliWarning, CliError, NextOption, NoError, Reports, Stops, checksum
    <3>3. CASE CliChecksum
      BY <2>1, <3>3 DEF CliChecksum, NextOption, NoError, checksum
    <3>. QED BY <1>2, <3>1, <3>2, <3>3 DEF CliOption
  <2>8. \A w : Settings(<<w>>, enabled) \subseteq Warnings BY SettingsType
  <2>3. enabled' \subseteq Warnings BY <2>2, <2>8
  <2>4. errored' \in BOOLEAN BY <2>2
  <2>5. TypeOK' BY <2>1, <2>2, <2>3, <2>4
  <2>6. optionAt' \in Nat \ {0} BY <2>2 DEF Shape
  <2>7. Shape' BY <2>1, <2>2, <2>6 DEF Shape
  <2>. QED BY <2>5, <2>7
<1>3. CASE CliOpen
  <2>1. /\ mode = "options" /\ ~lib /\ given' = enabled
        /\ UNCHANGED <<lib, calls, call, pass, at, enabled, stack, main, fix, force, cache, next, clean>>
    BY <1>3 DEF CliOpen, warning, checksum, Shape
  <2>2. caller' \in Rom BY <1>3, <1>6 DEF CliOpen, Sums, Shape
  <2>3. /\ \/ mode' = "caught" /\ UNCHANGED result
           \/ mode' = "exit" /\ result' = "1"
           \/ mode' = "pass" /\ UNCHANGED result
        /\ rom' \in {rom, caller'} /\ builtin' \in {builtin, TRUE} /\ errored' \in {errored, TRUE}
        /\ UNCHANGED optionAt
    BY <1>3 DEF CliOpen, CliError, Exit, Reports, Stops
  <2>4. caller'.sum \in Sums BY <2>2 DEF Rom
  <2>5. TypeOK' BY <2>1, <2>3, <2>4 DEF Sums
  <2>6. rom' \in Rom BY <2>2, <2>3 DEF Shape
  <2>7. call # NoCall BY <2>1, SessionAssumption DEF NoCall, Shape
  <2>8. pass = 0 BY <2>1 DEF Shape
  <2>10. /\ lib' \in BOOLEAN /\ builtin' \in BOOLEAN /\ stack' \in Seq(SUBSET Warnings)
         /\ given' \subseteq Warnings /\ DOMAIN cache' = 1 .. Slots
    BY <2>1, <2>3 DEF Shape
  <2>11. call' \in Runs /\ ~lib' /\ calls' \in Nat /\ at' \in Nat /\ optionAt' \in Nat \ {0}
    BY <2>1, <2>3 DEF Shape
  <2>9. Shape' BY <2>1, <2>2, <2>3, <2>6, <2>7, <2>8, <2>10, <2>11 DEF Shape, Passes
  <2>. QED BY <2>5, <2>9
<1>4. CASE CliEnd
  <2>1. /\ mode = "end" /\ ~lib /\ mode' = "exit" /\ rom' = Fixed(rom)
        /\ caller' \in {caller, Saved(rom')} /\ result' \in {"0", "1"}
        /\ UNCHANGED <<lib, calls, call, pass, at, enabled, stack, main, builtin, optionAt, given, clean>>
    BY <1>4 DEF CliEnd, Exit, warning, history
  <2>2. /\ errored' = FALSE /\ fix' = TRUE /\ force' = FALSE /\ cache' = SlotsEmpty /\ next' = 1
    BY <1>4 DEF CliEnd, ResetEverything, Closed
  <2>3. rom' \in Rom BY <2>1, FixedType DEF Shape
  <2>4. caller' \in Rom BY <2>1, <2>3, SavedType DEF Shape
  <2>5. caller'.sum \in Sums BY <2>4 DEF Rom
  <2>6. TypeOK' BY <1>0, <2>1, <2>2, <2>5 DEF Sums
  <2>7. Shape' BY <1>0, <2>1, <2>2, <2>3, <2>4 DEF Shape
  <2>. QED BY <2>6, <2>7
<1>5. CASE CliCaught
  <2>1. /\ mode = "caught" /\ mode' = "exit" /\ result' = "1" /\ rom' = NoRom
        /\ UNCHANGED <<lib, calls, call, pass, at, caller, enabled, stack, main, builtin, optionAt, given, clean>>
    BY <1>5 DEF CliCaught, Exit, warning, history
  <2>2. /\ errored' = FALSE /\ fix' = TRUE /\ force' = FALSE /\ cache' = SlotsEmpty /\ next' = 1
    BY <1>5 DEF CliCaught, ResetEverything, Closed
  <2>3. TypeOK' BY <1>0, <2>1, <2>2
  <2>4. Shape' BY <1>0, <1>6, <2>1, <2>2 DEF Shape
  <2>. QED BY <2>3, <2>4
<1>. QED BY <1>1, <1>2, <1>3, <1>4, <1>5

\* The actions, in the groups in which they are dealt with.
LEMMA NextCases ==
  Next <=> \/ CommandStep \/ StartPass \/ FinishPass
           \/ AsarPatch \/ AsarPatchEx \/ AsarReset \/ AsarMath \/ AsarPatchEnd
           \/ CliStart \/ CliOption \/ CliOpen \/ CliEnd \/ CliCaught
BY DEF Next, Step, CommandStep

LEMMA TypesStep == Types /\ [Next]_vars => Types'
<1>1. Types /\ Next => Types'
  BY NextCases, CommandTypes, LibraryTypes, PassTypes, CliTypes
<1>2. ASSUME Types, UNCHANGED vars PROVE Types'
  BY <1>2 DEF Types, TypeOK, Shape, Fresh, vars, report, warning, names, checksum, files, history
<1>. QED BY <1>1, <1>2

\* Every state of the process is well typed, whatever it is asked to do: the slot that
\* opencachedfile takes next is one there is.
THEOREM TypeCorrect == Spec => []TypeOK
<1>1. Types => TypeOK BY DEF Types
<1>. QED BY <1>1, TypesInit, TypesStep, PTL DEF Spec

-----------------------------------------------------------------------------
(***************************************************************************)
(* The warnings that a call enables                                        *)
(***************************************************************************)

\* A pass has the warnings of the call, and so has the state that it will restore.
SettingsInv ==
  /\ mode = "pass" => enabled = given
  /\ mode = "commands" => main = given

LEMMA SettingsStep == Types /\ SettingsInv /\ [Next]_vars => SettingsInv'
<1>. SUFFICES ASSUME Types, SettingsInv, [Next]_vars PROVE SettingsInv' OBVIOUS
<1>. USE DEF SettingsInv
<1>1. CASE CommandStep
  <2>1. mode = "commands" /\ mode' \in {"commands", "end", "caught"} /\ UNCHANGED <<main, given>>
    BY <1>1, CommandFrame DEF history
  <2>. QED BY <2>1
<1>2. CASE StartPass BY <1>2 DEF StartPass, history
<1>3. CASE FinishPass BY <1>3 DEF FinishPass, Restored, history
<1>4. CASE AsarPatch BY <1>4 DEF AsarPatch
<1>5. CASE AsarPatchEx
  <2>1. given' = enabled' /\ mode' \in {"idle", "pass"} BY <1>5 DEF AsarPatchEx, Begins
  <2>. QED BY <2>1
<1>6. CASE AsarReset \/ AsarMath \/ AsarPatchEnd
  BY <1>6 DEF AsarReset, AsarMath, AsarPatchEnd, Begins
<1>7. CASE CliStart \/ CliEnd \/ CliCaught BY <1>7 DEF CliStart, CliEnd, CliCaught, Exit
<1>8. CASE CliOption
  <2>1. mode' \in {"options", "exit", "caught"}
    BY <1>8 DEF CliOption, CliDefine, CliWarning, CliChecksum, CliError, NextOption, Exit
  <2>. QED BY <2>1
<1>9. CASE CliOpen
  <2>1. given' = enabled /\ enabled' = enabled /\ mode' \in {"caught", "exit", "pass"}
    BY <1>9 DEF CliOpen, CliError, Exit, warning
  <2>. QED BY <2>1
<1>10. CASE UNCHANGED vars BY <1>10 DEF vars, warning, history
<1>. QED BY <1>1, <1>2, <1>3, <1>4, <1>5, <1>6, <1>7, <1>8, <1>9, <1>10, NextCases

\* Every pass begins with the warnings that the call has enabled, whatever has been pushed,
\* pulled and set in the pass before.
THEOREM SettingsCorrect == Spec => []SettingsReturn
<1>1. Init => SettingsInv BY DEF Init, SettingsInv
<1>2. SettingsInv => SettingsReturn BY DEF SettingsInv, SettingsReturn
<1>. QED BY <1>1, <1>2, TypesInit, TypesStep, SettingsStep, PTL DEF Spec

-----------------------------------------------------------------------------
(***************************************************************************)
(* The ROM                                                                 *)
(***************************************************************************)

\* The ROM that is worked on is the caller's, until the last pass writes to it.
WritesBefore(k) == Before(call, "write", k)
Grown(k) ==
  /\ rom.data = caller.data \cup { <<calls, i>> : i \in WritesBefore(k) }
  /\ caller.len <= rom.len /\ \A i \in WritesBefore(k) : call.patch[i].to <= rom.len
  /\ rom.len = caller.len \/ \E i \in WritesBefore(k) : call.patch[i].to = rom.len
RomInv ==
  /\ mode = "pass" \/ (mode = "commands" /\ pass < 2) => rom = caller
  /\ mode = "commands" /\ pass = 2 => Grown(at)
  /\ mode = "end" => caller.len <= rom.len
  /\ mode = "end" /\ ~errored => Grown(Len(call.patch) + 1)

\* The commands before the next one.
LEMMA BeforeNext ==
  ASSUME NEW c, NEW op, NEW k \in Nat
  PROVE  /\ Before(c, op, k + 1) = Before(c, op, k) \cup (IF k > 0 /\ c.patch[k].c = op THEN {k} ELSE {})
         /\ k \notin Before(c, op, k)
BY DEF Before
LEMMA BeforeFirst == \A c, op : Before(c, op, 1) = {}
BY DEF Before

LEMMA RomCommand == Types /\ RomInv /\ CommandStep => RomInv'
<1>. SUFFICES ASSUME Types, RomInv, CommandStep PROVE RomInv' OBVIOUS
<1>1. /\ mode = "commands" /\ at \in 1 .. Len(call.patch) /\ Len(call.patch) \in Nat
      /\ pass \in Passes /\ UNCHANGED <<calls, call, pass, caller>>
      /\ \/ mode' = "commands" /\ at' = at + 1
         \/ mode' = (IF lib THEN "end" ELSE "caught") /\ at' = at /\ errored'
  BY CommandFrame
<1>2. caller \in Rom /\ rom \in Rom /\ rom' \in Rom BY CommandRom DEF Types, Shape
<1>3. caller.len \in Nat /\ rom.len \in Nat /\ rom'.len \in Nat BY <1>2 DEF Rom
<1>4. caller.len <= rom.len
  BY <1>1, <1>3 DEF RomInv, Passes, Grown
<1>5. caller.len <= rom'.len BY <1>3, <1>4, CommandRom
<1>6. pass < 2 => rom' = rom BY CommandRom
<1>7. ASSUME mode' = "commands", pass = 2 PROVE Grown(at)'
  <2>1. Grown(at) /\ at' = at + 1 /\ at \in Nat /\ at > 0 BY <1>1, <1>7 DEF RomInv
  <2>2. WritesBefore(at)' = WritesBefore(at) \cup (IF call.patch[at].c = "write" THEN {at} ELSE {})
    BY <1>1, <2>1, BeforeNext DEF WritesBefore
  <2>3. CASE call.patch[at].c = "write"
    <3>1. /\ rom'.data = rom.data \cup {<<calls, at>>}
          /\ rom'.len = IF call.patch[at].to > rom.len THEN call.patch[at].to ELSE rom.len
      BY <1>7, <2>3, CommandRom
    <3>2. IsCommand(call.patch[at]) BY CommandFrame
    <3>3. call.patch[at].to \in Nat BY <2>3, <3>2 DEF IsCommand
    <3>4. WritesBefore(at)' = WritesBefore(at) \cup {at} BY <2>2, <2>3
    <3>5. \A i \in WritesBefore(at) : call.patch[i].to \in Nat
      <4>1. WritesBefore(at) \subseteq DOMAIN call.patch
        <5>1. call \in Calls \cup Runs BY <1>1, RunningCall
        <5>. QED BY <1>1, <2>1, <5>1, CallType DEF WritesBefore, Before
      <4>2. \A i \in DOMAIN call.patch : IsCommand(call.patch[i])
        BY <1>1, RunningCall, CallType DEF IsCall
      <4>. QED BY <4>1, <4>2 DEF WritesBefore, Before, IsCommand
    <3>6. rom'.data = caller.data \cup { <<calls, i>> : i \in WritesBefore(at)' }
      BY <2>1, <3>1, <3>4 DEF Grown
    <3>7. \A i \in WritesBefore(at)' : call.patch[i].to <= rom'.len
      BY <1>3, <2>1, <3>1, <3>3, <3>4, <3>5 DEF Grown
    <3>8. rom'.len = caller.len \/ \E i \in WritesBefore(at)' : call.patch[i].to = rom'.len
      BY <1>3, <2>1, <3>1, <3>3, <3>4 DEF Grown
    <3>. QED BY <1>1, <1>5, <3>6, <3>7, <3>8 DEF Grown
  <2>4. CASE call.patch[at].c # "write"
    <3>1. rom' = rom BY <2>4, CommandRom
    <3>2. WritesBefore(at)' = WritesBefore(at) BY <2>2, <2>4
    <3>. QED BY <1>1, <2>1, <3>1, <3>2 DEF Grown
  <2>. QED BY <2>3, <2>4
<1>. QED BY <1>1, <1>5, <1>6, <1>7 DEF RomInv, Passes

LEMMA RomStep == Types /\ RomInv /\ [Next]_vars => RomInv'
<1>. SUFFICES ASSUME Types, RomInv, [Next]_vars PROVE RomInv' OBVIOUS
<1>1. CASE CommandStep BY <1>1, RomCommand
<1>2. CASE StartPass
  <2>1. /\ mode = "pass" /\ mode' = "commands" /\ at' = 1
        /\ UNCHANGED <<call, calls, pass, caller, rom>>
    BY <1>2 DEF StartPass
  <2>2. rom = caller /\ caller.len \in Nat /\ pass \in Passes BY <2>1 DEF RomInv, Types, Shape, Rom
  <2>3. WritesBefore(at)' = {} BY <2>1, BeforeFirst DEF WritesBefore
  <2>4. Grown(at)' BY <2>1, <2>2, <2>3 DEF Grown
  <2>. QED BY <2>1, <2>2, <2>4 DEF RomInv
<1>3. CASE FinishPass
  <2>1. /\ mode = "commands" /\ at > Len(call.patch) /\ UNCHANGED <<call, calls, caller, rom>>
        /\ mode' = "caught" \/ (mode' = (IF pass + 1 = 3 THEN "end" ELSE "pass") /\ pass' = pass + 1)
    BY <1>3 DEF FinishPass, NextPass
  <2>2. Len(call.patch) \in Nat BY <2>1, RunningCall, CallType
  <2>3. at = Len(call.patch) + 1 /\ pass \in Passes BY <2>1, <2>2 DEF Types, Shape
  <2>4. CASE mode' = "pass"
    <3>1. pass < 2 BY <2>1, <2>3, <2>4 DEF Passes
    <3>. QED BY <2>1, <2>4, <3>1 DEF RomInv
  <2>5. CASE mode' = "end"
    <3>1. pass = 2 BY <2>1, <2>3, <2>5 DEF Passes
    <3>2. Grown(Len(call.patch) + 1) BY <2>1, <2>3, <3>1 DEF RomInv
    <3>3. Grown(Len(call.patch) + 1)' BY <2>1, <3>2 DEF Grown, WritesBefore
    <3>. QED BY <2>1, <2>5, <3>2, <3>3 DEF RomInv, Grown
  <2>. QED BY <2>1, <2>4, <2>5 DEF RomInv
<1>4. CASE AsarPatch
  <2>1. mode' = "pass" /\ rom' = caller /\ caller' = caller BY <1>4 DEF AsarPatch, CopyRom
  <2>. QED BY <2>1 DEF RomInv
<1>5. CASE AsarPatchEx
  <2>1. mode' \in {"idle", "pass"} /\ rom' = caller /\ caller' = caller
    BY <1>5 DEF AsarPatchEx, Begins, CopyRom
  <2>. QED BY <2>1 DEF RomInv
<1>6. CASE AsarReset \/ AsarMath \/ AsarPatchEnd
  BY <1>6 DEF AsarReset, AsarMath, AsarPatchEnd, Begins, RomInv
<1>7. CASE CliStart \/ CliEnd \/ CliCaught BY <1>7 DEF CliStart, CliEnd, CliCaught, Exit, RomInv
<1>8. CASE CliOption
  <2>1. mode' \in {"options", "exit", "caught"}
    BY <1>8 DEF CliOption, CliDefine, CliWarning, CliChecksum, CliError, NextOption, Exit
  <2>. QED BY <2>1 DEF RomInv
<1>9. CASE CliOpen
  <2>1. mode' \in {"caught", "exit"} \/ (mode' = "pass" /\ rom' = caller')
    BY <1>9 DEF CliOpen, CliError, Exit
  <2>. QED BY <2>1 DEF RomInv
<1>10. CASE UNCHANGED vars BY <1>10 DEF vars, report, RomInv, Grown, WritesBefore
<1>. QED BY <1>1, <1>2, <1>3, <1>4, <1>5, <1>6, <1>7, <1>8, <1>9, <1>10, NextCases

\* At the end of a patch without errors the ROM holds what the caller's did, and
\* all the patch's writes.
LEMMA AllWritten ==
  ASSUME Types, RomInv, mode = "end", ~errored
  PROVE  rom.data = caller.data \cup WrittenBy(call)
<1>1. Grown(Len(call.patch) + 1) BY DEF RomInv
<1>2. Len(call.patch) \in Nat /\ DOMAIN call.patch = 1 .. Len(call.patch) BY RunningCall, CallType
<1>3. WritesBefore(Len(call.patch) + 1) = { j \in DOMAIN call.patch : call.patch[j].c = "write" }
  BY <1>2 DEF WritesBefore, Before
<1>. QED BY <1>1, <1>3 DEF Grown, WrittenBy

\* The caller's ROM changes at the end of a call that succeeds, and not before.
OnlyAtEnd ==
  caller' # caller =>
    \/ calls' = calls /\ caller'.data = caller.data \cup WrittenBy(call) /\ ~errored
       /\ result' \in {"true", "0"} /\ (lib => caller'.len <= call.buflen)
    \/ ~lib /\ caller'.len = 0

LEMMA RomChanges == Types /\ RomInv /\ [Next]_vars => OnlyAtEnd
<1>. SUFFICES ASSUME Types, RomInv, [Next]_vars, caller' # caller PROVE OnlyAtEnd
  BY DEF OnlyAtEnd
<1>1. rom \in Rom /\ caller \in Rom BY DEF Types, Shape
<1>2. AsarPatchEnd \/ CliStart \/ CliOpen \/ CliEnd
  BY CommandFrame, NextCases
     DEF StartPass, FinishPass, AsarPatch, AsarPatchEx, AsarReset, AsarMath, CliOption, CliCaught, vars
<1>3. CASE AsarPatchEnd
  <2>1. /\ mode = "end" /\ lib /\ rom' = Fixed(rom) /\ calls' = calls
        /\ ~(errored \/ call.buflen < rom.len) /\ caller' = rom' /\ result' = "true"
    BY <1>3 DEF AsarPatchEnd, Refuses
  <2>2. call.buflen \in Nat /\ rom.len \in Nat
    BY <1>1, <2>1, RunningCall, SessionAssumption DEF Rom
  <2>. QED BY <1>1, <2>1, <2>2, AllWritten, FixedType DEF OnlyAtEnd
<1>4. CASE CliStart \/ CliOpen
  <2>1. ~lib /\ \E s : caller' = [NoRom EXCEPT !.sum = s]
    BY <1>4 DEF CliStart, CliOpen, Types, Shape
  <2>. QED BY <2>1 DEF OnlyAtEnd, NoRom
<1>5. CASE CliEnd
  <2>1. /\ mode = "end" /\ ~lib /\ rom' = Fixed(rom) /\ calls' = calls
        /\ ~errored /\ caller' = Saved(rom') /\ result' = "0"
    BY <1>5 DEF CliEnd, Exit
  <2>2. caller' = rom' BY <2>1 DEF Saved
  <2>. QED BY <1>1, <2>1, <2>2, AllWritten, FixedType DEF OnlyAtEnd
<1>. QED BY <1>2, <1>3, <1>4, <1>5

\* An error leaves the ROM as it was; a success puts all the writes of the patch in it.
THEOREM RomAllOrNothing == Spec => AllOrNothing
<1>1. Init => RomInv BY DEF Init, RomInv
<1>2. Types /\ RomInv /\ [Next]_vars =>
        [caller' # caller =>
           \/ calls' = calls /\ caller'.data = caller.data \cup WrittenBy(call) /\ ~errored
              /\ result' \in {"true", "0"} /\ (lib => caller'.len <= call.buflen)
           \/ ~lib /\ caller'.len = 0]_vars
  BY RomChanges DEF OnlyAtEnd
<1>. QED BY <1>1, <1>2, TypesInit, TypesStep, RomStep, PTL DEF Spec, AllOrNothing

-----------------------------------------------------------------------------
(***************************************************************************)
(* The checksum                                                            *)
(***************************************************************************)

\* The caller's choice, and what holds without it, from the options to the end.
Chosen == call.checksum # "as it is"
LastOption == Len(call.defines) + Len(call.warnings) + 1
NoneRefused == ~ \E i \in DOMAIN call.patch : call.patch[i].c = "nochecksum"
SumInv ==
  /\ mode \in {"pass", "commands", "end"} /\ call.f # "asar_patch" =>
       /\ Chosen => force /\ (call.checksum = "on" => fix)
       /\ ~Chosen /\ call.reset /\ NoneRefused => fix
  /\ mode = "options" =>
       /\ Chosen /\ optionAt > LastOption => force /\ (call.checksum = "on" => fix)
       /\ ~Chosen => fix
ChecksumInv == SumInv /\ ChecksumAsAsked

LEMMA LastOptionType == call \in Calls \cup Runs => LastOption \in Nat /\ LastOption >= 1
<1>1. \A n, m \in Nat : n + m + 1 \in Nat /\ n + m + 1 >= 1 OBVIOUS
<1>. QED BY <1>1, CallType, Zenon DEF LastOption

\* While a patch is assembled only norom and the like touch it, unless it is forced.
LEMMA SumCommand == Types /\ SumInv /\ CommandStep => SumInv'
<1>. SUFFICES ASSUME Types, SumInv, CommandStep PROVE SumInv' OBVIOUS
<1>1. /\ mode = "commands" /\ mode' \in {"commands", "end", "caught"} /\ UNCHANGED <<call, force>>
  BY CommandFrame
<1>2. CASE NoChecksum
  <2>1. fix' = (fix /\ force) BY <1>2 DEF NoChecksum, FixUnlessForced
  <2>2. ~NoneRefused BY <1>2 DEF NoChecksum, AtCommand, NoneRefused
  <2>. QED BY <1>1, <2>1, <2>2 DEF SumInv, Chosen, NoneRefused
<1>3. CASE ~NoChecksum
  <2>1. fix' = fix
    BY <1>3 DEF CommandStep, Fails, Warn, PrintText, WarningsPush, WarningsPull, WarningsSet, Define,
           UseDefine, Label, Writes, OpenFile, checksum
  <2>. QED BY <1>1, <2>1 DEF SumInv, Chosen, NoneRefused
<1>. QED BY <1>2, <1>3

LEMMA SumStep == Types /\ RomInv /\ ChecksumInv /\ [Next]_vars => ChecksumInv'
<1>. SUFFICES ASSUME Types, RomInv, ChecksumInv, [Next]_vars PROVE ChecksumInv' OBVIOUS
<1>. USE DEF Returned, Chosen, NoneRefused
<1>a. SumInv /\ ChecksumAsAsked BY DEF ChecksumInv
<1>b. rom \in Rom /\ caller \in Rom /\ rom.len \in Nat /\ caller.len \in Nat BY DEF Types, Shape, Rom
<1>1. CASE CommandStep
  <2>1. mode' \in {"commands", "end", "caught"} BY <1>1, CommandFrame
  <2>2. ChecksumAsAsked' BY <2>1 DEF ChecksumAsAsked
  <2>. QED BY <1>1, <1>a, <2>2, SumCommand DEF ChecksumInv
<1>2. CASE StartPass \/ FinishPass
  <2>1. /\ mode \in {"pass", "commands"} /\ mode' \in {"pass", "commands", "end", "caught"}
        /\ UNCHANGED <<call, fix, force>>
    BY <1>2 DEF StartPass, FinishPass, checksum
  <2>. QED BY <1>a, <2>1 DEF ChecksumInv, SumInv, ChecksumAsAsked
<1>3. CASE AsarPatch
  <2>1. mode' = "pass" /\ call'.f = "asar_patch" BY <1>3 DEF AsarPatch, Begins
  <2>. QED BY <2>1 DEF ChecksumInv, SumInv, ChecksumAsAsked
<1>4. CASE AsarPatchEx
  <2>1. PICK c \in Calls :
          /\ call' = c /\ mode = "idle"
          /\ LET says == c.checksum # "as it is" /\ ~Twice(c)
             IN  /\ force' = (says \/ (~c.reset /\ force))
                 /\ fix' = IF says THEN c.checksum = "on" ELSE c.reset \/ fix
          /\ IF Twice(c) THEN result' = "false" /\ UNCHANGED mode ELSE mode' = "pass"
    BY <1>4 DEF AsarPatchEx, Begins
  <2>2. CASE Twice(c)
    <3>1. mode' = "idle" /\ result' = "false" BY <2>1, <2>2
    <3>. QED BY <3>1 DEF ChecksumInv, SumInv, ChecksumAsAsked, Succeeded
  <2>3. CASE ~Twice(c)
    <3>1. mode' = "pass" BY <2>1, <2>3
    <3>. QED BY <2>1, <2>3, <3>1 DEF ChecksumInv, SumInv, ChecksumAsAsked
  <2>. QED BY <2>2, <2>3
<1>5. CASE AsarReset \/ AsarMath
  <2>1. mode' = "idle" /\ call' = NoCall BY <1>5 DEF AsarReset, AsarMath, Begins
  <2>. QED BY <2>1 DEF ChecksumInv, SumInv, ChecksumAsAsked, PatchCall, NoCall
<1>6. CASE AsarPatchEnd
  <2>1. /\ mode = "end" /\ mode' = "idle" /\ call' = call
        /\ result' = "true" => caller' = Fixed(rom)
        /\ result' \in {"true", "false"}
    BY <1>6 DEF AsarPatchEnd
  <2>2. ChecksumAsAsked' BY <1>a, <1>b, <2>1, FixedType DEF SumInv, ChecksumAsAsked, Succeeded
  <2>. QED BY <2>1, <2>2 DEF ChecksumInv, SumInv
<1>7. CASE CliStart
  <2>1. mode' = "options" /\ mode = "idle" /\ ~lib /\ UNCHANGED <<fix, force, optionAt>>
    BY <1>7 DEF CliStart, checksum
  <2>2. fix /\ optionAt = 1 BY <2>1 DEF Types, Shape, Fresh
  <2>3. call' \in Runs BY <1>7 DEF CliStart
  <2>4. LastOption' \in Nat /\ LastOption' >= 1
    <3>1. \A n, m \in Nat : n + m + 1 \in Nat /\ n + m + 1 >= 1 OBVIOUS
    <3>. QED BY <2>3, <3>1, CallType, Zenon DEF LastOption
  <2>5. ~(optionAt' > LastOption') BY <2>1, <2>2, <2>4
  <2>. QED BY <2>1, <2>2, <2>5 DEF ChecksumInv, SumInv, ChecksumAsAsked
<1>8. CASE CliOption
  <2>1. mode = "options" /\ UNCHANGED call BY <1>8 DEF CliOption
  <2>2. call \in Runs /\ optionAt \in Nat BY <2>1 DEF Types, Shape
  <2>3. LastOption \in Nat /\ LastOption' = LastOption BY <2>1, <2>2, LastOptionType DEF LastOption
  <2>4. /\ \/ mode' = "exit" /\ result' = "1"
           \/ mode' = "caught"
           \/ mode' = "options" /\ optionAt' = optionAt + 1
        /\ \/ UNCHANGED <<fix, force>> /\ optionAt < LastOption
           \/ ~Chosen /\ UNCHANGED <<fix, force>>
           \/ Chosen /\ force' = TRUE /\ fix' = (call.checksum = "on")
    <3>1. CASE \E d : CliDefine(d) /\ optionAt < LastOption
      BY <2>1, <3>1 DEF CliDefine, CliError, NextOption, NoError, Exit, checksum
    <3>2. CASE \E w : CliWarning(w) /\ optionAt < LastOption
      BY <2>1, <3>2 DEF CliWarning, CliError, NextOption, NoError, checksum
    <3>3. CASE CliChecksum
      BY <2>1, <3>3 DEF CliChecksum, NextOption, checksum
    <3>4. \A n, m \in Nat : /\ \A i \in 1 .. n : i < n + m + 1
                            /\ \A i \in n + 1 .. n + m : i < n + m + 1
      OBVIOUS
    <3>5. /\ optionAt \in 1 .. Len(call.defines) => optionAt < LastOption
          /\ optionAt \in Len(call.defines) + 1 .. Len(call.defines) + Len(call.warnings)
               => optionAt < LastOption
      BY <2>2, <3>4, CallType, Zenon DEF LastOption
    <3>. QED BY <1>8, <3>1, <3>2, <3>3, <3>5 DEF CliOption
  <2>10. /\ mode' \in {"exit", "caught", "options"}
         /\ mode' = "options" => optionAt' = optionAt + 1
    BY <2>4
  <2>7. ASSUME fix' = fix, force' = force, optionAt < LastOption PROVE SumInv'
    <3>1. mode' = "options" => ~(optionAt' > LastOption') BY <2>2, <2>3, <2>7, <2>10
    <3>. QED BY <1>a, <2>1, <2>7, <2>10, <3>1 DEF SumInv
  <2>8. ASSUME ~Chosen, fix' = fix, force' = force PROVE SumInv'
    BY <1>a, <2>1, <2>8, <2>10 DEF SumInv
  <2>9. ASSUME Chosen, force' = TRUE, fix' = (call.checksum = "on") PROVE SumInv'
    BY <1>a, <2>1, <2>9, <2>10 DEF SumInv
  <2>5. SumInv' BY <2>4, <2>7, <2>8, <2>9
  <2>6. ChecksumAsAsked' BY <2>4 DEF ChecksumAsAsked, Succeeded
  <2>. QED BY <2>5, <2>6 DEF ChecksumInv
<1>9. CASE CliOpen
  <2>1. /\ mode = "options" /\ optionAt > LastOption
        /\ UNCHANGED <<call, fix, force>>
        /\ mode' \in {"pass", "caught"} \/ (mode' = "exit" /\ result' = "1")
    BY <1>9 DEF CliOpen, CliError, Exit, checksum, LastOption
  <2>. QED BY <1>a, <2>1 DEF ChecksumInv, SumInv, ChecksumAsAsked, Succeeded
<1>10. CASE CliEnd
  <2>1. /\ mode = "end" /\ mode' = "exit" /\ call' = call /\ result' \in {"0", "1"}
        /\ result' = "0" => caller' = Saved(Fixed(rom))
    BY <1>10 DEF CliEnd, Exit
  <2>2. Saved(Fixed(rom)) = Fixed(rom) \/ (Saved(Fixed(rom)) = caller /\ rom.len = 0)
    BY <1>b, FixedType DEF Saved
  <2>3. rom.len = 0 => caller.len = 0 BY <1>b, <2>1 DEF RomInv
  <2>4. ChecksumAsAsked'
    <3>1. SUFFICES ASSUME result' = "0", caller'.len > 0, call.f # "asar_patch",
                          Chosen => call.checksum = "on", ~Chosen => call.reset /\ NoneRefused
                   PROVE  caller'.sum = "good"
      BY <2>1 DEF ChecksumAsAsked, Succeeded
    <3>2. fix BY <1>a, <2>1, <3>1 DEF SumInv
    <3>4. caller' # caller \/ caller.len > 0 BY <3>1
    <3>3. caller' = Fixed(rom)
      <4>1. CASE Saved(Fixed(rom)) = Fixed(rom) BY <2>1, <3>1, <4>1
      <4>2. CASE Saved(Fixed(rom)) = caller /\ rom.len = 0
        <5>1. caller' = caller BY <2>1, <3>1, <4>2
        <5>2. caller.len = 0 BY <2>3, <4>2
        <5>3. caller.len > 0 BY <3>1, <5>1
        <5>. QED BY <5>2, <5>3
      <4>. QED BY <2>2, <4>1, <4>2
    <3>. QED BY <1>b, <3>2, <3>3, FixedType
  <2>. QED BY <2>1, <2>4 DEF ChecksumInv, SumInv
<1>11. CASE CliCaught
  <2>1. mode' = "exit" /\ result' = "1" BY <1>11 DEF CliCaught, Exit
  <2>. QED BY <2>1 DEF ChecksumInv, SumInv, ChecksumAsAsked, Succeeded
<1>12. CASE UNCHANGED vars
  <2>1. UNCHANGED <<mode, call, fix, force, optionAt, caller, result, lib>> BY <1>12 DEF vars, checksum
  <2>2. LastOption' = LastOption BY <2>1 DEF LastOption
  <2>. QED BY <2>2, <1>a, <2>1 DEF ChecksumInv, SumInv, ChecksumAsAsked, Succeeded, PatchCall
<1>. QED BY <1>1, <1>2, <1>3, <1>4, <1>5, <1>6, <1>7, <1>8, <1>9, <1>10, <1>11, <1>12, NextCases

\* A successful call has generated the checksum if its caller has asked for it, and if the
\* caller leaves it open and no norom or the like forbids it.
THEOREM ChecksumCorrect == Spec => []ChecksumAsAsked
<1>1. Init => ChecksumInv
  BY DEF Init, ChecksumInv, SumInv, ChecksumAsAsked, Returned, Succeeded
<1>2. Init => RomInv BY DEF Init, RomInv
<1>3. ChecksumInv => ChecksumAsAsked BY DEF ChecksumInv
<1>. QED BY <1>1, <1>2, <1>3, TypesInit, TypesStep, RomStep, SumStep, PTL DEF Spec

-----------------------------------------------------------------------------
(***************************************************************************)
(* Whether a call succeeds                                                 *)
(***************************************************************************)

\* The depth of the stack of warnings goes up by one and down by one.
LEMMA BeforeCounted ==
  ASSUME NEW c, NEW op, NEW k \in Nat \ {0}
  PROVE  /\ IsFiniteSet(Before(c, op, k)) /\ Cardinality(Before(c, op, k)) \in Nat
         /\ Cardinality(Before(c, op, k + 1)) =
              Cardinality(Before(c, op, k)) + (IF c.patch[k].c = op THEN 1 ELSE 0)
<1>1. IsFiniteSet(1 .. k - 1) BY FS_Interval
<1>2. Before(c, op, k) \subseteq 1 .. k - 1 BY DEF Before
<1>3. IsFiniteSet(Before(c, op, k)) BY <1>1, <1>2, FS_Subset
<1>4. Cardinality(Before(c, op, k)) \in Nat BY <1>3, FS_CardinalityType
<1>5. k \notin Before(c, op, k) BY BeforeNext
<1>6. CASE c.patch[k].c = op
  <2>1. Before(c, op, k + 1) = Before(c, op, k) \cup {k} BY <1>6, BeforeNext
  <2>. QED BY <1>3, <1>4, <1>5, <1>6, <2>1, FS_AddElement
<1>7. CASE c.patch[k].c # op
  <2>1. Before(c, op, k + 1) = Before(c, op, k) BY <1>7 DEF Before
  <2>. QED BY <1>3, <1>4, <1>7, <2>1
<1>. QED BY <1>6, <1>7

LEMMA DepthNext ==
  ASSUME NEW c, NEW k \in Nat \ {0}
  PROVE  /\ Depth(c, k) \in Int
         /\ c.patch[k].c = "push" => Depth(c, k + 1) = Depth(c, k) + 1
         /\ c.patch[k].c = "pull" => Depth(c, k + 1) = Depth(c, k) - 1
         /\ c.patch[k].c \notin {"push", "pull"} => Depth(c, k + 1) = Depth(c, k)
BY BeforeCounted DEF Depth

LEMMA DepthFirst == \A c : Depth(c, 1) = 0
<1>1. \A c, op : Cardinality(Before(c, op, 1)) = 0 BY BeforeFirst, FS_EmptySet
<1>. QED BY <1>1 DEF Depth

\* A call that resets, and does so from nothing pushed.
Lone == call.reset /\ clean
\* What the passes find, and what has been found so far.
Setting ==
  /\ clidefines = ToSet(call.defines) \cup call.std
  /\ call.f # "asar_patch" => builtin
  /\ fs = call.memory
  /\ \A s \in 1 .. Slots : cache[s] = NoFile \/ cache[s] \in call.disk \cup call.memory
  /\ lib  => caller.len <= call.buflen
  /\ ~lib => call.opens /\ (call.title \/ ~call.romExists \/ RomLen = 0)
Progress ==
  /\ mode = "pass" => stack = <<>> /\ (pass = 0 => labels = {})
  /\ mode = "commands" =>
       /\ defines = clidefines \cup Builtins \cup { call.patch[j].d : j \in Before(call, "define", at) }
       /\ pass = 0 => labels = { call.patch[j].l : j \in Before(call, "label", at) }
       /\ ~errored => Len(stack) = Depth(call, at)
Passed(p, k) == p < pass \/ (p = pass /\ mode = "commands" /\ k < at)
Judged ==
  /\ ~errored =>
       /\ ~SetupFails(call)
       /\ \A k \in DOMAIN call.patch : Passed(0, k) => Right(call, k)
       /\ \A k \in DOMAIN call.patch, p \in Passes :
            call.patch[k].c = "error" /\ Passed(p, k) => p \notin call.patch[k].in
       /\ pass > 0 => Depth(call, Len(call.patch) + 1) = 0
  /\ Correct(call) => ~errored

FirstDefines == { call.defines[i] : i \in { j \in DOMAIN call.defines : j < optionAt } }
OptionsInv ==
  /\ clidefines = FirstDefines /\ labels = {} /\ stack = <<>> /\ cache = SlotsEmpty /\ clean
  /\ IF call.romExists THEN caller.len = RomLen /\ caller.sum = "stale" ELSE caller.len = 0 /\ caller.sum = "missing"
  /\ errored => SetupFails(call)
  /\ ~errored => /\ "invalid" \notin FirstDefines
                 /\ \A i, j \in DOMAIN call.defines :
                      i < j /\ j < optionAt => call.defines[i] # call.defines[j]
                 /\ \A i \in DOMAIN call.warnings :
                      i + Len(call.defines) < optionAt => call.warnings[i][1] # "unknown"
AloneInv ==
  /\ IF lib THEN RomLen <= caller.len ELSE clean
  /\ mode \in {"pass", "commands", "end"} /\ Lone => Setting /\ Progress /\ Judged
  /\ mode = "end" /\ ~errored => pass = 3
  /\ mode = "options" => OptionsInv
  /\ mode = "caught" => ~Verdict(call)

\* The command at hand ends without an error if it is right, and it is if it does.
Fine ==
  /\ ~errored /\ Correct(call) => ~errored'
  /\ ~errored /\ ~errored' => /\ Right(call, at)
                              /\ call.patch[at].c = "error" => pass \notin call.patch[at].in
                              /\ Len(stack') = Depth(call, at + 1)

LEMMA CommandFine ==
  ASSUME Types, CommandStep, Lone, Setting, Progress, Judged
  PROVE  Fine
<1>1. /\ mode = "commands" /\ at \in 1 .. Len(call.patch) /\ Len(call.patch) \in Nat
      /\ pass \in Passes /\ IsCommand(call.patch[at]) /\ errored \in BOOLEAN
  BY CommandFrame DEF Types, TypeOK
<1>2. DOMAIN call.patch = 1 .. Len(call.patch) /\ at \in Nat \ {0}
  BY <1>1, RunningCall, CallType
<1>3. Cmd = call.patch[at] BY DEF Cmd
<1>4. \A e : Raises(e) => errored' BY DEF Raises, Reports, Stops
<1>5. stack \in Seq(SUBSET Warnings) BY DEF Types, Shape
<1>6. ~errored => Len(stack) = Depth(call, at) BY <1>1 DEF Progress
<1>7. Correct(call) => Right(call, at) /\ (Cmd.c = "error" => Cmd.in = {})
  BY <1>1, <1>2, <1>3 DEF Correct
<1>8. ~errored /\ pass > 0 => Right(call, at)
  <2>1. pass > 0 => Passed(0, at) BY DEF Passed
  <2>. QED BY <1>1, <1>2, <2>1 DEF Judged
<1>9. Cmd.c \notin {"push", "pull"} => Depth(call, at + 1) = Depth(call, at)
  BY <1>2, <1>3, DepthNext
<1>10. CASE Fails
  <2>1. Cmd.c = "error" /\ stack' = stack BY <1>3, <1>10 DEF Fails, AtCommand, warning
  <2>2. Right(call, at) BY <1>3, <2>1 DEF Right
  <2>3. IF pass \in Cmd.in THEN errored' ELSE errored' = errored
    BY <1>4, <1>10 DEF Fails
  <2>. QED BY <1>3, <1>6, <1>7, <1>9, <2>1, <2>2, <2>3 DEF Fine
<1>11. CASE Warn \/ PrintText \/ WarningsSet \/ Define \/ Writes \/ NoChecksum
  <2>1. /\ Cmd.c \in {"warn", "print", "set", "define", "write", "nochecksum"}
        /\ stack' = stack /\ errored' = errored
    BY <1>3, <1>11 DEF Warn, PrintText, WarningsSet, Define, Writes, NoChecksum, AtCommand, warning, report
  <2>2. Right(call, at) BY <1>3, <2>1 DEF Right
  <2>. QED BY <1>3, <1>6, <1>9, <2>1, <2>2 DEF Fine
<1>12. CASE WarningsPush
  <2>1. Cmd.c = "push" /\ stack' = Append(stack, enabled) /\ errored' = errored
    BY <1>3, <1>12 DEF WarningsPush, AtCommand, report
  <2>2. enabled \in SUBSET Warnings BY DEF Types, TypeOK
  <2>3. Len(stack') = Len(stack) + 1 BY <1>5, <2>1, <2>2, AppendProperties
  <2>4. Right(call, at) BY <1>3, <2>1 DEF Right
  <2>5. Depth(call, at + 1) = Depth(call, at) + 1 BY <1>2, <1>3, <2>1, DepthNext
  <2>. QED BY <1>3, <1>6, <2>1, <2>3, <2>4, <2>5 DEF Fine
<1>13. CASE WarningsPull
  <2>1. Cmd.c = "pull" BY <1>3, <1>13 DEF WarningsPull, AtCommand
  <2>2. Right(call, at) <=> Depth(call, at) > 0 BY <1>3, <2>1 DEF Right
  <2>3. CASE stack = <<>>
    <3>1. errored' BY <1>4, <1>13, <2>3 DEF WarningsPull
    <3>2. Len(stack) = 0 BY <2>3
    <3>. QED BY <1>6, <1>7, <2>2, <3>1, <3>2 DEF Fine
  <2>4. CASE stack # <<>>
    <3>1. errored' = errored /\ stack' = Front(stack) BY <1>13, <2>4 DEF WarningsPull
    <3>2. Len(stack') = Len(stack) - 1 /\ Len(stack) > 0 BY <1>5, <2>4, <3>1, FrontType
    <3>3. Depth(call, at + 1) = Depth(call, at) - 1 BY <1>2, <1>3, <2>1, DepthNext
    <3>. QED BY <1>3, <1>6, <2>1, <2>2, <3>1, <3>2, <3>3 DEF Fine
  <2>. QED BY <2>3, <2>4
<1>14. CASE UseDefine
  <2>1. Cmd.c = "use" /\ stack' = stack BY <1>3, <1>14 DEF UseDefine, AtCommand, warning
  <2>2. IF Cmd.d \in defines THEN errored' = errored ELSE errored' BY <1>4, <1>14 DEF UseDefine
  <2>3. defines = Predefined(call) \cup { call.patch[j].d : j \in Before(call, "define", at) }
    BY <1>1 DEF Progress, Setting, Predefined, Builtins
  <2>4. Right(call, at) <=> Cmd.d \in defines BY <1>3, <2>1, <2>3 DEF Right
  <2>. QED BY <1>3, <1>6, <1>7, <1>9, <2>1, <2>2, <2>4 DEF Fine
<1>15. CASE Label
  <2>1. Cmd.c = "label" /\ stack' = stack BY <1>3, <1>15 DEF Label, AtCommand, warning
  <2>2. IF pass = 0 /\ Cmd.l \in labels THEN errored' ELSE errored' = errored
    BY <1>4, <1>15 DEF Label
  <2>3. pass = 0 => labels = { call.patch[j].l : j \in Before(call, "label", at) }
    BY <1>1 DEF Progress
  <2>4. Right(call, at) <=> \A j \in Before(call, "label", at) : call.patch[j].l # Cmd.l
    BY <1>3, <2>1 DEF Right
  <2>5. pass = 0 => (Right(call, at) <=> Cmd.l \notin labels) BY <2>3, <2>4
  <2>6. pass = 0 \/ pass > 0 BY <1>1 DEF Passes
  <2>. QED BY <1>3, <1>6, <1>7, <1>8, <1>9, <2>1, <2>2, <2>5, <2>6 DEF Fine
<1>16. CASE OpenFile
  <2>1. Cmd.c = "open" /\ stack' = stack BY <1>3, <1>16 DEF OpenFile, AtCommand, warning
  <2> DEFINE path == Resolve(Cmd.name, call.dir, call.disk, fs)
             there == path \in call.disk \cup fs
  <2>2. Right(call, at) <=> there BY <1>3, <2>1 DEF Right, Setting
  <2>3. path # NoFile
    <3>1. \A a, b, c, d : \E x : Resolve(a, b, c, d) = <<x, a>> BY DEF Resolve
    <3>2. PICK x : path = <<x, Cmd.name>> BY <3>1
    <3>3. Cmd.name # None BY <1>1, <1>3, <2>1 DEF IsCommand
    <3>. QED BY <3>2, <3>3 DEF NoFile
  <2>4. Opened(path) => there BY <2>3 DEF Opened, Setting
  <2>5. IF Opened(path) \/ there THEN errored' = errored ELSE errored' BY <1>4, <1>16 DEF OpenFile
  <2>. HIDE DEF path, there
  <2>. QED BY <1>3, <1>6, <1>7, <1>9, <2>1, <2>2, <2>4, <2>5 DEF Fine
<1>. QED BY <1>10, <1>11, <1>12, <1>13, <1>14, <1>15, <1>16 DEF CommandStep

LEMMA CommandSetting == Types /\ CommandStep /\ Setting => Setting'
<1>. SUFFICES ASSUME Types, CommandStep, Setting PROVE Setting' OBVIOUS
<1>1. UNCHANGED <<lib, call, caller, clidefines, builtin, fs>> BY CommandFrame
<1>2. \A s \in 1 .. Slots : cache'[s] = NoFile \/ cache'[s] \in call.disk \cup call.memory
  <2>1. CASE OpenFile
    <3>1. DOMAIN cache = 1 .. Slots BY DEF Types, Shape
    <3>2. PICK x : /\ cache' = cache \/ cache' = [cache EXCEPT ![next] = x]
                   /\ x = NoFile \/ x \in call.disk \cup fs
      BY <2>1 DEF OpenFile
    <3>3. fs = call.memory BY DEF Setting
    <3>4. x = NoFile \/ x \in call.disk \cup call.memory BY <3>2, <3>3
    <3>5. \A s \in 1 .. Slots : cache[s] = NoFile \/ cache[s] \in call.disk \cup call.memory
      BY DEF Setting
    <3>6. \A s \in 1 .. Slots : cache'[s] = cache[s] \/ cache'[s] = x BY <3>1, <3>2
    <3>. QED BY <3>4, <3>5, <3>6
  <2>2. CASE ~OpenFile
    <3>1. cache' = cache
      BY <2>2 DEF CommandStep, Fails, Warn, PrintText, WarningsPush, WarningsPull, WarningsSet, Define,
             UseDefine, Label, Writes, NoChecksum, files
    <3>. QED BY <3>1 DEF Setting
  <2>. QED BY <2>1, <2>2
<1>. QED BY <1>1, <1>2 DEF Setting

LEMMA CommandProgress ==
  ASSUME Types, CommandStep, Lone, Setting, Progress, Judged, mode' = "commands"
  PROVE  Progress'
<1>1. /\ mode = "commands" /\ at \in Nat \ {0} /\ at' = at + 1
      /\ UNCHANGED <<call, pass, clidefines, builtin>> /\ errored' \in BOOLEAN
      /\ errored => errored'
  BY CommandFrame DEF Types, Shape
<1>2. Cmd = call.patch[at] BY DEF Cmd
<1>3. defines' = defines \cup (IF Cmd.c = "define" THEN {Cmd.d} ELSE {})
  <2>1. CASE Define BY <2>1 DEF Define, AtCommand, Cmd
  <2>2. CASE ~Define
    <3>1. Cmd.c # "define"
      BY <2>2 DEF CommandStep, Fails, Warn, PrintText, WarningsPush, WarningsPull, WarningsSet,
             UseDefine, Label, Writes, NoChecksum, OpenFile, AtCommand, Cmd
    <3>2. defines' = defines
      BY <2>2 DEF CommandStep, Fails, Warn, PrintText, WarningsPush, WarningsPull, WarningsSet,
             UseDefine, Label, Writes, NoChecksum, OpenFile, names
    <3>. QED BY <3>1, <3>2
  <2>. QED BY <2>1, <2>2
<1>4. labels' = labels \cup (IF Cmd.c = "label" THEN {Cmd.l} ELSE {})
  <2>1. CASE Label BY <1>1, <2>1 DEF Label, AtCommand, Cmd, Raises
  <2>2. CASE ~Label
    <3>1. Cmd.c # "label"
      BY <2>2 DEF CommandStep, Fails, Warn, PrintText, WarningsPush, WarningsPull, WarningsSet,
             UseDefine, Define, Writes, NoChecksum, OpenFile, AtCommand, Cmd
    <3>2. labels' = labels
      BY <2>2 DEF CommandStep, Fails, Warn, PrintText, WarningsPush, WarningsPull, WarningsSet,
             UseDefine, Define, Writes, NoChecksum, OpenFile, names
    <3>. QED BY <3>1, <3>2
  <2>. QED BY <2>1, <2>2
<1>5. \A op : Before(call, op, at + 1) = Before(call, op, at) \cup (IF Cmd.c = op THEN {at} ELSE {})
  BY <1>1, <1>2, BeforeNext
<1>6. defines' = clidefines \cup Builtins \cup { call.patch[j].d : j \in Before(call, "define", at + 1) }
  <2>1. defines = clidefines \cup Builtins \cup { call.patch[j].d : j \in Before(call, "define", at) }
    BY <1>1 DEF Progress
  <2>2. Before(call, "define", at + 1) = Before(call, "define", at) \cup (IF Cmd.c = "define" THEN {at} ELSE {})
    BY <1>5
  <2>. QED BY <1>2, <1>3, <2>1, <2>2
<1>7. pass = 0 => labels' = { call.patch[j].l : j \in Before(call, "label", at + 1) }
  <2>1. pass = 0 => labels = { call.patch[j].l : j \in Before(call, "label", at) }
    BY <1>1 DEF Progress
  <2>2. Before(call, "label", at + 1) = Before(call, "label", at) \cup (IF Cmd.c = "label" THEN {at} ELSE {})
    BY <1>5
  <2>. QED BY <1>2, <1>4, <2>1, <2>2
<1>8. ~errored' => Len(stack') = Depth(call, at + 1) BY <1>1, CommandFine DEF Fine
<1>. QED BY <1>1, <1>6, <1>7, <1>8 DEF Progress, Before, Depth, Builtins

LEMMA CommandJudged ==
  ASSUME Types, CommandStep, Lone, Setting, Progress, Judged
  PROVE  Judged' /\ (mode' # "commands" => errored' /\ ~Correct(call))
<1>1. /\ mode = "commands" /\ at \in 1 .. Len(call.patch) /\ UNCHANGED <<call, pass, builtin, lib>>
      /\ errored' \in BOOLEAN /\ (errored => errored') /\ errored \in BOOLEAN
      /\ pass \in Passes /\ at \in Nat
      /\ (mode' = "commands" /\ at' = at + 1) \/ (mode' # "commands" /\ errored')
  BY CommandFrame DEF Types, TypeOK, Shape
<1>2. Fine BY CommandFine
<1>3. \A k \in DOMAIN call.patch : Right(call, k)' <=> Right(call, k)
  BY <1>1 DEF Right, Predefined, Builtins, Before, Depth, Resolve, IncludePaths
<1>4. Correct(call)' <=> Correct(call)
  BY <1>1, <1>3 DEF Correct, Depth, Before, SetupFails, Invalid, Twice, Unknown
<1>5. Correct(call) => ~errored' BY <1>1, <1>2 DEF Judged, Fine
<1>6. ASSUME ~errored'
      PROVE  /\ ~SetupFails(call)'
             /\ \A k \in DOMAIN call.patch : Passed(0, k)' => Right(call, k)'
             /\ \A k \in DOMAIN call.patch, p \in Passes :
                  call.patch[k].c = "error" /\ Passed(p, k)' => p \notin call.patch[k].in
             /\ pass > 0 => Depth(call, Len(call.patch) + 1) = 0
  <2>1. ~errored /\ mode' = "commands" /\ at' = at + 1 BY <1>1, <1>6
  <2>2. DOMAIN call.patch \subseteq Nat BY <1>1, RunningCall, CallType
  <2>3. \A k \in Nat, p \in Passes : Passed(p, k)' => Passed(p, k) \/ (p = pass /\ k = at)
    BY <1>1, <2>1 DEF Passed
  <2>4. 0 \in Passes BY DEF Passes
  <2>5. \A k \in DOMAIN call.patch : Passed(0, k)' => Right(call, k)
    BY <1>2, <1>6, <2>1, <2>2, <2>3, <2>4 DEF Judged, Fine
  <2>6. \A k \in DOMAIN call.patch, p \in Passes :
          call.patch[k].c = "error" /\ Passed(p, k)' => p \notin call.patch[k].in
    BY <1>2, <1>6, <2>1, <2>2, <2>3 DEF Judged, Fine
  <2>7. SetupFails(call)' <=> SetupFails(call) BY <1>1 DEF SetupFails, Invalid, Twice, Unknown
  <2>. QED BY <1>3, <2>1, <2>5, <2>6, <2>7 DEF Judged
<1>7. Judged'
  BY <1>1, <1>4, <1>5, <1>6 DEF Judged, Depth, Before
<1>. QED BY <1>1, <1>5, <1>7

LEMMA CommandAlone == Types /\ AloneInv /\ CommandStep => AloneInv'
<1>. SUFFICES ASSUME Types, AloneInv, CommandStep PROVE AloneInv' OBVIOUS
<1>1. /\ mode = "commands" /\ UNCHANGED <<lib, call, caller, clean>>
      /\ mode' \in {"commands", "end", "caught"} /\ (mode' = "caught" => ~lib)
  BY CommandFrame DEF history
<1>2. Lone' = Lone BY <1>1 DEF Lone
<1>3. Lone => Setting /\ Progress /\ Judged BY <1>1 DEF AloneInv
<1>4. Lone => Setting' /\ Judged' BY <1>3, CommandSetting, CommandJudged
<1>5. Lone => Progress'
  <2>1. CASE mode' = "commands" BY <1>3, <2>1, CommandProgress
  <2>2. CASE mode' # "commands" BY <1>1, <2>2 DEF Progress
  <2>. QED BY <2>1, <2>2
<1>6. mode' = "end" => errored' BY CommandFrame
<1>7. mode' = "caught" => ~Verdict(call)'
  <2>1. SUFFICES ASSUME mode' = "caught" PROVE ~Verdict(call)' OBVIOUS
  <2>2. Lone BY <1>1, <2>1, RunningCall, SessionAssumption DEF Lone, AloneInv
  <2>3. errored' /\ Judged' BY <1>3, <1>4, <2>1, <2>2, CommandJudged
  <2>. QED BY <1>1, <2>3 DEF Judged, Verdict
<1>. QED BY <1>1, <1>2, <1>4, <1>5, <1>6, <1>7 DEF AloneInv

\* A pass begins, and ends, with nothing pushed and everything before it judged.
LEMMA PassAlone == Types /\ AloneInv /\ (StartPass \/ FinishPass) => AloneInv'
<1>. SUFFICES ASSUME Types, AloneInv, StartPass \/ FinishPass PROVE AloneInv' OBVIOUS
<1>0. /\ mode \in {"pass", "commands"} /\ pass \in Passes
      /\ UNCHANGED <<lib, call, clean, caller, clidefines, builtin, fs, cache, labels>>
  BY DEF StartPass, FinishPass, names, files, history, Types, Shape
<1>a. call \in Calls \cup Runs /\ Len(call.patch) \in Nat /\ DOMAIN call.patch = 1 .. Len(call.patch)
  BY <1>0, RunningCall, CallType
<1>b. Lone' = Lone /\ (Lone => Setting /\ Progress /\ Judged) BY <1>0 DEF Lone, AloneInv
<1>c. Lone => Setting' BY <1>0, <1>b DEF Setting
<1>d. \A k \in DOMAIN call.patch : Right(call, k)' <=> Right(call, k)
  BY <1>0 DEF Right, Predefined, Builtins, Before, Depth, Resolve, IncludePaths
<1>e. (Correct(call)' <=> Correct(call)) /\ (SetupFails(call)' <=> SetupFails(call))
  BY <1>0, <1>d DEF Correct, Depth, Before, SetupFails, Invalid, Twice, Unknown
<1>1. CASE StartPass
  <2>1. /\ mode = "pass" /\ mode' = "commands" /\ at' = 1 /\ UNCHANGED <<pass, errored, stack>>
        /\ defines' = clidefines \cup Builtins
    BY <1>1 DEF StartPass, report
  <2>2. Lone => Progress'
    <3>1. SUFFICES ASSUME Lone PROVE Progress' OBVIOUS
    <3>2. stack = <<>> /\ (pass = 0 => labels = {}) BY <1>b, <2>1, <3>1 DEF Progress
    <3>3. Len(stack) = 0 BY <3>2
    <3>4. \A op : Before(call, op, 1) = {} BY BeforeFirst
    <3>5. Depth(call, at)' = 0 BY <1>0, <2>1, DepthFirst DEF Depth, Before
    <3>6. \A op : Before(call, op, at)' = {} BY <1>0, <2>1, <3>4 DEF Before
    <3>. QED BY <1>0, <2>1, <3>2, <3>3, <3>5, <3>6 DEF Progress, Builtins
  <2>3. Lone => Judged'
    <3>1. SUFFICES ASSUME Lone PROVE Judged' OBVIOUS
    <3>2. \A k \in DOMAIN call.patch, p \in Passes : Passed(p, k)' => Passed(p, k)
      BY <1>a, <2>1 DEF Passed
    <3>3. 0 \in Passes BY DEF Passes
    <3>. QED BY <1>0, <1>b, <1>d, <1>e, <2>1, <3>1, <3>2, <3>3 DEF Judged, Depth, Before
  <2>. QED BY <1>0, <1>b, <1>c, <2>1, <2>2, <2>3 DEF AloneInv
<1>2. CASE FinishPass
  <2>1. /\ mode = "commands" /\ at = Len(call.patch) + 1 /\ UNCHANGED at
    BY <1>0, <1>2, <1>a DEF FinishPass, Types, Shape
  <2>2. IF stack # <<>> THEN errored' ELSE errored' = errored
    BY <1>2 DEF FinishPass, Reports, Stops
  <2>3. \/ mode' = "caught" /\ ~lib /\ stack # <<>>
        \/ /\ stack' = <<>> /\ pass' = pass + 1
           /\ mode' = IF pass + 1 = 3 THEN "end" ELSE "pass"
    BY <1>2 DEF FinishPass, NextPass, IsFatal, Unpulled, LimitReached
  <2>4. stack \in Seq(SUBSET Warnings) /\ (Len(stack) = 0 <=> stack = <<>>)
    BY EmptySeq DEF Types, Shape
  <2>5. Lone /\ ~errored => (Depth(call, Len(call.patch) + 1) = 0 <=> stack = <<>>)
    BY <1>b, <2>1, <2>4 DEF Progress
  <2>6. Lone /\ Correct(call) => ~errored'
    BY <1>b, <2>2, <2>5 DEF Judged, Correct
  <2>7. mode' = "caught" => ~Verdict(call)'
    <3>1. SUFFICES ASSUME mode' = "caught" PROVE ~Verdict(call)' OBVIOUS
    <3>2. ~lib /\ stack # <<>> BY <2>3, <3>1
    <3>3. Lone BY <1>0, <3>2, RunningCall, SessionAssumption DEF Lone, AloneInv
    <3>. QED BY <1>e, <2>2, <2>6, <3>2, <3>3 DEF Verdict
  <2>8. ASSUME mode' # "caught", Lone PROVE Progress' /\ Judged'
    <3>1. /\ stack' = <<>> /\ pass' = pass + 1 /\ pass' > 0
          /\ mode' = IF pass + 1 = 3 THEN "end" ELSE "pass"
      BY <1>0, <2>3, <2>8 DEF Passes
    <3>2. Progress' BY <3>1 DEF Progress
    <3>3. \A k \in DOMAIN call.patch, p \in Passes : Passed(p, k)' => Passed(p, k)
      BY <1>0, <1>a, <2>1, <3>1 DEF Passed, Passes
    <3>4. 0 \in Passes BY DEF Passes
    <3>5. ~errored' => ~errored /\ Depth(call, Len(call.patch) + 1) = 0 BY <2>2, <2>5, <2>8
    <3>6. Judged' BY <1>0, <1>b, <1>d, <1>e, <2>6, <2>8, <3>3, <3>4, <3>5 DEF Judged, Depth, Before
    <3>. QED BY <3>2, <3>6
  <2>9. mode' \in {"pass", "end", "caught"} /\ (mode' = "end" => pass' = 3)
    BY <1>0, <2>3 DEF Passes
  <2>. QED BY <1>0, <1>b, <1>c, <2>7, <2>8, <2>9 DEF AloneInv
<1>. QED BY <1>1, <1>2

\* A call of the library that resets begins with what it gives, and nothing else.
LEMMA LibraryAlone ==
  ASSUME Types, RomInv, AloneInv, AsarPatch \/ AsarPatchEx \/ AsarReset \/ AsarMath \/ AsarPatchEnd
  PROVE  AloneInv'
<1>. USE DEF Passed
<1>0. SlotsEmpty = [s \in 1 .. Slots |-> NoFile] BY DEF SlotsEmpty
<1>1. CASE AsarPatch
  <2>1. PICK c \in Calls : c.f = "asar_patch" /\ Begins(c) /\ CopyRom /\ ResetDllStuff
    BY <1>1 DEF AsarPatch
  <2>2. /\ lib /\ lib' /\ call' = c /\ errored' = FALSE /\ labels' = {} /\ clidefines' = {}
        /\ cache' = SlotsEmpty /\ caller.len <= c.buflen
        /\ mode' = "pass" /\ pass' = 0 /\ fs' = {} /\ clean' = (stack = <<>>)
        /\ UNCHANGED <<caller, stack>>
    BY <1>1, <2>1 DEF AsarPatch, Begins, CopyRom, ResetDllStuff, ResetEverything, Closed
  <2>3. c.reset /\ c.defines = <<>> /\ c.std = {} /\ c.warnings = <<>> /\ c.memory = {}
    BY <2>1, SessionAssumption
  <2>4. ToSet(c.defines) = {} /\ ToSet(c.warnings) = {} /\ DOMAIN c.defines = {}
    BY <2>3 DEF ToSet
  <2>5. ~SetupFails(call)' BY <2>2, <2>3, <2>4 DEF SetupFails, Invalid, Twice, Unknown
  <2>6. Setting' BY <1>0, <2>1, <2>2, <2>3, <2>4 DEF Setting
  <2>7. DOMAIN c.patch \subseteq Nat BY CallType
  <2>8. Judged' BY <2>2, <2>5, <2>7 DEF Judged, Passes
  <2>9. clean' => Progress' BY <2>2 DEF Progress
  <2>. QED BY <2>2, <2>6, <2>8, <2>9 DEF AloneInv, Lone
<1>2. CASE AsarPatchEx
  <2>1. PICK c \in Calls :
          /\ c.f = "asar_patch_ex" /\ Begins(c) /\ CopyRom
          /\ clidefines' = ToSet(c.defines) \cup (IF Twice(c) THEN {} ELSE c.std)
          /\ c.reset => labels' = {} /\ Closed /\ errored' = SetupFails(c)
          /\ clean' = (stack = <<>>)
          /\ IF Twice(c) THEN mode' = mode
             ELSE builtin' = TRUE /\ fs' = c.memory /\ mode' = "pass" /\ pass' = 0
          /\ UNCHANGED <<lib, caller, stack>>
    BY <1>2 DEF AsarPatchEx
  <2>2. Begins(c) /\ CopyRom BY <2>1
  <2>3. lib /\ lib' /\ call' = c /\ mode = "idle" /\ caller.len <= c.buflen /\ UNCHANGED <<caller, stack>>
    BY <2>1, <2>2 DEF Begins, CopyRom
  <2>4. CASE Twice(c)
    <3>1. mode' = "idle" BY <2>1, <2>3, <2>4
    <3>. QED BY <2>3, <3>1 DEF AloneInv
  <2>5. CASE ~Twice(c)
    <3>1. builtin' = TRUE /\ fs' = c.memory /\ mode' = "pass" /\ pass' = 0
          /\ clidefines' = ToSet(c.defines) \cup c.std
      BY <2>1, <2>5
    <3>2. ASSUME Lone' PROVE Setting' /\ Progress' /\ Judged'
      <4>1. c.reset /\ stack = <<>> BY <2>1, <2>3, <3>2 DEF Lone
      <4>2. labels' = {} /\ cache' = SlotsEmpty /\ errored' = SetupFails(c)
        BY <2>1, <4>1 DEF Closed
      <4>3. Setting' BY <1>0, <2>3, <3>1, <4>2 DEF Setting
      <4>4. Progress' BY <2>3, <3>1, <4>1, <4>2 DEF Progress
      <4>5. DOMAIN c.patch \subseteq Nat BY CallType
      <4>6. SetupFails(call)' <=> SetupFails(c) BY <2>3 DEF SetupFails, Invalid, Twice, Unknown
      <4>8. \A k \in DOMAIN call'.patch, p \in Passes : ~Passed(p, k)'
        BY <2>3, <3>1, <4>5 DEF Passes
      <4>9. Correct(call)' => ~SetupFails(call)' BY DEF Correct
      <4>10. 0 \in Passes /\ ~(pass' > 0) BY <3>1 DEF Passes
      <4>7. Judged' BY <4>2, <4>6, <4>8, <4>9, <4>10 DEF Judged
      <4>. QED BY <4>3, <4>4, <4>7
    <3>. QED BY <2>3, <3>1, <3>2 DEF AloneInv
  <2>. QED BY <2>4, <2>5
<1>3. CASE AsarReset \/ AsarMath
  <2>1. mode' = "idle" /\ lib /\ lib' = lib /\ caller' = caller
    BY <1>3 DEF AsarReset, AsarMath, Begins
  <2>. QED BY <2>1 DEF AloneInv
<1>4. CASE AsarPatchEnd
  <2>1. mode = "end" /\ mode' = "idle" /\ lib /\ lib' = lib /\ caller' \in {caller, Fixed(rom)}
    BY <1>4 DEF AsarPatchEnd
  <2>2. rom \in Rom /\ caller \in Rom BY DEF Types, Shape
  <2>3. Fixed(rom).len = rom.len /\ caller.len <= rom.len /\ RomLen <= caller.len
    BY <2>1, <2>2, FixedType DEF RomInv, AloneInv
  <2>4. RomLen <= caller'.len BY <2>1, <2>2, <2>3, SessionAssumption DEF Rom
  <2>. QED BY <2>1, <2>4 DEF AloneInv
<1>. QED BY <1>1, <1>2, <1>3, <1>4

\* The options of the command line are judged one by one.
LEMMA OptionAlone == Types /\ AloneInv /\ CliOption => AloneInv'
<1>. SUFFICES ASSUME Types, AloneInv, CliOption PROVE AloneInv' OBVIOUS
<1>1. /\ mode = "options" /\ ~lib /\ OptionsInv /\ call \in Runs /\ errored \in BOOLEAN
      /\ UNCHANGED <<lib, call, caller, labels, stack, cache, clean>>
  BY DEF CliOption, names, files, history, AloneInv, Types, TypeOK, Shape
<1>2. PICK n \in Nat, m \in Nat : /\ n = Len(call.defines) /\ DOMAIN call.defines = 1 .. n
                                  /\ m = Len(call.warnings) /\ DOMAIN call.warnings = 1 .. m
  BY <1>1, CallType
<1>3. optionAt \in Nat \ {0} BY DEF Types, Shape
<1>. DEFINE Unsaid == /\ "invalid" \notin FirstDefines
                      /\ \A i, j \in DOMAIN call.defines :
                           i < j /\ j < optionAt => call.defines[i] # call.defines[j]
                      /\ \A i \in DOMAIN call.warnings :
                           i + Len(call.defines) < optionAt => call.warnings[i][1] # "unknown"
<1>4. (errored => SetupFails(call)) /\ (~errored => Unsaid) BY <1>1 DEF OptionsInv
\* An option that goes through is a correct one.
<1>5. ASSUME /\ mode' = "options" /\ optionAt' = optionAt + 1
             /\ clidefines' = FirstDefines'
             /\ errored' => SetupFails(call)
             /\ ~errored' => Unsaid'
      PROVE  AloneInv'
  BY <1>1, <1>5 DEF AloneInv, OptionsInv, SetupFails, Invalid, Twice, Unknown
\* An option that ends the program is a wrong one.
<1>6. ASSUME mode' = "exit" \/ (mode' = "caught" /\ SetupFails(call)) PROVE AloneInv'
  BY <1>1, <1>6 DEF AloneInv, Verdict, Correct, SetupFails, Invalid, Twice, Unknown
<1>7. CASE optionAt \in 1 .. n /\ CliDefine(call.defines[optionAt])
  <2>. DEFINE d == call.defines[optionAt]
  <2>1. FirstDefines' = FirstDefines \cup {d} \/ optionAt' # optionAt + 1
    BY <1>1, <1>2, <1>3, <1>7 DEF FirstDefines
  <2>2. clidefines' = FirstDefines \cup {d} BY <1>1, <1>7 DEF CliDefine, OptionsInv
  <2>3. d = "invalid" \/ d \in FirstDefines => SetupFails(call)
    <3>1. d \in ToSet(call.defines) BY <1>2, <1>7 DEF ToSet
    <3>2. d \in FirstDefines => Twice(call) BY <1>2, <1>7 DEF FirstDefines, Twice
    <3>. QED BY <3>1, <3>2 DEF SetupFails, Invalid
  <2>4. CASE d = "invalid" \/ d \in FirstDefines
    <3>1. \/ mode' \in {"exit", "caught"}
          \/ mode' = "options" /\ optionAt' = optionAt + 1
      BY <1>1, <1>7, <2>4 DEF CliDefine, CliError, NextOption, Exit, OptionsInv
    <3>2. errored' BY <1>1, <1>7, <2>4 DEF CliDefine, CliError, Reports, Stops, OptionsInv
    <3>. QED BY <1>5, <1>6, <2>1, <2>2, <2>3, <2>4, <3>1, <3>2
  <2>5. CASE ~(d = "invalid" \/ d \in FirstDefines)
    <3>1. mode' = "options" /\ optionAt' = optionAt + 1 /\ errored' = errored
      BY <1>1, <1>7, <2>5 DEF CliDefine, NextOption, NoError, OptionsInv
    <3>2. ~errored => Unsaid'
      <4>1. SUFFICES ASSUME ~errored PROVE Unsaid' OBVIOUS
      <4>2. "invalid" \notin FirstDefines' BY <1>4, <2>1, <2>5, <3>1, <4>1
      <4>3. ASSUME NEW i \in 1 .. n, NEW j \in 1 .. n, i < j, j < optionAt'
            PROVE  call.defines[i] # call.defines[j]
        <5>1. CASE j < optionAt BY <1>2, <1>4, <4>1, <4>3, <5>1
        <5>2. CASE j = optionAt BY <1>2, <2>5, <4>3, <5>2 DEF FirstDefines
        <5>. QED BY <1>3, <3>1, <4>3, <5>1, <5>2
      <4>4. \A i \in 1 .. m : ~(i + n < optionAt') BY <1>2, <1>3, <1>7, <3>1
      <4>. QED BY <1>1, <1>2, <4>2, <4>3, <4>4
    <3>. QED BY <1>4, <1>5, <2>1, <2>2, <3>1, <3>2
  <2>. QED BY <2>4, <2>5
<1>8. CASE optionAt \in n + 1 .. n + m /\ CliWarning(call.warnings[optionAt - n])
  <2>. DEFINE w == call.warnings[optionAt - n]
  <2>1. FirstDefines' = FirstDefines \/ optionAt' # optionAt + 1
    BY <1>1, <1>2, <1>3, <1>8 DEF FirstDefines
  <2>2. clidefines' = FirstDefines BY <1>1, <1>8 DEF CliWarning, OptionsInv
  <2>0. optionAt - n \in 1 .. m BY <1>3, <1>8
  <2>3. w[1] = "unknown" => SetupFails(call)
    BY <1>2, <2>0 DEF SetupFails, Unknown, ToSet
  <2>4. CASE w[1] = "unknown"
    <3>1. errored' /\ (mode' = "caught" \/ (mode' = "options" /\ optionAt' = optionAt + 1))
      BY <1>1, <1>8, <2>4 DEF CliWarning, CliError, NextOption, Reports, Stops
    <3>. QED BY <1>5, <1>6, <2>1, <2>2, <2>3, <2>4, <3>1
  <2>5. CASE w[1] # "unknown"
    <3>1. mode' = "options" /\ optionAt' = optionAt + 1 /\ errored' = errored
      BY <1>1, <1>8, <2>5 DEF CliWarning, NextOption, NoError
    <3>2. ~errored => Unsaid'
      <4>1. SUFFICES ASSUME ~errored PROVE Unsaid' OBVIOUS
      <4>2. "invalid" \notin FirstDefines' BY <1>4, <2>1, <3>1, <4>1
      <4>3. \A i, j \in 1 .. n : i < j /\ j < optionAt' => call.defines[i] # call.defines[j]
        <5>1. \A j \in 1 .. n : j < optionAt BY <1>3, <1>8
        <5>. QED BY <1>2, <1>4, <4>1, <5>1
      <4>4. ASSUME NEW i \in 1 .. m, i + n < optionAt' PROVE call.warnings[i][1] # "unknown"
        <5>1. CASE i + n < optionAt BY <1>2, <1>4, <4>1, <5>1
        <5>2. CASE i = optionAt - n BY <2>5, <5>2
        <5>3. i + n < optionAt \/ i = optionAt - n BY <1>2, <1>3, <3>1, <4>4
        <5>. QED BY <5>1, <5>2, <5>3
      <4>. QED BY <1>1, <1>2, <4>2, <4>3, <4>4, ZenonT(60)
    <3>. QED BY <1>4, <1>5, <2>1, <2>2, <3>1, <3>2
  <2>. QED BY <2>4, <2>5
<1>9. CASE optionAt = n + m + 1 /\ CliChecksum
  <2>1. /\ mode' = "options" /\ optionAt' = optionAt + 1 /\ errored' = errored
        /\ clidefines' = clidefines
    BY <1>1, <1>9 DEF CliChecksum, NextOption, NoError
  <2>5. \A j \in 1 .. n : j < optionAt /\ j < optionAt' BY <1>9, <2>1
  <2>2. FirstDefines' = FirstDefines BY <1>1, <1>2, <2>5 DEF FirstDefines
  <2>3. clidefines = FirstDefines BY <1>1 DEF OptionsInv
  <2>4. ~errored => Unsaid'
    <3>1. SUFFICES ASSUME ~errored PROVE Unsaid' OBVIOUS
    <3>2. \A i, j \in 1 .. n : i < j => call.defines[i] # call.defines[j]
      <4>1. \A j \in 1 .. n : j < optionAt BY <1>9
      <4>. QED BY <1>2, <1>4, <3>1, <4>1
    <3>3. \A i \in 1 .. m : call.warnings[i][1] # "unknown"
      <4>1. \A i \in 1 .. m : i + n < optionAt BY <1>9
      <4>. QED BY <1>2, <1>4, <3>1, <4>1
    <3>. QED BY <1>1, <1>2, <1>4, <2>2, <3>1, <3>2, <3>3
  <2>. QED BY <1>4, <1>5, <2>1, <2>2, <2>3, <2>4
<1>. QED BY <1>2, <1>7, <1>8, <1>9 DEF CliOption

\* What a command line that opens its ROM begins the passes with.
LEMMA OpenAlone == Types /\ AloneInv /\ CliOpen => AloneInv'
<1>. SUFFICES ASSUME Types, AloneInv, CliOpen PROVE AloneInv' OBVIOUS
<1>1. /\ mode = "options" /\ ~lib /\ OptionsInv /\ call \in Runs /\ errored \in BOOLEAN /\ pass = 0
      /\ caller \in Rom
      /\ UNCHANGED <<lib, call, pass, labels, stack, cache, clean>>
  BY DEF CliOpen, warning, history, AloneInv, Types, TypeOK, Shape
<1>2. PICK n \in Nat, m \in Nat : /\ n = Len(call.defines) /\ DOMAIN call.defines = 1 .. n
                                  /\ m = Len(call.warnings) /\ DOMAIN call.warnings = 1 .. m
  BY <1>1, CallType
<1>3. /\ call.reset /\ call.f = "main" /\ call.memory = {} /\ IsCall(call)
      /\ call.romExists \in BOOLEAN /\ call.title \in BOOLEAN
  BY <1>1, SessionAssumption
<1>4. optionAt > n + m + 1 BY <1>2 DEF CliOpen
<1>5. optionAt \in Nat BY DEF Types, Shape
<1>6. (\A j \in 1 .. n : j < optionAt) /\ (\A i \in 1 .. m : i + n < optionAt) BY <1>4, <1>5
<1>7. FirstDefines = ToSet(call.defines) BY <1>2, <1>6 DEF FirstDefines, ToSet
<1>8. clidefines = ToSet(call.defines) BY <1>1, <1>7 DEF OptionsInv
<1>9. ~errored => ~Invalid(call) /\ ~Twice(call) /\ ~Unknown(call)
  <2>1. SUFFICES ASSUME ~errored PROVE ~Invalid(call) /\ ~Twice(call) /\ ~Unknown(call) OBVIOUS
  <2>2. ~Invalid(call) BY <1>1, <1>7, <2>1 DEF OptionsInv, Invalid
  <2>3. ~Twice(call) BY <1>1, <1>2, <1>6, <2>1 DEF OptionsInv, Twice
  <2>4. \A i \in 1 .. m : call.warnings[i][1] # "unknown" BY <1>1, <1>2, <1>6, <2>1 DEF OptionsInv
  <2>5. ~Unknown(call) BY <1>2, <2>4 DEF Unknown, ToSet
  <2>. QED BY <2>2, <2>3, <2>5
<1>10. errored => SetupFails(call) BY <1>1 DEF OptionsInv
<1>11. call.opens => caller'.len = (IF call.romExists THEN RomLen ELSE 0)
  BY <1>1 DEF CliOpen, OptionsInv, NoRom
<1>12. CASE ~call.opens
  <2>1. mode' \in {"caught", "exit"}
    BY <1>12 DEF CliOpen, CliError, Exit
  <2>. QED BY <1>1, <1>12, <2>1 DEF AloneInv, Verdict
<1>13. CASE call.opens /\ ~call.title /\ caller'.len > 0
  <2>1. mode' = "exit" BY <1>13 DEF CliOpen, Exit
  <2>. QED BY <1>1, <2>1 DEF AloneInv
<1>14. CASE call.opens /\ ~(~call.title /\ caller'.len > 0)
  <2>1. /\ fs' = {} /\ builtin' = TRUE /\ clidefines' = clidefines \cup call.std
        /\ \/ mode' = "pass" /\ clidefines \cap call.std = {} /\ errored' = errored
           \/ mode' \in {"pass", "caught"} /\ clidefines \cap call.std # {} /\ errored'
    BY <1>14 DEF CliOpen, CliError, Reports, Stops
  <2>2. errored' <=> SetupFails(call)
    BY <1>1, <1>8, <1>9, <1>10, <2>1 DEF SetupFails
  <2>3. SetupFails(call)' <=> SetupFails(call) BY <1>1 DEF SetupFails, Invalid, Twice, Unknown
  <2>4. call.title \/ ~call.romExists \/ RomLen = 0
    BY <1>11, <1>14, SessionAssumption
  <2>5. Setting' BY <1>1, <1>3, <1>8, <1>14, <2>1, <2>4 DEF Setting, OptionsInv, SlotsEmpty
  <2>6. Progress' \/ mode' = "caught" BY <1>1, <2>1 DEF Progress, OptionsInv
  <2>7. Judged' \/ mode' = "caught"
    <3>1. SUFFICES ASSUME mode' = "pass" PROVE Judged' BY <2>1
    <3>2. DOMAIN call.patch \subseteq Nat BY <1>1, CallType
    <3>3. \A k \in DOMAIN call'.patch, p \in Passes : ~Passed(p, k)'
      BY <1>1, <3>1, <3>2 DEF Passes, Passed
    <3>4. Correct(call)' => ~SetupFails(call)' BY DEF Correct
    <3>5. 0 \in Passes /\ ~(pass' > 0) BY <1>1 DEF Passes
    <3>. QED BY <2>2, <2>3, <3>3, <3>4, <3>5 DEF Judged
  <2>8. mode' = "caught" => ~Verdict(call)' BY <2>1, <2>2, <2>3 DEF Verdict, Correct
  <2>. QED BY <1>1, <2>1, <2>5, <2>6, <2>7, <2>8 DEF AloneInv
<1>. QED BY <1>12, <1>13, <1>14

LEMMA AloneStep == Types /\ RomInv /\ AloneInv /\ [Next]_vars => AloneInv'
<1>. SUFFICES ASSUME Types, RomInv, AloneInv, [Next]_vars PROVE AloneInv' OBVIOUS
<1>1. CASE CliStart
  <2>1. /\ mode = "idle" /\ ~lib /\ mode' = "options" /\ lib' = lib /\ call' \in Runs
        /\ caller' = IF call'.romExists THEN caller ELSE [NoRom EXCEPT !.sum = "missing"]
        /\ UNCHANGED <<errored, clidefines, labels, stack, cache, clean, optionAt>>
    BY <1>1 DEF CliStart, report, warning, names, files, history
  <2>2. Fresh BY <2>1 DEF Types, Shape
  <2>3. DOMAIN call'.defines \subseteq Nat \ {0} /\ DOMAIN call'.warnings \subseteq Nat \ {0}
    BY <2>1, CallType
  <2>4. Len(call'.defines) \in Nat BY <2>1, CallType
  <2>5. FirstDefines' = {} BY <2>1, <2>2, <2>3 DEF FirstDefines, Fresh
  <2>6. \A j \in DOMAIN call'.defines : ~(j < optionAt') BY <2>1, <2>2, <2>3 DEF Fresh
  <2>7. \A i \in DOMAIN call'.warnings : ~(i + Len(call'.defines) < optionAt')
    <3>1. \A i \in Nat \ {0}, n \in Nat : ~(i + n < 1) OBVIOUS
    <3>2. optionAt' = 1 BY <2>1, <2>2 DEF Fresh
    <3>. QED BY <2>3, <2>4, <3>1, <3>2
  <2>8. OptionsInv' BY <2>1, <2>2, <2>5, <2>6, <2>7 DEF OptionsInv, Fresh, NoRom
  <2>. QED BY <2>1, <2>2, <2>8 DEF AloneInv, Fresh
<1>2. CASE CliEnd \/ CliCaught
  <2>1. mode' = "exit" /\ ~lib /\ lib' = lib /\ clean' = clean
    BY <1>2 DEF CliEnd, CliCaught, Exit, history, Types, Shape
  <2>. QED BY <2>1 DEF AloneInv
<1>3. CASE UNCHANGED vars
  <2>1. UNCHANGED <<mode, lib, call, pass, at, caller, errored, stack, defines, clidefines, builtin,
                    labels, fs, cache, clean, optionAt>>
    BY <1>3 DEF vars, report, warning, names, files, history
  <2>2. \A k \in DOMAIN call.patch : Right(call, k)' <=> Right(call, k)
    BY <2>1 DEF Right, Predefined, Builtins, Before, Depth, Resolve, IncludePaths
  <2>3. /\ SetupFails(call)' <=> SetupFails(call)
        /\ Depth(call, Len(call.patch) + 1)' = Depth(call, Len(call.patch) + 1)
    BY <2>1 DEF Depth, Before, SetupFails, Invalid, Twice, Unknown
  <2>4. Correct(call)' <=> Correct(call) BY <2>1, <2>2, <2>3 DEF Correct
  <2>5. Verdict(call)' <=> Verdict(call) BY <2>1, <2>4 DEF Verdict, Fits
  <2>6. Setting' <=> Setting BY <2>1 DEF Setting
  <2>7. Progress' <=> Progress BY <2>1 DEF Progress, Before, Depth, Builtins
  <2>8. \A p, k : Passed(p, k)' <=> Passed(p, k) BY <2>1 DEF Passed
  <2>9. Judged' <=> Judged BY <2>1, <2>2, <2>3, <2>4, <2>8 DEF Judged
  <2>10. FirstDefines' = FirstDefines BY <2>1 DEF FirstDefines
  <2>11. OptionsInv' <=> OptionsInv BY <2>1, <2>3, <2>10 DEF OptionsInv
  <2>. QED BY <2>1, <2>5, <2>6, <2>7, <2>9, <2>11 DEF AloneInv, Lone
<1>. QED BY <1>1, <1>2, <1>3, CommandAlone, PassAlone, LibraryAlone, OptionAlone, OpenAlone, NextCases

\* A patch that has come to its end without an error is correct.
LEMMA JudgedCorrect ==
  ASSUME Types, AloneInv, mode = "end", Lone
  PROVE  Correct(call) <=> ~errored
<1>1. Judged BY DEF AloneInv
<1>2. ASSUME ~errored PROVE Correct(call)
  <2>1. pass = 3 BY <1>2 DEF AloneInv
  <2>2. \A k \in DOMAIN call.patch, p \in Passes : Passed(p, k) BY <2>1 DEF Passed, Passes
  <2>3. 0 \in Passes BY DEF Passes
  <2>4. IsCall(call) BY RunningCall, CallType
  <2>5. \A k \in DOMAIN call.patch : call.patch[k].c = "error" => call.patch[k].in = {}
    <3>1. SUFFICES ASSUME NEW k \in DOMAIN call.patch, call.patch[k].c = "error"
                   PROVE  call.patch[k].in = {}
      OBVIOUS
    <3>2. call.patch[k].in \subseteq Passes BY <2>4, <3>1 DEF IsCall, IsCommand
    <3>3. \A p \in Passes : p \notin call.patch[k].in BY <1>1, <1>2, <2>2, <3>1 DEF Judged
    <3>. QED BY <3>2, <3>3
  <2>6. \A k \in DOMAIN call.patch : Right(call, k) BY <1>1, <1>2, <2>2, <2>3 DEF Judged
  <2>. QED BY <1>1, <1>2, <2>1, <2>5, <2>6 DEF Judged, Correct
<1>. QED BY <1>1, <1>2 DEF Judged

\* The patch of a library call fits when its last byte does.
LEMMA JudgedFits ==
  ASSUME Types, RomInv, AloneInv, mode = "end", Lone, lib, ~errored
  PROVE  Fits(call) <=> rom.len <= call.buflen
<1>1. call \in Calls /\ IsCall(call) /\ call.buflen \in Nat
  BY RunningCall, CallType, SessionAssumption
<1>2. Len(call.patch) \in Nat /\ DOMAIN call.patch = 1 .. Len(call.patch) BY <1>1, CallType
<1>3. rom.len \in Nat /\ caller.len \in Nat /\ RomLen \in Nat
  BY SessionAssumption DEF Types, Shape, Rom
<1>4. RomLen <= caller.len /\ caller.len <= call.buflen BY DEF AloneInv, Setting
<1>5. Grown(Len(call.patch) + 1) BY DEF RomInv
<1>6. WritesBefore(Len(call.patch) + 1) = { k \in DOMAIN call.patch : call.patch[k].c = "write" }
  BY <1>2 DEF WritesBefore, Before
<1>7. \A k \in DOMAIN call.patch : call.patch[k].c = "write" => call.patch[k].to \in Nat
  BY <1>1 DEF IsCall, IsCommand
<1>8. ASSUME Fits(call) PROVE rom.len <= call.buflen
  <2>1. CASE rom.len = caller.len BY <1>4, <2>1
  <2>2. CASE \E k \in DOMAIN call.patch : call.patch[k].c = "write" /\ call.patch[k].to = rom.len
    BY <1>8, <2>2 DEF Fits
  <2>. QED BY <1>5, <1>6, <2>1, <2>2 DEF Grown
<1>9. ASSUME rom.len <= call.buflen PROVE Fits(call)
  <2>1. RomLen <= call.buflen BY <1>1, <1>3, <1>4
  <2>2. \A k \in DOMAIN call.patch : call.patch[k].c = "write" => call.patch[k].to <= rom.len
    BY <1>5, <1>6 DEF Grown
  <2>. QED BY <1>1, <1>3, <1>7, <1>9, <2>1, <2>2 DEF Fits
<1>. QED BY <1>8, <1>9

LEMMA ResultStep ==
  Types /\ RomInv /\ AloneInv /\ SucceedsAlone /\ [Next]_vars => SucceedsAlone'
<1>. SUFFICES ASSUME Types, RomInv, AloneInv, SucceedsAlone, [Next]_vars PROVE SucceedsAlone'
  OBVIOUS
<1>. USE DEF Returned, Succeeded
<1>1. CASE AsarPatchEnd
  <2>1. /\ mode = "end" /\ lib /\ UNCHANGED <<lib, call, clean, builtin>>
        /\ result' = IF errored \/ call.buflen < rom.len THEN "false" ELSE "true"
    BY <1>1 DEF AsarPatchEnd, Refuses, names, history
  <2>2. call.buflen \in Nat /\ rom.len \in Nat
    BY <2>1, RunningCall, SessionAssumption DEF Types, Shape, Rom
  <2>3. errored \in BOOLEAN BY DEF Types, TypeOK
  <2>4. Lone => (Succeeded' <=> Verdict(call))
    <3>1. SUFFICES ASSUME Lone PROVE Succeeded' <=> Verdict(call) OBVIOUS
    <3>2. Correct(call) <=> ~errored BY <2>1, <3>1, JudgedCorrect
    <3>3. ~errored => (Fits(call) <=> rom.len <= call.buflen) BY <2>1, <3>1, JudgedFits
    <3>. QED BY <2>1, <2>2, <3>2, <3>3 DEF Verdict
  <2>5. \A k \in DOMAIN call.patch : Right(call, k)' <=> Right(call, k)
    BY <2>1 DEF Right, Predefined, Builtins, Before, Depth, Resolve, IncludePaths
  <2>6. Correct(call)' <=> Correct(call)
    BY <2>1, <2>5 DEF Correct, Depth, Before, SetupFails, Invalid, Twice, Unknown
  <2>7. Verdict(call)' <=> Verdict(call) BY <2>1, <2>6 DEF Verdict, Fits
  <2>. QED BY <2>1, <2>4, <2>7 DEF SucceedsAlone, Lone
<1>2. CASE CliEnd
  <2>1. /\ mode = "end" /\ ~lib /\ UNCHANGED <<lib, call, clean, builtin, shown>>
        /\ result' = IF errored \/ (call.werror /\ shown # <<>>) THEN "1" ELSE "0"
    BY <1>2 DEF CliEnd, Exit, history
  <2>2. Lone BY <2>1, RunningCall, SessionAssumption DEF Lone, AloneInv
  <2>3. Correct(call) <=> ~errored BY <2>1, <2>2, JudgedCorrect
  <2>4. Verdict(call) <=> ~errored BY <2>1, <2>2, <2>3 DEF Verdict, AloneInv, Setting
  <2>5. \A k \in DOMAIN call.patch : Right(call, k)' <=> Right(call, k)
    BY <2>1 DEF Right, Predefined, Builtins, Before, Depth, Resolve, IncludePaths
  <2>6. Correct(call)' <=> Correct(call)
    BY <2>1, <2>5 DEF Correct, Depth, Before, SetupFails, Invalid, Twice, Unknown
  <2>7. Verdict(call)' <=> Verdict(call) BY <2>1, <2>6 DEF Verdict, Fits
  <2>. QED BY <2>1, <2>4, <2>7 DEF SucceedsAlone
<1>3. CASE CliCaught
  <2>1. mode = "caught" /\ result' = "1" /\ UNCHANGED <<lib, call, builtin>>
    BY <1>3 DEF CliCaught, Exit
  <2>2. \A k \in DOMAIN call.patch : Right(call, k)' <=> Right(call, k)
    BY <2>1 DEF Right, Predefined, Builtins, Before, Depth, Resolve, IncludePaths
  <2>3. Correct(call)' <=> Correct(call)
    BY <2>1, <2>2 DEF Correct, Depth, Before, SetupFails, Invalid, Twice, Unknown
  <2>4. Verdict(call)' <=> Verdict(call) BY <2>1, <2>3 DEF Verdict, Fits
  <2>5. ~Verdict(call)' BY <2>1, <2>4 DEF AloneInv
  <2>. QED BY <2>1, <2>5 DEF SucceedsAlone
<1>4. CASE AsarPatchEx
  <2>1. PICK c \in Calls : /\ call' = c
                           /\ IF Twice(c) THEN result' = "false" ELSE mode' = "pass"
    BY <1>4 DEF AsarPatchEx, Begins
  <2>2. Twice(c) => ~Verdict(call)' BY <2>1 DEF Verdict, Correct, SetupFails, Twice
  <2>. QED BY <2>1, <2>2 DEF SucceedsAlone
<1>5. CASE AsarReset \/ AsarMath
  <2>1. call' = NoCall BY <1>5 DEF AsarReset, AsarMath, Begins
  <2>. QED BY <2>1 DEF SucceedsAlone, PatchCall, NoCall
<1>6. CASE CliOption
  <2>1. mode' = "exit" => result' = "1" /\ Twice(call) /\ UNCHANGED call
    <3>1. mode = "options" /\ UNCHANGED call /\ OptionsInv BY <1>6 DEF CliOption, AloneInv
    <3>2. CASE optionAt \in 1 .. Len(call.defines) /\ CliDefine(call.defines[optionAt])
      <4>1. mode' = "exit" => result' = "1" /\ call.defines[optionAt] \in FirstDefines
        BY <3>1, <3>2 DEF CliDefine, CliError, NextOption, Exit, OptionsInv
      <4>2. call \in Runs BY <3>1 DEF Types, Shape
      <4>3. optionAt \in DOMAIN call.defines BY <3>2, <4>2, CallType
      <4>. QED BY <3>1, <4>1, <4>3 DEF FirstDefines, Twice
    <3>3. CASE CliChecksum \/ \E w : CliWarning(w)
      BY <3>1, <3>3 DEF CliWarning, CliChecksum, CliError, NextOption
    <3>. QED BY <1>6, <3>2, <3>3 DEF CliOption
  <2>2. mode' # "idle" BY <1>6 DEF CliOption, CliDefine, CliWarning, CliChecksum, CliError, NextOption, Exit
  <2>3. mode' = "exit" => ~Verdict(call)' BY <2>1 DEF Verdict, Correct, SetupFails, Twice
  <2>. QED BY <2>1, <2>2, <2>3 DEF SucceedsAlone
<1>7. CASE CliOpen
  <2>1. mode = "options" /\ ~lib /\ UNCHANGED <<lib, call>> /\ OptionsInv /\ call \in Runs
    BY <1>7 DEF CliOpen, AloneInv, Types, Shape
  <2>2. mode' \in {"pass", "caught", "exit"} BY <1>7 DEF CliOpen, CliError, Exit
  <2>3. mode' = "exit" =>
          result' = "1" /\ (~call.opens \/ (call.opens /\ ~call.title /\ caller'.len > 0))
    BY <1>7, <2>1 DEF CliOpen, CliError, Exit
  <2>4. call.opens => caller'.len = (IF call.romExists THEN RomLen ELSE 0)
    BY <1>7, <2>1 DEF CliOpen, OptionsInv, NoRom
  <2>5. mode' = "exit" => ~Verdict(call)'
    BY <2>1, <2>3, <2>4, SessionAssumption DEF Verdict
  <2>. QED BY <2>2, <2>3, <2>5 DEF SucceedsAlone
<1>8. CASE AsarPatch \/ StartPass \/ FinishPass \/ CliStart
  <2>1. mode' \notin {"idle", "exit"} BY <1>8 DEF AsarPatch, StartPass, FinishPass, CliStart
  <2>. QED BY <2>1 DEF SucceedsAlone
<1>9. CASE CommandStep
  <2>1. mode' \notin {"idle", "exit"} BY <1>9, CommandFrame
  <2>. QED BY <2>1 DEF SucceedsAlone
<1>10. CASE UNCHANGED vars
  <2>1. UNCHANGED <<mode, lib, call, builtin, clean, result, shown>>
    BY <1>10 DEF vars, report, names, history
  <2>2. \A k \in DOMAIN call.patch : Right(call, k)' <=> Right(call, k)
    BY <2>1 DEF Right, Predefined, Builtins, Before, Depth, Resolve, IncludePaths
  <2>3. Correct(call)' <=> Correct(call)
    BY <2>1, <2>2 DEF Correct, Depth, Before, SetupFails, Invalid, Twice, Unknown
  <2>4. Verdict(call)' <=> Verdict(call) BY <2>1, <2>3 DEF Verdict, Fits
  <2>. QED BY <2>1, <2>4 DEF SucceedsAlone, PatchCall
<1>. QED BY <1>1, <1>2, <1>3, <1>4, <1>5, <1>6, <1>7, <1>8, <1>9, <1>10, NextCases

\* Whether a call that resets succeeds is decided by its patch and its parameters: nothing
\* that earlier calls, patches and errors have left decides it, but warnings they have pushed
\* and, for asar_patch, the built-in defines.
THEOREM ResultIsItsOwn == Spec => []SucceedsAlone
<1>1. Init => AloneInv /\ RomInv /\ SucceedsAlone
  BY SessionAssumption DEF Init, AloneInv, RomInv, SucceedsAlone, NoCall, PatchCall
<1>. QED BY <1>1, TypesInit, TypesStep, RomStep, AloneStep, ResultStep, PTL DEF Spec
=============================================================================
