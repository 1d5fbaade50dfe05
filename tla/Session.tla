------------------------------- MODULE Session -------------------------------
(* A process that applies patches: the calls of the library, the run of the   *)
(* command line program, and what both keep from one patch to the next, namely *)
(* the ROM and its copy, errors and warnings, defines, the file system and its  *)
(* open files.  A patch is a sequence of commands, met in each of three passes. *)
EXTENDS Integers, Sequences, FiniteSets, SequencesExt

CONSTANTS
  Calls,        \* the calls the program that uses the library may make
  Runs,         \* the command lines of the command line program
  MaxCalls,     \* bound on the calls of a process
  Warnings,     \* the warnings
  Default,      \* those that are enabled by default (asar_warnings)
  Slots,        \* files that stay open at a time: 16 (numcachedfiles)
  RomLen        \* the length of the ROM that is patched

None == "none"
Passes == 0 .. 2

\* What a command is, as far as its meaning depends on it.
IsCommand(x) ==
  /\ x.c = "error" => x.in \subseteq Passes /\ x.class \in {"null", "block", "line", "fatal"}
  /\ x.c = "set"   => x.w \in Warnings
  /\ x.c = "write" => x.to \in Nat
  /\ x.c = "open"  => x.name # None
IsList(s) == s \in Seq(ToSet(s))
IsCall(c) ==
  /\ IsList(c.patch) /\ \A i \in DOMAIN c.patch : IsCommand(c.patch[i])
  /\ IsList(c.defines) /\ IsList(c.warnings)
  /\ c.reset \in BOOLEAN /\ c.checksum \in {"as it is", "on", "off"}

ASSUME SessionAssumption ==
  /\ Default \subseteq Warnings /\ "unknown" \notin Warnings
  /\ Slots \in Nat \ {0} /\ MaxCalls \in Nat /\ RomLen \in Nat
  /\ \A c \in Calls : /\ IsCall(c) /\ c.buflen \in Nat /\ c.f \in {"asar_patch", "asar_patch_ex"}
                      /\ c.f = "asar_patch" => /\ c.reset /\ c.defines = <<>> /\ c.std = {}
                                              /\ c.warnings = <<>> /\ c.memory = {}
  /\ \A c \in Runs : /\ IsCall(c) /\ c.reset /\ c.f = "main" /\ c.memory = {}
                     /\ c.opens \in BOOLEAN /\ c.title \in BOOLEAN /\ c.romExists \in BOOLEAN

VARIABLES
  mode,         \* "idle", "options", "open", "pass", "commands", "end"
  lib,          \* the library, or the command line program
  calls,        \* calls so far
  call,         \* the one under way, or the last one
  pass, at,     \* the pass, and the command that is next
  caller,       \* the ROM of the caller, or of the disk
  rom,          \* the ROM that is worked on
  errored, errors, shown, prints,     \* what has been reported
  enabled, stack, main,               \* warnings: enabled, pushed, and at the start
  defines, clidefines, builtin, labels,
  fix, force,   \* the checksum: is it generated, and has the caller decided
  fs,           \* the file system
  cache, next,  \* the open files, and the slot that is taken next
  handles,      \* the files that are open
  optionAt,     \* the option that is next
  result,       \* of the last call
  given,        \* the warnings the call enables (history)
  clean         \* no warnings were pushed when the call began (history)

report   == <<errored, errors, shown, prints>>
warning  == <<enabled, stack, main>>
names    == <<defines, clidefines, builtin, labels>>
checksum == <<fix, force>>
files    == <<fs, cache, next, handles>>
history  == <<given, clean>>
vars == <<mode, lib, calls, call, pass, at, caller, rom, report, warning, names, checksum, files,
          optionAt, result, history>>

NoFile == <<None, None>>
NoSystem == {NoFile}      \* the pointer to the file system: null, or to one that has
Dead == {<<"dead">>}      \* been destroyed; otherwise its memory files
NoCall == [f |-> "none", patch |-> <<>>]
SlotsEmpty == [s \in 1 .. Slots |-> NoFile]
NoRom == [len |-> 0, data |-> {}, sum |-> "stale"]

Init ==
  /\ mode = "idle" /\ lib \in BOOLEAN /\ calls = 0 /\ call = NoCall /\ pass = 0 /\ at = 0
  /\ caller = [len |-> RomLen, data |-> {}, sum |-> "stale"] /\ rom = NoRom
  /\ errored = FALSE /\ errors = <<>> /\ shown = <<>> /\ prints = <<>>
  /\ enabled = Default /\ stack = <<>> /\ main = Default
  /\ defines = {} /\ clidefines = {} /\ builtin = FALSE /\ labels = {}
  /\ fix = TRUE /\ force = FALSE
  /\ fs = NoSystem /\ cache = SlotsEmpty /\ next = 1 /\ handles = <<>>
  /\ optionAt = 1 /\ result = "none" /\ given = Default /\ clean = TRUE

-----------------------------------------------------------------------------
(* Errors and warnings.                                                      *)

\* error_interface: an error of another pass stops the patch unseen.
Limit == IF lib THEN -1 ELSE call.limit
LimitReached == ~lib /\ Len(errors) = Limit
Stops_WhenShown(e) == errored \/ e.pass = pass     \* forgets what is not shown
Stops(e) == TRUE
Reports(e) ==
  /\ errored' = Stops(e)
  /\ errors' = IF e.pass # pass THEN errors
               ELSE IF LimitReached THEN errors \o <<e.what, <<"limit_reached">>>>
               ELSE Append(errors, e.what)
IsFatal(e) == e.class = "fatal" \/ (e.pass = pass /\ LimitReached)

Builtins == IF builtin THEN {"assembler"} ELSE {}
ErrorsLeft == <<>>

\* reseteverything, and resetdllstuff, which calls it.
Closed == cache' = SlotsEmpty /\ next' = 1 /\ handles' = SelectSeq(handles, LAMBDA h : h \notin ToSet(cache))
ResetEverything ==
  /\ defines' = clidefines' \cup Builtins /\ labels' = {} /\ errored' = FALSE /\ fix' = TRUE /\ force' = FALSE /\ Closed
ResetDllStuff ==
  /\ errors' = ErrorsLeft /\ shown' = <<>> /\ prints' = <<>>
  /\ clidefines' = {} /\ enabled' = Default
  /\ ResetEverything

-----------------------------------------------------------------------------
(* The library.                                                              *)

\* asar_patch_begin; the caller's buffer holds its ROM.
CopyRom == caller.len <= call'.buflen /\ rom' = caller
Begins(c) == mode = "idle" /\ lib /\ calls < MaxCalls /\ calls' = calls + 1 /\ call' = c

AsarPatch ==
  \E c \in { d \in Calls : d.f = "asar_patch" } :
    /\ Begins(c) /\ CopyRom /\ ResetDllStuff
    /\ fs' = {} /\ mode' = "pass" /\ pass' = 0 /\ given' = enabled' /\ clean' = (stack = <<>>)
    /\ UNCHANGED <<lib, at, caller, stack, main, builtin, optionAt, result>>

\* asar_patch_ex: a define that is given twice ends the call at once, with the file
\* system it has made for it; the pointer stays.
Twice(c) == \E i, j \in DOMAIN c.defines : i < j /\ c.defines[i] = c.defines[j]
Invalid(c) == "invalid" \in ToSet(c.defines)
Unknown(c) == "unknown" \in { w[1] : w \in ToSet(c.warnings) }
Settings(ws, from) ==        \* the last one about a warning counts
  { w \in Warnings : LET said == { i \in DOMAIN ws : ws[i][1] = w }
                     IN  IF said = {} THEN w \in from ELSE ws[Max(said)][2] }
SetupFails(c) == Invalid(c) \/ Twice(c) \/ c.std \cap ToSet(c.defines) # {} \/ Unknown(c)
\* Before the passes: the errors that are found there have the pass as it is.
SetupErrors(c) ==
  LET fails == [define_invalid      |-> Invalid(c),
                define_override     |-> Twice(c),
                std_define_override |-> ~Twice(c) /\ c.std \cap ToSet(c.defines) # {},
                invalid_warning_id  |-> ~Twice(c) /\ Unknown(c)]
  IN  SelectSeq(<< <<"define_invalid">>, <<"define_override">>, <<"std_define_override">>,
                   <<"invalid_warning_id">> >>, LAMBDA e : fails[e[1]])
AsarPatchEx ==
  \E c \in { d \in Calls : d.f = "asar_patch_ex" } :
    /\ Begins(c) /\ CopyRom
    /\ clidefines' = ToSet(c.defines) \cup (IF Twice(c) THEN {} ELSE c.std)
    /\ IF c.reset
       THEN /\ labels' = {} /\ Closed /\ shown' = <<>> /\ prints' = <<>> /\ defines' = Builtins
            /\ errors' = ErrorsLeft \o SetupErrors(c) /\ errored' = SetupFails(c)
            /\ enabled' = IF Twice(c) THEN Default ELSE Settings(c.warnings, Default)
       ELSE /\ UNCHANGED <<labels, cache, next, handles, shown, prints, defines>>
            /\ errors' = errors \o SetupErrors(c)
            /\ errored' = (errored \/ SetupFails(c))
            /\ enabled' = IF Twice(c) THEN enabled ELSE Settings(c.warnings, enabled)
    /\ LET says == c.checksum # "as it is" /\ ~Twice(c)
       IN  /\ force' = (says \/ (~c.reset /\ force))
           /\ fix' = IF says THEN c.checksum = "on" ELSE c.reset \/ fix
    /\ given' = enabled' /\ clean' = (stack = <<>>)
    /\ IF Twice(c)
       THEN /\ result' = "false" /\ fs' = Dead /\ UNCHANGED <<builtin, pass, mode>>
       ELSE /\ builtin' = TRUE /\ fs' = c.memory /\ mode' = "pass" /\ pass' = 0
            /\ UNCHANGED result
    /\ UNCHANGED <<lib, at, caller, stack, main, optionAt>>

\* asar_patch_end.  asar_patch leaves the files of the cache open.
Refuses_Errors(small) == errored              \* copies a ROM that does not fit
Refuses(small) == errored \/ small
Fixed(r) == IF fix THEN [r EXCEPT !.sum = "good"] ELSE r
AsarPatchEnd ==
  /\ mode = "end" /\ lib
  /\ rom' = Fixed(rom)
  /\ LET small == call.buflen < rom.len
         fails == Refuses(small)
     IN  /\ errors' = IF small THEN Append(errors, <<"buffer_too_small">>) ELSE errors
         /\ errored' = (errored \/ small)
         /\ caller' = IF fails THEN caller ELSE rom'
         /\ result' = IF fails THEN "false" ELSE "true"
  /\ IF call.f = "asar_patch" THEN UNCHANGED <<cache, next, handles>> ELSE Closed
  /\ fs' = NoSystem /\ mode' = "idle"
  /\ UNCHANGED <<lib, calls, call, pass, at, shown, prints, warning, names, checksum, optionAt, history>>

AsarReset ==
  /\ Begins(NoCall) /\ ResetDllStuff /\ pass' = 0 /\ result' = "none"
  /\ UNCHANGED <<mode, lib, at, caller, rom, stack, main, builtin, fs, optionAt, history>>

\* asar_math keeps its error to itself, but not that there was one.
AsarMath ==
  \E wrong \in BOOLEAN :
    /\ Begins(NoCall) /\ errored' = wrong /\ result' = "none"
    /\ UNCHANGED <<mode, lib, pass, at, caller, rom, errors, shown, prints, warning, names, checksum,
                   files, optionAt, history>>

-----------------------------------------------------------------------------
(* The passes: asar_patch_main, and the loop of main.                        *)

Raises(e) ==
  /\ Reports(e)
  /\ IF IsFatal(e) THEN mode' = (IF lib THEN "end" ELSE "caught") /\ UNCHANGED at
                   ELSE mode' = "commands" /\ at' = at + 1

StartPass ==
  /\ mode = "pass" /\ mode' = "commands" /\ at' = 1
  /\ defines' = clidefines \cup Builtins
  /\ main' = enabled                                \* push_warnings(false)
  /\ UNCHANGED <<lib, calls, call, pass, caller, rom, report, enabled, stack, clidefines, builtin,
                 labels, checksum, files, optionAt, result, history>>

AtCommand(c) == mode = "commands" /\ at \in DOMAIN call.patch /\ call.patch[at].c = c
Cmd == call.patch[at]
Done == at' = at + 1 /\ UNCHANGED mode
Commons == UNCHANGED <<lib, calls, call, pass, caller, optionAt, result, history>>

\* A command that fails, in some of the passes and with an error of a certain pass.
Fails ==
  /\ AtCommand("error")
  /\ IF pass \in Cmd.in THEN Raises([pass |-> Cmd.pass, class |-> Cmd.class, what |-> <<calls, at>>])
                        ELSE Done /\ UNCHANGED <<errored, errors>>
  /\ Commons /\ UNCHANGED <<rom, shown, prints, warning, names, checksum, files>>

Says == pass = Cmd.pass /\ Cmd.w \in enabled
Warn ==
  /\ AtCommand("warn") /\ Done
  /\ shown' = IF Says THEN Append(shown, <<calls, at>>) ELSE shown
  /\ Commons /\ UNCHANGED <<rom, errored, errors, prints, warning, names, checksum, files>>

PrintText ==
  /\ AtCommand("print") /\ Done
  /\ prints' = IF pass = 2 THEN Append(prints, <<calls, at>>) ELSE prints
  /\ Commons /\ UNCHANGED <<rom, errored, errors, shown, warning, names, checksum, files>>

WarningsPush ==
  /\ AtCommand("push") /\ Done
  /\ stack' = Append(stack, enabled)
  /\ Commons /\ UNCHANGED <<rom, report, enabled, main, names, checksum, files>>

WarningsPull ==
  /\ AtCommand("pull")
  /\ IF stack = <<>>
     THEN Raises([pass |-> 0, class |-> "block", what |-> <<calls, at>>]) /\ UNCHANGED <<enabled, stack>>
     ELSE /\ enabled' = Last(stack) /\ stack' = Front(stack)
          /\ Done /\ UNCHANGED <<errored, errors>>
  /\ Commons /\ UNCHANGED <<rom, shown, prints, main, names, checksum, files>>

WarningsSet ==
  /\ AtCommand("set") /\ Done
  /\ enabled' = IF Cmd.on THEN enabled \cup {Cmd.w} ELSE enabled \ {Cmd.w}
  /\ Commons /\ UNCHANGED <<rom, report, stack, main, names, checksum, files>>

Define ==
  /\ AtCommand("define") /\ Done
  /\ defines' = defines \cup {Cmd.d}
  /\ Commons /\ UNCHANGED <<rom, report, warning, clidefines, builtin, labels, checksum, files>>

UseDefine ==
  /\ AtCommand("use")
  /\ IF Cmd.d \in defines THEN Done /\ UNCHANGED <<errored, errors>>
     ELSE Raises([pass |-> 0, class |-> "line", what |-> <<calls, at>>])
  /\ Commons /\ UNCHANGED <<rom, shown, prints, warning, names, checksum, files>>

\* Labels outlive the patch when the next call does not reset.
Label ==
  /\ AtCommand("label")
  /\ IF pass = 0 /\ Cmd.l \in labels
     THEN Raises([pass |-> 0, class |-> "block", what |-> <<calls, at>>]) /\ UNCHANGED labels
     ELSE Done /\ labels' = labels \cup {Cmd.l} /\ UNCHANGED <<errored, errors>>
  /\ Commons /\ UNCHANGED <<rom, shown, prints, warning, defines, clidefines, builtin, checksum, files>>

\* A write in the last pass: the ROM grows, or bytes within it change.
Writes ==
  /\ AtCommand("write") /\ Done
  /\ rom' = IF pass < 2 THEN rom
            ELSE [len |-> IF Cmd.to > rom.len THEN Cmd.to ELSE rom.len,
                  data |-> rom.data \cup {<<calls, at>>}, sum |-> "stale"]
  /\ Commons /\ UNCHANGED <<report, warning, names, checksum, files>>

\* norom, a full SA-1 map and the like: no checksum, unless the caller has decided.
FixUnlessForced_Never == FALSE               \* does not ask whether the caller has decided
FixUnlessForced == fix /\ force
NoChecksum ==
  /\ AtCommand("nochecksum") /\ Done
  /\ fix' = FixUnlessForced
  /\ Commons /\ UNCHANGED <<rom, report, warning, names, force, files>>

-----------------------------------------------------------------------------
(* The file system, and the files that stay open.                            *)

\* parse_std_includes: the directories of the standard file come last.
IncludePaths == call.includes \o call.stdincludes

\* create_absolute_path: what a name stands for in a file of directory from.
Resolve(name, from, disk, memory) ==
  LET exists(d) == <<d, name>> \in memory \cup disk
      paths == { i \in DOMAIN IncludePaths : exists(IncludePaths[i]) }
  IN  IF exists(from) THEN <<from, name>>
      ELSE IF paths # {}
           THEN <<IncludePaths[CHOOSE i \in paths : \A j \in paths : i <= j], name>>
           ELSE <<None, name>>

\* opencachedfile.  A file that does not exist leaves the slot, now free, the next.
Kept(slot) == SelectSeq(handles, LAMBDA h : h # cache[slot])
NextSlot_Past == next + 1                    \* does not start again with the first
NextSlot == (next % Slots) + 1
Opened(path) == \E s \in 1 .. Slots : cache[s] = path
OpenFile ==
  /\ AtCommand("open")
  /\ LET path == Resolve(Cmd.name, call.dir, call.disk, fs)
         there == path \in call.disk \cup fs
     IN  IF Opened(path)
         THEN Done /\ UNCHANGED <<cache, next, handles, errored, errors>>
         ELSE /\ cache' = [cache EXCEPT ![next] = IF there THEN path ELSE NoFile]
              /\ handles' = IF there THEN Append(Kept(next), path) ELSE Kept(next)
              /\ next' = IF there THEN NextSlot ELSE next
              /\ IF there THEN Done /\ UNCHANGED <<errored, errors>>
                 ELSE Raises([pass |-> 2, class |-> "block", what |-> <<calls, at>>])
  /\ Commons /\ UNCHANGED <<rom, shown, prints, warning, names, checksum, fs>>

-----------------------------------------------------------------------------
\* verify_warnings and pull_warnings(false) of finishpass.  An error limit that is
\* reached there skips the rest.
Unpulled == [pass |-> 0, class |-> "null", what |-> <<"unpulled">>]
Restored_Not == enabled                      \* does not pull
Restored == main
NextPass == pass + 1
FinishPass ==
  /\ mode = "commands" /\ at > Len(call.patch)
  /\ IF stack # <<>> THEN Reports(Unpulled) ELSE UNCHANGED <<errored, errors>>
  /\ IF stack # <<>> /\ IsFatal(Unpulled)
     THEN mode' = "caught" /\ UNCHANGED <<stack, enabled, pass>>
     ELSE /\ stack' = <<>> /\ enabled' = Restored /\ pass' = NextPass
          /\ mode' = IF NextPass = 3 THEN "end" ELSE "pass"
  /\ UNCHANGED <<lib, calls, call, at, caller, rom, shown, prints, main, names, checksum, files,
                 optionAt, result, history>>

-----------------------------------------------------------------------------
(* The command line program: one run, which ends the process.                *)

CliStart ==
  \E c \in Runs :
    /\ mode = "idle" /\ ~lib /\ calls = 0 /\ calls' = 1 /\ call' = c /\ mode' = "options"
    /\ caller' = IF c.romExists THEN caller ELSE [NoRom EXCEPT !.sum = "missing"]
    /\ UNCHANGED <<lib, pass, at, rom, report, warning, names, checksum, files, optionAt, result, history>>

Exit(code) == mode' = "exit" /\ result' = code
CliError(what, goesOn) ==      \* reported as an error of pass 0
  LET e == [pass |-> 0, class |-> "null", what |-> <<what>>]
  IN  /\ Reports(e)
      /\ IF IsFatal(e) THEN mode' = "caught" /\ UNCHANGED <<result, optionAt>>
         ELSE goesOn

\* The options, those of a kind in their order; kinds do not see each other.
NextOption == optionAt' = optionAt + 1 /\ UNCHANGED <<mode, result>>
NoError == UNCHANGED <<errored, errors>>
CliDefine(d) ==
  /\ clidefines' = clidefines \cup {d}
  /\ IF d = "invalid" THEN CliError("define_invalid", NextOption)
     ELSE IF d \in clidefines
     THEN CliError("define_override", Exit("1") /\ UNCHANGED optionAt)
     ELSE NextOption /\ NoError
  /\ UNCHANGED <<enabled, checksum>>
CliWarning(w) ==
  /\ enabled' = Settings(<<w>>, enabled)
  /\ IF w[1] = "unknown" THEN CliError("invalid_warning_id", NextOption) ELSE NextOption /\ NoError
  /\ UNCHANGED <<clidefines, checksum>>
CliChecksum ==
  /\ IF call.checksum = "as it is" THEN UNCHANGED checksum
     ELSE force' = TRUE /\ fix' = (call.checksum = "on")
  /\ NextOption /\ NoError /\ UNCHANGED <<clidefines, enabled>>
CliOption ==
  LET n == Len(call.defines)  m == Len(call.warnings)
  IN  /\ mode = "options"
      /\ \/ optionAt \in 1 .. n /\ CliDefine(call.defines[optionAt])
         \/ optionAt \in n + 1 .. n + m /\ CliWarning(call.warnings[optionAt - n])
         \/ optionAt = n + m + 1 /\ CliChecksum
      /\ UNCHANGED <<lib, calls, call, pass, at, caller, rom, shown, prints, stack, main, defines,
                     builtin, labels, files, history>>

\* A ROM that does not exist is created, empty; one with a strange title is refused.
CliOpen ==
  /\ mode = "options" /\ optionAt > Len(call.defines) + Len(call.warnings) + 1
  /\ caller' = IF caller.sum = "missing" /\ call.opens THEN [NoRom EXCEPT !.sum = "stale"] ELSE caller
  /\ given' = enabled /\ UNCHANGED clean
  /\ CASE ~call.opens -> /\ IF caller.sum = "missing"
                           THEN /\ Reports([pass |-> 0, class |-> "fatal", what |-> <<"create_rom_failed">>])
                                /\ mode' = "caught" /\ UNCHANGED <<result, optionAt>>
                           ELSE CliError("open_rom_failed", Exit("1") /\ UNCHANGED optionAt)
                        /\ UNCHANGED <<rom, fs, builtin, clidefines>>
       [] call.opens /\ ~call.title /\ caller'.len > 0 ->
            /\ Exit("1") /\ rom' = caller'
            /\ UNCHANGED <<errored, errors, fs, builtin, clidefines, optionAt>>
       [] OTHER -> /\ rom' = caller' /\ fs' = {} /\ builtin' = TRUE
                   /\ clidefines' = clidefines \cup call.std
                   /\ IF clidefines \cap call.std = {}
                      THEN mode' = "pass" /\ UNCHANGED <<errored, errors, optionAt, result>>
                      ELSE CliError("std_define_override",
                                    mode' = "pass" /\ UNCHANGED <<optionAt, result>>)
  /\ UNCHANGED <<lib, calls, call, pass, at, shown, prints, warning, defines, labels,
                 checksum, cache, next, handles>>

\* closerom: an empty ROM is not written.
Saved(r) == IF r.len = 0 THEN caller ELSE r

\* The end of main: the ROM is saved when there is no error.
CliEnd ==
  /\ mode = "end" /\ ~lib
  /\ LET refused == call.werror /\ shown # <<>>
         fails == errored \/ refused
     IN  /\ errors' = IF refused THEN Append(errors, <<"werror">>) ELSE errors
         /\ rom' = Fixed(rom)
         /\ caller' = IF fails THEN caller ELSE Saved(rom')
         /\ Exit(IF fails THEN "1" ELSE "0")
  /\ fs' = NoSystem /\ UNCHANGED clidefines /\ ResetEverything
  /\ UNCHANGED <<lib, calls, call, pass, at, shown, prints, warning, builtin, optionAt, history>>

\* The handler of errfatal in main.
CliCaught ==
  /\ mode = "caught" /\ Exit("1") /\ UNCHANGED clidefines /\ ResetEverything /\ rom' = NoRom
  /\ fs' = IF fs = NoSystem THEN NoSystem ELSE Dead
  /\ UNCHANGED <<lib, calls, call, pass, at, caller, errors, shown, prints, warning, builtin,
                 optionAt, history>>

-----------------------------------------------------------------------------
Step ==
  \/ StartPass \/ FinishPass
  \/ Fails \/ Warn \/ PrintText \/ WarningsPush \/ WarningsPull \/ WarningsSet
  \/ Define \/ UseDefine \/ Label \/ Writes \/ NoChecksum \/ OpenFile
  \/ AsarPatchEnd \/ CliOption \/ CliOpen \/ CliEnd \/ CliCaught
Next == Step \/ AsarPatch \/ AsarPatchEx \/ AsarReset \/ AsarMath \/ CliStart
Spec == Init /\ [][Next]_vars

-----------------------------------------------------------------------------
(* Properties.                                                               *)

Returned == mode \in {"idle", "exit"}
Succeeded == result \in {"true", "0"}
PatchCall == call.f \in {"asar_patch", "asar_patch_ex", "main"}

TypeOK ==
  /\ mode \in {"idle", "options", "pass", "commands", "end", "caught", "exit"}
  /\ pass \in 0 .. 3 /\ errored \in BOOLEAN /\ fix \in BOOLEAN /\ force \in BOOLEAN
  /\ enabled \subseteq Warnings /\ main \subseteq Warnings /\ next \in 1 .. Slots
  /\ result \in {"none", "true", "false", "0", "1"}
  /\ caller.sum \in {"good", "stale", "missing"}

\* "If there is an error, romdata and romlen will be left unchanged"
\* (asardll.h, asar_patch_end, closerom): the ROM changes at the end of a call that succeeds,
\* and then holds all that the patch has written; the program creates one at most.
WrittenBy(c) == { <<calls, i>> : i \in { j \in DOMAIN c.patch : c.patch[j].c = "write" } }
AllOrNothing ==
  [][caller' # caller =>
       \/ calls' = calls /\ caller'.data = caller.data \cup WrittenBy(call) /\ ~errored
          /\ result' \in {"true", "0"} /\ (lib => caller'.len <= call.buflen)
       \/ ~lib /\ caller'.len = 0]_vars

\* The caller's choice of a checksum holds against the patch's (norom, --fix-checksum);
\* without it the checksum is generated unless the patch has said no.  (closerom does
\* not write an empty ROM.)
ChecksumAsAsked ==
  Returned /\ Succeeded /\ PatchCall /\ call.f # "asar_patch" /\ caller.len > 0 =>
    LET says == call.checksum # "as it is"
        not == \E i \in DOMAIN call.patch : call.patch[i].c = "nochecksum"
    IN  IF says THEN call.checksum = "on" => caller.sum = "good"
        ELSE call.reset /\ ~not => caller.sum = "good"

\* Every pass starts with the warnings that the call has enabled, whatever the
\* patch has pushed, pulled and set in the one before (initstuff, finishpass).
SettingsReturn == mode = "pass" => enabled = given

\* A patch that has no error when it is read by itself: its command k.
Before(c, op, k) == { j \in 1 .. k - 1 : c.patch[j].c = op }
Depth(c, k) == Cardinality(Before(c, "push", k)) - Cardinality(Before(c, "pull", k))
Predefined(c) ==
  ToSet(c.defines) \cup c.std \cup (IF c.f = "asar_patch" THEN Builtins ELSE {"assembler"})
Right(c, k) ==
  LET x == c.patch[k]
  IN  /\ x.c = "pull"  => Depth(c, k) > 0
      /\ x.c = "use"   => x.d \in Predefined(c) \cup { c.patch[j].d : j \in Before(c, "define", k) }
      /\ x.c = "label" => \A j \in Before(c, "label", k) : c.patch[j].l # x.l
      /\ x.c = "open"  => Resolve(x.name, c.dir, c.disk, c.memory) \in c.disk \cup c.memory
Correct(c) ==
  /\ ~SetupFails(c)
  /\ \A k \in DOMAIN c.patch : Right(c, k) /\ (c.patch[k].c = "error" => c.patch[k].in = {})
  /\ Depth(c, Len(c.patch) + 1) = 0
Fits(c) == /\ RomLen <= c.buflen
           /\ \A k \in DOMAIN c.patch : c.patch[k].c = "write" => c.patch[k].to <= c.buflen
Verdict(c) == Correct(c) /\ IF lib THEN Fits(c) ELSE c.opens /\ (c.title \/ ~c.romExists \/ RomLen = 0)

\* Whether a call succeeds depends on its patch and its parameters alone, if it
\* resets; errors that are not shown count (error_interface, asar_patch_end).  What an
\* earlier call leaves all the same: warnings pushed before a fatal error, and for
\* asar_patch the built-in defines.
SucceedsAlone ==
  Returned /\ PatchCall /\ call.reset /\ clean /\ result # "none" =>
    (Succeeded <=> Verdict(call) /\ ~(~lib /\ call.werror /\ shown # <<>>))

=============================================================================
