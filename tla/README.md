# A TLA+ model of Asar

Asar is an assembler that patches SNES ROMs: it reads a patch, finds room for
the new code in an existing ROM, and writes the result into it. This directory
holds TLA+ modules that model its core, TLC configurations that check them on
small instances, and proofs that TLAPS checks. Paths below are those of the
repository; `asar/` stands for `src/src/asar/`.

 1. [The system](#1-the-system)
 2. [What makes it hard](#2-what-makes-it-hard)
 3. [The modules](#3-the-modules)
 4. [The runs, and their bounds](#4-the-runs-and-their-bounds)
 5. [Fairness](#5-fairness)
 6. [What is proved](#6-what-is-proved)
 7. [Disagreements found](#7-disagreements-found)
 8. [What is not modelled](#8-what-is-not-modelled)
 9. [Plan](#9-plan)
10. [How to run it](#10-how-to-run-it)

## 1. The system

Asar is one thread. Its concurrency is that of passes and of patches: state that
one pass leaves to the next, state that one patch leaves in the ROM for the
next, and, in the library, state that one call leaves in the process.

| Component | State | Operations | Correct when |
|---|---|---|---|
| Three-pass assembly (`assembleblock.cpp`, `main.cpp`) | `pass`, `snespos`, `startpos`, `realsnespos`, `realstartpos`, the label table, `freespaceid*`, `freespacelen[]`, `freespacepos[]`, the stack of `pushpc` | a command of the patch; `initstuff` and `finishpass` around a pass | the passes agree: what pass 0 measures is enough, operands name where labels really are, no byte is outside of its block |
| Freespace finder and RATS tags (`libsmw.cpp`) | the ROM's content and length | `getpcfreespace`, `trypcfreespace`, `ratsstart`, `resizerats`, `removerats`, ROM expansion | blocks are free, apart, in one bank, inside the ROM; the search ends; nothing leaks |
| Written-block list (`libsmw.cpp`) | `writtenblocks` | `addromwrite`, `addromwriteforbank`, `findromwritepos` | it names exactly the bytes written, sorted, merged, bank by bank |
| Address mapping (`libsmw.h`, `assembleblock.cpp` 87) | the mapper, the SA-1 banks | `snestopc`, `pctosnes`, `fixsnespos` | bytes that cross a bank stay in order |
| Positions and settings (`assembleblock.cpp`) | the positions, the stacks of `pushpc`, `pushbase`, `pushtable`, over thirty settings | `org`, `base`, `skip`, `fill`, `pad`, `incbin`, pushes and pulls, `check bankcross`, `optimize`, ... | each pass meets the same positions and settings, pulls bring back what was pushed |
| Labels and namespaces (`assembleblock.cpp`) | `ns`, `namespace_list`, `pushns`, `sublabels`, +/- counters | `namespace`, `pushns`, `pullns`, definitions, references | a name is the same in each pass, a reference finds the label it is written for |
| Conditionals and loops (`assembleblock.cpp`, `main.cpp`) | `numif`, `numtrue`, `elsestatus`, `whilestatus`, `fakeendif`, `moreonlinecond`, `single_line_for_tracker` | `if`, `elseif`, `else`, `while`, `for`, `assert`, the ends, `rep` | a command runs when all the conditions around it hold |
| Macros, defines (`macro.cpp`, `main.cpp`) | the tables, `macrorecursion`, label scopes | definition, call, substitution | recursion is bounded, scopes are apart |
| Structs, SPC blocks (`assembleblock.cpp`) | the struct and the position put aside; the block and where its length goes | `struct`, `endstruct`, `spcblock`, `endspcblock`, `startpos` | position restored, length right |
| Math (`asar_math.cpp`) | `math_pri`, `math_round`, the functions of the patch | expressions, `function`, `math`, `asar` | documented precedence and values |
| Warnings and errors (`warnings.cpp`, `errors.cpp`) | enabled set, its stack, counters | `warnings push/pull/enable/disable`; errors of four classes | pulls restore; an error fails the patch |
| Library interface (`interface-lib.cpp`) | everything above, between calls | `asar_patch`, `asar_patch_ex`, `asar_reset`, `asar_math` | a patch does not depend on those before, the ROM changes on success only |
| Command line interface (`interface-cli.cpp`) | the same, for one patch | options, the ROM's opening and saving | as the library |
| Virtual files, file cache (`virtualfile.cpp`, `asar_math.cpp`) | memory files, include paths, open files, include-once list | open, read, close | a name means the same file, slots are reused |
| Checksum (`libsmw.cpp`) | whether to fix it, and who has said so | `goodchecksum`, `fixchecksum` | as asked for |
| Instruction encoders (`arch-*.cpp`) | none | opcode tables | — |
| Address-to-line map, symbol files, containers, console, platform, bindings | — | — | — |

**How they interact.** `main` or `asar_patch_main` loops over three passes; each
calls `initstuff`, `assemblefile` and `finishpass`. A command reaches
`assembleblock`; one that writes calls `write1_65816`, which calls
`verifysnespos`, in pass 2 `writeromdata_byte`, and `step`; `writeromdata` calls
`addromwrite`. A `freespace` command ends the freespace before
(`freespaceend`), takes an id (`getfreespaceid`) and, in pass 1, calls
`getpcfreespace`, in pass 2 `resizerats`. `getlen` measures a reference; it
reads the label table and, as a side effect, adds to `freespaceextra`.
`checkbankcross` runs after every command.

A line goes through `assemblefile` or `callmacro` to `assembleline`, which cuts
it into blocks, and each block to `assembleblock`: conditionals act on the
counters that all three read. `if`, `db`, `org` and most other commands reach
`math`, which may call functions of the patch. Errors are exceptions of four
classes, caught at the block, the line, or the end of the patch
(`asar_patch_main`, `main`); what a class does not restore stays as it is.

## 2. What makes it hard

The hazards are listed, at their lines, in `PROJECT.json`. They are mostly of
these kinds.

* *Prediction.* Pass 0 predicts how long every freespace is before it has seen
  all labels. A reference may be two or three bytes long; its length depends on
  where its label turns out to be. Pass 1 allocates on the prediction; pass 2
  resizes blocks in place and never looks at what follows them.
* *State between passes and patches.* Only labels, lengths and positions pass
  from one pass to the next; a few static variables also pass, unintentionally,
  from one patch to the next.
* *Content as metadata.* The finder tells free space by its content. Between
  pass 1 and pass 2 a block is free space with a tag in front.
* *Saved positions.* `pushpc`, `base`, `org` and `freespace` take the position
  away from each other in any order, and the length of a freespace is measured
  by whoever takes it away.
* *Borders.* Banks, megabytes, the end of the ROM, the last bank.
* *Counters for stacks.* Conditionals are two counters, inline ifs another, loops
  a tracker; files, macros and errors leave them in the middle.
* *Names made of counts.* +/- labels and the labels of macros are numbered as
  they are met, by definitions and references in turn, three times over.
* *One evaluation in another.* `math` evaluates twice, and calls by substitution
  of text.

## 3. The modules

### `Passes`

The three passes over one program, as a state machine whose every step is a
command. Variables have the names of the C++ globals. Addresses are offsets in the ROM;
the freespace id that the code keeps in the top byte of `snespos` is the field
`fs` of a position (-1 for `0xFFFFFFFF`). `blocks`, `written`, `operands` and
`placed` record what the patch has put in the ROM: they are the ROM, seen
through what the properties ask. A program is a sequence of commands; the ones
modelled are

| Command | Action | Code |
|---|---|---|
| `org`, `base`, `base off` | `Org`, `Base`, `BaseOff` | `assembleblock.cpp`, 1628, 1869 |
| `db` | `Db` | `write1_65816`, 149 |
| an instruction with a label for its operand | `Instr`, `InstrUnknown` | `getlen`, `main.cpp` 240; `labelval`, 496 |
| a label | `Label` | `setlabel`, 557 |
| `freespace`, `freecode`, `freedata` | `FreespaceMeasure` (pass 0), `FreespaceAllocate` (1), `FreespaceResize` (2), `FreespaceFull`, `FreespaceLimit` | 1957 |
| `pushpc`, `pullpc` | `PushPc`, `PullPc`, `PullPcEmpty` | 2167 |
| end of the file | `FinishPass`, with the next pass's `initstuff` | 791, 699 |

`Proceed` ends every command that went through: `checkbankcross` decides
between the next command and a fatal error. `BlockError` is `error(2, ...)` and `error(1, ...)`: the
rest of the block is skipped. `Fatal` is `error(0, ...)`.

The freespace finder is, in this module, what the next one is to provide: any block of
the length asked for whose extent is free (`Candidates`). The constant `Slack`
is what a reference to an unknown label adds to `freespaceextra`: `getlenforlabel`
adds one at each call, and an instruction makes one call or two, depending on
the `optimize` settings.

### `Freespace`

The finder at the level of its loop: `trypcfreespace` is one action per turn
(`RoundToBank`, `SkipTagged`, `SkipUsed`, `Take`, `RangeExhausted`), and
`getpcfreespace` the list of ranges (`RangesOf`, one operator per mapper) with
`Expand` and `NothingFound`. The ROM is a function on the bytes that are not
free; a tag is `TagSize` bytes of it, so that it can be overwritten in part, as in
the ROM. What happens to a block later is there too: `WriteBlock` (pass 2:
`resizerats` and the content), `Autoclean` (`removerats` in a later patch),
`BeginPass2` and `NextPatch`.

### `WrittenBlocks`

`addromwrite`, which cuts a write into banks, `addromwriteforbank`, which merges a
piece with its neighbours in the list, and `findromwritepos`, the bisection: one
action per turn of each loop. `dirty` is the set of bytes written, the abstract
list. The mapper is LoROM or HiROM by the constants.

### `Lines` and `Conditionals`

`Lines` is the path of a line: frames are the files and macros that are being
assembled, a frame has a line and a block of it. `BeginLine`, one action per
command (`IfWhile`, `Elseif`, `Else`, `For`, `End`, `AssertThat`, `Rep`, `Call`,
`Incsrc`, `Includeonce`, `Op` for any other), `EndLine`, `EndFile`, `EndMacro`
are the functions of `assembleblock.cpp`, `main.cpp` and `macro.cpp` of that
name. `numif`, `numtrue`, `elsestatus`, `whilestatus`, `fakeendif`, `tracker`
(`single_line_for_tracker`), `moreonlinecond` and `repeatnext` are the globals.
A condition is its value; that of a `while` is chosen when it is evaluated.

`Conditionals` is what they implement: a stack, whose elements are on, looking
for a true branch, or done with it, and a command that runs if all are on.
`Lines` implements it by the refinement mapping `StackOf`, which makes the stack
of the two counters and the two arrays, up to the first error. What a patch may not do
for that to hold is `Orderly`.

### `Session`

The process that applies patches: `AsarPatch`, `AsarPatchEx`, `AsarReset`,
`AsarMath` and `AsarPatchEnd` are the library's calls, `CliStart` to `CliEnd`
the program. A patch is a sequence of the commands that touch what outlives it:
errors of each class (raised in some of the passes, meant for one), warnings,
`print`, `warnings push/pull/enable`, defines, labels, writes, `norom`, files.
`Resolve` is the search for a file's name. `errored`, the list of errors, the
stack of warnings, define tables, the cache of files and the pointer to the file
system are the process's variables.

### `Names`

What a definition is called and what a reference finds: sublabels, +/- labels,
macro calls, namespaces, structs. A name is a path of words, or a count. The patch is
made up in pass 0 and read again in passes 1 and 2; `names` and `first` remember what
each command has defined, `found` what each reference has found.

### `Mapper` and `Positions`

`Mapper` has `snestopc`, `pctosnes` and `fixsnespos` for the eight mappers, as
operators on 24-bit addresses. `Positions` has the commands that move, save or
restore a position, that write, and that set anything initstuff resets, with
`checkbankcross` after each of them (`Done`) and `step` after each byte
(`Stepped`). Freespaces are in `Passes`. `set` has the settings in one record,
`pos` the four positions, `rom` the bytes of pass 2 and the commands they are of.

### `Math`

The evaluator, as recursive operators (`Eval`, `Rest`, `GetNum`, `NumCore`,
`Called`) on a sequence of items, with fractions for doubles, and the commands
that set its order, its rounding and its functions. An argument is put into the
body of a function as text (`Substituted`). `Means`, which the properties
compare it with, is defined from the other end, by the operator that is applied
last. The module has recursive operators, so nothing is proved about it. Its
powers are of natural numbers; 64-bit words are 16 bits wide.

### The `Proofs` and the `MC` modules

`PassesProofs`, `FreespaceProofs`, `WrittenBlocksProofs`, `LinesProofs`, `SessionProofs`,
`NamesProofs`, `PositionsProofs` and `MapperProofs` have the theorems about the module of that name. The `MC` modules have
the sets of programs, of ROMs and of calls that TLC is given. `MCLines` makes patches from trees, whose text `Lines`
assembles and whose meaning `WritesWhatItSays` compares with what is written.

Definitions whose comment begins with "Mutant" are plausible mistakes in the
definition that follows. Nothing refers to them: they are there to see that a
property fails when one takes the place of the definition it is a mutant of
(`PROJECT.json`, "mutants").

## 4. The runs, and their bounds

| Run | Checks | Bounds |
|---|---|---|
| `passes` | `TypeOK`, `MeasuresOwnFreespace`, `BlocksDisjoint`, `BytesProtected`, `OperandsResolve`, `LengthsSettle`, `LabelsStay` | every program of a `freespace` and up to five more commands: freespaces, two labels, references to them, `pushpc`, `pullpc`; also bases that are closed in their freespace, and +/- labels used in it; code outside of freespaces around the ends of 32-byte banks. Two freespaces at most, so that the limit is met |
| `passes_open_base` | `BytesProtected` is violated | a base still on at the end of a freespace |
| `freespace` | `TypeOK`, `DisjointUnlessJumped`, `ProtectedUnlessJumped`, `NoLeakUnlessJumped`, `ContentInOneBank`, `SearchEnds` | six mappers, four ROM lengths, several patterns of use, three requests of three sizes, zero included, over three patches, with cleaning |
| `freespace_overlap` | `OwnedDisjoint` is violated | three requests of different sizes |
| `written_blocks` | `TypeOK`, `SortedApart`, `InOneBank`, `BlocksAreTheWrites`, `WriteReturns` | HiROM with banks of 4 bytes, every write to any part of a 9-byte ROM, any number of writes |
| `lines` | `TypeOK`, `WritesWhatItSays`, `RefinesConditionals`, `Terminates` | patches of three levels of conditionals, loops, macros, files and inline forms; any three or four lines of a dozen; then one of two patches that would show what is left over |
| `lines_stale` | `WritesWhatItSays` is violated | the same after a patch that has ended in a fatal error |
| `session` | `TypeOK`, `ChecksumAsAsked`, `SettingsReturn`, `SucceedsAlone`, `AllOrNothing` | two calls, each one of some 150, of twenty patches of up to five commands; two warnings, two slots for files; some 280 command lines |
| `names` | `TypeOK`, `SameNameInEveryPass`, `RelativeNearest`, `MacroLabelsStay`, `NamespaceIsItsList` | every patch of five commands of one of six kinds, of seven for calls alone |
| `positions` | `TypeOK`, `SameInEveryPass`, `BytesInOrder`, `SpcBlockWhole`, `PullsWhatWasPushed` | every patch of three to five commands of one kind, in all mappers, at the border of a bank, of its half, and where addresses end; two patches for what the stacks leave |
| `math` | `TypeOK`, `EvaluatesInOrder`, `CallsByValue` | every expression of two operators, of three from left to right and by priority, prefixes, parentheses, all the built-in functions of numbers, functions of two parameters |
| `math_call` | `CallsByValue` is violated | a parameter that is also the letters of a number |

*Why the bounds are enough.* The passes interact through two freespaces at most
(a reference and its label, or the freespace left and the one entered), and through one
level of `pushpc` around each; five commands hold two references, two labels and
a change of freespace, in every order. The finder's decisions depend on where start is
relative to a tag, a used byte, a bank's end and the range's end, and banks of
eight bytes with tags of two have all combinations; a block that is cleaned, taken
again and written needs three patches. The block
list's merging looks at two neighbours; nine bytes in three banks leave room
for a preceding, a succeeding and a distant block, and the run is not bounded in
the number of writes. `RomLens` goes over the lengths where the finder's
conditions change (`$80000` is 8, `$100000` is 16).
`numif`, `numtrue` and `elsestatus` are compared for being equal or one
apart, which three levels show in all ways. A name depends on the last label of each
level, the last `+` or `-`, the calls around it and the namespaces pushed; five
commands hold a push, a change, a pull and a label. The addresses of `Mapper` are
the real ones; the commands of `positions` put bytes on both sides of a bank's border
and of its half. An operator looks at the operators next to it only.

*What the properties leave out.* Two blocks may overlap in this code
(`freespace_overlap`). `jumped` remembers whether a search has ever come to look
inside of a block that was handed out. A search passes a block by its tag, and so
comes to be inside only where it arrives by another way: where a range begins, where
it rounds to a bank's end, and where it aligns. Disjointness, protection and the absence of leaks
hold for as long as it has not, over all mappers; they are the properties of the run.
Requests with `align` are left out of it, and so are, of `NoLeakUnlessJumped`, ExLoROM and the
tags that `ratsstart` does not see, and of `ContentInOneBank`, contents as long as a bank less
a tag, for the reasons in section 7.
`passes` leaves out the kinds of program that are in section 7, and so do the other runs:
`NamespaceIsItsList` and `SpcBlockWhole` name the patches they are not about,
`PullsWhatWasPushed` and `SameInEveryPass` are about a patch that has found the
stacks empty, `SucceedsAlone` about a call with `reset` that says whether it has the built-in defines,
`ChecksumAsAsked` about a ROM that is not empty, `BytesInOrder` about bytes before the addresses turn back (`TurnsBack`), `lines` nothing behind the `endif` of a false
inline `if`. `written_blocks` leaves the last byte of the last bank alone.

## 5. Fairness

Asar is sequential: whatever loop is entered goes on turning until it is left or
the process ends. `Freespace` has weak fairness of `Turn`, the finder's own
steps, `WrittenBlocks` of the steps of `addromwrite`, `Lines` of `Step`, the
steps of a patch that has begun, and `Passes` of `Next`. Nothing
is assumed of the callers: no request, write or patch has to come. That the
`while` loops of a patch end is up to the patch: `WhileFuel` makes it so.
Deadlock is not an error in any run, because a patch ends, the
bound on patches is reached (`Freespace`, `Lines`, `Session`), or, in
`WrittenBlocks`, the caller is not obliged to go on.

## 6. What is proved

`PassesProofs`, for every set of programs, every pool, every number of
freespaces up to 125, every positive slack and every state the statics may be left in
(from `PassesAssumption` only):

* `TypeCorrect`: `Spec => []TypeOK`. The part that is not bookkeeping is that
  no id beyond the arrays is ever used (`TakeIdType`).
* `MeasuresOwn`: `Spec => []MeasuresOwnFreespace`. Inside a freespace, the position,
  `freespaceid` and `freespacestart` speak of the same freespace. This is not
  inductive: `pullpc` restores these variables from the stack and `base off` restores the
  position from `realsnespos`, so that `OwnInv` says the same of those, and
  also that `freespacepos[i]`, from which pass 2 restarts, is unset or in freespace `i`.
* `OperandsCorrect`: with `StaleMoving = {FALSE}`, `Spec => []OperandsResolve`:
  in an assembly without errors, each operand is the address of the place where its
  label ended up. `OperandsInv` says why: pass 2 does not change the
  label table, it writes operands from the table, and a label that is not where
  the table says is an error, unless `movinglabelspossible`, which is only set
  together with an error. The assumption on `StaleMoving` is needed:
  section 7 says what happens without it.

* `LengthsDoSettle`, `LabelsDoStay`, `BlocksStayDisjoint`, `BytesAreProtected`: of a program
  that is `Ordinary`, `LengthsSettle`, `LabelsStay`, `BlocksDisjoint` and (where
  nothing else is written into the free area, `FreeAreaFree`) `BytesProtected`.

`Ordinary` is a condition on what the program does, and each of its three parts is
needed: a base is turned off before its freespace ends (or `passes_open_base`), a +/-
label that is used in a freespace is in the same one (section 7), and code under a
base refers to labels under a base only in its own bank. TLC finds that all
programs of the run `passes` keep to it. `FreeAreaFree` is needed as well: the
finder answers in pass 1, what an `org` writes there is written in pass 2.

The argument is a prediction. `After` is what a command does to a position as far as lengths go: a frame
says which freespace the position is in, how many bytes after its start, and how much
`freespaceextra` there is; a point is a frame, the stack of `pushpc`, the next id, the lengths that
have been filed and the freespaces of the labels. Two courses of points
follow from the program alone: `First`, of pass 0, and `Second`, of pass 1 and of pass 2 alike,
which begins with the labels `First` ends with. About these, by
induction over the commands (`Induction`, which is induction over a set of naturals, from the
well-foundedness of `<`; the library's own takes an operator):

* points are sound (`AfterSound`): a freespace is being measured in one place,
  the position or an entry of the stack, or it has been measured;
* what is known stays known (`AfterLater`), the two courses go through the same freespaces
  (`AfterAlike`), and a label has one definition and is where the end of `First` says (`Definitions`);
* no freespace is longer in `Second` than in `First` (`AfterCovers`): an operand that grows from
  two bytes to three was given slack (`OperandCovered`; this is where `Slack > 0` is used).

The invariant `PlanInv` says that the machine is where the course of its pass says (`OnCourse`,
`AtHome`, `LabelsKnown`), that `freespacelen` holds the lengths of this pass or of the one before
(`Measured`), that labels of freespaces are where `Second` says (`LabelsPlaced`), that `Second` is no longer
(`Enough`), that each freespace has a block with room for it, its own and apart from the others
(`BlocksHeld`, `BlocksApart`), and that every byte written is counted
(`BytesCounted`). There is a lemma for each of these parts (`CourseKept`, `MeasuredKept`, ...,
`BytesKept`) and one for the ends of passes (`PlanEnds`). A resize touches the block of its own freespace only, since
blocks do not overlap and the address for zero bytes is in none (`ZeroPos \notin Pool`:
$1234 is below $80000, where the finder begins; `libsmw.cpp`, 247, 261, 329).

`FreespaceProofs`, for every size of bank and tag, every ROM and every pattern of use, every
size of request, any number of requests and patches, and all seven mappers (from
`FreespaceAssumption`: banks are whole tags, a megabyte is whole banks, ROMs are
shorter than the buffer by a bank). All of it follows from `Inv`:

* `BlocksApart`, `BlocksProtected`, `NoTagLeaks`: `DisjointUnlessJumped`,
  `ProtectedUnlessJumped` and `NoLeakUnlessJumped`. Blocks are known by their tags, and
  so the invariant (`SafeInv`) is about tags: what two tags announce does not overlap
  (`Apart`), the tag of a block is where it was put, with its length (`Guards`), and
  each tag belongs to a block. The search keeps it since it is never inside of what a tag announces
  (`SkipsOutside`), and tags that are written, shortened or cleared disturb no other
  (`WithTagTags`, `WrittenTags`, `ClearedTags`). `RatsStartOwn` is the other half:
  asked for a block's content, `ratsstart` finds the tag of that block. It needs to know that in LoROM
  and SA-1 ROMs no tag is below the first half megabyte (`SearchFloor`, `TagFloor`).
* `OneBank`: `ContentInOneBank`, jumped or not. `BankInv` remembers of a block that
  its content begins in the first `TagSize` bytes of its bank or ends in it.
* `TypeCorrect`: `TypeOK`, by way of `Room`: no search, write or resize leaves the
  buffer. It assumes that no aligned block is asked for, because an alignment moves
  the position after it was compared with the end (section 7).

`WrittenBlocksProofs`, for every mapping of banks that `WrittenBlocksAssumption` allows
and every ROM with `RomLen < RomMax`, that is, one that is not written to the last byte
of the last bank (section 7 says why):

* `TypeCorrect`, `StaysSortedApart` and `StaysInOneBank`: `Spec => []TypeOK`,
  `Spec => []SortedApart` and `Spec => []InOneBank`. The invariant, `WInv`, has a part for
  each loop: what is left of the write has the SNES address of its ROM offset
  (`RestInv`), the bisection keeps what is below the piece below (`FindInv`), and
  after the first merge everything below the insertion point is clear of the
  piece (`MergeInv`). That `SplitBank` computes the right length is arithmetic
  (`WriteAddresses`), and so is that two blocks of different banks are apart
  (`BanksApart`).
* `ListIsTheWrites`: `BlocksAreTheWrites`. In the middle of a write the list is short of
  the piece and of the rest of the write, so that the invariant (`WrittenInv`) adds them. It needs
  that SNES addresses and ROM offsets are equally far apart within a bank
  (`BankOffsets`), for the blocks of the list are compared in one and answered in the other.

`LinesProofs`, for every set of patches, with any files and macros, of any length and depth,
any number of patches:

* `CountersAreAStack`: `Spec /\ []Orderly => RefinesConditionals`, the refinement of
  `Conditionals`. `SoundStep` maps each action to a step of the stack: it opens, closes
  or changes the innermost element (`PushStep`, `PopStep`, `SwitchStep`), meets a command, or leaves
  the stack alone. The invariant, `IInv`, has what the two counters do not say by themselves: a
  conditional that is on has had its branch (`Counters`); the inline conditionals that the end of
  the line is to close are open, and behind a false one only the last block of its line can make the
  conditionals true again (`Row`); a macro or a file was entered where all was on, and gives
  back the flags of that line (`Framed`).
* `CountersKeepRange`: without an error, `numtrue <= numif`, and `numif` is 0 between passes.
* `CallsStayLimited`, with errors too and without `Orderly`: files and macros are never nested deeper than
  `Limit`, and `recursioncount` is the number of lines under way and of earlier patches that a
  `recurseblock` has ended: its constructor counts before it throws, and then nothing takes the count
  back, so that later patches of the process are nearer to the limit by one. The invariant (`CallsInv`) has
  that every frame but the last is on a line (`Layered`), so that the lines under way can be read off
  the length of the list (`LinesOfFrames`); each action keeps their difference from the count, or adds one as
  it ends the patch (`Counts`). TLC has found it true in all states of `lines` and `lines_stale`.

`Orderly` is assumed because the code does not see to it: that a patch begins with no conditional open
(`lines_stale` is what happens otherwise), that no `elseif` is in a `for` loop, that an
`endif` or `endwhile` behind a false inline condition ends its line, and that an included file
does not end in an inline `if` (section 7 has these). `MaxLevel` bounds the depth, and may
be any number. All patches of the run `lines` are orderly: TLC finds `Orderly` true as an invariant of it.

`SessionProofs`, for every set of calls and patches, any number of calls:

* `TypeCorrect`; `RomAllOrNothing` (`AllOrNothing`): a failed call gives back the
  caller's ROM. The invariant says what the ROM is at each command of pass 2 (`RomInv`).
* `SettingsCorrect` (`SettingsReturn`), `ChecksumCorrect` (`ChecksumAsAsked`), with what
  each option and command has decided so far (`SettingsInv`, `SumInv`).
* `ResultIsItsOwn` (`SucceedsAlone`): whether a call succeeds, and its defines, labels and
  messages, are determined by the call alone, whatever the calls before it have left
  behind. `AloneInv` relates the state at each command to what a function of the
  call (`Verdict`) says of the commands up to there, in each pass.

`NamesProofs`, for every patch and every depth of names:

* `TypeCorrect`; `NamespaceCorrect` (`NamespaceIsItsList`): the namespace that names are made with
  is its list, as long as a `pushns` after a `pullns` has not reused a slot (`Calm`).
* `SameNames` (`SameNameInEveryPass`): without errors, each definition has the same name in all
  passes. The counters, scopes, macros and namespaces are not the same functions of the
  text in an obvious way; `SameInv` says that there is one run of readings, each led to the
  next by its command (`After`), that all three passes follow.
* `RelativeNearestHolds` (`RelativeNearest`) and `MacroLabelsHold` (`MacroLabelsStay`): without errors,
  a reference to a +/- label finds the nearest one, in its call, and a reference to
  a label of a macro finds one of its own call.

The last two are about the whole path between a reference and its label, and about text that is turned
back into what it was made of. As long as there is no error, the run of a patch is unique (`RunsAgree`), and along it
(`RunAt`, by induction over the commands) the open calls are those that `CallsAround` reads off the
patch, their numbers increase from outside to inside and are not used again (`MacroAt`), counts grow
with each definition, and scopes and namespaces begin with words that users may write (`ScopeAt`,
`PlainSpace`, `PlainOpen`). From a name's words its kind, its depth, its count and its call can be told
(`TagOne`, `SignOne`). The state invariants say that what has been found was defined under the very name that was
asked for (`LegalInv`, `LabelInv`, `RefInv`); so the label found has the kind, call and
count of the reference, and is the nearest. `NamesAssumption` is what it takes: numbers are written with different words (`Digit`), and
no user's name contains the words of `Reserved`, which a colon keeps out of them (section 7
has where it does not).

`PositionsProofs`, for every set of commands, any number of patches, every file, ROM and mapper
(from `PositionsAssumption`):

* `SamePositions` (`SameInEveryPass`): the positions and settings before each command are those that pass 0
  had there. The position after a command depends on the stacks, on `spc` and, where the ROM ends a write, on
  the pass, so that the invariant (`Inv`) says more than that: each command is a function (`Result`) of the
  positions and settings before it and, for a pull, of those before the push it is paired with. What
  is on the three stacks is what the pushes that are still open have saved (`Stack`), and `spc` is
  what the commands since the last `spcblock` make of it (`BlockInv`).
* `PullsCorrect` (`PullsWhatWasPushed`): without errors each pull has a push, and brings back its
  position, base or table. It is the same invariant at the end of pass 2.
* `TypeCorrect` (`TypeOK`), also of a patch with errors.
* `WritesInOrder` (`BytesInOrder`): without errors the bytes of a command lie in the ROM in their order, in
  every mapper, with banks checked in full, by halves or not at all, unless the addresses turn back.
* `BlocksWhole` (`SpcBlockWhole`): without errors the bytes of a `spcblock` follow its header one by one, as
  many as its length says.

These three are about the bytes of one write, whose number is not bounded. `Walk` makes them by a recursive function,
and `Induction` gives what its n-th turn has done (`WalkNext`): positions that keep their
types (`WalkType`), that go on side by side where banks are checked (`WalkChecked`), and that stay in the same half of a
bank and level with each other where they are not (`WalkStays`). Where banks are checked, the error that
`checkbankcross` did not raise after the command is what keeps all of its bytes in one bank (`CheckedParts`), and
the bytes of a bank lie side by side in the ROM (`BankBytes` of `MapperProofs`). Where they
are not, each byte is followed by a later one (`StepGoesForward`).

`ValueInv` has the types, and `CheckedInv` that the position before each command has passed `checkbankcross`.
About the commands there is one fact (`Form`, `CommandForm`): a command that ends without an error leaves settled positions, and has put
into the ROM nothing, or the bytes of one write from the position on, or those of an `incbin` with a target
(`Puts`). `OrderInv` says of the ROM so far what `BytesInOrder` says of it at the end.
For blocks, `OpenInv` says that the bytes since the header of the block that is open are the last of the ROM, one
after another, and that both positions are as far from its beginning as there are bytes; `ClosedInv` that a block that has
been closed is one piece. TLC has found all of these invariants true in all states of the run `positions`.
What a patch may contain is what the commands read (`IsCommand`): addresses and lengths are not negative,
a mapper is one of `Selectable`.

`MapperProofs`, by arithmetic alone:

* `RomAddress`: for each mapper that a command can select, with any megabytes in the slots of SA-1, and
  each byte of the ROM, `snestopc` takes the address that `pctosnes` gives to the same byte
  (`LedBackTo` has the exceptions, which are in section 7). Each mapper has a lemma of its
  own; they share that a byte has one half bank and one place in it (`HalfBanks`).

The lemmas from `BankBytes` on are about `fixsnespos`, again one for each mapper (`NextLoRom`, `NextHiRom`, ...);
`PositionsProofs` puts them together (`StepGoesForward`).

*Model-checked only.* Liveness (`SearchEnds`, `WriteReturns`, `Terminates`) is out of TLAPS's
reach. `Math` has recursive operators, and no theorem. `WritesWhatItSays` compares with a
recursive definition of meaning. `TypeOK` of `Lines` is true of the patches of the run, but not of all: an
inline `if` on the last line of an included file makes `numif` -1 in the line that includes it, and depths have no
bound but the length of the text. What of it is true of every patch is proved (`CountersKeepRange`, under `Orderly`,
and `CallsStayLimited`).

## 7. Disagreements found

Each of these is a run that TLC ends with a counterexample; `PROJECT.json` quotes the
text of the repository that says otherwise.

* `passes_open_base`: a freespace that ends while `base` is on is not measured, is
  allocated zero bytes, and goes to `$1234` without a tag (`assembleblock.cpp`, 682).
* `freespace_overlap`: rounding to the end of a bank puts the search inside a block
  whose content is not written yet (`libsmw.cpp`, 198).
* `lines_stale`: a fatal error in a condition leaves `numif` one above `numtrue` for
  the rest of the process: every later `asar_patch` succeeds and writes nothing
  (`assembleblock.cpp`, 1100).
* `math_call`: with `function f(a) = $1a+a`, `f(5)` is `$15+5` (`asar_math.cpp`, 688).
  The last letter of an earlier parameter's name is taken for a parameter too: with
  `function f(xa,a) = xa`, `f(3,4)` is 34 (`Tails` in `MCMath`).

The same models show these with other constants. They are not runs of their own, and
are the reason for the choice of constants and conditions in the passing ones. Most
of them have been seen in the program as well.

*Passes.* A reference to a +/- label of another freespace is measured as two
bytes in pass 0 without any slack, and is three bytes later: the freespace is
allocated too short (`LengthsSettle`; `main.cpp`, 252). `movinglabelspossible`
is never reset, so that a later patch in the same process may succeed with wrong
operands (`OperandsResolve` with `StaleMoving = {TRUE}`; `assembleblock.cpp`, 42).
A label outside of freespaces, at a bank's end, may stop a legal program
with `label_moving`, which the code calls an internal error (593).

*Freespace.* With `Aligns = {TRUE}`, a block asked for when only the last bank of the ROM is
free is put after its end (`libsmw.cpp`, 203), and in HiROM
the search may not end when a byte in the last eight of a bank is in use
(`SearchEnds`; 217). ExLoROM's `freecode` tags two blocks and forgets the first
one (309). A tag that is anywhere in the last eight bytes of a bank is taken for one that
ends with it, so that a content within a tag's length of a whole bank may cross the
border (192).

*Written blocks.* A write to the last byte of bank `$FF` puts a block at -1 in
the list, in place of what was written (`BlocksAreTheWrites` with LoROM to the
last bank; `libsmw.cpp`, 98).

*Lines.* What follows the `endif` of a false inline `if` on its line is left out
(`assembleblock.cpp`, 996; the manual, 1750, has them on one line). An inline `if` without `endif` whose
command includes a file ends in an unclosed `if` (`main.cpp`, 577); an included file whose last
line is an inline `if` without an end of line leaves it to the line that included it, whose rest is
skipped. `elseif` is refused in a `while` loop but not in a `for` loop, of which it ends the turn
(`assembleblock.cpp`, 1240). A loop that ends on the line of another end (`endwhile : endif`) is not
repeated, and a later `if` goes back to it (`main.cpp`, 727). `inmacro`
stays set after a fatal error in a macro. The manual (2431) has 512 for the
nesting of macros; `recurseblock` allows 250 calls (`asar.h`, 64).

*Session.* `warnpc` raises its error as one of pass 0 and meets it in pass 1: the
call fails with an empty list of errors (`interface-lib.cpp`, 106). `asar_patch`
has the built-in defines only after an `asar_patch_ex`; the changelog (187) has
them always. A fatal error after `warnings push` leaves the stack of warnings as
it is, and the next correct patch fails (`warnings.cpp`, 263). `asar_patch`
leaves files of the cache open (`interface-lib.cpp`, 430 is the other call), and
`asar_patch_ex` leaves its file system in place when it returns early (395).

*Names.* After a pull, a second `pushns` appends to the list its slot has kept
(`assembleblock.cpp`, 2218): a nested namespace is then `a_a_b`. A sublabel
is found from another namespace. A colon keeps generated names apart from those of users
(`assembleblock.cpp`, 812), but is looked for before `?` and `#` are taken off: in a
macro, `?+` finds a label `?pos_1_0:`, and `#:macro_1_y:` is what `?y` of the first call finds.
`NamesAssumption` leaves such names out.

*Positions.* SuperFX with `check bankcross off` writes each byte to `$008000`
(`BytesInOrder` without the SuperFX case of `TurnsBack`; `assembleblock.cpp`, 130). With banks unchecked, what is written past the end of the
addresses goes on at lower bytes of the ROM: in HiROM and ExHiROM after `$3FFFFF` and `$BFFFFF`, from which `fixsnespos` goes
to the upper half of banks `$40` and `$C0`; in SA-1 at the end of a megabyte, if the next slot has a lower one;
after `$FFFFFF` in any mapper. In full SA-1 a displayed position at the last byte of the ROM has no
next one, and `verifysnespos` then sets both positions to `$008000`. In the banks of LoROM and ExLoROM whose low half
shows the high one, a write that crosses the middle of the bank goes on at the beginning of the same 32 kilobytes,
without an error unless halves are checked (`LowMirror`). A `spcblock` in a `spcblock` is not
refused, and a base, a `pushpc` or a step with banks unchecked make its length wrong
(`SpcBlockWhole` without its conditions; 1828). The stacks of bases and tables outlive the patch. A
missing `endspcblock` ends the patch at the end of pass 0. `pctosnes` gives addresses to the
bytes of an ExLoROM ROM from `$780000` on and of an ExHiROM ROM from `$7E0000` on that `snestopc` does
not take, because they are in the banks of RAM, and takes the bytes of an SA-1 ROM above
eight megabytes for those below (`libsmw.h`, 143, 160 and 167; `RomAddress`).

*Math.* From left to right, an expression that has a value is an error when it has none by priority, which
is evaluated for a warning only (`1<<2-3`; `asar_math.cpp`, 1017). `canread(pos,num)`
fails always, since nothing takes the comma (386).

## 8. What is not modelled

`PROJECT.json` lists every component. Within the modelled ones: static
freespaces, `autoclean` and PROT metadata (`Freespace` has the
removal of a block); the mapping between ROM and SNES
addresses in `Passes`, which works on ROM offsets; what the `optimize` and `bank`
settings do to the length of an instruction (`getlenforlabel`), and the other
instructions of an architecture; arguments of macros and the substitution of defines; custom spc
blocks, which the code refuses; prompts, symbol files and the getters of the library; the arithmetic of the
checksum; strings, files, the ROM and labels in expressions. The ROM's bytes are abstracted
to whether they are free, data or part of a tag, or to the command that wrote them; operands to the label and
the position written. Instruction encoders, string
functions, formatting, reading files and the console are left out: they are tables or I/O.

## 9. Plan

Done: `Passes`, `Freespace`, `WrittenBlocks`, `Lines` over `Conditionals`, `Session`,
`Names`, `Mapper` with `Positions`, `Math`, and the eight modules of proofs. In order:

1. `autoclean` with PROT metadata, patches that are applied again.

Runs are kept few: a new module gets one run that asks all of its questions,
and modules that interact share one.

## 10. How to run it

    tlasany Passes.tla
    tlc -workers 2 -config passes.cfg MCPasses.tla
    tlc -workers 2 -config lines.cfg MCLines.tla
    tlapm PassesProofs.tla
    tlapm FreespaceProofs.tla

The other modules of proofs likewise. Each run's module is in `PROJECT.json`; the longest takes two to three minutes.
