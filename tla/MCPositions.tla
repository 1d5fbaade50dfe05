----------------------------- MODULE MCPositions ------------------------------
(* Patches near the border of a bank, over one kind of commands at a time.      *)
EXTENDS Positions

Cmd(c)         == [c |-> c]
At(c, a)       == [c |-> c, a |-> a]
Data(n)        == [c |-> "db", n |-> n]
By(c, n)       == [c |-> c, n |-> n, align |-> 0]
Align(c, m, o) == [c |-> c, n |-> o, align |-> m]
Part_(c, f, t) == [c |-> c, from |-> f, to |-> t]
PartTo(f, t, a) == [c |-> "incbin_to", from |-> f, to |-> t, a |-> a]
Block(a)       == [c |-> "spcblock", dest |-> a]
EndBlock(e)    == [c |-> "endspcblock", execute |-> e]
Set_(f, v)     == [c |-> f, of |-> f, value |-> v]
SetOf(c, f, v) == [c |-> c, of |-> f, value |-> v]
Map_(m)        == [c |-> "mapper", m |-> m]
Title(s, i)    == [c |-> "check_title", same |-> s, ignored |-> i]
ArchIs(a)      == [c |-> "arch", arch |-> a]

Border == 129 * FullBank               \* $810000, four bytes after the first org
OrgNear == At("org", Border - 4)
Checks == { Set_("check", "off"), Set_("check", "half"), Set_("check", "full") }

Moves    == Checks \cup { OrgNear, Data(3), By("skip", 4), By("skip", -2), By("fill", 6),
                          Align("skip", 8, 3), Align("fill", 8, 0), At("base", Border - 8),
                          At("pad", Border + HalfBank + 2), At("pad", Border - 1) }
InMapper(m) == { Map_(m), Set_("check", "off"), OrgNear, At("org", HalfBank - 2), At("org", FullBank - 2),
                 At("org", 5 * FullBank - 2), Data(4), By("skip", 3), At("base", 2 * FullBank - 3) }
\* Where addresses end, and where the low half of a bank shows the high one.
AtEnds(m)   == { Map_(m), Set_("check", "off"), At("org", 64 * FullBank - 2), At("org", 64 * FullBank + HalfBank - 2),
                 At("org", 192 * FullBank - 2), At("org", EndOfSpace - 2), Data(4), At("base", EndOfSpace - 2) }
Blocks   == { At("org", HalfBank), At("org", HalfBank + 64), Block(4096), EndBlock(FALSE), EndBlock(TRUE),
              Cmd("startpos"), Data(2), Set_("check", "off"), At("base", 8192), Cmd("pushpc"), Cmd("pullpc") }
Nested   == { At("org", HalfBank), At("org", HalfBank + 64), Block(4096), EndBlock(FALSE), Data(2), Cmd("pushpc") }
Stacks   == { OrgNear, Data(2), At("base", 8192), Cmd("base_off"), Cmd("pushbase"), Cmd("pullbase"),
              Cmd("pushpc"), Cmd("pullpc"), ArchIs("spc700") }
Tables   == { Set_("table", "file"), Set_("table", "ascii"), Set_("table", "assigned"), Cmd("pushtable"),
              Cmd("pulltable") }
Files    == { OrgNear, Part_("incbin", 0, 0), Part_("incbin", 1, 3), Part_("incbin", 2, 1), Part_("incbin", 1, 9),
              PartTo(0, 2, HalfBank + 8), PartTo(1, 0, 2 * FullBank + HalfBank), PartTo(2, 1, HalfBank),
              Set_("check", "off"), Title(TRUE, FALSE), Title(FALSE, FALSE), Title(FALSE, TRUE) }
Settings == { Set_("check", "off"), SetOf("optimize", "dp", "always"), SetOf("optimize", "address", "mirrors"), Set_("bank", "noassume"),
              Set_("dpbase", 256), Set_("fillbyte", 7), Set_("padbyte", 7), Set_("freespacebyte", 7),
              SetOf("math", "pri", TRUE), SetOf("math", "round", FALSE), Map_(Plain("hirom")), Map_(SA1Default), ArchIs("superfx"), OrgNear,
              Data(6), Block(4096), EndBlock(FALSE) }

Of_(commands_, n, p) == [of |-> commands_, len |-> n, patches |-> p]
AllSets ==
  { Of_(Moves, 4, 1), Of_(Blocks, 4, 1), Of_(Nested, 5, 1), Of_(Stacks, 5, 1),
    Of_(Stacks, 3, 2), Of_(Tables, 5, 1), Of_(Tables, 3, 2), Of_(Files, 3, 1), Of_(Settings, 3, 1) }
  \cup { Of_(InMapper(m), 4, 1) :
           m \in { Plain(name) : name \in Mappers \ {"lorom", "sa1rom", "sfxrom"} } \cup {SA1Default} }
  \cup { Of_(AtEnds(m), 4, 1) :
           m \in { Plain(name) : name \in Mappers \ {"sa1rom"} } \cup {SA1Default, SA1(3, 1, 0, 2)} }
  \cup { Of_({ Map_(Plain("fullsa1rom")), Set_("check", "off"), At("org", 64 * FullBank - 2),
                At("base", EndOfSpace - 2), Data(4) }, 5, 1) }
=============================================================================
