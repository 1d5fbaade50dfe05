------------------------------- MODULE MCNames -------------------------------
(* Patches over one kind of names at a time, and over some that meet.         *)
EXTENDS Names

Numerals == <<"0", "1", "2", "3", "4", "5", "6", "7", "8">>

Lab(dots, w)    == [c |-> "label", dots |-> dots, path |-> <<w>>, m |-> FALSE, define |-> TRUE, global |-> FALSE]
Hash(dots, w)   == [Lab(dots, w) EXCEPT !.define = FALSE]
Glob(w)         == [Lab(0, w) EXCEPT !.global = TRUE]
MLab(dots, w)   == [Lab(dots, w) EXCEPT !.m = TRUE]
Use(dots, p)    == [c |-> "use", dots |-> dots, path |-> p, m |-> FALSE]
MUse(dots, w)   == [Use(dots, <<w>>) EXCEPT !.m = TRUE]
Rel(c, d, m)    == [c |-> c, d |-> d, m |-> m]
Cmd(c)          == [c |-> c]
Ns(w)           == [c |-> "namespace", name |-> w]
Nested(on)      == [c |-> "namespace_nested", on |-> on]
StructHere(w)   == [c |-> "struct", name |-> <<w>>, base |-> "here"]
StructAt(w, a)  == [c |-> "struct", name |-> <<w>>, base |-> "address", address |-> a]
Extends(w, p)   == [c |-> "struct", name |-> <<w>>, base |-> "extends", parent |-> <<p>>]

Sublabels  == { Lab(0, "a"), Lab(0, "b"), Lab(1, "x"), Hash(0, "c"), Lab(2, "y"), Use(1, <<"x">>), Use(2, <<"y">>) }
Relatives  == { Rel("plus", 1, FALSE), Rel("minus", 1, FALSE), Rel("plus", 2, FALSE),
                Rel("use_plus", 1, FALSE), Rel("use_minus", 1, FALSE), Rel("use_plus", 2, FALSE) }
MacroNames == { Cmd("call"), Cmd("end_call"), MLab(0, "x"), MLab(1, "y"), MUse(0, "x"), MUse(1, "y") }
MacroSigns == { Cmd("call"), Cmd("end_call"), Rel("plus", 1, TRUE), Rel("use_plus", 1, TRUE),
                Rel("plus", 1, FALSE), Rel("use_minus", 1, TRUE), Rel("minus", 1, TRUE) }
Spaces     == { Ns("n"), Nested(TRUE), Cmd("namespace_off"), Cmd("pushns"), Cmd("pullns"), Lab(0, "x"),
                Glob("x"), Use(0, <<"x">>) }
Structs    == { StructHere("s"), StructAt("s", 5), Extends("t", "s"), Cmd("endstruct"), Lab(1, "f"),
                Cmd("skip"), Use(0, <<"s", ".", "f">>) }
Calls      == { Cmd("call"), Cmd("end_call"), MLab(0, "x"), MUse(0, "x") }
CallSigns  == { Cmd("call"), Cmd("end_call"), Rel("plus", 1, TRUE), Rel("use_plus", 1, TRUE) }
Set(commands_, n) == [of |-> commands_, len |-> n]
AllSets == { Set(Sublabels, 5), Set(Relatives, 5), Set(MacroNames, 5), Set(MacroSigns, 5), Set(Spaces, 5),
             Set(Structs, 5), Set(Calls, 7), Set(CallSigns, 7) }
=============================================================================
