------------------------------ MODULE MCSession ------------------------------
(* Patches of one to four commands, called in every form and in every order. *)
EXTENDS Session, TLC

Err(class, in, p) == [c |-> "error", class |-> class, in |-> in, pass |-> p]
W(w, p)    == [c |-> "warn", w |-> w, pass |-> p]
P          == [c |-> "print"]
Push       == [c |-> "push"]
Pull       == [c |-> "pull"]
Set(w, on) == [c |-> "set", w |-> w, on |-> on]
Def(d)     == [c |-> "define", d |-> d]
Use(d)     == [c |-> "use", d |-> d]
Lab        == [c |-> "label", l |-> "l"]
Wr(to)     == [c |-> "write", to |-> to]
NoSum      == [c |-> "nochecksum"]
Open(n)    == [c |-> "open", name |-> n]

Everywhere == {0, 1, 2}
Patches ==
  { <<Wr(1), W("w1", 0), P>>, <<Wr(2), W("w2", 1)>>, <<Wr(1), Wr(2), NoSum>>,
    <<Wr(1), Err("line", Everywhere, 0)>>, <<Wr(2), Err("block", {2}, 2), W("w1", 2)>>,
    <<Err("fatal", {1}, 1), Wr(1)>>, <<Lab, Err("null", {1, 2}, 2), Wr(1)>>,
    <<Err("line", Everywhere, 0), Err("line", Everywhere, 0)>>,
    <<Push, Set("w1", FALSE), W("w1", 1), Pull, W("w1", 1)>>,
    <<Set("w2", TRUE), W("w2", 0), Set("w1", FALSE), W("w1", 2)>>,
    <<Push, Set("w1", FALSE), Wr(1)>>, <<Pull, Wr(1)>>, <<Push, Pull, Pull>>,
    <<Use("d"), Wr(1)>>, <<Def("d"), Use("d"), Wr(2)>>,
    <<Open("a"), Open("b"), Open("c"), Open("g"), Wr(1)>>, <<Open("a"), Open("c"), Open("a"), Open("e"), Open("a")>>,
    <<Err("block", {1, 2}, 0), Wr(1)>>, <<Open("e"), Open("z"), Open("a"), Wr(1)>>, <<Open("a"), Err("fatal", {0}, 0)>>,
    <<Push, Err("fatal", {0, 2}, 0)>>, <<Use("assembler"), Wr(2)>>, <<Lab, Lab>> }

Parameters ==
  [f |-> "asar_patch", patch |-> <<>>, reset |-> TRUE, buflen |-> 2, defines |-> <<>>, std |-> {},
   warnings |-> <<>>, checksum |-> "as it is", memory |-> {}, includes |-> <<>>,
   stdincludes |-> <<>>, dir |-> "d",
   disk |-> { <<"d", "a">>, <<"i", "c">>, <<"d", "e">>, <<"j", "c">>,
             <<"j", "g">> }]
Ex(p) == [Parameters EXCEPT !.f = "asar_patch_ex", !.patch = p, !.includes = <<"i">>,
                                !.stdincludes = <<"j">>]
Short == { <<Wr(2), W("w2", 1)>>, <<Use("d"), Wr(1)>>, <<Wr(1), NoSum>> }
LibraryCalls ==
  { [Parameters EXCEPT !.patch = p, !.buflen = n] : p \in Patches, n \in {1, 2} }
    \cup { [Ex(p) EXCEPT !.memory = m] : p \in Patches, m \in {{}, {<<"d", "b">>}} }
    \cup { [Ex(p) EXCEPT !.reset = FALSE] : p \in Patches }
    \cup { [Ex(p) EXCEPT !.checksum = x, !.reset = r] : p \in Short, x \in {"on", "off"}, r \in BOOLEAN }
    \cup { [Ex(p) EXCEPT !.defines = x, !.std = y, !.reset = r] :
             p \in Short, r \in BOOLEAN,
             x \in {<<"d">>, <<"d", "d">>, <<"invalid", "d">>}, y \in {{}, {"d"}} }
    \cup { [Ex(p) EXCEPT !.warnings = x] :
             p \in Short, x \in { << <<"w2", TRUE>>, <<"w1", FALSE>> >>, << <<"unknown", TRUE>> >> } }

Run(p) ==
  [p EXCEPT !.f = "main"] @@
    [limit |-> 1, romExists |-> TRUE, opens |-> TRUE, title |-> TRUE, werror |-> FALSE]
CommandLines ==
  { [Run(Ex(p)) EXCEPT !.limit = n, !.werror = b] : p \in Patches, n \in {0, 1, 20}, b \in BOOLEAN }
    \cup { [Run(Ex(p)) EXCEPT !.romExists = x, !.opens = y, !.title = z] :
             p \in Short, x \in BOOLEAN, y \in BOOLEAN, z \in BOOLEAN }
    \cup { [Run(Ex(p)) EXCEPT !.defines = x, !.std = y, !.warnings = w, !.checksum = k] :
             p \in Short, x \in {<<>>, <<"d">>, <<"d", "d">>, <<"invalid", "d">>}, y \in {{}, {"d"}},
             w \in { <<>>, << <<"w2", TRUE>>, <<"unknown", TRUE>> >> }, k \in {"as it is", "on", "off"} }
=============================================================================
