------------------------------- MODULE MCLines -------------------------------
(* Patches as trees of commands: their text, as Lines assembles it, and their *)
(* meaning, what they are to write.                                           *)
EXTENDS Lines

B(k)      == [k |-> k]
BOp(v)    == [k |-> "op", v |-> v]
BIf(k, c) == [k |-> k, c |-> IF c THEN "true" ELSE "false"]
BFor(n)   == [k |-> "for", c |-> "true", from |-> 0, to |-> n]
BRep(n)   == [k |-> "rep", n |-> n]
BCall(m)  == [k |-> "call", m |-> m]
BInc(f)   == [k |-> "incsrc", f |-> f]

\* Nodes.  A body is a sequence of nodes; arms are pairs of a condition and a body.
Do(v)          == [t |-> "do", block |-> BOp(v)]
Check          == [t |-> "check"]
Use            == [t |-> "do", block |-> B("use")]
RepOp(n, v)    == [t |-> "rep", n |-> n, v |-> v]
If(arms, els)  == [t |-> "if", arms |-> arms, els |-> els]
If1(c, b)      == If(<<<<c, b>>>>, <<>>)
Loop(b)        == [t |-> "while", body |-> b]
Count(n, b)    == [t |-> "for", n |-> n, body |-> b]
Sub(k, u, b)   == [t |-> k, unit |-> u, body |-> b]      \* call or incsrc of u
OnLine(b)      == [t |-> "line", body |-> b]             \* all on one line
Short(c, b)    == [t |-> "short", c |-> c, body |-> b]   \* inline if, no endif

\* The text of nodes: inline is TRUE on one line, FALSE with a line for each command.
RECURSIVE Text1(_, _)
One(inline, cmd) == IF inline THEN <<cmd>> ELSE <<<<cmd>>>>
Texts(body, inline) == FlattenSeq([i \in DOMAIN body |-> Text1(body[i], inline)])
Text1(n, inline) ==
  CASE n.t = "do"     -> One(inline, n.block)
    [] n.t = "check"  -> One(inline, BIf("assert", TRUE))
    [] n.t = "rep"    -> One(inline, BRep(n.n)) \o One(inline, BOp(n.v))
    [] n.t = "if"     -> FlattenSeq([i \in DOMAIN n.arms |->
                            One(inline, BIf(IF i = 1 THEN "if" ELSE "elseif", n.arms[i][1]))
                              \o Texts(n.arms[i][2], inline)])
                         \o (IF n.els = <<>> THEN <<>>
                             ELSE One(inline, B("else")) \o Texts(n.els, inline))
                         \o One(inline, B("endif"))
    [] n.t = "while"  -> One(inline, BIf("while", TRUE)) \o Texts(n.body, inline)
                         \o One(inline, B("endwhile"))
    [] n.t = "for"    -> One(inline, BFor(n.n)) \o Texts(n.body, inline)
                         \o One(inline, B("endfor"))
    [] n.t = "call"   -> One(inline, BCall(n.unit))
    [] n.t = "incsrc" -> One(inline, BInc(n.unit))
    [] n.t = "short"  -> <<<<BIf("if", n.c)>> \o Texts(n.body, TRUE)>>
    [] n.t = "line"   -> <<Texts(n.body, TRUE)>>
OnLines(body) == Texts(body, FALSE)

\* What a body may write when the loop variable is x, given at most f turns of
\* each while loop: a set of sequences.
Then(S, T) == { s \o t : s \in S, t \in T }
RECURSIVE Means(_, _, _)
AllOf(body, x, f) == FoldLeft(LAMBDA S, n : Then(S, Means(n, x, f)), {<<>>}, body)
Means(n, x, f) ==
  CASE n.t = "do"  -> {<<IF n.block.k = "use" THEN x ELSE n.block.v>>}
    [] n.t = "check" -> {<<>>}
    [] n.t = "rep" -> {[i \in 1 .. n.n |-> n.v]}
    [] n.t = "if"  ->
         LET taken == { i \in DOMAIN n.arms : n.arms[i][1] = TRUE }
         IN  IF taken = {} THEN AllOf(n.els, x, f)
             ELSE AllOf(n.arms[CHOOSE i \in taken : \A j \in taken : i <= j][2], x, f)
    [] n.t = "while" ->
         UNION { AllOf([i \in 1 .. k |-> OnLine(n.body)], x, f) : k \in 0 .. f }
    [] n.t = "for" -> FoldLeft(LAMBDA S, i : Then(S, AllOf(n.body, i - 1, f)),
                               {<<>>}, [i \in 1 .. n.n |-> i])
    [] n.t \in {"call", "incsrc", "line"} -> AllOf(n.body, x, f)
    [] n.t = "short" -> IF n.c THEN AllOf(n.body, x, f) ELSE {<<>>}

-----------------------------------------------------------------------------
(* Patches that are well formed: every if, while, for has its end where it    *)
(* began.  Nothing but else, elseif and endif follows a false inline if.      *)

SeqsTo(S, n) == UNION { [1 .. m -> S] : m \in 0 .. n }
Small == {<<>>, <<Do(1)>>}
Plain == { If1(c, <<Do(2)>>) : c \in BOOLEAN }
     \cup { If(<<<<c, <<Do(2)>>>>, <<d, <<Do(3)>>>>>>, e) : c \in BOOLEAN, d \in BOOLEAN,
                                                            e \in {<<>>, <<Do(4)>>} }
     \cup { Count(n, <<Use>>) : n \in 0 .. 2 } \cup { Loop(<<Do(5)>>) }
Inline == { OnLine(<<If1(c, <<Do(6)>>)>>) : c \in BOOLEAN }
     \cup { OnLine(<<Do(6), If(<<<<c, <<Do(7)>>>>>>, <<Do(8)>>), Do(9)>>) : c \in BOOLEAN }
     \cup { OnLine(<<Count(n, <<Do(6)>>)>>) : n \in 0 .. 2 }
     \cup { OnLine(<<RepOp(n, 7), Do(8)>>) : n \in 0 .. 2 }
     \cup { Short(c, <<Do(6)>>) : c \in BOOLEAN }
Leaves == Plain \cup Inline \cup {Do(1), RepOp(2, 5), Check}
Around(b) == { If1(c, b) : c \in BOOLEAN } \cup { Count(n, b) : n \in {0, 2} } \cup {Loop(b)}
        \cup { If(<<<<c, b>>, <<~c, b>>>>, <<Do(7)>>) : c \in BOOLEAN }
Bodies == { <<a>> : a \in Leaves }
     \cup { <<a, b>> : a \in Plain, b \in {Do(1), Check, Loop(<<Do(5)>>), Count(2, <<Use>>)} }
Trees == { <<n>> : n \in UNION { Around(b) : b \in Bodies } }
    \cup { <<a, b, Do(1)>> : a \in Leaves, b \in Inline }

\* Macros are defined before main calls them; "once" may be included twice.
Define(m, body) == <<<<[k |-> "macro", m |-> m]>>>> \o OnLines(body) \o <<<<B("endmacro")>>>>
MacroBodies == { <<a>> : a \in Leaves } \cup { <<If1(c, <<Count(2, <<Use>>)>>)>> : c \in BOOLEAN }
Calls(k, b) == LET c == Sub(k, "m", b)
               IN  { <<c>>, <<OnLine(<<Do(1), c, Do(2)>>)>>, <<If1(FALSE, <<c>>), c>>,
                     <<Count(2, <<c, Use>>)>>, <<OnLine(<<If1(TRUE, <<c>>)>>)>>,
                     <<Short(k # "incsrc", <<c, Do(3)>>)>> }

Patch(files, body) ==
  [files |-> files, meant |-> AllOf(body, None, WhileFuel), wellformed |-> TRUE]
Main(body) == Patch([f \in {Root} |-> OnLines(body)], body)
WithMacro(b, body) == Patch([f \in {Root} |-> Define("m", b) \o OnLines(body)], body)
WithFile(b, body) ==         \* the included file ends with a newline: an empty line
  Patch([f \in {Root, "m"} |-> IF f = Root THEN OnLines(body) ELSE OnLines(b) \o <<<<>>>>], body)

WellFormed ==
  { Main(b) : b \in Trees }
    \cup UNION { { WithMacro(b, c) : c \in Calls("call", b) } : b \in MacroBodies }
    \cup UNION { { WithFile(b, c) : c \in Calls("incsrc", b) } : b \in MacroBodies }

\* Any lines at all: most of these are errors, none of them fatal, and no
\* loop is left open within a conditional.
Wild ==
  LET texts == { <<BIf("if", TRUE)>>, <<BIf("if", FALSE)>>, <<[k |-> "if", c |-> "bad"]>>,
                 <<BIf("elseif", TRUE)>>, <<B("else")>>, <<B("endif")>>,
                 <<BRep(2)>>, <<BCall("m")>>, <<BInc("once")>>,
                 <<[k |-> "error", class |-> "line"], BOp(2)>> }
      inside == { <<>>, <<B("endfor")>>, <<BIf("assert", FALSE)>>, <<BRep(3)>>, <<BIf("if", TRUE)>>, <<BIf("if", FALSE), BOp(4)>>,
                  <<B("endif")>>, <<BCall("m")>> }
      once == <<<<B("includeonce")>>, <<BOp(3)>>, <<>>>>
      wild(text) == [files |-> [f \in {Root, "once"} |-> IF f = Root THEN text ELSE once],
                     meant |-> {}, wellformed |-> FALSE]
      while == <<BIf("while", TRUE)>>
  IN  { wild(text) : text \in SeqsTo(texts, 3) }
      \cup { wild(<<while>> \o text) : text \in SeqsTo(texts, 2) }
      \cup { wild(<<<<[k |-> "macro", m |-> "m"]>>, m, <<B("endmacro")>>>> \o text) :
                m \in inside \ {<<BCall("m")>>}, text \in SeqsTo(texts, 2) }

\* Patches that the state an earlier one has left would disturb.
Probes ==
  { Main(<<Count(2, <<Use>>), If(<<<<FALSE, <<Do(1)>>>>>>, <<Do(2)>>), Loop(<<Do(1)>>)>>),
    WithMacro(<<Do(4)>>, <<Sub("call", "m", <<Do(4)>>), RepOp(2, 5)>>) }

\* Fatal errors, and loops that are left open.
Fatals ==
  LET fatal(text) == [files |-> [f \in {Root} |-> text], meant |-> {}, wellformed |-> FALSE]
  IN  { fatal(<<<<[k |-> "if", c |-> "deep"]>>, <<B("endif")>>>>),
        fatal(<<<<BFor(3)>>, <<B("use")>>>>),
        fatal(<<<<BIf("if", TRUE)>>, <<BIf("while", TRUE)>>>>),
        fatal(<<<<[k |-> "macro", m |-> "m"]>>, <<BCall("m")>>, <<B("endmacro")>>,
                <<BCall("m")>>>>) }

MCSession  == <<WellFormed \cup Wild, Probes>>
MCFatal    == <<Fatals, Probes>>

\* A patch that is well formed has no error, and writes what its commands say when
\* each is on a line of its own, whatever was patched before (assembleline,
\* assembleblock, initstuff).
WritesWhatItSays ==
  mode = "idle" /\ patches > 0 /\ prog.wellformed
    => ~errored /\ out \in prog.meant
=============================================================================
