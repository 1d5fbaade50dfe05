-------------------------------- MODULE MCMath --------------------------------
(* Expressions of up to three operators, and functions.                        *)
EXTENDS Math

N(n) == Num(Whole(n))
Par(e) == [k |-> "par", e |-> e]
Name(x, last_) == [k |-> "name", name |-> x, last |-> last_]
Hex(n, letters, v) == [k |-> "hex", digits |-> n, letters |-> letters, v |-> Whole(v)]
Call(f, args) == [k |-> "call", f |-> f, args |-> args]
Ev(e) == [c |-> "eval", e |-> e]
Pri(b) == [c |-> "math pri", on |-> b]
Round(b) == [c |-> "math round", on |-> b]
Version == [c |-> "asar 1.90"]
Fun(f, params, body) == [c |-> "function", f |-> f, params |-> params, body |-> body]

Ops == DOMAIN Level
Shorts == { <<N(a), Op(o), N(b)>> : a \in {7, 2}, o \in Ops, b \in {2, 3, 0} }
Longs == { <<N(7), Op(o), N(2), Op(q), N(3)>> : o \in Ops, q \in Ops }
Longest == { <<N(5), Op(o), N(2), Op(q), N(1), Op(r), N(2)>> : o \in Ops, q \in Ops, r \in Ops }
Nested == { <<Op(p), N(7), Op(o), Par(<<N(2), Op(q), Op("-"), N(1)>>)>> :
              p \in {"-", "~", "+", "<:"},
              o \in Ops \ {"**", "<<", ">>"}, q \in Ops \ {"**", "<<", ">>"} }
Heads == { <<>>, <<Pri(TRUE)>>, <<Round(FALSE)>>, <<Pri(TRUE), Round(FALSE)>>, <<Version>> }
Orders ==
  { h \o <<Ev(e)>> : h \in Heads, e \in Shorts \cup Longs \cup Nested }
    \cup { h \o <<Ev(e)>> : h \in {<<>>, <<Pri(TRUE)>>}, e \in Longest }
    \cup { <<Ev(e), Ev(f), Pri(b), Ev(f), Ev(e)>> :
              e \in Longs, f \in {<<N(1), Op("+"), N(2), Op("*"), N(3)>>}, b \in BOOLEAN }

x == Name("x", "x")
xy == Name("xy", "y")
Bodies == { <<x, Op(o), xy>> : o \in {"*", "-", "/"} }
  \cup { <<x, Op("-"), Par(<<xy, Op("+"), x>>)>>,
         <<Op("-"), xy, Op("*"), x, Op("+"), N(1)>>,
         <<Hex(1, "a", 26), Op("+"), x, Op("-"), xy>>,
         <<Call("max", <<<<x>>, <<xy>>>>), Op("-"), x>> }
Args == { <<N(3)>>, <<Op("-"), N(4)>>, <<N(1), Op("+"), N(2), Op("*"), N(3)>>, <<N(7), Op("/"), N(2)>>,
          <<Call("g", <<<<N(5)>>>>)>>, <<Call("min", <<<<N(6)>>, <<N(2)>>>>)>> }
Functions_(bodies, params) ==
  { h \o <<Fun("g", <<"x">>, <<x, Op("*"), N(2), Op("+"), x>>), Fun("f", params, b),
           Ev(<<N(9), Op("-"), Call("f", <<a, c>>), Op("*"), N(2)>>)>> :
      h \in Heads, b \in bodies, a \in Args, c \in Args }
Builtins ==
  { h \o <<Ev(<<Call(f, [i \in 1 .. Arity[f] |-> IF i = 2 THEN a ELSE c]), Op("+"), N(1)>>)>> :
      h \in Heads, f \in DOMAIN Arity, a \in Args \ {<<Call("g", <<<<N(5)>>>>)>>},
      c \in {<<N(0)>>, <<N(1), Op("/"), N(2)>>, <<N(3)>>} }
Redefined ==
  { <<Fun("f", <<"x">>, <<x>>), Ev(<<Call("f", <<<<N(3)>>>>)>>), Fun(f, p, <<x, Op("+"), N(1)>>),
      Ev(<<Call("f", <<<<N(3)>>>>)>>)>> : f \in {"f", "g"}, p \in {<<"x">>, <<"x", "x">>} }
LateVersion == { <<Ev(<<N(1)>>), Version>> }
Everyday == Orders \cup Functions_(Bodies, <<"x", "xy">>) \cup Functions_(Bodies, <<"xy", "x">>)
              \cup Builtins \cup Redefined \cup LateVersion

\* A parameter whose name is the last letter of the name of one before it.
Tails == { <<Fun("f", <<"xy", "y">>, <<xy>>), Ev(<<Call("f", <<<<N(3)>>, <<N(4)>>>>)>>)>> }
\* A parameter whose name is the letters of a hexadecimal number.
Letters == { <<Fun("f", <<"a">>, <<Hex(1, "a", 26), Op("+"), Name("a", "a")>>),
               Ev(<<Call("f", <<<<N(5)>>>>)>>)>> }
=============================================================================
