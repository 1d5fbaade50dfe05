--------------------------------- MODULE Math ---------------------------------
(* Expressions (asar_math.cpp): the evaluator, which goes from left to right or *)
(* by priority, functions, and the settings a patch makes about them.  An       *)
(* expression is a sequence of items; a number is a fraction, and what an       *)
(* expression with an error has for a value is Err.  Labels, strings, and what  *)
(* reads the ROM or a file are left out.                                        *)
EXTENDS Integers, Sequences, FiniteSets, SequencesExt, Bitwise

CONSTANT Programs   \* the patches: sequences of commands

VARIABLES
  program, pass, at,                     \* the patch, and the command that is next
  math_pri, math_round, default_math_pri,
  functions, user_functions,             \* names that are functions of the patch, and the functions
  errored,
  last           \* what the last expression came to: its command and value (history)

settings == <<math_pri, math_round, default_math_pri>>
vars == <<program, pass, at, settings, functions, user_functions, errored, last>>

-----------------------------------------------------------------------------
(* Numbers *)
Err == [n |-> 0, d |-> 0]
Frac(n, d) == IF d < 0 THEN [n |-> -n, d |-> -d] ELSE [n |-> n, d |-> d]
Whole(n) == Frac(n, 1)
Truth(b) == Whole(IF b THEN 1 ELSE 0)
Trunc(a) == IF a.n >= 0 THEN a.n \div a.d ELSE -((-a.n) \div a.d)
Floor(a) == a.n \div a.d
Less(a, b) == a.n * b.d < b.n * a.d
Same(a, b) == (a = Err <=> b = Err) /\ a.n * b.d = b.n * a.d
IsZero(a) == a.n = 0
Times(a, b) == Frac(a.n * b.n, a.d * b.d)
Divided(a, b) == Frac(a.n * b.d, a.d * b.n)
Minus(a, b) == Frac(a.n * b.d - b.n * a.d, a.d * b.d)

Word == 65536      \* stands for 2^64: numbers are small
Signed(n) == IF n >= Word \div 2 THEN n - Word ELSE n
Bits(a) == Trunc(a) % Word
OfBits(n) == Whole(Signed(n))

Level == [o \in {"**", "*", "/", "%", "+", "-", "<<", ">>", "&", "|", "^"} |->
  CASE o = "**" -> 4 [] o \in {"*", "/", "%"} -> 3 [] o \in {"+", "-"} -> 2
    [] o \in {"<<", ">>"} -> 1 [] OTHER -> 0]

\* No power but one of a natural number.
Apply(o, a, b) ==
  IF Err \in {a, b} THEN Err
  ELSE CASE o = "**" -> Frac(a.n ^ Trunc(b), a.d ^ Trunc(b))
         [] o = "*" -> Times(a, b)
         [] o = "/" -> IF IsZero(b) THEN Err ELSE Divided(a, b)
         [] o = "%" -> IF IsZero(b) THEN Err ELSE Minus(a, Times(b, Whole(Trunc(Divided(a, b)))))
         [] o = "+" -> Minus(a, Frac(-b.n, b.d))
         [] o = "-" -> Minus(a, b)
         [] o = "<<" -> IF b.n < 0 THEN Err ELSE Whole(Trunc(a) * 2 ^ Trunc(b))
         [] o = ">>" -> IF b.n < 0 THEN Err ELSE Whole(Trunc(a) \div 2 ^ Trunc(b))
         [] o = "&" -> OfBits(Bits(a) & Bits(b))
         [] o = "|" -> OfBits(Bits(a) | Bits(b))
         [] o = "^" -> OfBits(Bits(a) ^^ Bits(b))
Prefixed(o, a) ==
  CASE a = Err -> Err
    [] o = "-" -> Frac(-a.n, a.d)
    [] o = "~" -> Whole(-Trunc(a) - 1)
    [] o = "+" -> a
    [] o = "<:" -> Whole(Trunc(a) \div 65536)
    [] OTHER -> Err
Sanitized(a, s) == IF a # Err /\ s.round THEN Whole(Trunc(a)) ELSE a

-----------------------------------------------------------------------------
(* Items: numbers, operators and prefixes, parentheses, names, hexadecimal      *)
(* numbers some of whose digits are the letters of a name, calls.               *)
Num(v) == [k |-> "num", v |-> v]
Op(o)  == [k |-> "op", o |-> o]
IsOp(x) == x.k = "op"

Arity == [f \in {"max", "min", "clamp", "safediv", "select", "bank", "floor", "ceil", "not", "equal",
                 "less", "lessequal", "and", "or", "nand", "nor", "xor"} |->
  CASE f \in {"bank", "floor", "ceil", "not"} -> 1
    [] f \in {"clamp", "safediv", "select"} -> 3
    [] OTHER -> 2]
Max2(a, b) == IF Less(b, a) THEN a ELSE b
Min2(a, b) == IF Less(a, b) THEN a ELSE b
IsSet(a) == Trunc(a) # 0      \* logical_and, logical_or and logical_not are of unsigned int
Builtin(f, w) ==
  CASE f = "max" -> Max2(w[1], w[2])
    [] f = "min" -> Min2(w[1], w[2])
    [] f = "clamp" -> Max2(w[2], Min2(w[3], w[1]))
    [] f = "safediv" -> IF IsZero(w[2]) THEN w[3] ELSE Divided(w[1], w[2])
    [] f = "select" -> IF IsZero(w[1]) THEN w[3] ELSE w[2]
    [] f = "bank" -> Whole(Trunc(w[1]) \div 65536)
    [] f = "floor" -> Whole(Floor(w[1]))
    [] f = "ceil" -> Whole(-Floor(Frac(-w[1].n, w[1].d)))
    [] f = "not" -> Truth(~IsSet(w[1]))
    [] f = "equal" -> Truth(Same(w[1], w[2]))
    [] f = "less" -> Truth(Less(w[1], w[2]))
    [] f = "lessequal" -> Truth(~Less(w[2], w[1]))
    [] f = "and" -> Truth(IsSet(w[1]) /\ IsSet(w[2]))
    [] f = "or" -> Truth(IsSet(w[1]) \/ IsSet(w[2]))
    [] f = "nand" -> Truth(IsZero(w[1]) \/ IsZero(w[2]))
    [] f = "nor" -> Truth(IsZero(w[1]) /\ IsZero(w[2]))
    [] f = "xor" -> Truth(IsZero(w[1]) # IsZero(w[2]))

(* The body of a function with the text of the arguments' values put for its    *)
(* parameters.  Each parameter in turn is looked for where the last one that    *)
(* was found ends: that is, one whose name is the last letter of its name.      *)
(* Numbers written one after the other (digits here) are read as one.           *)
Text(a) == IF a.n < 0 THEN <<Op("-"), Num(Frac(-a.n, a.d))>> ELSE <<Num(a)>>
Appended(text, a, base) ==
  IF a.n < 0 THEN text \o Text(a)
  ELSE Append(Front(text), Num(Whole(Last(text).v.n * base + a.n)))
Found(x, params) ==
  { j \in DOMAIN params :
      \/ params[j] = x.name
      \/ params[j] = x.last /\ \E i \in 1 .. j - 1 : params[i] = x.name }
RECURSIVE Written(_, _, _)
Written(text, js, w) ==
  IF js = <<>> THEN text ELSE Written(Appended(text, w[Head(js)], 10), Tail(js), w)
RECURSIVE Expand(_, _, _)
\* Mutant: only the first parameter is looked for.
Substituted_First(x, params, w) ==
  IF x.k = "name" /\ x.name = params[1] THEN Text(w[1]) ELSE <<x>>
Substituted(x, params, w) ==
  CASE x.k = "name" ->
         LET js == SetToSortSeq(Found(x, params), <)
         IN  IF js = <<>> THEN <<x>> ELSE Written(Text(w[Head(js)]), Tail(js), w)
    [] x.k = "hex" ->
         IF \E j \in DOMAIN params : params[j] = x.letters
         THEN LET j == CHOOSE i \in DOMAIN params : params[i] = x.letters
              IN  Appended(<<Num(Whole(x.digits))>>, w[j], 16)
         ELSE <<x>>
    [] x.k = "par" -> <<[x EXCEPT !.e = Expand(@, params, w)]>>
    [] x.k = "call" -> <<[x EXCEPT !.args = [i \in DOMAIN @ |-> Expand(@[i], params, w)]]>>
    [] OTHER -> <<x>>
Expand(e, params, w) == FlattenSeq([i \in DOMAIN e |-> Substituted(e[i], params, w)])

-----------------------------------------------------------------------------
(* The evaluator.  s: whether it goes by priority, whether it rounds, and the   *)
(* functions.  It answers a value, and the item it has come to.                 *)
At(v, i) == [v |-> v, i |-> i]
RECURSIVE Eval(_, _, _, _)
Value(e, s) == Eval(e, 1, 0, s).v

\* asar_call_user_function: the arguments, then the body.
Called(f, args, s) ==
  LET w == [j \in DOMAIN args |-> Value(args[j], s)] IN
  CASE Err \in Range(w) -> Err
    [] f \in DOMAIN s.funs ->
         IF Len(args) # Len(s.funs[f].params) THEN Err
         ELSE Value(Expand(s.funs[f].body, s.funs[f].params, w), s)
    [] f \notin DOMAIN s.funs /\ f \in DOMAIN Arity ->
         IF Len(args) # Arity[f] THEN Err ELSE Builtin(f, w)
    [] OTHER -> Err
NumCore(x, s) ==
  CASE x.k \in {"num", "hex"} -> x.v
    [] x.k = "par" -> Value(x.e, s)
    [] x.k = "call" -> Called(x.f, x.args, s)
    [] OTHER -> Err
RECURSIVE GetNum(_, _, _)
GetNum(e, i, s) ==
  IF i > Len(e) THEN At(Err, i)
  ELSE IF IsOp(e[i])
  THEN LET r == GetNum(e, i + 1, s) IN At(Sanitized(Prefixed(e[i].o, r.v), s), r.i)
  ELSE At(Sanitized(NumCore(e[i], s), s), i + 1)

NextLevel(o) == Level[o] + 1
RECURSIVE Rest(_, _, _, _, _)
Rest(e, i, left, depth, s) ==
  IF left = Err \/ i > Len(e) THEN At(left, i)
  ELSE IF ~IsOp(e[i]) \/ e[i].o \notin DOMAIN Level THEN At(Err, i)
  ELSE IF s.pri /\ depth > Level[e[i].o] THEN At(left, i)
  ELSE LET o == e[i].o
           right == IF s.pri THEN Eval(e, i + 1, NextLevel(o), s) ELSE GetNum(e, i + 1, s)
       IN  Rest(e, right.i, Sanitized(Apply(o, left, right.v), s), depth, s)
Eval(e, i, depth, s) == LET left == GetNum(e, i, s) IN Rest(e, left.i, left.v, depth, s)

-----------------------------------------------------------------------------
(* Commands *)
NoLast == [cmd |-> 0, v |-> Err]
Init ==
  /\ program \in Programs /\ pass = 0 /\ at = 1
  /\ math_pri = FALSE /\ math_round = TRUE
  /\ default_math_pri = FALSE
  /\ functions = {} /\ user_functions = <<>>
  /\ errored = FALSE /\ last = NoLast

Cmd == program[at]
Running(c) == pass < 3 /\ at <= Len(program) /\ Cmd.c = c
Proceed == at' = at + 1 /\ UNCHANGED <<program, pass>>
ByPriority == math_pri \/ default_math_pri
Settings == [pri |-> ByPriority, round |-> math_round /\ ~default_math_pri,
             funs |-> [f \in functions |-> user_functions[f]]]

MathPri ==
  /\ Running("math pri") /\ math_pri' = Cmd.on /\ Proceed
  /\ UNCHANGED <<math_round, default_math_pri, functions, user_functions, errored, last>>
MathRound ==
  /\ Running("math round") /\ math_round' = Cmd.on /\ Proceed
  /\ UNCHANGED <<math_pri, default_math_pri, functions, user_functions, errored, last>>
\* asar 1.90: default_math_round_off becomes true with default_math_pri.
AsarVersion ==
  /\ Running("asar 1.90") /\ Proceed
  /\ IF at = 1 THEN default_math_pri' = TRUE /\ UNCHANGED errored
     ELSE errored' = TRUE /\ UNCHANGED default_math_pri
  /\ UNCHANGED <<math_pri, math_round, functions, user_functions, last>>

\* Mutant: the name is listed before the parameters are looked at.
Function_ListedFirst ==
  /\ Running("function") /\ Proceed
  /\ functions' = functions \cup {Cmd.f}
  /\ IF IsInjective(Cmd.params)
     THEN /\ user_functions' = [f \in DOMAIN user_functions \cup {Cmd.f} |->
               IF f = Cmd.f THEN [params |-> Cmd.params, body |-> Cmd.body] ELSE user_functions[f]]
          /\ UNCHANGED errored
     ELSE errored' = TRUE /\ UNCHANGED user_functions
  /\ UNCHANGED <<settings, last>>
\* createuserfunc: a name for two parameters is an error, once the table of
\* user functions has been written and before that of all functions is.
Function ==
  /\ Running("function") /\ Proceed
  /\ user_functions' = [f \in DOMAIN user_functions \cup {Cmd.f} |->
       IF f = Cmd.f THEN [params |-> Cmd.params, body |-> Cmd.body] ELSE user_functions[f]]
  /\ IF IsInjective(Cmd.params) THEN functions' = functions \cup {Cmd.f} /\ UNCHANGED errored
     ELSE errored' = TRUE /\ UNCHANGED functions
  /\ UNCHANGED <<settings, last>>

\* Mutant: the evaluation for the warning leaves its order behind.
Restored_Never == TRUE
\* math_pri after the evaluation by priority that a warning is to say differs.
Restored == FALSE

\* math: from left to right, an expression that has no value by priority is an
\* error, although its value is taken.
Evaluate ==
  LET v == Value(Cmd.e, Settings)
      compared == ~ByPriority /\ v # Err
  IN  /\ Running("eval") /\ Proceed
      /\ errored' = (\/ errored
                     \/ v = Err
                     \/ compared /\ Value(Cmd.e, [Settings EXCEPT !.pri = TRUE]) = Err)
      /\ last' = [cmd |-> at, v |-> v]
      /\ math_pri' = IF compared THEN Restored ELSE math_pri
      /\ UNCHANGED <<math_round, default_math_pri, functions, user_functions>>

\* finishpass, and initstuff of the pass that follows.
NextPass ==
  /\ pass < 3 /\ at = Len(program) + 1
  /\ pass' = pass + 1
  /\ IF pass = 2 THEN UNCHANGED <<at, math_pri, math_round, functions, user_functions>>
     ELSE /\ at' = 1 /\ math_pri' = FALSE /\ math_round' = TRUE
          /\ functions' = {} /\ user_functions' = <<>>
  /\ UNCHANGED <<program, default_math_pri, errored, last>>

Next == MathPri \/ MathRound \/ AsarVersion \/ Function \/ Evaluate \/ NextPass
Spec == Init /\ [][Next]_vars

-----------------------------------------------------------------------------
(* What an expression means: the last operator of the lowest level is the last  *)
(* to be applied (by priority), or the last operator is (from left to right);   *)
(* a parameter of a function is the value of its argument.                      *)
Infix(e) == { i \in 2 .. Len(e) : IsOp(e[i]) /\ ~IsOp(e[i - 1]) }
LastOf(S) == CHOOSE i \in S : \A j \in S : j <= i
Lowest(e) == { i \in Infix(e) : \A j \in Infix(e) : Level[e[i].o] <= Level[e[j].o] }
RECURSIVE Means(_, _, _)
Atom(x, env, s) ==
  CASE x.k \in {"num", "hex"} -> x.v
    [] x.k = "par" -> Means(x.e, env, s)
    [] x.k = "name" -> IF x.name \in DOMAIN env THEN env[x.name] ELSE Err
    [] x.k = "call" ->
         LET w == [j \in DOMAIN x.args |-> Means(x.args[j], env, s)] IN
         IF Err \in Range(w) THEN Err
         ELSE IF x.f \notin DOMAIN s.funs
         THEN IF x.f \in DOMAIN Arity /\ Arity[x.f] = Len(w) THEN Builtin(x.f, w) ELSE Err
         ELSE LET f == s.funs[x.f] IN
              IF Len(w) # Len(f.params) THEN Err
              ELSE Means(f.body,
                         [n \in Range(f.params) |-> w[CHOOSE j \in DOMAIN w : f.params[j] = n]], s)
Means(e, env, s) ==
  IF Infix(e) # {}
  THEN LET i == LastOf(IF s.pri THEN Lowest(e) ELSE Infix(e))
       IN  Sanitized(Apply(e[i].o, Means(SubSeq(e, 1, i - 1), env, s),
                                   Means(SubSeq(e, i + 1, Len(e)), env, s)), s)
  ELSE Sanitized(IF IsOp(e[1]) THEN Prefixed(e[1].o, Means(Tail(e), env, s)) ELSE Atom(e[1], env, s), s)

\* What the patch has said of it before its nth command.
Before(n, c) == { i \in 1 .. n - 1 : program[i].c = c }
Said(n, c, default) == IF Before(n, c) = {} THEN default ELSE program[LastOf(Before(n, c))].on
Versioned == program[1].c = "asar 1.90"
Told(n) ==
  [pri |-> Versioned \/ Said(n, "math pri", FALSE),
   round |-> ~Versioned /\ Said(n, "math round", TRUE),
   funs |-> [f \in { program[i].f : i \in Before(n, "function") } |->
              program[LastOf({ i \in Before(n, "function") : program[i].f = f })]]]
HasCalls(e) == \E i \in DOMAIN e : e[i].k = "call"
LastIsRight == Same(last.v, Means(program[last.cmd].e, <<>>, Told(last.cmd)))

-----------------------------------------------------------------------------
IsFraction(a) == a.d = 0 => a = Err
TypeOK ==
  /\ pass \in 0 .. 3 /\ at \in 1 .. Len(program) + 1
  /\ settings \in Seq(BOOLEAN) /\ errored \in BOOLEAN
  /\ functions \subseteq DOMAIN user_functions
  /\ last.cmd \in 0 .. Len(program) /\ IsFraction(last.v)

(* In every pass an expression has the value it has in the order and with the   *)
(* rounding that the patch has asked for up to there, whatever was evaluated    *)
(* before (asar_math.cpp 954-1046).                                             *)
EvaluatesInOrder == last.cmd # 0 /\ ~HasCalls(program[last.cmd].e) => LastIsRight

(* A call has the value of the function's body with the values of the           *)
(* arguments for the parameters, although what is put for them is text, in a    *)
(* patch that gives no function two parameters of one name                      *)
(* (asar_math.cpp 658-717).                                                     *)
CallsByValue ==
  /\ last.cmd # 0 /\ HasCalls(program[last.cmd].e)
  /\ \A i \in DOMAIN program : program[i].c = "function" => IsInjective(program[i].params)
  => LastIsRight
=============================================================================
