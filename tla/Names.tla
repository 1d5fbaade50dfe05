-------------------------------- MODULE Names --------------------------------
(* Labels: main labels, sublabels, +/- labels, labels of a macro call, of       *)
(* namespaces and of structs, and what a reference to one finds.  A name is a   *)
(* path: its words, which the program joins by "_" (a struct's fields by ".").  *)
(* A patch is made up as pass 0 reads it, and read again in passes 1 and 2.     *)
EXTENDS Integers, Sequences, FiniteSets, SequencesExt

CONSTANTS
  CommandSets,   \* the sets of commands a patch may be made of, [of, len]: it has
                 \* at most len of them
  MaxLen,        \* the largest len
  MaxDots,       \* bound on the dots in front of a sublabel
  Digit          \* the words of the numbers from 0: dec(n) is Digit[n + 1]

Depths == 1 .. 2
\* Words that "colons are reserved for special labels" keeps out of other names.
Reserved == {":macro", ":pos", ":neg"}
IsPath(p) == p \in Seq(ToSet(p) \ Reserved)

\* What a command is, as far as its meaning depends on it.
IsCommand(c) ==
  /\ c.c \in {"label", "use"} => c.dots \in 0 .. MaxDots /\ IsPath(c.path)
  /\ c.c \in {"plus", "minus", "use_plus", "use_minus"} => c.d \in Depths /\ c.m \in BOOLEAN
  /\ c.c = "namespace" => c.name \notin Reserved
  /\ c.c = "namespace_nested" => c.on \in BOOLEAN
  /\ c.c = "struct" => /\ c.base \in {"here", "address", "extends"} /\ IsPath(c.name)
                       /\ c.base = "address" => c.address \in Int
                       /\ c.base = "extends" => IsPath(c.parent)

ASSUME NamesAssumption ==
  /\ MaxLen \in Nat /\ MaxDots \in Nat
  /\ \A s \in CommandSets : s.len \in 0 .. MaxLen /\ \A c \in s.of : IsCommand(c)
  /\ \A i \in 1 .. MaxLen + 1 :
       Digit[i] \notin Reserved /\ \A j \in 1 .. MaxLen + 1 : Digit[i] = Digit[j] => i = j

VARIABLES
  commands,      \* those of this patch
  patch,         \* the patch as far as it has been read in pass 0
  pass, at,      \* the pass (3: done), and the command that is next
  errored, pos, labels,
  ns, list, nested, slots, depth,       \* namespaces, and those that are pushed
  sub, plus, minus,                     \* sublabels, and the counts of +/- labels
  called, really, frames,               \* macro calls
  msub, mplus, mminus,                  \* the labels of the innermost one
  in, sname, sparent, sbase, structs, oldPos,   \* structs
  names, first,  \* the name each command has defined in this pass, in pass 0 (history)
  found          \* the command whose label each reference has found (history)

namespace == <<ns, list, nested, slots, depth>>
scope     == <<sub, plus, minus>>
macro     == <<called, really, frames, msub, mplus, mminus>>
struct    == <<in, sname, sparent, sbase, structs, oldPos>>
history   == <<names, first, found>>
vars == <<commands, patch, pass, at, errored, pos, labels, namespace, scope, macro, struct, history>>

Zero == [d \in Depths |-> 0]
Empty == [n \in {} |-> 0]
With(f, x, y) == [z \in DOMAIN f \cup {x} |-> IF z = x THEN y ELSE f[z]]
NoNames == [i \in 1 .. MaxLen |-> <<>>]

\* What initstuff resets for a pass: structs and labels stay.
CountsLeft_All == plus                 \* does not reset poslabels
CountsLeft == Zero
Fresh ==
  /\ at' = 1 /\ pos' = 0
  /\ ns' = <<>> /\ list' = <<>> /\ nested' = FALSE /\ slots' = <<>> /\ depth' = 0
  /\ sub' = <<>> /\ plus' = CountsLeft /\ minus' = Zero
  /\ called' = 0 /\ really' = 0 /\ frames' = <<>>
  /\ msub' = <<>> /\ mplus' = Zero /\ mminus' = Zero /\ in' = "no"

Init ==
  /\ commands \in CommandSets /\ patch = <<>> /\ pass = 0 /\ at = 1
  /\ errored = FALSE /\ pos = 0 /\ labels = Empty
  /\ ns = <<>> /\ list = <<>> /\ nested = FALSE /\ slots = <<>> /\ depth = 0
  /\ sub = <<>> /\ plus = Zero /\ minus = Zero
  /\ called = 0 /\ really = 0 /\ frames = <<>> /\ msub = <<>> /\ mplus = Zero /\ mminus = Zero
  /\ in = "no" /\ sname = <<>> /\ sparent = <<>> /\ sbase = 0 /\ structs = Empty /\ oldPos = 0
  /\ names = NoNames /\ first = NoNames /\ found = [i \in 1 .. MaxLen |-> 0]

-----------------------------------------------------------------------------
\* The command that is read: in pass 0 any of the set.
Reads(c) ==
  /\ at' = at + 1
  /\ IF pass = 0 THEN at <= commands.len /\ c \in commands.of /\ patch' = Append(patch, c)
     ELSE pass < 3 /\ at <= Len(patch) /\ c = patch[at] /\ UNCHANGED patch
  /\ UNCHANGED <<commands, pass, first>>
Candidates == IF pass = 0 THEN commands.of ELSE IF at <= Len(patch) THEN {patch[at]} ELSE {}

Error == errored' = TRUE               \* of the block; the next one is read
InMacro == frames # <<>>
InStruct == in # "no"

\* setlabel; name <<>> stands for a name that could not be made.
Redefined(name) == pass = 0 /\ name \in DOMAIN labels
SetLabel(name) ==
  IF name = <<>> THEN Error /\ UNCHANGED <<labels, names>>
  ELSE /\ names' = [names EXCEPT ![at] = name]
       /\ IF pass < 2
          THEN IF Redefined(name) THEN Error /\ UNCHANGED labels
               ELSE labels' = With(labels, name, [pos |-> pos, at |-> at]) /\ UNCHANGED errored
          ELSE /\ errored' = (errored \/ name \notin DOMAIN labels \/ labels[name].pos # pos)
               /\ UNCHANGED labels

\* labelname: the path of a label that is written with so many dots, or <<>>.
MacroTag == <<":macro", Digit[called + 1]>>
Parents(m) == IF m THEN msub ELSE sub
LabelName(l) ==
  IF l.m /\ ~InMacro THEN <<>>
  ELSE IF InStruct
  THEN IF l.dots # 1 THEN <<>>
       ELSE (IF l.m THEN MacroTag ELSE <<>>)
              \o (IF in = "sub" THEN sparent \o <<".">> ELSE <<>>) \o sname \o <<".">> \o l.path
  ELSE IF l.dots = 0 THEN (IF l.m THEN MacroTag ELSE <<>>) \o l.path
  ELSE IF Len(Parents(l.m)) < l.dots THEN <<>>
  ELSE Parents(l.m)[l.dots] \o l.path
Adopted_Last(l, name) == Append(Parents(l.m), name)     \* keeps them all
\* A label that is defined is the parent of the sublabels that follow.
Adopted(l, name) == Append(SubSeq(Parents(l.m), 1, l.dots), name)
Adopts(l, name) ==
  IF name = <<>> \/ InStruct \/ ~l.define THEN UNCHANGED <<sub, msub>>
  ELSE IF l.m THEN msub' = Adopted(l, name) /\ UNCHANGED sub
  ELSE sub' = Adopted(l, name) /\ UNCHANGED msub

\* addlabel, and "global", which leaves the namespace out and is not for structs
\* and macro labels.
Label ==
  \E l \in { c \in Candidates : c.c = "label" } :
    LET name == LabelName(l)
    IN  /\ Reads(l)
        /\ IF l.global /\ (InStruct \/ l.m) THEN Error /\ UNCHANGED <<labels, names, sub, msub>>
           ELSE /\ SetLabel(IF name = <<>> \/ l.global THEN name ELSE ns \o name)
                /\ Adopts(l, name)
        /\ UNCHANGED <<pos, namespace, plus, minus, called, really, frames, mplus, mminus, struct, found>>

\* posneglabelname: a + label is named before it is counted, a - label after.
Tag(m) == IF m THEN MacroTag ELSE <<>>
NewPlus_Late(r, n) == Append(r, Digit[n + 2])    \* counts it first
NewPlus(r, n) == Append(r, Digit[n + 1])
PlusName(r)  == Tag(r.m) \o <<":pos", Digit[r.d]>>
MinusName(r) == Tag(r.m) \o <<":neg", Digit[r.d]>>
Plus ==
  \E r \in { c \in Candidates : c.c = "plus" } :
    /\ Reads(r)
    /\ IF r.m /\ ~InMacro THEN Error /\ UNCHANGED <<labels, names, plus, mplus>>
       ELSE /\ SetLabel(NewPlus(PlusName(r), IF r.m THEN mplus[r.d] ELSE plus[r.d]))
            /\ plus'  = IF r.m THEN plus ELSE [plus EXCEPT ![r.d] = @ + 1]
            /\ mplus' = IF r.m THEN [mplus EXCEPT ![r.d] = @ + 1] ELSE mplus
    /\ UNCHANGED <<pos, namespace, sub, minus, called, really, frames, msub, mminus, struct, found>>
Minus ==
  \E r \in { c \in Candidates : c.c = "minus" } :
    /\ Reads(r)
    /\ IF r.m /\ ~InMacro THEN Error /\ UNCHANGED <<labels, names, minus, mminus>>
       ELSE /\ minus'  = IF r.m THEN minus ELSE [minus EXCEPT ![r.d] = @ + 1]
            /\ mminus' = IF r.m THEN [mminus EXCEPT ![r.d] = @ + 1] ELSE mminus
            /\ SetLabel(Append(MinusName(r), Digit[1 + IF r.m THEN mminus'[r.d] ELSE minus'[r.d]]))
    /\ UNCHANGED <<pos, namespace, sub, plus, called, really, frames, msub, mplus, struct, found>>

\* labelvalcore: first in the namespace, then outside of any.
Looked(name) == IF ns \o name \in DOMAIN labels THEN ns \o name ELSE name
Finds(name) ==
  IF name = <<>> THEN Error /\ UNCHANGED found
  ELSE IF Looked(name) \in DOMAIN labels
  THEN found' = [found EXCEPT ![at] = labels[Looked(name)].at] /\ UNCHANGED errored
  ELSE UNCHANGED found /\ errored' = (errored \/ pass > 0)
UseLabel ==
  \E u \in { c \in Candidates : c.c = "use" } :
    /\ Reads(u) /\ Finds(LabelName(u))
    /\ UNCHANGED <<pos, labels, namespace, scope, macro, struct, names>>
UseRelative ==        \* its name goes through labelname, which wants a dot in a struct
  \E u \in { c \in Candidates : c.c \in {"use_plus", "use_minus"} } :
    LET n(global, own) == Digit[1 + IF u.m THEN own[u.d] ELSE global[u.d]]
    IN  /\ Reads(u)
        /\ Finds(IF InStruct \/ (u.m /\ ~InMacro) THEN <<>>
                 ELSE IF u.c = "use_plus" THEN Append(PlusName(u), n(plus, mplus))
                 ELSE Append(MinusName(u), n(minus, mminus)))
        /\ UNCHANGED <<pos, labels, namespace, scope, macro, struct, names>>

-----------------------------------------------------------------------------
(* Namespaces: ns is computed from the list each time the list changes.       *)

Namespace ==
  \E c \in { d \in Candidates : d.c = "namespace" } :
    /\ Reads(c)
    /\ list' = Append(IF nested THEN list ELSE <<>>, c.name) /\ ns' = list'
    /\ UNCHANGED <<errored, pos, labels, nested, slots, depth, scope, macro, struct, names, found>>
NamespaceOff ==
  \E c \in { d \in Candidates : d.c = "namespace_off" } :
    /\ Reads(c)
    /\ list' = (IF nested /\ list # <<>> THEN Front(list) ELSE <<>>) /\ ns' = list'
    /\ UNCHANGED <<errored, pos, labels, nested, slots, depth, scope, macro, struct, names, found>>
NamespaceNested ==
  \E c \in { d \in Candidates : d.c = "namespace_nested" } :
    /\ Reads(c) /\ nested' = c.on /\ ns' = list
    /\ UNCHANGED <<errored, pos, labels, list, slots, depth, scope, macro, struct, names, found>>

\* pushns appends its list to the one that its slot still has.
Pushns ==
  \E c \in { d \in Candidates : d.c = "pushns" } :
    LET k == depth + 1
        left == IF k \in DOMAIN slots THEN slots[k].list ELSE <<>>
        slot == [ns |-> ns, list |-> left \o list, nested |-> nested]
    IN  /\ Reads(c)
        /\ slots' = IF k \in DOMAIN slots THEN [slots EXCEPT ![k] = slot] ELSE Append(slots, slot)
        /\ depth' = k /\ ns' = <<>> /\ list' = <<>> /\ nested' = FALSE
        /\ UNCHANGED <<errored, pos, labels, scope, macro, struct, names, found>>
ListBack_Not == list                   \* does not bring the list back
ListBack == slots[depth].list
Pullns ==
  \E c \in { d \in Candidates : d.c = "pullns" } :
    /\ Reads(c)
    /\ IF depth = 0 THEN Error /\ UNCHANGED namespace
       ELSE /\ ns' = slots[depth].ns /\ nested' = slots[depth].nested /\ list' = ListBack
            /\ depth' = depth - 1 /\ UNCHANGED <<slots, errored>>
    /\ UNCHANGED <<pos, labels, scope, macro, struct, names, found>>

-----------------------------------------------------------------------------
(* Macro calls: each has its own labels, and a number no other call has.      *)

Number_Depth == Len(frames)            \* numbers a call by its depth
Number == really
CallMacro ==
  \E c \in { d \in Candidates : d.c = "call" } :
    /\ Reads(c)
    /\ frames' = Append(frames, [called |-> called, sub |-> msub, plus |-> mplus, minus |-> mminus])
    /\ called' = Number /\ really' = really + 1
    /\ msub' = <<>> /\ mplus' = Zero /\ mminus' = Zero
    /\ UNCHANGED <<errored, pos, labels, namespace, scope, struct, names, found>>
EndMacro ==
  \E c \in { d \in Candidates : d.c = "end_call" } :
    /\ InMacro /\ Reads(c)
    /\ LET f == Last(frames)
       IN  called' = f.called /\ msub' = f.sub /\ mplus' = f.plus /\ mminus' = f.minus
    /\ frames' = Front(frames)
    /\ UNCHANGED <<errored, pos, labels, namespace, scope, really, struct, names, found>>

-----------------------------------------------------------------------------
(* Structs: positions of their own, from which the former one comes back.     *)

\* c.base: "here", an address, or "extends", for which c.parent is a struct.
Struct ==
  \E c \in { d \in Candidates : d.c = "struct" } :
    LET again  == pass = 0 /\ c.name \in DOMAIN structs
        orphan == c.base = "extends" /\ c.parent \notin DOMAIN structs
    IN  /\ Reads(c)
        /\ IF InStruct \/ again
           THEN Error /\ UNCHANGED <<pos, labels, names, in, sname, sparent, sbase, oldPos>>
           ELSE /\ oldPos' = pos
                /\ IF orphan THEN Error /\ UNCHANGED <<pos, labels, names, in, sname, sparent, sbase>>
                   ELSE /\ in' = IF c.base = "extends" THEN "sub" ELSE "struct"
                        /\ pos' = CASE c.base = "here" -> pos
                                    [] c.base = "address" -> c.address
                                    [] c.base = "extends" -> structs[c.parent].end
                        /\ sname' = c.name /\ sbase' = pos'
                        /\ sparent' = IF c.base = "extends" THEN c.parent ELSE sparent
                        /\ LET name == IF c.base = "extends" THEN c.parent \o <<".">> \o c.name
                                                             ELSE c.name
                           IN  /\ names' = [names EXCEPT ![at] = name]
                               /\ IF pass < 2
                                  THEN IF Redefined(name) THEN Error /\ UNCHANGED labels
                                       ELSE /\ labels' = With(labels, name, [pos |-> pos', at |-> at])
                                            /\ UNCHANGED errored
                                  ELSE /\ errored' = (errored \/ name \notin DOMAIN labels
                                                        \/ labels[name].pos # pos')
                                       /\ UNCHANGED labels
        /\ UNCHANGED <<namespace, scope, macro, structs, found>>

PosBack == oldPos
Larger(a, b) == IF a < b THEN b ELSE a
EndStruct ==
  \E c \in { d \in Candidates : d.c = "endstruct" } :
    /\ Reads(c)
    /\ IF ~InStruct THEN Error /\ UNCHANGED <<pos, in, structs>>
       ELSE LET size == pos - sbase
                this == [end |-> pos, size |-> size, object |-> size]
            IN  /\ structs' = IF in = "struct" THEN With(structs, sname, this)
                              ELSE With(With(structs, sparent \o <<".">> \o sname, this), sparent,
                                        [structs[sparent] EXCEPT !.object =
                                           Larger(@, structs[sparent].size + size)])
                /\ in' = "no" /\ pos' = PosBack /\ UNCHANGED errored
    /\ UNCHANGED <<labels, namespace, scope, macro, sname, sparent, sbase, oldPos, names, found>>

Skip ==
  \E c \in { d \in Candidates : d.c = "skip" } :
    /\ Reads(c) /\ pos' = pos + 1
    /\ UNCHANGED <<errored, labels, namespace, scope, macro, struct, names, found>>

-----------------------------------------------------------------------------
\* A macro's end is in the text; a struct, or a namespace that is pushed, may be open.
FinishPass ==
  /\ pass < 3 /\ ~InMacro /\ (IF pass = 0 THEN patch # <<>> ELSE at > Len(patch))
  /\ errored' = (errored \/ InStruct \/ (pass = 0 /\ depth > 0))
  /\ pass' = pass + 1 /\ Fresh
  /\ first' = IF pass = 0 THEN names ELSE first
  /\ names' = IF pass = 2 THEN names ELSE NoNames
  /\ UNCHANGED <<commands, patch, labels, sname, sparent, sbase, structs, oldPos, found>>

Next ==
  \/ Label \/ Plus \/ Minus \/ UseLabel \/ UseRelative \/ Namespace \/ NamespaceOff
  \/ NamespaceNested \/ Pushns \/ Pullns \/ CallMacro \/ EndMacro \/ Struct \/ EndStruct \/ Skip
  \/ FinishPass
Spec == Init /\ [][Next]_vars

-----------------------------------------------------------------------------
(* Properties.                                                               *)

TypeOK ==
  /\ pass \in 0 .. 3 /\ at \in 1 .. MaxLen + 1 /\ errored \in BOOLEAN /\ pos \in Int
  /\ depth \in 0 .. Len(slots) /\ nested \in BOOLEAN /\ in \in {"no", "struct", "sub"}
  /\ \A d \in Depths : plus[d] \in Nat /\ minus[d] \in Nat /\ mplus[d] \in Nat /\ mminus[d] \in Nat
  /\ called \in 0 .. really /\ Len(sub) <= MaxDots + 1 /\ Len(msub) <= MaxDots + 1
  /\ ToSet(found) \subseteq 0 .. MaxLen

\* While the patch has no error, a command defines the same name in every pass:
\* all that names depend on starts anew in initstuff.
SameNameInEveryPass ==
  ~errored => \A i \in 1 .. MaxLen : names[i] # <<>> /\ pass > 0 => names[i] = first[i]

\* The innermost macro call around a command, 0 outside of any.
Count(kind, k, i) == Cardinality({ j \in k .. i - 1 : patch[j].c = kind })
Opened(k, i) == Count("call", k, i) - Count("end_call", k, i)
CallsAround(i) ==
  { k \in 1 .. i - 1 : patch[k].c = "call" /\ \A j \in k + 1 .. i : Opened(k, j) > 0 }
Around(i) == IF CallsAround(i) = {} THEN 0
             ELSE CHOOSE k \in CallsAround(i) : \A j \in CallsAround(i) : j <= k
\* Whether the references of the present pass mean what they will mean at the end.
Final == ~errored /\ pass = 3
References(kinds) == { i \in DOMAIN patch : patch[i].c \in kinds }

\* The labels of the kind a reference wants.
Alike(i) ==
  LET u == patch[i]
  IN  { j \in DOMAIN patch :
          /\ patch[j].c = (IF u.c = "use_plus" THEN "plus" ELSE "minus")
          /\ patch[j].d = u.d /\ patch[j].m = u.m
          /\ u.m => Around(j) = Around(i) }
\* In a patch without errors + finds the next + label of as many signs, and - the
\* last one, in the same macro call for ?+ and ?- (posneglabelname).
RelativeNearest ==
  Final =>
    /\ \A i \in References({"use_plus"}) :
         LET next == { j \in Alike(i) : j > i }
         IN  found[i] \in next /\ \A j \in next : found[i] <= j
    /\ \A i \in References({"use_minus"}) :
         LET last == { j \in Alike(i) : j < i }
         IN  found[i] \in last /\ \A j \in last : j <= found[i]

\* In a patch without errors a macro label is found by the call that defines it,
\* never by an inner, an outer or another one (callmacro).
MacroLabelsStay ==
  Final => \A i \in References({"use"}) : patch[i].m => found[i] # 0 /\ Around(found[i]) = Around(i)

\* The namespace is the one its list says (pushns, pullns): what follows a pullns
\* continues the namespace that was pushed.  Not so where a pushns comes after a
\* pullns: it adds its list to the one that its slot has from before.
Before(i, c) == \E j \in 1 .. i - 1 : patch[j].c = c
NamespaceIsItsList ==
  (\A i \in 1 .. at - 1 : patch[i].c = "pushns" => ~Before(i, "pullns")) => ns = list
=============================================================================
