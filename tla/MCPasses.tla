------------------------------ MODULE MCPasses ------------------------------
(* Small programs for the passes: what the runs instantiate Passes with.   *)
EXTENDS Passes

Fs       == [op |-> "freespace"]
Push     == [op |-> "pushpc"]
Pull     == [op |-> "pullpc"]
Off      == [op |-> "baseoff"]
Org0(a)  == [op |-> "org", at |-> a]
Ram(a)   == [op |-> "base", at |-> a]
Data(n)  == [op |-> "db", n |-> n]
Def(l)   == [op |-> "label", l |-> l]
Ref(l)   == [op |-> "ref", l |-> l]

Count(p, c) == Cardinality({ i \in DOMAIN p : p[i] = c })
SeqsUpTo(S, n) == UNION { [1 .. m -> S] : m \in 1 .. n }

\* Freespaces that refer to each other, forwards and backwards, with pushpc.
FreespacePrograms ==
  { <<Fs>> \o p : p \in SeqsUpTo({Fs, Def("a"), Def("b"), Ref("a"), Ref("b"), Push, Pull}, 5) }

\* Code outside of any freespace, at bank boundaries.  The label "a" comes after
\* a reference that pass 0 cannot measure, so that it may be the last byte of a
\* bank in pass 0 and the first of the next bank from pass 1 on; what was before
\* it in the program refers to it from one bank or the other.
BankPrograms ==
  { <<Org0(y)>> \o p \o <<Org0(x), Ref("b"), Def("a"), Org0(z), Def("b")>> :
      y \in {BankSize, 2 * BankSize}, x \in BankSize - 5 .. BankSize, z \in {0, 3 * BankSize},
      p \in SeqsUpTo({Ref("a"), Def("c"), Ref("c"), Data(1)}, 3) }

\* base that is turned off again before anything takes the position away.
BaseClosed(p) ==
  \A i \in DOMAIN p : p[i].op = "base" =>
    \E j \in i + 1 .. Len(p) :
      /\ p[j] = Off
      /\ \A k \in i + 1 .. j - 1 : p[k].op \in {"base", "db", "label", "ref"}
BasePrograms ==
  { p \in { <<Fs>> \o q : q \in SeqsUpTo({Fs, Ram(100), Off, Def("a"), Ref("a"), Push, Pull}, 5) } :
      BaseClosed(p) }

\* +/- labels that are used in the freespace they are in.
PlusWithin ==
  { p \in { <<Fs>> \o q : q \in SeqsUpTo({Fs, Def("+"), Ref("+"), Def("a"), Ref("a")}, 5) } :
      /\ Count(p, Def("+")) = 1
      /\ \A i, j \in DOMAIN p : p[i] = Ref("+") /\ p[j] = Def("+") =>
           \A k \in DOMAIN p : p[k] = Fs => ~(i < k /\ k < j) /\ ~(j < k /\ k < i) }

\* All of them: what a patch may well be.
OrdinaryPrograms == FreespacePrograms \cup BasePrograms \cup PlusWithin \cup BankPrograms

\* A base that is still on where its freespace ends.
OpenBasePrograms == { <<Fs>> \o p : p \in SeqsUpTo({Fs, Ram(100), Data(1)}, 2) }

MCPool == 8 .. 24
=============================================================================
