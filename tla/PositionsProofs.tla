--------------------------- MODULE PositionsProofs ---------------------------
(***************************************************************************)
(* Theorems about positions and settings: for patches of any commands and  *)
(* any length, any number of patches, any mapper.                          *)
(***************************************************************************)
EXTENDS Positions, MapperProofs, FiniteSetTheorems, SequenceTheorems, WellFoundedInduction, TLAPS

IsList(s) == s \in Seq(Elements(s))

(***************************************************************************)
(* Lemmas about stacks                                                     *)
(***************************************************************************)

\* A sequence over any set is a list.
LEMMA IsListOf ==
  ASSUME NEW S, NEW s \in Seq(S)
  PROVE  IsList(s) /\ Len(s) \in Nat /\ DOMAIN s = 1 .. Len(s)
<1>1. Len(s) \in Nat /\ DOMAIN s = 1 .. Len(s) /\ s = [i \in 1 .. Len(s) |-> s[i]] OBVIOUS
<1>2. s \in [1 .. Len(s) -> Elements(s)] BY <1>1 DEF Elements
<1>. QED BY <1>1, <1>2, SeqDef DEF IsList

\* What a push leaves on a stack.
LEMMA PushList ==
  ASSUME NEW s, IsList(s), NEW x
  PROVE  /\ IsList(Append(s, x)) /\ Len(Append(s, x)) = Len(s) + 1 /\ Len(s) \in Nat
         /\ \A i \in 1 .. Len(s) : Append(s, x)[i] = s[i]
         /\ Append(s, x)[Len(s) + 1] = x
<1>1. s \in Seq(Elements(s) \cup {x})
  <2>1. s \in [1 .. Len(s) -> Elements(s)] /\ Len(s) \in Nat BY DEF IsList
  <2>2. s \in [1 .. Len(s) -> Elements(s) \cup {x}] BY <2>1
  <2>. QED BY <2>1, <2>2, SeqDef
<1>2. Append(s, x) \in Seq(Elements(s) \cup {x}) BY <1>1
<1>3. IsList(Append(s, x)) BY <1>2, IsListOf
<1>. QED BY <1>1, <1>3, AppendProperties

\* What a pull leaves on it.
LEMMA PopList ==
  ASSUME NEW s, IsList(s), Len(s) > 0
  PROVE  /\ IsList(Pop(s)) /\ Len(Pop(s)) = Len(s) - 1 /\ Len(s) \in Nat
         /\ \A i \in 1 .. Len(s) - 1 : Pop(s)[i] = s[i]
<1>1. Len(s) \in Nat /\ s \in Seq(Elements(s)) BY DEF IsList
<1>3. PICK n \in Nat : n = Len(s) BY <1>1
<1>4. \A i \in 1 .. n - 1 : s[i] \in Elements(s) BY <1>1, <1>3
<1>5. \A m \in Nat : m > 0 => (IF 1 <= m - 1 THEN m - 1 - 1 + 1 ELSE 0) = m - 1 OBVIOUS
<1>6. /\ SubSeq(s, 1, n - 1) \in Seq(Elements(s))
      /\ Len(SubSeq(s, 1, n - 1)) = IF 1 <= n - 1 THEN n - 1 - 1 + 1 ELSE 0
      /\ \A i \in 1 .. n - 1 - 1 + 1 : SubSeq(s, 1, n - 1)[i] = s[1 + i - 1]
  BY <1>1, <1>3, <1>4, SubSeqProperties
<1>7. Pop(s) = SubSeq(s, 1, n - 1) BY <1>3 DEF Pop
<1>8. Len(Pop(s)) = n - 1 BY <1>5, <1>6, <1>7, <1>3
<1>9. IsList(Pop(s)) BY <1>6, <1>7, IsListOf
<1>10. \A i \in 1 .. n - 1 : Pop(s)[i] = s[i] BY <1>6, <1>7, <1>3
<1>. QED BY <1>1, <1>3, <1>8, <1>9, <1>10

(***************************************************************************)
(* Pushes and pulls of a patch                                             *)
(***************************************************************************)

\* k is the push of the d-th element from the top, before command i.
Opens(q, push, pull, i, d, k) ==
  /\ k \in 1 .. i - 1 /\ q[k].c = push /\ Level(q, push, pull, k, i) = d
  /\ \A j \in 1 .. i - 1 : q[j].c = push /\ Level(q, push, pull, j, i) = d => j <= k

Same(q, r, n) == \A j \in 1 .. n : q[j] = r[j]

LEMMA CountType ==
  ASSUME NEW q, NEW kind, NEW k \in Nat, NEW i \in Nat
  PROVE  /\ Count(q, kind, k, i) \in Nat
         /\ IsFiniteSet({ j \in k .. i - 1 : q[j].c = kind })
<1>1. IsFiniteSet(k .. i - 1) BY FS_Interval
<1>2. { j \in k .. i - 1 : q[j].c = kind } \in SUBSET (k .. i - 1) OBVIOUS
<1>3. IsFiniteSet({ j \in k .. i - 1 : q[j].c = kind }) BY <1>1, <1>2, FS_Subset
<1>. QED BY <1>3, FS_CardinalityType DEF Count

LEMMA CountNext ==
  ASSUME NEW q, NEW kind, NEW k \in Nat, NEW i \in Nat, k <= i
  PROVE  Count(q, kind, k, i + 1) = Count(q, kind, k, i) + IF q[i].c = kind THEN 1 ELSE 0
<1> DEFINE C == { j \in k .. i - 1 : q[j].c = kind }
<1>1. IsFiniteSet(C) /\ Count(q, kind, k, i) \in Nat BY CountType
<1>2. i \notin C OBVIOUS
<1>3. CASE q[i].c = kind
  <2>1. { j \in k .. (i + 1) - 1 : q[j].c = kind } = C \cup {i} BY <1>3
  <2>. QED BY <1>1, <1>2, <1>3, <2>1, FS_AddElement DEF Count
<1>4. CASE q[i].c # kind
  <2>1. { j \in k .. (i + 1) - 1 : q[j].c = kind } = C BY <1>4
  <2>2. Count(q, kind, k, i + 1) = Count(q, kind, k, i) BY <2>1 DEF Count
  <2>. QED BY <1>1, <1>4, <2>2
<1>. QED BY <1>3, <1>4

LEMMA CountEmpty ==
  ASSUME NEW q, NEW kind, NEW i \in Nat
  PROVE  Count(q, kind, i, i) = 0
<1>1. { j \in i .. i - 1 : q[j].c = kind } = {} OBVIOUS
<1>. QED BY <1>1, FS_EmptySet DEF Count

LEMMA LevelNext ==
  ASSUME NEW q, NEW push, NEW pull, push # pull, NEW k \in Nat, NEW i \in Nat, k <= i
  PROVE  /\ Level(q, push, pull, k, i) \in Int
         /\ Level(q, push, pull, i, i) = 0
         /\ Level(q, push, pull, k, i + 1) = Level(q, push, pull, k, i)
              + IF q[i].c = push THEN 1 ELSE IF q[i].c = pull THEN -1 ELSE 0
<1>1. /\ Count(q, push, k, i) \in Nat /\ Count(q, pull, k, i) \in Nat
      /\ Count(q, push, i, i) = 0 /\ Count(q, pull, i, i) = 0
  BY CountType, CountEmpty
<1>2. /\ Count(q, push, k, i + 1) = Count(q, push, k, i) + IF q[i].c = push THEN 1 ELSE 0
      /\ Count(q, pull, k, i + 1) = Count(q, pull, k, i) + IF q[i].c = pull THEN 1 ELSE 0
  BY CountNext
<1>. QED BY <1>1, <1>2 DEF Level

\* They are determined by the commands so far.
LEMMA LevelSame ==
  ASSUME NEW q, NEW r, NEW push, NEW pull, NEW k \in Nat, NEW i \in Nat, k >= 1, Same(q, r, i - 1)
  PROVE  Level(q, push, pull, k, i) = Level(r, push, pull, k, i)
<1>1. { j \in k .. i - 1 : q[j].c = push } = { j \in k .. i - 1 : r[j].c = push } BY DEF Same
<1>2. { j \in k .. i - 1 : q[j].c = pull } = { j \in k .. i - 1 : r[j].c = pull } BY DEF Same
<1>. QED BY <1>1, <1>2 DEF Level, Count

LEMMA PairSame ==
  ASSUME NEW q, NEW r, NEW push, NEW pull, NEW i \in Nat, Same(q, r, i - 1)
  PROVE  Pair(q, push, pull, i) = Pair(r, push, pull, i)
<1>1. \A k \in 1 .. i - 1 : q[k].c = r[k].c BY DEF Same
<1>2. \A k \in 1 .. i - 1 : Level(q, push, pull, k, i) = Level(r, push, pull, k, i) BY LevelSame
<1>3. { k \in 1 .. i - 1 : q[k].c = push /\ Level(q, push, pull, k, i) = 1 }
        = { k \in 1 .. i - 1 : r[k].c = push /\ Level(r, push, pull, k, i) = 1 }
  BY <1>1, <1>2
<1> DEFINE latest(S) == IF S = {} THEN 0 ELSE CHOOSE k \in S : \A j \in S : j <= k
<1>4. /\ Pair(q, push, pull, i)
           = latest({ k \in 1 .. i - 1 : q[k].c = push /\ Level(q, push, pull, k, i) = 1 })
      /\ Pair(r, push, pull, i)
           = latest({ k \in 1 .. i - 1 : r[k].c = push /\ Level(r, push, pull, k, i) = 1 })
  BY Zenon DEF Pair
<1> HIDE DEF latest
<1>. QED BY ONLY <1>3, <1>4

LEMMA OpensSame ==
  ASSUME NEW q, NEW r, NEW push, NEW pull, NEW i \in Nat, Same(q, r, i - 1), NEW d, NEW k,
         Opens(q, push, pull, i, d, k)
  PROVE  Opens(r, push, pull, i, d, k)
<1>1. \A j \in 1 .. i - 1 : q[j].c = r[j].c BY DEF Same
<1>2. \A j \in 1 .. i - 1 : Level(q, push, pull, j, i) = Level(r, push, pull, j, i) BY LevelSame
<1>. QED BY <1>1, <1>2 DEF Opens

\* The pair of a pull is the push of the element on top.
LEMMA PairOpens ==
  ASSUME NEW q, NEW push, NEW pull, NEW i \in Nat, NEW k, Opens(q, push, pull, i, 1, k)
  PROVE  Pair(q, push, pull, i) = k /\ k \in 1 .. i - 1
<1> DEFINE open == { j \in 1 .. i - 1 : q[j].c = push /\ Level(q, push, pull, j, i) = 1 }
<1>1. k \in open /\ k \in 1 .. i - 1 /\ \A j \in open : j <= k BY DEF Opens
<1>2. \A m \in open : (\A j \in open : j <= m) => m = k BY <1>1
<1>3. Pair(q, push, pull, i) = CHOOSE m \in open : \A j \in open : j <= m BY <1>1 DEF Pair
<1> HIDE DEF open
<1>. QED BY <1>1, <1>2, <1>3

LEMMA OpensNext ==
  ASSUME NEW q, NEW push, NEW pull, push # pull, NEW i \in Nat, i >= 1
  PROVE  /\ q[i].c = push =>
              /\ Opens(q, push, pull, i + 1, 1, i)
              /\ \A d \in Nat, k \in 1 .. i - 1 :
                   d >= 1 /\ Opens(q, push, pull, i, d, k) => Opens(q, push, pull, i + 1, d + 1, k)
         /\ q[i].c = pull => \A d \in Nat, k \in 1 .. i - 1 :
              Opens(q, push, pull, i, d + 1, k) => Opens(q, push, pull, i + 1, d, k)
         /\ q[i].c \notin {push, pull} => \A d \in Nat, k \in 1 .. i - 1 :
              Opens(q, push, pull, i, d, k) => Opens(q, push, pull, i + 1, d, k)
<1> DEFINE L(j, m) == Level(q, push, pull, j, m)
           step == IF q[i].c = push THEN 1 ELSE IF q[i].c = pull THEN -1 ELSE 0
<1>1. \A j \in 1 .. i : L(j, i) \in Int /\ L(j, i + 1) = L(j, i) + step BY LevelNext
<1>2. L(i, i) = 0 BY LevelNext
<1>3. \A j \in 1 .. i : j \in 1 .. (i + 1) - 1 OBVIOUS
<1>4. \A d, k : Opens(q, push, pull, i, d, k) <=>
        /\ k \in 1 .. i - 1 /\ q[k].c = push /\ L(k, i) = d
        /\ \A j \in 1 .. i - 1 : q[j].c = push /\ L(j, i) = d => j <= k
  BY DEF Opens
<1>5. \A d, k : Opens(q, push, pull, i + 1, d, k) <=>
        /\ k \in 1 .. i /\ q[k].c = push /\ L(k, i + 1) = d
        /\ \A j \in 1 .. i : q[j].c = push /\ L(j, i + 1) = d => j <= k
  BY DEF Opens
<1> HIDE DEF L
<1>6. CASE q[i].c = push
  <2>1. \A j \in 1 .. i : L(j, i) \in Int /\ L(j, i + 1) = L(j, i) + 1 BY <1>1, <1>6
  <2>2. L(i, i + 1) = 1 BY <2>1, <1>2
  <2>3. Opens(q, push, pull, i + 1, 1, i) BY <1>5, <1>6, <2>2
  <2>4. ASSUME NEW d \in Nat, NEW k \in 1 .. i - 1, d >= 1, Opens(q, push, pull, i, d, k)
        PROVE  Opens(q, push, pull, i + 1, d + 1, k)
    <3>1. k \in 1 .. i /\ q[k].c = push /\ L(k, i + 1) = d + 1 BY <1>4, <2>1, <2>4
    <3>2. ASSUME NEW j \in 1 .. i, q[j].c = push, L(j, i + 1) = d + 1 PROVE j <= k
      <4>1. j # i BY <2>2, <3>2, <2>4
      <4>2. j \in 1 .. i - 1 /\ L(j, i) = d BY <4>1, <3>2, <2>1
      <4>. QED BY <4>2, <3>2, <1>4, <2>4
    <3>. QED BY <3>1, <3>2, <1>5
  <2>. QED BY <1>6, <2>3, <2>4
<1>7. CASE q[i].c = pull
  <2>1. \A j \in 1 .. i : L(j, i) \in Int /\ L(j, i + 1) = L(j, i) - 1 BY <1>1, <1>7
  <2>4. ASSUME NEW d \in Nat, NEW k \in 1 .. i - 1, Opens(q, push, pull, i, d + 1, k)
        PROVE  Opens(q, push, pull, i + 1, d, k)
    <3>1. k \in 1 .. i /\ q[k].c = push /\ L(k, i + 1) = d BY <1>4, <2>1, <2>4
    <3>2. ASSUME NEW j \in 1 .. i, q[j].c = push, L(j, i + 1) = d PROVE j <= k
      <4>1. j # i BY <3>2, <1>7
      <4>2. j \in 1 .. i - 1 /\ L(j, i) = d + 1 BY <4>1, <3>2, <2>1
      <4>. QED BY <4>2, <3>2, <1>4, <2>4
    <3>. QED BY <3>1, <3>2, <1>5
  <2>. QED BY <1>7, <2>4
<1>8. CASE q[i].c \notin {push, pull}
  <2>1. \A j \in 1 .. i : L(j, i) \in Int /\ L(j, i + 1) = L(j, i) BY <1>1, <1>8
  <2>4. ASSUME NEW d \in Nat, NEW k \in 1 .. i - 1, Opens(q, push, pull, i, d, k)
        PROVE  Opens(q, push, pull, i + 1, d, k)
    <3>1. k \in 1 .. i /\ q[k].c = push /\ L(k, i + 1) = d BY <1>4, <2>1, <2>4
    <3>2. ASSUME NEW j \in 1 .. i, q[j].c = push, L(j, i + 1) = d PROVE j <= k
      <4>1. j # i BY <3>2, <1>8
      <4>2. j \in 1 .. i - 1 /\ L(j, i) = d BY <4>1, <3>2, <2>1
      <4>. QED BY <4>2, <3>2, <1>4, <2>4
    <3>. QED BY <3>1, <3>2, <1>5
  <2>. QED BY <1>8, <2>4
<1>. QED BY <1>6, <1>7, <1>8

(***************************************************************************)
(* The invariant                                                           *)
(***************************************************************************)

\* Command i of patch q lies in a spcblock, and in one that has an address to execute.
InBlock(q, i) ==
  \E j \in 1 .. i - 1 : q[j].c = "spcblock" /\ \A k \in j + 1 .. i - 1 : q[k].c # "endspcblock"
Started(q, i) ==
  \E j \in 1 .. i - 1 : q[j].c = "startpos" /\ \A k \in j + 1 .. i - 1 : q[k].c # "spcblock"

\* The commands that do nothing but change one setting.
Setters == {"check", "table", "fillbyte", "padbyte", "freespacebyte", "dpbase", "optimize", "bank", "math"}

\* What command c makes of the position and settings x, in a block or not, with the
\* marks of the pushes that it would pull: a function of no stack, block or ROM.
PosOf(c, x, in, started, pc, base) ==
  LET s == x.set
      p == x.pos
      len == snestopc(s.mapper, c.a) - snestopc(s.mapper, From(p))
      r == Range_(c)
  IN
  CASE c.c = "db"       -> Walk(s, p, c.n).pos
    [] c.c = "org"      -> IF in THEN p ELSE Everywhere(c.a)
    [] c.c = "base"     -> Displayed(p, c.a)
    [] c.c = "base_off" -> [p EXCEPT !.snes = p.real, !.start = p.rstart]
    [] c.c = "skip"     -> Stepped(s, p, Amount(c, p))
    [] c.c = "fill"     -> Walk(s, p, Amount(c, p)).pos
    [] c.c = "pad"      -> IF Above(p.real) = 0 /\ c.a > p.real /\ len > 0 THEN Walk(s, p, len).pos ELSE p
    [] c.c = "incbin"   -> IF Outside(r) THEN p ELSE Walk(s, p, r.to - r.from).pos
    [] c.c = "spcblock" -> Displayed(Walk(s, p, 4).pos, c.dest)
    [] c.c = "endspcblock" -> IF in THEN Walk(s, p, IF c.execute \/ started THEN 4 ELSE 0).pos ELSE p
    [] c.c = "pushpc"   -> Nowhere
    [] c.c = "pullpc"   -> IF s.arch # pc.set.arch THEN p ELSE pc.pos
    [] c.c = "pullbase" -> Displayed(p, base.pos.snes)
    [] OTHER            -> p
SetOf(c, x, in, base, table) ==
  LET s == x.set
  IN
  CASE c.c = "base"      -> [s EXCEPT !.bank = "auto"]
    [] c.c = "pullbase"  -> [s EXCEPT !.bank = IF base.pos.snes # x.pos.rstart THEN "auto" ELSE @]
    [] c.c = "pulltable" -> [s EXCEPT !.table = table.set.table]
    [] c.c = "mapper"    -> [s EXCEPT !.mapper = c.m]
    [] c.c = "arch"      -> IF in THEN s ELSE [s EXCEPT !.arch = c.arch]
    [] c.c \in Setters   -> [s EXCEPT ![c.of] = c.value]
    [] OTHER             -> s

\* The mark of the push that a pull at i is for, among the marks m of patch q.
Pulled(q, m, push, pull, i) ==
  LET k == Pair(q, push, pull, i) IN IF k \in 1 .. i - 1 THEN m[k] ELSE m[i]
Result(q, m, i) ==
  LET pc    == Pulled(q, m, "pushpc", "pullpc", i)
      base  == Pulled(q, m, "pushbase", "pullbase", i)
      table == Pulled(q, m, "pushtable", "pulltable", i)
  IN  [pos |-> PosOf(q[i], m[i], InBlock(q, i), Started(q, i), pc, base),
       set |-> SetOf(q[i], m[i], InBlock(q, i), base, table)]

\* A pull of a patch without errors has its push.
HasPush(q, push, pull, i) ==
  q[i].c = pull => Level(q, push, pull, 1, i) >= 1 /\ Pair(q, push, pull, i) \in 1 .. i - 1
Paired(q, m, i) ==
  /\ HasPush(q, "pushpc", "pullpc", i)
  /\ HasPush(q, "pushbase", "pullbase", i)
  /\ HasPush(q, "pushtable", "pulltable", i)
  /\ q[i].c = "pullpc" => m[i].set.arch = Pulled(q, m, "pushpc", "pullpc", i).set.arch

\* The marks of a reading of the first n - 1 commands of q.
Reading(q, m, n) ==
  /\ m[1] = [pos |-> Nowhere, set |-> Defaults]
  /\ \A i \in 1 .. n - 1 : m[i + 1] = Result(q, m, i) /\ Paired(q, m, i)

\* The elements that this pass has pushed and not pulled are those of the open pushes;
\* in pass 0 (exact) there are no others.
Saved(push, x) ==
  CASE push = "pushpc"   -> [arch |-> x.set.arch, pos |-> x.pos]
    [] push = "pushbase" -> x.pos.snes
    [] OTHER             -> x.set.table
Stack(q, m, n, stack, push, pull, exact) ==
  LET level == Level(q, push, pull, 1, n) IN
  /\ level >= 0 /\ Len(stack) >= level
  /\ exact => Len(stack) = level
  /\ \A d \in 1 .. level : \E k \in 1 .. n - 1 :
       Opens(q, push, pull, n, d, k) /\ stack[Len(stack) - d + 1] = Saved(push, m[k])

\* The marks, with the one of the command that is next.
Here == [pos |-> pos, set |-> set]
Seen == [marks EXCEPT ![at] = Here]

StacksInv ==
  /\ Stack(patch, Seen, at, pcs, "pushpc", "pullpc", pass = 0)
  /\ Stack(patch, Seen, at, bases, "pushbase", "pullbase", pass = 0)
  /\ Stack(patch, Seen, at, tables, "pushtable", "pulltable", pass = 0)
BlockInv ==
  /\ spc.in = InBlock(patch, at)
  /\ spc.in => (spc.execute # None <=> Started(patch, at))

Calm == ~errored /\ ~stale
ShapeInv ==
  /\ commands \in CommandSets /\ pass \in 0 .. 3 /\ errored \in BOOLEAN /\ stale \in BOOLEAN
  /\ IsList(patch) /\ Len(patch) <= commands.len
  /\ pass < 3 => at \in 1 .. Len(patch) + 1
  /\ pass = 0 => at = Len(patch) + 1
  /\ DOMAIN marks = 1 .. MaxLen + 1 /\ DOMAIN first = 1 .. MaxLen + 1
  /\ DOMAIN spc = DOMAIN NoBlock
TypedInv ==
  Calm =>
    /\ IsList(pcs) /\ IsList(bases) /\ IsList(tables) /\ spc.in \in BOOLEAN
    /\ DOMAIN set = DOMAIN Defaults
    /\ \A i \in 1 .. MaxLen + 1 : DOMAIN marks[i].set = DOMAIN Defaults
ReadInv ==
  Calm /\ pass < 3 => Reading(patch, Seen, at) /\ StacksInv /\ BlockInv
FirstInv ==
  Calm /\ pass \in {1, 2} =>
    /\ Reading(patch, first, Len(patch) + 1)
    /\ ~InBlock(patch, Len(patch) + 1)
    /\ \A i \in 1 .. at : Seen[i] = first[i]
LastInv == Calm /\ pass = 3 => Reading(patch, marks, Len(patch) + 1)
Inv == ShapeInv /\ TypedInv /\ ReadInv /\ FirstInv /\ LastInv

(***************************************************************************)
(* Lemmas about a reading                                                  *)
(***************************************************************************)

\* Only the commands and marks up to a command matter to it.
LEMMA BlockSame ==
  ASSUME NEW q, NEW r, NEW i \in Nat, i >= 1, Same(q, r, i - 1)
  PROVE  InBlock(q, i) = InBlock(r, i) /\ Started(q, i) = Started(r, i)
<1>1. \A j \in 1 .. i - 1 : q[j] = r[j] BY DEF Same
<1>2. InBlock(q, i) = InBlock(r, i) BY <1>1 DEF InBlock
<1>3. Started(q, i) = Started(r, i) BY <1>1 DEF Started
<1>. QED BY <1>2, <1>3

LEMMA PulledSame ==
  ASSUME NEW q, NEW r, NEW m, NEW n, NEW push, NEW pull, NEW i \in Nat, i >= 1,
         Same(q, r, i - 1), Same(m, n, i)
  PROVE  Pulled(q, m, push, pull, i) = Pulled(r, n, push, pull, i)
<1>1. Pair(q, push, pull, i) = Pair(r, push, pull, i) BY PairSame
<1>2. \A j \in 1 .. i : m[j] = n[j] BY DEF Same
<1>3. \A j \in 1 .. i - 1 : m[j] = n[j] BY <1>2
<1>4. m[i] = n[i] BY <1>2
<1>. QED BY <1>1, <1>3, <1>4 DEF Pulled

LEMMA ResultSame ==
  ASSUME NEW q, NEW r, NEW m, NEW n, NEW i \in Nat, i >= 1,
         Same(q, r, i), Same(m, n, i)
  PROVE  /\ Result(q, m, i) = Result(r, n, i)
         /\ Paired(q, m, i) <=> Paired(r, n, i)
<1>1. Same(q, r, i - 1) /\ q[i] = r[i] /\ m[i] = n[i] BY DEF Same
<1>2. InBlock(q, i) = InBlock(r, i) /\ Started(q, i) = Started(r, i) BY <1>1, BlockSame
<1>3. /\ Pulled(q, m, "pushpc", "pullpc", i) = Pulled(r, n, "pushpc", "pullpc", i)
      /\ Pulled(q, m, "pushbase", "pullbase", i) = Pulled(r, n, "pushbase", "pullbase", i)
      /\ Pulled(q, m, "pushtable", "pulltable", i) = Pulled(r, n, "pushtable", "pulltable", i)
  BY <1>1, PulledSame
<1>4. Result(q, m, i) = Result(r, n, i) BY <1>1, <1>2, <1>3, Zenon DEF Result
<1>5. \A push, pull : HasPush(q, push, pull, i) <=> HasPush(r, push, pull, i)
  <2>1. ASSUME NEW push, NEW pull PROVE HasPush(q, push, pull, i) <=> HasPush(r, push, pull, i)
    <3>1. Pair(q, push, pull, i) = Pair(r, push, pull, i) BY <1>1, PairSame
    <3>2. Level(q, push, pull, 1, i) = Level(r, push, pull, 1, i) BY <1>1, LevelSame
    <3>. QED BY <3>1, <3>2, <1>1, Zenon DEF HasPush
  <2>. QED BY <2>1
<1>6. Paired(q, m, i) <=> Paired(r, n, i) BY <1>1, <1>3, <1>5, Zenon DEF Paired
<1>. QED BY <1>4, <1>6

LEMMA ReadingSame ==
  ASSUME NEW q, NEW r, NEW m, NEW n, NEW i \in Nat, i >= 1,
         Same(q, r, i - 1), Same(m, n, i), Reading(q, m, i)
  PROVE  Reading(r, n, i)
<1>1. m[1] = n[1] BY DEF Same
<1>2. ASSUME NEW j \in 1 .. i - 1 PROVE n[j + 1] = Result(r, n, j) /\ Paired(r, n, j)
  <2>1. Same(q, r, j) /\ Same(m, n, j) /\ j \in Nat /\ j >= 1 BY DEF Same
  <2>2. m[j + 1] = n[j + 1] BY DEF Same
  <2>3. m[j + 1] = Result(q, m, j) /\ Paired(q, m, j) BY DEF Reading
  <2>4. Result(q, m, j) = Result(r, n, j) /\ (Paired(q, m, j) <=> Paired(r, n, j)) BY <2>1, ResultSame
  <2>. QED BY <2>2, <2>3, <2>4, Zenon
<1>. QED BY <1>1, <1>2 DEF Reading

LEMMA ReadingNext ==
  ASSUME NEW q, NEW m, NEW i \in Nat, i >= 1,
         Reading(q, m, i), m[i + 1] = Result(q, m, i), Paired(q, m, i)
  PROVE  Reading(q, m, i + 1)
<1>1. ASSUME NEW j \in 1 .. (i + 1) - 1 PROVE m[j + 1] = Result(q, m, j) /\ Paired(q, m, j)
  <2>1. CASE j = i BY <2>1, Zenon
  <2>2. CASE j # i
    <3>1. j \in 1 .. i - 1 BY <2>2
    <3>. QED BY <3>1 DEF Reading
  <2>. QED BY <2>1, <2>2
<1>. QED BY <1>1 DEF Reading

\* What a command does to a stack.
Moves(c, x, stack, next, push, pull) ==
  /\ c.c = push => next = Append(stack, Saved(push, x))
  /\ c.c = pull => next = Pop(stack)
  /\ c.c \notin {push, pull} => next = stack

LEMMA StackNext ==
  ASSUME NEW q, NEW r, NEW m, NEW n, NEW i \in Nat, i >= 1, Same(q, r, i - 1), Same(m, n, i),
         NEW push, NEW pull, push # pull, NEW exact, NEW stack, NEW next, IsList(stack),
         Stack(q, m, i, stack, push, pull, exact), HasPush(r, push, pull, i),
         Moves(r[i], m[i], stack, next, push, pull)
  PROVE  IsList(next) /\ Stack(r, n, i + 1, next, push, pull, exact)
<1> DEFINE l == Level(r, push, pull, 1, i)
           h == Len(stack)
<1>1. h \in Nat BY DEF IsList
<1>2. /\ l \in Int
      /\ Level(r, push, pull, 1, i + 1) = l + IF r[i].c = push THEN 1 ELSE IF r[i].c = pull THEN -1 ELSE 0
  BY LevelNext
<1>3. l = Level(q, push, pull, 1, i) BY LevelSame
<1>4. /\ l >= 0 /\ h >= l /\ (exact => h = l)
      /\ \A d \in 1 .. l : \E k \in 1 .. i - 1 :
           Opens(r, push, pull, i, d, k) /\ stack[h - d + 1] = Saved(push, n[k])
  <2>1. /\ l >= 0 /\ h >= l /\ (exact => h = l)
        /\ \A d \in 1 .. l : \E k \in 1 .. i - 1 :
             Opens(q, push, pull, i, d, k) /\ stack[h - d + 1] = Saved(push, m[k])
    BY <1>3 DEF Stack
  <2>2. \A k \in 1 .. i - 1 : m[k] = n[k] BY DEF Same
  <2>3. \A d, k : Opens(q, push, pull, i, d, k) => Opens(r, push, pull, i, d, k) BY OpensSame
  <2> HIDE DEF l, h
  <2>. QED BY <2>1, <2>2, <2>3
<1>5. r[i].c = pull => l >= 1 BY DEF HasPush
<1>6. SUFFICES ASSUME NEW t, t = Len(next),
                      NEW lev, lev = Level(r, push, pull, 1, i + 1)
               PROVE  /\ IsList(next) /\ lev >= 0 /\ t >= lev /\ (exact => t = lev)
                      /\ \A d \in 1 .. lev : \E k \in 1 .. i :
                           Opens(r, push, pull, i + 1, d, k) /\ next[t - d + 1] = Saved(push, n[k])
  BY SMTT(30) DEF Stack
<1> HIDE DEF l, h
<1>7. CASE r[i].c = push
  <2>1. lev = l + 1 BY <1>2, <1>6, <1>7
  <2>2. next = Append(stack, Saved(push, m[i])) BY <1>7 DEF Moves
  <2>3. m[i] = n[i] BY DEF Same
  <2>4. /\ IsList(next) /\ t = h + 1 /\ next[h + 1] = Saved(push, n[i])
        /\ \A j \in 1 .. h : next[j] = stack[j]
    BY <2>2, <2>3, PushList, <1>6 DEF h
  <2>5. ASSUME NEW d \in 1 .. lev
        PROVE  \E k \in 1 .. i : Opens(r, push, pull, i + 1, d, k) /\ next[t - d + 1] = Saved(push, n[k])
    <3>1. CASE d = 1
      <4>1. Opens(r, push, pull, i + 1, 1, i) BY <1>7, OpensNext
      <4>2. t - d + 1 = h + 1 BY <3>1, <2>4, <1>1
      <4>. QED BY <4>1, <4>2, <3>1, <2>4
    <3>2. CASE d # 1
      <4>1. PICK e \in 1 .. l : d = e + 1 BY <3>2, <2>1, <1>2
      <4>2. PICK k \in 1 .. i - 1 : Opens(r, push, pull, i, e, k) /\ stack[h - e + 1] = Saved(push, n[k])
        BY <1>4
      <4>3. Opens(r, push, pull, i + 1, e + 1, k) BY <4>2, <1>7, OpensNext
      <4>4. t - d + 1 = h - e + 1 /\ h - e + 1 \in 1 .. h BY <4>1, <2>4, <1>1, <1>4, <1>2
      <4>5. next[t - d + 1] = Saved(push, n[k]) BY <4>4, <4>2, <2>4
      <4>. QED BY <4>1, <4>3, <4>5
    <3>. QED BY <3>1, <3>2
  <2>. QED BY <2>1, <2>4, <2>5, <1>1, <1>2, <1>4
<1>8. CASE r[i].c = pull
  <2>1. lev = l - 1 /\ l >= 1 BY <1>2, <1>5, <1>6, <1>8
  <2>2. next = Pop(stack) /\ h > 0 BY <1>8, <2>1, <1>1, <1>2, <1>4 DEF Moves
  <2>4. /\ IsList(next) /\ t = h - 1
        /\ \A j \in 1 .. h - 1 : next[j] = stack[j]
    BY <2>2, PopList, <1>6 DEF h
  <2>5. ASSUME NEW d \in 1 .. lev
        PROVE  \E k \in 1 .. i : Opens(r, push, pull, i + 1, d, k) /\ next[t - d + 1] = Saved(push, n[k])
    <3>1. d + 1 \in 1 .. l /\ d \in Nat BY <2>1, <1>2
    <3>2. PICK k \in 1 .. i - 1 : Opens(r, push, pull, i, d + 1, k) /\ stack[h - (d + 1) + 1] = Saved(push, n[k])
      BY <1>4, <3>1
    <3>3. Opens(r, push, pull, i + 1, d, k) BY <3>1, <3>2, <1>8, OpensNext
    <3>4. t - d + 1 = h - (d + 1) + 1 /\ t - d + 1 \in 1 .. h - 1 BY <2>1, <2>4, <1>1, <1>4, <1>2
    <3>5. next[t - d + 1] = Saved(push, n[k]) BY <3>4, <3>2, <2>4
    <3>. QED BY <3>3, <3>5
  <2>. QED BY <2>1, <2>4, <2>5, <1>1, <1>2, <1>4
<1>9. CASE r[i].c \notin {push, pull}
  <2>1. lev = l BY <1>2, <1>6, <1>9
  <2>2. next = stack /\ t = h BY <1>9, <1>6 DEF Moves, h
  <2>3. ASSUME NEW d \in 1 .. l
        PROVE  \E k \in 1 .. i : Opens(r, push, pull, i + 1, d, k) /\ stack[h - d + 1] = Saved(push, n[k])
    <3>1. d \in Nat BY <1>2
    <3>2. PICK k \in 1 .. i - 1 : Opens(r, push, pull, i, d, k) /\ stack[h - d + 1] = Saved(push, n[k])
      BY <1>4
    <3>3. Opens(r, push, pull, i + 1, d, k) BY <3>1, <3>2, <1>9, OpensNext
    <3>. QED BY <3>2, <3>3
  <2>. QED BY <2>1, <2>2, <2>3, <1>4
<1>. QED BY <1>7, <1>8, <1>9

\* The element on top is that of the pull's push.
LEMMA StackTop ==
  ASSUME NEW q, NEW m, NEW i \in Nat, i >= 1, NEW push, NEW pull, push # pull, NEW exact, NEW stack, IsList(stack),
         Stack(q, m, i, stack, push, pull, exact), Level(q, push, pull, 1, i) >= 1
  PROVE  /\ Pair(q, push, pull, i) \in 1 .. i - 1
         /\ stack # <<>>
         /\ Top(stack) = Saved(push, Pulled(q, m, push, pull, i))
<1>1. Level(q, push, pull, 1, i) \in Int BY LevelNext
<1>2. 1 \in 1 .. Level(q, push, pull, 1, i) BY <1>1
<1>3. PICK k \in 1 .. i - 1 :
        Opens(q, push, pull, i, 1, k) /\ stack[Len(stack) - 1 + 1] = Saved(push, m[k])
  BY <1>2 DEF Stack
<1>4. Pair(q, push, pull, i) = k /\ k \in 1 .. i - 1 BY <1>3, PairOpens
<1>5. Len(stack) \in Nat /\ Len(stack) >= 1 BY <1>1 DEF Stack, IsList
<1>6. stack # <<>> BY <1>5
<1>7. Top(stack) = Saved(push, m[k])
  <2>1. Len(stack) - 1 + 1 = Len(stack) BY <1>5
  <2>. QED BY <1>3, <2>1 DEF Top
<1>8. Pulled(q, m, push, pull, i) = m[k] BY <1>4 DEF Pulled
<1>. QED BY <1>4, <1>6, <1>7, <1>8

(***************************************************************************)
(* What each command does in a patch without errors                        *)
(***************************************************************************)

\* What it does to the block of a spcblock.
BlockMoves(c) ==
  /\ DOMAIN spc' = DOMAIN NoBlock /\ spc'.in \in BOOLEAN
  /\ c.c = "spcblock" => spc'.in /\ spc'.execute = None
  /\ c.c = "endspcblock" => ~spc'.in
  /\ c.c = "startpos" => spc'.in = spc.in /\ (spc.in => spc'.execute # None)
  /\ c.c \notin {"spcblock", "endspcblock", "startpos"} =>
       spc'.in = spc.in /\ spc'.execute = spc.execute
Effect(c) ==
  /\ Reads(c) /\ pass' = pass /\ ~errored
  /\ Here' = Result(patch', Seen, at) /\ DOMAIN set' = DOMAIN Defaults
  /\ Paired(patch', Seen, at)
  /\ Moves(c, Here, pcs, pcs', "pushpc", "pullpc")
  /\ Moves(c, Here, bases, bases', "pushbase", "pullbase")
  /\ Moves(c, Here, tables, tables', "pushtable", "pulltable")
  /\ BlockMoves(c)

LEMMA ErrorEnds ==
  ASSUME NEW n, errored \in BOOLEAN, Error(n), ~errored'
  PROVE  ~errored /\ pass # n /\ pass' = pass
BY DEF Error

LEMMA DoneEnds ==
  ASSUME NEW s, NEW p, errored \in BOOLEAN, Done(s, p), ~errored'
  PROVE  ~errored /\ set' = s /\ pos' = p /\ pass' = pass
BY DEF Done

\* Pass 2 writes on, or ends in an error: it is where the other passes are.
LEMMA WrittenType ==
  ASSUME NEW p, NEW n
  PROVE  /\ Written(p, n).ok => Written(p, n).pos = Walk(set, p, n).pos
         /\ ~Written(p, n).ok => ~(pass < 2)
<1> DEFINE w == Walk(set, p, n)
<1>1. Written(p, n) = Cut(p, w, Bad(w.out)) BY DEF Written
<1> HIDE DEF w
<1>2. CASE pass < 2 \/ Bad(w.out) = {}
  <2>1. Written(p, n) = [pos |-> w.pos, out |-> w.out, ok |-> TRUE] BY <1>1, <1>2, Zenon DEF Cut
  <2>. QED BY <2>1 DEF w
<1>3. CASE ~(pass < 2 \/ Bad(w.out) = {})
  <2>1. PICK u : Written(p, n) = Stops(u) BY <1>1, <1>3, Zenon DEF Cut
  <2>. QED BY <2>1, <1>3 DEF Stops
<1>. QED BY <1>2, <1>3

LEMMA WritesEnd ==
  ASSUME NEW p, NEW n, errored \in BOOLEAN, pass \in 0 .. 2, Writes(set, p, n), ~errored'
  PROVE  ~errored /\ set' = set /\ pos' = Walk(set, p, n).pos /\ pass' = pass
<1>1. CASE Written(p, n).ok
  <2>1. Done(set, Written(p, n).pos) BY <1>1 DEF Writes
  <2>. QED BY <2>1, <1>1, WrittenType, DoneEnds
<1>2. CASE ~Written(p, n).ok
  <2>1. Error(2) BY <1>2 DEF Writes
  <2>. QED BY <2>1, <1>2, WrittenType, ErrorEnds
<1>. QED BY <1>1, <1>2

\* The command that is read, and the state it is read in.
LEMMA ReadsType ==
  ASSUME NEW c, Inv, Reads(c)
  PROVE  /\ pass \in 0 .. 2 /\ at \in 1 .. MaxLen /\ at \in Nat /\ MaxLen \in Nat
         /\ IsList(patch') /\ patch'[at] = c /\ Same(patch, patch', at - 1)
         /\ Len(patch') \in Nat /\ Len(patch') <= commands.len /\ at' = at + 1
         /\ IF pass = 0 THEN Len(patch') = at ELSE patch' = patch /\ at <= Len(patch)
         /\ Seen[at] = Here
<1>1. /\ commands.len \in Nat /\ commands.len <= MaxLen /\ MaxLen \in Nat
      /\ IsList(patch) /\ Len(patch) <= commands.len /\ pass \in 0 .. 3 /\ Len(patch) \in Nat
      /\ (pass < 3 => at \in 1 .. Len(patch) + 1) /\ (pass = 0 => at = Len(patch) + 1)
      /\ DOMAIN marks = 1 .. MaxLen + 1
  BY PositionsAssumption DEF Inv, ShapeInv, IsList
<1>2. CASE pass = 0
  <2>1. patch' = Append(patch, c) /\ at = Len(patch) + 1 /\ at <= commands.len /\ at' = at + 1
    BY <1>1, <1>2 DEF Reads
  <2>2. /\ IsList(patch') /\ Len(patch') = at /\ patch'[at] = c
        /\ \A i \in 1 .. Len(patch) : patch'[i] = patch[i]
    BY <1>1, <2>1, PushList
  <2>3. at - 1 = Len(patch) BY <1>1, <2>1
  <2>4. Same(patch, patch', at - 1) BY <2>2, <2>3 DEF Same
  <2>. QED BY <1>1, <1>2, <2>1, <2>2, <2>4 DEF Seen
<1>3. CASE pass # 0
  <2>1. pass < 3 /\ at <= Len(patch) /\ c = patch[at] /\ patch' = patch /\ at' = at + 1
    BY <1>3 DEF Reads
  <2>. QED BY <1>1, <1>3, <2>1 DEF Seen, Same
<1>. QED BY <1>2, <1>3

LEMMA ReadsNow ==
  ASSUME NEW c, Inv, ~stale, ~errored, Reads(c)
  PROVE  /\ spc.in = InBlock(patch', at)
         /\ spc.in => (spc.execute # None <=> Started(patch', at))
         /\ pass # 0 => Paired(patch', Seen, at)
         /\ StacksInv /\ IsList(pcs) /\ IsList(bases) /\ IsList(tables)
<1>1. /\ pass \in 0 .. 2 /\ at \in Nat /\ at >= 1 /\ Same(patch, patch', at - 1)
      /\ pass # 0 => patch' = patch /\ at <= Len(patch) /\ Len(patch) \in Nat
  BY ReadsType
<1>2. BlockInv /\ StacksInv BY <1>1 DEF Inv, ReadInv, Calm
<1>3. InBlock(patch, at) = InBlock(patch', at) /\ Started(patch, at) = Started(patch', at)
  BY <1>1, BlockSame
<1>4. ASSUME pass # 0 PROVE Paired(patch', Seen, at)
  <2>1. /\ Reading(patch, first, Len(patch) + 1) /\ \A i \in 1 .. at : Seen[i] = first[i]
        /\ patch' = patch /\ at <= Len(patch) /\ Len(patch) \in Nat
    BY <1>1, <1>4 DEF Inv, FirstInv, Calm
  <2>2. Paired(patch, first, at) BY <1>1, <2>1 DEF Reading
  <2>3. Same(first, Seen, at) /\ Same(patch, patch', at) BY <2>1 DEF Same
  <2>. QED BY <1>1, <2>2, <2>3, ResultSame
<1>. QED BY <1>2, <1>3, <1>4 DEF BlockInv, Inv, TypedInv, Calm

\* What a command makes of position and settings.
LEMMA ResultNow ==
  ASSUME NEW c, Inv, ~stale, ~errored, Reads(c),
         pos' = PosOf(c, Here, spc.in, Started(patch', at),
                      Pulled(patch', Seen, "pushpc", "pullpc", at),
                      Pulled(patch', Seen, "pushbase", "pullbase", at)),
         set' = SetOf(c, Here, spc.in, Pulled(patch', Seen, "pushbase", "pullbase", at),
                      Pulled(patch', Seen, "pushtable", "pulltable", at))
  PROVE  Here' = Result(patch', Seen, at) /\ DOMAIN set' = DOMAIN Defaults
<1>1. patch'[at] = c /\ Seen[at] = Here /\ InBlock(patch', at) = spc.in BY ReadsType, ReadsNow, Zenon
<1>2. Here' = Result(patch', Seen, at) BY <1>1, Zenon DEF Result, Here
<1>3. DOMAIN set = DOMAIN Defaults /\ Here.set = set BY DEF Inv, TypedInv, Calm, Here
<1>4. DOMAIN set' = DOMAIN Here.set BY DEF SetOf
<1>. QED BY <1>2, <1>3, <1>4

\* The commands that use no stack, and nothing of a block.
Special == {"pushpc", "pullpc", "pushbase", "pullbase", "pushtable", "pulltable",
            "spcblock", "endspcblock", "startpos"}
LEMMA PlainEffect ==
  ASSUME NEW c, Inv, ~stale, ~errored, Reads(c), c.c \notin Special, UNCHANGED <<spc, stacks>>,
         pass' = pass,
         \A started, pc, base : pos' = PosOf(c, Here, spc.in, started, pc, base),
         \A base, table : set' = SetOf(c, Here, spc.in, base, table)
  PROVE  Effect(c)
<1>1. Here' = Result(patch', Seen, at) /\ DOMAIN set' = DOMAIN Defaults BY ResultNow
<1>2. patch'[at] = c BY ReadsType
<1>3. Paired(patch', Seen, at) BY <1>2 DEF Special, Paired, HasPush
<1>4. /\ Moves(c, Here, pcs, pcs', "pushpc", "pullpc")
      /\ Moves(c, Here, bases, bases', "pushbase", "pullbase")
      /\ Moves(c, Here, tables, tables', "pushtable", "pulltable")
  BY DEF Special, Moves, stacks
<1>5. BlockMoves(c) BY DEF Special, BlockMoves, Inv, ShapeInv, TypedInv, Calm
<1>. QED BY <1>1, <1>3, <1>4, <1>5 DEF Effect

\* The commands that change position and settings only.
LEMMA DbEffect ==
  ASSUME Inv, ~stale, ~errored', Db
  PROVE  \E c : Effect(c)
<1>1. PICK c : /\ c.c = "db" /\ Reads(c) /\ Writes(set, pos, c.n) /\ UNCHANGED <<spc, stacks>>
  BY DEF Db, Candidates
<1>2. errored \in BOOLEAN /\ pass \in 0 .. 2 BY <1>1, ReadsType DEF Inv, ShapeInv
<1>3. ~errored /\ set' = set /\ pos' = Walk(set, pos, c.n).pos /\ pass' = pass BY <1>1, <1>2, WritesEnd
<1>4. \A a, b, d : pos' = PosOf(c, Here, spc.in, a, b, d) BY <1>1, <1>3 DEF PosOf, Here
<1>5. \A a, b : set' = SetOf(c, Here, spc.in, a, b) BY <1>1, <1>3 DEF SetOf, Here, Setters
<1>. QED BY <1>1, <1>3, <1>4, <1>5, PlainEffect DEF Special


LEMMA FillEffect ==
  ASSUME Inv, ~stale, ~errored', Fill
  PROVE  \E c : Effect(c)
<1>1. PICK c : /\ c.c = "fill" /\ Reads(c) /\ Writes(set, pos, Amount(c, pos)) /\ UNCHANGED <<spc, stacks>>
  BY DEF Fill, Candidates
<1>2. errored \in BOOLEAN /\ pass \in 0 .. 2 BY <1>1, ReadsType DEF Inv, ShapeInv
<1>3. ~errored /\ set' = set /\ pos' = Walk(set, pos, Amount(c, pos)).pos /\ pass' = pass BY <1>1, <1>2, WritesEnd
<1>4. \A a, b, d : pos' = PosOf(c, Here, spc.in, a, b, d) BY <1>1, <1>3 DEF PosOf, Here
<1>5. \A a, b : set' = SetOf(c, Here, spc.in, a, b) BY <1>1, <1>3 DEF SetOf, Here, Setters
<1>. QED BY <1>1, <1>3, <1>4, <1>5, PlainEffect DEF Special


LEMMA BaseEffect ==
  ASSUME Inv, ~stale, ~errored', Base
  PROVE  \E c : Effect(c)
<1>1. PICK c : /\ c.c = "base" /\ Reads(c) /\ Done([set EXCEPT !.bank = "auto"], Displayed(pos, c.a)) /\ UNCHANGED <<spc, stacks>>
  BY DEF Base, Candidates
<1>2. errored \in BOOLEAN BY DEF Inv, ShapeInv
<1>3. ~errored /\ set' = [set EXCEPT !.bank = "auto"] /\ pos' = Displayed(pos, c.a) /\ pass' = pass BY <1>1, <1>2, DoneEnds
<1>4. \A a, b, d : pos' = PosOf(c, Here, spc.in, a, b, d) BY <1>1, <1>3 DEF PosOf, Here
<1>5. \A a, b : set' = SetOf(c, Here, spc.in, a, b) BY <1>1, <1>3 DEF SetOf, Here, Setters
<1>. QED BY <1>1, <1>3, <1>4, <1>5, PlainEffect DEF Special


LEMMA BaseOffEffect ==
  ASSUME Inv, ~stale, ~errored', BaseOff
  PROVE  \E c : Effect(c)
<1>1. PICK c : /\ c.c = "base_off" /\ Reads(c) /\ Done(set, [pos EXCEPT !.snes = pos.real, !.start = pos.rstart]) /\ UNCHANGED <<spc, stacks>>
  BY DEF BaseOff, Candidates, Goes
<1>2. errored \in BOOLEAN BY DEF Inv, ShapeInv
<1>3. ~errored /\ set' = set /\ pos' = [pos EXCEPT !.snes = pos.real, !.start = pos.rstart] /\ pass' = pass
  <2>1. Done(set, [pos EXCEPT !.snes = pos.real, !.start = pos.rstart]) /\ ~errored' BY <1>1
  <2>. QED BY ONLY <1>2, <2>1, DoneEnds
<1>4. \A a, b, d : pos' = PosOf(c, Here, spc.in, a, b, d) BY <1>1, <1>3 DEF PosOf, Here
<1>5. \A a, b : set' = SetOf(c, Here, spc.in, a, b) BY <1>1, <1>3 DEF SetOf, Here, Setters
<1>. QED BY <1>1, <1>3, <1>4, <1>5, PlainEffect DEF Special


LEMMA SkipEffect ==
  ASSUME Inv, ~stale, ~errored', Skip
  PROVE  \E c : Effect(c)
<1>1. PICK c : /\ c.c = "skip" /\ Reads(c) /\ Done(set, Stepped(set, pos, Amount(c, pos))) /\ UNCHANGED <<spc, stacks>>
  BY DEF Skip, Candidates, Goes
<1>2. errored \in BOOLEAN BY DEF Inv, ShapeInv
<1>3. ~errored /\ set' = set /\ pos' = Stepped(set, pos, Amount(c, pos)) /\ pass' = pass BY <1>1, <1>2, DoneEnds
<1>4. \A a, b, d : pos' = PosOf(c, Here, spc.in, a, b, d) BY <1>1, <1>3 DEF PosOf, Here
<1>5. \A a, b : set' = SetOf(c, Here, spc.in, a, b) BY <1>1, <1>3 DEF SetOf, Here, Setters
<1>. QED BY <1>1, <1>3, <1>4, <1>5, PlainEffect DEF Special


LEMMA OrgEffect ==
  ASSUME Inv, ~stale, ~errored', Org
  PROVE  \E c : Effect(c)
<1>1. PICK c : /\ c.c = "org" /\ Reads(c) /\ UNCHANGED <<spc, stacks>>
               /\ IF Refused THEN Error(0) /\ UNCHANGED <<pos, set>> ELSE Done(set, Everywhere(c.a))
  BY DEF Org, Candidates, Goes
<1>2. errored \in BOOLEAN BY DEF Inv, ShapeInv
<1>3. CASE Refused
  <2>1. ~errored /\ set' = set /\ pos' = pos /\ pass' = pass BY <1>1, <1>2, <1>3, ErrorEnds
  <2>2. \A a, b, d : pos' = PosOf(c, Here, spc.in, a, b, d) BY <1>1, <1>3, <2>1 DEF PosOf, Here, Refused
  <2>3. \A a, b : set' = SetOf(c, Here, spc.in, a, b) BY <1>1, <1>3, <2>1 DEF SetOf, Here, Setters, Refused
  <2>. QED BY <1>1, <2>1, <2>2, <2>3, PlainEffect DEF Special
<1>4. CASE ~(Refused)
  <2>1. ~errored /\ set' = set /\ pos' = Everywhere(c.a) /\ pass' = pass BY <1>1, <1>2, <1>4, DoneEnds
  <2>2. \A a, b, d : pos' = PosOf(c, Here, spc.in, a, b, d) BY <1>1, <1>4, <2>1 DEF PosOf, Here, Refused
  <2>3. \A a, b : set' = SetOf(c, Here, spc.in, a, b) BY <1>1, <1>4, <2>1 DEF SetOf, Here, Setters, Refused
  <2>. QED BY <1>1, <2>1, <2>2, <2>3, PlainEffect DEF Special
<1>. QED BY <1>3, <1>4


LEMMA ArchEffect ==
  ASSUME Inv, ~stale, ~errored', Arch
  PROVE  \E c : Effect(c)
<1>1. PICK c : /\ c.c = "arch" /\ Reads(c) /\ UNCHANGED <<spc, stacks>>
               /\ IF Refused THEN Error(0) /\ UNCHANGED <<pos, set>> ELSE Done([set EXCEPT !.arch = c.arch], pos)
  BY DEF Arch, Candidates, Sets
<1>2. errored \in BOOLEAN BY DEF Inv, ShapeInv
<1>3. CASE Refused
  <2>1. ~errored /\ set' = set /\ pos' = pos /\ pass' = pass BY <1>1, <1>2, <1>3, ErrorEnds
  <2>2. \A a, b, d : pos' = PosOf(c, Here, spc.in, a, b, d) BY <1>1, <1>3, <2>1 DEF PosOf, Here, Refused
  <2>3. \A a, b : set' = SetOf(c, Here, spc.in, a, b) BY <1>1, <1>3, <2>1 DEF SetOf, Here, Setters, Refused
  <2>. QED BY <1>1, <2>1, <2>2, <2>3, PlainEffect DEF Special
<1>4. CASE ~(Refused)
  <2>1. ~errored /\ set' = [set EXCEPT !.arch = c.arch] /\ pos' = pos /\ pass' = pass BY <1>1, <1>2, <1>4, DoneEnds
  <2>2. \A a, b, d : pos' = PosOf(c, Here, spc.in, a, b, d) BY <1>1, <1>4, <2>1 DEF PosOf, Here, Refused
  <2>3. \A a, b : set' = SetOf(c, Here, spc.in, a, b) BY <1>1, <1>4, <2>1 DEF SetOf, Here, Setters, Refused
  <2>. QED BY <1>1, <2>1, <2>2, <2>3, PlainEffect DEF Special
<1>. QED BY <1>3, <1>4


LEMMA CheckTitleEffect ==
  ASSUME Inv, ~stale, ~errored', CheckTitle
  PROVE  \E c : Effect(c)
<1>1. PICK c : /\ c.c = "check_title" /\ Reads(c) /\ UNCHANGED <<spc, stacks>>
               /\ IF (TooShort \/ ~c.same) /\ ~c.ignored THEN Error(0) /\ UNCHANGED <<pos, set>> ELSE Done(set, pos)
  BY DEF CheckTitle, Candidates, Goes
<1>2. errored \in BOOLEAN BY DEF Inv, ShapeInv
<1>3. CASE (TooShort \/ ~c.same) /\ ~c.ignored
  <2>0. Error(0) /\ pos' = pos /\ set' = set /\ ~errored' BY <1>1, <1>3, Zenon
  <2>1. ~errored /\ set' = set /\ pos' = pos /\ pass' = pass BY ONLY <1>2, <2>0, ErrorEnds
  <2>2. \A a, b, d : pos' = PosOf(c, Here, spc.in, a, b, d) BY <1>1, <1>3, <2>1 DEF PosOf, Here
  <2>3. \A a, b : set' = SetOf(c, Here, spc.in, a, b) BY <1>1, <1>3, <2>1 DEF SetOf, Here, Setters
  <2>. QED BY <1>1, <2>1, <2>2, <2>3, PlainEffect DEF Special
<1>4. CASE ~((TooShort \/ ~c.same) /\ ~c.ignored)
  <2>0. Done(set, pos) /\ ~errored' BY <1>1, <1>4, Zenon
  <2>1. ~errored /\ set' = set /\ pos' = pos /\ pass' = pass BY ONLY <1>2, <2>0, DoneEnds
  <2>2. \A a, b, d : pos' = PosOf(c, Here, spc.in, a, b, d) BY <1>1, <1>4, <2>1 DEF PosOf, Here
  <2>3. \A a, b : set' = SetOf(c, Here, spc.in, a, b) BY <1>1, <1>4, <2>1 DEF SetOf, Here, Setters
  <2>. QED BY <1>1, <2>1, <2>2, <2>3, PlainEffect DEF Special
<1>. QED BY <1>3, <1>4


LEMMA IncbinToEffect ==
  ASSUME Inv, ~stale, ~errored', IncbinTo
  PROVE  \E c : Effect(c)
<1>1. PICK c : /\ c.c = "incbin_to" /\ Reads(c) /\ UNCHANGED <<spc, stacks>>
               /\ IF Outside(Range_(c)) THEN Error(0) /\ UNCHANGED <<pos, set>> ELSE Done(set, pos)
  BY DEF IncbinTo, Candidates, Goes
<1>2. errored \in BOOLEAN BY DEF Inv, ShapeInv
<1>3. CASE Outside(Range_(c))
  <2>0. Error(0) /\ pos' = pos /\ set' = set /\ ~errored' BY <1>1, <1>3, Zenon
  <2>1. ~errored /\ set' = set /\ pos' = pos /\ pass' = pass BY ONLY <1>2, <2>0, ErrorEnds
  <2>2. \A a, b, d : pos' = PosOf(c, Here, spc.in, a, b, d) BY <1>1, <1>3, <2>1 DEF PosOf, Here
  <2>3. \A a, b : set' = SetOf(c, Here, spc.in, a, b) BY <1>1, <1>3, <2>1 DEF SetOf, Here, Setters
  <2>. QED BY <1>1, <2>1, <2>2, <2>3, PlainEffect DEF Special
<1>4. CASE ~(Outside(Range_(c)))
  <2>0. Done(set, pos) /\ ~errored' BY <1>1, <1>4, Zenon
  <2>1. ~errored /\ set' = set /\ pos' = pos /\ pass' = pass BY ONLY <1>2, <2>0, DoneEnds
  <2>2. \A a, b, d : pos' = PosOf(c, Here, spc.in, a, b, d) BY <1>1, <1>4, <2>1 DEF PosOf, Here
  <2>3. \A a, b : set' = SetOf(c, Here, spc.in, a, b) BY <1>1, <1>4, <2>1 DEF SetOf, Here, Setters
  <2>. QED BY <1>1, <2>1, <2>2, <2>3, PlainEffect DEF Special
<1>. QED BY <1>3, <1>4


LEMMA IncbinEffect ==
  ASSUME Inv, ~stale, ~errored', Incbin
  PROVE  \E c : Effect(c)
<1>1. PICK c : /\ c.c = "incbin" /\ Reads(c) /\ UNCHANGED <<spc, stacks>>
               /\ IF Outside(Range_(c)) THEN Error(0) /\ UNCHANGED <<pos, set>>
                  ELSE Writes(set, pos, Range_(c).to - Range_(c).from)
  BY DEF Incbin, Candidates
<1> DEFINE n == Range_(c).to - Range_(c).from
<1>2. errored \in BOOLEAN /\ pass \in 0 .. 2 BY <1>1, ReadsType DEF Inv, ShapeInv
<1>3. /\ ~errored /\ set' = set /\ pass' = pass
      /\ pos' = IF Outside(Range_(c)) THEN pos ELSE Walk(set, pos, n).pos
  BY <1>1, <1>2, ErrorEnds, WritesEnd
<1>4. \A a, b, d : pos' = PosOf(c, Here, spc.in, a, b, d) BY <1>1, <1>3, Zenon DEF PosOf, Here
<1>5. \A a, b : set' = SetOf(c, Here, spc.in, a, b) BY <1>1, <1>3 DEF SetOf, Here, Setters
<1>. QED BY <1>1, <1>3, <1>4, <1>5, PlainEffect DEF Special


LEMMA PadEffect ==
  ASSUME Inv, ~stale, ~errored', Pad
  PROVE  \E c : Effect(c)
<1> DEFINE n(c) == snestopc(set.mapper, c.a) - snestopc(set.mapper, From(pos))
<1>1. PICK c : /\ c.c = "pad" /\ Reads(c) /\ UNCHANGED <<spc, stacks>>
               /\ IF Above(pos.real) # 0 THEN Error(0) /\ UNCHANGED <<pos, set>>
                  ELSE IF c.a > pos.real /\ n(c) > 0 THEN Writes(set, pos, n(c)) ELSE Done(set, pos)
  BY DEF Pad, Candidates, Goes
<1>2. errored \in BOOLEAN /\ pass \in 0 .. 2 BY <1>1, ReadsType DEF Inv, ShapeInv
<1>3. /\ ~errored /\ set' = set /\ pass' = pass
      /\ pos' = IF Above(pos.real) = 0 /\ c.a > pos.real /\ n(c) > 0 THEN Walk(set, pos, n(c)).pos ELSE pos
  <2> HIDE DEF n
  <2>1. CASE Above(pos.real) # 0 BY <1>1, <1>2, <2>1, ErrorEnds
  <2>2. CASE Above(pos.real) = 0 /\ c.a > pos.real /\ n(c) > 0 BY <1>1, <1>2, <2>2, WritesEnd
  <2>3. CASE Above(pos.real) = 0 /\ ~(c.a > pos.real /\ n(c) > 0) BY <1>1, <1>2, <2>3, DoneEnds
  <2>. QED BY <2>1, <2>2, <2>3
<1>4. \A a, b, d : pos' = PosOf(c, Here, spc.in, a, b, d) BY <1>1, <1>3 DEF PosOf, Here
<1>5. \A a, b : set' = SetOf(c, Here, spc.in, a, b) BY <1>1, <1>3 DEF SetOf, Here, Setters
<1>. QED BY <1>1, <1>3, <1>4, <1>5, PlainEffect DEF Special


LEMMA MapperEffect ==
  ASSUME Inv, ~stale, ~errored', Mapper
  PROVE  \E c : Effect(c)
<1>1. PICK c : /\ c.c = "mapper" /\ Reads(c) /\ UNCHANGED <<spc, stacks>>
               /\ IF Refused THEN Error(0) /\ set' = [set EXCEPT !.mapper = c.m] /\ UNCHANGED pos
                  ELSE Done([set EXCEPT !.mapper = c.m], pos)
  BY DEF Mapper, Candidates, Sets
<1>2. errored \in BOOLEAN BY DEF Inv, ShapeInv
<1>3. ~errored /\ set' = [set EXCEPT !.mapper = c.m] /\ pos' = pos /\ pass' = pass
  BY <1>1, <1>2, ErrorEnds, DoneEnds
<1>4. \A a, b, d : pos' = PosOf(c, Here, spc.in, a, b, d) BY <1>1, <1>3 DEF PosOf, Here
<1>5. \A a, b : set' = SetOf(c, Here, spc.in, a, b) BY <1>1, <1>3 DEF SetOf, Here, Setters
<1>. QED BY <1>1, <1>3, <1>4, <1>5, PlainEffect DEF Special


LEMMA SetterEffect ==
  ASSUME Inv, ~stale, ~errored', NEW kind \in Setters, Sets1(kind)
  PROVE  \E c : Effect(c)
<1>1. PICK c : /\ c.c = kind /\ Reads(c) /\ Done([set EXCEPT ![c.of] = c.value], pos)
               /\ UNCHANGED <<spc, stacks>>
  BY DEF Sets1, Candidates, Sets
<1>2. errored \in BOOLEAN BY DEF Inv, ShapeInv
<1>3. ~errored /\ set' = [set EXCEPT ![c.of] = c.value] /\ pos' = pos /\ pass' = pass
  BY <1>1, <1>2, DoneEnds
<1>4. \A a, b, d : pos' = PosOf(c, Here, spc.in, a, b, d) BY <1>1, <1>3 DEF PosOf, Here, Setters
<1>5. \A a, b : set' = SetOf(c, Here, spc.in, a, b)
  <2>1. c.c \in Setters /\ c.c \notin {"base", "pullbase", "pulltable", "mapper", "arch"}
    BY <1>1 DEF Setters
  <2>. QED BY <1>3, <2>1 DEF SetOf, Here
<1>6. c.c \notin Special BY <1>1 DEF Setters, Special
<1>. QED BY <1>1, <1>3, <1>4, <1>5, <1>6, PlainEffect

\* The commands of a stack.
LEMMA PullNow ==
  ASSUME NEW c, Inv, ~stale, ~errored, Reads(c),
         NEW push, NEW pull, push # pull, c.c = pull, NEW stack, IsList(stack),
         Stack(patch, Seen, at, stack, push, pull, pass = 0),
         pass = 0 => stack # <<>>, pass # 0 => HasPush(patch', push, pull, at)
  PROVE  /\ HasPush(patch', push, pull, at) /\ stack # <<>>
         /\ Top(stack) = Saved(push, Pulled(patch', Seen, push, pull, at))
<1>1. /\ at \in Nat /\ at >= 1 /\ Same(patch, patch', at - 1) /\ patch'[at] = c /\ pass \in 0 .. 2
      /\ Same(Seen, Seen, at)
  BY ReadsType DEF Same
<1>2. /\ Level(patch', push, pull, 1, at) = Level(patch, push, pull, 1, at)
      /\ Level(patch, push, pull, 1, at) \in Int
  BY <1>1, LevelSame, LevelNext
<1>3. Level(patch, push, pull, 1, at) >= 1
  <2>1. CASE pass = 0
    <3>1. Len(stack) = Level(patch, push, pull, 1, at) BY <2>1 DEF Stack
    <3>2. Len(stack) \in Nat /\ Len(stack) # 0 BY <2>1, EmptySeq DEF IsList
    <3>. QED BY <3>1, <3>2
  <2>2. CASE pass # 0 BY <2>2, <1>1, <1>2 DEF HasPush
  <2>. QED BY <2>1, <2>2
<1>4. /\ Pair(patch, push, pull, at) \in 1 .. at - 1 /\ stack # <<>>
      /\ Top(stack) = Saved(push, Pulled(patch, Seen, push, pull, at))
  BY <1>1, <1>3, StackTop
<1>5. Pair(patch', push, pull, at) = Pair(patch, push, pull, at) BY <1>1, PairSame
<1>6. Pulled(patch', Seen, push, pull, at) = Pulled(patch, Seen, push, pull, at) BY <1>1, PulledSame
<1>7. HasPush(patch', push, pull, at) BY <1>2, <1>3, <1>4, <1>5 DEF HasPush
<1>. QED BY <1>4, <1>6, <1>7

LEMMA PushPcEffect ==
  ASSUME Inv, ~stale, ~errored', PushPc
  PROVE  \E c : Effect(c)
<1>1. PICK c : /\ c.c = "pushpc" /\ Reads(c) /\ Done(set, Nowhere) /\ UNCHANGED <<spc, bases, tables>>
               /\ pcs' = Append(pcs, [arch |-> set.arch, pos |-> pos])
  BY DEF PushPc, Candidates, Goes
<1>2. errored \in BOOLEAN BY DEF Inv, ShapeInv
<1>3. ~errored /\ set' = set /\ pos' = Nowhere /\ pass' = pass BY <1>1, <1>2, DoneEnds
<1>4. Here' = Result(patch', Seen, at) /\ DOMAIN set' = DOMAIN Defaults
  <2>1. \A a, b, d : pos' = PosOf(c, Here, spc.in, a, b, d) BY <1>1, <1>3 DEF PosOf, Here
  <2>2. \A a, b : set' = SetOf(c, Here, spc.in, a, b) BY <1>1, <1>3 DEF SetOf, Here, Setters
  <2>. QED BY <2>1, <2>2, <1>1, <1>3, ResultNow
<1>5. Paired(patch', Seen, at) BY <1>1, ReadsType DEF Paired, HasPush
<1>6. /\ Moves(c, Here, pcs, pcs', "pushpc", "pullpc")
      /\ Moves(c, Here, bases, bases', "pushbase", "pullbase")
      /\ Moves(c, Here, tables, tables', "pushtable", "pulltable")
  BY <1>1 DEF Moves, Saved, Here
<1>7. BlockMoves(c) BY <1>1, <1>3 DEF BlockMoves, Inv, ShapeInv, TypedInv, Calm
<1>. QED BY <1>1, <1>3, <1>4, <1>5, <1>6, <1>7 DEF Effect

LEMMA PushBaseEffect ==
  ASSUME Inv, ~stale, ~errored', PushBase
  PROVE  \E c : Effect(c)
<1>1. PICK c : /\ c.c = "pushbase" /\ Reads(c) /\ Done(set, pos) /\ UNCHANGED <<spc, pcs, tables>>
               /\ bases' = Append(bases, pos.snes)
  BY DEF PushBase, Candidates, Goes
<1>2. errored \in BOOLEAN BY DEF Inv, ShapeInv
<1>3. ~errored /\ set' = set /\ pos' = pos /\ pass' = pass BY <1>1, <1>2, DoneEnds
<1>4. Here' = Result(patch', Seen, at) /\ DOMAIN set' = DOMAIN Defaults
  <2>1. \A a, b, d : pos' = PosOf(c, Here, spc.in, a, b, d) BY <1>1, <1>3 DEF PosOf, Here
  <2>2. \A a, b : set' = SetOf(c, Here, spc.in, a, b) BY <1>1, <1>3 DEF SetOf, Here, Setters
  <2>. QED BY <2>1, <2>2, <1>1, <1>3, ResultNow
<1>5. Paired(patch', Seen, at) BY <1>1, ReadsType DEF Paired, HasPush
<1>6. /\ Moves(c, Here, pcs, pcs', "pushpc", "pullpc")
      /\ Moves(c, Here, bases, bases', "pushbase", "pullbase")
      /\ Moves(c, Here, tables, tables', "pushtable", "pulltable")
  BY <1>1 DEF Moves, Saved, Here
<1>7. BlockMoves(c) BY <1>1, <1>3 DEF BlockMoves, Inv, ShapeInv, TypedInv, Calm
<1>. QED BY <1>1, <1>3, <1>4, <1>5, <1>6, <1>7 DEF Effect

LEMMA PushTableEffect ==
  ASSUME Inv, ~stale, ~errored', PushTable
  PROVE  \E c : Effect(c)
<1>1. PICK c : /\ c.c = "pushtable" /\ Reads(c) /\ Done(set, pos) /\ UNCHANGED <<spc, pcs, bases>>
               /\ tables' = Append(tables, set.table)
  BY DEF PushTable, Candidates, Goes
<1>2. errored \in BOOLEAN BY DEF Inv, ShapeInv
<1>3. ~errored /\ set' = set /\ pos' = pos /\ pass' = pass BY <1>1, <1>2, DoneEnds
<1>4. Here' = Result(patch', Seen, at) /\ DOMAIN set' = DOMAIN Defaults
  <2>1. \A a, b, d : pos' = PosOf(c, Here, spc.in, a, b, d) BY <1>1, <1>3 DEF PosOf, Here
  <2>2. \A a, b : set' = SetOf(c, Here, spc.in, a, b) BY <1>1, <1>3 DEF SetOf, Here, Setters
  <2>. QED BY <2>1, <2>2, <1>1, <1>3, ResultNow
<1>5. Paired(patch', Seen, at) BY <1>1, ReadsType DEF Paired, HasPush
<1>6. /\ Moves(c, Here, pcs, pcs', "pushpc", "pullpc")
      /\ Moves(c, Here, bases, bases', "pushbase", "pullbase")
      /\ Moves(c, Here, tables, tables', "pushtable", "pulltable")
  BY <1>1 DEF Moves, Saved, Here
<1>7. BlockMoves(c) BY <1>1, <1>3 DEF BlockMoves, Inv, ShapeInv, TypedInv, Calm
<1>. QED BY <1>1, <1>3, <1>4, <1>5, <1>6, <1>7 DEF Effect

LEMMA PullPcEffect ==
  ASSUME Inv, ~stale, ~errored', PullPc
  PROVE  \E c : Effect(c)
<1> DEFINE other == set.arch # Top(pcs).arch
<1>1. PICK c : /\ c.c = "pullpc" /\ Reads(c) /\ UNCHANGED <<spc, bases, tables>>
               /\ IF pcs = <<>> THEN Error(0) /\ UNCHANGED <<pos, set, pcs>>
                  ELSE /\ pcs' = Pop(pcs)
                       /\ IF other THEN Error(0) /\ UNCHANGED <<pos, set>> ELSE Done(set, Top(pcs).pos)
  BY DEF PullPc, Candidates, Goes, Restored
<1>2. errored \in BOOLEAN BY DEF Inv, ShapeInv
<1> HIDE DEF other
<1>3. /\ ~errored /\ pass' = pass /\ (pass = 0 => pcs # <<>> /\ ~other)
      /\ pcs # <<>> => set' = set /\ pos' = (IF other THEN pos ELSE Top(pcs).pos) /\ pcs' = Pop(pcs)
  <2>1. CASE pcs = <<>> BY <1>1, <1>2, <2>1, ErrorEnds
  <2>2. CASE pcs # <<>> /\ other BY <1>1, <1>2, <2>2, ErrorEnds
  <2>3. CASE pcs # <<>> /\ ~other
    <3>1. Done(set, Top(pcs).pos) /\ pcs' = Pop(pcs) BY <1>1, <2>3
    <3>. QED BY <1>2, <2>3, <3>1, DoneEnds
  <2>. QED BY <2>1, <2>2, <2>3
<1>4. /\ pass # 0 => Paired(patch', Seen, at)
      /\ Stack(patch, Seen, at, pcs, "pushpc", "pullpc", pass = 0) /\ IsList(pcs)
  BY <1>1, <1>3, ReadsNow DEF StacksInv
<1> DEFINE x == Pulled(patch', Seen, "pushpc", "pullpc", at)
<1>5. HasPush(patch', "pushpc", "pullpc", at) /\ pcs # <<>> /\ Top(pcs) = Saved("pushpc", x)
  <2>1. pass # 0 => HasPush(patch', "pushpc", "pullpc", at) BY <1>4 DEF Paired
  <2>2. pass = 0 => pcs # <<>> BY <1>3
  <2>3. c.c = "pullpc" /\ Reads(c) /\ ~errored BY <1>1, <1>3
  <2>4. "pushpc" # "pullpc" OBVIOUS
  <2>. QED BY <1>4, <2>1, <2>2, <2>3, <2>4, PullNow
<1>6. Top(pcs).arch = x.set.arch /\ Top(pcs).pos = x.pos /\ (other <=> set.arch # x.set.arch)
  BY <1>5 DEF Saved, other
<1> HIDE DEF x
<1>7. Here' = Result(patch', Seen, at) /\ DOMAIN set' = DOMAIN Defaults
  <2>1. \A a, d : pos' = PosOf(c, Here, spc.in, a, x, d) BY <1>1, <1>3, <1>5, <1>6 DEF PosOf, Here
  <2>2. \A a, b : set' = SetOf(c, Here, spc.in, a, b) BY <1>1, <1>3, <1>5 DEF SetOf, Here, Setters
  <2>. QED BY <2>1, <2>2, <1>1, <1>3, ResultNow DEF x
<1>8. Paired(patch', Seen, at)
  <2>1. CASE pass = 0
    <3>1. Seen[at].set.arch = x.set.arch BY <1>1, <1>3, <1>6, <2>1, ReadsType DEF Here
    <3>2. patch'[at].c = "pullpc" BY <1>1, ReadsType
    <3>. QED BY <3>1, <3>2, <1>5 DEF Paired, HasPush, x
  <2>. QED BY <2>1, <1>4
<1>9. /\ Moves(c, Here, pcs, pcs', "pushpc", "pullpc")
      /\ Moves(c, Here, bases, bases', "pushbase", "pullbase")
      /\ Moves(c, Here, tables, tables', "pushtable", "pulltable")
  BY <1>1, <1>3, <1>5 DEF Moves
<1>10. BlockMoves(c) BY <1>1, <1>3 DEF BlockMoves, Inv, ShapeInv, TypedInv, Calm
<1>. QED BY <1>1, <1>3, <1>7, <1>8, <1>9, <1>10 DEF Effect

LEMMA PullBaseEffect ==
  ASSUME Inv, ~stale, ~errored', PullBase
  PROVE  \E c : Effect(c)
<1> DEFINE a == Top(bases)
           s == [set EXCEPT !.bank = IF a # pos.rstart THEN "auto" ELSE @]
<1>1. PICK c : /\ c.c = "pullbase" /\ Reads(c) /\ UNCHANGED <<spc, pcs, tables>>
               /\ IF bases = <<>> THEN Error(0) /\ UNCHANGED <<pos, set, bases>>
                  ELSE bases' = Pop(bases) /\ Done(s, Displayed(pos, a))
  BY DEF PullBase, Candidates
<1>2. errored \in BOOLEAN BY DEF Inv, ShapeInv
<1> HIDE DEF s
<1>3. /\ ~errored /\ pass' = pass /\ (pass = 0 => bases # <<>>)
      /\ bases # <<>> => set' = s /\ pos' = Displayed(pos, a) /\ bases' = Pop(bases)
  <2>1. CASE bases = <<>> BY <1>1, <1>2, <2>1, ErrorEnds
  <2>2. CASE bases # <<>> BY <1>1, <1>2, <2>2, DoneEnds
  <2>. QED BY <2>1, <2>2
<1>4. /\ pass # 0 => Paired(patch', Seen, at)
      /\ Stack(patch, Seen, at, bases, "pushbase", "pullbase", pass = 0) /\ IsList(bases)
  BY <1>1, <1>3, ReadsNow DEF StacksInv
<1> DEFINE x == Pulled(patch', Seen, "pushbase", "pullbase", at)
<1>5. HasPush(patch', "pushbase", "pullbase", at) /\ bases # <<>> /\ Top(bases) = Saved("pushbase", x)
  <2>1. pass # 0 => HasPush(patch', "pushbase", "pullbase", at) BY <1>4 DEF Paired
  <2>2. pass = 0 => bases # <<>> BY <1>3
  <2>3. c.c = "pullbase" /\ Reads(c) /\ ~errored BY <1>1, <1>3
  <2>4. "pushbase" # "pullbase" OBVIOUS
  <2>. QED BY <1>4, <2>1, <2>2, <2>3, <2>4, PullNow
<1>6. a = x.pos.snes BY <1>5 DEF Saved
<1> HIDE DEF x, a
<1>7. Here' = Result(patch', Seen, at) /\ DOMAIN set' = DOMAIN Defaults
  <2>1. \A e, b : pos' = PosOf(c, Here, spc.in, e, b, x) BY <1>1, <1>3, <1>5, <1>6 DEF PosOf, Here
  <2>2. \A b : set' = SetOf(c, Here, spc.in, x, b)
    <3>1. Here.set = set /\ Here.pos = pos BY DEF Here
    <3>2. \A b : SetOf(c, Here, spc.in, x, b)
                   = [set EXCEPT !.bank = IF x.pos.snes # pos.rstart THEN "auto" ELSE @]
      BY <1>1, <3>1 DEF SetOf, Setters
    <3>. QED BY <3>2, <1>3, <1>5, <1>6, Zenon DEF s
  <2>. QED BY <2>1, <2>2, <1>1, <1>3, ResultNow DEF x
<1>8. Paired(patch', Seen, at)
  <2>1. patch'[at].c = "pullbase" BY <1>1, ReadsType
  <2>. QED BY <2>1, <1>5 DEF Paired, HasPush
<1>9. /\ Moves(c, Here, pcs, pcs', "pushpc", "pullpc")
      /\ Moves(c, Here, bases, bases', "pushbase", "pullbase")
      /\ Moves(c, Here, tables, tables', "pushtable", "pulltable")
  BY <1>1, <1>3, <1>5 DEF Moves
<1>10. BlockMoves(c) BY <1>1, <1>3 DEF BlockMoves, Inv, ShapeInv, TypedInv, Calm
<1>. QED BY <1>1, <1>3, <1>7, <1>8, <1>9, <1>10 DEF Effect

LEMMA PullTableEffect ==
  ASSUME Inv, ~stale, ~errored', PullTable
  PROVE  \E c : Effect(c)
<1> DEFINE s == [set EXCEPT !.table = Top(tables)]
<1>1. PICK c : /\ c.c = "pulltable" /\ Reads(c) /\ UNCHANGED <<spc, pcs, bases>>
               /\ IF tables = <<>> THEN Error(0) /\ UNCHANGED <<pos, set, tables>>
                  ELSE Done(s, pos) /\ tables' = Pop(tables)
  BY DEF PullTable, Candidates, Sets
<1>2. errored \in BOOLEAN BY DEF Inv, ShapeInv
<1> HIDE DEF s
<1>3. /\ ~errored /\ pass' = pass /\ (pass = 0 => tables # <<>>)
      /\ tables # <<>> => set' = s /\ pos' = pos /\ tables' = Pop(tables)
  <2>1. CASE tables = <<>> BY <1>1, <1>2, <2>1, ErrorEnds
  <2>2. CASE tables # <<>> BY <1>1, <1>2, <2>2, DoneEnds
  <2>. QED BY <2>1, <2>2
<1>4. /\ pass # 0 => Paired(patch', Seen, at)
      /\ Stack(patch, Seen, at, tables, "pushtable", "pulltable", pass = 0) /\ IsList(tables)
  BY <1>1, <1>3, ReadsNow DEF StacksInv
<1> DEFINE x == Pulled(patch', Seen, "pushtable", "pulltable", at)
<1>5. HasPush(patch', "pushtable", "pulltable", at) /\ tables # <<>> /\ Top(tables) = Saved("pushtable", x)
  <2>1. pass # 0 => HasPush(patch', "pushtable", "pulltable", at) BY <1>4 DEF Paired
  <2>2. pass = 0 => tables # <<>> BY <1>3
  <2>3. c.c = "pulltable" /\ Reads(c) /\ ~errored BY <1>1, <1>3
  <2>4. "pushtable" # "pulltable" OBVIOUS
  <2>. QED BY <1>4, <2>1, <2>2, <2>3, <2>4, PullNow
<1>6. Top(tables) = x.set.table BY <1>5 DEF Saved
<1> HIDE DEF x
<1>7. Here' = Result(patch', Seen, at) /\ DOMAIN set' = DOMAIN Defaults
  <2>1. \A e, b, d : pos' = PosOf(c, Here, spc.in, e, b, d) BY <1>1, <1>3, <1>5 DEF PosOf, Here
  <2>2. \A b : set' = SetOf(c, Here, spc.in, b, x)
    <3>1. Here.set = set BY DEF Here
    <3>2. \A b : SetOf(c, Here, spc.in, b, x) = [set EXCEPT !.table = x.set.table]
      BY <1>1, <3>1 DEF SetOf, Setters
    <3>. QED BY <3>2, <1>3, <1>5, <1>6, Zenon DEF s
  <2>. QED BY <2>1, <2>2, <1>1, <1>3, ResultNow DEF x
<1>8. Paired(patch', Seen, at)
  <2>1. patch'[at].c = "pulltable" BY <1>1, ReadsType
  <2>. QED BY <2>1, <1>5 DEF Paired, HasPush
<1>9. /\ Moves(c, Here, pcs, pcs', "pushpc", "pullpc")
      /\ Moves(c, Here, bases, bases', "pushbase", "pullbase")
      /\ Moves(c, Here, tables, tables', "pushtable", "pulltable")
  BY <1>1, <1>3, <1>5 DEF Moves
<1>10. BlockMoves(c) BY <1>1, <1>3 DEF BlockMoves, Inv, ShapeInv, TypedInv, Calm
<1>. QED BY <1>1, <1>3, <1>7, <1>8, <1>9, <1>10 DEF Effect

\* The commands of a spcblock.
LEMMA BlockEffect ==
  ASSUME NEW c, Inv, ~stale, ~errored, Reads(c), c.c \in {"spcblock", "endspcblock", "startpos"},
         UNCHANGED stacks, pass' = pass, BlockMoves(c), set' = set,
         \A pc, base : pos' = PosOf(c, Here, spc.in, Started(patch', at), pc, base)
  PROVE  Effect(c)
<1>1. \A a, b : set' = SetOf(c, Here, spc.in, a, b) BY DEF SetOf, Here, Setters
<1>2. Here' = Result(patch', Seen, at) /\ DOMAIN set' = DOMAIN Defaults BY <1>1, ResultNow
<1>3. Paired(patch', Seen, at) BY ReadsType DEF Paired, HasPush
<1>4. /\ Moves(c, Here, pcs, pcs', "pushpc", "pullpc")
      /\ Moves(c, Here, bases, bases', "pushbase", "pullbase")
      /\ Moves(c, Here, tables, tables', "pushtable", "pulltable")
  BY DEF Moves, stacks
<1>. QED BY <1>2, <1>3, <1>4 DEF Effect

LEMMA SpcblockEffect ==
  ASSUME Inv, ~stale, ~errored', Spcblock
  PROVE  \E c : Effect(c)
<1> DEFINE w == Written(pos, 4)
           block(c) == [in |-> TRUE, dest |-> c.dest, size |-> pos.real, execute |-> None, from |-> at]
<1>1. PICK c : /\ c.c = "spcblock" /\ Reads(c) /\ UNCHANGED stacks
               /\ IF w.ok THEN Done(set, Displayed(w.pos, c.dest)) /\ spc' = block(c) ELSE Error(2)
  BY DEF Spcblock, Candidates, Goes
<1>2. errored \in BOOLEAN /\ pass \in 0 .. 2 BY <1>1, ReadsType DEF Inv, ShapeInv
<1>3. w.ok /\ Done(set, Displayed(w.pos, c.dest)) /\ spc' = block(c)
  BY <1>1, <1>2, WrittenType, ErrorEnds
<1>4. w.pos = Walk(set, pos, 4).pos BY <1>3, WrittenType
<1> HIDE DEF w
<1>5. ~errored /\ set' = set /\ pos' = Displayed(w.pos, c.dest) /\ pass' = pass
  BY <1>2, <1>3, DoneEnds
<1>6. BlockMoves(c) BY <1>1, <1>3 DEF BlockMoves, NoBlock
<1>7. \A a, b, d : pos' = PosOf(c, Here, spc.in, a, b, d) BY <1>1, <1>4, <1>5 DEF PosOf, Here
<1>. QED BY <1>1, <1>5, <1>6, <1>7, BlockEffect

LEMMA EndSpcblockEffect ==
  ASSUME Inv, ~stale, ~errored', EndSpcblock
  PROVE  \E c : Effect(c)
<1> DEFINE executes(c) == c.execute \/ spc.execute # None
           n(c) == IF executes(c) THEN 4 ELSE 0
           hidden == snestopc(set.mapper, spc.size % EndOfSpace) < 0
<1>1. PICK c : /\ c.c = "endspcblock" /\ Reads(c) /\ UNCHANGED stacks
               /\ IF ~spc.in THEN Error(0) /\ UNCHANGED <<pos, set, spc>>
                  ELSE IF pass = 2 /\ hidden THEN Error(2)
                  ELSE Writes(set, pos, n(c)) /\ spc' = [spc EXCEPT !.in = FALSE]
  BY DEF EndSpcblock, Candidates
<1>2. errored \in BOOLEAN /\ pass \in 0 .. 2 /\ DOMAIN spc = DOMAIN NoBlock
  BY <1>1, ReadsType DEF Inv, ShapeInv
<1> HIDE DEF hidden, n
<1>3. /\ ~errored /\ set' = set /\ pass' = pass
      /\ pos' = IF spc.in THEN Walk(set, pos, n(c)).pos ELSE pos
      /\ spc' = IF spc.in THEN [spc EXCEPT !.in = FALSE] ELSE spc
  <2>1. CASE ~spc.in BY <1>1, <1>2, <2>1, ErrorEnds
  <2>2. CASE spc.in /\ pass = 2 /\ hidden BY <1>1, <1>2, <2>2, ErrorEnds
  <2>3. CASE spc.in /\ ~(pass = 2 /\ hidden)
    <3>1. Writes(set, pos, n(c)) /\ spc' = [spc EXCEPT !.in = FALSE] BY <1>1, <2>3
    <3>. QED BY <1>2, <2>3, <3>1, WritesEnd
  <2>. QED BY <2>1, <2>2, <2>3
<1>4. BlockMoves(c) BY <1>1, <1>2, <1>3 DEF BlockMoves, NoBlock, Inv, TypedInv, Calm
<1>5. spc.in => n(c) = IF c.execute \/ Started(patch', at) THEN 4 ELSE 0
  BY <1>1, <1>3, ReadsNow DEF n
<1>6. \A b, d : pos' = PosOf(c, Here, spc.in, Started(patch', at), b, d)
  BY <1>1, <1>3, <1>5 DEF PosOf, Here
<1>. QED BY <1>1, <1>3, <1>4, <1>6, BlockEffect

LEMMA StartposEffect ==
  ASSUME Inv, ~stale, ~errored', Startpos
  PROVE  \E c : Effect(c)
<1>1. PICK c : /\ c.c = "startpos" /\ Reads(c) /\ UNCHANGED stacks
               /\ IF spc.in THEN Done(set, pos) /\ spc' = [spc EXCEPT !.execute = 0]
                  ELSE Error(0) /\ UNCHANGED <<pos, set, spc>>
  BY DEF Startpos, Candidates, Goes
<1>2. errored \in BOOLEAN /\ DOMAIN spc = DOMAIN NoBlock BY DEF Inv, ShapeInv
<1>3. ~errored /\ set' = set /\ pos' = pos /\ pass' = pass BY <1>1, <1>2, ErrorEnds, DoneEnds
<1>4. BlockMoves(c) BY <1>1, <1>2, <1>3 DEF BlockMoves, NoBlock, None, Inv, TypedInv, Calm
<1>5. \A a, b, d : pos' = PosOf(c, Here, spc.in, a, b, d) BY <1>1, <1>3 DEF PosOf, Here
<1>. QED BY <1>1, <1>3, <1>4, <1>5, BlockEffect

(***************************************************************************)
(* The invariant holds                                                     *)
(***************************************************************************)

Command ==
  \/ Db \/ Org \/ Base \/ BaseOff \/ Skip \/ Fill \/ Pad \/ Incbin \/ IncbinTo
  \/ Spcblock \/ EndSpcblock \/ Startpos \/ PushPc \/ PullPc \/ PushBase \/ PullBase
  \/ PushTable \/ PullTable \/ CheckBankcross \/ Table \/ FillByte \/ PadByte \/ FreespaceByte
  \/ DpBase \/ Optimize \/ BankIs \/ Math \/ Mapper \/ Arch \/ CheckTitle

LEMMA ErrorType ==
  ASSUME NEW n, errored \in BOOLEAN, Error(n)
  PROVE  errored' \in BOOLEAN /\ pass' \in {pass, 3}
BY DEF Error

LEMMA DoneType ==
  ASSUME NEW s, NEW p, errored \in BOOLEAN, Done(s, p)
  PROVE  errored' \in BOOLEAN /\ pass' \in {pass, 3}
<1>1. CASE BankCrossed(s.check, p) BY <1>1 DEF Done
<1>2. CASE ~BankCrossed(s.check, p) BY <1>2 DEF Done
<1>. QED BY <1>1, <1>2

LEMMA WritesType ==
  ASSUME NEW p, NEW n, errored \in BOOLEAN, Writes(set, p, n)
  PROVE  errored' \in BOOLEAN /\ pass' \in {pass, 3}
<1>1. CASE Written(p, n).ok
  <2>1. Done(set, Written(p, n).pos) BY <1>1 DEF Writes
  <2>. QED BY <2>1, DoneType
<1>2. CASE ~Written(p, n).ok
  <2>1. Error(2) BY <1>2 DEF Writes
  <2>. QED BY <2>1, ErrorType
<1>. QED BY <1>1, <1>2

\* Also where it ends in an error.
LEMMA CommandType ==
  ASSUME errored \in BOOLEAN, DOMAIN spc = DOMAIN NoBlock, Command
  PROVE  \E c : /\ Reads(c) /\ errored' \in BOOLEAN /\ pass' \in {pass, 3}
                /\ DOMAIN spc' = DOMAIN NoBlock
<1>1. CASE Db
  <2>1. PICK c : Reads(c) /\ spc' = spc /\ ((\E p, m : Writes(set, p, m)))
    BY <1>1 DEF Db
  <2>. QED BY <2>1, WritesType
<1>2. CASE Org
  <2>1. PICK c : Reads(c) /\ spc' = spc /\ ((\E e : Error(e)) \/ (\E s, p : Done(s, p)))
    BY <1>2 DEF Org, Goes
  <2>. QED BY <2>1, ErrorType, DoneType
<1>3. CASE Base
  <2>1. PICK c : Reads(c) /\ spc' = spc /\ ((\E s, p : Done(s, p)))
    BY <1>3 DEF Base
  <2>. QED BY <2>1, DoneType
<1>4. CASE BaseOff
  <2>1. PICK c : Reads(c) /\ spc' = spc /\ ((\E s, p : Done(s, p)))
    BY <1>4 DEF BaseOff, Goes
  <2>. QED BY <2>1, DoneType
<1>5. CASE Skip
  <2>1. PICK c : Reads(c) /\ spc' = spc /\ ((\E s, p : Done(s, p)))
    BY <1>5 DEF Skip, Goes
  <2>. QED BY <2>1, DoneType
<1>6. CASE Fill
  <2>1. PICK c : Reads(c) /\ spc' = spc /\ ((\E p, m : Writes(set, p, m)))
    BY <1>6 DEF Fill
  <2>. QED BY <2>1, WritesType
<1>7. CASE Pad
  <2>1. PICK c : Reads(c) /\ spc' = spc /\ ((\E e : Error(e)) \/ (\E p, m : Writes(set, p, m)) \/ (\E s, p : Done(s, p)))
    BY <1>7 DEF Pad, Goes
  <2>. QED BY <2>1, ErrorType, WritesType, DoneType
<1>8. CASE Incbin
  <2>1. PICK c : Reads(c) /\ spc' = spc /\ ((\E e : Error(e)) \/ (\E p, m : Writes(set, p, m)))
    BY <1>8 DEF Incbin
  <2>. QED BY <2>1, ErrorType, WritesType
<1>9. CASE IncbinTo
  <2>1. PICK c : Reads(c) /\ spc' = spc /\ ((\E e : Error(e)) \/ (\E s, p : Done(s, p)))
    BY <1>9 DEF IncbinTo, Goes
  <2>. QED BY <2>1, ErrorType, DoneType
<1>10. CASE Spcblock
  <2> DEFINE w == Written(pos, 4)
             block(c) == [in |-> TRUE, dest |-> c.dest, size |-> pos.real, execute |-> None, from |-> at]
  <2>1. PICK c : /\ Reads(c)
                 /\ IF w.ok THEN Done(set, Displayed(w.pos, c.dest)) /\ spc' = block(c)
                    ELSE Error(2) /\ spc' = [block(c) EXCEPT !.in = spc.in, !.execute = spc.execute]
    BY <1>10 DEF Spcblock, Goes
  <2> HIDE DEF w
  <2>2. DOMAIN spc' = DOMAIN NoBlock BY <2>1 DEF NoBlock
  <2>. QED BY <2>1, <2>2, ErrorType, DoneType
<1>11. CASE EndSpcblock
  <2>1. PICK c : Reads(c) /\ DOMAIN spc' = DOMAIN spc /\ ((\E e : Error(e)) \/ (\E p, m : Writes(set, p, m)))
    BY <1>11 DEF EndSpcblock
  <2>. QED BY <2>1, ErrorType, WritesType
<1>12. CASE Startpos
  <2>1. PICK c : Reads(c) /\ DOMAIN spc' = DOMAIN spc /\ ((\E e : Error(e)) \/ (\E s, p : Done(s, p)))
    BY <1>12 DEF Startpos, Goes
  <2>. QED BY <2>1, ErrorType, DoneType
<1>13. CASE PushPc
  <2>1. PICK c : Reads(c) /\ spc' = spc /\ ((\E s, p : Done(s, p)))
    BY <1>13 DEF PushPc, Goes
  <2>. QED BY <2>1, DoneType
<1>14. CASE PullPc
  <2>1. PICK c : Reads(c) /\ spc' = spc /\ ((\E e : Error(e)) \/ (\E s, p : Done(s, p)))
    BY <1>14 DEF PullPc, Goes
  <2>. QED BY <2>1, ErrorType, DoneType
<1>15. CASE PushBase
  <2>1. PICK c : Reads(c) /\ spc' = spc /\ ((\E s, p : Done(s, p)))
    BY <1>15 DEF PushBase, Goes
  <2>. QED BY <2>1, DoneType
<1>16. CASE PullBase
  <2>1. PICK c : Reads(c) /\ spc' = spc /\ ((\E e : Error(e)) \/ (\E s, p : Done(s, p)))
    BY <1>16 DEF PullBase
  <2>. QED BY <2>1, ErrorType, DoneType
<1>17. CASE PushTable
  <2>1. PICK c : Reads(c) /\ spc' = spc /\ ((\E s, p : Done(s, p)))
    BY <1>17 DEF PushTable, Goes
  <2>. QED BY <2>1, DoneType
<1>18. CASE PullTable
  <2>1. PICK c : Reads(c) /\ spc' = spc /\ ((\E e : Error(e)) \/ (\E s, p : Done(s, p)))
    BY <1>18 DEF PullTable, Sets
  <2>. QED BY <2>1, ErrorType, DoneType
<1>19. CASE CheckBankcross
  <2>1. PICK c : Reads(c) /\ spc' = spc /\ ((\E s, p : Done(s, p)))
    BY <1>19 DEF CheckBankcross, Sets1, Sets
  <2>. QED BY <2>1, DoneType
<1>20. CASE Table
  <2>1. PICK c : Reads(c) /\ spc' = spc /\ ((\E s, p : Done(s, p)))
    BY <1>20 DEF Table, Sets1, Sets
  <2>. QED BY <2>1, DoneType
<1>21. CASE FillByte
  <2>1. PICK c : Reads(c) /\ spc' = spc /\ ((\E s, p : Done(s, p)))
    BY <1>21 DEF FillByte, Sets1, Sets
  <2>. QED BY <2>1, DoneType
<1>22. CASE PadByte
  <2>1. PICK c : Reads(c) /\ spc' = spc /\ ((\E s, p : Done(s, p)))
    BY <1>22 DEF PadByte, Sets1, Sets
  <2>. QED BY <2>1, DoneType
<1>23. CASE FreespaceByte
  <2>1. PICK c : Reads(c) /\ spc' = spc /\ ((\E s, p : Done(s, p)))
    BY <1>23 DEF FreespaceByte, Sets1, Sets
  <2>. QED BY <2>1, DoneType
<1>24. CASE DpBase
  <2>1. PICK c : Reads(c) /\ spc' = spc /\ ((\E s, p : Done(s, p)))
    BY <1>24 DEF DpBase, Sets1, Sets
  <2>. QED BY <2>1, DoneType
<1>25. CASE Optimize
  <2>1. PICK c : Reads(c) /\ spc' = spc /\ ((\E s, p : Done(s, p)))
    BY <1>25 DEF Optimize, Sets1, Sets
  <2>. QED BY <2>1, DoneType
<1>26. CASE BankIs
  <2>1. PICK c : Reads(c) /\ spc' = spc /\ ((\E s, p : Done(s, p)))
    BY <1>26 DEF BankIs, Sets1, Sets
  <2>. QED BY <2>1, DoneType
<1>27. CASE Math
  <2>1. PICK c : Reads(c) /\ spc' = spc /\ ((\E s, p : Done(s, p)))
    BY <1>27 DEF Math, Sets1, Sets
  <2>. QED BY <2>1, DoneType
<1>28. CASE Mapper
  <2>1. PICK c : Reads(c) /\ spc' = spc /\ ((\E e : Error(e)) \/ (\E s, p : Done(s, p)))
    BY <1>28 DEF Mapper, Sets
  <2>. QED BY <2>1, ErrorType, DoneType
<1>29. CASE Arch
  <2>1. PICK c : Reads(c) /\ spc' = spc /\ ((\E e : Error(e)) \/ (\E s, p : Done(s, p)))
    BY <1>29 DEF Arch, Sets
  <2>. QED BY <2>1, ErrorType, DoneType
<1>30. CASE CheckTitle
  <2>1. PICK c : Reads(c) /\ spc' = spc /\ ((\E e : Error(e)) \/ (\E s, p : Done(s, p)))
    BY <1>30 DEF CheckTitle, Goes
  <2>. QED BY <2>1, ErrorType, DoneType
<1>. QED BY <1>1, <1>2, <1>3, <1>4, <1>5, <1>6, <1>7, <1>8, <1>9, <1>10, <1>11, <1>12, <1>13, <1>14, <1>15, <1>16, <1>17, <1>18, <1>19, <1>20, <1>21, <1>22, <1>23, <1>24, <1>25, <1>26, <1>27, <1>28, <1>29, <1>30 DEF Command

LEMMA CommandEffect ==
  ASSUME Inv, ~stale, ~errored', Command
  PROVE  \E c : Effect(c)
<1>1. ASSUME \E kind \in Setters : Sets1(kind) PROVE \E c : Effect(c)
  BY <1>1, SetterEffect
<1>2. CASE CheckBankcross \/ Table \/ FillByte \/ PadByte \/ FreespaceByte
         \/ DpBase \/ Optimize \/ BankIs \/ Math
  <2>1. \E kind \in Setters : Sets1(kind)
    BY <1>2, Zenon DEF Setters, CheckBankcross, Table, FillByte, PadByte, FreespaceByte,
      DpBase, Optimize, BankIs, Math
  <2>. QED BY <2>1, <1>1
<1>3. CASE Db BY <1>3, DbEffect
<1>4. CASE Org BY <1>4, OrgEffect
<1>5. CASE Base BY <1>5, BaseEffect
<1>6. CASE BaseOff BY <1>6, BaseOffEffect
<1>7. CASE Skip BY <1>7, SkipEffect
<1>8. CASE Fill BY <1>8, FillEffect
<1>9. CASE Pad BY <1>9, PadEffect
<1>10. CASE Incbin BY <1>10, IncbinEffect
<1>11. CASE IncbinTo BY <1>11, IncbinToEffect
<1>12. CASE Spcblock BY <1>12, SpcblockEffect
<1>13. CASE EndSpcblock BY <1>13, EndSpcblockEffect
<1>14. CASE Startpos BY <1>14, StartposEffect
<1>15. CASE PushPc BY <1>15, PushPcEffect
<1>16. CASE PullPc BY <1>16, PullPcEffect
<1>17. CASE PushBase BY <1>17, PushBaseEffect
<1>18. CASE PullBase BY <1>18, PullBaseEffect
<1>19. CASE PushTable BY <1>19, PushTableEffect
<1>20. CASE PullTable BY <1>20, PullTableEffect
<1>21. CASE Mapper BY <1>21, MapperEffect
<1>22. CASE Arch BY <1>22, ArchEffect
<1>23. CASE CheckTitle BY <1>23, CheckTitleEffect
<1>. QED BY <1>2, <1>3, <1>4, <1>5, <1>6, <1>7, <1>8, <1>9, <1>10, <1>11, <1>12, <1>13, <1>14, <1>15, <1>16, <1>17, <1>18, <1>19, <1>20, <1>21, <1>22, <1>23 DEF Command

\* A pass begins.
LEMMA StackBegins ==
  ASSUME NEW q, NEW m, NEW push, NEW pull, push # pull, NEW stack, IsList(stack), NEW exact,
         exact => stack = <<>>
  PROVE  Stack(q, m, 1, stack, push, pull, exact)
<1>1. Level(q, push, pull, 1, 1) = 0 BY LevelNext
<1>2. Len(stack) \in Nat /\ (exact => Len(stack) = 0) BY DEF IsList
<1>. QED BY <1>1, <1>2 DEF Stack

LEMMA Begins ==
  ASSUME NEW q, NEW m, m[1] = [pos |-> Nowhere, set |-> Defaults]
  PROVE  Reading(q, m, 1) /\ ~InBlock(q, 1)
BY DEF Reading, InBlock

LEMMA EmptyList == IsList(<<>>)
BY DEF IsList

\* Where a block is, once a command has been read.
LEMMA BlockNext ==
  ASSUME NEW q, NEW i \in Nat, i >= 1
  PROVE  /\ q[i].c = "spcblock" => InBlock(q, i + 1) /\ ~Started(q, i + 1)
         /\ q[i].c = "endspcblock" => ~InBlock(q, i + 1)
         /\ q[i].c = "startpos" => InBlock(q, i + 1) = InBlock(q, i) /\ Started(q, i + 1)
         /\ q[i].c \notin {"spcblock", "endspcblock", "startpos"} =>
              InBlock(q, i + 1) = InBlock(q, i) /\ Started(q, i + 1) = Started(q, i)
<1>1. \A j \in 1 .. i : (j + 1 .. (i + 1) - 1) = (j + 1 .. i - 1) \cup (IF j = i THEN {} ELSE {i})
  OBVIOUS
<1>2. 1 .. (i + 1) - 1 = (1 .. i - 1) \cup {i} OBVIOUS
<1>3. InBlock(q, i + 1) <=>
        \/ q[i].c = "spcblock"
        \/ q[i].c # "endspcblock" /\ InBlock(q, i)
  <2>1. ASSUME q[i].c = "spcblock" PROVE InBlock(q, i + 1) BY <2>1 DEF InBlock
  <2>2. ASSUME q[i].c # "endspcblock", InBlock(q, i) PROVE InBlock(q, i + 1)
    <3>1. PICK j \in 1 .. i - 1 : q[j].c = "spcblock" /\ \A k \in j + 1 .. i - 1 : q[k].c # "endspcblock"
      BY <2>2 DEF InBlock
    <3>2. \A k \in j + 1 .. (i + 1) - 1 : q[k].c # "endspcblock" BY <3>1, <2>2
    <3>. QED BY <3>1, <3>2 DEF InBlock
  <2>3. ASSUME InBlock(q, i + 1), q[i].c # "spcblock" PROVE q[i].c # "endspcblock" /\ InBlock(q, i)
    <3>1. PICK j \in 1 .. (i + 1) - 1 :
            q[j].c = "spcblock" /\ \A k \in j + 1 .. (i + 1) - 1 : q[k].c # "endspcblock"
      BY <2>3 DEF InBlock
    <3>2. j \in 1 .. i - 1 BY <3>1, <2>3
    <3>. QED BY <3>1, <3>2 DEF InBlock
  <2>. QED BY <2>1, <2>2, <2>3
<1>4. Started(q, i + 1) <=>
        \/ q[i].c = "startpos"
        \/ q[i].c # "spcblock" /\ Started(q, i)
  <2>1. ASSUME q[i].c = "startpos" PROVE Started(q, i + 1) BY <2>1 DEF Started
  <2>2. ASSUME q[i].c # "spcblock", Started(q, i) PROVE Started(q, i + 1)
    <3>1. PICK j \in 1 .. i - 1 : q[j].c = "startpos" /\ \A k \in j + 1 .. i - 1 : q[k].c # "spcblock"
      BY <2>2 DEF Started
    <3>2. \A k \in j + 1 .. (i + 1) - 1 : q[k].c # "spcblock" BY <3>1, <2>2
    <3>. QED BY <3>1, <3>2 DEF Started
  <2>3. ASSUME Started(q, i + 1), q[i].c # "startpos" PROVE q[i].c # "spcblock" /\ Started(q, i)
    <3>1. PICK j \in 1 .. (i + 1) - 1 :
            q[j].c = "startpos" /\ \A k \in j + 1 .. (i + 1) - 1 : q[k].c # "spcblock"
      BY <2>3 DEF Started
    <3>2. j \in 1 .. i - 1 BY <3>1, <2>3
    <3>. QED BY <3>1, <3>2 DEF Started
  <2>. QED BY <2>1, <2>2, <2>3
<1>5. InBlock(q, i + 1) \in BOOLEAN /\ InBlock(q, i) \in BOOLEAN
      /\ Started(q, i + 1) \in BOOLEAN /\ Started(q, i) \in BOOLEAN
  BY DEF InBlock, Started
<1> HIDE DEF InBlock, Started
<1>. QED BY <1>3, <1>4, <1>5

\* The invariant is kept by a command, an end of a pass and the next patch.
LEMMA CommandShape ==
  ASSUME Inv, Command
  PROVE  ShapeInv' /\ stale' = stale /\ pass' \in {pass, 3}
<1>1. errored \in BOOLEAN /\ DOMAIN spc = DOMAIN NoBlock /\ stale \in BOOLEAN BY DEF Inv, ShapeInv
<1>2. PICK c : Reads(c) /\ errored' \in BOOLEAN /\ pass' \in {pass, 3} /\ DOMAIN spc' = DOMAIN NoBlock
  BY <1>1, CommandType
<1>3. /\ pass \in 0 .. 2 /\ at \in 1 .. MaxLen /\ at \in Nat /\ IsList(patch')
      /\ Len(patch') \in Nat /\ Len(patch') <= commands.len /\ at' = at + 1
      /\ IF pass = 0 THEN Len(patch') = at ELSE patch' = patch /\ at <= Len(patch)
  BY <1>2, ReadsType
<1>4. commands' = commands /\ first' = first /\ stale' = stale /\ DOMAIN marks' = DOMAIN marks
  BY <1>2 DEF Reads, history
<1>5. DOMAIN marks = 1 .. MaxLen + 1 /\ DOMAIN first = 1 .. MaxLen + 1 /\ commands \in CommandSets
  BY DEF Inv, ShapeInv
<1>6. at' \in 1 .. Len(patch') + 1 /\ (pass = 0 => at' = Len(patch') + 1) BY <1>3
<1>. QED BY <1>1, <1>2, <1>3, <1>4, <1>5, <1>6 DEF ShapeInv

LEMMA CommandKeeps ==
  ASSUME Inv, Command
  PROVE  Inv'
<1>1. ShapeInv' /\ stale' = stale /\ pass' \in {pass, 3} BY CommandShape
<1>2. CASE errored' \/ stale
  <2>1. ~Calm' BY <1>1, <1>2 DEF Calm
  <2>. QED BY <1>1, <2>1 DEF Inv, TypedInv, ReadInv, FirstInv, LastInv
<1>3. CASE ~errored' /\ ~stale
  <2>1. PICK c : Effect(c) BY <1>3, CommandEffect
  <2>2. /\ Reads(c) /\ pass' = pass /\ ~errored /\ DOMAIN set' = DOMAIN Defaults
        /\ Here' = Result(patch', Seen, at) /\ Paired(patch', Seen, at) /\ BlockMoves(c)
    BY <2>1 DEF Effect
  <2>3. /\ pass \in 0 .. 2 /\ at \in 1 .. MaxLen /\ at \in Nat /\ at >= 1 /\ MaxLen \in Nat
        /\ patch'[at] = c /\ Same(patch, patch', at - 1) /\ at' = at + 1 /\ Seen[at] = Here
        /\ pass # 0 => patch' = patch /\ at <= Len(patch) /\ Len(patch) \in Nat
    BY <2>2, ReadsType
  <2>4. /\ spc.in = InBlock(patch', at) /\ (spc.in => (spc.execute # None <=> Started(patch', at)))
        /\ StacksInv /\ IsList(pcs) /\ IsList(bases) /\ IsList(tables)
    BY <1>3, <2>2, ReadsNow
  <2>5. Calm BY <1>3, <2>2 DEF Calm
  <2>6. /\ DOMAIN marks = 1 .. MaxLen + 1 /\ marks' = [marks EXCEPT ![at] = Here] /\ first' = first
    BY <2>2 DEF Inv, ShapeInv, Reads, Here, history
  <2>7. Same(Seen, Seen', at) /\ Seen'[at + 1] = Here'
    <3>1. Seen' = [[marks EXCEPT ![at] = Here] EXCEPT ![at + 1] = Here'] BY <2>3, <2>6 DEF Seen
    <3>2. \A j \in 1 .. at : j # at + 1 BY <2>3
    <3>3. Seen'[at + 1] = Here' BY <3>1, <2>3, <2>6
    <3>4. \A j \in 1 .. at : Seen'[j] = Seen[j] BY <3>1, <3>2, <2>3, <2>6 DEF Seen
    <3>. QED BY <3>3, <3>4 DEF Same
  <2>8. Reading(patch', Seen', at')
    <3>1. Reading(patch, Seen, at) BY <2>3, <2>5 DEF Inv, ReadInv
    <3>2. Reading(patch', Seen', at) BY <3>1, <2>3, <2>7, ReadingSame
    <3>3. Same(patch', patch', at) BY DEF Same
    <3>4. Result(patch', Seen', at) = Result(patch', Seen, at) /\ Paired(patch', Seen', at)
      BY <3>3, <2>2, <2>3, <2>7, ResultSame
    <3>5. Seen'[at + 1] = Result(patch', Seen', at) BY <3>4, <2>2, <2>7
    <3>. QED BY <3>2, <3>4, <3>5, <2>3, ReadingNext
  <2>9. /\ StacksInv' /\ IsList(pcs') /\ IsList(bases') /\ IsList(tables')
    <3>1. IsList(pcs') /\ Stack(patch', Seen', at + 1, pcs', "pushpc", "pullpc", pass = 0)
      <4>1. /\ Stack(patch, Seen, at, pcs, "pushpc", "pullpc", pass = 0)
            /\ HasPush(patch', "pushpc", "pullpc", at) /\ "pushpc" # "pullpc"
            /\ Moves(patch'[at], Seen[at], pcs, pcs', "pushpc", "pullpc")
        BY <2>1, <2>2, <2>3, <2>4 DEF StacksInv, Paired, Effect
      <4>. QED BY <4>1, <2>3, <2>4, <2>7, StackNext
    <3>2. IsList(bases') /\ Stack(patch', Seen', at + 1, bases', "pushbase", "pullbase", pass = 0)
      <4>1. /\ Stack(patch, Seen, at, bases, "pushbase", "pullbase", pass = 0)
            /\ HasPush(patch', "pushbase", "pullbase", at) /\ "pushbase" # "pullbase"
            /\ Moves(patch'[at], Seen[at], bases, bases', "pushbase", "pullbase")
        BY <2>1, <2>2, <2>3, <2>4 DEF StacksInv, Paired, Effect
      <4>. QED BY <4>1, <2>3, <2>4, <2>7, StackNext
    <3>3. IsList(tables') /\ Stack(patch', Seen', at + 1, tables', "pushtable", "pulltable", pass = 0)
      <4>1. /\ Stack(patch, Seen, at, tables, "pushtable", "pulltable", pass = 0)
            /\ HasPush(patch', "pushtable", "pulltable", at) /\ "pushtable" # "pulltable"
            /\ Moves(patch'[at], Seen[at], tables, tables', "pushtable", "pulltable")
        BY <2>1, <2>2, <2>3, <2>4 DEF StacksInv, Paired, Effect
      <4>. QED BY <4>1, <2>3, <2>4, <2>7, StackNext
    <3>. QED BY <3>1, <3>2, <3>3, <2>2, <2>3, Zenon DEF StacksInv
  <2>10. BlockInv'
    <3>1. /\ spc'.in = InBlock(patch', at + 1)
          /\ spc'.in => (spc'.execute # None <=> Started(patch', at + 1))
      <4>1. spc'.in \in BOOLEAN /\ InBlock(patch', at + 1) \in BOOLEAN BY <2>2 DEF BlockMoves, InBlock
      <4>. QED BY <4>1, <2>2, <2>3, <2>4, BlockNext DEF BlockMoves
    <3>. QED BY <3>1, <2>3, Zenon DEF BlockInv
  <2>11. TypedInv'
    <3>1. spc'.in \in BOOLEAN BY <2>2 DEF BlockMoves
    <3>2. \A i \in 1 .. MaxLen + 1 : DOMAIN marks'[i].set = DOMAIN Defaults
      BY <2>5, <2>6 DEF Inv, TypedInv, Here
    <3>. QED BY <3>1, <3>2, <2>2, <2>9 DEF TypedInv
  <2>12. ReadInv' BY <2>8, <2>9, <2>10 DEF ReadInv
  <2>13. FirstInv'
    <3>1. ASSUME pass \in {1, 2}
          PROVE  /\ Reading(patch', first', Len(patch') + 1) /\ ~InBlock(patch', Len(patch') + 1)
                 /\ \A i \in 1 .. at + 1 : Seen'[i] = first'[i]
      <4>1. /\ Reading(patch, first, Len(patch) + 1) /\ ~InBlock(patch, Len(patch) + 1)
            /\ \A i \in 1 .. at : Seen[i] = first[i]
        BY <3>1, <2>5 DEF Inv, FirstInv
      <4>2. patch' = patch /\ at <= Len(patch) /\ Len(patch) \in Nat BY <3>1, <2>3
      <4>3. first[at + 1] = Result(patch, first, at) BY <4>1, <4>2, <2>3 DEF Reading
      <4>4. Same(first, Seen, at) /\ Same(patch, patch, at) BY <4>1 DEF Same
      <4>5. Result(patch, first, at) = Result(patch, Seen, at) BY <4>4, <2>3, ResultSame
      <4>6. Seen'[at + 1] = first[at + 1] BY <4>2, <4>3, <4>5, <2>2, <2>7
      <4>7. \A i \in 1 .. at : Seen'[i] = first[i] BY <4>1, <2>7 DEF Same
      <4>8. \A i \in 1 .. at + 1 : i \in 1 .. at \/ i = at + 1 BY <2>3
      <4>. QED BY <4>1, <4>2, <4>6, <4>7, <4>8, <2>6
    <3>. QED BY <3>1, <2>2, <2>3 DEF FirstInv
  <2>14. LastInv' BY <2>2, <2>3 DEF LastInv
  <2>. QED BY <1>1, <2>11, <2>12, <2>13, <2>14 DEF Inv
<1>. QED BY <1>2, <1>3

LEMMA FinishPassKeeps ==
  ASSUME Inv, FinishPass
  PROVE  Inv'
<1>1. /\ pass \in 0 .. 2 /\ pass' = (IF spc.in THEN 3 ELSE pass + 1)
      /\ errored' = (errored \/ (pass = 0 /\ (spc.in \/ pcs # <<>>)))
      /\ first' = (IF pass = 0 THEN Seen ELSE first) /\ marks' = (IF pass = 2 THEN Seen ELSE NoMarks)
      /\ at' = 1 /\ pos' = Nowhere /\ set' = Defaults /\ spc' = [spc EXCEPT !.in = FALSE] /\ pcs' = <<>>
      /\ commands' = commands /\ patch' = patch /\ bases' = bases /\ tables' = tables /\ stale' = stale
      /\ IF pass = 0 THEN patch # <<>> ELSE at > Len(patch)
  BY DEF FinishPass, Fresh, NewSettings, Seen, Here, Inv, ShapeInv
<1>2. /\ commands \in CommandSets /\ errored \in BOOLEAN /\ stale \in BOOLEAN /\ IsList(patch)
      /\ Len(patch) \in Nat /\ Len(patch) <= commands.len /\ commands.len \in Nat
      /\ commands.len <= MaxLen /\ MaxLen \in Nat /\ at = Len(patch) + 1
      /\ DOMAIN marks = 1 .. MaxLen + 1 /\ DOMAIN first = 1 .. MaxLen + 1 /\ DOMAIN spc = DOMAIN NoBlock
  BY SMTT(30), <1>1, PositionsAssumption DEF Inv, ShapeInv, IsList
<1>3. DOMAIN Seen = 1 .. MaxLen + 1 /\ DOMAIN NoMarks = 1 .. MaxLen + 1 BY <1>2 DEF Seen, NoMarks
<1>4. spc'.in = FALSE /\ DOMAIN spc' = DOMAIN NoBlock BY <1>1, <1>2 DEF NoBlock
<1>5. ShapeInv'
  <2>1. errored' \in BOOLEAN BY <1>1
  <2>2. pass' \in 1 .. 3 BY <1>1
  <2>3. DOMAIN marks' = 1 .. MaxLen + 1 /\ DOMAIN first' = 1 .. MaxLen + 1 BY <1>1, <1>2, <1>3
  <2>. QED BY <1>1, <1>2, <1>4, <2>1, <2>2, <2>3 DEF ShapeInv
<1>6. CASE ~Calm' BY <1>5, <1>6 DEF Inv, TypedInv, ReadInv, FirstInv, LastInv
<1>7. CASE Calm'
  <2>1. ~errored /\ ~stale /\ (pass = 0 => ~spc.in /\ pcs = <<>>) BY <1>1, <1>2, <1>7 DEF Calm
  <2>2. Calm BY <2>1 DEF Calm
  <2>3. Reading(patch, Seen, at) /\ BlockInv /\ StacksInv BY <1>1, <2>2 DEF Inv, ReadInv
  <2>4. /\ IsList(bases) /\ IsList(tables) /\ DOMAIN set = DOMAIN Defaults
        /\ \A i \in 1 .. MaxLen + 1 : DOMAIN marks[i].set = DOMAIN Defaults
    BY <2>2 DEF Inv, TypedInv
  <2>5. ~InBlock(patch, Len(patch) + 1)
    <3>1. CASE pass = 0 BY <3>1, <2>1, <2>3, <1>2 DEF BlockInv
    <3>2. CASE pass # 0 BY <3>2, <1>1, <2>2 DEF Inv, FirstInv
    <3>. QED BY <3>1, <3>2
  <2>6. pass' = pass + 1 BY <2>3, <2>5, <1>1, <1>2 DEF BlockInv
  <2>7. TypedInv'
    <3>1. \A i \in 1 .. MaxLen + 1 : DOMAIN Seen[i].set = DOMAIN Defaults
      BY <2>4, <1>2 DEF Seen, Here
    <3>2. \A i \in 1 .. MaxLen + 1 : DOMAIN NoMarks[i].set = DOMAIN Defaults BY DEF NoMarks
    <3>3. \A i \in 1 .. MaxLen + 1 : DOMAIN marks'[i].set = DOMAIN Defaults BY <3>1, <3>2, <1>1
    <3>. QED BY <3>3, <1>1, <1>4, <2>4, EmptyList DEF TypedInv
  <2>8. Seen'[1] = [pos |-> Nowhere, set |-> Defaults]
    <3>1. 1 \in DOMAIN marks' BY <1>5, <1>2 DEF ShapeInv
    <3>. QED BY <3>1, <1>1 DEF Seen, Here
  <2>9. ReadInv'
    <3>1. Reading(patch', Seen', at') /\ ~InBlock(patch', at') BY <1>1, <2>8, Begins
    <3>2. BlockInv' BY <3>1, <1>4 DEF BlockInv, InBlock
    <3>3. /\ Stack(patch', Seen', 1, pcs', "pushpc", "pullpc", FALSE)
          /\ Stack(patch', Seen', 1, bases', "pushbase", "pullbase", FALSE)
          /\ Stack(patch', Seen', 1, tables', "pushtable", "pulltable", FALSE)
      BY <1>1, <2>4, EmptyList, StackBegins
    <3>4. (pass' = 0) = FALSE BY <2>6, <1>1
    <3>5. StacksInv' BY <3>3, <3>4, <1>1, Zenon DEF StacksInv
    <3>. QED BY <3>1, <3>2, <3>5 DEF ReadInv
  <2>10. FirstInv'
    <3>1. ASSUME pass # 2
          PROVE  Reading(patch, first', Len(patch) + 1)
      <4>1. CASE pass = 0 BY <4>1, <1>1, <1>2, <2>3
      <4>2. CASE pass # 0
        <5>1. Reading(patch, first, Len(patch) + 1) BY <4>2, <3>1, <1>1, <2>2 DEF Inv, FirstInv
        <5>. QED BY <5>1, <4>2, <1>1
      <4>. QED BY <4>1, <4>2
    <3>2. ASSUME pass # 2 PROVE \A i \in 1 .. 1 : Seen'[i] = first'[i]
      BY <3>1, <3>2, <2>8 DEF Reading
    <3>3. pass' \in {1, 2} => pass # 2 BY <2>6, <1>1
    <3>. QED BY <3>1, <3>2, <3>3, <2>5, <1>1 DEF FirstInv
  <2>11. LastInv'
    <3>1. pass' = 3 => pass = 2 BY <2>6, <1>1
    <3>. QED BY <3>1, <2>3, <1>1, <1>2 DEF LastInv
  <2>. QED BY <1>5, <2>7, <2>9, <2>10, <2>11 DEF Inv
<1>. QED BY <1>6, <1>7

\* A patch begins, the first one or another one.
Beginning ==
  /\ commands \in CommandSets /\ patch = <<>> /\ pass = 0 /\ at = 1 /\ errored = FALSE
  /\ stale \in BOOLEAN /\ (~stale => bases = <<>> /\ tables = <<>>) /\ pcs = <<>>
  /\ pos = Nowhere /\ set = Defaults /\ DOMAIN spc = DOMAIN NoBlock /\ spc.in = FALSE
  /\ marks = NoMarks /\ first = NoMarks
LEMMA BeginningInv == Beginning => Inv
<1> SUFFICES ASSUME commands \in CommandSets, patch = <<>>, pass = 0, at = 1, errored = FALSE,
                    stale \in BOOLEAN, ~stale => bases = <<>> /\ tables = <<>>, pcs = <<>>,
                    pos = Nowhere, set = Defaults, DOMAIN spc = DOMAIN NoBlock, spc.in = FALSE,
                    marks = NoMarks, first = NoMarks
             PROVE  Inv
  BY DEF Beginning
<1>1. IsList(patch) /\ Len(patch) = 0 BY EmptyList
<1>2. commands.len \in Nat /\ commands.len <= MaxLen /\ MaxLen \in Nat BY PositionsAssumption
<1>3. ShapeInv
  <2>1. DOMAIN NoMarks = 1 .. MaxLen + 1 BY DEF NoMarks
  <2>2. at \in 1 .. Len(patch) + 1 /\ at = Len(patch) + 1 /\ Len(patch) <= commands.len BY <1>1, <1>2
  <2>3. errored \in BOOLEAN BY Zenon
  <2>6. stale \in BOOLEAN BY Zenon
  <2>7. pass \in 0 .. 3 OBVIOUS
  <2>4. DOMAIN marks = 1 .. MaxLen + 1 /\ DOMAIN first = 1 .. MaxLen + 1 BY <2>1
  <2>5. commands \in CommandSets /\ DOMAIN spc = DOMAIN NoBlock OBVIOUS
  <2>. QED BY ONLY <1>1, <2>2, <2>3, <2>4, <2>5, <2>6, <2>7 DEF ShapeInv
<1>4. CASE stale BY <1>3, <1>4 DEF Inv, TypedInv, ReadInv, FirstInv, LastInv, Calm
<1>5. CASE ~stale
  <2>1. IsList(pcs) /\ IsList(bases) /\ IsList(tables) BY <1>5, EmptyList
  <2>2. \A i \in 1 .. MaxLen + 1 : DOMAIN NoMarks[i].set = DOMAIN Defaults BY DEF NoMarks
  <2>3. TypedInv BY <2>1, <2>2 DEF TypedInv
  <2>4. Seen[1] = [pos |-> Nowhere, set |-> Defaults] BY <1>2 DEF Seen, Here, NoMarks
  <2>5. Reading(patch, Seen, at) /\ ~InBlock(patch, at) BY <2>4, Begins
  <2>6. BlockInv BY <2>5 DEF BlockInv, InBlock
  <2>7. /\ Stack(patch, Seen, 1, pcs, "pushpc", "pullpc", pass = 0)
        /\ Stack(patch, Seen, 1, bases, "pushbase", "pullbase", pass = 0)
        /\ Stack(patch, Seen, 1, tables, "pushtable", "pulltable", pass = 0)
    BY <1>5, <2>1, StackBegins
  <2>8. ReadInv BY <2>5, <2>6, <2>7 DEF ReadInv, StacksInv
  <2>. QED BY <1>3, <2>3, <2>8 DEF Inv, FirstInv, LastInv
<1>. QED BY <1>4, <1>5

LEMMA InitInv == Init => Inv
<1> SUFFICES ASSUME Init PROVE Inv OBVIOUS
<1>1. Beginning BY DEF Init, Beginning, NoBlock
<1>. QED BY <1>1, BeginningInv

LEMMA NextPatchKeeps == Inv /\ NextPatch => Inv'
<1> SUFFICES ASSUME Inv, NextPatch PROVE Inv' OBVIOUS
<1>1. commands \in CommandSets /\ DOMAIN spc = DOMAIN NoBlock BY DEF Inv, ShapeInv
<1>2. spc' = [spc EXCEPT !.in = FALSE] BY DEF NextPatch, Fresh
<1>3. DOMAIN spc' = DOMAIN NoBlock /\ spc'.in = FALSE BY <1>1, <1>2 DEF NoBlock
<1>4. stale' \in BOOLEAN /\ (~stale' => bases' = <<>> /\ tables' = <<>>) BY DEF NextPatch
<1>5. /\ commands' \in CommandSets /\ patch' = <<>> /\ pass' = 0 /\ at' = 1 /\ errored' = FALSE
      /\ pcs' = <<>> /\ pos' = Nowhere /\ set' = Defaults /\ marks' = NoMarks /\ first' = NoMarks
  BY <1>1 DEF NextPatch, Fresh, NewSettings
<1>6. Beginning' BY <1>3, <1>4, <1>5 DEF Beginning
<1>. QED BY <1>6, BeginningInv, PTL

LEMMA StutterKeeps ==
  ASSUME Inv, UNCHANGED vars
  PROVE  Inv'
BY DEF vars, stacks, history, Inv, ShapeInv, TypedInv, ReadInv, FirstInv, LastInv, Calm, StacksInv,
  BlockInv, Seen, Here

\* The state of the passes, the stacks and the block, and what each command so far has
\* made of position and settings: in every state of every session.
THEOREM InvHolds == Spec => []Inv
<1>1. Inv /\ [Next]_vars => Inv'
  <2> SUFFICES ASSUME Inv, [Next]_vars PROVE Inv' OBVIOUS
  <2>1. CASE Command BY <2>1, CommandKeeps
  <2>2. CASE FinishPass BY <2>2, FinishPassKeeps
  <2>3. CASE NextPatch BY <2>3, NextPatchKeeps
  <2>4. CASE UNCHANGED vars BY <2>4, StutterKeeps
  <2>. QED BY <2>1, <2>2, <2>3, <2>4 DEF Next, Command
<1>. QED BY InitInv, <1>1, PTL DEF Spec

(***************************************************************************)
(* The theorems                                                            *)
(***************************************************************************)

\* Position and settings before each command are the same in every pass, so that a
\* label there has one value: where bytes may be written, blocks, stacks and what the
\* patch before has left play no part, as long as no stack of bases or tables was left.
THEOREM SamePositions == Spec => []SameInEveryPass
<1>1. Inv => SameInEveryPass
  <2> SUFFICES ASSUME Inv, ~errored, ~stale, pass \in {1, 2}, NEW i \in 1 .. at - 1
               PROVE  marks[i] = first[i]
    BY DEF SameInEveryPass
  <2>1. at \in 1 .. Len(patch) + 1 /\ Len(patch) \in Nat BY DEF Inv, ShapeInv, IsList
  <2>2. i \in 1 .. at /\ i # at BY <2>1
  <2>3. Seen[i] = first[i] BY <2>2 DEF Inv, FirstInv, Calm
  <2>. QED BY <2>2, <2>3 DEF Seen
<1>. QED BY <1>1, InvHolds, PTL

\* In a patch without errors each pullpc, pullbase and pulltable brings back what the
\* push it is paired with has saved.
THEOREM PullsCorrect == Spec => []PullsWhatWasPushed
<1>1. Inv => PullsWhatWasPushed
  <2> SUFFICES ASSUME Inv, Final, ~stale PROVE PullsWhatWasPushed BY DEF PullsWhatWasPushed
  <2>1. Reading(patch, marks, Len(patch) + 1) BY DEF Inv, LastInv, Calm, Final
  <2>2. /\ Len(patch) \in Nat /\ DOMAIN patch = 1 .. Len(patch) /\ Len(patch) <= MaxLen
        /\ \A i \in 1 .. MaxLen + 1 : DOMAIN marks[i].set = DOMAIN Defaults
    BY PositionsAssumption DEF Inv, ShapeInv, TypedInv, Calm, Final, IsList
  <2>3. ASSUME NEW i \in DOMAIN patch
        PROVE  After(i) = Result(patch, marks, i) /\ Paired(patch, marks, i)
               /\ DOMAIN marks[i].set = DOMAIN Defaults
    <3>1. i \in 1 .. (Len(patch) + 1) - 1 /\ i \in 1 .. MaxLen + 1 BY <2>2, PositionsAssumption
    <3>. QED BY <2>1, <2>2, <3>1 DEF Reading, After
  <2>4. ASSUME NEW i \in DOMAIN patch, patch[i].c = "pullpc"
        PROVE  LET k == Pair(patch, "pushpc", "pullpc", i) IN k # 0 /\ After(i).pos = marks[k].pos
    <3> DEFINE k == Pair(patch, "pushpc", "pullpc", i)
    <3>1. k \in 1 .. i - 1 /\ marks[i].set.arch = marks[k].set.arch
      BY <2>3, <2>4 DEF Paired, HasPush, Pulled
    <3>2. Pulled(patch, marks, "pushpc", "pullpc", i) = marks[k] BY <3>1 DEF Pulled
    <3> HIDE DEF k
    <3>3. \A in, started, base : PosOf(patch[i], marks[i], in, started, marks[k], base) = marks[k].pos
      BY <2>4, <3>1 DEF PosOf
    <3>4. After(i).pos = marks[k].pos BY <2>3, <3>2, <3>3 DEF Result
    <3>. QED BY <3>1, <3>4 DEF k
  <2>5. ASSUME NEW i \in DOMAIN patch, patch[i].c = "pullbase"
        PROVE  LET k == Pair(patch, "pushbase", "pullbase", i)
               IN  k # 0 /\ After(i).pos.snes = marks[k].pos.snes
    <3> DEFINE k == Pair(patch, "pushbase", "pullbase", i)
    <3>1. k \in 1 .. i - 1 BY <2>3, <2>5 DEF Paired, HasPush
    <3>2. Pulled(patch, marks, "pushbase", "pullbase", i) = marks[k] BY <3>1 DEF Pulled
    <3> HIDE DEF k
    <3>3. \A in, started, pc : PosOf(patch[i], marks[i], in, started, pc, marks[k])
                                = Displayed(marks[i].pos, marks[k].pos.snes)
      BY <2>5 DEF PosOf
    <3>4. After(i).pos.snes = marks[k].pos.snes BY <2>3, <3>2, <3>3 DEF Result, Displayed
    <3>. QED BY <3>1, <3>4 DEF k
  <2>6. ASSUME NEW i \in DOMAIN patch, patch[i].c = "pulltable"
        PROVE  LET k == Pair(patch, "pushtable", "pulltable", i)
               IN  k # 0 /\ After(i).set.table = marks[k].set.table
    <3> DEFINE k == Pair(patch, "pushtable", "pulltable", i)
    <3>1. k \in 1 .. i - 1 BY <2>3, <2>6 DEF Paired, HasPush
    <3>2. Pulled(patch, marks, "pushtable", "pulltable", i) = marks[k] BY <3>1 DEF Pulled
    <3> HIDE DEF k
    <3>3. After(i).set = [marks[i].set EXCEPT !.table = marks[k].set.table]
      BY <2>3, <2>6, <3>2 DEF Result, SetOf, Setters
    <3>4. "table" \in DOMAIN marks[i].set BY <2>3 DEF Defaults
    <3>5. After(i).set.table = marks[k].set.table BY <3>3, <3>4
    <3>. QED BY <3>1, <3>5 DEF k
  <2>. QED BY <2>4, <2>5, <2>6 DEF PullsWhatWasPushed, Commands
<1>. QED BY <1>1, InvHolds, PTL

(***************************************************************************)
(* Induction over the bytes of a write                                     *)
(***************************************************************************)
Below == { ss \in Nat \X Nat : ss[1] < ss[2] }

LEMMA BelowFounded == IsWellFoundedOn(Below, Nat)
BY NatLessThanWellFounded DEF OpToRel, Below

LEMMA Induction ==
  ASSUME NEW S \in SUBSET Nat, 0 \in S, \A n \in S : n + 1 \in S
  PROVE  S = Nat
<1>1. SUFFICES ASSUME Nat \ S # {} PROVE FALSE
  OBVIOUS
<1>2. PICK x \in Nat \ S : \A y \in Nat \ S : <<y, x>> \notin Below
  <2>1. Nat \ S \subseteq Nat OBVIOUS
  <2>. QED BY <1>1, <2>1, BelowFounded, WFMin
<1>3. x # 0 /\ x - 1 \in Nat BY <1>2
<1>4. x - 1 \notin S BY <1>3
<1>5. <<x - 1, x>> \in Below BY <1>2, <1>3 DEF Below
<1>. QED BY <1>2, <1>3, <1>4, <1>5

IsWalk(w, s, p, n) ==
  w = [k \in 0 .. n |-> IF k = 0 THEN [pos |-> p, out |-> <<>>] ELSE write1(s, w[k - 1])]
LEMMA WalkIs ==
  ASSUME NEW s, NEW p, NEW n, NEW v, IsWalk(v, s, p, n)
  PROVE  \E w : IsWalk(w, s, p, n) /\ Walk(s, p, n) = w[n]
<1> DEFINE w == CHOOSE x : IsWalk(x, s, p, n)
<1>1. IsWalk(w, s, p, n) OBVIOUS
<1>2. Walk(s, p, n) = w[n] BY DEF Walk, IsWalk
<1> HIDE DEF w
<1>. QED BY <1>1, <1>2

LEMMA WalkFirst ==
  ASSUME NEW s, NEW p, NEW n \in Nat, NEW w, IsWalk(w, s, p, n)
  PROVE  w[0] = [pos |-> p, out |-> <<>>]
<1>1. 0 \in 0 .. n OBVIOUS
<1>. QED BY <1>1 DEF IsWalk

LEMMA WalkStep ==
  ASSUME NEW s, NEW p, NEW n \in Nat, NEW w, IsWalk(w, s, p, n), NEW k \in Nat, k + 1 <= n
  PROVE  w[k + 1] = write1(s, w[k])
<1>1. k + 1 \in 0 .. n /\ k + 1 # 0 /\ (k + 1) - 1 = k OBVIOUS
<1>2. w[k + 1] = IF k + 1 = 0 THEN [pos |-> p, out |-> <<>>] ELSE write1(s, w[(k + 1) - 1])
  BY <1>1 DEF IsWalk
<1>. QED BY <1>1, <1>2

LEMMA WalkExists ==
  ASSUME NEW s, NEW p
  PROVE  \A n \in Nat : \E w : IsWalk(w, s, p, n)
<1> DEFINE S == { n \in Nat : \E w : IsWalk(w, s, p, n) }
<1>1. 0 \in S
  <2>1. IsWalk([k \in 0 .. 0 |-> [pos |-> p, out |-> <<>>]], s, p, 0) BY DEF IsWalk
  <2>. QED BY <2>1
<1>2. ASSUME NEW n \in S PROVE n + 1 \in S
  <2>1. PICK w : IsWalk(w, s, p, n) OBVIOUS
  <2> DEFINE v == [k \in 0 .. n + 1 |-> IF k <= n THEN w[k] ELSE write1(s, w[n])]
  <2>2. n \in Nat OBVIOUS
  <2>3. \A k \in 0 .. n : w[k] = IF k = 0 THEN [pos |-> p, out |-> <<>>] ELSE write1(s, w[k - 1])
    BY <2>1 DEF IsWalk
  <2>4. ASSUME NEW k \in 0 .. n + 1
        PROVE  v[k] = IF k = 0 THEN [pos |-> p, out |-> <<>>] ELSE write1(s, v[k - 1])
    <3>1. CASE k = 0 BY <3>1, <2>2, <2>3
    <3>2. CASE k # 0 /\ k <= n
      <4>1. k - 1 \in 0 .. n + 1 /\ k - 1 <= n /\ k \in 0 .. n BY <3>2, <2>2
      <4>2. v[k] = w[k] /\ v[k - 1] = w[k - 1] BY <3>2, <4>1
      <4>. QED BY <3>2, <4>1, <4>2, <2>3
    <3>3. CASE k = n + 1
      <4>1. k - 1 = n /\ n \in 0 .. n + 1 /\ n <= n /\ ~(k <= n) /\ k # 0 BY <3>3, <2>2
      <4>2. v[k] = write1(s, w[n]) /\ v[k - 1] = w[n] BY <4>1
      <4>. QED BY <4>1, <4>2
    <3>. QED BY <3>1, <3>2, <3>3, <2>2
  <2>5. v = [k \in 0 .. n + 1 |-> v[k]] OBVIOUS
  <2> HIDE DEF v
  <2>6. [k \in 0 .. n + 1 |-> v[k]]
          = [k \in 0 .. n + 1 |-> IF k = 0 THEN [pos |-> p, out |-> <<>>] ELSE write1(s, v[k - 1])]
    BY <2>4
  <2>7. IsWalk(v, s, p, n + 1) BY <2>5, <2>6, Zenon DEF IsWalk
  <2>. QED BY <2>2, <2>7
<1> HIDE DEF S
<1>3. S \in SUBSET Nat BY DEF S
<1>4. S = Nat BY <1>1, <1>2, <1>3, Induction
<1>. QED BY <1>4 DEF S

LEMMA WalksAgree ==
  ASSUME NEW s, NEW p, NEW n \in Nat, NEW m \in Nat, n <= m,
         NEW v, IsWalk(v, s, p, n), NEW w, IsWalk(w, s, p, m)
  PROVE  v[n] = w[n]
<1> DEFINE S == { k \in Nat : k <= n => v[k] = w[k] }
<1>1. v[0] = [pos |-> p, out |-> <<>>] /\ w[0] = [pos |-> p, out |-> <<>>] BY WalkFirst
<1>2. 0 \in S BY <1>1
<1>3. ASSUME NEW k \in S PROVE k + 1 \in S
  <2>1. SUFFICES ASSUME k + 1 <= n PROVE v[k + 1] = w[k + 1] OBVIOUS
  <2>2. k \in Nat /\ k <= n /\ k + 1 <= m BY <2>1
  <2>3. v[k + 1] = write1(s, v[k]) BY <2>1, <2>2, WalkStep
  <2>4. w[k + 1] = write1(s, w[k]) BY <2>1, <2>2, WalkStep
  <2>. QED BY <2>2, <2>3, <2>4
<1> HIDE DEF S
<1>4. S \in SUBSET Nat BY DEF S
<1>5. S = Nat BY <1>2, <1>3, <1>4, Induction
<1>. QED BY <1>5 DEF S

\* A write of one byte more.
LEMMA WalkNext ==
  ASSUME NEW s, NEW p, NEW n \in Nat
  PROVE  /\ Walk(s, p, 0) = [pos |-> p, out |-> <<>>]
         /\ Walk(s, p, n + 1) = write1(s, Walk(s, p, n))
<1>1. PICK v : IsWalk(v, s, p, n) /\ Walk(s, p, n) = v[n] BY WalkExists, WalkIs
<1>2. n + 1 \in Nat OBVIOUS
<1>3. PICK w : IsWalk(w, s, p, n + 1) /\ Walk(s, p, n + 1) = w[n + 1] BY <1>2, WalkExists, WalkIs
<1>4. v[n] = w[n] BY <1>1, <1>2, <1>3, WalksAgree
<1>5. n + 1 <= n + 1 OBVIOUS
<1>6. w[n + 1] = write1(s, w[n]) BY <1>2, <1>3, <1>5, WalkStep
<1>7. PICK u : IsWalk(u, s, p, 0) /\ Walk(s, p, 0) = u[0] BY WalkExists, WalkIs
<1>8. u[0] = [pos |-> p, out |-> <<>>] BY <1>7, WalkFirst
<1>. QED BY <1>1, <1>3, <1>4, <1>6, <1>7, <1>8

(***************************************************************************)
(* The positions and the bytes of a write                                  *)
(***************************************************************************)
Places == [snes : Int, start : Int, real : Int, rstart : Int]
IsSet(s) ==
  /\ DOMAIN s = DOMAIN Defaults /\ s.mapper \in Selectable /\ s.check \in {"full", "half", "off"}

LEMMA EverywhereType ==
  ASSUME NEW a \in Int
  PROVE  Everywhere(a) \in Places
BY DEF Everywhere, Places

LEMMA VerifiedType ==
  ASSUME NEW p \in Places
  PROVE  Verified(p) \in Places /\ Verified(p).snes >= 0 /\ Verified(p).real >= 0
<1>1. CASE p.snes < 0 \/ p.real < 0 BY <1>1 DEF Verified, Everywhere, Places, HalfBank
<1>2. CASE ~(p.snes < 0 \/ p.real < 0) BY <1>2 DEF Verified, Places
<1>. QED BY <1>1, <1>2

\* Both positions so far on.
Moved(v, n) == [v EXCEPT !.snes = @ + n, !.real = @ + n]
Position(a, b, c, d) == [snes |-> a, start |-> b, real |-> c, rstart |-> d]
LEMMA PositionIs ==
  ASSUME NEW v \in Places
  PROVE  v = Position(v.snes, v.start, v.real, v.rstart)
BY DEF Places, Position

LEMMA MovedPosition ==
  ASSUME NEW a \in Int, NEW b \in Int, NEW c \in Int, NEW d \in Int, NEW n \in Int
  PROVE  /\ Position(a, b, c, d) \in Places
         /\ Moved(Position(a, b, c, d), n) = Position(a + n, b, c + n, d)
<1>1. Position(a, b, c, d) \in Places BY DEF Position, Places
<1>2. PICK x, y \in Int : x = a + n /\ y = c + n OBVIOUS
<1>3. [Position(a, b, c, d) EXCEPT !.snes = x] = Position(x, b, c, d) BY DEF Position
<1>4. [Position(x, b, c, d) EXCEPT !.real = y] = Position(x, b, y, d) BY DEF Position
<1>5. Position(a, b, c, d).snes = a /\ Position(a, b, c, d).real = c BY DEF Position
<1>6. Moved(Position(a, b, c, d), n)
        = [[Position(a, b, c, d) EXCEPT !.snes = Position(a, b, c, d).snes + n]
             EXCEPT !.real = Position(a, b, c, d).real + n]
  BY DEF Moved, Position
<1>7. Moved(Position(a, b, c, d), n) = Position(a + n, b, c + n, d)
  BY <1>2, <1>3, <1>4, <1>5, <1>6
<1>. QED BY <1>1, <1>7

LEMMA MovedIs ==
  ASSUME NEW v \in Places, NEW n \in Int
  PROVE  /\ Moved(v, n) \in Places /\ Moved(v, n).snes = v.snes + n /\ Moved(v, n).real = v.real + n
         /\ Moved(v, n).start = v.start /\ Moved(v, n).rstart = v.rstart
         /\ Moved(v, 0) = v /\ Moved(Moved(v, n), 1) = Moved(v, n + 1)
<1>1. PICK a, b, c, d \in Int : a = v.snes /\ b = v.start /\ c = v.real /\ d = v.rstart BY DEF Places
<1>2. v = Position(a, b, c, d) BY <1>1, PositionIs
<1>3. Moved(v, n) = Position(a + n, b, c + n, d) BY <1>2, MovedPosition
<1>3a. Position(a + n, b, c + n, d) \in Places BY MovedPosition
<1>4. Moved(v, 0) = Position(a + 0, b, c + 0, d) BY <1>2, MovedPosition
<1>5. Moved(v, n + 1) = Position(a + (n + 1), b, c + (n + 1), d) BY <1>2, MovedPosition
<1>6. Moved(Position(a + n, b, c + n, d), 1) = Position((a + n) + 1, b, (c + n) + 1, d) BY MovedPosition
<1>7. a + 0 = a /\ c + 0 = c /\ (a + n) + 1 = a + (n + 1) /\ (c + n) + 1 = c + (n + 1) OBVIOUS
<1>8. Moved(v, 0) = v /\ Moved(Moved(v, n), 1) = Moved(v, n + 1)
  BY <1>2, <1>3, <1>4, <1>5, <1>6, <1>7
<1>9. /\ Moved(v, n).snes = a + n /\ Moved(v, n).real = c + n
      /\ Moved(v, n).start = b /\ Moved(v, n).rstart = d
  BY <1>3 DEF Position
<1>. QED BY <1>1, <1>3, <1>3a, <1>8, <1>9

LEMMA FurtherType ==
  ASSUME NEW s, IsSet(s), NEW a \in Int, NEW n \in Int
  PROVE  Further(s, a, n) \in Int
<1>1. CASE a < 0 BY <1>1 DEF Further, None
<1>2. CASE ~(a < 0)
  <2>1. a % EndOfSpace \in Nat /\ Above(a) \in Int BY <1>2 DEF EndOfSpace, Above
  <2>2. PICK t \in Int : t = fixsnespos(s.mapper, a % EndOfSpace, n) BY <2>1, StepType DEF IsSet
  <2>3. Further(s, a, n) = Joined(Above(a), t) BY <1>2, <2>2, Zenon DEF Further
  <2>. QED BY <2>1, <2>2, <2>3 DEF Joined, None
<1>. QED BY <1>1, <1>2

LEMMA SteppedType ==
  ASSUME NEW s, IsSet(s), NEW p \in Places, NEW n \in Int
  PROVE  Stepped(s, p, n) \in Places
<1>1. CASE s.check = "off"
  <2>1. PICK a \in Int : a = Further(s, p.snes, n) BY FurtherType DEF Places
  <2>2. PICK b \in Int : b = Further(s, p.real, n) BY FurtherType DEF Places
  <2>3. Stepped(s, p, n) = Restarted(a, b) BY <1>1, <2>1, <2>2 DEF Stepped
  <2>. QED BY <2>3 DEF Restarted, Places
<1>2. CASE s.check # "off"
  <2>1. Stepped(s, p, n) = Moved(p, n) BY <1>2, Zenon DEF Stepped, Moved
  <2>. QED BY <2>1, MovedIs
<1>. QED BY <1>1, <1>2

\* The address of the k-th byte of a write.
Address(s, p, k) == Verified(Walk(s, p, k - 1).pos).real % EndOfSpace
WalkTyped(s, p, n) ==
  /\ Walk(s, p, n).pos \in Places /\ Walk(s, p, n).out \in Seq(Int) /\ Len(Walk(s, p, n).out) = n
  /\ \A k \in 1 .. n : Walk(s, p, n).out[k] = snestopc(s.mapper, Address(s, p, k))

LEMMA WalkType ==
  ASSUME NEW s, IsSet(s), NEW p \in Places
  PROVE  \A n \in Nat : WalkTyped(s, p, n)
<1> DEFINE S == { n \in Nat : WalkTyped(s, p, n) }
<1>1. 0 \in S
  <2>1. Walk(s, p, 0) = [pos |-> p, out |-> <<>>] BY WalkNext
  <2>2. Walk(s, p, 0).pos = p /\ Walk(s, p, 0).out = <<>> BY <2>1
  <2>3. <<>> \in Seq(Int) /\ Len(<<>>) = 0 /\ \A k \in 1 .. 0 : FALSE OBVIOUS
  <2>4. WalkTyped(s, p, 0) BY <2>2, <2>3 DEF WalkTyped
  <2>. QED BY <2>4
<1>2. ASSUME NEW n \in S PROVE n + 1 \in S
  <2>1. n \in Nat /\ WalkTyped(s, p, n) OBVIOUS
  <2>2. PICK w : w = Walk(s, p, n) OBVIOUS
  <2>3. PICK w1 : w1 = Walk(s, p, n + 1) OBVIOUS
  <2>4. w1 = write1(s, w) BY <2>1, <2>2, <2>3, WalkNext
  <2>5. PICK a \in Int : a = Verified(w.pos).real % EndOfSpace /\ a = Address(s, p, n + 1)
    <3>1. Verified(w.pos).real \in Int BY <2>1, <2>2, VerifiedType DEF WalkTyped, Places
    <3>2. Address(s, p, n + 1) = Verified(w.pos).real % EndOfSpace
      <4>1. (n + 1) - 1 = n BY <2>1
      <4>. QED BY <2>2, <4>1, Zenon DEF Address
    <3>3. EndOfSpace \in Nat \ {0} BY DEF EndOfSpace
    <3>. QED BY <3>1, <3>2, <3>3
  <2>6. PICK b \in Int : b = snestopc(s.mapper, a) BY <2>5, RomByteType DEF IsSet
  <2>7. w1.pos = Stepped(s, Verified(w.pos), 1) /\ w1.out = Append(w.out, b)
    BY <2>4, <2>5, <2>6 DEF write1, Stored
  <2>8. w.pos \in Places /\ w.out \in Seq(Int) /\ Len(w.out) = n BY <2>1, <2>2 DEF WalkTyped
  <2>9. w1.pos \in Places BY <2>7, <2>8, VerifiedType, SteppedType
  <2>10. /\ w1.out \in Seq(Int) /\ Len(w1.out) = n + 1 /\ w1.out[n + 1] = b
         /\ \A k \in 1 .. n : w1.out[k] = w.out[k]
    BY <2>7, <2>8, AppendProperties
  <2>11. \A k \in 1 .. n : w.out[k] = snestopc(s.mapper, Address(s, p, k)) BY <2>1, <2>2 DEF WalkTyped
  <2>12. \A k \in 1 .. n + 1 : w1.out[k] = snestopc(s.mapper, Address(s, p, k))
    <3>1. \A k \in 1 .. n + 1 : k \in 1 .. n \/ k = n + 1 BY <2>1
    <3>. QED BY <2>5, <2>6, <2>10, <2>11, <3>1
  <2>13. WalkTyped(s, p, n + 1) BY <2>3, <2>9, <2>10, <2>12 DEF WalkTyped
  <2>. QED BY <2>1, <2>13
<1> HIDE DEF S
<1>3. S \in SUBSET Nat BY DEF S
<1>4. S = Nat BY <1>1, <1>2, <1>3, Induction
<1>. QED BY <1>4 DEF S

\* The bytes of a write that ends early are the first ones of the whole.
LEMMA WalkPrefix ==
  ASSUME NEW s, IsSet(s), NEW p \in Places, NEW n \in Nat, NEW m \in Nat, m <= n, NEW k \in 1 .. m
  PROVE  Walk(s, p, m).out[k] = Walk(s, p, n).out[k]
<1>1. WalkTyped(s, p, m) /\ WalkTyped(s, p, n) BY WalkType
<1>2. k \in 1 .. n OBVIOUS
<1>. QED BY <1>1, <1>2 DEF WalkTyped

\* Where the banks are checked the positions go on side by side.
LEMMA WalkChecked ==
  ASSUME NEW s, IsSet(s), NEW p \in Places, s.check # "off"
  PROVE  \A n \in Nat :
           /\ Verified(Walk(s, p, n).pos) = Moved(Verified(p), n)
           /\ Walk(s, p, n).pos = IF n = 0 THEN p ELSE Moved(Verified(p), n)
<1> DEFINE S == { n \in Nat : /\ Verified(Walk(s, p, n).pos) = Moved(Verified(p), n)
                              /\ Walk(s, p, n).pos = IF n = 0 THEN p ELSE Moved(Verified(p), n) }
<1>1. PICK v \in Places : v = Verified(p) /\ v.snes >= 0 /\ v.real >= 0 BY VerifiedType
<1>2. 0 \in S
  <2>1. Walk(s, p, 0).pos = p BY WalkNext
  <2>2. Moved(v, 0) = v BY MovedIs
  <2>. QED BY <2>1, <2>2, <1>1
<1>3. ASSUME NEW n \in S PROVE n + 1 \in S
  <2>1. n \in Nat /\ Verified(Walk(s, p, n).pos) = Moved(v, n) BY <1>1
  <2>2. Walk(s, p, n + 1).pos = Stepped(s, Moved(v, n), 1)
    <3>1. Walk(s, p, n + 1) = write1(s, Walk(s, p, n)) BY <2>1, WalkNext
    <3>2. write1(s, Walk(s, p, n)).pos = Stepped(s, Verified(Walk(s, p, n).pos), 1) BY DEF write1, Stored
    <3>. QED BY <2>1, <3>1, <3>2
  <2>3. Stepped(s, Moved(v, n), 1) = Moved(Moved(v, n), 1) BY Zenon DEF Stepped, Moved
  <2>4. Moved(Moved(v, n), 1) = Moved(v, n + 1) BY <2>1, MovedIs
  <2>5. Walk(s, p, n + 1).pos = Moved(v, n + 1) BY <2>2, <2>3, <2>4
  <2>6. Moved(v, n + 1).snes = v.snes + (n + 1) /\ Moved(v, n + 1).real = v.real + (n + 1)
    <3>1. n + 1 \in Int BY <2>1
    <3>. QED BY <3>1, MovedIs
  <2>7. v.snes \in Int /\ v.real \in Int BY DEF Places
  <2>8. ~(Moved(v, n + 1).snes < 0 \/ Moved(v, n + 1).real < 0) BY <1>1, <2>1, <2>6, <2>7
  <2>9. Verified(Moved(v, n + 1)) = Moved(v, n + 1) BY <2>8, Zenon DEF Verified
  <2>10. n + 1 # 0 /\ n + 1 \in Nat BY <2>1
  <2>. QED BY <2>5, <2>9, <2>10, <1>1
<1> HIDE DEF S
<1>4. S \in SUBSET Nat BY DEF S
<1>5. S = Nat BY <1>2, <1>3, <1>4, Induction
<1>. QED BY <1>5 DEF S

\* Addresses of one bank, or of one half of it, as checkbankcross has them.
LEMMA PartType ==
  ASSUME NEW check, NEW x \in Int, NEW y \in Int, x <= y
  PROVE  /\ Part(check, x) \in Int /\ Part(check, y) \in Int /\ Part(check, x) <= Part(check, y)
BY DEF Part, HalfBank, FullBank

LEMMA SamePart ==
  ASSUME NEW check, NEW x \in Nat, NEW d \in Nat, Part(check, x) = Part(check, x + d)
  PROVE  LET a == x % EndOfSpace IN
         /\ a \in Nat /\ a + d < EndOfSpace /\ a + d = (x + d) % EndOfSpace /\ Bank(a + d) = Bank(a)
         /\ IsHigh(x) => IsHigh(a)
         /\ IsHigh(a) => IsHigh(a + d)
<1> DEFINE a == x % EndOfSpace
<1>1. x \div FullBank = (x + d) \div FullBank
  BY DEF Part, HalfBank, FullBank
<1>2. PICK b, w \in Nat : w < FullBank /\ x = b * FullBank + w /\ b = x \div FullBank /\ w = x % FullBank
  BY DEF FullBank
<1>3. w + d < FullBank BY <1>1, <1>2 DEF FullBank
<1>4. PICK e, c \in Nat : c < 256 /\ b = e * 256 + c
  <2>1. b % 256 \in Nat /\ b \div 256 \in Nat /\ b % 256 < 256 /\ b = (b \div 256) * 256 + (b % 256)
    BY <1>2
  <2>. QED BY <2>1
<1>5. x = e * EndOfSpace + (c * FullBank + w) BY <1>2, <1>4 DEF EndOfSpace, FullBank
<1>6. c * FullBank + w \in Nat /\ c * FullBank + w < EndOfSpace /\ c * FullBank + w + d < EndOfSpace
  BY <1>2, <1>3, <1>4 DEF EndOfSpace, FullBank
<1>7. \A y \in Nat : y < EndOfSpace => (e * EndOfSpace + y) % EndOfSpace = y
  BY <1>4 DEF EndOfSpace
<1>8. a = c * FullBank + w BY <1>5, <1>6, <1>7
<1>9. (x + d) % EndOfSpace = c * FullBank + (w + d)
  <2>1. x + d = e * EndOfSpace + (c * FullBank + (w + d))
    BY <1>2, <1>4, <1>5 DEF EndOfSpace, FullBank
  <2>2. c * FullBank + (w + d) \in Nat /\ c * FullBank + (w + d) < EndOfSpace
    BY <1>2, <1>4, <1>6 DEF EndOfSpace, FullBank
  <2>. QED BY <1>7, <2>1, <2>2
<1>10. a + d = c * FullBank + (w + d) BY <1>2, <1>4, <1>8 DEF FullBank
<1>11. Bank(a) = c /\ Word(a) = w BY <1>2, <1>4, <1>8, BankAndWord
<1>12. Bank(a + d) = c /\ Word(a + d) = w + d
  <2>1. w + d \in Nat BY <1>2
  <2>. QED BY <1>3, <1>4, <1>10, <2>1, BankAndWord
<1>13. Word(x) = w BY <1>2 DEF Word
<1>14. (IsHigh(x) => IsHigh(a)) /\ (IsHigh(a) => IsHigh(a + d))
  BY <1>2, <1>11, <1>12, <1>13 DEF IsHigh, HalfBank
<1>15. a \in Nat BY <1>6, <1>8
<1>16. a + d < EndOfSpace BY <1>2, <1>4, <1>6, <1>8
<1>. QED BY <1>9, <1>10, <1>11, <1>12, <1>14, <1>15, <1>16

\* What checkbankcross asks of the position in the ROM.
StaysIn(s, p) == s.check # "off" => ~Left(s.check, p.real, p.rstart)
LEMMA StaysInIs ==
  ASSUME NEW s, NEW p \in Places, ~BankCrossed(s.check, p)
  PROVE  StaysIn(s, p)
<1>1. CASE p = Nowhere BY <1>1 DEF StaysIn, Nowhere, Left
<1>2. CASE p # Nowhere BY <1>2, Zenon DEF StaysIn, BankCrossed
<1>. QED BY <1>1, <1>2

\* A write that checkbankcross does not complain of, neither before nor after it,
\* has its bytes in one bank.
LEMMA CheckedParts ==
  ASSUME NEW s, IsSet(s), s.check # "off", NEW p \in Places, NEW n \in Nat, n >= 1,
         StaysIn(s, p), StaysIn(s, Walk(s, p, n).pos),
         NEW k \in 0 .. n - 1
  PROVE  Part(s.check, Verified(p).real + k) = Part(s.check, Verified(p).rstart)
<1>1. PICK v \in Places : v = Verified(p) /\ v.snes >= 0 /\ v.real >= 0 BY VerifiedType
<1>2. PICK x \in Nat, r \in Int : x = v.real /\ r = v.rstart BY <1>1 DEF Places
<1>3. Part(s.check, x) = Part(s.check, r) \/ Part(s.check, x - 1) = Part(s.check, r)
  <2>1. CASE p.snes < 0 \/ p.real < 0
    <3>1. x = HalfBank /\ r = HalfBank BY <1>1, <1>2, <2>1 DEF Verified, Everywhere
    <3>. QED BY <3>1
  <2>2. CASE ~(p.snes < 0 \/ p.real < 0)
    <3>1. v = p BY <1>1, <2>2, Zenon DEF Verified
    <3>3. ~Left(s.check, v.real, v.rstart) BY <3>1, Zenon DEF StaysIn
    <3>. QED BY <1>2, <3>3 DEF Left
  <2>. QED BY <2>1, <2>2
<1>4. Part(s.check, x + n) = Part(s.check, r) \/ Part(s.check, (x + n) - 1) = Part(s.check, r)
  <2>1. PICK u : u = Walk(s, p, n).pos OBVIOUS
  <2>2. u = Moved(v, n) BY <1>1, <2>1, WalkChecked
  <2>3. u.real = x + n /\ u.rstart = r
    <3>1. Moved(v, n).real = v.real + n /\ Moved(v, n).rstart = v.rstart BY MovedIs
    <3>. QED BY <1>2, <2>2, <3>1
  <2>5. ~Left(s.check, u.real, u.rstart) BY <2>1, Zenon DEF StaysIn
  <2>. QED BY <2>3, <2>5 DEF Left
<1>5. x - 1 <= x /\ x <= x + k /\ x + k <= (x + n) - 1 /\ (x + n) - 1 <= x + n
  BY <1>2
<1>6. /\ x - 1 \in Int /\ x + k \in Int /\ x + n \in Int /\ (x + n) - 1 \in Int
  BY <1>2
<1>6a. \A y \in Int : Part(s.check, y) \in Int BY DEF Part, HalfBank, FullBank
<1>7a. PICK p0 \in Int : p0 = Part(s.check, x - 1) BY <1>6, <1>6a
<1>7b. PICK p1 \in Int : p1 = Part(s.check, x) BY <1>6a
<1>7c. PICK p2 \in Int : p2 = Part(s.check, x + k) BY <1>6, <1>6a
<1>7d. PICK p3 \in Int : p3 = Part(s.check, (x + n) - 1) BY <1>6, <1>6a
<1>7e. PICK p4 \in Int : p4 = Part(s.check, x + n) BY <1>6, <1>6a
<1>7f. PICK pr \in Int : pr = Part(s.check, r) BY <1>6a
<1>8. p0 <= p1 BY <1>5, <1>6, <1>7a, <1>7b, PartType
<1>9. p1 <= p2 BY <1>5, <1>6, <1>7b, <1>7c, PartType
<1>10. p2 <= p3 BY <1>5, <1>6, <1>7c, <1>7d, PartType
<1>11. p3 <= p4 BY <1>5, <1>6, <1>7d, <1>7e, PartType
<1>12. p2 = pr BY <1>3, <1>4, <1>7a, <1>7b, <1>7c, <1>7d, <1>7e, <1>7f, <1>8, <1>9, <1>10, <1>11
<1>. QED BY <1>1, <1>2, <1>7c, <1>7f, <1>12

\* In such a write the j-th byte and the k-th lie as far from each other as in the patch.
LEMMA CheckedAddress ==
  ASSUME NEW s, IsSet(s), s.check # "off", NEW p \in Places, NEW n \in Nat,
         StaysIn(s, p), StaysIn(s, Walk(s, p, n).pos),
         NEW j \in 1 .. n, NEW k \in j .. n
  PROVE  /\ Address(s, p, j) \in Nat /\ Address(s, p, k) = Address(s, p, j) + (k - j)
         /\ Address(s, p, k) < EndOfSpace /\ Bank(Address(s, p, k)) = Bank(Address(s, p, j))
         /\ j = 1 /\ IsHigh(Verified(p).real) => IsHigh(Address(s, p, j))
         /\ IsHigh(Address(s, p, j)) => IsHigh(Address(s, p, k))
<1>1. PICK v \in Places : v = Verified(p) /\ v.snes >= 0 /\ v.real >= 0 BY VerifiedType
<1>2. PICK r \in Nat : r = v.real BY <1>1 DEF Places
<1>3. PICK x \in Nat : x = r + (j - 1) BY <1>2
<1>4. PICK d \in Nat : d = k - j /\ x + d = r + (k - 1) BY <1>2, <1>3
<1>5. Part(s.check, x) = Part(s.check, x + d)
  <2>1. j - 1 \in 0 .. n - 1 /\ k - 1 \in 0 .. n - 1 /\ n >= 1 OBVIOUS
  <2>2. Part(s.check, r + (j - 1)) = Part(s.check, v.rstart) BY <1>1, <1>2, <2>1, CheckedParts
  <2>3. Part(s.check, r + (k - 1)) = Part(s.check, v.rstart) BY <1>1, <1>2, <2>1, CheckedParts
  <2>. QED BY <1>3, <1>4, <2>2, <2>3
<1>6. Address(s, p, j) = x % EndOfSpace
  <2>1. PICK i \in Nat : i = j - 1 OBVIOUS
  <2>2. Verified(Walk(s, p, i).pos) = Moved(v, i) BY <1>1, <2>1, WalkChecked
  <2>3. Moved(v, i).real = v.real + i BY MovedIs
  <2>. QED BY <2>1, <1>2, <1>3, <2>2, <2>3 DEF Address
<1>7. Address(s, p, k) = (x + d) % EndOfSpace
  <2>1. PICK i \in Nat : i = k - 1 OBVIOUS
  <2>2. Verified(Walk(s, p, i).pos) = Moved(v, i) BY <1>1, <2>1, WalkChecked
  <2>3. Moved(v, i).real = v.real + i BY MovedIs
  <2>. QED BY <2>1, <1>2, <1>4, <2>2, <2>3 DEF Address
<1>8. PICK a \in Nat : /\ a = x % EndOfSpace /\ a + d < EndOfSpace /\ a + d = (x + d) % EndOfSpace
                       /\ Bank(a + d) = Bank(a) /\ (IsHigh(x) => IsHigh(a))
                       /\ (IsHigh(a) => IsHigh(a + d))
  BY <1>5, SamePart
<1>9. j = 1 => x = r BY <1>2, <1>3
<1>. QED BY <1>1, <1>2, <1>4, <1>6, <1>7, <1>8, <1>9

LEMMA CheckedBytes ==
  ASSUME NEW s, IsSet(s), s.check # "off", NEW p \in Places, NEW n \in Nat,
         StaysIn(s, p), StaysIn(s, Walk(s, p, n).pos),
         NEW j \in 1 .. n, NEW k \in j .. n,
         Walk(s, p, n).out[j] >= 0, Walk(s, p, n).out[k] >= 0,
         s.mapper.name \in {"lorom", "exlorom"} => (IsHigh(Address(s, p, k)) => IsHigh(Address(s, p, j)))
  PROVE  Walk(s, p, n).out[k] = Walk(s, p, n).out[j] + (k - j)
<1>1. PICK d \in Nat : d = k - j OBVIOUS
<1>2. PICK a \in Nat : a = Address(s, p, j) BY CheckedAddress
<1>3. /\ Address(s, p, k) = a + d /\ a + d < EndOfSpace /\ Bank(a + d) = Bank(a)
      /\ IsHigh(a) => IsHigh(a + d)
  BY <1>1, <1>2, CheckedAddress
<1>4. Walk(s, p, n).out[j] = snestopc(s.mapper, a) /\ Walk(s, p, n).out[k] = snestopc(s.mapper, a + d)
  <2>1. j \in 1 .. n /\ k \in 1 .. n OBVIOUS
  <2>. QED BY <1>2, <1>3, <2>1, WalkType DEF WalkTyped
<1>5. snestopc(s.mapper, a + d) = snestopc(s.mapper, a) + d BY <1>2, <1>3, <1>4, SameBank DEF IsSet
<1>. QED BY <1>1, <1>4, <1>5

\* The last byte of a half bank that ends one in the ROM too.
LEMMA HalfEnds ==
  ASSUME NEW m, m.name \in {"lorom", "exlorom"}, NEW a \in Nat, a < EndOfSpace,
         snestopc(m, a) >= 0, snestopc(m, a) % HalfBank # HalfBank - 1
  PROVE  Word(a) # HalfBank - 1
<1>1. PICK b, w \in Nat : b < 256 /\ w < FullBank /\ a = b * FullBank + w /\ Bank(a) = b /\ Word(a) = w
  BY AddressIs
<1>2. Half(a, 128) = (b % 128) * HalfBank + (w % HalfBank) BY <1>1 DEF Half
<1>3. snestopc(m, a) = RomByte(m, a) BY ShownByte
<1>4. CASE m.name = "lorom"
  <2>1. snestopc(m, a) = Half(a, 128) BY <1>3, <1>4 DEF RomByte
  <2>. QED BY <1>1, <1>2, <2>1 DEF HalfBank
<1>5. CASE m.name = "exlorom"
  <2>1. snestopc(m, a) = Half(a, 128) + (IF b >= 128 THEN 0 ELSE FourMegabytes)
    BY <1>1, <1>3, <1>5 DEF RomByte
  <2>. QED BY <1>1, <1>2, <2>1 DEF HalfBank, FourMegabytes
<1>. QED BY <1>4, <1>5

\* One byte and the next.
Ahead(s, p, n, j) ==
  /\ Walk(s, p, n).out[j] \in Int /\ Walk(s, p, n).out[j + 1] \in Int
  /\ Walk(s, p, n).out[j] < Walk(s, p, n).out[j + 1]
Mark(s, p) == [pos |-> p, set |-> s]

LEMMA CheckedAhead ==
  ASSUME NEW s, IsSet(s), s.check # "off", NEW p \in Places, NEW n \in Nat,
         StaysIn(s, p), StaysIn(s, Walk(s, p, n).pos),
         NEW j \in 1 .. n - 1,
         Walk(s, p, n).out[j] >= 0, Walk(s, p, n).out[j + 1] >= 0,
         ~TurnsBack(Mark(s, p), Walk(s, p, n).out[j])
  PROVE  Ahead(s, p, n, j)
<1>1. j \in 1 .. n /\ j + 1 \in 1 .. n /\ j + 1 \in j .. n /\ 1 \in 1 .. n OBVIOUS
<1>2. Walk(s, p, n).out[j] \in Int /\ Walk(s, p, n).out[j + 1] \in Int
  BY <1>1, WalkType DEF WalkTyped
<1>3. PICK a \in Nat : a = Address(s, p, j) BY <1>1, CheckedAddress
<1>4. Address(s, p, j + 1) = a + 1 /\ a + 1 < EndOfSpace /\ Bank(a + 1) = Bank(a)
  <2>1. PICK k \in j .. n : k = j + 1 BY <1>1
  <2>2. Address(s, p, k) = Address(s, p, j) + (k - j) /\ Address(s, p, k) < EndOfSpace
        /\ Bank(Address(s, p, k)) = Bank(Address(s, p, j))
    BY <1>1, CheckedAddress
  <2>. QED BY <1>3, <2>1, <2>2
<1>4a. a < EndOfSpace BY <1>3, <1>4 DEF EndOfSpace
<1>5. Walk(s, p, n).out[j] = snestopc(s.mapper, a)
  BY <1>1, <1>3, WalkType DEF WalkTyped
<1>6. ASSUME s.mapper.name \in {"lorom", "exlorom"}, IsHigh(a + 1) PROVE IsHigh(a)
  <2>1. CASE IsHigh(p.real)
    <3>1. IsHigh(Verified(p).real)
      <4>1. CASE p.snes < 0 \/ p.real < 0
        <5>1. Verified(p).real = HalfBank BY <4>1 DEF Verified, Everywhere
        <5>. QED BY <5>1 DEF IsHigh, Word, HalfBank, FullBank
      <4>2. CASE ~(p.snes < 0 \/ p.real < 0) BY <2>1, <4>2 DEF Verified
      <4>. QED BY <4>1, <4>2
    <3>2. PICK i \in 1 .. n : i = 1 BY <1>1
    <3>3. j \in i .. n BY <3>2
    <3>4. IsHigh(Address(s, p, i)) BY <3>1, <3>2, <3>3, CheckedAddress
    <3>5. IsHigh(Address(s, p, j)) BY <3>3, <3>4, CheckedAddress
    <3>. QED BY <1>3, <3>5
  <2>2. CASE ~IsHigh(p.real)
    <3>1. LowMirror(Mark(s, p)) BY <1>6, <2>2 DEF LowMirror, Mark
    <3>2. Walk(s, p, n).out[j] % HalfBank # HalfBank - 1 BY <3>1 DEF TurnsBack
    <3>3. Word(a) # HalfBank - 1 BY <1>3, <1>4a, <1>5, <1>6, <3>2, HalfEnds
    <3>4. CASE Word(a) + 1 >= FullBank
      <4>1. Word(a) \in Int BY <1>3 DEF Word, FullBank
      <4>. QED BY <3>4, <4>1 DEF IsHigh, FullBank, HalfBank
    <3>5. CASE ~(Word(a) + 1 >= FullBank)
      <4>1. Word(a + 1) = Word(a) + 1 BY <1>3, <1>4a, <3>5, InBank
      <4>2. Word(a) \in Int BY <1>3 DEF Word, FullBank
      <4>. QED BY <1>6, <3>3, <4>1, <4>2 DEF IsHigh, HalfBank
    <3>. QED BY <3>4, <3>5
  <2>. QED BY <2>1, <2>2
<1>7. PICK k \in j .. n : k = j + 1 BY <1>1
<1>8. s.mapper.name \in {"lorom", "exlorom"} => (IsHigh(Address(s, p, k)) => IsHigh(Address(s, p, j)))
  BY <1>3, <1>4, <1>6, <1>7
<1>9. Walk(s, p, n).out[k] = Walk(s, p, n).out[j] + (k - j) BY <1>1, <1>7, <1>8, CheckedBytes
<1>. QED BY <1>2, <1>7, <1>9 DEF Ahead

(***************************************************************************)
(* Where the banks are not checked                                         *)
(***************************************************************************)
LEMMA HighInSpace ==
  ASSUME NEW x \in Nat
  PROVE  x % EndOfSpace \in Nat /\ x % EndOfSpace < EndOfSpace /\ (IsHigh(x % EndOfSpace) <=> IsHigh(x))
<1>1. x % EndOfSpace \in Nat /\ x % EndOfSpace < EndOfSpace BY DEF EndOfSpace
<1>2. (x % EndOfSpace) % FullBank = x % FullBank BY DEF EndOfSpace, FullBank
<1>. QED BY <1>1, <1>2 DEF IsHigh, Word

LEMMA FurtherIs ==
  ASSUME NEW s, IsSet(s), NEW a \in Nat, NEW t \in Int, t = fixsnespos(s.mapper, a % EndOfSpace, 1)
  PROVE  /\ t >= 0 => Further(s, a, 1) \in Nat /\ Further(s, a, 1) % EndOfSpace = t % EndOfSpace
         /\ t < 0 => Further(s, a, 1) = -1
<1>1. ~(a < 0) OBVIOUS
<1>2. Further(s, a, 1) = Joined(Above(a), t) BY <1>1, Zenon DEF Further
<1>3. CASE t < 0 BY <1>2, <1>3 DEF Joined, None
<1>4. CASE ~(t < 0) /\ t < EndOfSpace
  <2>1. PICK e \in Nat : e = a \div EndOfSpace BY DEF EndOfSpace
  <2>2. Further(s, a, 1) = e * EndOfSpace + t BY <1>2, <1>4, <2>1 DEF Joined, Above
  <2>3. (e * EndOfSpace + t) % EndOfSpace = t /\ t % EndOfSpace = t BY <1>4 DEF EndOfSpace
  <2>4. e * EndOfSpace + t \in Nat BY <1>4 DEF EndOfSpace
  <2>. QED BY <1>4, <2>2, <2>3, <2>4
<1>5. CASE ~(t < 0) /\ ~(t < EndOfSpace)
  <2>1. Further(s, a, 1) = t BY <1>2, <1>5, Zenon DEF Joined
  <2>. QED BY <1>5, <2>1
<1>. QED BY <1>3, <1>4, <1>5

\* The high half leads to the high half.
LEMMA HighKept ==
  ASSUME NEW m \in Selectable, m.name \in {"lorom", "exlorom"}, NEW a \in Nat, a < EndOfSpace, IsHigh(a),
         snestopc(m, a) >= 0
  PROVE  IsHigh(fixsnespos(m, a, 1) % EndOfSpace)
<1>1. CASE m.name = "exlorom"
  <2>1. snestopc(m, a) >= -1
    <3>1. snestopc(m, a) \in Int BY RomByteType
    <3>. QED BY <3>1
  <2>2. Follows(m, a) BY <1>1, <2>1, NextExLoRom
  <2>. QED BY <1>1, <2>2 DEF Follows
<1>2. CASE m.name = "lorom"
  <2>1. CASE Word(a) + 1 >= FullBank
    <3>1. fixsnespos(m, a, 1) = a + 1 + HalfBank BY <1>2, <2>1 DEF fixsnespos
    <3>2. CASE Bank(a) < 255
      <4> DEFINE t == a + 1 + HalfBank
      <4>1. t < EndOfSpace /\ Word(t) = HalfBank BY <2>1, <3>2, NextBank
      <4>2. t \in Nat BY DEF HalfBank
      <4> HIDE DEF t
      <4>3. t % EndOfSpace = t /\ IsHigh(t) BY <4>1, <4>2, SmallMod DEF IsHigh, HalfBank
      <4>. QED BY <3>1, <4>3 DEF t
    <3>3. CASE ~(Bank(a) < 255)
      <4>1. a = EndOfSpace - 1 BY <2>1, <3>3, LastBank
      <4>2. (a + 1 + HalfBank) % EndOfSpace = HalfBank BY <4>1 DEF EndOfSpace, HalfBank
      <4>3. IsHigh(HalfBank) BY DEF IsHigh, Word, HalfBank, FullBank
      <4>. QED BY <3>1, <4>2, <4>3
    <3>. QED BY <3>2, <3>3
  <2>2. CASE ~(Word(a) + 1 >= FullBank)
    <3>1. fixsnespos(m, a, 1) = a + 1 BY <1>2, <2>2 DEF fixsnespos
    <3>2. a + 1 < EndOfSpace /\ Word(a + 1) = Word(a) + 1 BY <2>2, InBank
    <3>3. (a + 1) % EndOfSpace = a + 1 BY <3>2, SmallMod
    <3>4. Word(a) \in Int BY DEF Word, FullBank
    <3>. QED BY <3>1, <3>2, <3>3, <3>4 DEF IsHigh, HalfBank
  <2>. QED BY <2>1, <2>2
<1>. QED BY <1>1, <1>2

\* fixsnespos leads from a byte of the ROM to one that lies after it, in each mapper but
\* SuperFX, unless the byte is the last one before the addresses turn back.
THEOREM StepGoesForward ==
  ASSUME NEW m \in Selectable, m.name # "sfxrom", NEW a \in Nat, a < EndOfSpace, snestopc(m, a) >= 0,
         ~Last_(m, snestopc(m, a)),
         m.name \in {"lorom", "exlorom"} => IsHigh(a) \/ snestopc(m, a) % HalfBank # HalfBank - 1
  PROVE  Follows(m, a)
<1>1. m.name \in Mappers BY SelectableIs
<1>2. CASE m.name = "lorom"
  <2>1. snestopc(m, a) % FourMegabytes # FourMegabytes - 1 BY <1>2 DEF Last_
  <2>. QED BY <1>2, <2>1, NextLoRom
<1>3. CASE m.name \in {"hirom", "exhirom"}
  <2>1. snestopc(m, a) % FourMegabytes # FourMegabytes - 1 BY <1>3 DEF Last_
  <2>. QED BY <1>3, <2>1, NextHiRom
<1>4. CASE m.name = "exlorom"
  <2>1. snestopc(m, a) \in Int BY RomByteType
  <2>2. snestopc(m, a) >= -1 BY <2>1
  <2>. QED BY <1>4, <2>2, NextExLoRom
<1>5. CASE m.name = "sa1rom"
  <2>1. IF m = SA1Default THEN snestopc(m, a) % FourMegabytes # FourMegabytes - 1
        ELSE snestopc(m, a) % Megabyte # Megabyte - 1
    BY <1>5 DEF Last_
  <2>. QED BY <1>5, <2>1, NextSA1
<1>6. CASE m.name = "fullsa1rom"
  <2>1. snestopc(m, a) % (2 * FourMegabytes) # 2 * FourMegabytes - 1 BY <1>6 DEF Last_
  <2>. QED BY <1>6, <2>1, NextFullSA1
<1>7. CASE m.name = "norom"
  <2>1. snestopc(m, a) % EndOfSpace # EndOfSpace - 1 BY <1>7 DEF Last_
  <2>. QED BY <1>7, <2>1, NextNoRom
<1>. QED BY <1>1, <1>2, <1>3, <1>4, <1>5, <1>6, <1>7 DEF Mappers

\* What a step without checks leaves of where it starts.
LEMMA OffStep ==
  ASSUME NEW s, IsSet(s), s.check = "off", NEW v \in Places
  PROVE  /\ Stepped(s, v, 1).snes = Further(s, v.snes, 1)
         /\ Stepped(s, v, 1).real = Further(s, v.real, 1)
BY DEF Stepped, Restarted

\* The position of byte k, and that of the one after it.
LEMMA WalkFrom ==
  ASSUME NEW s, IsSet(s), NEW p \in Places, NEW k \in Nat, k >= 1
  PROVE  \E v \in Places : /\ v = Verified(Walk(s, p, k - 1).pos) /\ v.snes >= 0 /\ v.real >= 0
                           /\ Walk(s, p, k).pos = Stepped(s, v, 1) /\ Stepped(s, v, 1) \in Places
                           /\ Address(s, p, k) = v.real % EndOfSpace
<1>1. PICK i \in Nat : i = k - 1 /\ i + 1 = k OBVIOUS
<1>2. Walk(s, p, i).pos \in Places BY WalkType DEF WalkTyped
<1>3. PICK v \in Places : v = Verified(Walk(s, p, i).pos) /\ v.snes >= 0 /\ v.real >= 0
  BY <1>2, VerifiedType
<1>4. Walk(s, p, i + 1).pos = Stepped(s, v, 1)
  <2>1. Walk(s, p, i + 1) = write1(s, Walk(s, p, i)) BY WalkNext
  <2>2. write1(s, Walk(s, p, i)).pos = Stepped(s, Verified(Walk(s, p, i).pos), 1) BY DEF write1, Stored
  <2>. QED BY <1>3, <2>1, <2>2
<1>5. Stepped(s, v, 1) \in Places BY SteppedType
<1>6. Address(s, p, k) = v.real % EndOfSpace BY <1>1, <1>3 DEF Address
<1>. QED BY <1>1, <1>3, <1>4, <1>5, <1>6

\* In the high half of a LoROM bank a write stays in high halves; where the two
\* positions are one they stay so.
Stays(s, p, v) ==
  /\ s.mapper.name \in {"lorom", "exlorom"} /\ IsHigh(p.real) => IsHigh(v.real)
  /\ p.snes = p.real => v.snes = v.real
LEMMA VerifiedStays ==
  ASSUME NEW s, NEW p, NEW u, Stays(s, p, u) \/ u.real < 0
  PROVE  Stays(s, p, Verified(u)) \/ ~(u.snes < 0 \/ u.real < 0)
<1>1. SUFFICES ASSUME u.snes < 0 \/ u.real < 0 PROVE Stays(s, p, Verified(u)) OBVIOUS
<1>2. Verified(u) = Everywhere(HalfBank) BY <1>1, Zenon DEF Verified
<1>3. Verified(u).real = HalfBank /\ Verified(u).snes = HalfBank BY <1>2 DEF Everywhere
<1>4. IsHigh(HalfBank) BY DEF IsHigh, Word, HalfBank, FullBank
<1>. QED BY <1>3, <1>4 DEF Stays

LEMMA WalkStays ==
  ASSUME NEW s, IsSet(s), s.check = "off", NEW p \in Places, NEW n \in Nat,
         \A k \in 1 .. n : Walk(s, p, n).out[k] >= 0,
         NEW k \in 1 .. n
  PROVE  Stays(s, p, Verified(Walk(s, p, k - 1).pos))
<1> DEFINE S == { i \in Nat : i < n => Stays(s, p, Verified(Walk(s, p, i).pos)) }
<1>1. 0 \in S
  <2>1. Walk(s, p, 0).pos = p BY WalkNext
  <2>2. Stays(s, p, p) BY DEF Stays
  <2>3. Stays(s, p, Verified(p))
    <3>1. CASE p.snes < 0 \/ p.real < 0 BY <2>2, <3>1, VerifiedStays
    <3>2. CASE ~(p.snes < 0 \/ p.real < 0)
      <4>1. Verified(p) = p BY <3>2, Zenon DEF Verified
      <4>. QED BY <2>2, <4>1
    <3>. QED BY <3>1, <3>2
  <2>. QED BY <2>1, <2>3
<1>2. ASSUME NEW i \in S PROVE i + 1 \in S
  <2>1. SUFFICES ASSUME i + 1 < n PROVE Stays(s, p, Verified(Walk(s, p, i + 1).pos)) OBVIOUS
  <2>2. i \in Nat /\ i < n /\ i + 1 \in Nat /\ i + 1 >= 1 /\ i + 1 \in 1 .. n /\ (i + 1) - 1 = i BY <2>1
  <2>3. PICK v \in Places : /\ v = Verified(Walk(s, p, i).pos) /\ v.snes >= 0 /\ v.real >= 0
                            /\ Walk(s, p, i + 1).pos = Stepped(s, v, 1) /\ Stepped(s, v, 1) \in Places
                            /\ Address(s, p, i + 1) = v.real % EndOfSpace
    <3>1. PICK h \in Nat : h = i + 1 /\ h >= 1 /\ h - 1 = i BY <2>2
    <3>2. \E v \in Places : /\ v = Verified(Walk(s, p, h - 1).pos) /\ v.snes >= 0 /\ v.real >= 0
                            /\ Walk(s, p, h).pos = Stepped(s, v, 1) /\ Stepped(s, v, 1) \in Places
                            /\ Address(s, p, h) = v.real % EndOfSpace
      BY <3>1, WalkFrom
    <3>. QED BY <3>1, <3>2
  <2>4. Stays(s, p, v) BY <2>2, <2>3
  <2>5. PICK u \in Places : u = Stepped(s, v, 1) /\ u.snes = Further(s, v.snes, 1) /\ u.real = Further(s, v.real, 1)
    BY <2>3, OffStep
  <2>6. v.snes \in Nat /\ v.real \in Nat /\ u.snes \in Int /\ u.real \in Int BY <2>3 DEF Places
  <2>7. p.snes = p.real => u.snes = u.real BY <2>4, <2>5 DEF Stays
  <2>8. ASSUME s.mapper.name \in {"lorom", "exlorom"}, IsHigh(p.real), u.real >= 0 PROVE IsHigh(u.real)
    <3>1. PICK a \in Nat : a = v.real % EndOfSpace /\ a < EndOfSpace /\ IsHigh(a)
      BY <2>4, <2>6, <2>8, HighInSpace DEF Stays
    <3>2. snestopc(s.mapper, a) >= 0
      <4>1. Walk(s, p, n).out[i + 1] = snestopc(s.mapper, a) BY <2>2, <2>3, <3>1, WalkType DEF WalkTyped
      <4>. QED BY <2>2, <4>1
    <3>3. PICK t \in Int : t = fixsnespos(s.mapper, a, 1) BY <3>1, StepType DEF IsSet
    <3>4. IsHigh(t % EndOfSpace) BY <2>8, <3>1, <3>2, <3>3, HighKept DEF IsSet
    <3>5. u.real % EndOfSpace = t % EndOfSpace
      <4>1. t < 0 => Further(s, v.real, 1) = -1 BY <2>6, <3>1, <3>3, FurtherIs
      <4>2. t >= 0 => Further(s, v.real, 1) % EndOfSpace = t % EndOfSpace BY <2>6, <3>1, <3>3, FurtherIs
      <4>. QED BY <2>5, <2>8, <4>1, <4>2
    <3>6. u.real \in Nat BY <2>6, <2>8
    <3>. QED BY <3>4, <3>5, <3>6, HighInSpace
  <2>9. Stays(s, p, u) \/ u.real < 0 BY <2>6, <2>7, <2>8 DEF Stays
  <2>10. CASE u.snes < 0 \/ u.real < 0 BY <2>3, <2>5, <2>9, <2>10, VerifiedStays
  <2>11. CASE ~(u.snes < 0 \/ u.real < 0)
    <3>1. Verified(u) = u BY <2>11, Zenon DEF Verified
    <3>. QED BY <2>3, <2>5, <2>9, <2>11, <3>1
  <2>. QED BY <2>10, <2>11
<1> HIDE DEF S
<1>3. S \in SUBSET Nat BY DEF S
<1>4. S = Nat BY <1>1, <1>2, <1>3, Induction
<1>5. k - 1 \in S /\ k - 1 < n BY <1>4
<1>. QED BY <1>5 DEF S

LEMMA OffAhead ==
  ASSUME NEW s, IsSet(s), s.check = "off", NEW p \in Places, NEW n \in Nat,
         \A k \in 1 .. n : Walk(s, p, n).out[k] >= 0,
         NEW j \in 1 .. n - 1,
         ~TurnsBack(Mark(s, p), Walk(s, p, n).out[j])
  PROVE  Ahead(s, p, n, j)
<1>1. j \in Nat /\ j >= 1 /\ j \in 1 .. n /\ j + 1 \in 1 .. n OBVIOUS
<1>2. PICK v \in Places : /\ v = Verified(Walk(s, p, j - 1).pos) /\ v.snes >= 0 /\ v.real >= 0
                          /\ Walk(s, p, j).pos = Stepped(s, v, 1) /\ Stepped(s, v, 1) \in Places
                          /\ Address(s, p, j) = v.real % EndOfSpace
  BY <1>1, WalkFrom
<1>3. v.snes \in Nat /\ v.real \in Nat BY <1>2 DEF Places
<1>4. PICK a \in Nat : a = v.real % EndOfSpace /\ a < EndOfSpace /\ (IsHigh(a) <=> IsHigh(v.real))
  BY <1>3, HighInSpace
<1>5. PICK b \in Int : b = snestopc(s.mapper, a) BY RomByteType DEF IsSet
<1>6. Walk(s, p, n).out[j] = b /\ b >= 0
  <2>1. Walk(s, p, n).out[j] = snestopc(s.mapper, Address(s, p, j)) BY <1>1, WalkType DEF WalkTyped
  <2>2. Walk(s, p, n).out[j] = b BY <1>2, <1>4, <1>5, <2>1
  <2>. QED BY <1>1, <2>2
<1>7. Stays(s, p, v) BY <1>1, <1>2, WalkStays
<1>8. /\ ~Last_(s.mapper, b) /\ s.mapper.name # "sfxrom"
      /\ s.mapper.name = "fullsa1rom" => p.snes = p.real
      /\ s.mapper.name \in {"lorom", "exlorom"} => IsHigh(p.real) \/ b % HalfBank # HalfBank - 1
  BY <1>6 DEF TurnsBack, LowMirror, Mark
<1>9. s.mapper \in Selectable BY DEF IsSet
<1>10. Follows(s.mapper, a)
  <2>1. s.mapper.name \in {"lorom", "exlorom"} => IsHigh(a) \/ b % HalfBank # HalfBank - 1
    BY <1>4, <1>7, <1>8 DEF Stays
  <2>. QED BY <1>4, <1>5, <1>6, <1>8, <1>9, <2>1, StepGoesForward
<1>11. PICK t \in Nat : t = fixsnespos(s.mapper, a, 1)
                        /\ (snestopc(s.mapper, t % EndOfSpace) >= 0 => b < snestopc(s.mapper, t % EndOfSpace))
  BY <1>5, <1>10 DEF Follows
<1>12. PICK u \in Places : u = Stepped(s, v, 1) /\ u.snes = Further(s, v.snes, 1) /\ u.real = Further(s, v.real, 1)
  BY <1>2, OffStep
<1>13. u.real >= 0 /\ u.real % EndOfSpace = t % EndOfSpace
  BY <1>3, <1>4, <1>11, <1>12, FurtherIs
<1>14. u.snes >= 0
  <2>1. CASE s.mapper.name = "fullsa1rom"
    <3>1. v.snes = v.real BY <1>7, <1>8, <2>1 DEF Stays
    <3>. QED BY <1>12, <1>13, <3>1
  <2>2. CASE s.mapper.name # "fullsa1rom"
    <3>1. PICK c \in Nat : c = v.snes % EndOfSpace /\ c < EndOfSpace BY <1>3, HighInSpace
    <3>2. PICK z \in Nat : z = fixsnespos(s.mapper, c, 1) BY <1>8, <1>9, <2>2, <3>1, StepKept
    <3>. QED BY <1>3, <1>12, <3>1, <3>2, FurtherIs
  <2>. QED BY <2>1, <2>2
<1>15. Verified(u) = u
  <2>1. u.snes \in Int /\ u.real \in Int BY DEF Places
  <2>2. ~(u.snes < 0 \/ u.real < 0) BY <1>13, <1>14, <2>1
  <2>. QED BY <2>2, Zenon DEF Verified
<1>16. Walk(s, p, n).out[j + 1] = snestopc(s.mapper, t % EndOfSpace)
  <2>1. (j + 1) - 1 = j BY <1>1
  <2>2. Address(s, p, j + 1) = u.real % EndOfSpace BY <1>2, <1>12, <1>15, <2>1 DEF Address
  <2>. QED BY <1>1, <1>13, <2>2, WalkType DEF WalkTyped
<1>17. Walk(s, p, n).out[j + 1] \in Int /\ Walk(s, p, n).out[j + 1] >= 0
  BY <1>1, WalkType DEF WalkTyped
<1>. QED BY <1>6, <1>11, <1>16, <1>17 DEF Ahead

\* The bytes of one command in a patch without errors.
LEMMA WriteInOrder ==
  ASSUME NEW s, IsSet(s), NEW p \in Places, NEW n \in Nat,
         StaysIn(s, p), StaysIn(s, Walk(s, p, n).pos),
         \A k \in 1 .. n : Walk(s, p, n).out[k] >= 0,
         NEW j \in 1 .. n - 1,
         ~TurnsBack(Mark(s, p), Walk(s, p, n).out[j])
  PROVE  Ahead(s, p, n, j)
<1>1. CASE s.check = "off" BY <1>1, OffAhead
<1>2. CASE s.check # "off"
  <2>1. j \in 1 .. n /\ j + 1 \in 1 .. n OBVIOUS
  <2>. QED BY <1>2, <2>1, CheckedAhead
<1>. QED BY <1>1, <1>2

(***************************************************************************)
(* What a command leaves, also where it ends in an error                   *)
(***************************************************************************)

\* A set of bytes that is not empty has a last one, if they are those of a write.
LEMMA LastExists ==
  ASSUME NEW out \in Seq(Int), NEW r \in Int
  PROVE  LET beyond == { p \in Elements(out) : p >= r }
         IN  beyond = {} \/ \E p \in beyond : \A q \in beyond : q <= p
<1> DEFINE B(k) == { i \in 1 .. k : i <= Len(out) /\ out[i] >= r }
           P(k) == B(k) = {} \/ \E i \in B(k) : \A j \in B(k) : out[j] <= out[i]
           S == { k \in Nat : P(k) }
<1>1. Len(out) \in Nat /\ DOMAIN out = 1 .. Len(out) /\ \A i \in 1 .. Len(out) : out[i] \in Int OBVIOUS
<1>2. 0 \in S OBVIOUS
<1>3. ASSUME NEW k \in S PROVE k + 1 \in S
  <2>1. k \in Nat /\ P(k) OBVIOUS
  <2>2. CASE k + 1 \notin B(k + 1)
    <3>1. B(k + 1) = B(k) BY SMTT(30), <2>1, <2>2
    <3> HIDE DEF B
    <3>2. P(k + 1) BY <2>1, <3>1, Zenon
    <3> HIDE DEF P
    <3>. QED BY <2>1, <3>2
  <2>3. CASE k + 1 \in B(k + 1)
    <3>1. B(k + 1) = B(k) \cup {k + 1} BY <2>1, <2>3
    <3>2. k + 1 <= Len(out) /\ out[k + 1] \in Int BY <1>1, <2>1, <2>3
    <3>3. CASE B(k) = {}
      <4>1. \A j \in B(k + 1) : j = k + 1 BY <3>1, <3>3, Zenon
      <4> HIDE DEF B
      <4>2. P(k + 1) BY <2>3, <3>2, <4>1
      <4> HIDE DEF P
      <4>. QED BY <2>1, <4>2
    <3>4. CASE B(k) # {}
      <4>1. PICK i \in B(k) : \A j \in B(k) : out[j] <= out[i] BY <2>1, <3>4
      <4>2. \A j \in B(k) : out[j] \in Int BY <1>1, <2>1
      <4>3. PICK x \in Int : x = out[i] BY <4>2
      <4>4. PICK y \in Int : y = out[k + 1] BY <3>2
      <4>5. CASE y <= x
        <5>1. \A j \in B(k + 1) : out[j] <= out[i] BY <3>1, <4>1, <4>3, <4>4, <4>5
        <5>. QED BY <2>1, <3>1, <5>1
      <4>6. CASE ~(y <= x)
        <5>1. \A j \in B(k + 1) : out[j] <= out[k + 1] BY SMTT(30), <3>1, <4>1, <4>2, <4>3, <4>4, <4>6
        <5>. QED BY <2>1, <2>3, <5>1
      <4>. QED BY <4>5, <4>6
    <3>. QED BY <3>3, <3>4
  <2>. QED BY <2>2, <2>3
<1> HIDE DEF S
<1>4. S \in SUBSET Nat BY DEF S
<1>5. S = Nat BY <1>2, <1>3, <1>4, Induction
<1>6. Len(out) \in S BY <1>1, <1>5
<1>7. { p \in Elements(out) : p >= r } = { out[i] : i \in B(Len(out)) } BY <1>1 DEF Elements
<1>. QED BY <1>6, <1>7 DEF S

\* A write never shortens the ROM.
LEMMA ExtendedType ==
  ASSUME NEW out \in Seq(Int), romlen \in Int
  PROVE  Extended(Elements(out)) \in Int /\ Extended(Elements(out)) >= romlen
<1> DEFINE beyond == { p \in Elements(out) : p >= romlen }
<1>1. beyond = {} \/ \E p \in beyond : \A q \in beyond : q <= p BY LastExists
<1>2. beyond \subseteq Int /\ \A p \in beyond : p >= romlen BY DEF Elements
<1>3. Extended(Elements(out)) = IF pass < 2 \/ beyond = {} THEN romlen
                                ELSE (CHOOSE p \in beyond : \A q \in beyond : q <= p) + 1
  BY DEF Extended
<1> HIDE DEF beyond
<1>4. CASE pass < 2 \/ beyond = {} BY <1>3, <1>4
<1>5. CASE ~(pass < 2 \/ beyond = {})
  <2>1. PICK z : z = CHOOSE p \in beyond : \A q \in beyond : q <= p OBVIOUS
  <2>2. z \in beyond BY <1>1, <1>5, <2>1
  <2>3. Extended(Elements(out)) = z + 1 BY <1>3, <1>5, <2>1
  <2>. QED BY <1>2, <2>2, <2>3
<1>. QED BY <1>4, <1>5

\* The bytes of a write, up to the one that ends it early.
LEMMA FirstBad ==
  ASSUME NEW out \in Seq(Int), Bad(out) # {}
  PROVE  \E m \in Nat : /\ m = (CHOOSE k \in Bad(out) : \A j \in Bad(out) : k <= j) - 1
                        /\ m < Len(out) /\ \A k \in 1 .. m : out[k] >= 0
<1>1. Len(out) \in Nat /\ DOMAIN out = 1 .. Len(out) /\ \A i \in 1 .. Len(out) : out[i] \in Int OBVIOUS
<1>2. Bad(out) \subseteq 1 .. Len(out) /\ \A i \in 1 .. Len(out) : i \notin Bad(out) => out[i] >= 0
  BY <1>1 DEF Bad
<1>3. PICK x \in Bad(out) : \A y \in Bad(out) : <<y, x>> \notin Below
  <2>1. Bad(out) \subseteq Nat BY <1>1, <1>2
  <2>. QED BY <2>1, BelowFounded, WFMin
<1>4. \A y \in Bad(out) : x <= y
  <2>1. ASSUME NEW y \in Bad(out), ~(x <= y) PROVE FALSE
    <3>1. x \in Nat /\ y \in Nat /\ y < x BY <1>1, <1>2, <2>1
    <3>2. <<y, x>> \in Below BY <3>1 DEF Below
    <3>. QED BY <1>3, <3>2
  <2>. QED BY <2>1
<1>5. PICK z : z = CHOOSE k \in Bad(out) : \A j \in Bad(out) : k <= j OBVIOUS
<1>6. z \in Bad(out) /\ \A j \in Bad(out) : z <= j BY <1>4, <1>5
<1>7. z \in 1 .. Len(out) /\ \A k \in 1 .. z - 1 : k \in 1 .. Len(out) /\ k \notin Bad(out)
  BY <1>1, <1>2, <1>6
<1>8. z - 1 \in Nat /\ z - 1 < Len(out) /\ \A k \in 1 .. z - 1 : out[k] >= 0 BY <1>1, <1>2, <1>7
<1>. QED BY <1>5, <1>8

LEMMA WrittenOut ==
  ASSUME IsSet(set), NEW p \in Places, NEW n \in Nat, pass \in 0 .. 2
  PROVE  /\ Written(p, n).pos \in Places /\ Written(p, n).out \in Seq(Int)
         /\ pass = 2 => \A k \in DOMAIN Written(p, n).out : Written(p, n).out[k] >= 0
         /\ Written(p, n).ok => Written(p, n).pos = Walk(set, p, n).pos /\ Written(p, n).out = Walk(set, p, n).out
<1>1. PICK w : w = Walk(set, p, n) OBVIOUS
<1>2. w.pos \in Places /\ w.out \in Seq(Int) /\ Len(w.out) = n BY <1>1, WalkType DEF WalkTyped
<1>3. Written(p, n) = Cut(p, w, Bad(w.out)) BY <1>1 DEF Written
<1>4. CASE pass < 2 \/ Bad(w.out) = {}
  <2>1. Written(p, n) = [pos |-> w.pos, out |-> w.out, ok |-> TRUE] BY <1>3, <1>4, Zenon DEF Cut
  <2>2. pass = 2 => \A k \in DOMAIN w.out : w.out[k] >= 0 BY <1>2, <1>4 DEF Bad
  <2>. QED BY <1>1, <1>2, <2>1, <2>2
<1>5. CASE ~(pass < 2 \/ Bad(w.out) = {})
  <2>1. PICK m \in Nat : /\ m = (CHOOSE k \in Bad(w.out) : \A j \in Bad(w.out) : k <= j) - 1
                         /\ m < Len(w.out) /\ \A k \in 1 .. m : w.out[k] >= 0
    BY <1>2, <1>5, FirstBad
  <2>2. Written(p, n) = Stops(Walk(set, p, m)) BY <1>3, <1>5, <2>1, Zenon DEF Cut
  <2>3. PICK u : u = Walk(set, p, m) OBVIOUS
  <2>4. u.pos \in Places /\ u.out \in Seq(Int) /\ Len(u.out) = m BY <2>3, WalkType DEF WalkTyped
  <2>5. Written(p, n) = [pos |-> Verified(u.pos), out |-> u.out, ok |-> FALSE] BY <2>2, <2>3, Zenon DEF Stops
  <2>6. \A k \in 1 .. m : u.out[k] >= 0
    <3>1. m <= n BY <1>2, <2>1
    <3>. QED BY <1>1, <2>1, <2>3, <3>1, WalkPrefix
  <2>7. DOMAIN u.out = 1 .. m BY <2>4
  <2>8. Verified(u.pos) \in Places BY <2>4, VerifiedType
  <2>. QED BY <2>4, <2>5, <2>6, <2>7, <2>8
<1>. QED BY <1>4, <1>5

\* Types of the state, errors or not.
StacksTyped(p, b) == IsList(p) /\ (\A i \in DOMAIN p : p[i].pos \in Places) /\ b \in Seq(Int)
PatchByte == [pc : Nat, by : 1 .. MaxLen]
ValueInv ==
  /\ at \in 1 .. MaxLen + 1 /\ pos \in Places /\ IsSet(set)
  /\ spc.in \in BOOLEAN /\ spc.size \in Int
  /\ romlen \in Int /\ romlen >= RomLen
  /\ rom \in Seq(PatchByte) /\ IsList(blocks)
  /\ StacksTyped(pcs, bases)
  /\ \A i \in DOMAIN patch : IsCommand(patch[i])
\* checkbankcross has looked at the position.
CheckedInv == ~errored => ~BankCrossed(set.check, pos)

\* The end of a command.
Settled ==
  /\ pos' \in Places /\ IsSet(set')
  /\ ~errored' => ~errored /\ pass' = pass /\ ~BankCrossed(set'.check, pos')
Kept == pos' = pos /\ set'.check = set.check /\ set'.mapper = set.mapper
\* What command c puts into the ROM in pass 2: nothing, bytes from the position on,
\* or those of an incbin to an address.
Puts(c, out) ==
  \/ out = <<>> /\ (c.c \notin Moving /\ spc.in => Kept)
  \/ \E n \in Nat : /\ out = Walk(set, pos, n).out /\ StaysIn(set, Walk(set, pos, n).pos) /\ set' = set
                    /\ c.c # "spcblock" => pos' = Walk(set, pos, n).pos
  \/ c.c = "incbin_to" /\ \A k \in DOMAIN out : out[k] = out[1] + k - 1
Ends(c) == c.c = "endspcblock" /\ spc.in
BlockPuts(c, out) ==
  /\ c.c = "spcblock" =>
       /\ out = Walk(set, pos, 4).out /\ pos' = Displayed(Walk(set, pos, 4).pos, c.dest) /\ c.dest \in Nat
       /\ set' = set /\ spc'.size = pos.real /\ spc'.from = at /\ blocks' = blocks
  /\ Ends(c) =>
       /\ ~spc'.in
       /\ blocks' = Append(blocks, [from |-> spc.from, to |-> at, length |-> Length,
                                    pc |-> snestopc(set.mapper, spc.size % EndOfSpace)])
  /\ c.c # "spcblock" /\ ~Ends(c) =>
       spc'.in = spc.in /\ spc'.size = spc.size /\ spc'.from = spc.from /\ blocks' = blocks
Form(c) ==
  /\ Settled /\ spc'.in \in BOOLEAN /\ spc'.size \in Int
  /\ romlen' \in Int /\ romlen' >= romlen
  /\ StacksTyped(pcs', bases')
  /\ blocks' = blocks \/ (pass = 2 /\ \E b : blocks' = Append(blocks, b))
  /\ \E out \in Seq(Int) :
       /\ rom' = IF pass = 2 THEN rom \o Of(out) ELSE rom
       /\ pass = 2 => \A k \in DOMAIN out : out[k] >= 0
       /\ ~errored' /\ pass = 2 => Puts(c, out) /\ BlockPuts(c, out)

LEMMA DoneSettles ==
  ASSUME errored \in BOOLEAN, NEW s, IsSet(s), NEW p \in Places, Done(s, p)
  PROVE  Settled /\ set' = s /\ pos' = p
<1>1. CASE BankCrossed(s.check, p) BY <1>1 DEF Done, Settled
<1>2. CASE ~BankCrossed(s.check, p) BY <1>2 DEF Done, Settled
<1>. QED BY <1>1, <1>2

LEMMA ErrorSettles ==
  ASSUME errored \in BOOLEAN, pos \in Places, CheckedInv, NEW n, Error(n),
         pos' = pos, IsSet(set'), set'.check = set.check
  PROVE  Settled
BY Zenon DEF Error, Settled, CheckedInv

LEMMA ReadCommand ==
  ASSUME Inv, ValueInv, NEW c, Reads(c)
  PROVE  /\ IsCommand(c) /\ \A i \in DOMAIN patch' : IsCommand(patch'[i])
         /\ pass \in 0 .. 2 /\ errored \in BOOLEAN /\ at \in 1 .. MaxLen
<1>1. /\ pass \in 0 .. 2 /\ at \in 1 .. MaxLen /\ at \in Nat
      /\ IsList(patch') /\ patch'[at] = c /\ Same(patch, patch', at - 1)
      /\ Len(patch') \in Nat
      /\ IF pass = 0 THEN Len(patch') = at ELSE patch' = patch /\ at <= Len(patch)
  BY ReadsType
<1>2. commands \in CommandSets /\ errored \in BOOLEAN /\ IsList(patch) /\ (pass = 0 => at = Len(patch) + 1)
  BY <1>1 DEF Inv, ShapeInv
<1>3. DOMAIN patch = 1 .. Len(patch) /\ DOMAIN patch' = 1 .. Len(patch') /\ Len(patch) \in Nat
  BY <1>1, <1>2 DEF IsList
<1>4. CASE pass = 0
  <2>1. c \in commands.of BY <1>4 DEF Reads
  <2>2. IsCommand(c) BY <1>2, <2>1, PositionsAssumption
  <2>3. \A i \in 1 .. at - 1 : IsCommand(patch'[i]) BY <1>1, <1>2, <1>3, <1>4 DEF Same, ValueInv
  <2>4. \A i \in 1 .. at : i \in 1 .. at - 1 \/ i = at BY <1>1
  <2>. QED BY <1>1, <1>2, <1>3, <1>4, <2>2, <2>3, <2>4
<1>5. CASE pass # 0
  <2>1. at \in DOMAIN patch /\ c = patch[at] BY <1>1, <1>3, <1>5
  <2>. QED BY <1>1, <1>2, <1>5, <2>1 DEF ValueInv
<1>. QED BY <1>4, <1>5

\* The bytes of nothing, and those of a sequence.
LEMMA OfType ==
  ASSUME NEW out \in Seq(Int)
  PROVE  /\ DOMAIN Of(out) = 1 .. Len(out) /\ Len(out) \in Nat /\ IsList(Of(out)) /\ Len(Of(out)) = Len(out)
         /\ \A k \in 1 .. Len(out) : Of(out)[k] = [pc |-> out[k], by |-> at]
         /\ out = <<>> => Of(out) = <<>>
<1>1. Len(out) \in Nat /\ DOMAIN out = 1 .. Len(out) /\ Of(out) = [i \in 1 .. Len(out) |-> [pc |-> out[i], by |-> at]]
  BY DEF Of
<1>2. Of(out) \in [1 .. Len(out) -> Elements(Of(out))] BY <1>1 DEF Elements
<1>3. Of(out) \in Seq(Elements(Of(out))) BY SMTT(30), <1>1, <1>2, SeqDef
<1>4. Len(Of(out)) = Len(out) BY <1>1, <1>3
<1>5. out = <<>> => Of(out) = <<>> BY <1>3, <1>4
<1>. QED BY <1>1, <1>3, <1>4, <1>5 DEF IsList

\* The commands that write nothing.
LEMMA QuietForm ==
  ASSUME Inv, ValueInv, NEW c, Settled, StacksTyped(pcs', bases'), UNCHANGED <<romlen, rom, blocks>>,
         c.c # "spcblock", ~Ends(c),
         spc'.in = spc.in, spc'.size = spc.size, spc'.from = spc.from,
         ~errored' /\ c.c \notin Moving /\ spc.in => Kept
  PROVE  Form(c)
<1>1. <<>> \in Seq(Int) /\ DOMAIN <<>> = {} OBVIOUS
<1>2. rom \o Of(<<>>) = rom
  <2>1. Of(<<>>) = <<>> BY <1>1, OfType
  <2>2. rom \in Seq(PatchByte) BY DEF ValueInv
  <2>. QED BY <2>1, <2>2
<1>3. romlen \in Int /\ spc.in \in BOOLEAN /\ spc.size \in Int BY DEF ValueInv
<1>4. ~errored' => Puts(c, <<>>) /\ BlockPuts(c, <<>>) BY Zenon DEF Puts, BlockPuts
<1>5. /\ rom' = IF pass = 2 THEN rom \o Of(<<>>) ELSE rom
      /\ pass = 2 => \A k \in DOMAIN <<>> : <<>>[k] >= 0
  BY <1>1, <1>2
<1>6. \E out \in Seq(Int) :
       /\ rom' = IF pass = 2 THEN rom \o Of(out) ELSE rom
       /\ pass = 2 => \A k \in DOMAIN out : out[k] >= 0
       /\ ~errored' /\ pass = 2 => Puts(c, out) /\ BlockPuts(c, out)
  BY <1>1, <1>4, <1>5, Zenon
<1>7. romlen' \in Int /\ romlen' >= romlen BY <1>3
<1>. QED BY <1>3, <1>6, <1>7, Zenon DEF Form

\* Those whose last step is to write.
LEMMA WriteForm ==
  ASSUME Inv, ValueInv, CheckedInv, NEW c, Reads(c), NEW n \in Nat, Writes(set, pos, n),
         UNCHANGED <<pcs, bases>>, c.c # "spcblock",
         spc'.in \in BOOLEAN, spc'.size = spc.size,
         blocks' = blocks \/ (pass = 2 /\ \E b : blocks' = Append(blocks, b)),
         \A out : pass = 2 => BlockPuts(c, out)
  PROVE  Form(c)
<1>1. /\ pos \in Places /\ IsSet(set) /\ romlen \in Int /\ spc.size \in Int /\ StacksTyped(pcs, bases)
  BY DEF ValueInv
<1>2. pass \in 0 .. 2 /\ errored \in BOOLEAN BY ReadCommand
<1>3. PICK w : w = Written(pos, n) OBVIOUS
<1>4. /\ w.pos \in Places /\ w.out \in Seq(Int) /\ (pass = 2 => \A k \in DOMAIN w.out : w.out[k] >= 0)
      /\ w.ok => w.pos = Walk(set, pos, n).pos /\ w.out = Walk(set, pos, n).out
      /\ ~w.ok => ~(pass < 2)
  BY <1>1, <1>2, <1>3, WrittenOut, WrittenType
<1>5. /\ rom' = IF pass = 2 THEN rom \o Of(w.out) ELSE rom
      /\ romlen' = Extended(Elements(w.out))
      /\ IF w.ok THEN Done(set, w.pos) ELSE Error(2) /\ pos' = w.pos /\ set' = set
  BY <1>3 DEF Writes
<1>6. romlen' \in Int /\ romlen' >= romlen BY <1>1, <1>4, <1>5, ExtendedType
<1>7. Settled /\ set' = set /\ (~errored' => w.ok /\ pos' = w.pos)
  <2>1. CASE w.ok BY <1>1, <1>2, <1>4, <1>5, <2>1, DoneSettles
  <2>2. CASE ~w.ok
    <3>0. ~(pass < 2) /\ Error(2) /\ pos' = w.pos /\ set' = set BY <1>4, <1>5, <2>2, Zenon
    <3>0a. pass = 2 BY <1>2, <3>0
    <3>1. errored' BY <3>0, <3>0a, Zenon DEF Error
    <3>. QED BY <1>1, <1>4, <3>0, <3>1 DEF Settled
  <2>. QED BY <2>1, <2>2
<1>8. ~errored' => Puts(c, w.out)
  <2>1. SUFFICES ASSUME ~errored' PROVE Puts(c, w.out) OBVIOUS
  <2>2. /\ w.out = Walk(set, pos, n).out /\ pos' = Walk(set, pos, n).pos
        /\ ~BankCrossed(set.check, Walk(set, pos, n).pos) /\ Walk(set, pos, n).pos \in Places
    BY <1>4, <1>7, <2>1 DEF Settled
  <2>3. StaysIn(set, Walk(set, pos, n).pos) BY <2>2, StaysInIs
  <2>. QED BY <1>7, <2>2, <2>3, Zenon DEF Puts
<1>9. \E out \in Seq(Int) :
       /\ rom' = IF pass = 2 THEN rom \o Of(out) ELSE rom
       /\ pass = 2 => \A k \in DOMAIN out : out[k] >= 0
       /\ ~errored' /\ pass = 2 => Puts(c, out) /\ BlockPuts(c, out)
  BY <1>4, <1>5, <1>8, Zenon
<1>10. spc'.size \in Int /\ StacksTyped(pcs', bases') BY <1>1
<1>. QED BY <1>6, <1>7, <1>9, <1>10, Zenon DEF Form

\* The ways in which a command ends that writes nothing.
Plainly(c) ==
  /\ StacksTyped(pcs', bases') /\ UNCHANGED <<romlen, rom, blocks>>
  /\ c.c # "spcblock" /\ ~Ends(c)
  /\ spc'.in = spc.in /\ spc'.size = spc.size /\ spc'.from = spc.from
LEMMA QuietDone ==
  ASSUME Inv, ValueInv, NEW c, Reads(c), Plainly(c), NEW s, IsSet(s), NEW p \in Places, Done(s, p),
         c.c \notin Moving /\ spc.in => p = pos /\ s.check = set.check /\ s.mapper = set.mapper
  PROVE  Form(c)
<1>1. errored \in BOOLEAN BY ReadCommand
<1>2. Settled /\ set' = s /\ pos' = p BY <1>1, DoneSettles
<1>3. c.c \notin Moving /\ spc.in => Kept BY <1>2, Zenon DEF Kept
<1>. QED BY <1>2, <1>3, QuietForm DEF Plainly

LEMMA QuietError ==
  ASSUME Inv, ValueInv, CheckedInv, NEW c, Reads(c), Plainly(c), NEW n, Error(n),
         UNCHANGED pos, IsSet(set'), set'.check = set.check, c.c \notin Moving => set'.mapper = set.mapper
  PROVE  Form(c)
<1>1. errored \in BOOLEAN BY ReadCommand
<1>2. Settled BY <1>1, ErrorSettles DEF ValueInv
<1>3. c.c \notin Moving /\ spc.in => Kept BY Zenon DEF Kept
<1>. QED BY <1>2, <1>3, QuietForm DEF Plainly

\* The state a command finds, and that of one that leaves block and stacks alone.
LEMMA StateType ==
  ASSUME ValueInv
  PROVE  /\ pos \in Places /\ IsSet(set) /\ romlen \in Int /\ StacksTyped(pcs, bases)
         /\ pos.snes \in Int /\ pos.start \in Int /\ pos.real \in Int /\ pos.rstart \in Int
         /\ spc.in \in BOOLEAN /\ spc.size \in Int
BY DEF ValueInv, Places
LEMMA PlainlyIs ==
  ASSUME ValueInv, NEW c, UNCHANGED <<spc, pcs, bases, romlen, rom, blocks>>,
         c.c # "spcblock", c.c # "endspcblock"
  PROVE  Plainly(c)
BY StateType DEF Plainly, Ends
LEMMA SetType ==
  ASSUME NEW s, IsSet(s), NEW f \in DOMAIN Defaults \ {"mapper", "check"}, NEW v
  PROVE  /\ IsSet([s EXCEPT ![f] = v]) /\ [s EXCEPT ![f] = v].check = s.check
         /\ [s EXCEPT ![f] = v].mapper = s.mapper
<1>1. "mapper" \in DOMAIN Defaults /\ "check" \in DOMAIN Defaults BY DEF Defaults
<1>. QED BY <1>1 DEF IsSet
LEMMA DisplayedType ==
  ASSUME NEW p \in Places, NEW a \in Int
  PROVE  Displayed(p, a) \in Places /\ Displayed(p, a).real = p.real /\ Displayed(p, a).rstart = p.rstart
BY DEF Displayed, Places

LEMMA BaseForm ==
  ASSUME Inv, ValueInv, CheckedInv, Base
  PROVE  \E c : Reads(c) /\ Form(c)
<1>1. PICK c : c.c = "base" /\ Reads(c) /\ UNCHANGED <<spc, pcs, bases, romlen, rom, blocks>> /\ Done([set EXCEPT !.bank = "auto"], Displayed(pos, c.a))
  BY DEF Base, Candidates, stacks, Goes
<1>2. Plainly(c) BY <1>1, PlainlyIs
<1>3. IsCommand(c) BY <1>1, ReadCommand
<1>4. IsSet([set EXCEPT !.bank = "auto"]) /\ Displayed(pos, c.a) \in Places
  <2>1. c.a \in Nat BY <1>1, <1>3 DEF IsCommand
  <2>2. "bank" \in DOMAIN Defaults \ {"mapper", "check"} BY DEF Defaults
  <2>3. IsSet([set EXCEPT !.bank = "auto"]) BY <2>2, StateType, SetType
  <2>4. Displayed(pos, c.a) \in Places
    <3>1. c.a \in Int /\ pos \in Places BY <2>1, StateType
    <3>. QED BY <3>1 DEF Displayed, Places
  <2>. QED BY <2>3, <2>4
<1>5. c.c \notin Moving /\ spc.in => Displayed(pos, c.a) = pos /\ [set EXCEPT !.bank = "auto"] = set
  BY <1>1 DEF Moving
<1>. QED BY <1>1, <1>2, <1>4, <1>5, QuietDone

LEMMA BaseOffForm ==
  ASSUME Inv, ValueInv, CheckedInv, BaseOff
  PROVE  \E c : Reads(c) /\ Form(c)
<1>1. PICK c : c.c = "base_off" /\ Reads(c) /\ UNCHANGED <<spc, pcs, bases, romlen, rom, blocks>> /\ Done(set, [pos EXCEPT !.snes = pos.real, !.start = pos.rstart])
  BY DEF BaseOff, Candidates, stacks, Goes
<1>2. Plainly(c) BY <1>1, PlainlyIs
<1>3. IsCommand(c) BY <1>1, ReadCommand
<1>4. IsSet(set) /\ [pos EXCEPT !.snes = pos.real, !.start = pos.rstart] \in Places
  BY StateType DEF Places
<1>5. c.c \notin Moving /\ spc.in => [pos EXCEPT !.snes = pos.real, !.start = pos.rstart] = pos /\ set = set
  BY <1>1 DEF Moving
<1>. QED BY <1>1, <1>2, <1>4, <1>5, QuietDone

LEMMA SkipForm ==
  ASSUME Inv, ValueInv, CheckedInv, Skip
  PROVE  \E c : Reads(c) /\ Form(c)
<1>1. PICK c : c.c = "skip" /\ Reads(c) /\ UNCHANGED <<spc, pcs, bases, romlen, rom, blocks>> /\ Done(set, Stepped(set, pos, Amount(c, pos)))
  BY DEF Skip, Candidates, stacks, Goes
<1>2. Plainly(c) BY <1>1, PlainlyIs
<1>3. IsCommand(c) BY <1>1, ReadCommand
<1>4. IsSet(set) /\ Stepped(set, pos, Amount(c, pos)) \in Places
  <2>1. c.n \in Int /\ c.align \in Nat BY <1>1, <1>3 DEF IsCommand
  <2>2. Amount(c, pos) \in Int BY <2>1, StateType DEF Amount
  <2>. QED BY <2>2, StateType, SteppedType
<1>5. c.c \notin Moving /\ spc.in => Stepped(set, pos, Amount(c, pos)) = pos /\ set = set
  BY <1>1 DEF Moving
<1>. QED BY <1>1, <1>2, <1>4, <1>5, QuietDone

LEMMA OrgForm ==
  ASSUME Inv, ValueInv, CheckedInv, Org
  PROVE  \E c : Reads(c) /\ Form(c)
<1>1. PICK c : /\ c.c = "org" /\ Reads(c) /\ UNCHANGED <<spc, pcs, bases, romlen, rom, blocks>>
               /\ IF Refused THEN Error(0) /\ UNCHANGED <<pos, set>> ELSE Done(set, Everywhere(c.a))
  BY DEF Org, Candidates, stacks, Goes
<1>2. Plainly(c) BY <1>1, PlainlyIs
<1>3. IsCommand(c) BY <1>1, ReadCommand
<1>4. CASE Refused
  <2>1. Error(0) /\ pos' = pos /\ set' = set BY <1>1, <1>4
  <2>. QED BY <1>1, <1>2, <2>1, StateType, QuietError
<1>5. CASE ~(Refused)
  <2>1. Done(set, Everywhere(c.a)) BY <1>1, <1>5
  <2>2. IsSet(set) /\ Everywhere(c.a) \in Places
    <3>1. c.a \in Nat BY <1>1, <1>3 DEF IsCommand
    <3>. QED BY <3>1, StateType, EverywhereType
  <2>3. c.c \notin Moving /\ spc.in => Everywhere(c.a) = pos /\ set.check = set.check /\ set.mapper = set.mapper
    BY <1>1, <1>5 DEF Refused
  <2>. QED BY <1>1, <1>2, <2>1, <2>2, <2>3, QuietDone
<1>. QED BY <1>4, <1>5

LEMMA ArchForm ==
  ASSUME Inv, ValueInv, CheckedInv, Arch
  PROVE  \E c : Reads(c) /\ Form(c)
<1>1. PICK c : /\ c.c = "arch" /\ Reads(c) /\ UNCHANGED <<spc, pcs, bases, romlen, rom, blocks>>
               /\ IF Refused THEN Error(0) /\ UNCHANGED <<pos, set>> ELSE Done([set EXCEPT !.arch = c.arch], pos)
  BY DEF Arch, Candidates, stacks, Sets
<1>2. Plainly(c) BY <1>1, PlainlyIs
<1>3. IsCommand(c) BY <1>1, ReadCommand
<1>4. CASE Refused
  <2>1. Error(0) /\ pos' = pos /\ set' = set BY <1>1, <1>4
  <2>. QED BY <1>1, <1>2, <2>1, StateType, QuietError
<1>5. CASE ~(Refused)
  <2>1. Done([set EXCEPT !.arch = c.arch], pos) BY <1>1, <1>5
  <2>2. IsSet([set EXCEPT !.arch = c.arch]) /\ pos \in Places
    <3>1. "arch" \in DOMAIN Defaults \ {"mapper", "check"} BY DEF Defaults
    <3>. QED BY <3>1, StateType, SetType
  <2>3. c.c \notin Moving /\ spc.in => pos = pos /\ [set EXCEPT !.arch = c.arch].check = set.check /\ [set EXCEPT !.arch = c.arch].mapper = set.mapper
    BY <1>1, <1>5 DEF Refused
  <2>. QED BY <1>1, <1>2, <2>1, <2>2, <2>3, QuietDone
<1>. QED BY <1>4, <1>5

LEMMA CheckTitleForm ==
  ASSUME Inv, ValueInv, CheckedInv, CheckTitle
  PROVE  \E c : Reads(c) /\ Form(c)
<1>1. PICK c : /\ c.c = "check_title" /\ Reads(c) /\ UNCHANGED <<spc, pcs, bases, romlen, rom, blocks>>
               /\ IF (TooShort \/ ~c.same) /\ ~c.ignored THEN Error(0) /\ UNCHANGED <<pos, set>> ELSE Done(set, pos)
  BY DEF CheckTitle, Candidates, stacks, Goes
<1>2. Plainly(c) BY <1>1, PlainlyIs
<1>3. IsCommand(c) BY <1>1, ReadCommand
<1>4. CASE (TooShort \/ ~c.same) /\ ~c.ignored
  <2>1. Error(0) /\ pos' = pos /\ set' = set BY <1>1, <1>4
  <2>. QED BY <1>1, <1>2, <2>1, StateType, QuietError
<1>5. CASE ~((TooShort \/ ~c.same) /\ ~c.ignored)
  <2>1. Done(set, pos) BY <1>1, <1>5
  <2>2. IsSet(set) /\ pos \in Places
    BY StateType
  <2>3. c.c \notin Moving /\ spc.in => pos = pos /\ set.check = set.check /\ set.mapper = set.mapper
    BY <1>1, <1>5
  <2>. QED BY <1>1, <1>2, <2>1, <2>2, <2>3, QuietDone
<1>. QED BY <1>4, <1>5

LEMMA SetterForm ==
  ASSUME Inv, ValueInv, CheckedInv, NEW kind \in Setters, Sets1(kind)
  PROVE  \E c : Reads(c) /\ Form(c)
<1>1. PICK c : /\ c.c = kind /\ Reads(c) /\ UNCHANGED <<spc, pcs, bases, romlen, rom, blocks>>
               /\ Done([set EXCEPT ![c.of] = c.value], pos)
  BY DEF Sets1, Sets, Candidates, stacks
<1>2. Plainly(c) BY <1>1, PlainlyIs DEF Setters
<1>3. IsCommand(c) BY <1>1, ReadCommand
<1>4. CASE kind = "check"
  <2>1. c.of = "check" /\ c.value \in {"full", "half", "off"} BY <1>1, <1>3, <1>4 DEF IsCommand
  <2>2. IsSet([set EXCEPT ![c.of] = c.value])
    <3>1. "mapper" \in DOMAIN Defaults /\ "check" \in DOMAIN Defaults /\ "mapper" # "check" BY DEF Defaults
    <3>2. IsSet(set) BY StateType
    <3>. QED BY <2>1, <3>1, <3>2 DEF IsSet
  <2>3. c.c \in Moving BY <1>1, <1>4 DEF Moving
  <2>. QED BY <1>1, <1>2, <2>2, <2>3, StateType, QuietDone
<1>5. CASE kind # "check"
  <2>1. c.of \in DOMAIN Defaults \ {"mapper", "check"} BY <1>1, <1>3, <1>5 DEF IsCommand, Tunable, Setters
  <2>2. PICK f \in DOMAIN Defaults \ {"mapper", "check"} : f = c.of BY <2>1
  <2>3. PICK s : s = [set EXCEPT ![f] = c.value] OBVIOUS
  <2>4. IsSet(s) /\ s.check = set.check /\ s.mapper = set.mapper BY <2>3, StateType, SetType
  <2>5. Done(s, pos) BY <1>1, <2>2, <2>3
  <2>. QED BY <1>1, <1>2, <2>4, <2>5, StateType, QuietDone
<1>. QED BY <1>4, <1>5

LEMMA MapperForm ==
  ASSUME Inv, ValueInv, CheckedInv, Mapper
  PROVE  \E c : Reads(c) /\ Form(c)
<1>1. PICK c : /\ c.c = "mapper" /\ Reads(c) /\ UNCHANGED <<spc, pcs, bases, romlen, rom, blocks>>
               /\ IF Refused THEN Error(0) /\ set' = [set EXCEPT !.mapper = c.m] /\ UNCHANGED pos
                  ELSE Done([set EXCEPT !.mapper = c.m], pos)
  BY DEF Mapper, Sets, Candidates, stacks
<1>2. Plainly(c) /\ c.c \in Moving BY <1>1, PlainlyIs DEF Moving
<1>3. IsCommand(c) BY <1>1, ReadCommand
<1>4. PICK s : s = [set EXCEPT !.mapper = c.m] OBVIOUS
<1>5. IsSet(s) /\ s.check = set.check
  <2>1. "mapper" \in DOMAIN Defaults /\ "check" \in DOMAIN Defaults BY DEF Defaults
  <2>2. c.m \in Selectable BY <1>1, <1>3 DEF IsCommand
  <2>3. IsSet(set) BY StateType
  <2>. QED BY <1>4, <2>1, <2>2, <2>3 DEF IsSet
<1>6. CASE Refused
  <2>1. Error(0) /\ set' = s /\ pos' = pos BY <1>1, <1>4, <1>6
  <2>. QED BY <1>1, <1>2, <1>5, <2>1, QuietError
<1>7. CASE ~Refused
  <2>1. Done(s, pos) BY <1>1, <1>4, <1>7
  <2>. QED BY <1>1, <1>2, <1>5, <2>1, StateType, QuietDone
<1>. QED BY <1>6, <1>7

\* What writes and leaves the block alone.
LEMMA PlainWrite ==
  ASSUME Inv, ValueInv, CheckedInv, NEW c, Reads(c), NEW n \in Nat, Writes(set, pos, n),
         UNCHANGED <<spc, pcs, bases, blocks>>, c.c # "spcblock", c.c # "endspcblock"
  PROVE  Form(c)
<1>1. \A out : BlockPuts(c, out) BY Zenon DEF BlockPuts, Ends
<1>2. spc'.in \in BOOLEAN /\ spc'.size = spc.size BY StateType
<1>. QED BY <1>1, <1>2, WriteForm

LEMMA DbForm ==
  ASSUME Inv, ValueInv, CheckedInv, Db
  PROVE  \E c : Reads(c) /\ Form(c)
<1>1. PICK c : c.c = "db" /\ Reads(c) /\ Writes(set, pos, c.n) /\ UNCHANGED <<spc, pcs, bases, blocks>>
  BY DEF Db, Candidates, stacks
<1>2. IsCommand(c) BY <1>1, ReadCommand
<1>3. PICK n \in Nat : n = c.n BY <1>1, <1>2 DEF IsCommand
<1>. QED BY <1>1, <1>3, PlainWrite

LEMMA FillForm ==
  ASSUME Inv, ValueInv, CheckedInv, Fill
  PROVE  \E c : Reads(c) /\ Form(c)
<1>1. PICK c : c.c = "fill" /\ Reads(c) /\ Writes(set, pos, Amount(c, pos)) /\ UNCHANGED <<spc, pcs, bases, blocks>>
  BY DEF Fill, Candidates, stacks
<1>2. IsCommand(c) BY <1>1, ReadCommand
<1>3. c.n \in Int /\ c.align \in Nat /\ (c.align = 0 => c.n \in Nat) BY <1>1, <1>2 DEF IsCommand
<1>4. PICK n \in Nat : n = Amount(c, pos) BY <1>3, StateType DEF Amount
<1>. QED BY <1>1, <1>4, PlainWrite

LEMMA PadForm ==
  ASSUME Inv, ValueInv, CheckedInv, Pad
  PROVE  \E c : Reads(c) /\ Form(c)
<1>1. PICK c : /\ c.c = "pad" /\ Reads(c) /\ UNCHANGED <<spc, pcs, bases, blocks>>
               /\ LET len == snestopc(set.mapper, c.a) - snestopc(set.mapper, From(pos)) IN
                  IF Above(pos.real) # 0 THEN Error(0) /\ UNCHANGED <<pos, set, romlen, rom>>
                  ELSE IF c.a > pos.real /\ len > 0 THEN Writes(set, pos, len)
                  ELSE Done(set, pos) /\ UNCHANGED <<romlen, rom>>
  BY DEF Pad, Candidates, Goes, stacks
<1>2. IsCommand(c) BY <1>1, ReadCommand
<1>3. c.a \in Int BY <1>1, <1>2 DEF IsCommand
<1>4. PICK len \in Int : len = snestopc(set.mapper, c.a) - snestopc(set.mapper, From(pos))
  <2>1. From(pos) \in Int /\ set.mapper \in Selectable BY StateType DEF From, IsSet
  <2>2. snestopc(set.mapper, c.a) \in Int /\ snestopc(set.mapper, From(pos)) \in Int
    BY <1>3, <2>1, RomByteType
  <2>. QED BY <2>2
<1>5. CASE Above(pos.real) # 0
  <2>1. Error(0) /\ UNCHANGED <<pos, set, romlen, rom>> BY <1>1, <1>5
  <2>2. Plainly(c) BY <1>1, <2>1, PlainlyIs
  <2>. QED BY <1>1, <2>1, <2>2, StateType, QuietError
<1>6. CASE Above(pos.real) = 0 /\ c.a > pos.real /\ len > 0
  <2>1. Writes(set, pos, len) /\ len \in Nat BY <1>1, <1>4, <1>6
  <2>. QED BY <1>1, <2>1, PlainWrite
<1>7. CASE Above(pos.real) = 0 /\ ~(c.a > pos.real /\ len > 0)
  <2>1. Done(set, pos) /\ UNCHANGED <<romlen, rom>> BY <1>1, <1>4, <1>7
  <2>2. Plainly(c) BY <1>1, <2>1, PlainlyIs
  <2>. QED BY <1>1, <2>1, <2>2, StateType, QuietDone
<1>. QED BY <1>5, <1>6, <1>7

\* The part of a file that is read.
LEMMA RangeType ==
  ASSUME NEW c, c.from \in Int, c.to \in Int, ~Outside(Range_(c))
  PROVE  Range_(c).from \in Nat /\ Range_(c).to \in Nat /\ Range_(c).to - Range_(c).from \in Nat
<1>1. FileLen \in Nat BY PositionsAssumption
<1>2. Range_(c).from = c.from /\ Range_(c).to = IF c.to = 0 THEN FileLen ELSE c.to BY DEF Range_
<1>3. PICK t \in Int : t = Range_(c).to BY <1>1, <1>2
<1>. QED BY <1>2, <1>3 DEF Outside

LEMMA IncbinForm ==
  ASSUME Inv, ValueInv, CheckedInv, Incbin
  PROVE  \E c : Reads(c) /\ Form(c)
<1>1. PICK c : /\ c.c = "incbin" /\ Reads(c) /\ UNCHANGED <<spc, pcs, bases, blocks>>
               /\ IF Outside(Range_(c)) THEN Error(0) /\ UNCHANGED <<pos, set, romlen, rom>>
                  ELSE Writes(set, pos, Range_(c).to - Range_(c).from)
  BY DEF Incbin, Candidates, stacks
<1>2. IsCommand(c) BY <1>1, ReadCommand
<1>3. CASE Outside(Range_(c))
  <2>1. Error(0) /\ UNCHANGED <<pos, set, romlen, rom>> BY <1>1, <1>3
  <2>2. Plainly(c) BY <1>1, <2>1, PlainlyIs
  <2>. QED BY <1>1, <2>1, <2>2, StateType, QuietError
<1>4. CASE ~Outside(Range_(c))
  <2>1. c.from \in Int /\ c.to \in Int BY <1>1, <1>2 DEF IsCommand
  <2>2. PICK n \in Nat : n = Range_(c).to - Range_(c).from BY <1>4, <2>1, RangeType
  <2>3. Writes(set, pos, n) BY <1>1, <1>4, <2>2
  <2>. QED BY <1>1, <2>3, PlainWrite
<1>. QED BY <1>3, <1>4

LEMMA IncbinToForm ==
  ASSUME Inv, ValueInv, CheckedInv, IncbinTo
  PROVE  \E c : Reads(c) /\ Form(c)
<1>1. PICK c : /\ c.c = "incbin_to" /\ Reads(c) /\ UNCHANGED <<spc, pcs, bases, blocks>>
               /\ snestopc(set.mapper, c.a) >= 0
               /\ LET r == Range_(c)
                      offset == snestopc(set.mapper, c.a)
                      out == [i \in 1 .. r.to - r.from |-> offset + i - 1]
                  IN
                  IF Outside(r) THEN Error(0) /\ UNCHANGED <<pos, set, romlen, rom>>
                  ELSE /\ Done(set, pos)
                       /\ romlen' = IF offset + r.to - r.from > romlen THEN offset + r.to - r.from ELSE romlen
                       /\ rom' = IF pass = 2 THEN rom \o Of(out) ELSE rom
  BY DEF IncbinTo, Candidates, Goes, stacks
<1>2. IsCommand(c) BY <1>1, ReadCommand
<1>3. errored \in BOOLEAN BY <1>1, ReadCommand
<1>4. CASE Outside(Range_(c))
  <2>1. Error(0) /\ UNCHANGED <<pos, set, romlen, rom>> BY <1>1, <1>4
  <2>2. Plainly(c) BY <1>1, <2>1, PlainlyIs
  <2>. QED BY <1>1, <2>1, <2>2, StateType, QuietError
<1>5. CASE ~Outside(Range_(c))
  <2>1. c.from \in Int /\ c.to \in Int /\ c.a \in Int BY <1>1, <1>2 DEF IsCommand
  <2>2. PICK to \in Nat, from \in Nat : to = Range_(c).to /\ from = Range_(c).from /\ to - from \in Nat
    BY <1>5, <2>1, RangeType
  <2>3. PICK offset \in Nat : offset = snestopc(set.mapper, c.a)
    <3>1. snestopc(set.mapper, c.a) \in Int BY <2>1, StateType, RomByteType DEF IsSet
    <3>. QED BY <1>1, <3>1
  <2>4. PICK out : out = [i \in 1 .. to - from |-> offset + i - 1] OBVIOUS
  <2>5. /\ Done(set, pos)
        /\ romlen' = IF offset + to - from > romlen THEN offset + to - from ELSE romlen
        /\ rom' = IF pass = 2 THEN rom \o Of(out) ELSE rom
    BY <1>1, <1>5, <2>2, <2>3, <2>4
  <2>6. Settled BY <1>3, <2>5, StateType, DoneSettles
  <2>7. romlen' \in Int /\ romlen' >= romlen
    <3>1. romlen \in Int BY StateType
    <3>2. romlen' = IF offset + to - from > romlen THEN offset + to - from ELSE romlen BY <2>5
    <3>. QED BY ONLY <3>1, <3>2, to \in Nat, from \in Nat, offset \in Nat
  <2>8. /\ out \in Seq(Int) /\ DOMAIN out = 1 .. to - from
        /\ \A k \in DOMAIN out : out[k] >= 0 /\ out[k] = out[1] + k - 1
    <3>1. PICK n \in Nat : n = to - from BY <2>2
    <3>2. out = [i \in 1 .. n |-> offset + i - 1] BY <2>4, <3>1
    <3>3. out \in [1 .. n -> Int] /\ out \in Seq(Int) BY <3>2
    <3>. QED BY <3>1, <3>2, <3>3
  <2>9. Puts(c, out) /\ BlockPuts(c, out) BY <1>1, <2>8, Zenon DEF Puts, BlockPuts, Ends
  <2>10. \E u \in Seq(Int) :
           /\ rom' = IF pass = 2 THEN rom \o Of(u) ELSE rom
           /\ pass = 2 => \A k \in DOMAIN u : u[k] >= 0
           /\ ~errored' /\ pass = 2 => Puts(c, u) /\ BlockPuts(c, u)
    BY <2>5, <2>8, <2>9, Zenon
  <2>11. StacksTyped(pcs', bases') /\ blocks' = blocks /\ spc'.in \in BOOLEAN /\ spc'.size \in Int
    BY <1>1, StateType
  <2>. QED BY <1>1, <2>6, <2>7, <2>10, <2>11, Zenon DEF Form
<1>. QED BY <1>4, <1>5

LEMMA SpcblockForm ==
  ASSUME Inv, ValueInv, CheckedInv, Spcblock
  PROVE  \E c : Reads(c) /\ Form(c)
<1> DEFINE block(c) == [in |-> TRUE, dest |-> c.dest, size |-> pos.real, execute |-> None, from |-> at]
<1>1. PICK w : w = Written(pos, 4) OBVIOUS
<1>2. PICK c : /\ c.c = "spcblock" /\ Reads(c) /\ UNCHANGED <<pcs, bases, blocks>>
               /\ rom' = IF pass = 2 THEN rom \o Of(w.out) ELSE rom
               /\ romlen' = Extended(Elements(w.out))
               /\ IF w.ok THEN Done(set, Displayed(w.pos, c.dest)) /\ spc' = block(c)
                  ELSE /\ Error(2) /\ pos' = w.pos /\ set' = set
                       /\ spc' = [block(c) EXCEPT !.in = spc.in, !.execute = spc.execute]
  BY <1>1 DEF Spcblock, Candidates, Goes, stacks
<1>3. IsCommand(c) /\ errored \in BOOLEAN /\ pass \in 0 .. 2 BY <1>2, ReadCommand
<1>4. c.dest \in Nat BY <1>2, <1>3 DEF IsCommand
<1>5. /\ w.pos \in Places /\ w.out \in Seq(Int) /\ (pass = 2 => \A k \in DOMAIN w.out : w.out[k] >= 0)
      /\ w.ok => w.pos = Walk(set, pos, 4).pos /\ w.out = Walk(set, pos, 4).out
      /\ ~w.ok => ~(pass < 2)
  BY <1>1, <1>3, StateType, WrittenOut, WrittenType
<1>6. romlen' \in Int /\ romlen' >= romlen BY <1>2, <1>5, StateType, ExtendedType
<1>7. StacksTyped(pcs', bases') /\ blocks' = blocks BY <1>2, StateType
<1>8. CASE w.ok
  <2>1. PICK q \in Places : q = Displayed(w.pos, c.dest) /\ q.real = w.pos.real /\ q.rstart = w.pos.rstart
    BY <1>4, <1>5, DisplayedType
  <2>2. Done(set, q) /\ spc' = block(c) BY <1>2, <1>8, <2>1
  <2>3. Settled /\ set' = set /\ pos' = q BY <1>3, <2>2, StateType, DoneSettles
  <2>4. spc'.in = TRUE /\ spc'.size = pos.real /\ spc'.from = at BY <2>2
  <2>5. spc'.in \in BOOLEAN /\ spc'.size \in Int BY <2>4, StateType
  <2>6. ~errored' => Puts(c, w.out)
    <3>1. SUFFICES ASSUME ~errored' PROVE Puts(c, w.out) OBVIOUS
    <3>2. ~BankCrossed(set.check, q) BY <2>3, <3>1 DEF Settled
    <3>3. StaysIn(set, q) BY <3>2, StaysInIs
    <3>4. StaysIn(set, w.pos) BY <2>1, <3>3 DEF StaysIn
    <3>5. PICK n \in Nat : n = 4 OBVIOUS
    <3>6. w.out = Walk(set, pos, n).out /\ StaysIn(set, Walk(set, pos, n).pos) BY <1>5, <1>8, <3>4, <3>5
    <3>. QED BY <1>2, <2>3, <3>6, Zenon DEF Puts
  <2>7. BlockPuts(c, w.out)
    <3>1. pos' = Displayed(Walk(set, pos, 4).pos, c.dest) /\ w.out = Walk(set, pos, 4).out
      BY <1>5, <1>8, <2>1, <2>3
    <3>2. ~Ends(c) BY <1>2 DEF Ends
    <3>. QED BY <1>2, <1>4, <1>7, <2>3, <2>4, <3>1, <3>2, Zenon DEF BlockPuts
  <2>8. \E out \in Seq(Int) :
          /\ rom' = IF pass = 2 THEN rom \o Of(out) ELSE rom
          /\ pass = 2 => \A k \in DOMAIN out : out[k] >= 0
          /\ ~errored' /\ pass = 2 => Puts(c, out) /\ BlockPuts(c, out)
    BY <1>2, <1>5, <2>6, <2>7, Zenon
  <2>9. Form(c) BY <1>6, <1>7, <2>3, <2>5, <2>8, Zenon DEF Form
  <2>. QED BY <1>2, <2>9
<1>9. CASE ~w.ok
  <2>1. /\ Error(2) /\ pos' = w.pos /\ set' = set /\ ~(pass < 2)
        /\ spc' = [block(c) EXCEPT !.in = spc.in, !.execute = spc.execute]
    BY <1>2, <1>5, <1>9, Zenon
  <2>2. pass = 2 BY <1>3, <2>1
  <2>3. errored' BY <2>1, <2>2, Zenon DEF Error
  <2>4. Settled BY <1>5, <2>1, <2>3, StateType DEF Settled
  <2>5. spc'.in \in BOOLEAN /\ spc'.size \in Int BY <2>1, StateType
  <2>6. \E out \in Seq(Int) :
          /\ rom' = IF pass = 2 THEN rom \o Of(out) ELSE rom
          /\ pass = 2 => \A k \in DOMAIN out : out[k] >= 0
          /\ ~errored' /\ pass = 2 => Puts(c, out) /\ BlockPuts(c, out)
    BY <1>2, <1>5, <2>3, Zenon
  <2>7. Form(c) BY <1>6, <1>7, <2>4, <2>5, <2>6, Zenon DEF Form
  <2>. QED BY <1>2, <2>7
<1>. QED BY <1>8, <1>9, <1>2

LEMMA EndSpcblockForm ==
  ASSUME Inv, ValueInv, CheckedInv, EndSpcblock
  PROVE  \E c : Reads(c) /\ Form(c)
<1> DEFINE entry == [from |-> spc.from, to |-> at, pc |-> snestopc(set.mapper, spc.size % EndOfSpace),
                     length |-> Length]
           ends == [from |-> spc.from, to |-> at, length |-> Length,
                    pc |-> snestopc(set.mapper, spc.size % EndOfSpace)]
<1>1. PICK c : /\ c.c = "endspcblock" /\ Reads(c) /\ UNCHANGED <<pcs, bases>>
               /\ IF ~spc.in THEN Error(0) /\ UNCHANGED <<pos, set, spc, romlen, rom, blocks>>
                  ELSE \/ Error(2) /\ pass = 2 /\ UNCHANGED <<pos, set, spc, romlen, rom, blocks>>
                       \/ \E n \in {0, 4} :
                            /\ Writes(set, pos, n) /\ spc' = [spc EXCEPT !.in = FALSE]
                            /\ blocks' = IF pass = 2 THEN Append(blocks, entry) ELSE blocks
  BY DEF EndSpcblock, Candidates, stacks
<1>2. entry = ends OBVIOUS
<1> HIDE DEF entry
<1>3. CASE ~spc.in
  <2>1. Error(0) /\ UNCHANGED <<pos, set, spc, romlen, rom, blocks>> BY <1>1, <1>3
  <2>2. Plainly(c) BY <1>1, <1>3, <2>1, StateType DEF Plainly, Ends
  <2>. QED BY <1>1, <2>1, <2>2, StateType, QuietError
<1>4. CASE spc.in /\ Error(2) /\ pass = 2 /\ UNCHANGED <<pos, set, spc, romlen, rom, blocks>>
  <2>1. errored' BY <1>4, Zenon DEF Error
  <2>2. Settled BY <1>4, <2>1, StateType DEF Settled
  <2>3. /\ spc'.in \in BOOLEAN /\ spc'.size \in Int /\ StacksTyped(pcs', bases')
        /\ romlen' \in Int /\ romlen' >= romlen
    <3>1. spc' = spc /\ pcs' = pcs /\ bases' = bases /\ romlen' = romlen BY <1>1, <1>4
    <3>. QED BY <3>1, StateType
  <2>4. <<>> \in Seq(Int) /\ DOMAIN <<>> = {} OBVIOUS
  <2>5. rom \o Of(<<>>) = rom
    <3>1. rom \in Seq(PatchByte) BY DEF ValueInv
    <3>2. Of(<<>>) = <<>> BY <2>4, OfType
    <3>. QED BY <3>1, <3>2
  <2>6. /\ rom' = IF pass = 2 THEN rom \o Of(<<>>) ELSE rom
        /\ pass = 2 => \A k \in DOMAIN <<>> : <<>>[k] >= 0
    BY <1>4, <2>4, <2>5
  <2>7. \E out \in Seq(Int) :
          /\ rom' = IF pass = 2 THEN rom \o Of(out) ELSE rom
          /\ pass = 2 => \A k \in DOMAIN out : out[k] >= 0
          /\ ~errored' /\ pass = 2 => Puts(c, out) /\ BlockPuts(c, out)
    BY <2>1, <2>4, <2>6, Zenon
  <2>8. blocks' = blocks BY <1>4
  <2>9. Form(c) BY <2>2, <2>3, <2>7, <2>8, Zenon DEF Form
  <2>. QED BY <1>1, <2>9
<1>5. CASE spc.in /\ \E n \in {0, 4} :
             /\ Writes(set, pos, n) /\ spc' = [spc EXCEPT !.in = FALSE]
             /\ blocks' = IF pass = 2 THEN Append(blocks, entry) ELSE blocks
  <2>1. PICK n \in Nat : /\ Writes(set, pos, n) /\ spc' = [spc EXCEPT !.in = FALSE]
                         /\ blocks' = IF pass = 2 THEN Append(blocks, entry) ELSE blocks
    BY <1>5
  <2>2. DOMAIN spc = DOMAIN NoBlock BY DEF Inv, ShapeInv
  <2>3. spc'.in = FALSE /\ spc'.size = spc.size BY <2>1, <2>2 DEF NoBlock
  <2>4. \A out : pass = 2 => BlockPuts(c, out)
    <3>1. Ends(c) /\ c.c # "spcblock" BY <1>1, <1>5 DEF Ends
    <3>. QED BY <1>2, <2>1, <2>3, <3>1, Zenon DEF BlockPuts
  <2>5. blocks' = blocks \/ (pass = 2 /\ \E b : blocks' = Append(blocks, b)) BY <2>1, Zenon
  <2>6. c.c # "spcblock" /\ UNCHANGED <<pcs, bases>> /\ spc'.in \in BOOLEAN BY <1>1, <2>3
  <2>. QED BY <1>1, <2>1, <2>3, <2>4, <2>5, <2>6, WriteForm
<1>. QED BY <1>1, <1>3, <1>4, <1>5

LEMMA StartposForm ==
  ASSUME Inv, ValueInv, CheckedInv, Startpos
  PROVE  \E c : Reads(c) /\ Form(c)
<1>1. PICK c : /\ c.c = "startpos" /\ Reads(c) /\ UNCHANGED <<pcs, bases, romlen, rom, blocks>>
               /\ IF spc.in THEN Done(set, pos) /\ spc' = [spc EXCEPT !.execute = 0]
                  ELSE Error(0) /\ UNCHANGED <<pos, set, spc>>
  BY DEF Startpos, Candidates, Goes, stacks
<1>2. CASE spc.in
  <2>1. Done(set, pos) /\ spc' = [spc EXCEPT !.execute = 0] BY <1>1, <1>2
  <2>2. Plainly(c) BY <1>1, <2>1, StateType DEF Plainly, Ends
  <2>. QED BY <1>1, <2>1, <2>2, StateType, QuietDone
<1>3. CASE ~spc.in
  <2>1. Error(0) /\ UNCHANGED <<pos, set, spc>> BY <1>1, <1>3
  <2>2. Plainly(c) BY <1>1, <2>1, PlainlyIs
  <2>. QED BY <1>1, <2>1, <2>2, StateType, QuietError
<1>. QED BY <1>2, <1>3

(***************************************************************************)
(* The stacks                                                              *)
(***************************************************************************)
LEMMA PushedType ==
  ASSUME NEW p, NEW b, StacksTyped(p, b), NEW e, e.pos \in Places, NEW a \in Int
  PROVE  StacksTyped(Append(p, e), Append(b, a))
<1>1. IsList(p) /\ b \in Seq(Int) /\ (\A i \in DOMAIN p : p[i].pos \in Places) BY DEF StacksTyped
<1>2. /\ IsList(Append(p, e)) /\ Len(Append(p, e)) = Len(p) + 1 /\ Len(p) \in Nat
      /\ \A i \in 1 .. Len(p) : Append(p, e)[i] = p[i]
      /\ Append(p, e)[Len(p) + 1] = e
  BY <1>1, PushList
<1>3. DOMAIN p = 1 .. Len(p) /\ DOMAIN Append(p, e) = 1 .. Len(p) + 1 BY <1>1, <1>2 DEF IsList
<1>4. \A i \in 1 .. Len(p) + 1 : i \in 1 .. Len(p) \/ i = Len(p) + 1 BY <1>2
<1>5. \A i \in DOMAIN Append(p, e) : Append(p, e)[i].pos \in Places BY <1>1, <1>2, <1>3, <1>4
<1>6. Append(b, a) \in Seq(Int) BY <1>1
<1>. QED BY <1>2, <1>5, <1>6 DEF StacksTyped

LEMMA PoppedType ==
  ASSUME NEW p, NEW b, StacksTyped(p, b)
  PROVE  /\ p # <<>> => StacksTyped(Pop(p), b) /\ Top(p).pos \in Places
         /\ b # <<>> => StacksTyped(p, Pop(b)) /\ Top(b) \in Int
<1>1. IsList(p) /\ b \in Seq(Int) /\ (\A i \in DOMAIN p : p[i].pos \in Places) BY DEF StacksTyped
<1>2. ASSUME p # <<>> PROVE StacksTyped(Pop(p), b) /\ Top(p).pos \in Places
  <2>1. Len(p) \in Nat /\ DOMAIN p = 1 .. Len(p) /\ p \in Seq(Elements(p)) BY <1>1 DEF IsList
  <2>2. Len(p) > 0 BY <1>2, <2>1
  <2>3. IsList(Pop(p)) /\ Len(Pop(p)) = Len(p) - 1 /\ \A i \in 1 .. Len(p) - 1 : Pop(p)[i] = p[i]
    BY <1>1, <2>2, PopList
  <2>4. DOMAIN Pop(p) = 1 .. Len(p) - 1 BY <2>3 DEF IsList
  <2>5. \A i \in 1 .. Len(p) - 1 : i \in DOMAIN p BY <2>1
  <2>6. \A i \in DOMAIN Pop(p) : Pop(p)[i].pos \in Places BY <1>1, <2>3, <2>4, <2>5
  <2>7. Top(p).pos \in Places BY <1>1, <2>1, <2>2 DEF Top
  <2>. QED BY <1>1, <2>3, <2>6, <2>7 DEF StacksTyped
<1>3. ASSUME b # <<>> PROVE StacksTyped(p, Pop(b)) /\ Top(b) \in Int
  <2>1. PICK n \in Nat : n = Len(b) /\ n > 0 BY <1>1, <1>3
  <2>2. Pop(b) = SubSeq(b, 1, n - 1) BY <2>1 DEF Pop
  <2>3. SubSeq(b, 1, n - 1) \in Seq(Int) BY <1>1, <2>1
  <2>4. Top(b) \in Int BY <1>1, <2>1 DEF Top
  <2>. QED BY <1>1, <2>2, <2>3, <2>4 DEF StacksTyped
<1>. QED BY <1>2, <1>3

LEMMA PushPcForm ==
  ASSUME Inv, ValueInv, CheckedInv, PushPc
  PROVE  \E c : Reads(c) /\ Form(c)
<1>1. PICK c : /\ c.c = "pushpc" /\ Reads(c) /\ UNCHANGED <<spc, bases, romlen, rom, blocks>>
               /\ Done(set, Nowhere) /\ pcs' = Append(pcs, [arch |-> set.arch, pos |-> pos])
  BY DEF PushPc, Candidates, Goes
<1>2. Nowhere \in Places BY DEF Nowhere, Places, None
<1>3. PICK e : e = [arch |-> set.arch, pos |-> pos] OBVIOUS
<1>3a. e.pos \in Places
  <2>1. e.pos = pos BY <1>3
  <2>. QED BY <2>1, StateType
<1>4. StacksTyped(pcs', bases')
  <2>1. StacksTyped(Append(pcs, e), Append(bases, 0)) BY <1>3a, StateType, PushedType
  <2>. QED BY <1>1, <1>3, <2>1, StateType DEF StacksTyped
<1>5. Plainly(c) /\ c.c \in Moving BY <1>1, <1>4 DEF Plainly, Ends, Moving
<1>. QED BY <1>1, <1>2, <1>5, StateType, QuietDone

LEMMA PullPcForm ==
  ASSUME Inv, ValueInv, CheckedInv, PullPc
  PROVE  \E c : Reads(c) /\ Form(c)
<1>1. PICK c : /\ c.c = "pullpc" /\ Reads(c) /\ UNCHANGED <<spc, bases, romlen, rom, blocks>>
               /\ IF pcs = <<>> THEN Error(0) /\ UNCHANGED <<pos, set, pcs>>
                  ELSE /\ pcs' = Pop(pcs)
                       /\ \/ Error(0) /\ UNCHANGED <<pos, set>>
                          \/ Done(set, Top(pcs).pos)
  BY DEF PullPc, Candidates, Goes, Restored
<1>2. CASE pcs = <<>>
  <2>1. Error(0) /\ UNCHANGED <<pos, set, pcs>> BY <1>1, <1>2
  <2>2. Plainly(c) BY <1>1, <2>1, PlainlyIs
  <2>. QED BY <1>1, <2>1, <2>2, StateType, QuietError
<1>3. CASE pcs # <<>>
  <2>1. StacksTyped(pcs', bases') /\ Top(pcs).pos \in Places BY <1>1, <1>3, StateType, PoppedType
  <2>2. Plainly(c) /\ c.c \in Moving BY <1>1, <2>1 DEF Plainly, Ends, Moving
  <2>3. CASE Error(0) /\ UNCHANGED <<pos, set>> BY <1>1, <2>2, <2>3, StateType, QuietError
  <2>4. CASE Done(set, Top(pcs).pos) BY <1>1, <2>1, <2>2, <2>4, StateType, QuietDone
  <2>. QED BY <1>1, <1>3, <2>3, <2>4
<1>. QED BY <1>2, <1>3

LEMMA PushBaseForm ==
  ASSUME Inv, ValueInv, CheckedInv, PushBase
  PROVE  \E c : Reads(c) /\ Form(c)
<1>1. PICK c : /\ c.c = "pushbase" /\ Reads(c) /\ UNCHANGED <<spc, pcs, romlen, rom, blocks>>
               /\ Done(set, pos) /\ bases' = Append(bases, pos.snes)
  BY DEF PushBase, Candidates, Goes
<1>2. StacksTyped(pcs', bases') BY <1>1, StateType DEF StacksTyped
<1>3. Plainly(c) BY <1>1, <1>2 DEF Plainly, Ends
<1>. QED BY <1>1, <1>3, StateType, QuietDone

LEMMA PullBaseForm ==
  ASSUME Inv, ValueInv, CheckedInv, PullBase
  PROVE  \E c : Reads(c) /\ Form(c)
<1>1. PICK c : /\ c.c = "pullbase" /\ Reads(c) /\ UNCHANGED <<spc, pcs, romlen, rom, blocks>>
               /\ IF bases = <<>> THEN Error(0) /\ UNCHANGED <<pos, set, bases>>
                  ELSE /\ bases' = Pop(bases)
                       /\ \E v : Done([set EXCEPT !.bank = v], Displayed(pos, Top(bases)))
  <2>1. PICK c : /\ c.c = "pullbase" /\ Reads(c) /\ UNCHANGED <<spc, pcs, romlen, rom, blocks>>
                 /\ IF bases = <<>> THEN Error(0) /\ UNCHANGED <<pos, set, bases>>
                    ELSE LET a == Top(bases) IN
                         /\ bases' = Pop(bases)
                         /\ Done([set EXCEPT !.bank = IF a # pos.rstart THEN "auto" ELSE @], Displayed(pos, a))
    BY DEF PullBase, Candidates
  <2>. QED BY <2>1
<1>2. CASE bases = <<>>
  <2>1. Error(0) /\ UNCHANGED <<pos, set, bases>> BY <1>1, <1>2
  <2>2. Plainly(c) BY <1>1, <2>1, PlainlyIs
  <2>. QED BY <1>1, <2>1, <2>2, StateType, QuietError
<1>3. CASE bases # <<>>
  <2>1. StacksTyped(pcs', bases') /\ Top(bases) \in Int BY <1>1, <1>3, StateType, PoppedType
  <2>2. Plainly(c) /\ c.c \in Moving BY <1>1, <2>1 DEF Plainly, Ends, Moving
  <2>3. PICK v : Done([set EXCEPT !.bank = v], Displayed(pos, Top(bases))) BY <1>1, <1>3
  <2>4. "bank" \in DOMAIN Defaults \ {"mapper", "check"} BY DEF Defaults
  <2>5. IsSet([set EXCEPT !.bank = v]) BY <2>4, StateType, SetType
  <2>6. Displayed(pos, Top(bases)) \in Places BY <2>1, StateType, DisplayedType
  <2>. QED BY <1>1, <2>2, <2>3, <2>5, <2>6, QuietDone
<1>. QED BY <1>2, <1>3

LEMMA PushTableForm ==
  ASSUME Inv, ValueInv, CheckedInv, PushTable
  PROVE  \E c : Reads(c) /\ Form(c)
<1>1. PICK c : c.c = "pushtable" /\ Reads(c) /\ UNCHANGED <<spc, pcs, bases, romlen, rom, blocks>> /\ Done(set, pos)
  BY DEF PushTable, Candidates, Goes
<1>2. Plainly(c) BY <1>1, PlainlyIs
<1>. QED BY <1>1, <1>2, StateType, QuietDone

LEMMA PullTableForm ==
  ASSUME Inv, ValueInv, CheckedInv, PullTable
  PROVE  \E c : Reads(c) /\ Form(c)
<1>1. PICK c : /\ c.c = "pulltable" /\ Reads(c) /\ UNCHANGED <<spc, pcs, bases, romlen, rom, blocks>>
               /\ \/ Error(0) /\ UNCHANGED <<pos, set>>
                  \/ Done([set EXCEPT !.table = Top(tables)], pos)
  BY DEF PullTable, Candidates, Sets
<1>2. Plainly(c) BY <1>1, PlainlyIs
<1>3. CASE Error(0) /\ UNCHANGED <<pos, set>> BY <1>1, <1>2, <1>3, StateType, QuietError
<1>4. CASE Done([set EXCEPT !.table = Top(tables)], pos)
  <2>1. "table" \in DOMAIN Defaults \ {"mapper", "check"} BY DEF Defaults
  <2>2. PICK s : s = [set EXCEPT !.table = Top(tables)] OBVIOUS
  <2>3. IsSet(s) /\ s.check = set.check /\ s.mapper = set.mapper BY <2>1, <2>2, StateType, SetType
  <2>. QED BY <1>1, <1>2, <1>4, <2>2, <2>3, StateType, QuietDone
<1>. QED BY <1>1, <1>3, <1>4

LEMMA CommandForm ==
  ASSUME Inv, ValueInv, CheckedInv, Command
  PROVE  \E c : Reads(c) /\ Form(c)
<1>1. CASE \E kind \in Setters : Sets1(kind) BY <1>1, SetterForm
<1>2. CheckBankcross \/ Table \/ FillByte \/ PadByte \/ FreespaceByte \/ DpBase \/ Optimize \/ BankIs \/ Math
        => \E kind \in Setters : Sets1(kind)
  BY Zenon DEF CheckBankcross, Table, FillByte, PadByte, FreespaceByte, DpBase, Optimize, BankIs, Math, Setters
<1>. QED BY <1>1, <1>2, DbForm, OrgForm, BaseForm, BaseOffForm, SkipForm, FillForm, PadForm, IncbinForm,
            IncbinToForm, SpcblockForm, EndSpcblockForm, StartposForm, PushPcForm, PullPcForm, PushBaseForm,
            PullBaseForm, PushTableForm, PullTableForm, MapperForm, ArchForm, CheckTitleForm, Zenon
     DEF Command

(***************************************************************************)
(* The types                                                               *)
(***************************************************************************)

\* The ROM with the bytes of a command.
LEMMA RomNext ==
  ASSUME ValueInv, at \in 1 .. MaxLen, NEW out \in Seq(Int), NEW r, r = rom \o Of(out)
  PROVE  /\ Len(rom) \in Nat /\ Len(out) \in Nat /\ Len(r) = Len(rom) + Len(out) /\ DOMAIN r = 1 .. Len(r)
         /\ \A k \in 1 .. Len(rom) : r[k] = rom[k]
         /\ \A k \in 1 .. Len(out) : r[Len(rom) + k] = [pc |-> out[k], by |-> at]
         /\ (\A k \in DOMAIN out : out[k] >= 0) => r \in Seq(PatchByte)
<1>1. rom \in Seq(PatchByte) BY DEF ValueInv
<1>2. /\ Len(out) \in Nat /\ IsList(Of(out)) /\ Len(Of(out)) = Len(out)
      /\ \A k \in 1 .. Len(out) : Of(out)[k] = [pc |-> out[k], by |-> at]
  BY OfType
<1>3. PICK S : rom \in Seq(S) /\ Of(out) \in Seq(S)
  <2>1. Of(out) \in Seq(Elements(Of(out))) BY <1>2 DEF IsList
  <2>2. rom \in Seq(PatchByte \cup Elements(Of(out))) BY <1>1
  <2>3. Of(out) \in Seq(PatchByte \cup Elements(Of(out)))
    <3>1. \A k \in 1 .. Len(Of(out)) : Of(out)[k] \in PatchByte \cup Elements(Of(out)) BY <2>1
    <3>. QED BY <2>1, <3>1
  <2>. QED BY <2>2, <2>3
<1>4. /\ Len(r) = Len(rom) + Len(Of(out)) /\ r \in Seq(S) /\ Len(rom) \in Nat
      /\ \A k \in 1 .. Len(rom) : r[k] = rom[k]
      /\ \A k \in 1 .. Len(Of(out)) : r[Len(rom) + k] = Of(out)[k]
  BY <1>3
<1>5. ASSUME \A k \in DOMAIN out : out[k] >= 0 PROVE r \in Seq(PatchByte)
  <2>1. \A k \in 1 .. Len(out) : Of(out)[k] \in PatchByte
    <3>1. ASSUME NEW k \in 1 .. Len(out) PROVE Of(out)[k] \in PatchByte
      <4>1. PICK x \in Nat : x = out[k] BY <1>5
      <4>2. [pc |-> x, by |-> at] \in PatchByte BY DEF PatchByte
      <4>. QED BY <1>2, <4>1, <4>2
    <3>. QED BY <3>1
  <2>2. Of(out) \in Seq(PatchByte)
    <3>1. DOMAIN Of(out) = 1 .. Len(out) /\ Of(out) = [k \in DOMAIN Of(out) |-> Of(out)[k]]
      BY OfType DEF Of
    <3>2. Of(out) \in [1 .. Len(out) -> PatchByte] BY <2>1, <3>1
    <3>3. PICK n \in Nat : n = Len(out) BY <1>2
    <3>4. Of(out) \in [1 .. n -> PatchByte] BY <3>2, <3>3
    <3>. QED BY ONLY <3>4, SeqDef
  <2>. QED BY <1>1, <2>2
<1>6. Len(r) = Len(rom) + Len(out) /\ DOMAIN r = 1 .. Len(r) BY <1>2, <1>4
<1>7. \A k \in 1 .. Len(out) : r[Len(rom) + k] = [pc |-> out[k], by |-> at] BY <1>2, <1>4
<1>. QED BY <1>2, <1>4, <1>5, <1>6, <1>7, Zenon

LEMMA DefaultsType == IsSet(Defaults) /\ Nowhere \in Places /\ \A check : ~BankCrossed(check, Nowhere)
<1>1. Plain("lorom") \in Selectable BY DEF Selectable, Mappers
<1>2. IsSet(Defaults) BY <1>1 DEF IsSet, Defaults
<1>3. Nowhere \in Places BY DEF Nowhere, Places, None
<1>4. \A check : ~BankCrossed(check, Nowhere) BY Zenon DEF BankCrossed
<1>. QED BY <1>2, <1>3, <1>4

LEMMA CommandValues ==
  ASSUME Inv, ValueInv, CheckedInv, Command
  PROVE  ValueInv' /\ CheckedInv'
<1>1. PICK c : Reads(c) /\ Form(c) BY CommandForm
<1>2. /\ \A i \in DOMAIN patch' : IsCommand(patch'[i])
      /\ pass \in 0 .. 2 /\ at \in 1 .. MaxLen /\ MaxLen \in Nat /\ at' = at + 1
  BY <1>1, ReadCommand, PositionsAssumption DEF Reads
<1>3. CheckedInv' BY <1>1, Zenon DEF Form, Settled, CheckedInv
<1>4. /\ pos' \in Places /\ IsSet(set') /\ spc'.in \in BOOLEAN /\ spc'.size \in Int
      /\ romlen' \in Int /\ romlen' >= romlen /\ StacksTyped(pcs', bases')
      /\ blocks' = blocks \/ (pass = 2 /\ \E b : blocks' = Append(blocks, b))
  BY <1>1, Zenon DEF Form, Settled
<1>5. romlen \in Int /\ romlen >= RomLen /\ RomLen \in Nat /\ rom \in Seq(PatchByte) /\ IsList(blocks)
  BY PositionsAssumption DEF ValueInv
<1>6. romlen' >= RomLen BY <1>4, <1>5
<1>7. PICK out \in Seq(Int) : /\ rom' = IF pass = 2 THEN rom \o Of(out) ELSE rom
                              /\ pass = 2 => \A k \in DOMAIN out : out[k] >= 0
  BY <1>1, Zenon DEF Form
<1>8. rom' \in Seq(PatchByte)
  <2>1. CASE pass = 2 BY <1>2, <1>7, <2>1, RomNext
  <2>2. CASE pass # 2 BY <1>5, <1>7, <2>2
  <2>. QED BY <2>1, <2>2
<1>9. IsList(blocks')
  <2>1. CASE blocks' = blocks BY <1>5, <2>1
  <2>2. CASE \E b : blocks' = Append(blocks, b)
    <3>1. PICK b : blocks' = Append(blocks, b) BY <2>2
    <3>. QED BY <1>5, <3>1, PushList
  <2>. QED BY <1>4, <2>1, <2>2
<1>10. at' \in 1 .. MaxLen + 1 BY <1>2
<1>. QED BY <1>2, <1>3, <1>4, <1>6, <1>8, <1>9, <1>10 DEF ValueInv

\* What initstuff leaves.
LEMMA FreshValues ==
  ASSUME Inv, Fresh, spc.size \in Int
  PROVE  /\ at' \in 1 .. MaxLen + 1 /\ pos' \in Places /\ IsSet(set') /\ CheckedInv'
         /\ spc'.in \in BOOLEAN /\ spc'.size \in Int
         /\ IsList(pcs') /\ \A i \in DOMAIN pcs' : pcs'[i].pos \in Places
<1>1. DOMAIN spc = DOMAIN NoBlock /\ MaxLen \in Nat BY PositionsAssumption DEF Inv, ShapeInv
<1>2. spc'.in = FALSE /\ spc'.size = spc.size BY <1>1 DEF Fresh, NoBlock
<1>3. at' = 1 /\ pos' = Nowhere /\ set' = Defaults /\ pcs' = <<>> BY DEF Fresh, NewSettings
<1>4. CheckedInv' BY <1>3, DefaultsType DEF CheckedInv
<1>5. DOMAIN pcs' = {} BY <1>3
<1>6. at' \in 1 .. MaxLen + 1 BY <1>1, <1>3
<1>. QED BY <1>2, <1>3, <1>4, <1>5, <1>6, DefaultsType, EmptyList

LEMMA EmptyTyped == <<>> \in Seq(PatchByte) /\ <<>> \in Seq(Int) /\ DOMAIN <<>> = {} OBVIOUS

LEMMA ValuesKept ==
  ASSUME Inv, ValueInv, CheckedInv, [Next]_vars
  PROVE  ValueInv' /\ CheckedInv'
<1>0. RomLen \in Int BY PositionsAssumption
<1>1. CASE Command BY <1>1, CommandValues
<1>2. CASE FinishPass
  <2>1. Fresh /\ UNCHANGED <<patch, bases, romlen, rom, blocks>> BY <1>2 DEF FinishPass
  <2>2. spc.size \in Int BY DEF ValueInv
  <2>3. /\ at' \in 1 .. MaxLen + 1 /\ pos' \in Places /\ IsSet(set') /\ CheckedInv'
        /\ spc'.in \in BOOLEAN /\ spc'.size \in Int
        /\ IsList(pcs') /\ \A i \in DOMAIN pcs' : pcs'[i].pos \in Places
    BY <2>1, <2>2, FreshValues
  <2>. QED BY <2>1, <2>3 DEF ValueInv, StacksTyped
<1>3. CASE NextPatch
  <2>1. /\ Fresh /\ UNCHANGED bases /\ patch' = <<>> /\ romlen' = RomLen /\ rom' = <<>> /\ blocks' = <<>>
    BY <1>3 DEF NextPatch
  <2>2. spc.size \in Int BY DEF ValueInv
  <2>3. /\ at' \in 1 .. MaxLen + 1 /\ pos' \in Places /\ IsSet(set') /\ CheckedInv'
        /\ spc'.in \in BOOLEAN /\ spc'.size \in Int
        /\ IsList(pcs') /\ \A i \in DOMAIN pcs' : pcs'[i].pos \in Places
    BY <2>1, <2>2, FreshValues
  <2>. QED BY <1>0, <2>1, <2>3, EmptyTyped, EmptyList DEF ValueInv, StacksTyped
<1>4. CASE UNCHANGED vars
  BY <1>4 DEF vars, stacks, ValueInv, CheckedInv, StacksTyped
<1>. QED BY <1>1, <1>2, <1>3, <1>4 DEF Next, Command

LEMMA InitValues == Init => ValueInv /\ CheckedInv
<1> SUFFICES ASSUME Init PROVE ValueInv /\ CheckedInv OBVIOUS
<1>1. /\ patch = <<>> /\ at = 1 /\ pos = Nowhere /\ set = Defaults /\ spc = NoBlock /\ bases = <<>>
      /\ pcs = <<>> /\ romlen = RomLen /\ rom = <<>> /\ blocks = <<>>
  BY DEF Init
<1>2. spc.in \in BOOLEAN /\ spc.size \in Int BY <1>1 DEF NoBlock
<1>3. at \in 1 .. MaxLen + 1 /\ romlen \in Int /\ romlen >= RomLen BY <1>1, PositionsAssumption
<1>4. CheckedInv BY <1>1, DefaultsType DEF CheckedInv
<1>. QED BY <1>1, <1>2, <1>3, <1>4, DefaultsType, EmptyTyped, EmptyList DEF ValueInv, StacksTyped

LEMMA ValuesHold == Spec => [](ValueInv /\ CheckedInv)
<1>1. Inv /\ ValueInv /\ CheckedInv /\ [Next]_vars => ValueInv' /\ CheckedInv' BY ValuesKept
<1>. QED BY InitValues, <1>1, InvHolds, PTL DEF Spec

\* The state has the types the model gives it, also in a patch with errors: positions
\* are numbers, settings those a command may leave, the ROM never gets shorter and
\* every byte of pass 2 lies in it and is one of a command.
THEOREM TypeCorrect == Spec => []TypeOK
<1>1. Inv /\ ValueInv => TypeOK
  <2> SUFFICES ASSUME Inv, ValueInv PROVE TypeOK OBVIOUS
  <2>1. pass \in 0 .. 3 /\ errored \in BOOLEAN BY DEF Inv, ShapeInv
  <2>2. \A f \in DOMAIN pos : pos[f] \in Int BY DEF ValueInv, Places
  <2>3. set.check \in {"full", "half", "off"} /\ set.mapper.name \in Mappers
    <3>1. set.check \in {"full", "half", "off"} /\ set.mapper \in Selectable BY DEF ValueInv, IsSet
    <3>. QED BY <3>1 DEF Selectable, Plain, SA1, Mappers
  <2>4. \A i \in DOMAIN rom : rom[i].pc \in Nat /\ rom[i].by \in 1 .. MaxLen
    <3>1. \A i \in DOMAIN rom : rom[i] \in PatchByte BY DEF ValueInv
    <3>. QED BY <3>1 DEF PatchByte
  <2>5. \A i \in DOMAIN bases : bases[i] \in Int BY DEF ValueInv, StacksTyped
  <2>. QED BY <2>1, <2>2, <2>3, <2>4, <2>5 DEF TypeOK, ValueInv
<1>. QED BY <1>1, InvHolds, ValuesHold, PTL

(***************************************************************************)
(* The order of the bytes                                                  *)
(***************************************************************************)

\* One byte of r and the next, where the commands have the marks m.
InOrder(r, m, j) ==
  r[j].by = r[j + 1].by /\ ~TurnsBack(m[r[j].by], r[j].pc) => r[j].pc < r[j + 1].pc
OrderInv ==
  /\ pass < 2 => rom = <<>> /\ blocks = <<>>
  /\ pass = 2 => \A j \in DOMAIN rom : rom[j].by < at
  /\ ~errored /\ pass \in {2, 3} => \A j \in 1 .. Len(rom) - 1 : InOrder(rom, marks, j)

\* The bytes of one command.
LEMMA PutsInOrder ==
  ASSUME Inv, ValueInv, CheckedInv, ~errored, NEW c, NEW out \in Seq(Int), Puts(c, out),
         \A k \in DOMAIN out : out[k] >= 0,
         NEW j \in 1 .. Len(out) - 1, ~TurnsBack(Here, out[j])
  PROVE  out[j] < out[j + 1]
<1>0. Len(out) \in Nat /\ DOMAIN out = 1 .. Len(out) /\ j \in 1 .. Len(out) /\ j + 1 \in 1 .. Len(out)
      /\ 1 \in 1 .. Len(out) /\ \A k \in 1 .. Len(out) : out[k] \in Int
  OBVIOUS
<1>1. CASE out = <<>> BY <1>0, <1>1
<1>2. CASE \A k \in DOMAIN out : out[k] = out[1] + k - 1
  <2>1. out[j] = out[1] + j - 1 /\ out[j + 1] = out[1] + (j + 1) - 1 /\ out[1] \in Int BY <1>0, <1>2
  <2>. QED BY <1>0, <2>1
<1>3. CASE \E n \in Nat : out = Walk(set, pos, n).out /\ StaysIn(set, Walk(set, pos, n).pos)
  <2>1. PICK n \in Nat : out = Walk(set, pos, n).out /\ StaysIn(set, Walk(set, pos, n).pos) BY <1>3
  <2>2. IsSet(set) /\ pos \in Places BY StateType
  <2>3. Len(out) = n BY <2>1, <2>2, WalkType DEF WalkTyped
  <2>4. StaysIn(set, pos) BY <2>2, StaysInIs DEF CheckedInv
  <2>5. \A k \in 1 .. n : Walk(set, pos, n).out[k] >= 0 BY <1>0, <2>1, <2>3
  <2>6. ~TurnsBack(Mark(set, pos), Walk(set, pos, n).out[j]) BY <2>1 DEF Here, Mark
  <2>7. j \in 1 .. n - 1 BY <2>3
  <2>8. Ahead(set, pos, n, j) BY <2>1, <2>2, <2>4, <2>5, <2>6, <2>7, WriteInOrder
  <2>. QED BY <2>1, <2>8 DEF Ahead
<1>. QED BY <1>1, <1>2, <1>3, Zenon DEF Puts

LEMMA CommandOrder ==
  ASSUME Inv, ValueInv, CheckedInv, OrderInv, Command
  PROVE  OrderInv'
<1>1. PICK c : Reads(c) /\ Form(c) BY CommandForm
<1>2. /\ pass \in 0 .. 2 /\ at \in 1 .. MaxLen /\ MaxLen \in Nat /\ at' = at + 1 /\ pass' \in {pass, 3}
      /\ DOMAIN marks = 1 .. MaxLen + 1 /\ marks' = [marks EXCEPT ![at] = Here]
  BY <1>1, ReadCommand, PositionsAssumption, CommandShape DEF Reads, Inv, ShapeInv, Here
<1>3. ~errored' => ~errored /\ pass' = pass BY <1>1, Zenon DEF Form, Settled
<1>4. PICK out \in Seq(Int) : /\ rom' = IF pass = 2 THEN rom \o Of(out) ELSE rom
                              /\ pass = 2 => \A k \in DOMAIN out : out[k] >= 0
                              /\ ~errored' /\ pass = 2 => Puts(c, out)
  BY <1>1, Zenon DEF Form
<1>5. CASE pass < 2
  <2>1. pass # 2 /\ rom = <<>> /\ blocks = <<>> BY <1>2, <1>5 DEF OrderInv
  <2>2. rom' = rom /\ blocks' = blocks
    <3>1. blocks' = blocks \/ pass = 2 BY <1>1, Zenon DEF Form
    <3>. QED BY <1>4, <2>1, <3>1
  <2>3. rom' = <<>> /\ blocks' = <<>> /\ DOMAIN <<>> = {} /\ Len(<<>>) = 0 BY <2>1, <2>2
  <2>4. \A j \in 1 .. Len(<<>>) - 1 : InOrder(rom', marks', j) BY <2>3
  <2>5. \A j \in 1 .. Len(rom') - 1 : InOrder(rom', marks', j) BY <2>3, <2>4
  <2>. QED BY <2>3, <2>5 DEF OrderInv
<1>6. CASE pass = 2
  <2>1. PICK r : r = rom' OBVIOUS
  <2>2. r = rom \o Of(out) BY <1>4, <1>6, <2>1
  <2>3. /\ Len(rom) \in Nat /\ Len(out) \in Nat /\ Len(r) = Len(rom) + Len(out) /\ DOMAIN r = 1 .. Len(r)
        /\ \A k \in 1 .. Len(rom) : r[k] = rom[k]
        /\ \A k \in 1 .. Len(out) : r[Len(rom) + k] = [pc |-> out[k], by |-> at]
    <3>1. at \in 1 .. MaxLen BY <1>2
    <3>. QED BY <2>2, <3>1, RomNext
  <2>4. \A k \in 1 .. Len(rom) : rom[k] \in PatchByte /\ rom[k].by < at /\ rom[k].by \in 1 .. MaxLen
    <3>1. ASSUME NEW k \in 1 .. Len(rom) PROVE rom[k] \in PatchByte /\ rom[k].by < at /\ rom[k].by \in 1 .. MaxLen
      <4>1. rom \in Seq(PatchByte) BY DEF ValueInv
      <4>2. rom[k] \in PatchByte /\ k \in DOMAIN rom BY <4>1
      <4>3. rom[k].by < at BY <1>6, <4>2 DEF OrderInv
      <4>4. rom[k].by \in 1 .. MaxLen BY <4>2 DEF PatchByte
      <4>. QED BY <4>2, <4>3, <4>4
    <3>. QED BY <3>1
  <2>5. \A k \in 1 .. Len(r) : k \in 1 .. Len(rom) \/ \E i \in 1 .. Len(out) : k = Len(rom) + i
    <3>1. ASSUME NEW k \in 1 .. Len(r), k \notin 1 .. Len(rom) PROVE \E i \in 1 .. Len(out) : k = Len(rom) + i
      <4>1. k - Len(rom) \in 1 .. Len(out) /\ k = Len(rom) + (k - Len(rom)) BY <2>3, <3>1
      <4>. QED BY <4>1
    <3>. QED BY <3>1
  <2>6. \A k \in 1 .. Len(r) : r[k].by < at'
    <3>1. ASSUME NEW k \in 1 .. Len(r) PROVE r[k].by < at'
      <4>1. CASE k \in 1 .. Len(rom)
        <5>1. PICK b \in Nat : b = rom[k].by /\ b < at BY <2>4, <4>1
        <5>. QED BY <1>2, <2>3, <4>1, <5>1
      <4>2. CASE \E i \in 1 .. Len(out) : k = Len(rom) + i
        <5>0. PICK i \in 1 .. Len(out) : k = Len(rom) + i BY <4>2
        <5>1. r[k] = [pc |-> out[i], by |-> at] BY <2>3, <5>0
        <5>2. r[k].by = at BY <5>1
        <5>. QED BY <1>2, <5>2
      <4>. QED BY <2>5, <4>1, <4>2
    <3>. QED BY <3>1
  <2>7. ASSUME ~errored', NEW j \in 1 .. Len(r) - 1 PROVE InOrder(r, marks', j)
    <3>0. j \in 1 .. Len(r) /\ j + 1 \in 1 .. Len(r) /\ j \in Nat BY <2>3
    <3>1. CASE j + 1 \in 1 .. Len(rom)
      <4>1. j \in 1 .. Len(rom) - 1 /\ j \in 1 .. Len(rom) BY <2>3, <3>0, <3>1
      <4>2. InOrder(rom, marks, j) BY <1>3, <1>6, <2>7, <4>1 DEF OrderInv
      <4>3. r[j] = rom[j] /\ r[j + 1] = rom[j + 1] BY <2>3, <3>1, <4>1
      <4>4. rom[j].by \in 1 .. MaxLen /\ rom[j].by < at BY <2>4, <4>1
      <4>5. marks'[rom[j].by] = marks[rom[j].by]
        <5>1. PICK b \in Nat : b = rom[j].by /\ b # at BY <1>2, <4>4
        <5>2. marks'[b] = marks[b] BY <1>2, <5>1
        <5>. QED BY <5>1, <5>2
      <4>. QED BY <4>2, <4>3, <4>5 DEF InOrder
    <3>2. CASE j \in 1 .. Len(rom) /\ j + 1 \notin 1 .. Len(rom)
      <4>1. PICK i \in 1 .. Len(out) : j + 1 = Len(rom) + i BY <2>5, <3>0, <3>2
      <4>2. r[j + 1].by = at
        <5>1. r[j + 1] = [pc |-> out[i], by |-> at] BY <2>3, <4>1
        <5>. QED BY <5>1
      <4>3. r[j].by < at /\ r[j].by \in 1 .. MaxLen BY <2>3, <2>4, <3>2
      <4>4. r[j].by # r[j + 1].by BY <1>2, <4>2, <4>3
      <4>. QED BY <4>4 DEF InOrder
    <3>3. CASE j \notin 1 .. Len(rom)
      <4>1. PICK i \in 1 .. Len(out) : j = Len(rom) + i BY <2>5, <3>0, <3>3
      <4>2. i + 1 \in 1 .. Len(out) /\ j + 1 = Len(rom) + (i + 1) /\ i \in 1 .. Len(out) - 1
        BY <2>3, <3>0, <4>1
      <4>3. r[j] = [pc |-> out[i], by |-> at] /\ r[j + 1] = [pc |-> out[i + 1], by |-> at]
        BY <2>3, <4>1, <4>2
      <4>4. marks'[at] = Here BY <1>2
      <4>5. ~TurnsBack(Here, out[i]) => out[i] < out[i + 1]
        BY <1>3, <1>4, <1>6, <2>7, <4>2, PutsInOrder
      <4>6. r[j].pc = out[i] /\ r[j].by = at /\ r[j + 1].pc = out[i + 1] BY <4>3
      <4>. QED BY <4>4, <4>5, <4>6 DEF InOrder
    <3>. QED BY <3>1, <3>2, <3>3
  <2>8. pass' \in {2, 3} /\ ~(pass' < 2) BY <1>2, <1>6
  <2>9. \A j \in DOMAIN rom' : rom'[j].by < at' BY <2>1, <2>3, <2>6
  <2>10. ~errored' => \A j \in 1 .. Len(rom') - 1 : InOrder(rom', marks', j) BY <2>1, <2>7
  <2>. QED BY <2>8, <2>9, <2>10 DEF OrderInv
<1>. QED BY <1>2, <1>5, <1>6

\* A pass ends after the last command.
LEMMA PassEnd ==
  ASSUME Inv, FinishPass
  PROVE  /\ pass \in 0 .. 2 /\ pass' \in {pass + 1, 3} /\ at = Len(patch) + 1 /\ Len(patch) <= MaxLen
         /\ DOMAIN marks = 1 .. MaxLen + 1 /\ (~errored' => ~errored)
         /\ pass = 2 => marks' = [marks EXCEPT ![at] = Here]
<1>1. /\ pass \in 0 .. 3 /\ pass < 3 /\ IsList(patch) /\ Len(patch) <= commands.len /\ commands \in CommandSets
      /\ pass' = IF spc.in THEN 3 ELSE pass + 1
      /\ at \in 1 .. Len(patch) + 1 /\ (pass = 0 => at = Len(patch) + 1) /\ (pass # 0 => at > Len(patch))
      /\ DOMAIN marks = 1 .. MaxLen + 1
  BY DEF FinishPass, Inv, ShapeInv
<1>2. Len(patch) \in Nat /\ commands.len \in Nat /\ commands.len <= MaxLen /\ MaxLen \in Nat
  BY <1>1, PositionsAssumption DEF IsList
<1>3. errored' = (errored \/ (pass = 0 /\ (spc.in \/ pcs # <<>>))) BY DEF FinishPass
<1>4. pass = 2 => marks' = [marks EXCEPT ![at] = Here] BY DEF FinishPass, Here
<1>5. ~errored' => ~errored BY <1>3, Zenon
<1>. QED BY <1>1, <1>2, <1>4, <1>5

LEMMA FinishPassOrder ==
  ASSUME Inv, ValueInv, OrderInv, FinishPass
  PROVE  OrderInv'
<1>1. /\ pass \in 0 .. 2 /\ pass' \in {pass + 1, 3} /\ at = Len(patch) + 1 /\ Len(patch) <= MaxLen
      /\ DOMAIN marks = 1 .. MaxLen + 1 /\ (~errored' => ~errored)
      /\ pass = 2 => marks' = [marks EXCEPT ![at] = Here]
  BY PassEnd
<1>2. rom' = rom /\ blocks' = blocks BY DEF FinishPass
<1>3. CASE pass < 2
  <2>1. rom' = <<>> /\ blocks' = <<>> BY <1>2, <1>3 DEF OrderInv
  <2>2. DOMAIN <<>> = {} /\ 1 .. Len(<<>>) - 1 = {} OBVIOUS
  <2>3. \A j \in DOMAIN rom' : rom'[j].by < at' BY <2>1, <2>2
  <2>4. \A j \in 1 .. Len(rom') - 1 : InOrder(rom', marks', j) BY <2>1, <2>2
  <2>. QED BY <2>1, <2>3, <2>4 DEF OrderInv
<1>4. CASE pass = 2
  <2>1. pass' = 3 BY <1>1, <1>4
  <2>2. ASSUME ~errored', NEW j \in 1 .. Len(rom) - 1 PROVE InOrder(rom, marks', j)
    <3>1. InOrder(rom, marks, j) BY <1>1, <1>4, <2>2 DEF OrderInv
    <3>2. rom \in Seq(PatchByte) /\ j \in DOMAIN rom BY DEF ValueInv
    <3>3. rom[j].by < at BY <1>4, <3>2 DEF OrderInv
    <3>4. PICK b \in Nat : b = rom[j].by /\ b < at
      <4>1. rom[j] \in PatchByte BY <3>2
      <4>2. rom[j].by \in Nat BY <4>1 DEF PatchByte
      <4>. QED BY <3>3, <4>2
    <3>5. marks'[b] = marks[b]
      <4>1. b # at /\ b \in Nat BY <1>1, <3>4
      <4>2. marks' = [marks EXCEPT ![at] = Here] BY <1>1, <1>4
      <4>. QED BY <4>1, <4>2
    <3>. QED BY <3>1, <3>4, <3>5 DEF InOrder
  <2>3. ~errored' => \A j \in 1 .. Len(rom') - 1 : InOrder(rom', marks', j) BY <1>2, <2>2
  <2>. QED BY <2>1, <2>3 DEF OrderInv
<1>. QED BY <1>1, <1>3, <1>4

LEMMA EmptyOrder ==
  ASSUME pass = 0, rom = <<>>, blocks = <<>>
  PROVE  OrderInv
BY DEF OrderInv

LEMMA OrderHolds == Spec => []OrderInv
<1>1. Inv /\ ValueInv /\ CheckedInv /\ OrderInv /\ [Next]_vars => OrderInv'
  <2> SUFFICES ASSUME Inv, ValueInv, CheckedInv, OrderInv, [Next]_vars PROVE OrderInv' OBVIOUS
  <2>1. CASE Command BY <2>1, CommandOrder
  <2>2. CASE FinishPass BY <2>2, FinishPassOrder
  <2>3. CASE NextPatch
    <3>1. pass' = 0 /\ rom' = <<>> /\ blocks' = <<>> BY <2>3 DEF NextPatch
    <3>. QED BY <3>1 DEF OrderInv
  <2>4. CASE UNCHANGED vars BY <2>4 DEF vars, OrderInv, InOrder
  <2>. QED BY <2>1, <2>2, <2>3, <2>4 DEF Next, Command
<1>2. Init => OrderInv BY EmptyOrder DEF Init
<1>. QED BY <1>1, <1>2, InvHolds, ValuesHold, PTL DEF Spec

\* In a patch without errors the bytes of one command come in the ROM in the order in
\* which the patch has them, in any mapper and across any border, but where the mapper's
\* addresses turn back: step and fixsnespos never write over what the command has written.
THEOREM WritesInOrder == Spec => []BytesInOrder
<1>1. OrderInv => BytesInOrder
  <2> SUFFICES ASSUME OrderInv, Final, NEW j \in 1 .. Len(rom) - 1 PROVE InOrder(rom, marks, j)
    BY DEF BytesInOrder, InOrder
  <2>. QED BY DEF OrderInv, Final
<1>. QED BY <1>1, OrderHolds, PTL

(***************************************************************************)
(* The bytes of a spcblock                                                 *)
(***************************************************************************)

\* A position that is set, and a write from there where the banks are checked.
LEMMA SetPosition ==
  ASSUME NEW s, IsSet(s), s.check # "off", NEW p \in Places, p.snes >= 0, p.real >= 0
  PROVE  /\ \A n \in Nat : /\ Walk(s, p, n).pos = Moved(p, n) /\ Moved(p, n) \in Places
                           /\ Walk(s, p, n).pos.real = p.real + n /\ Walk(s, p, n).pos.snes = p.snes + n
                           /\ Walk(s, p, n).pos.start = p.start /\ Walk(s, p, n).pos.rstart = p.rstart
         /\ \A n \in Nat : Verified(Walk(s, p, n).pos).real = p.real + n
         /\ Verified(p) = p
<1>1. p.snes \in Int /\ p.real \in Int BY DEF Places
<1>2. ~(p.snes < 0 \/ p.real < 0) BY <1>1
<1>3. Verified(p) = p BY <1>2, Zenon DEF Verified
<1>4. ASSUME NEW n \in Nat
      PROVE  /\ Walk(s, p, n).pos = Moved(p, n) /\ Moved(p, n) \in Places
             /\ Moved(p, n).real = p.real + n /\ Moved(p, n).snes = p.snes + n
             /\ Moved(p, n).start = p.start /\ Moved(p, n).rstart = p.rstart
             /\ Verified(Walk(s, p, n).pos) = Moved(p, n)
  <2>1. /\ Verified(Walk(s, p, n).pos) = Moved(Verified(p), n)
        /\ Walk(s, p, n).pos = IF n = 0 THEN p ELSE Moved(Verified(p), n)
    BY WalkChecked
  <2>2. /\ Moved(p, n) \in Places /\ Moved(p, n).real = p.real + n /\ Moved(p, n).snes = p.snes + n
        /\ Moved(p, n).start = p.start /\ Moved(p, n).rstart = p.rstart
    BY MovedIs
  <2>3. Moved(p, 0) = p BY MovedIs
  <2>4. Walk(s, p, n).pos = Moved(p, n)
    <3>1. CASE n = 0 BY <2>1, <2>3, <3>1
    <3>2. CASE n # 0 BY <1>3, <2>1, <3>2
    <3>. QED BY <3>1, <3>2
  <2>. QED BY <1>3, <2>1, <2>2, <2>4
<1>5. \A n \in Nat : /\ Walk(s, p, n).pos = Moved(p, n) /\ Moved(p, n) \in Places
                     /\ Walk(s, p, n).pos.real = p.real + n /\ Walk(s, p, n).pos.snes = p.snes + n
                     /\ Walk(s, p, n).pos.start = p.start /\ Walk(s, p, n).pos.rstart = p.rstart
  BY <1>4
<1>6. \A n \in Nat : Verified(Walk(s, p, n).pos).real = p.real + n BY <1>4
<1>. QED BY <1>3, <1>5, <1>6

\* A write from q on, that far after the place p in its bank.
LEMMA BlockBytes ==
  ASSUME NEW s, IsSet(s), s.check # "off", NEW p \in Places, p.snes >= 0, p.real >= 0,
         s.mapper.name \in {"lorom", "exlorom"} => IsHigh(p.real), StaysIn(s, p),
         NEW d \in Nat, NEW q \in Places, q.snes >= 0, q.real = p.real + d, q.rstart = p.rstart,
         NEW n \in Nat, StaysIn(s, Walk(s, q, n).pos),
         snestopc(s.mapper, p.real % EndOfSpace) >= 0,
         \A k \in 1 .. n : Walk(s, q, n).out[k] >= 0,
         NEW j \in 1 .. n
  PROVE  Walk(s, q, n).out[j] = snestopc(s.mapper, p.real % EndOfSpace) + (d + j - 1)
<1>1. p.real \in Nat /\ q.real \in Nat /\ q.real >= 0 BY DEF Places
<1>2. PICK m \in Nat : m = d + n /\ m >= 1 OBVIOUS
<1>3. PICK k \in 1 .. m : k = d + j /\ k >= 1 BY <1>2
<1>4. PICK i \in Nat : i = k - 1 /\ i = d + (j - 1) BY <1>3
<1>5. PICK h \in Nat : h = j - 1 OBVIOUS
<1>6. Address(s, p, k) = (p.real + i) % EndOfSpace
  <2>1. Verified(Walk(s, p, i).pos).real = p.real + i BY SetPosition
  <2>. QED BY <1>4, <2>1 DEF Address
<1>7. Address(s, q, j) = (p.real + i) % EndOfSpace
  <2>1. Verified(Walk(s, q, h).pos).real = q.real + h BY <1>1, SetPosition
  <2>2. q.real + h = p.real + i BY <1>1, <1>4, <1>5
  <2>. QED BY <1>5, <2>1, <2>2 DEF Address
<1>8. Address(s, p, 1) = p.real % EndOfSpace
  <2>1. Verified(Walk(s, p, 0).pos).real = p.real + 0 BY SetPosition
  <2>2. 1 - 1 = 0 OBVIOUS
  <2>. QED BY <1>1, <2>1, <2>2 DEF Address
<1>9. StaysIn(s, Walk(s, p, m).pos)
  <2>1. Walk(s, p, m).pos.real = p.real + m /\ Walk(s, p, m).pos.rstart = p.rstart BY SetPosition
  <2>2. Walk(s, q, n).pos.real = q.real + n /\ Walk(s, q, n).pos.rstart = q.rstart BY <1>1, SetPosition
  <2>3. p.real + m = q.real + n BY <1>1, <1>2
  <2>4. Walk(s, p, m).pos.real = Walk(s, q, n).pos.real /\ Walk(s, p, m).pos.rstart = Walk(s, q, n).pos.rstart
    BY <2>1, <2>2, <2>3
  <2>. QED BY <2>4, Zenon DEF StaysIn
<1>10. WalkTyped(s, p, m) /\ WalkTyped(s, q, n) BY WalkType
<1>11. Walk(s, p, m).out[1] = snestopc(s.mapper, p.real % EndOfSpace)
  <2>1. 1 \in 1 .. m BY <1>2
  <2>. QED BY <1>8, <1>10, <2>1 DEF WalkTyped
<1>12. Walk(s, p, m).out[k] = Walk(s, q, n).out[j]
  <2>1. Walk(s, p, m).out[k] = snestopc(s.mapper, Address(s, p, k)) BY <1>10 DEF WalkTyped
  <2>2. Walk(s, q, n).out[j] = snestopc(s.mapper, Address(s, q, j)) BY <1>10 DEF WalkTyped
  <2>. QED BY <1>6, <1>7, <2>1, <2>2
<1>13. s.mapper.name \in {"lorom", "exlorom"} => IsHigh(Address(s, p, 1))
  <2>1. SUFFICES ASSUME s.mapper.name \in {"lorom", "exlorom"} PROVE IsHigh(p.real % EndOfSpace) BY <1>8
  <2>2. IsHigh(p.real) BY <2>1
  <2>. QED BY <1>1, <2>2, HighInSpace
<1>14. 1 \in 1 .. m /\ k \in 1 .. m BY <1>2
<1>15. Walk(s, p, m).out[1] >= 0 /\ Walk(s, p, m).out[k] >= 0 BY <1>11, <1>12
<1>16. Walk(s, p, m).out[k] = Walk(s, p, m).out[1] + (k - 1)
  <2>1. PICK one \in 1 .. m : one = 1 BY <1>14
  <2>2. k \in one .. m BY <1>3, <2>1
  <2>3. Walk(s, p, m).out[one] >= 0 /\ Walk(s, p, m).out[k] >= 0 BY <1>15, <2>1
  <2>4. s.mapper.name \in {"lorom", "exlorom"} => (IsHigh(Address(s, p, k)) => IsHigh(Address(s, p, one)))
    BY <1>13, <2>1
  <2>5. Walk(s, p, m).out[k] = Walk(s, p, m).out[one] + (k - one) BY <1>9, <2>2, <2>3, <2>4, CheckedBytes
  <2>. QED BY <2>1, <2>5
<1>17. snestopc(s.mapper, p.real % EndOfSpace) \in Int
  <2>1. p.real % EndOfSpace \in Nat BY <1>1, HighInSpace
  <2>. QED BY <2>1, RomByteType DEF IsSet
<1>18. k - 1 = d + j - 1 BY <1>3
<1>. QED BY <1>11, <1>12, <1>16, <1>18

(***************************************************************************)
(* Blocks                                                                  *)
(***************************************************************************)

\* What a block asks of the position and settings it begins with, and of the commands
\* in it.
Solid(x) == x.pos.snes >= 0 /\ x.pos.real >= 0 /\ x.set.check # "off" /\ ~LowMirror(x)
NoMoves(q, from, to) == \A i \in DOMAIN q : from < i /\ i < to => q[i].c \notin Moving
\* The bytes after the header of a block at from are the last of r: the length so far,
\* one after another from byte start of the ROM on.
TailOf(r, from, length, start) ==
  \E s \in 0 .. Len(r) :
    /\ Len(r) = s + length
    /\ \A k \in 1 .. s : r[k].by <= from
    /\ \A k \in s + 1 .. Len(r) : r[k].by > from /\ r[k].pc = start + (k - s)
\* The position in a block that begins at p, where the settings are s.
Within(s, p, size, here) ==
  /\ p \in Places /\ p.snes >= 0 /\ p.real >= 0 /\ size = p.real
  /\ s.check # "off" /\ (s.mapper.name \in {"lorom", "exlorom"} => IsHigh(p.real)) /\ StaysIn(s, p)
  /\ here.snes >= 0 /\ here.snes - here.start >= 0
  /\ here.real = p.real + 4 + (here.snes - here.start) /\ here.rstart = p.rstart
  /\ snestopc(s.mapper, p.real % EndOfSpace) >= 0
OpenInv ==
  ~errored /\ pass = 2 /\ spc.in =>
    LET f == spc.from IN
    /\ f \in 1 .. at - 1
    /\ Solid(marks[f]) /\ NoMoves(patch, f, at) =>
         /\ Within(set, marks[f].pos, spc.size, pos)
         /\ TailOf(rom, f, Length, snestopc(set.mapper, spc.size % EndOfSpace) + 3)
Pieces(r, b) ==
  \E s \in 0 .. Len(r) : s + b.length \in s .. Len(r) /\ \A k \in DOMAIN r :
    /\ b.from < r[k].by /\ r[k].by < b.to <=> s < k /\ k <= s + b.length
    /\ s < k /\ k <= s + b.length => r[k].pc = b.pc + 3 + k - s
ClosedInv ==
  ~errored /\ pass \in {2, 3} =>
    \A n \in DOMAIN blocks :
      LET b == blocks[n] IN
      /\ b.from \in 1 .. MaxLen /\ b.to \in 1 .. MaxLen /\ b.from < b.to /\ (pass = 2 => b.to < at)
      /\ Solid(marks[b.from]) /\ NoMoves(patch, b.from, b.to) => Pieces(rom, b)

\* The ROM r, and q after command i has written out.
Grows(r, q, out, i) ==
  /\ Len(r) \in Nat /\ Len(out) \in Nat /\ Len(q) = Len(r) + Len(out)
  /\ DOMAIN r = 1 .. Len(r) /\ DOMAIN q = 1 .. Len(q)
  /\ \A k \in 1 .. Len(r) : q[k] = r[k]
  /\ \A k \in 1 .. Len(out) : q[Len(r) + k].pc = out[k] /\ q[Len(r) + k].by = i

LEMMA GrowsIs ==
  ASSUME NEW r, NEW q, NEW out, NEW i, Grows(r, q, out, i), NEW k \in DOMAIN q, k \notin DOMAIN r
  PROVE  k - Len(r) \in 1 .. Len(out) /\ q[k].pc = out[k - Len(r)] /\ q[k].by = i /\ k > Len(r)
<1>1. k - Len(r) \in 1 .. Len(out) /\ k = Len(r) + (k - Len(r)) /\ k > Len(r) BY DEF Grows
<1>. QED BY <1>1 DEF Grows

LEMMA TailGrows ==
  ASSUME NEW r, NEW q, NEW out, NEW i \in Nat, NEW from \in Nat, from < i, NEW length \in Nat,
         NEW start \in Int, Grows(r, q, out, i), TailOf(r, from, length, start),
         \A k \in 1 .. Len(out) : out[k] = start + length + k
  PROVE  TailOf(q, from, length + Len(out), start)
<1>1. PICK s \in 0 .. Len(r) :
        /\ Len(r) = s + length
        /\ \A k \in 1 .. s : r[k].by <= from
        /\ \A k \in s + 1 .. Len(r) : r[k].by > from /\ r[k].pc = start + (k - s)
  BY DEF TailOf
<1>2. /\ Len(r) \in Nat /\ Len(out) \in Nat /\ Len(q) = Len(r) + Len(out) /\ DOMAIN r = 1 .. Len(r)
      /\ DOMAIN q = 1 .. Len(q) /\ \A k \in 1 .. Len(r) : q[k] = r[k]
  BY DEF Grows
<1>3. s \in 0 .. Len(q) /\ Len(q) = s + (length + Len(out)) BY <1>1, <1>2
<1>4. ASSUME NEW k \in 1 .. s PROVE q[k].by <= from
  <2>1. k \in 1 .. Len(r) BY <1>2
  <2>. QED BY <1>1, <1>2, <2>1
<1>5. ASSUME NEW k \in s + 1 .. Len(q) PROVE q[k].by > from /\ q[k].pc = start + (k - s)
  <2>1. CASE k \in 1 .. Len(r)
    <3>1. k \in s + 1 .. Len(r) /\ q[k] = r[k] BY <1>2, <2>1
    <3>. QED BY <1>1, <3>1
  <2>2. CASE k \notin 1 .. Len(r)
    <3>1. k \in DOMAIN q /\ k \notin DOMAIN r BY <1>2, <2>2
    <3>2. k - Len(r) \in 1 .. Len(out) /\ q[k].pc = out[k - Len(r)] /\ q[k].by = i BY SMTT(30), <3>1, GrowsIs
    <3>3. out[k - Len(r)] = start + length + (k - Len(r)) BY <3>2
    <3>4. start + length + (k - Len(r)) = start + (k - s) BY <1>1, <1>2
    <3>. QED BY <3>2, <3>3, <3>4
  <2>. QED BY <2>1, <2>2
<1>. QED BY <1>3, <1>4, <1>5 DEF TailOf

LEMMA PiecesGrow ==
  ASSUME NEW r, NEW q, NEW out, NEW i \in Nat, NEW b, b.to \in Nat, b.to <= i,
         Grows(r, q, out, i), Pieces(r, b)
  PROVE  Pieces(q, b)
<1>1. PICK s \in 0 .. Len(r) : s + b.length \in s .. Len(r) /\ \A k \in DOMAIN r :
        /\ b.from < r[k].by /\ r[k].by < b.to <=> s < k /\ k <= s + b.length
        /\ s < k /\ k <= s + b.length => r[k].pc = b.pc + 3 + k - s
  BY DEF Pieces
<1>2. /\ Len(r) \in Nat /\ Len(out) \in Nat /\ Len(q) = Len(r) + Len(out) /\ DOMAIN r = 1 .. Len(r)
      /\ DOMAIN q = 1 .. Len(q) /\ \A k \in 1 .. Len(r) : q[k] = r[k]
  BY DEF Grows
<1>3. PICK e \in s .. Len(r) : e = s + b.length BY <1>1
<1>4. s \in 0 .. Len(q) /\ e \in s .. Len(q) BY <1>2
<1>5. ASSUME NEW k \in DOMAIN q
      PROVE  /\ b.from < q[k].by /\ q[k].by < b.to <=> s < k /\ k <= e
             /\ s < k /\ k <= e => q[k].pc = b.pc + 3 + k - s
  <2>1. CASE k \in DOMAIN r
    <3>1. q[k] = r[k] BY <1>2, <2>1
    <3>2. /\ b.from < r[k].by /\ r[k].by < b.to <=> s < k /\ k <= e
          /\ s < k /\ k <= e => r[k].pc = b.pc + 3 + k - s
      BY <1>1, <1>3, <2>1
    <3>. QED BY <3>1, <3>2
  <2>2. CASE k \notin DOMAIN r
    <3>1. q[k].by = i /\ k > Len(r) BY <2>2, GrowsIs
    <3>2. ~(q[k].by < b.to) BY <3>1
    <3>3. ~(k <= e) BY <1>2, <3>1
    <3>. QED BY <3>2, <3>3
  <2>. QED BY <2>1, <2>2
<1>. QED BY <1>3, <1>4, <1>5 DEF Pieces

LEMMA PiecesClose ==
  ASSUME NEW r \in Seq(PatchByte), NEW from \in Nat, NEW to \in Nat, NEW length \in Nat, NEW pc \in Int,
         \A k \in DOMAIN r : r[k].by < to, TailOf(r, from, length, pc + 3),
         NEW b, b.from = from, b.to = to, b.length = length, b.pc = pc
  PROVE  Pieces(r, b)
<1>1. PICK s \in 0 .. Len(r) :
        /\ Len(r) = s + length
        /\ \A k \in 1 .. s : r[k].by <= from
        /\ \A k \in s + 1 .. Len(r) : r[k].by > from /\ r[k].pc = pc + 3 + (k - s)
  BY DEF TailOf
<1>2. Len(r) \in Nat /\ DOMAIN r = 1 .. Len(r) OBVIOUS
<1>3. ASSUME NEW k \in DOMAIN r
      PROVE  /\ from < r[k].by /\ r[k].by < to <=> s < k /\ k <= s + length
             /\ s < k /\ k <= s + length => r[k].pc = pc + 3 + k - s
  <2>1. PICK y \in Nat : y = r[k].by
    <3>1. r[k] \in PatchByte OBVIOUS
    <3>2. r[k].by \in 1 .. MaxLen BY <3>1 DEF PatchByte
    <3>. QED BY <3>2
  <2>2. y < to BY <2>1
  <2>3. CASE k \in 1 .. s
    <3>1. y <= from BY <1>1, <2>1, <2>3
    <3>. QED BY SMTT(30), <2>1, <2>3, <3>1
  <2>4. CASE k \notin 1 .. s
    <3>1. k \in s + 1 .. Len(r) BY <1>2, <2>4
    <3>2. y > from /\ r[k].pc = pc + 3 + (k - s) BY <1>1, <2>1, <3>1
    <3>3. s < k /\ k <= s + length /\ pc + 3 + (k - s) = pc + 3 + k - s BY <1>1, <1>2, <3>1
    <3>. QED BY <2>1, <2>2, <3>2, <3>3
  <2>. QED BY <2>3, <2>4
<1>4. s + length \in s .. Len(r) BY <1>1, <1>2
<1>. QED BY <1>3, <1>4 DEF Pieces

\* Where the first command of a block is.
LEMMA WithinBegins ==
  ASSUME ValueInv, CheckedInv, ~errored, Solid(Here), NEW dest \in Nat,
         \A k \in 1 .. 4 : Walk(set, pos, 4).out[k] >= 0,
         NEW here, here = Displayed(Walk(set, pos, 4).pos, dest)
  PROVE  Within(set, pos, pos.real, here)
<1>1. pos \in Places /\ IsSet(set) BY StateType
<1>2. pos.snes >= 0 /\ pos.real >= 0 /\ set.check # "off" /\ ~LowMirror(Here) BY DEF Solid, Here
<1>3. set.mapper.name \in {"lorom", "exlorom"} => IsHigh(pos.real) BY <1>2, Zenon DEF LowMirror, Here
<1>4. StaysIn(set, pos) BY <1>1, StaysInIs DEF CheckedInv
<1>5. /\ here.snes = dest /\ here.start = dest
      /\ here.real = Walk(set, pos, 4).pos.real /\ here.rstart = Walk(set, pos, 4).pos.rstart
  BY DEF Displayed
<1>6. Walk(set, pos, 4).pos.real = pos.real + 4 /\ Walk(set, pos, 4).pos.rstart = pos.rstart
  <2>1. 4 \in Nat OBVIOUS
  <2>. QED BY <1>1, <1>2, <2>1, SetPosition
<1>7. snestopc(set.mapper, pos.real % EndOfSpace) >= 0
  <2>1. WalkTyped(set, pos, 4)
    <3>1. 4 \in Nat OBVIOUS
    <3>. QED BY <1>1, <3>1, WalkType
  <2>2. 1 \in 1 .. 4 OBVIOUS
  <2>3. Walk(set, pos, 4).out[1] = snestopc(set.mapper, Address(set, pos, 1)) BY <2>1, <2>2 DEF WalkTyped
  <2>4. Address(set, pos, 1) = pos.real % EndOfSpace
    <3>1. Verified(Walk(set, pos, 0).pos).real = pos.real + 0
      <4>1. 0 \in Nat OBVIOUS
      <4>. QED BY <1>1, <1>2, <4>1, SetPosition
    <3>2. 1 - 1 = 0 /\ pos.real + 0 = pos.real BY <1>1 DEF Places
    <3>. QED BY <3>1, <3>2 DEF Address
  <2>. QED BY <2>2, <2>3, <2>4
<1>8. here.snes >= 0 /\ here.snes - here.start = 0 BY <1>5
<1>9. here.real = pos.real + 4 + (here.snes - here.start)
  <2>1. pos.real + 4 + 0 = pos.real + 4 BY <1>1 DEF Places
  <2>. QED BY <1>5, <1>6, <1>8, <2>1
<1>10. here.snes - here.start >= 0 BY <1>8
<1>11. here.rstart = pos.rstart BY <1>5, <1>6
<1>. QED BY <1>1, <1>2, <1>3, <1>4, <1>7, <1>8, <1>9, <1>10, <1>11, Zenon DEF Within

\* Where the others of it are.
LEMMA WithinWrites ==
  ASSUME NEW s, IsSet(s), NEW p, NEW size, NEW q \in Places, Within(s, p, size, q),
         NEW n \in Nat, StaysIn(s, Walk(s, q, n).pos), \A k \in 1 .. n : Walk(s, q, n).out[k] >= 0
  PROVE  /\ Within(s, p, size, Walk(s, q, n).pos)
         /\ Walk(s, q, n).pos.snes - Walk(s, q, n).pos.start = (q.snes - q.start) + n
         /\ \A k \in 1 .. n :
              Walk(s, q, n).out[k] = snestopc(s.mapper, size % EndOfSpace) + 3 + (q.snes - q.start) + k
<1>1. /\ p \in Places /\ p.snes >= 0 /\ p.real >= 0 /\ size = p.real /\ s.check # "off"
      /\ (s.mapper.name \in {"lorom", "exlorom"} => IsHigh(p.real)) /\ StaysIn(s, p)
      /\ snestopc(s.mapper, p.real % EndOfSpace) >= 0
  BY Zenon DEF Within
<1>2. /\ q.snes >= 0 /\ q.snes - q.start >= 0 /\ q.real = p.real + 4 + (q.snes - q.start)
      /\ q.rstart = p.rstart
  BY DEF Within
<1>3. /\ p.real \in Nat /\ q.snes \in Nat /\ q.start \in Int /\ q.real \in Int BY <1>1, <1>2 DEF Places
<1>4. PICK d \in Nat : d = 4 + (q.snes - q.start) BY <1>2, <1>3
<1>5. q.real = p.real + d /\ q.real >= 0 BY <1>2, <1>3, <1>4
<1>6. /\ Walk(s, q, n).pos.real = q.real + n /\ Walk(s, q, n).pos.snes = q.snes + n
      /\ Walk(s, q, n).pos.start = q.start /\ Walk(s, q, n).pos.rstart = q.rstart
  BY <1>1, <1>2, <1>5, SetPosition
<1>7. PICK w : w = Walk(s, q, n) OBVIOUS
<1>8. /\ w.pos.snes >= 0 /\ w.pos.snes - w.pos.start >= 0 /\ w.pos.rstart = p.rstart
      /\ w.pos.real = p.real + 4 + (w.pos.snes - w.pos.start)
      /\ w.pos.snes - w.pos.start = (q.snes - q.start) + n
  BY <1>2, <1>3, <1>6, <1>7
<1>9. Within(s, p, size, w.pos) BY <1>1, <1>8, Zenon DEF Within
<1>10. ASSUME NEW k \in 1 .. n
       PROVE  w.out[k] = snestopc(s.mapper, size % EndOfSpace) + 3 + (q.snes - q.start) + k
  <2>1. Walk(s, q, n).out[k] = snestopc(s.mapper, p.real % EndOfSpace) + (d + k - 1)
    BY <1>1, <1>2, <1>5, BlockBytes
  <2>2. snestopc(s.mapper, p.real % EndOfSpace) \in Int
    <3>1. p.real % EndOfSpace \in Nat BY <1>3, HighInSpace
    <3>. QED BY <3>1, RomByteType DEF IsSet
  <2>3. PICK x \in Int : x = snestopc(s.mapper, p.real % EndOfSpace) BY <2>2
  <2>4. x + (d + k - 1) = x + 3 + (q.snes - q.start) + k BY <1>3, <1>4
  <2>. QED BY <1>1, <1>7, <2>1, <2>3, <2>4
<1>. QED BY <1>7, <1>8, <1>9, <1>10

\* A command of pass 2 that ends without an error.
Ended(c, out) ==
  /\ Reads(c) /\ ~errored /\ ~errored' /\ pass = 2 /\ pass' = 2
  /\ at \in 1 .. MaxLen /\ at' = at + 1 /\ MaxLen \in Nat
  /\ patch' = patch /\ at \in DOMAIN patch /\ c = patch[at]
  /\ marks'[at] = Here /\ \A i \in 1 .. MaxLen : i # at => marks'[i] = marks[i]
  /\ Grows(rom, rom', out, at) /\ \A k \in DOMAIN rom : rom[k].by < at
  /\ out \in Seq(Int) /\ \A k \in DOMAIN out : out[k] >= 0
  /\ Puts(c, out) /\ BlockPuts(c, out)

LEMMA CommandEnded ==
  ASSUME Inv, ValueInv, CheckedInv, OrderInv, Command, ~errored', pass' \in {2, 3}
  PROVE  \E c, out : Ended(c, out)
<1>1. PICK c : Reads(c) /\ Form(c) BY CommandForm
<1>2. /\ pass \in 0 .. 2 /\ at \in 1 .. MaxLen /\ MaxLen \in Nat /\ at' = at + 1
      /\ DOMAIN marks = 1 .. MaxLen + 1 /\ marks' = [marks EXCEPT ![at] = Here]
  BY <1>1, ReadCommand, PositionsAssumption DEF Reads, Inv, ShapeInv, Here
<1>3. ~errored /\ pass' = pass BY <1>1, Zenon DEF Form, Settled
<1>4. pass = 2 /\ pass' = 2 BY <1>2, <1>3
<1>5. patch' = patch /\ at <= Len(patch) /\ patch'[at] = c BY <1>1, <1>4, ReadsType
<1>6. at \in DOMAIN patch
  <2>1. IsList(patch) BY DEF Inv, ShapeInv
  <2>. QED BY <1>2, <1>5, <2>1 DEF IsList
<1>7. PICK out \in Seq(Int) : /\ rom' = rom \o Of(out) /\ \A k \in DOMAIN out : out[k] >= 0
                              /\ Puts(c, out) /\ BlockPuts(c, out)
  BY <1>1, <1>4, Zenon DEF Form
<1>8. Grows(rom, rom', out, at)
  <2>1. PICK r : r = rom' OBVIOUS
  <2>2. /\ Len(rom) \in Nat /\ Len(out) \in Nat /\ Len(r) = Len(rom) + Len(out) /\ DOMAIN r = 1 .. Len(r)
        /\ \A k \in 1 .. Len(rom) : r[k] = rom[k]
        /\ \A k \in 1 .. Len(out) : r[Len(rom) + k] = [pc |-> out[k], by |-> at]
    BY <1>2, <1>7, <2>1, RomNext
  <2>3. DOMAIN rom = 1 .. Len(rom)
    <3>1. rom \in Seq(PatchByte) BY DEF ValueInv
    <3>. QED BY <3>1
  <2>4. ASSUME NEW k \in 1 .. Len(out) PROVE r[Len(rom) + k].pc = out[k] /\ r[Len(rom) + k].by = at
    <3>1. r[Len(rom) + k] = [pc |-> out[k], by |-> at] BY <2>2
    <3>2. [pc |-> out[k], by |-> at].pc = out[k] /\ [pc |-> out[k], by |-> at].by = at OBVIOUS
    <3>. QED BY <3>1, <3>2
  <2>. QED BY <2>1, <2>2, <2>3, <2>4, Zenon DEF Grows
<1>9. \A k \in DOMAIN rom : rom[k].by < at BY <1>4 DEF OrderInv
<1>10. marks'[at] = Here /\ \A i \in 1 .. MaxLen : i # at => marks'[i] = marks[i] BY <1>2
<1>11. Ended(c, out) BY <1>1, <1>2, <1>3, <1>4, <1>5, <1>6, <1>7, <1>8, <1>9, <1>10, Zenon DEF Ended
<1>. QED BY <1>11

LEMMA BlockBegins ==
  ASSUME Inv, ValueInv, CheckedInv, NEW c, NEW out, Ended(c, out), c.c = "spcblock"
  PROVE  OpenInv'
<1>1. /\ at \in 1 .. MaxLen /\ at' = at + 1 /\ MaxLen \in Nat /\ ~errored /\ marks'[at] = Here
      /\ Grows(rom, rom', out, at) /\ \A k \in DOMAIN rom : rom[k].by < at
      /\ \A k \in DOMAIN out : out[k] >= 0
  BY Zenon DEF Ended
<1>2. /\ out = Walk(set, pos, 4).out /\ pos' = Displayed(Walk(set, pos, 4).pos, c.dest) /\ c.dest \in Nat
      /\ set' = set /\ spc'.size = pos.real /\ spc'.from = at
  BY Zenon DEF Ended, BlockPuts
<1>3. ASSUME Solid(Here) PROVE Within(set', pos, spc'.size, pos')
  <2>1. \A k \in 1 .. 4 : Walk(set, pos, 4).out[k] >= 0
    <3>1. pos \in Places /\ IsSet(set) /\ 4 \in Nat BY StateType
    <3>2. WalkTyped(set, pos, 4) BY <3>1, WalkType
    <3>3. DOMAIN out = 1 .. 4 BY <1>2, <3>2 DEF WalkTyped
    <3>. QED BY <1>1, <1>2, <3>3
  <2>2. Within(set, pos, pos.real, pos') BY <1>1, <1>2, <1>3, <2>1, WithinBegins
  <2>. QED BY <1>2, <2>2
<1>4. Length' = 0
  <2>1. pos'.snes = c.dest /\ pos'.start = c.dest BY <1>2 DEF Displayed
  <2>. QED BY <1>2, <2>1 DEF Length
<1>5. ASSUME NEW start PROVE TailOf(rom', at, 0, start)
  <2>1. PICK r : r = rom' OBVIOUS
  <2>2. Grows(rom, r, out, at) BY <1>1, <2>1
  <2>3. Len(r) \in Nat /\ DOMAIN r = 1 .. Len(r) /\ \A k \in DOMAIN rom : r[k] = rom[k] BY <2>2 DEF Grows
  <2>4. \A k \in 1 .. Len(r) : r[k].by <= at
    <3>1. ASSUME NEW k \in 1 .. Len(r) PROVE r[k].by <= at
      <4>1. CASE k \in DOMAIN rom
        <5>1. rom[k].by < at /\ r[k] = rom[k] BY <1>1, <2>3, <4>1
        <5>2. rom[k].by \in Int
          <6>1. rom \in Seq(PatchByte) BY DEF ValueInv
          <6>2. rom[k] \in PatchByte BY <4>1, <6>1
          <6>. QED BY <6>2 DEF PatchByte
        <5>. QED BY <1>1, <5>1, <5>2
      <4>2. CASE k \notin DOMAIN rom
        <5>1. k \in DOMAIN r BY <2>3
        <5>2. r[k].by = at BY <2>2, <4>2, <5>1, GrowsIs
        <5>. QED BY <1>1, <5>2
      <4>. QED BY <4>1, <4>2
    <3>. QED BY <3>1
  <2>5. Len(r) \in 0 .. Len(r) /\ Len(r) = Len(r) + 0 /\ Len(r) + 1 .. Len(r) = {}
    <3>1. \A n \in Nat : n \in 0 .. n /\ n = n + 0 /\ n + 1 .. n = {} OBVIOUS
    <3>. QED BY ONLY <2>3, <3>1
  <2>6. TailOf(r, at, 0, start) BY <2>4, <2>5 DEF TailOf
  <2>. QED BY <2>1, <2>6
<1>6. spc'.from \in 1 .. at' - 1 BY <1>1, <1>2
<1>7. marks'[spc'.from] = Here BY <1>1, <1>2
<1>8. Solid(marks'[spc'.from]) => Within(set', marks'[spc'.from].pos, spc'.size, pos')
  <2>1. Here.pos = pos BY DEF Here
  <2>. QED BY <1>3, <1>7, <2>1
<1>9. TailOf(rom', spc'.from, Length', snestopc(set'.mapper, spc'.size % EndOfSpace) + 3) BY <1>2, <1>4, <1>5
<1>. QED BY <1>6, <1>8, <1>9, Zenon DEF OpenInv

LEMMA BlockGoesOn ==
  ASSUME Inv, ValueInv, CheckedInv, OpenInv, NEW c, NEW out, Ended(c, out), c.c # "spcblock", spc'.in
  PROVE  OpenInv'
<1>1. /\ at \in 1 .. MaxLen /\ at' = at + 1 /\ MaxLen \in Nat /\ ~errored /\ pass = 2
      /\ \A i \in 1 .. MaxLen : i # at => marks'[i] = marks[i]
      /\ Grows(rom, rom', out, at) /\ out \in Seq(Int) /\ \A k \in DOMAIN out : out[k] >= 0
      /\ patch' = patch /\ at \in DOMAIN patch /\ c = patch[at]
  BY Zenon DEF Ended
<1>2. spc.in /\ spc'.size = spc.size /\ spc'.from = spc.from BY Zenon DEF Ended, BlockPuts
<1>3. PICK f : f = spc.from OBVIOUS
<1>4. /\ f \in 1 .. at - 1
      /\ Solid(marks[f]) /\ NoMoves(patch, f, at) =>
           /\ Within(set, marks[f].pos, spc.size, pos)
           /\ TailOf(rom, f, Length, snestopc(set.mapper, spc.size % EndOfSpace) + 3)
  BY <1>1, <1>2, <1>3, Zenon DEF OpenInv
<1>5. f \in Nat /\ f < at /\ f \in 1 .. MaxLen /\ f # at /\ f \in 1 .. at' - 1 BY <1>1, <1>4
<1>6. marks'[f] = marks[f] BY <1>1, <1>5
<1>7. ASSUME Solid(marks[f]), NoMoves(patch, f, at')
      PROVE  /\ Within(set', marks[f].pos, spc.size, pos')
             /\ TailOf(rom', f, Length', snestopc(set'.mapper, spc.size % EndOfSpace) + 3)
  <2>1. NoMoves(patch, f, at) /\ c.c \notin Moving
    <3>1. ASSUME NEW i \in DOMAIN patch, f < i, i < at PROVE patch[i].c \notin Moving
      <4>1. DOMAIN patch = 1 .. Len(patch) /\ Len(patch) \in Nat BY DEF Inv, ShapeInv, IsList
      <4>2. i < at' BY <1>1, <3>1, <4>1
      <4>. QED BY <1>7, <3>1, <4>2 DEF NoMoves
    <3>2. at < at' BY <1>1
    <3>. QED BY <1>1, <1>5, <1>7, <3>1, <3>2 DEF NoMoves
  <2>2. /\ Within(set, marks[f].pos, spc.size, pos)
        /\ TailOf(rom, f, Length, snestopc(set.mapper, spc.size % EndOfSpace) + 3)
    BY <1>4, <1>7, <2>1
  <2>3. pos \in Places /\ IsSet(set) /\ pos.snes \in Int /\ pos.start \in Int BY StateType
  <2>4. PICK length \in Nat : length = pos.snes - pos.start
    <3>1. pos.snes - pos.start >= 0 BY <2>2 DEF Within
    <3>. QED BY <2>3, <3>1
  <2>5. PICK start \in Int : start = snestopc(set.mapper, spc.size % EndOfSpace) + 3
    <3>1. marks[f].pos.real \in Nat /\ spc.size = marks[f].pos.real BY <2>2 DEF Within, Places
    <3>2. spc.size % EndOfSpace \in Nat BY <3>1, HighInSpace
    <3>3. snestopc(set.mapper, spc.size % EndOfSpace) \in Int BY <2>3, <3>2, RomByteType DEF IsSet
    <3>. QED BY <3>3
  <2>6. TailOf(rom, f, length, start) BY <2>2, <2>4, <2>5 DEF Length
  <2>7. Len(out) \in Nat /\ DOMAIN out = 1 .. Len(out) BY <1>1
  <2>8. CASE out = <<>> /\ pos' = pos /\ set'.check = set.check /\ set'.mapper = set.mapper
    <3>1. Len(out) = 0 BY <2>8
    <3>2. \A k \in 1 .. Len(out) : out[k] = start + length + k BY <3>1
    <3>3. at \in Nat BY <1>1
    <3>4. PICK q : q = rom' OBVIOUS
    <3>5. Grows(rom, q, out, at) BY <1>1, <3>4
    <3>6. TailOf(q, f, length + Len(out), start) BY <1>5, <2>6, <3>2, <3>3, <3>5, TailGrows
    <3>7. Length' = length + Len(out) BY <2>4, <2>8, <3>1 DEF Length
    <3>8. Within(set', marks[f].pos, spc.size, pos') BY <2>2, <2>8, Zenon DEF Within, StaysIn
    <3>9. snestopc(set'.mapper, spc.size % EndOfSpace) + 3 = start BY <2>5, <2>8
    <3>. QED BY <3>4, <3>6, <3>7, <3>8, <3>9
  <2>9. CASE \E n \in Nat : /\ out = Walk(set, pos, n).out /\ StaysIn(set, Walk(set, pos, n).pos) /\ set' = set
                            /\ pos' = Walk(set, pos, n).pos
    <3>1. PICK n \in Nat : /\ out = Walk(set, pos, n).out /\ StaysIn(set, Walk(set, pos, n).pos) /\ set' = set
                           /\ pos' = Walk(set, pos, n).pos
      BY <2>9
    <3>2. Len(out) = n
      <4>1. WalkTyped(set, pos, n) BY <2>3, WalkType
      <4>. QED BY <3>1, <4>1 DEF WalkTyped
    <3>3. \A k \in 1 .. n : Walk(set, pos, n).out[k] >= 0 BY <1>1, <2>7, <3>1, <3>2
    <3>4. /\ Within(set, marks[f].pos, spc.size, Walk(set, pos, n).pos)
          /\ Walk(set, pos, n).pos.snes - Walk(set, pos, n).pos.start = (pos.snes - pos.start) + n
          /\ \A k \in 1 .. n : Walk(set, pos, n).out[k]
               = snestopc(set.mapper, spc.size % EndOfSpace) + 3 + (pos.snes - pos.start) + k
      BY <2>2, <2>3, <3>1, <3>3, WithinWrites
    <3>5. \A k \in 1 .. Len(out) : out[k] = start + length + k BY <2>4, <2>5, <3>1, <3>2, <3>4
    <3>6. at \in Nat BY <1>1
    <3>7. PICK q : q = rom' OBVIOUS
    <3>8. Grows(rom, q, out, at) BY <1>1, <3>7
    <3>9. TailOf(q, f, length + Len(out), start) BY <1>5, <2>6, <3>5, <3>6, <3>8, TailGrows
    <3>10. Length' = length + Len(out) BY <2>4, <3>1, <3>2, <3>4 DEF Length
    <3>11. Within(set', marks[f].pos, spc.size, pos') BY <3>1, <3>4
    <3>12. snestopc(set'.mapper, spc.size % EndOfSpace) + 3 = start BY <2>5, <3>1
    <3>. QED BY <3>7, <3>9, <3>10, <3>11, <3>12
  <2>10. c.c # "incbin_to" BY <2>1 DEF Moving
  <2>11. Puts(c, out) BY Zenon DEF Ended
  <2>. QED BY <1>2, <2>1, <2>8, <2>9, <2>10, <2>11, Zenon DEF Puts, Kept
<1>8. spc'.from = f /\ spc'.size = spc.size /\ marks'[f] = marks[f] /\ patch' = patch
  BY <1>1, <1>2, <1>3, <1>6
<1>9. spc'.from \in 1 .. at' - 1 BY <1>5, <1>8
<1>10. Solid(marks'[spc'.from]) /\ NoMoves(patch', spc'.from, at') =>
         /\ Within(set', marks'[spc'.from].pos, spc'.size, pos')
         /\ TailOf(rom', spc'.from, Length', snestopc(set'.mapper, spc'.size % EndOfSpace) + 3)
  BY <1>7, <1>8
<1>. QED BY <1>9, <1>10, Zenon DEF OpenInv

LEMMA OpenNext ==
  ASSUME Inv, ValueInv, CheckedInv, OrderInv, OpenInv, Command
  PROVE  OpenInv'
<1>1. CASE ~errored' /\ pass' = 2 /\ spc'.in
  <2>1. pass' \in {2, 3} BY <1>1
  <2>2. PICK c, out : Ended(c, out) BY <1>1, <2>1, CommandEnded
  <2>. QED BY <1>1, <2>2, BlockBegins, BlockGoesOn
<1>2. CASE ~(~errored' /\ pass' = 2 /\ spc'.in) BY <1>2, Zenon DEF OpenInv
<1>. QED BY <1>1, <1>2

LEMMA ClosedNext ==
  ASSUME Inv, ValueInv, CheckedInv, OrderInv, OpenInv, ClosedInv, Command
  PROVE  ClosedInv'
<1> DEFINE Closes(b) == /\ b.from \in 1 .. MaxLen /\ b.to \in 1 .. MaxLen /\ b.from < b.to /\ b.to < at'
                        /\ Solid(marks'[b.from]) /\ NoMoves(patch', b.from, b.to) => Pieces(rom', b)
<1>1. CASE ~errored' /\ pass' \in {2, 3}
  <2>1. PICK c, out : Ended(c, out) BY <1>1, CommandEnded
  <2>2. /\ at \in 1 .. MaxLen /\ at' = at + 1 /\ MaxLen \in Nat /\ ~errored /\ pass = 2 /\ pass' = 2
        /\ \A i \in 1 .. MaxLen : i # at => marks'[i] = marks[i]
        /\ Grows(rom, rom', out, at) /\ patch' = patch /\ \A k \in DOMAIN rom : rom[k].by < at
    BY <2>1, Zenon DEF Ended
  <2>3. ASSUME NEW b, b.from \in 1 .. MaxLen, b.to \in 1 .. MaxLen, b.from < b.to, b.to <= at,
               Solid(marks[b.from]) /\ NoMoves(patch, b.from, b.to) => Pieces(rom, b)
        PROVE  Closes(b)
    <3>1. PICK from, to \in 1 .. MaxLen : from = b.from /\ to = b.to BY <2>3
    <3>2. from < to /\ to <= at /\ from # at /\ to < at' /\ at \in Nat /\ to \in Nat BY <2>2, <2>3, <3>1
    <3>3. marks'[from] = marks[from] BY <2>2, <3>2
    <3>4. ASSUME Pieces(rom, b) PROVE Pieces(rom', b)
      <4>1. PICK q : q = rom' OBVIOUS
      <4>2. Grows(rom, q, out, at) BY <2>2, <4>1
      <4>3. b.to \in Nat /\ b.to <= at BY <3>1, <3>2
      <4>4. Pieces(q, b) BY <3>2, <3>4, <4>2, <4>3, PiecesGrow
      <4>. QED BY <4>1, <4>4
    <3>5. Solid(marks'[b.from]) /\ NoMoves(patch', b.from, b.to) => Pieces(rom', b)
      BY <2>2, <2>3, <3>1, <3>3, <3>4
    <3>. QED BY <2>3, <3>1, <3>2, <3>5
  <2>4. ASSUME NEW n \in DOMAIN blocks PROVE Closes(blocks[n])
    <3>1. PICK b : b = blocks[n] OBVIOUS
    <3>2. /\ b.from \in 1 .. MaxLen /\ b.to \in 1 .. MaxLen /\ b.from < b.to /\ b.to < at
          /\ Solid(marks[b.from]) /\ NoMoves(patch, b.from, b.to) => Pieces(rom, b)
      BY <2>2, <2>4, <3>1, Zenon DEF ClosedInv
    <3>3. b.to <= at BY <2>2, <3>2
    <3>. QED BY <2>3, <3>1, <3>2, <3>3
  <2>5. BlockPuts(c, out) BY <2>1, Zenon DEF Ended
  <2>6. CASE Ends(c)
    <3>1. PICK b : b = [from |-> spc.from, to |-> at, length |-> Length,
                        pc |-> snestopc(set.mapper, spc.size % EndOfSpace)]
      OBVIOUS
    <3>2. blocks' = Append(blocks, b) BY <2>5, <2>6, <3>1 DEF BlockPuts
    <3>3. b.from = spc.from /\ b.to = at /\ b.length = Length /\ b.pc = snestopc(set.mapper, spc.size % EndOfSpace)
      BY <3>1
    <3>4. PICK f : f = spc.from OBVIOUS
    <3>5. /\ f \in 1 .. at - 1
          /\ Solid(marks[f]) /\ NoMoves(patch, f, at) =>
               /\ Within(set, marks[f].pos, spc.size, pos)
               /\ TailOf(rom, f, Length, snestopc(set.mapper, spc.size % EndOfSpace) + 3)
      BY <2>2, <2>6, <3>4, Zenon DEF OpenInv, Ends
    <3>6. f \in Nat /\ f \in 1 .. MaxLen /\ f < at /\ at \in Nat BY <2>2, <3>5
    <3>7. ASSUME Solid(marks[f]), NoMoves(patch, f, at) PROVE Pieces(rom, b)
      <4>1. /\ Within(set, marks[f].pos, spc.size, pos)
            /\ TailOf(rom, f, Length, snestopc(set.mapper, spc.size % EndOfSpace) + 3)
        BY <3>5, <3>7
      <4>2. pos \in Places /\ IsSet(set) /\ pos.snes \in Int /\ pos.start \in Int BY StateType
      <4>3. PICK length \in Nat : length = Length
        <5>1. pos.snes - pos.start >= 0 BY <4>1 DEF Within
        <5>. QED BY <4>2, <5>1 DEF Length
      <4>4. PICK pc \in Int : pc = snestopc(set.mapper, spc.size % EndOfSpace)
        <5>1. marks[f].pos.real \in Nat /\ spc.size = marks[f].pos.real BY <4>1 DEF Within, Places
        <5>2. spc.size % EndOfSpace \in Nat BY <5>1, HighInSpace
        <5>. QED BY <4>2, <5>2, RomByteType DEF IsSet
      <4>5. TailOf(rom, f, length, pc + 3) BY <4>1, <4>3, <4>4
      <4>6. rom \in Seq(PatchByte) BY DEF ValueInv
      <4>7. b.from = f /\ b.to = at /\ b.length = length /\ b.pc = pc BY <3>3, <3>4, <4>3, <4>4
      <4>. QED BY <2>2, <3>6, <4>5, <4>6, <4>7, PiecesClose
    <3>8. b.from \in 1 .. MaxLen /\ b.to \in 1 .. MaxLen /\ b.from < b.to /\ b.to <= at
      BY <2>2, <3>3, <3>4, <3>6
    <3>9. Solid(marks[b.from]) /\ NoMoves(patch, b.from, b.to) => Pieces(rom, b)
      BY <3>3, <3>4, <3>7
    <3>10. Closes(b) BY <2>3, <3>8, <3>9
    <3>11. IsList(blocks) BY DEF ValueInv
    <3>12. PICK l : l = blocks' OBVIOUS
    <3>13. /\ IsList(l) /\ Len(l) = Len(blocks) + 1 /\ Len(blocks) \in Nat
           /\ \A i \in 1 .. Len(blocks) : l[i] = blocks[i]
           /\ l[Len(blocks) + 1] = b
      BY <3>2, <3>11, <3>12, PushList
    <3>14. DOMAIN l = 1 .. Len(l) /\ DOMAIN blocks = 1 .. Len(blocks) BY <3>11, <3>13 DEF IsList
    <3>15. ASSUME NEW n \in DOMAIN l PROVE (n \in DOMAIN blocks /\ l[n] = blocks[n]) \/ l[n] = b
      BY <3>13, <3>14
    <3>16. \A n \in DOMAIN l : Closes(l[n])
      <4> HIDE DEF Closes
      <4>. QED BY <2>4, <3>10, <3>15
    <3>17. \A n \in DOMAIN blocks' : Closes(blocks'[n]) BY <3>12, <3>16
    <3>. QED BY <1>1, <3>17, Zenon DEF ClosedInv
  <2>7. CASE ~Ends(c)
    <3>1. blocks' = blocks BY <2>5, <2>7, Zenon DEF BlockPuts
    <3>2. \A n \in DOMAIN blocks' : Closes(blocks'[n]) BY <2>4, <3>1
    <3>. QED BY <1>1, <3>2, Zenon DEF ClosedInv
  <2>. QED BY <2>6, <2>7
<1>2. CASE ~(~errored' /\ pass' \in {2, 3}) BY <1>2, Zenon DEF ClosedInv
<1>. QED BY <1>1, <1>2

LEMMA FinishPassBlocks ==
  ASSUME Inv, ValueInv, OrderInv, OpenInv, ClosedInv, FinishPass
  PROVE  OpenInv' /\ ClosedInv'
<1>1. /\ pass \in 0 .. 2 /\ pass' \in {pass + 1, 3} /\ at = Len(patch) + 1 /\ Len(patch) <= MaxLen
      /\ DOMAIN marks = 1 .. MaxLen + 1 /\ (~errored' => ~errored)
      /\ pass = 2 => marks' = [marks EXCEPT ![at] = Here]
  BY PassEnd
<1>2. rom' = rom /\ blocks' = blocks /\ patch' = patch BY DEF FinishPass
<1>3. ~spc'.in
  <2>1. spc' = [spc EXCEPT !.in = FALSE] /\ DOMAIN spc = DOMAIN NoBlock BY DEF FinishPass, Fresh, Inv, ShapeInv
  <2>. QED BY <2>1 DEF NoBlock
<1>4. OpenInv' BY <1>3, Zenon DEF OpenInv
<1>5. CASE pass < 2
  <2>1. blocks' = <<>> BY <1>2, <1>5 DEF OrderInv
  <2>2. DOMAIN blocks' = {} BY <2>1
  <2>. QED BY <1>4, <2>2 DEF ClosedInv
<1>6. CASE pass = 2
  <2>1. pass' = 3 BY <1>1, <1>6
  <2>2. ASSUME ~errored', NEW n \in DOMAIN blocks
        PROVE  LET b == blocks[n] IN
               /\ b.from \in 1 .. MaxLen /\ b.to \in 1 .. MaxLen /\ b.from < b.to
               /\ Solid(marks'[b.from]) /\ NoMoves(patch, b.from, b.to) => Pieces(rom, b)
    <3>1. PICK b : b = blocks[n] OBVIOUS
    <3>2. /\ b.from \in 1 .. MaxLen /\ b.to \in 1 .. MaxLen /\ b.from < b.to /\ b.to < at
          /\ Solid(marks[b.from]) /\ NoMoves(patch, b.from, b.to) => Pieces(rom, b)
      BY <1>1, <1>6, <2>2, <3>1 DEF ClosedInv
    <3>3. PICK from \in 1 .. MaxLen : from = b.from BY <3>2
    <3>4. from # at
      <4>1. PICK to \in 1 .. MaxLen : to = b.to BY <3>2
      <4>2. from < to /\ to < at BY <3>2, <3>3, <4>1
      <4>3. Len(patch) \in Nat BY DEF Inv, ShapeInv, IsList
      <4>. QED BY <1>1, <4>2, <4>3
    <3>5. marks'[from] = marks[from]
      <4>1. marks' = [marks EXCEPT ![at] = Here] /\ DOMAIN marks = 1 .. MaxLen + 1 BY <1>1, <1>6
      <4>. QED BY <3>4, <4>1
    <3>. QED BY <3>1, <3>2, <3>3, <3>5
  <2>3. ClosedInv' BY <1>2, <2>1, <2>2 DEF ClosedInv
  <2>. QED BY <1>4, <2>3
<1>. QED BY <1>1, <1>5, <1>6

LEMMA BlocksHold == Spec => [](OpenInv /\ ClosedInv)
<1>1. Inv /\ ValueInv /\ CheckedInv /\ OrderInv /\ OpenInv /\ ClosedInv /\ [Next]_vars => OpenInv' /\ ClosedInv'
  <2> SUFFICES ASSUME Inv, ValueInv, CheckedInv, OrderInv, OpenInv, ClosedInv, [Next]_vars
               PROVE  OpenInv' /\ ClosedInv'
    OBVIOUS
  <2>1. CASE Command BY <2>1, OpenNext, ClosedNext
  <2>2. CASE FinishPass BY <2>2, FinishPassBlocks
  <2>3. CASE NextPatch
    <3>1. pass' = 0 BY <2>3 DEF NextPatch
    <3>. QED BY <3>1 DEF OpenInv, ClosedInv
  <2>4. CASE UNCHANGED vars BY <2>4 DEF vars, OpenInv, ClosedInv, Length
  <2>. QED BY <2>1, <2>2, <2>3, <2>4 DEF Next, Command
<1>2. Init => OpenInv /\ ClosedInv BY DEF Init, OpenInv, ClosedInv
<1>. QED BY <1>1, <1>2, InvHolds, ValuesHold, OrderHolds, PTL DEF Spec

\* In a patch without errors a spcblock is one piece of the ROM, right after its header,
\* of as many bytes as its length says, if nothing but bytes is in it, the banks are
\* checked and the position is set: the length that endspcblock works out from the
\* displayed position is that of what the commands in the block have written.
THEOREM BlocksWhole == Spec => []SpcBlockWhole
<1>1. ClosedInv => SpcBlockWhole
  <2> SUFFICES ASSUME ClosedInv, Final, NEW n \in DOMAIN blocks, NEW b, b = blocks[n], Solid(marks[b.from]),
                      \A i \in Inside(b) : patch[i].c \notin Moving
               PROVE  SpcPieces(b)
    BY DEF SpcBlockWhole, Solid
  <2>1. NoMoves(patch, b.from, b.to) BY DEF NoMoves, Inside
  <2>2. ~errored /\ pass \in {2, 3} BY DEF Final
  <2>3. Pieces(rom, b) BY <2>1, <2>2, Zenon DEF ClosedInv
  <2>. QED BY <2>3 DEF Pieces, SpcPieces
<1>. QED BY <1>1, BlocksHold, PTL
=============================================================================
