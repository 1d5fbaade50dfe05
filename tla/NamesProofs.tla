----------------------------- MODULE NamesProofs -----------------------------
(***************************************************************************)
(* Theorems about names: for patches of any commands and any length.       *)
(***************************************************************************)
EXTENDS Names, SequenceTheorems, FiniteSetTheorems, WellFoundedInduction, TLAPS

IsList(s) == s \in Seq(ToSet(s))

(***************************************************************************)
(* Lemmas about lists                                                      *)
(***************************************************************************)

\* A sequence over any set is a list.
LEMMA IsListOf ==
  ASSUME NEW S, NEW s \in Seq(S)
  PROVE  IsList(s) /\ Len(s) \in Nat /\ DOMAIN s = 1 .. Len(s)
<1>1. Len(s) \in Nat /\ DOMAIN s = 1 .. Len(s) /\ s = [i \in 1 .. Len(s) |-> s[i]] OBVIOUS
<1>2. s \in [1 .. Len(s) -> ToSet(s)] BY <1>1 DEF ToSet
<1>. QED BY <1>1, <1>2, SeqDef DEF IsList

\* What has been put at the end of a list, and what is left without it.
LEMMA AppendList ==
  ASSUME NEW s, IsList(s), NEW x
  PROVE  /\ IsList(Append(s, x)) /\ Len(Append(s, x)) = Len(s) + 1 /\ Len(s) \in Nat
         /\ DOMAIN Append(s, x) = 1 .. Len(s) + 1 /\ DOMAIN s = 1 .. Len(s)
         /\ \A i \in 1 .. Len(s) : Append(s, x)[i] = s[i]
         /\ Append(s, x)[Len(s) + 1] = x
<1>1. s \in Seq(ToSet(s) \cup {x})
  <2>1. s \in [1 .. Len(s) -> ToSet(s)] /\ Len(s) \in Nat BY DEF IsList
  <2>2. s \in [1 .. Len(s) -> ToSet(s) \cup {x}] BY <2>1
  <2>. QED BY <2>1, <2>2, SeqDef
<1>2. Append(s, x) \in Seq(ToSet(s) \cup {x}) BY <1>1
<1>3. IsList(Append(s, x)) BY <1>2, IsListOf
<1>. QED BY <1>1, <1>3, AppendProperties

LEMMA FrontList ==
  ASSUME NEW s, IsList(s), s # <<>>
  PROVE  /\ IsList(Front(s)) /\ Len(Front(s)) = Len(s) - 1 /\ Len(s) \in Nat /\ Len(s) > 0
         /\ \A i \in 1 .. Len(s) - 1 : Front(s)[i] = s[i]
<1>1. Len(s) \in Nat /\ s \in Seq(ToSet(s)) BY DEF IsList
<1>2. Len(s) > 0 BY <1>1, EmptySeq
<1>3. PICK n \in Nat : n = Len(s) BY <1>1
<1>4. \A i \in 1 .. n - 1 : s[i] \in ToSet(s) BY <1>1, <1>3
<1>5. \A m \in Nat : m > 0 => (IF 1 <= m - 1 THEN m - 1 - 1 + 1 ELSE 0) = m - 1 OBVIOUS
<1>6. /\ SubSeq(s, 1, n - 1) \in Seq(ToSet(s))
      /\ Len(SubSeq(s, 1, n - 1)) = IF 1 <= n - 1 THEN n - 1 - 1 + 1 ELSE 0
      /\ \A i \in 1 .. n - 1 - 1 + 1 : SubSeq(s, 1, n - 1)[i] = s[1 + i - 1]
  BY <1>1, <1>3, <1>4, SubSeqProperties
<1>7. Front(s) = SubSeq(s, 1, n - 1) BY <1>3 DEF Front
<1>8. Len(Front(s)) = n - 1 BY <1>5, <1>6, <1>7, <1>2, <1>3
<1>9. IsList(Front(s)) BY <1>6, <1>7, IsListOf
<1>10. \A i \in 1 .. n - 1 : Front(s)[i] = s[i] BY <1>6, <1>7, <1>3
<1>. QED BY <1>1, <1>2, <1>3, <1>8, <1>9, <1>10

\* The parents of sublabels, once a label of n dots is one of them.
LEMMA AdoptList ==
  ASSUME NEW s, IsList(s), NEW n \in Nat, n <= Len(s), NEW x
  PROVE  IsList(Append(SubSeq(s, 1, n), x)) /\ Len(Append(SubSeq(s, 1, n), x)) = n + 1
<1>1. Len(s) \in Nat /\ s \in Seq(ToSet(s)) BY DEF IsList
<1>2. \A i \in 1 .. n : s[i] \in ToSet(s) BY <1>1
<1>3. (IF 1 <= n THEN n - 1 + 1 ELSE 0) = n OBVIOUS
<1>4. SubSeq(s, 1, n) \in Seq(ToSet(s)) /\ Len(SubSeq(s, 1, n)) = n
  BY <1>1, <1>2, <1>3, SubSeqProperties
<1>5. IsList(SubSeq(s, 1, n)) BY <1>4, IsListOf
<1>. QED BY <1>4, <1>5, AppendList

LEMMA EmptyList == IsList(<<>>) /\ Len(<<>>) = 0
<1>1. <<>> \in Seq({}) OBVIOUS
<1>. QED BY <1>1, IsListOf

LEMMA ConcatList ==
  ASSUME NEW s, IsList(s), NEW t, IsList(t)
  PROVE  IsList(s \o t) /\ (s = <<>> => s \o t = t)
<1>. DEFINE S == ToSet(s) \cup ToSet(t)
<1>1. Len(s) \in Nat /\ Len(t) \in Nat BY DEF IsList
<1>2. s \in [1 .. Len(s) -> ToSet(s)] /\ t \in [1 .. Len(t) -> ToSet(t)] BY DEF IsList
<1>3. s \in [1 .. Len(s) -> S] /\ t \in [1 .. Len(t) -> S] BY <1>2
<1>4. s \in Seq(S) /\ t \in Seq(S) BY <1>1, <1>3, SeqDef
<1>. HIDE DEF S
<1>. QED BY <1>4, IsListOf, ConcatProperties, ConcatEmptySeq

-----------------------------------------------------------------------------
(***************************************************************************)
(* Type correctness                                                        *)
(***************************************************************************)

Counts == [Depths -> Nat]

\* The place in the patch; in pass 0 it is the patch's end.
ReadInv ==
  /\ commands \in CommandSets /\ patch \in Seq(commands.of) /\ Len(patch) <= MaxLen
  /\ pass \in 0 .. 3 /\ at \in 1 .. Len(patch) + 1 /\ (pass = 0 => at = Len(patch) + 1)

\* What has been put away for a macro call is like what is in use.
Kept(f) ==
  /\ f.called \in 0 .. really /\ IsList(f.sub) /\ Len(f.sub) <= MaxDots + 1
  /\ f.plus \in Counts /\ f.minus \in Counts
ScopeInv ==
  /\ IsList(sub) /\ Len(sub) <= MaxDots + 1 /\ plus \in Counts /\ minus \in Counts
  /\ IsList(msub) /\ Len(msub) <= MaxDots + 1 /\ mplus \in Counts /\ mminus \in Counts
  /\ really \in Nat /\ called \in 0 .. really
  /\ IsList(frames) /\ \A i \in 1 .. Len(frames) : Kept(frames[i])

Pushed(slot) == slot.nested \in BOOLEAN /\ IsList(slot.list)
SpaceInv == /\ nested \in BOOLEAN /\ IsList(list) /\ IsList(slots) /\ depth \in 0 .. Len(slots)
            /\ \A i \in 1 .. Len(slots) : Pushed(slots[i])

\* The parent of an extension that is open is a struct.
StructInv ==
  /\ pos \in Int /\ oldPos \in Int /\ sbase \in Int /\ in \in {"no", "struct", "sub"}
  /\ \A n \in DOMAIN structs : structs[n] \in [end : Int, size : Int, object : Int]
  /\ in = "sub" => sparent \in DOMAIN structs

TableInv ==
  /\ errored \in BOOLEAN
  /\ \A n \in DOMAIN labels : labels[n].at \in 1 .. MaxLen
  /\ found \in [1 .. MaxLen -> 0 .. MaxLen]

Types == ReadInv /\ ScopeInv /\ SpaceInv /\ StructInv /\ TableInv

LEMMA TypesTypeOK == Types => TypeOK
<1>. SUFFICES ASSUME Types PROVE TypeOK OBVIOUS
<1>. USE DEF Types
<1>1. pass \in 0 .. 3 /\ at \in 1 .. MaxLen + 1
  <2>1. Len(patch) \in Nat BY DEF ReadInv
  <2>. QED BY <2>1, NamesAssumption DEF ReadInv
<1>2. errored \in BOOLEAN BY DEF TableInv
<1>3. pos \in Int /\ in \in {"no", "struct", "sub"} BY DEF StructInv
<1>4. depth \in 0 .. Len(slots) /\ nested \in BOOLEAN BY DEF SpaceInv
<1>5. \A d \in Depths : plus[d] \in Nat /\ minus[d] \in Nat /\ mplus[d] \in Nat /\ mminus[d] \in Nat
  BY DEF ScopeInv, Counts
<1>6. called \in 0 .. really /\ Len(sub) <= MaxDots + 1 /\ Len(msub) <= MaxDots + 1 BY DEF ScopeInv
<1>7. ToSet(found) \subseteq 0 .. MaxLen BY DEF TableInv, ToSet
<1>. QED BY <1>1, <1>2, <1>3, <1>4, <1>5, <1>6, <1>7 DEF TypeOK

LEMMA ZeroCounts == Zero \in Counts
BY DEF Zero, Counts

LEMMA TypesInit == Init => Types
<1>. SUFFICES ASSUME Init PROVE Types OBVIOUS
<1>1. ReadInv BY NamesAssumption DEF Init, ReadInv
<1>2. ScopeInv BY EmptyList, ZeroCounts, NamesAssumption DEF Init, ScopeInv
<1>3. SpaceInv
  <2>1. slots = <<>> /\ list = <<>> /\ depth = 0 /\ nested = FALSE BY DEF Init
  <2>2. IsList(slots) /\ IsList(list) /\ Len(slots) = 0 BY <2>1, EmptyList
  <2>3. nested \in BOOLEAN BY <2>1, Zenon
  <2>. QED BY <2>1, <2>2, <2>3 DEF SpaceInv
<1>4. StructInv BY DEF Init, StructInv, Empty
<1>5. TableInv
  <2>1. errored = FALSE /\ found = [i \in 1 .. MaxLen |-> 0] BY DEF Init
  <2>2. DOMAIN labels = {} BY DEF Init, Empty
  <2>3. errored \in BOOLEAN BY <2>1, Zenon
  <2>. QED BY <2>1, <2>2, <2>3, NamesAssumption DEF TableInv
<1>. QED BY <1>1, <1>2, <1>3, <1>4, <1>5 DEF Types

\* A command that is read is one of the set, and stands at its place in the patch.
LEMMA ReadsCommand ==
  ASSUME ReadInv, NEW c, Reads(c)
  PROVE  /\ ReadInv' /\ IsCommand(c) /\ at \in 1 .. MaxLen /\ at' = at + 1
         /\ patch'[at] = c /\ at <= Len(patch') /\ Len(patch') \in Nat /\ pass \in 0 .. 2
         /\ \A i \in 1 .. Len(patch) : patch'[i] = patch[i]
<1>1. PICK n \in Nat : n = Len(patch) BY DEF ReadInv
<1>2. commands.len \in 0 .. MaxLen /\ MaxLen \in Nat /\ \A x \in commands.of : IsCommand(x)
  BY NamesAssumption DEF ReadInv
<1>3. CASE pass = 0
  <2>1. at = n + 1 /\ at <= commands.len /\ c \in commands.of /\ patch' = Append(patch, c)
    BY <1>1, <1>3 DEF Reads, ReadInv
  <2>2. patch' \in Seq(commands.of) /\ Len(patch') = n + 1 /\ patch'[n + 1] = c
        /\ \A i \in 1 .. n : patch'[i] = patch[i]
    BY <1>1, <2>1, AppendProperties DEF ReadInv
  <2>3. at \in 1 .. MaxLen /\ n + 1 <= MaxLen BY <1>2, <2>1
  <2>4. at' = n + 1 + 1 /\ commands' = commands /\ pass' = pass BY <2>1 DEF Reads
  <2>5. ReadInv' BY <1>1, <1>3, <2>2, <2>3, <2>4 DEF ReadInv
  <2>. QED BY <1>1, <1>2, <1>3, <2>1, <2>2, <2>3, <2>4, <2>5
<1>4. CASE pass # 0
  <2>1. pass < 3 /\ at <= n /\ c = patch[at] /\ patch' = patch BY <1>1, <1>4 DEF Reads
  <2>2. at \in 1 .. n /\ n <= MaxLen /\ pass \in 0 .. 3 BY <1>1, <2>1 DEF ReadInv
  <2>3. at' = at + 1 /\ commands' = commands /\ pass' = pass /\ at + 1 \in 1 .. n + 1
    BY <2>2 DEF Reads
  <2>4. c \in commands.of BY <1>1, <2>1, <2>2 DEF ReadInv
  <2>5. ReadInv' BY <1>1, <1>4, <2>1, <2>2, <2>3 DEF ReadInv
  <2>. QED BY <1>1, <1>2, <2>1, <2>2, <2>3, <2>4, <2>5
<1>. QED BY <1>3, <1>4

\* The parents of sublabels are a list, no longer than the dots a label may have.
LEMMA AdoptsType ==
  ASSUME ScopeInv, NEW l, IsCommand(l), l.c = "label", Adopts(l, LabelName(l))
  PROVE  /\ IsList(sub') /\ Len(sub') <= MaxDots + 1
         /\ IsList(msub') /\ Len(msub') <= MaxDots + 1
<1>. DEFINE p == Parents(l.m)
<1>1. IsList(p) /\ Len(p) <= MaxDots + 1 BY DEF ScopeInv, Parents
<1>2. l.dots \in 0 .. MaxDots /\ MaxDots \in Nat BY NamesAssumption DEF IsCommand
<1>3. CASE LabelName(l) = <<>> \/ InStruct \/ ~l.define BY <1>3 DEF Adopts, ScopeInv
<1>4. CASE ~(LabelName(l) = <<>> \/ InStruct \/ ~l.define)
  <2>1. Len(p) \in Nat BY <1>1 DEF IsList
  <2>2. ~(Len(p) < l.dots) \/ l.dots = 0 BY <1>4 DEF LabelName
  <2>3. l.dots \in Nat /\ l.dots <= Len(p) /\ l.dots + 1 <= MaxDots + 1 BY <1>2, <2>1, <2>2
  <2>. DEFINE a == Adopted(l, LabelName(l))
  <2>4. IsList(a) /\ Len(a) <= MaxDots + 1 BY <1>1, <2>3, AdoptList DEF Adopted
  <2>5. (sub' = a /\ msub' = msub) \/ (sub' = sub /\ msub' = a) BY <1>4 DEF Adopts
  <2>. HIDE DEF a
  <2>. QED BY <2>4, <2>5 DEF ScopeInv
<1>. QED BY <1>3, <1>4

LEMMA CountUp == ASSUME NEW f \in Counts, NEW d \in Depths PROVE [f EXCEPT ![d] = @ + 1] \in Counts
BY DEF Counts

ScopeVars == <<sub, plus, minus, called, really, frames, msub, mplus, mminus>>
LEMMA ScopeUnchanged == ASSUME ScopeInv, UNCHANGED ScopeVars PROVE ScopeInv'
<1>1. \A f : Kept(f) => Kept(f)' BY DEF Kept, ScopeVars
<1>. QED BY <1>1 DEF ScopeInv, ScopeVars

LEMMA ScopeNext == Types /\ Next => ScopeInv'
<1>. SUFFICES ASSUME Types, Next PROVE ScopeInv' OBVIOUS
<1>. USE DEF Types
<1>r. \A c : Reads(c) => IsCommand(c) BY ReadsCommand
<1>1. CASE Label
  <2>1. PICK l : /\ l.c = "label" /\ Reads(l) /\ (Adopts(l, LabelName(l)) \/ UNCHANGED <<sub, msub>>)
                 /\ UNCHANGED <<plus, minus, called, really, frames, mplus, mminus>>
    BY <1>1, Zenon DEF Label
  <2>2. IsList(sub') /\ Len(sub') <= MaxDots + 1 /\ IsList(msub') /\ Len(msub') <= MaxDots + 1
    BY <1>r, <2>1, AdoptsType DEF ScopeInv
  <2>3. \A f : Kept(f) => Kept(f)' BY <2>1 DEF Kept
  <2>. QED BY <2>1, <2>2, <2>3 DEF ScopeInv
<1>2. CASE Plus
  <2>1. PICK r : /\ r.c = "plus" /\ Reads(r)
                 /\ plus' = plus \/ plus' = [plus EXCEPT ![r.d] = @ + 1]
                 /\ mplus' = mplus \/ mplus' = [mplus EXCEPT ![r.d] = @ + 1]
                 /\ UNCHANGED <<sub, minus, called, really, frames, msub, mminus>>
    BY <1>2 DEF Plus
  <2>2. r.d \in Depths BY <1>r, <2>1 DEF IsCommand
  <2>3. plus' \in Counts /\ mplus' \in Counts BY <2>1, <2>2, CountUp DEF ScopeInv
  <2>4. \A f : Kept(f) => Kept(f)' BY <2>1 DEF Kept
  <2>. QED BY <2>1, <2>3, <2>4 DEF ScopeInv
<1>3. CASE Minus
  <2>1. PICK r : /\ r.c = "minus" /\ Reads(r)
                 /\ minus' = minus \/ minus' = [minus EXCEPT ![r.d] = @ + 1]
                 /\ mminus' = mminus \/ mminus' = [mminus EXCEPT ![r.d] = @ + 1]
                 /\ UNCHANGED <<sub, plus, called, really, frames, msub, mplus>>
    BY <1>3 DEF Minus
  <2>2. r.d \in Depths BY <1>r, <2>1 DEF IsCommand
  <2>3. minus' \in Counts /\ mminus' \in Counts BY <2>1, <2>2, CountUp DEF ScopeInv
  <2>4. \A f : Kept(f) => Kept(f)' BY <2>1 DEF Kept
  <2>. QED BY <2>1, <2>3, <2>4 DEF ScopeInv
<1>4. CASE UseLabel \/ UseRelative \/ Namespace \/ NamespaceOff \/ NamespaceNested
           \/ Pushns \/ Pullns \/ Struct \/ EndStruct \/ Skip
  <2>1. UNCHANGED ScopeVars
    BY <1>4 DEF UseLabel, UseRelative, Namespace, NamespaceOff, NamespaceNested,
                Pushns, Pullns, Struct, EndStruct, Skip, scope, macro, ScopeVars
  <2>. QED BY <2>1, ScopeUnchanged
<1>5. CASE CallMacro
  <2>. DEFINE f == [called |-> called, sub |-> msub, plus |-> mplus, minus |-> mminus]
  <2>1. /\ frames' = Append(frames, f) /\ called' = really /\ really' = really + 1
        /\ msub' = <<>> /\ mplus' = Zero /\ mminus' = Zero /\ UNCHANGED <<sub, plus, minus>>
    BY <1>5 DEF CallMacro, Number, scope
  <2>2. really \in Nat /\ called \in 0 .. really BY DEF ScopeInv
  <2>3. \A g : Kept(g) => Kept(g)'
    <3>. SUFFICES ASSUME NEW g, Kept(g) PROVE Kept(g)' OBVIOUS
    <3>1. g.called \in 0 .. really' BY <2>1, <2>2 DEF Kept
    <3>. QED BY <3>1 DEF Kept
  <2>4. Kept(f) BY <2>2 DEF Kept, ScopeInv
  <2>5. Len(frames) \in Nat /\ IsList(frames') /\ Len(frames') = Len(frames) + 1
        /\ (\A i \in 1 .. Len(frames) : frames'[i] = frames[i]) /\ frames'[Len(frames) + 1] = f
    BY <2>1, AppendList DEF ScopeInv
  <2>. HIDE DEF f
  <2>6. ASSUME NEW i \in 1 .. Len(frames') PROVE Kept(frames[i])'
    <3>1. i \in 1 .. Len(frames) \/ i = Len(frames) + 1 BY <2>5
    <3>. QED BY <2>3, <2>4, <2>5, <3>1 DEF ScopeInv
  <2>7. really' \in Nat /\ called' \in 0 .. really' BY <2>1, <2>2
  <2>8. IsList(msub') /\ Len(msub') <= MaxDots + 1 BY <2>1, EmptyList, NamesAssumption
  <2>. QED BY <2>1, <2>5, <2>6, <2>7, <2>8, ZeroCounts DEF ScopeInv
<1>6. CASE EndMacro
  <2>1. /\ frames # <<>> /\ frames' = Front(frames)
        /\ called' = Last(frames).called /\ msub' = Last(frames).sub
        /\ mplus' = Last(frames).plus /\ mminus' = Last(frames).minus
        /\ UNCHANGED <<sub, plus, minus, really>>
    BY <1>6 DEF EndMacro, scope, InMacro
  <2>2. /\ IsList(frames') /\ Len(frames') = Len(frames) - 1 /\ Len(frames) \in Nat /\ Len(frames) > 0
        /\ \A i \in 1 .. Len(frames) - 1 : frames'[i] = frames[i]
    BY <2>1, FrontList DEF ScopeInv
  <2>3. Kept(frames[Len(frames)]) BY <2>2 DEF ScopeInv
  <2>4. Kept(Last(frames)) BY <2>3 DEF Last
  <2>5. \A f : Kept(f) => Kept(f)' BY <2>1 DEF Kept
  <2>6. \A i \in 1 .. Len(frames') : Kept(frames[i])' BY <2>2, <2>5 DEF ScopeInv
  <2>. QED BY <2>1, <2>2, <2>4, <2>6 DEF ScopeInv, Kept
<1>7. CASE FinishPass
  <2>1. /\ sub' = <<>> /\ plus' = Zero /\ minus' = Zero /\ called' = 0 /\ really' = 0 /\ frames' = <<>>
        /\ msub' = <<>> /\ mplus' = Zero /\ mminus' = Zero
    BY <1>7 DEF FinishPass, Fresh, CountsLeft
  <2>. QED BY <2>1, EmptyList, ZeroCounts, NamesAssumption DEF ScopeInv
<1>. QED BY <1>1, <1>2, <1>3, <1>4, <1>5, <1>6, <1>7 DEF Next

SpaceVars == <<ns, list, nested, slots, depth>>
LEMMA SpaceNext == Types /\ Next => SpaceInv'
<1>. SUFFICES ASSUME Types, Next PROVE SpaceInv' OBVIOUS
<1>. USE DEF Types
<1>1. CASE Label \/ Plus \/ Minus \/ UseLabel \/ UseRelative \/ CallMacro \/ EndMacro \/ Struct
           \/ EndStruct \/ Skip
  <2>1. UNCHANGED SpaceVars
    BY <1>1 DEF Label, Plus, Minus, UseLabel, UseRelative, CallMacro, EndMacro, Struct, EndStruct,
                Skip, namespace, SpaceVars
  <2>. QED BY <2>1 DEF SpaceInv, SpaceVars
<1>2. CASE Namespace \/ NamespaceOff
  <2>1. UNCHANGED <<nested, slots, depth>> BY <1>2 DEF Namespace, NamespaceOff
  <2>2. \/ \E x : list' = Append(list, x) \/ list' = Append(<<>>, x)
        \/ list # <<>> /\ list' = Front(list)
        \/ list' = <<>>
    BY <1>2 DEF Namespace, NamespaceOff
  <2>3. IsList(list')
    <3>1. IsList(list) BY DEF SpaceInv
    <3>2. \A x : IsList(Append(list, x)) /\ IsList(Append(<<>>, x)) BY <3>1, EmptyList, AppendList
    <3>3. list # <<>> => IsList(Front(list)) BY <3>1, FrontList
    <3>. QED BY <2>2, <3>2, <3>3, EmptyList, Zenon
  <2>. QED BY <2>1, <2>3 DEF SpaceInv
<1>3. CASE NamespaceNested
  <2>1. PICK c : c.c = "namespace_nested" /\ Reads(c) /\ nested' = c.on /\ UNCHANGED <<list, slots, depth>>
    BY <1>3 DEF NamespaceNested
  <2>2. nested' \in BOOLEAN BY <2>1, ReadsCommand DEF IsCommand
  <2>. QED BY <2>1, <2>2 DEF SpaceInv
<1>4. CASE Pushns
  <2>. DEFINE k == depth + 1
              left == IF k \in DOMAIN slots THEN slots[k].list ELSE <<>>
              slot == [ns |-> ns, list |-> left \o list, nested |-> nested]
  <2>1. /\ nested' = FALSE /\ depth' = k /\ list' = <<>>
        /\ slots' = IF k \in DOMAIN slots THEN [slots EXCEPT ![k] = slot] ELSE Append(slots, slot)
    BY <1>4 DEF Pushns
  <2>3. PICK n \in Nat : n = Len(slots) /\ DOMAIN slots = 1 .. n BY DEF SpaceInv, IsList
  <2>4. depth \in 0 .. n BY <2>3 DEF SpaceInv
  <2>2. nested' \in BOOLEAN /\ Pushed(slot)
    <3>1. IsList(left) BY <2>3, EmptyList DEF SpaceInv, Pushed
    <3>. HIDE DEF left
    <3>2. IsList(left \o list) BY <3>1, ConcatList DEF SpaceInv
    <3>3. nested' \in BOOLEAN BY <2>1, Zenon
    <3>. QED BY <3>2, <3>3 DEF SpaceInv, Pushed
  <2>. HIDE DEF slot
  <2>5. CASE k \in DOMAIN slots
    <3>1. slots' = [slots EXCEPT ![k] = slot] BY <2>1, <2>5
    <3>2. slots \in Seq(ToSet(slots) \cup {slot})
      <4>1. slots \in [1 .. n -> ToSet(slots)] BY <2>3 DEF SpaceInv, IsList
      <4>2. slots \in [1 .. n -> ToSet(slots) \cup {slot}] BY <4>1
      <4>. QED BY <4>2, SeqDef
    <3>3. slots' \in Seq(ToSet(slots) \cup {slot}) /\ Len(slots') = n BY <2>3, <2>5, <3>1, <3>2
    <3>4. IsList(slots') BY <3>3, IsListOf
    <3>5. \A i \in 1 .. n : Pushed(slots'[i])
      <4>1. \A i \in 1 .. n : slots'[i] = IF i = k THEN slot ELSE slots[i] BY <2>3, <3>1
      <4>. QED BY <4>1, <2>2, <2>3 DEF SpaceInv
    <3>6. k \in 0 .. n BY <2>3, <2>5
    <3>. QED BY <2>1, <2>2, <3>3, <3>4, <3>5, <3>6, EmptyList DEF SpaceInv, Pushed
  <2>6. CASE k \notin DOMAIN slots
    <3>1. slots' = Append(slots, slot) BY <2>1, <2>6
    <3>2. /\ IsList(slots') /\ Len(slots') = n + 1 /\ slots'[n + 1] = slot
          /\ \A i \in 1 .. n : slots'[i] = slots[i]
      BY <2>3, <3>1, AppendList DEF SpaceInv
    <3>3. k \in 0 .. n + 1 BY <2>3, <2>4
    <3>4. \A i \in 1 .. n + 1 : i \in 1 .. n \/ i = n + 1 BY <2>3
    <3>5. \A i \in 1 .. n + 1 : Pushed(slots'[i]) BY <2>2, <2>3, <3>2, <3>4 DEF SpaceInv
    <3>. QED BY <2>1, <2>2, <2>3, <3>2, <3>3, <3>5, EmptyList DEF SpaceInv, Pushed
  <2>. QED BY <2>5, <2>6
<1>5. CASE Pullns
  <2>1. CASE depth = 0
    <3>1. UNCHANGED <<nested, list, slots, depth>> BY <1>5, <2>1 DEF Pullns, namespace
    <3>. QED BY <3>1 DEF SpaceInv
  <2>2. CASE depth # 0
    <3>1. /\ nested' = slots[depth].nested /\ list' = slots[depth].list
          /\ depth' = depth - 1 /\ slots' = slots
      BY <1>5, <2>2 DEF Pullns, ListBack
    <3>2. Len(slots) \in Nat BY DEF SpaceInv, IsList
    <3>3. depth \in 1 .. Len(slots) /\ depth - 1 \in 0 .. Len(slots) BY <2>2, <3>2 DEF SpaceInv
    <3>. QED BY <3>1, <3>3 DEF SpaceInv, Pushed
  <2>. QED BY <2>1, <2>2
<1>6. CASE FinishPass
  <2>1. nested' = FALSE /\ slots' = <<>> /\ list' = <<>> /\ depth' = 0 BY <1>6 DEF FinishPass, Fresh
  <2>2. nested' \in BOOLEAN BY <2>1, Zenon
  <2>3. IsList(slots') /\ IsList(list') /\ Len(slots') = 0 BY <2>1, EmptyList
  <2>. QED BY <2>1, <2>2, <2>3 DEF SpaceInv
<1>. QED BY <1>1, <1>2, <1>3, <1>4, <1>5, <1>6 DEF Next

\* A table with one more entry, or with another value for one.
LEMMA WithType ==
  \A f, x, y : /\ DOMAIN With(f, x, y) = DOMAIN f \cup {x} /\ With(f, x, y)[x] = y
               /\ \A z \in DOMAIN f : z # x => With(f, x, y)[z] = f[z]
BY DEF With
LEMMA WithIn ==
  ASSUME NEW S, NEW f, \A n \in DOMAIN f : f[n] \in S, NEW x, NEW y \in S
  PROVE  \A n \in DOMAIN With(f, x, y) : With(f, x, y)[n] \in S
BY DEF With

StructSize == [end : Int, size : Int, object : Int]
LEMMA StructNext == Types /\ Next => StructInv'
<1>. SUFFICES ASSUME Types, Next PROVE StructInv' OBVIOUS
<1>. USE DEF Types
<1>1. CASE Label \/ Plus \/ Minus \/ UseLabel \/ UseRelative \/ CallMacro \/ EndMacro \/ Namespace
           \/ NamespaceOff \/ NamespaceNested \/ Pushns \/ Pullns
  <2>1. UNCHANGED <<pos, in, sparent, sbase, structs, oldPos>>
    BY <1>1 DEF Label, Plus, Minus, UseLabel, UseRelative, CallMacro, EndMacro, Namespace,
                NamespaceOff, NamespaceNested, Pushns, Pullns, struct
  <2>. QED BY <2>1 DEF StructInv
<1>2. CASE Skip
  <2>1. pos' = pos + 1 /\ UNCHANGED <<in, sparent, sbase, structs, oldPos>> BY <1>2 DEF Skip, struct
  <2>. QED BY <2>1 DEF StructInv
<1>3. CASE FinishPass
  <2>1. pos' = 0 /\ in' = "no" /\ UNCHANGED <<sbase, structs, oldPos>> BY <1>3 DEF FinishPass, Fresh
  <2>. QED BY <2>1 DEF StructInv
<1>4. CASE Struct
  <2>1. PICK c : /\ c.c = "struct" /\ Reads(c) /\ structs' = structs
                 /\ \/ UNCHANGED <<pos, in, sparent, sbase, oldPos>>
                    \/ oldPos' = pos /\ UNCHANGED <<pos, in, sparent, sbase>>
                    \/ /\ oldPos' = pos /\ ~(c.base = "extends" /\ c.parent \notin DOMAIN structs)
                       /\ in' = IF c.base = "extends" THEN "sub" ELSE "struct"
                       /\ pos' = CASE c.base = "here" -> pos
                                   [] c.base = "address" -> c.address
                                   [] c.base = "extends" -> structs[c.parent].end
                       /\ sbase' = pos'
                       /\ sparent' = IF c.base = "extends" THEN c.parent ELSE sparent
    BY <1>4 DEF Struct
  <2>2. c.base \in {"here", "address", "extends"} /\ (c.base = "address" => c.address \in Int)
    BY <2>1, ReadsCommand DEF IsCommand
  <2>3. CASE UNCHANGED <<pos, in, sparent, sbase, oldPos>> BY <2>1, <2>3 DEF StructInv
  <2>4. CASE oldPos' = pos /\ UNCHANGED <<pos, in, sparent, sbase>> BY <2>1, <2>4 DEF StructInv
  <2>5. CASE /\ oldPos' = pos /\ ~(c.base = "extends" /\ c.parent \notin DOMAIN structs)
             /\ in' = IF c.base = "extends" THEN "sub" ELSE "struct"
             /\ pos' = CASE c.base = "here" -> pos
                         [] c.base = "address" -> c.address
                         [] c.base = "extends" -> structs[c.parent].end
             /\ sbase' = pos'
             /\ sparent' = IF c.base = "extends" THEN c.parent ELSE sparent
    <3>1. CASE c.base = "here" BY <2>1, <2>5, <3>1 DEF StructInv
    <3>2. CASE c.base = "address" BY <2>1, <2>2, <2>5, <3>2 DEF StructInv
    <3>3. CASE c.base = "extends" BY <2>1, <2>5, <3>3 DEF StructInv
    <3>. QED BY <2>2, <3>1, <3>2, <3>3
  <2>. QED BY <2>1, <2>3, <2>4, <2>5
<1>5. CASE EndStruct
  <2>1. UNCHANGED <<sparent, sbase, oldPos>> BY <1>5 DEF EndStruct
  <2>2. CASE ~InStruct
    <3>1. UNCHANGED <<pos, in, structs>> BY <1>5, <2>2 DEF EndStruct
    <3>. QED BY <2>1, <3>1 DEF StructInv
  <2>3. CASE InStruct
    <3>. DEFINE size == pos - sbase
                this == [end |-> pos, size |-> size, object |-> size]
                more == [structs[sparent] EXCEPT !.object = Larger(@, structs[sparent].size + size)]
    <3>1. /\ in' = "no" /\ pos' = oldPos
          /\ structs' = IF in = "struct" THEN With(structs, sname, this)
                        ELSE With(With(structs, sparent \o <<".">> \o sname, this), sparent, more)
      BY <1>5, <2>3 DEF EndStruct, PosBack
    <3>2. this \in StructSize BY DEF StructInv, StructSize
    <3>3. \A n \in DOMAIN structs : structs[n] \in StructSize BY DEF StructInv, StructSize
    <3>4. CASE in = "struct"
      <4>1. \A n \in DOMAIN structs' : structs'[n] \in StructSize
        BY <3>1, <3>2, <3>3, <3>4, WithIn
      <4>. QED BY <2>1, <3>1, <4>1 DEF StructInv, StructSize
    <3>5. CASE in # "struct"
      <4>1. structs[sparent] \in StructSize BY <2>3, <3>3, <3>5 DEF InStruct, StructInv
      <4>2. more \in StructSize BY <4>1 DEF StructInv, StructSize, Larger
      <4>. DEFINE w == With(structs, sparent \o <<".">> \o sname, this)
      <4>3. \A n \in DOMAIN w : w[n] \in StructSize BY <3>2, <3>3, WithIn
      <4>4. structs' = With(w, sparent, more) BY <3>1, <3>5
      <4>. HIDE DEF w, more
      <4>5. \A n \in DOMAIN structs' : structs'[n] \in StructSize
        BY <4>2, <4>3, <4>4, WithIn
      <4>. QED BY <2>1, <3>1, <4>5 DEF StructInv, StructSize
    <3>. QED BY <3>4, <3>5
  <2>. QED BY <2>2, <2>3
<1>. QED BY <1>1, <1>2, <1>3, <1>4, <1>5 DEF Next

LabelsInv == \A n \in DOMAIN labels : labels[n].at \in 1 .. MaxLen
\* A label that is defined is one of the command that is read.
LEMMA LabelAdded ==
  ASSUME LabelsInv, at \in 1 .. MaxLen, NEW name, NEW p,
         labels' = With(labels, name, [pos |-> p, at |-> at])
  PROVE  LabelsInv'
<1>. DEFINE y == [pos |-> p, at |-> at]  Places == { labels[n] : n \in DOMAIN labels } \cup {y}
<1>1. \A z \in Places : z.at \in 1 .. MaxLen BY DEF LabelsInv
<1>2. \A n \in DOMAIN labels : labels[n] \in Places OBVIOUS
<1>3. y \in Places OBVIOUS
<1>. HIDE DEF y, Places
<1>4. labels' = With(labels, name, y) BY DEF y
<1>5. \A n \in DOMAIN labels' : labels'[n] \in Places BY <1>2, <1>3, <1>4, WithIn
<1>. QED BY <1>1, <1>5 DEF LabelsInv
LEMMA SetLabelTable ==
  ASSUME TableInv, at \in 1 .. MaxLen, NEW name, SetLabel(name)
  PROVE  errored' \in BOOLEAN /\ LabelsInv'
<1>1. errored \in BOOLEAN /\ LabelsInv BY DEF TableInv, LabelsInv
<1>2. errored' \in BOOLEAN
  <2>1. errored' = TRUE \/ errored' = errored
        \/ errored' = (errored \/ name \notin DOMAIN labels \/ labels[name].pos # pos)
    BY Zenon DEF SetLabel, Error
  <2>. QED BY <1>1, <2>1, Zenon
<1>3. labels' = labels \/ labels' = With(labels, name, [pos |-> pos, at |-> at])
  BY Zenon DEF SetLabel
<1>. QED BY <1>1, <1>2, <1>3, LabelAdded DEF LabelsInv

LEMMA FindsTable ==
  ASSUME TableInv, at \in 1 .. MaxLen, NEW name, Finds(name)
  PROVE  errored' \in BOOLEAN /\ found' \in [1 .. MaxLen -> 0 .. MaxLen]
<1>1. errored \in BOOLEAN BY DEF TableInv
<1>2. errored' \in BOOLEAN
  <2>1. errored' = TRUE \/ errored' = errored \/ errored' = (errored \/ pass > 0)
    BY Zenon DEF Finds, Error
  <2>. QED BY <1>1, <2>1, Zenon
<1>3. found' = found \/ (Looked(name) \in DOMAIN labels
                         /\ found' = [found EXCEPT ![at] = labels[Looked(name)].at])
  BY DEF Finds
<1>4. MaxLen \in Nat BY NamesAssumption
<1>. QED BY <1>2, <1>3, <1>4 DEF TableInv

LEMMA TableNext == Types /\ Next => TableInv'
<1>. SUFFICES ASSUME Types, Next PROVE TableInv' OBVIOUS
<1>. USE DEF Types
<1>r. \A c : Reads(c) => at \in 1 .. MaxLen BY ReadsCommand
<1>0. errored \in BOOLEAN /\ LabelsInv /\ found \in [1 .. MaxLen -> 0 .. MaxLen]
  BY DEF TableInv, LabelsInv
<1>q. TableInv' <=> errored' \in BOOLEAN /\ LabelsInv' /\ found' \in [1 .. MaxLen -> 0 .. MaxLen]
  BY DEF TableInv, LabelsInv
<1>1. CASE Label
  <2>1. PICK l : Reads(l) /\ found' = found
                 /\ \/ Error /\ labels' = labels
                    \/ \E name : SetLabel(name)
    BY <1>1, Zenon DEF Label
  <2>2. CASE Error /\ labels' = labels
    <3>1. errored' \in BOOLEAN BY <2>2, Zenon DEF Error
    <3>. QED BY <1>0, <1>q, <2>1, <2>2, <3>1 DEF LabelsInv
  <2>3. CASE \E name : SetLabel(name) BY <1>0, <1>q, <1>r, <2>1, <2>3, SetLabelTable
  <2>. QED BY <2>1, <2>2, <2>3
<1>2. CASE Plus \/ Minus
  <2>1. PICK l : Reads(l) /\ found' = found
                 /\ \/ Error /\ labels' = labels
                    \/ \E name : SetLabel(name)
    BY <1>2, Zenon DEF Plus, Minus
  <2>2. CASE Error /\ labels' = labels
    <3>1. errored' \in BOOLEAN BY <2>2, Zenon DEF Error
    <3>. QED BY <1>0, <1>q, <2>1, <2>2, <3>1 DEF LabelsInv
  <2>3. CASE \E name : SetLabel(name) BY <1>0, <1>q, <1>r, <2>1, <2>3, SetLabelTable
  <2>. QED BY <2>1, <2>2, <2>3
<1>3. CASE UseLabel \/ UseRelative
  <2>1. PICK u, name : Reads(u) /\ Finds(name) /\ labels' = labels
    BY <1>3, Zenon DEF UseLabel, UseRelative
  <2>. QED BY <1>0, <1>q, <1>r, <2>1, FindsTable DEF LabelsInv
<1>4. CASE Namespace \/ NamespaceOff \/ NamespaceNested \/ Pushns \/ CallMacro \/ EndMacro \/ Skip
  <2>1. UNCHANGED <<errored, labels, found>>
    BY <1>4 DEF Namespace, NamespaceOff, NamespaceNested, Pushns, CallMacro, EndMacro, Skip
  <2>. QED BY <2>1 DEF TableInv
<1>5. CASE Pullns
  <2>1. UNCHANGED <<labels, found>> /\ (Error \/ errored' = errored) BY <1>5 DEF Pullns
  <2>2. errored' \in BOOLEAN BY <1>0, <2>1, Zenon DEF Error
  <2>. QED BY <1>0, <1>q, <2>1, <2>2 DEF LabelsInv
<1>6. CASE EndStruct
  <2>1. UNCHANGED <<labels, found>> /\ (Error \/ errored' = errored) BY <1>6 DEF EndStruct
  <2>2. errored' \in BOOLEAN BY <1>0, <2>1, Zenon DEF Error
  <2>. QED BY <1>0, <1>q, <2>1, <2>2 DEF LabelsInv
<1>7. CASE Struct
  <2>1. PICK c : Reads(c) /\ found' = found
                 /\ (labels' = labels
                     \/ \E name : labels' = With(labels, name, [pos |-> pos', at |-> at]))
    BY <1>7, Zenon DEF Struct
  <2>2. errored' \in BOOLEAN
    <3>1. \/ errored' = TRUE \/ errored' = errored
          \/ \E name : errored' = (errored \/ name \notin DOMAIN labels \/ labels[name].pos # pos')
      BY <1>7, Zenon DEF Struct, Error
    <3>. QED BY <1>0, <3>1, Zenon
  <2>3. LabelsInv'
    <3>1. CASE labels' = labels BY <1>0, <2>1, <3>1 DEF LabelsInv
    <3>2. CASE labels' # labels
      <4>1. PICK name : labels' = With(labels, name, [pos |-> pos', at |-> at]) BY <2>1, <3>2
      <4>. QED BY <1>0, <1>r, <2>1, <4>1, LabelAdded
    <3>. QED BY <3>1, <3>2
  <2>. QED BY <1>0, <1>q, <2>1, <2>2, <2>3
<1>8. CASE FinishPass
  <2>1. UNCHANGED <<labels, found>> /\ errored' = (errored \/ InStruct \/ (pass = 0 /\ depth > 0))
    BY <1>8 DEF FinishPass
  <2>2. errored' \in BOOLEAN BY <1>0, <2>1, Zenon
  <2>. QED BY <1>0, <1>q, <2>1, <2>2 DEF LabelsInv
<1>. QED BY <1>1, <1>2, <1>3, <1>4, <1>5, <1>6, <1>7, <1>8 DEF Next

LEMMA ReadNext == Types /\ Next => ReadInv'
<1>. SUFFICES ASSUME Types, Next PROVE ReadInv' OBVIOUS
<1>. USE DEF Types
<1>1. CASE FinishPass
  <2>1. commands' = commands /\ patch' = patch /\ at' = 1 /\ pass' = pass + 1 /\ pass < 3
    BY <1>1 DEF FinishPass, Fresh
  <2>2. Len(patch) \in Nat /\ pass \in 0 .. 3 BY DEF ReadInv
  <2>. QED BY <2>1, <2>2 DEF ReadInv
<1>2. CASE ~FinishPass
  <2>1. \E c : Reads(c)
    BY <1>2, Zenon DEF Next, Label, Plus, Minus, UseLabel, UseRelative, Namespace, NamespaceOff,
                NamespaceNested, Pushns, Pullns, CallMacro, EndMacro, Struct, EndStruct, Skip
  <2>. QED BY <2>1, ReadsCommand
<1>. QED BY <1>1, <1>2

LEMMA TypesStep == Types /\ [Next]_vars => Types'
<1>. SUFFICES ASSUME Types, [Next]_vars PROVE Types' OBVIOUS
<1>1. CASE Next BY <1>1, ReadNext, ScopeNext, SpaceNext, StructNext, TableNext DEF Types
<1>2. CASE UNCHANGED vars
  <2>1. ReadInv' BY <1>2 DEF Types, ReadInv, vars
  <2>2. ScopeInv' BY <1>2, ScopeUnchanged DEF Types, ScopeVars, vars, scope, macro
  <2>3. SpaceInv' BY <1>2 DEF Types, SpaceInv, vars, namespace
  <2>4. StructInv' BY <1>2 DEF Types, StructInv, vars, struct
  <2>5. TableInv' BY <1>2 DEF Types, TableInv, vars, history
  <2>. QED BY <2>1, <2>2, <2>3, <2>4, <2>5 DEF Types
<1>. QED BY <1>1, <1>2

\* Every state of every patch is well typed: the counts of labels, the number of a call, the
\* parents of sublabels and the slots of pushed namespaces stay what they are.
THEOREM TypeCorrect == Spec => []TypeOK
<1>1. Spec => []Types BY TypesInit, TypesStep, PTL DEF Spec
<1>. QED BY <1>1, TypesTypeOK, PTL

-----------------------------------------------------------------------------
(***************************************************************************)
(* Namespaces and their lists                                              *)
(***************************************************************************)

\* No pushns of this pass comes after a pullns.
Calm == \A i \in 1 .. at - 1 : patch[i].c = "pushns" => ~Before(i, "pullns")
Pulled == Before(at, "pullns")

\* Until a pullns has been read, all the slots there are hold what is pushed: the one that
\* a pushns takes is new.  What is pushed is the namespace of its list as well.
ListInv ==
  Calm => /\ ns = list /\ \A k \in 1 .. depth : slots[k].ns = slots[k].list
          /\ ~Pulled => Len(slots) = depth

LEMMA ListInit == Init => ListInv
<1>. SUFFICES ASSUME Init PROVE ListInv OBVIOUS
<1>1. ns = list /\ depth = 0 /\ slots = <<>> BY DEF Init
<1>2. Len(slots) = 0 BY <1>1, EmptyList
<1>. QED BY <1>1, <1>2 DEF ListInv

\* What has been read stays: the commands before the one that is read are those there were.
LEMMA CalmBefore ==
  ASSUME ReadInv, NEW c, Reads(c)
  PROVE  /\ Calm' => Calm /\ (c.c = "pushns" => ~Pulled)
         /\ ~Pulled' => ~Pulled /\ c.c # "pullns"
<1>1. PICK n \in Nat : n = Len(patch) /\ at \in 1 .. n + 1 BY DEF ReadInv
<1>2. at' = at + 1 /\ patch'[at] = c /\ \A i \in 1 .. n : patch'[i] = patch[i]
  BY <1>1, ReadsCommand
<1>3. \A i \in 1 .. at - 1 : patch'[i] = patch[i] BY <1>1, <1>2
<1>4. \A i \in 1 .. at' - 1 : i \in 1 .. at - 1 \/ i = at BY <1>1, <1>2
<1>5. \A i \in 1 .. at - 1 : i \in 1 .. at' - 1 BY <1>1, <1>2
<1>6. at \in 1 .. at' - 1 BY <1>1, <1>2
<1>7. \A i \in 1 .. at : \A d : (\E j \in 1 .. i - 1 : patch'[j].c = d) <=> Before(i, d)
  <2>. SUFFICES ASSUME NEW i \in 1 .. at, NEW d
       PROVE  (\E j \in 1 .. i - 1 : patch'[j].c = d) <=> Before(i, d)
    OBVIOUS
  <2>1. \A j \in 1 .. i - 1 : j \in 1 .. at - 1 BY <1>1
  <2>. QED BY <1>3, <2>1 DEF Before
<1>8. Calm' => Calm /\ (c.c = "pushns" => ~Pulled)
  <2>1. \A i \in 1 .. at - 1 : i \in 1 .. at BY <1>1
  <2>2. at \in 1 .. at BY <1>1
  <2>3. Calm' => \A i \in 1 .. at' - 1 :
                   patch'[i].c = "pushns" => ~(\E j \in 1 .. i - 1 : patch'[j].c = "pullns")
    BY DEF Calm, Before
  <2>4. Calm' => Calm BY <1>3, <1>5, <1>7, <2>1, <2>3 DEF Calm
  <2>5. Calm' => (c.c = "pushns" => ~Pulled) BY <1>2, <1>6, <1>7, <2>2, <2>3 DEF Pulled
  <2>. QED BY <2>4, <2>5
<1>9. ~Pulled' => ~Pulled /\ c.c # "pullns"
  BY <1>2, <1>3, <1>5, <1>6 DEF Pulled, Before
<1>. QED BY <1>8, <1>9

LEMMA ListNext == Types /\ ListInv /\ Next => ListInv'
<1>. SUFFICES ASSUME Types, ListInv, Next PROVE ListInv' OBVIOUS
<1>t. ReadInv /\ SpaceInv BY DEF Types
<1>1. CASE FinishPass
  <2>1. ns' = list' /\ depth' = 0 /\ slots' = <<>> BY <1>1 DEF FinishPass, Fresh
  <2>2. Len(slots') = 0 BY <2>1, EmptyList
  <2>. QED BY <2>1, <2>2 DEF ListInv
<1>2. CASE Label \/ Plus \/ Minus \/ UseLabel \/ UseRelative \/ CallMacro \/ EndMacro \/ Struct
           \/ EndStruct \/ Skip
  <2>1. PICK c : Reads(c)
    BY <1>2, ZenonT(60) DEF Label, Plus, Minus, UseLabel, UseRelative, CallMacro, EndMacro, Struct,
                EndStruct, Skip
  <2>2. UNCHANGED SpaceVars
    BY <1>2 DEF Label, Plus, Minus, UseLabel, UseRelative, CallMacro, EndMacro, Struct, EndStruct,
                Skip, namespace, SpaceVars
  <2>. QED BY <1>t, <2>1, <2>2, CalmBefore DEF ListInv, SpaceVars
<1>3. CASE Namespace \/ NamespaceOff
  <2>1. PICK c : Reads(c) /\ ns' = list' /\ UNCHANGED <<slots, depth>>
    BY <1>3 DEF Namespace, NamespaceOff
  <2>. QED BY <1>t, <2>1, CalmBefore DEF ListInv
<1>4. CASE NamespaceNested
  <2>1. PICK c : Reads(c) /\ ns' = list /\ UNCHANGED <<list, slots, depth>>
    BY <1>4 DEF NamespaceNested
  <2>. QED BY <1>t, <2>1, CalmBefore DEF ListInv
<1>5. CASE Pushns
  <2>. DEFINE k == depth + 1
              left == IF k \in DOMAIN slots THEN slots[k].list ELSE <<>>
              slot == [ns |-> ns, list |-> left \o list, nested |-> nested]
  <2>1. PICK c : /\ c.c = "pushns" /\ Reads(c) /\ ns' = <<>> /\ list' = <<>> /\ depth' = k
                 /\ slots' = IF k \in DOMAIN slots THEN [slots EXCEPT ![k] = slot]
                                                   ELSE Append(slots, slot)
    BY <1>5 DEF Pushns
  <2>2. SUFFICES ASSUME Calm'
        PROVE  (\A i \in 1 .. depth' : slots'[i].ns = slots'[i].list) /\ Len(slots') = depth'
    BY <2>1 DEF ListInv
  <2>3. PICK n \in Nat : n = Len(slots) /\ DOMAIN slots = 1 .. n BY <1>t DEF SpaceInv, IsList
  <2>4. n = depth /\ ns = list /\ \A i \in 1 .. n : slots[i].ns = slots[i].list
    BY <1>t, <2>1, <2>2, <2>3, CalmBefore DEF ListInv
  <2>5. k \notin DOMAIN slots BY <2>3, <2>4
  <2>6. left \o list = list BY <1>t, <2>5, EmptyList, ConcatList DEF SpaceInv
  <2>. HIDE DEF left
  <2>7. slot.ns = slot.list BY <2>4, <2>6
  <2>. HIDE DEF slot
  <2>8. slots' = Append(slots, slot) BY <2>1, <2>5
  <2>9. Len(slots') = n + 1 /\ slots'[n + 1] = slot /\ \A i \in 1 .. n : slots'[i] = slots[i]
    BY <1>t, <2>3, <2>8, AppendList DEF SpaceInv
  <2>10. depth' = n + 1 BY <2>1, <2>4
  <2>11. \A i \in 1 .. n + 1 : i \in 1 .. n \/ i = n + 1 BY <2>3
  <2>. QED BY <2>4, <2>7, <2>9, <2>10, <2>11
<1>6. CASE Pullns
  <2>1. PICK c : c.c = "pullns" /\ Reads(c) BY <1>6 DEF Pullns
  <2>2. (Calm' => Calm) /\ Pulled' BY <1>t, <2>1, CalmBefore
  <2>3. CASE depth = 0
    <3>1. UNCHANGED SpaceVars BY <1>6, <2>3 DEF Pullns, namespace, SpaceVars
    <3>. QED BY <2>2, <3>1 DEF ListInv, SpaceVars
  <2>4. CASE depth # 0
    <3>1. /\ ns' = slots[depth].ns /\ list' = slots[depth].list
          /\ depth' = depth - 1 /\ slots' = slots
      BY <1>6, <2>4 DEF Pullns, ListBack
    <3>2. Len(slots) \in Nat BY <1>t DEF SpaceInv, IsList
    <3>3. depth \in 1 .. depth /\ \A i \in 1 .. depth - 1 : i \in 1 .. depth
      BY <1>t, <2>4, <3>2 DEF SpaceInv
    <3>. QED BY <2>2, <3>1, <3>3 DEF ListInv
  <2>. QED BY <2>3, <2>4
<1>. QED BY <1>1, <1>2, <1>3, <1>4, <1>5, <1>6 DEF Next

\* As long as no pushns follows a pullns in the pass, the namespace is the one its list
\* says, through any pushes, pulls and changes.
THEOREM NamespaceCorrect == Spec => []NamespaceIsItsList
<1>1. Types /\ ListInv /\ [Next]_vars => ListInv'
  <2>. SUFFICES ASSUME Types, ListInv, [Next]_vars PROVE ListInv' OBVIOUS
  <2>1. CASE Next BY <2>1, ListNext
  <2>2. CASE UNCHANGED vars BY <2>2 DEF ListInv, Calm, Pulled, Before, vars, namespace
  <2>. QED BY <2>1, <2>2
<1>2. ListInv => NamespaceIsItsList BY DEF ListInv, Calm, NamespaceIsItsList
<1>3. Spec => [](Types /\ ListInv)
  BY TypesInit, TypesStep, ListInit, <1>1, PTL DEF Spec
<1>. QED BY <1>2, <1>3, PTL

-----------------------------------------------------------------------------
(***************************************************************************)
(* The same names in every pass                                            *)
(***************************************************************************)

\* All that the name of a label depends on, but for labels themselves: what initstuff starts
\* anew.  The names of a struct and its parent count in a struct only.
Space == [ns |-> ns, list |-> list, nested |-> nested, slots |-> slots, depth |-> depth]
Scope == [sub |-> sub, plus |-> plus, minus |-> minus]
Macro == [called |-> called, really |-> really, frames |-> frames,
          sub |-> msub, plus |-> mplus, minus |-> mminus]
Open  == [in |-> in, name |-> IF InStruct THEN sname ELSE <<>>,
          parent |-> IF in = "sub" THEN sparent ELSE <<>>]
Reading == [space |-> Space, scope |-> Scope, macro |-> Macro, open |-> Open]

NotOpen == [in |-> "no", name |-> <<>>, parent |-> <<>>]
Start ==
  [space |-> [ns |-> <<>>, list |-> <<>>, nested |-> FALSE, slots |-> <<>>, depth |-> 0],
   scope |-> [sub |-> <<>>, plus |-> Zero, minus |-> Zero],
   macro |-> [called |-> 0, really |-> 0, frames |-> <<>>, sub |-> <<>>, plus |-> Zero, minus |-> Zero],
   open |-> NotOpen]

\* What a command without an error does to each of them, and the name it defines, or <<>>.
TagOf(s, m) == IF m THEN <<":macro", Digit[s.macro.called + 1]>> ELSE <<>>
ParentsOf(s, m) == IF m THEN s.macro.sub ELSE s.scope.sub
LabelNameOf(s, l) ==
  IF l.m /\ s.macro.frames = <<>> THEN <<>>
  ELSE IF s.open.in # "no"
  THEN IF l.dots # 1 THEN <<>>
       ELSE TagOf(s, l.m) \o (IF s.open.in = "sub" THEN s.open.parent \o <<".">> ELSE <<>>)
              \o s.open.name \o <<".">> \o l.path
  ELSE IF l.dots = 0 THEN TagOf(s, l.m) \o l.path
  ELSE IF Len(ParentsOf(s, l.m)) < l.dots THEN <<>>
  ELSE ParentsOf(s, l.m)[l.dots] \o l.path
Counted(a, d) == [a EXCEPT ![d] = @ + 1]

SpaceAfter(a, c) ==
  CASE c.c = "namespace" ->
         LET l == Append(IF a.nested THEN a.list ELSE <<>>, c.name)
         IN  [ns |-> l, list |-> l, nested |-> a.nested, slots |-> a.slots, depth |-> a.depth]
    [] c.c = "namespace_off" ->
         LET l == IF a.nested /\ a.list # <<>> THEN Front(a.list) ELSE <<>>
         IN  [ns |-> l, list |-> l, nested |-> a.nested, slots |-> a.slots, depth |-> a.depth]
    [] c.c = "namespace_nested" ->
         [ns |-> a.list, list |-> a.list, nested |-> c.on, slots |-> a.slots, depth |-> a.depth]
    [] c.c = "pushns" ->
         LET k == a.depth + 1
             left == IF k \in DOMAIN a.slots THEN a.slots[k].list ELSE <<>>
             slot == [ns |-> a.ns, list |-> left \o a.list, nested |-> a.nested]
         IN  [ns |-> <<>>, list |-> <<>>, nested |-> FALSE, depth |-> k,
              slots |-> IF k \in DOMAIN a.slots THEN [a.slots EXCEPT ![k] = slot]
                                                ELSE Append(a.slots, slot)]
    [] c.c = "pullns" ->
         LET slot == a.slots[a.depth]
         IN  [ns |-> slot.ns, list |-> slot.list, nested |-> slot.nested, slots |-> a.slots,
              depth |-> a.depth - 1]
    [] OTHER -> a

Adopting(s, c) == c.c = "label" /\ s.open.in = "no" /\ c.define
SubAfter(s, c) == Append(SubSeq(ParentsOf(s, c.m), 1, c.dots), LabelNameOf(s, c))
ScopeAfter(s, c) ==
  LET a == s.scope
  IN  [sub   |-> IF Adopting(s, c) /\ ~c.m THEN SubAfter(s, c) ELSE a.sub,
       plus  |-> IF c.c = "plus" /\ ~c.m THEN Counted(a.plus, c.d) ELSE a.plus,
       minus |-> IF c.c = "minus" /\ ~c.m THEN Counted(a.minus, c.d) ELSE a.minus]
MacroAfter(s, c) ==
  LET a == s.macro
      f == Last(a.frames)
  IN  CASE c.c = "call" ->
             [called |-> a.really, really |-> a.really + 1, sub |-> <<>>, plus |-> Zero, minus |-> Zero,
              frames |-> Append(a.frames, [called |-> a.called, sub |-> a.sub, plus |-> a.plus,
                                           minus |-> a.minus])]
        [] c.c = "end_call" ->
             [called |-> f.called, really |-> a.really, sub |-> f.sub, plus |-> f.plus,
              minus |-> f.minus, frames |-> Front(a.frames)]
        [] OTHER ->
             [called |-> a.called, really |-> a.really, frames |-> a.frames,
              sub   |-> IF Adopting(s, c) /\ c.m THEN SubAfter(s, c) ELSE a.sub,
              plus  |-> IF c.c = "plus" /\ c.m THEN Counted(a.plus, c.d) ELSE a.plus,
              minus |-> IF c.c = "minus" /\ c.m THEN Counted(a.minus, c.d) ELSE a.minus]
OpenAfter(a, c) ==
  CASE c.c = "struct" ->
         [in |-> IF c.base = "extends" THEN "sub" ELSE "struct", name |-> c.name,
          parent |-> IF c.base = "extends" THEN c.parent ELSE <<>>]
    [] c.c = "endstruct" -> NotOpen
    [] OTHER -> a
After(s, c) == [space |-> SpaceAfter(s.space, c), scope |-> ScopeAfter(s, c),
                macro |-> MacroAfter(s, c), open |-> OpenAfter(s.open, c)]
NameOf(s, c) ==
  CASE c.c = "label" -> IF c.global THEN LabelNameOf(s, c) ELSE s.space.ns \o LabelNameOf(s, c)
    [] c.c = "plus" ->
         Append(TagOf(s, c.m) \o <<":pos", Digit[c.d]>>,
                Digit[(IF c.m THEN s.macro.plus[c.d] ELSE s.scope.plus[c.d]) + 1])
    [] c.c = "minus" ->
         Append(TagOf(s, c.m) \o <<":neg", Digit[c.d]>>,
                Digit[1 + IF c.m THEN Counted(s.macro.minus, c.d)[c.d]
                                 ELSE Counted(s.scope.minus, c.d)[c.d]])
    [] c.c = "struct" -> IF c.base = "extends" THEN c.parent \o <<".">> \o c.name ELSE c.name
    [] OTHER -> <<>>

\* A command that is read without an error goes from one reading to the next.
Goes(c) ==
  /\ Reads(c) /\ ~errored
  /\ Reading' = After(Reading, c)
  /\ \/ names' = [names EXCEPT ![at] = NameOf(Reading, c)]
     \/ NameOf(Reading, c) = <<>> /\ names' = names

LEMMA ReadingIs ==
  Reading.space = Space /\ Reading.scope = Scope /\ Reading.macro = Macro /\ Reading.open = Open
BY DEF Reading
LEMMA AfterIs ==
  \A c : Reading' = After(Reading, c) <=>
           /\ Space' = SpaceAfter(Space, c) /\ Scope' = ScopeAfter(Reading, c)
           /\ Macro' = MacroAfter(Reading, c) /\ Open' = OpenAfter(Open, c)
BY ReadingIs DEF After, Reading

\* The label a command names is the one its reading says.
LEMMA LabelNameIs ==
  ASSUME NEW l
  PROVE  /\ LabelName(l) = LabelNameOf(Reading, l) /\ Parents(l.m) = ParentsOf(Reading, l.m)
         /\ Tag(l.m) = TagOf(Reading, l.m)
<1>1. Parents(l.m) = ParentsOf(Reading, l.m)
  BY ReadingIs DEF Parents, ParentsOf, Scope, Macro
<1>2. Tag(l.m) = TagOf(Reading, l.m) BY ReadingIs DEF Tag, TagOf, MacroTag, Macro
<1>3. TagOf(Reading, l.m) = IF l.m THEN MacroTag ELSE <<>> BY ReadingIs DEF TagOf, MacroTag, Macro
<1>4. /\ (Reading.macro.frames = <<>>) <=> ~InMacro
      /\ Reading.open.in = in /\ (Reading.open.in # "no" <=> InStruct)
      /\ InStruct => Reading.open.name = sname
      /\ in = "sub" => Reading.open.parent = sparent
  BY ReadingIs DEF Macro, Open, InMacro, InStruct
<1>5. LabelName(l) = LabelNameOf(Reading, l)
  <2>1. CASE l.m /\ ~InMacro BY <1>4, <2>1 DEF LabelName, LabelNameOf
  <2>2. CASE ~(l.m /\ ~InMacro) /\ InStruct
    BY <1>3, <1>4, <2>2 DEF LabelName, LabelNameOf
  <2>3. CASE ~(l.m /\ ~InMacro) /\ ~InStruct
    BY <1>1, <1>3, <1>4, <2>3 DEF LabelName, LabelNameOf
  <2>. QED BY <2>1, <2>2, <2>3
<1>. QED BY <1>1, <1>2, <1>5

LEMMA GoesIf ==
  ASSUME NEW c, Reads(c), ~errored,
         Space' = SpaceAfter(Space, c), Scope' = ScopeAfter(Reading, c),
         Macro' = MacroAfter(Reading, c), Open' = OpenAfter(Open, c),
         \/ names' = [names EXCEPT ![at] = NameOf(Reading, c)]
         \/ NameOf(Reading, c) = <<>> /\ names' = names
  PROVE  \E d : Goes(d)
<1>2. Reading' = After(Reading, c) BY AfterIs
<1>3. Goes(c) BY <1>2, Zenon DEF Goes
<1>. QED BY <1>3

OfSpace(c) == c.c \in {"namespace", "namespace_off", "namespace_nested", "pushns", "pullns"}
LEMMA GoesNamespace ==
  ASSUME Types, Namespace \/ NamespaceOff \/ NamespaceNested \/ Pushns \/ Pullns, ~errored'
  PROVE  \E c : Goes(c)
<1>0. errored \in BOOLEAN BY DEF Types, TableInv
<1>1. UNCHANGED <<sub, plus, minus, called, really, frames, msub, mplus, mminus, in, sname, sparent, names>>
  BY DEF Namespace, NamespaceOff, NamespaceNested, Pushns, Pullns, scope, macro, struct
<1>2. \A d : OfSpace(d) =>
        /\ Scope' = ScopeAfter(Reading, d) /\ Macro' = MacroAfter(Reading, d)
        /\ Open' = OpenAfter(Open, d) /\ NameOf(Reading, d) = <<>> /\ names' = names
  BY <1>1, ReadingIs, ZenonT(60) DEF ScopeAfter, MacroAfter, OpenAfter, NameOf, OfSpace, Adopting, Scope, Macro, Open, InStruct
<1>3. ASSUME Namespace PROVE \E c : Goes(c)
  <2>1. PICK c : /\ c.c = "namespace" /\ Reads(c) /\ ~errored
                 /\ list' = Append(IF nested THEN list ELSE <<>>, c.name) /\ ns' = list'
                 /\ UNCHANGED <<nested, slots, depth>>
    BY <1>3 DEF Namespace
  <2>2. Space' = SpaceAfter(Space, c) BY <2>1 DEF Space, SpaceAfter
  <2>5. OfSpace(c) BY <2>1 DEF OfSpace
  <2>4. /\ Scope' = ScopeAfter(Reading, c) /\ Macro' = MacroAfter(Reading, c)
        /\ Open' = OpenAfter(Open, c) /\ NameOf(Reading, c) = <<>> /\ names' = names
    BY <1>2, <2>5
  <2>. QED BY <2>1, <2>2, <2>4, GoesIf, Zenon
<1>4. ASSUME NamespaceOff PROVE \E c : Goes(c)
  <2>1. PICK c : /\ c.c = "namespace_off" /\ Reads(c) /\ errored' = errored
                 /\ list' = (IF nested /\ list # <<>> THEN Front(list) ELSE <<>>) /\ ns' = list'
                 /\ UNCHANGED <<nested, slots, depth>>
    BY <1>4 DEF NamespaceOff
  <2>3. ~errored BY <2>1, Zenon
  <2>2. Space' = SpaceAfter(Space, c) BY <2>1 DEF Space, SpaceAfter
  <2>5. OfSpace(c) BY <2>1 DEF OfSpace
  <2>4. /\ Scope' = ScopeAfter(Reading, c) /\ Macro' = MacroAfter(Reading, c)
        /\ Open' = OpenAfter(Open, c) /\ NameOf(Reading, c) = <<>> /\ names' = names
    BY <1>2, <2>5
  <2>. QED BY <2>1, <2>2, <2>3, <2>4, GoesIf, Zenon
<1>5. ASSUME NamespaceNested PROVE \E c : Goes(c)
  <2>1. PICK c : /\ c.c = "namespace_nested" /\ Reads(c) /\ errored' = errored
                 /\ nested' = c.on /\ ns' = list /\ UNCHANGED <<list, slots, depth>>
    BY <1>5 DEF NamespaceNested
  <2>3. ~errored BY <2>1, Zenon
  <2>2. Space' = SpaceAfter(Space, c) BY <2>1 DEF Space, SpaceAfter
  <2>5. OfSpace(c) BY <2>1 DEF OfSpace
  <2>4. /\ Scope' = ScopeAfter(Reading, c) /\ Macro' = MacroAfter(Reading, c)
        /\ Open' = OpenAfter(Open, c) /\ NameOf(Reading, c) = <<>> /\ names' = names
    BY <1>2, <2>5
  <2>. QED BY <2>1, <2>2, <2>3, <2>4, GoesIf, Zenon
<1>6. ASSUME Pushns PROVE \E c : Goes(c)
  <2>. DEFINE k == depth + 1
              left == IF k \in DOMAIN slots THEN slots[k].list ELSE <<>>
              slot == [ns |-> ns, list |-> left \o list, nested |-> nested]
  <2>1. PICK c : /\ c.c = "pushns" /\ Reads(c) /\ ~errored
                 /\ ns' = <<>> /\ list' = <<>> /\ nested' = FALSE /\ depth' = k
                 /\ slots' = IF k \in DOMAIN slots THEN [slots EXCEPT ![k] = slot]
                                                   ELSE Append(slots, slot)
    BY <1>6 DEF Pushns
  <2>2. Space' = SpaceAfter(Space, c) BY <2>1 DEF Space, SpaceAfter
  <2>5. OfSpace(c) BY <2>1 DEF OfSpace
  <2>4. /\ Scope' = ScopeAfter(Reading, c) /\ Macro' = MacroAfter(Reading, c)
        /\ Open' = OpenAfter(Open, c) /\ NameOf(Reading, c) = <<>> /\ names' = names
    BY <1>2, <2>5
  <2>. QED BY <2>1, <2>2, <2>4, GoesIf, Zenon
<1>7. ASSUME Pullns PROVE \E c : Goes(c)
  <2>1. PICK c : /\ c.c = "pullns" /\ Reads(c)
                 /\ IF depth = 0 THEN errored' = TRUE
                    ELSE /\ ns' = slots[depth].ns /\ nested' = slots[depth].nested
                         /\ list' = slots[depth].list
                         /\ depth' = depth - 1 /\ slots' = slots /\ ~errored
    BY <1>7 DEF Pullns, Error, ListBack
  <2>2. Space' = SpaceAfter(Space, c) BY <2>1 DEF Space, SpaceAfter
  <2>3. ~errored BY <2>1
  <2>5. OfSpace(c) BY <2>1 DEF OfSpace
  <2>4. /\ Scope' = ScopeAfter(Reading, c) /\ Macro' = MacroAfter(Reading, c)
        /\ Open' = OpenAfter(Open, c) /\ NameOf(Reading, c) = <<>> /\ names' = names
    BY <1>2, <2>5
  <2>. QED BY <2>1, <2>2, <2>3, <2>4, GoesIf, Zenon
<1>. QED BY <1>3, <1>4, <1>5, <1>6, <1>7

\* A label that is set without an error has a name, and it is the command's.
LEMMA SetLabelNames ==
  ASSUME NEW name, SetLabel(name), ~errored'
  PROVE  ~errored /\ name # <<>> /\ names' = [names EXCEPT ![at] = name]
<1>1. name # <<>> BY Zenon DEF SetLabel, Error
<1>2. names' = [names EXCEPT ![at] = name] BY <1>1, Zenon DEF SetLabel
<1>3. ~errored
  <2>1. errored' = TRUE \/ errored' = errored
        \/ errored' = (errored \/ name \notin DOMAIN labels \/ labels[name].pos # pos)
    BY Zenon DEF SetLabel, Error
  <2>. QED BY <2>1, Zenon
<1>. QED BY <1>1, <1>2, <1>3

LEMMA GoesLabel == ASSUME Label, ~errored' PROVE \E c : Goes(c)
<1>1. PICK l : /\ l.c = "label" /\ Reads(l)
               /\ IF l.global /\ (InStruct \/ l.m) THEN Error
                  ELSE /\ SetLabel(IF LabelName(l) = <<>> \/ l.global THEN LabelName(l)
                                   ELSE ns \o LabelName(l))
                       /\ Adopts(l, LabelName(l))
               /\ UNCHANGED <<ns, list, nested, slots, depth, plus, minus, called, really, frames,
                              mplus, mminus, in, sname, sparent>>
  BY Zenon DEF Label, namespace, struct
<1>. DEFINE n == LabelName(l)  name == IF n = <<>> \/ l.global THEN n ELSE ns \o n
<1>2. SetLabel(name) /\ Adopts(l, n) BY <1>1, Zenon DEF Error
<1>. HIDE DEF n
<1>3. ~errored /\ name # <<>> /\ names' = [names EXCEPT ![at] = name] BY <1>2, SetLabelNames, Zenon
<1>4. n # <<>> BY <1>3
<1>5. n = LabelNameOf(Reading, l) /\ Parents(l.m) = ParentsOf(Reading, l.m) BY LabelNameIs DEF n
<1>6. Reading.space.ns = ns /\ Reading.open.in = in BY ReadingIs DEF Space, Open
<1>7. name = NameOf(Reading, l) BY <1>1, <1>4, <1>5, <1>6 DEF NameOf
<1>8. Space' = SpaceAfter(Space, l) BY <1>1 DEF Space, SpaceAfter
<1>9. Open' = OpenAfter(Open, l) BY <1>1 DEF Open, OpenAfter, InStruct
<1>10. Adopting(Reading, l) <=> ~InStruct /\ l.define BY <1>1, <1>6 DEF Adopting, InStruct
<1>11. SubAfter(Reading, l) = Adopted(l, n) BY <1>5 DEF SubAfter, Adopted
<1>12. /\ sub' = IF Adopting(Reading, l) /\ ~l.m THEN SubAfter(Reading, l) ELSE sub
       /\ msub' = IF Adopting(Reading, l) /\ l.m THEN SubAfter(Reading, l) ELSE msub
  BY <1>2, <1>4, <1>10, <1>11 DEF Adopts
<1>13. Scope' = ScopeAfter(Reading, l) BY <1>1, <1>12, ReadingIs DEF Scope, ScopeAfter
<1>14. Macro' = MacroAfter(Reading, l) BY <1>1, <1>12, ReadingIs DEF Macro, MacroAfter
<1>. QED BY <1>1, <1>3, <1>7, <1>8, <1>9, <1>13, <1>14, GoesIf

LEMMA GoesSign == ASSUME Types, Plus \/ Minus, ~errored' PROVE \E c : Goes(c)
<1>1. ASSUME Plus PROVE \E c : Goes(c)
  <2>1. PICK r : /\ r.c = "plus" /\ Reads(r)
                 /\ IF r.m /\ ~InMacro THEN Error
                    ELSE /\ SetLabel(NewPlus(PlusName(r), IF r.m THEN mplus[r.d] ELSE plus[r.d]))
                         /\ plus'  = IF r.m THEN plus ELSE [plus EXCEPT ![r.d] = @ + 1]
                         /\ mplus' = IF r.m THEN [mplus EXCEPT ![r.d] = @ + 1] ELSE mplus
                 /\ UNCHANGED <<ns, list, nested, slots, depth, sub, minus, called, really, frames,
                                msub, mminus, in, sname, sparent>>
    BY <1>1, Zenon DEF Plus, namespace, struct
  <2>. DEFINE name == NewPlus(PlusName(r), IF r.m THEN mplus[r.d] ELSE plus[r.d])
  <2>2. SetLabel(name) BY <2>1, Zenon DEF Error
  <2>3. ~errored /\ names' = [names EXCEPT ![at] = name] BY <2>2, SetLabelNames, Zenon
  <2>4. name = NameOf(Reading, r)
    BY <2>1, LabelNameIs, ReadingIs DEF NameOf, NewPlus, PlusName, Scope, Macro
  <2>5. /\ plus'  = IF r.m THEN plus ELSE Counted(plus, r.d)
        /\ mplus' = IF r.m THEN Counted(mplus, r.d) ELSE mplus
    BY <2>1, Zenon DEF Error, Counted
  <2>6. Space' = SpaceAfter(Space, r) BY <2>1 DEF Space, SpaceAfter
  <2>7. Open' = OpenAfter(Open, r) BY <2>1 DEF Open, OpenAfter, InStruct
  <2>8. Scope' = ScopeAfter(Reading, r) BY <2>1, <2>5, ReadingIs DEF Scope, ScopeAfter, Adopting
  <2>9. Macro' = MacroAfter(Reading, r) BY <2>1, <2>5, ReadingIs DEF Macro, MacroAfter, Adopting
  <2>. QED BY <2>1, <2>3, <2>4, <2>6, <2>7, <2>8, <2>9, GoesIf
<1>2. ASSUME Minus PROVE \E c : Goes(c)
  <2>1. PICK r : /\ r.c = "minus" /\ Reads(r)
                 /\ IF r.m /\ ~InMacro THEN Error
                    ELSE /\ SetLabel(Append(MinusName(r),
                                            Digit[1 + IF r.m THEN mminus'[r.d] ELSE minus'[r.d]]))
                         /\ minus'  = IF r.m THEN minus ELSE [minus EXCEPT ![r.d] = @ + 1]
                         /\ mminus' = IF r.m THEN [mminus EXCEPT ![r.d] = @ + 1] ELSE mminus
                 /\ UNCHANGED <<ns, list, nested, slots, depth, sub, plus, called, really, frames,
                                msub, mplus, in, sname, sparent>>
    BY <1>2, Zenon DEF Minus, namespace, struct
  <2>. DEFINE name == Append(MinusName(r), Digit[1 + IF r.m THEN mminus'[r.d] ELSE minus'[r.d]])
  <2>2. SetLabel(name) BY <2>1, Zenon DEF Error
  <2>3. ~errored /\ names' = [names EXCEPT ![at] = name] BY <2>2, SetLabelNames, Zenon
  <2>5. /\ minus'  = IF r.m THEN minus ELSE Counted(minus, r.d)
        /\ mminus' = IF r.m THEN Counted(mminus, r.d) ELSE mminus
    BY <2>1, Zenon DEF Error, Counted
  <2>4. name = NameOf(Reading, r)
    BY <2>1, <2>5, LabelNameIs, ReadingIs DEF NameOf, MinusName, Scope, Macro
  <2>6. Space' = SpaceAfter(Space, r) BY <2>1 DEF Space, SpaceAfter
  <2>7. Open' = OpenAfter(Open, r) BY <2>1 DEF Open, OpenAfter, InStruct
  <2>8. Scope' = ScopeAfter(Reading, r) BY <2>1, <2>5, ReadingIs DEF Scope, ScopeAfter, Adopting
  <2>9. Macro' = MacroAfter(Reading, r) BY <2>1, <2>5, ReadingIs DEF Macro, MacroAfter, Adopting
  <2>. QED BY <2>1, <2>3, <2>4, <2>6, <2>7, <2>8, <2>9, GoesIf
<1>. QED BY <1>1, <1>2

OfUse(c) == c.c \in {"use", "use_plus", "use_minus", "skip"}
LEMMA GoesUse == ASSUME UseLabel \/ UseRelative \/ Skip, ~errored' PROVE \E c : Goes(c)
<1>1. PICK c : OfUse(c) /\ Reads(c)
               /\ (errored' = errored \/ errored' = TRUE \/ errored' = (errored \/ pass > 0))
  BY Zenon DEF UseLabel, UseRelative, Skip, Finds, Error, OfUse
<1>2. UNCHANGED <<ns, list, nested, slots, depth, sub, plus, minus, called, really, frames,
                  msub, mplus, mminus, in, sname, sparent, names>>
  BY DEF UseLabel, UseRelative, Skip, namespace, scope, macro, struct
<1>3. ~errored BY <1>1, Zenon
<1>4. NameOf(Reading, c) = <<>> BY <1>1 DEF NameOf, OfUse
<1>5. Space' = SpaceAfter(Space, c) BY <1>1, <1>2 DEF Space, SpaceAfter, OfUse
<1>6. Open' = OpenAfter(Open, c) BY <1>1, <1>2 DEF Open, OpenAfter, InStruct, OfUse
<1>7. Scope' = ScopeAfter(Reading, c) BY <1>1, <1>2, ReadingIs DEF Scope, ScopeAfter, Adopting, OfUse
<1>8. Macro' = MacroAfter(Reading, c) BY <1>1, <1>2, ReadingIs DEF Macro, MacroAfter, Adopting, OfUse
<1>. QED BY <1>1, <1>2, <1>3, <1>4, <1>5, <1>6, <1>7, <1>8, GoesIf

LEMMA GoesMacro == ASSUME CallMacro \/ EndMacro, ~errored' PROVE \E c : Goes(c)
<1>0. /\ UNCHANGED <<ns, list, nested, slots, depth, sub, plus, minus, in, sname, sparent, names>>
      /\ errored' = errored
  BY DEF CallMacro, EndMacro, namespace, scope, struct
<1>1. ~errored BY <1>0, Zenon
<1>2. ASSUME CallMacro PROVE \E c : Goes(c)
  <2>1. PICK c : /\ c.c = "call" /\ Reads(c)
                 /\ frames' = Append(frames, [called |-> called, sub |-> msub, plus |-> mplus,
                                              minus |-> mminus])
                 /\ called' = really /\ really' = really + 1
                 /\ msub' = <<>> /\ mplus' = Zero /\ mminus' = Zero
    BY <1>2 DEF CallMacro, Number
  <2>2. NameOf(Reading, c) = <<>> BY <2>1 DEF NameOf
  <2>3. Space' = SpaceAfter(Space, c) BY <1>0, <2>1 DEF Space, SpaceAfter
  <2>4. Open' = OpenAfter(Open, c) BY <1>0, <2>1 DEF Open, OpenAfter, InStruct
  <2>5. Scope' = ScopeAfter(Reading, c) BY <1>0, <2>1, ReadingIs DEF Scope, ScopeAfter, Adopting
  <2>6. Macro' = MacroAfter(Reading, c)
    <3>1. /\ Macro.called = called /\ Macro.really = really /\ Macro.frames = frames
          /\ Macro.sub = msub /\ Macro.plus = mplus /\ Macro.minus = mminus
      BY DEF Macro
    <3>2. MacroAfter(Reading, c) =
            [called |-> really, really |-> really + 1, sub |-> <<>>, plus |-> Zero, minus |-> Zero,
             frames |-> Append(frames, [called |-> called, sub |-> msub, plus |-> mplus,
                                        minus |-> mminus])]
      BY <2>1, <3>1, ReadingIs DEF MacroAfter
    <3>. QED BY <2>1, <3>2, Zenon DEF Macro
  <2>. QED BY <1>0, <1>1, <2>1, <2>2, <2>3, <2>4, <2>5, <2>6, GoesIf
<1>3. ASSUME EndMacro PROVE \E c : Goes(c)
  <2>1. PICK c : /\ c.c = "end_call" /\ Reads(c) /\ frames' = Front(frames) /\ really' = really
                 /\ called' = Last(frames).called /\ msub' = Last(frames).sub
                 /\ mplus' = Last(frames).plus /\ mminus' = Last(frames).minus
    BY <1>3 DEF EndMacro
  <2>2. NameOf(Reading, c) = <<>> BY <2>1 DEF NameOf
  <2>3. Space' = SpaceAfter(Space, c) BY <1>0, <2>1 DEF Space, SpaceAfter
  <2>4. Open' = OpenAfter(Open, c) BY <1>0, <2>1 DEF Open, OpenAfter, InStruct
  <2>5. Scope' = ScopeAfter(Reading, c) BY <1>0, <2>1, ReadingIs DEF Scope, ScopeAfter, Adopting
  <2>6. Macro' = MacroAfter(Reading, c)
    <3>. DEFINE f == Last(frames)
    <3>1. Macro.really = really /\ Macro.frames = frames BY DEF Macro
    <3>2. MacroAfter(Reading, c) =
            [called |-> f.called, really |-> really, sub |-> f.sub, plus |-> f.plus,
             minus |-> f.minus, frames |-> Front(frames)]
      BY <2>1, <3>1, ReadingIs DEF MacroAfter
    <3>. HIDE DEF f
    <3>3. Macro' = [called |-> f.called, really |-> really, sub |-> f.sub, plus |-> f.plus,
                    minus |-> f.minus, frames |-> Front(frames)]
      BY <2>1 DEF Macro, f
    <3>. QED BY <3>2, <3>3
  <2>. QED BY <1>0, <1>1, <2>1, <2>2, <2>3, <2>4, <2>5, <2>6, GoesIf
<1>. QED BY <1>2, <1>3

LEMMA GoesStruct == ASSUME Struct \/ EndStruct, ~errored' PROVE \E c : Goes(c)
<1>0. UNCHANGED <<ns, list, nested, slots, depth, sub, plus, minus, called, really, frames,
                  msub, mplus, mminus>>
  BY DEF Struct, EndStruct, namespace, scope, macro
<1>1. ASSUME Struct PROVE \E c : Goes(c)
  <2>1. PICK c : /\ c.c = "struct" /\ Reads(c)
                 /\ \/ errored' = TRUE
                    \/ /\ in' = IF c.base = "extends" THEN "sub" ELSE "struct"
                       /\ sname' = c.name
                       /\ sparent' = IF c.base = "extends" THEN c.parent ELSE sparent
                       /\ names' = [names EXCEPT ![at] = IF c.base = "extends"
                                     THEN c.parent \o <<".">> \o c.name ELSE c.name]
                       /\ \/ errored' = errored
                          \/ \E name : errored' = (errored \/ name \notin DOMAIN labels
                                                     \/ labels[name].pos # pos')
    BY <1>1, Zenon DEF Struct, Error
  <2>2. ~errored BY <2>1, Zenon
  <2>3. /\ in' = IF c.base = "extends" THEN "sub" ELSE "struct"
        /\ sname' = c.name
        /\ sparent' = IF c.base = "extends" THEN c.parent ELSE sparent
        /\ names' = [names EXCEPT ![at] = IF c.base = "extends"
                      THEN c.parent \o <<".">> \o c.name ELSE c.name]
    BY <2>1, Zenon
  <2>4. names' = [names EXCEPT ![at] = NameOf(Reading, c)] BY <2>1, <2>3 DEF NameOf
  <2>5. Space' = SpaceAfter(Space, c) BY <1>0, <2>1 DEF Space, SpaceAfter
  <2>6. Open' = OpenAfter(Open, c) BY <2>1, <2>3 DEF Open, OpenAfter, InStruct
  <2>7. Scope' = ScopeAfter(Reading, c) BY <1>0, <2>1, ReadingIs DEF Scope, ScopeAfter, Adopting
  <2>8. Macro' = MacroAfter(Reading, c) BY <1>0, <2>1, ReadingIs DEF Macro, MacroAfter, Adopting
  <2>. QED BY <2>1, <2>2, <2>4, <2>5, <2>6, <2>7, <2>8, GoesIf
<1>2. ASSUME EndStruct PROVE \E c : Goes(c)
  <2>1. PICK c : /\ c.c = "endstruct" /\ Reads(c) /\ names' = names
                 /\ \/ errored' = TRUE
                    \/ in' = "no" /\ errored' = errored
    BY <1>2 DEF EndStruct, Error
  <2>4. in' = "no" /\ errored' = errored BY <2>1, Zenon
  <2>2. ~errored /\ in' = "no" BY <2>4, Zenon
  <2>3. NameOf(Reading, c) = <<>> BY <2>1 DEF NameOf
  <2>5. Space' = SpaceAfter(Space, c) BY <1>0, <2>1 DEF Space, SpaceAfter
  <2>6. Open' = OpenAfter(Open, c) BY <2>1, <2>2 DEF Open, OpenAfter, InStruct, NotOpen
  <2>7. Scope' = ScopeAfter(Reading, c) BY <1>0, <2>1, ReadingIs DEF Scope, ScopeAfter, Adopting
  <2>8. Macro' = MacroAfter(Reading, c) BY <1>0, <2>1, ReadingIs DEF Macro, MacroAfter, Adopting
  <2>. QED BY <2>1, <2>2, <2>3, <2>5, <2>6, <2>7, <2>8, GoesIf
<1>. QED BY <1>1, <1>2

\* Every step of a pass without an error goes from one reading to the next.
LEMMA NextGoes == ASSUME Types, Next, ~FinishPass, ~errored' PROVE \E c : Goes(c)
BY GoesNamespace, GoesLabel, GoesSign, GoesUse, GoesMacro, GoesStruct, Zenon DEF Next

\* A run of the patch: readings of which each command leads from one to the next.
IsRun(f) == f[1] = Start /\ \A i \in 1 .. Len(patch) : f[i + 1] = After(f[i], patch[i])
Named(f, table, n) ==
  \A i \in 1 .. MaxLen : table[i] = IF i <= n THEN NameOf(f[i], patch[i]) ELSE <<>>
\* While there is no error there is one such run, and all passes follow it.
SameInv ==
  /\ names = [i \in 1 .. MaxLen |-> names[i]]
  /\ ~errored =>
       \E f : /\ IsRun(f)
              /\ pass < 3 => f[at] = Reading /\ Named(f, names, at - 1)
              /\ pass > 0 => Named(f, first, Len(patch))
              /\ pass = 3 => Named(f, names, Len(patch))

LEMMA SameInit == Init => SameInv
<1>. SUFFICES ASSUME Init PROVE SameInv OBVIOUS
<1>. DEFINE f == [i \in {1} |-> Start]
<1>1. names = [i \in 1 .. MaxLen |-> <<>>] /\ pass = 0 /\ at = 1 /\ patch = <<>>
  BY DEF Init, NoNames
<1>2. Space = Start.space /\ Scope = Start.scope /\ Macro = Start.macro /\ Open = Start.open
  BY DEF Init, Start, Space, Scope, Macro, Open, NotOpen, InStruct
<1>3. Reading = Start BY <1>2, Zenon DEF Reading, Start
<1>4. IsRun(f) BY <1>1, EmptyList DEF IsRun
<1>5. f[at] = Reading BY <1>1, <1>3
<1>6. Named(f, names, at - 1)
  <2>. HIDE DEF f
  <2>. QED BY <1>1 DEF Named
<1>. HIDE DEF f
<1>7. \E g : IsRun(g) /\ g[at] = Reading /\ Named(g, names, at - 1) BY <1>4, <1>5, <1>6
<1>. QED BY <1>1, <1>7 DEF SameInv

\* A pass begins as the patch does.
LEMMA FreshStart == Fresh => Reading' = Start
<1>. SUFFICES ASSUME Fresh PROVE Reading' = Start OBVIOUS
<1>1. Space' = Start.space BY DEF Fresh, Start, Space
<1>2. Scope' = Start.scope BY DEF Fresh, Start, Scope, CountsLeft
<1>3. Macro' = Start.macro BY DEF Fresh, Start, Macro
<1>4. Open' = Start.open BY DEF Fresh, Start, Open, NotOpen, InStruct
<1>. QED BY <1>1, <1>2, <1>3, <1>4, Zenon DEF Reading, Start

LEMMA SameFinish == ASSUME Types, SameInv, FinishPass PROVE SameInv'
<1>1. PICK n \in Nat : n = Len(patch) BY DEF Types, ReadInv
<1>2. /\ errored' = (errored \/ InStruct \/ (pass = 0 /\ depth > 0))
      /\ pass' = pass + 1 /\ pass < 3 /\ at' = 1 /\ patch' = patch
      /\ first' = (IF pass = 0 THEN names ELSE first)
      /\ names' = (IF pass = 2 THEN names ELSE NoNames)
      /\ Reading' = Start
  BY FreshStart DEF FinishPass, Fresh
<1>3. at = n + 1 /\ pass \in 0 .. 2
  <2>1. at \in 1 .. n + 1 /\ pass \in 0 .. 3 /\ (pass = 0 => at = n + 1)
    BY <1>1 DEF Types, ReadInv
  <2>2. pass # 0 => at > n BY <1>1 DEF FinishPass
  <2>. QED BY <1>1, <1>2, <2>1, <2>2
<1>4. names' = [i \in 1 .. MaxLen |-> names'[i]] BY <1>2 DEF SameInv, NoNames
<1>5. ASSUME ~errored'
      PROVE  \E f : /\ IsRun(f)'
                    /\ pass' < 3 => f[at'] = Reading' /\ Named(f, names, at - 1)'
                    /\ pass' > 0 => Named(f, first, Len(patch))'
                    /\ pass' = 3 => Named(f, names, Len(patch))'
  <2>1. ~errored BY <1>2, <1>5, Zenon
  <2>2. PICK f : /\ IsRun(f) /\ Named(f, names, at - 1)
                 /\ pass > 0 => Named(f, first, Len(patch))
    BY <1>3, <2>1 DEF SameInv
  <2>3. IsRun(f)' BY <1>2, <2>2 DEF IsRun
  <2>4. at - 1 = n /\ at' - 1 = 0 BY <1>1, <1>2, <1>3
  <2>5. \A i \in 1 .. MaxLen : names[i] = IF i <= n THEN NameOf(f[i], patch[i]) ELSE <<>>
    BY <2>2, <2>4 DEF Named
  <2>6. Named(f, first, Len(patch))'
    <3>1. CASE pass = 0 BY <1>1, <1>2, <2>5, <3>1 DEF Named
    <3>2. CASE pass # 0
      <4>1. Named(f, first, Len(patch)) BY <1>3, <2>2, <3>2
      <4>. QED BY <1>2, <3>2, <4>1 DEF Named
    <3>. QED BY <3>1, <3>2
  <2>7. pass' = 3 => Named(f, names, Len(patch))'
    <3>. SUFFICES ASSUME pass' = 3 PROVE Named(f, names, Len(patch))' OBVIOUS
    <3>1. pass = 2 BY <1>2, <1>3
    <3>. QED BY <1>1, <1>2, <2>5, <3>1 DEF Named
  <2>8. pass' < 3 => f[at'] = Reading' /\ Named(f, names, at - 1)'
    <3>. SUFFICES ASSUME pass' < 3 PROVE f[at'] = Reading' /\ Named(f, names, at - 1)' OBVIOUS
    <3>1. names' = NoNames BY <1>2, <1>3
    <3>2. \A i \in 1 .. MaxLen : NoNames[i] = <<>> /\ ~(i <= 0) BY NamesAssumption DEF NoNames
    <3>3. Named(f, names, at - 1)' BY <2>4, <3>1, <3>2 DEF Named
    <3>4. f[1] = Start BY <2>2 DEF IsRun
    <3>. QED BY <1>2, <3>3, <3>4
  <2>. QED BY <2>3, <2>6, <2>7, <2>8
<1>. QED BY <1>4, <1>5 DEF SameInv

LEMMA SameGoes == ASSUME Types, SameInv, NEW c, Goes(c), first' = first PROVE SameInv'
<1>1. PICK n \in Nat : n = Len(patch) BY DEF Types, ReadInv
<1>2. /\ at \in 1 .. MaxLen /\ at' = at + 1 /\ pass' = pass /\ pass \in 0 .. 2 /\ patch'[at] = c
      /\ \A i \in 1 .. n : patch'[i] = patch[i]
  BY <1>1, ReadsCommand DEF Types, Goes, Reads
<1>3. PICK r : r = Reading' OBVIOUS
<1>4. r = After(Reading, c) BY <1>3 DEF Goes
<1>5. PICK f : /\ IsRun(f) /\ f[at] = Reading /\ Named(f, names, at - 1)
               /\ pass > 0 => Named(f, first, Len(patch))
  BY <1>2 DEF SameInv, Goes
<1>6. PICK a \in Nat : a = at /\ a \in 1 .. n + 1 BY <1>1 DEF Types, ReadInv
<1>7. \A i \in 1 .. MaxLen : names[i] = IF i <= a - 1 THEN NameOf(f[i], patch[i]) ELSE <<>>
  BY <1>5, <1>6 DEF Named
<1>8. /\ names' = [i \in 1 .. MaxLen |-> names'[i]]
      /\ \A i \in 1 .. MaxLen : names'[i] = IF i <= a - 1 THEN NameOf(f[i], patch[i])
                                            ELSE IF i = a THEN NameOf(f[a], c) ELSE <<>>
  <2>1. NameOf(f[a], c) = NameOf(Reading, c) BY <1>5, <1>6
  <2>2. names = [i \in 1 .. MaxLen |-> names[i]] BY DEF SameInv
  <2>3. CASE names' = [names EXCEPT ![at] = NameOf(Reading, c)]
    <3>1. \A i \in 1 .. MaxLen : names'[i] = IF i = a THEN NameOf(f[a], c) ELSE names[i]
      BY <1>6, <2>1, <2>2, <2>3
    <3>2. ~(a <= a - 1) OBVIOUS
    <3>. QED BY <1>7, <2>2, <2>3, <3>1, <3>2
  <2>4. CASE NameOf(Reading, c) = <<>> /\ names' = names
    <3>1. ~(a <= a - 1) OBVIOUS
    <3>. QED BY <1>7, <2>1, <2>2, <2>4, <3>1
  <2>. QED BY <2>3, <2>4 DEF Goes
<1>9. CASE pass = 0
  <2>. DEFINE g == [i \in 1 .. n + 2 |-> IF i <= n + 1 THEN f[i] ELSE r]
  <2>1. a = n + 1 /\ Len(patch') = n + 1
    <3>1. patch' = Append(patch, c) BY <1>9 DEF Goes, Reads
    <3>. QED BY <1>1, <1>6, <1>9, <3>1, AppendProperties DEF Types, ReadInv
  <2>2. /\ g[1] = f[1] /\ g[n + 1] = f[n + 1] /\ g[n + 2] = r
        /\ \A i \in 1 .. n : g[i] = f[i] /\ g[i + 1] = f[i + 1]
    OBVIOUS
  <2>. HIDE DEF g
  <2>3. IsRun(g)'
    <3>1. g[1] = Start BY <1>5, <2>2 DEF IsRun
    <3>2. ASSUME NEW i \in 1 .. n + 1 PROVE g[i + 1] = After(g[i], patch'[i])
      <4>1. CASE i \in 1 .. n BY <1>1, <1>2, <1>5, <2>2, <4>1 DEF IsRun
      <4>2. CASE i = n + 1
        <5>1. g[i] = Reading /\ patch'[i] = c BY <1>2, <1>5, <1>6, <2>1, <2>2, <4>2
        <5>2. n + 1 + 1 = n + 2 OBVIOUS
        <5>. QED BY <1>4, <2>2, <4>2, <5>1, <5>2
      <4>. QED BY <4>1, <4>2
    <3>. QED BY <2>1, <3>1, <3>2 DEF IsRun
  <2>4. g[at'] = Reading' /\ at' - 1 = a BY <1>2, <1>3, <1>6, <2>1, <2>2
  <2>5. Named(g, names, at - 1)'
    <3>. SUFFICES ASSUME NEW i \in 1 .. MaxLen
         PROVE  names'[i] = IF i <= a THEN NameOf(g[i], patch'[i]) ELSE <<>>
      BY <2>4 DEF Named
    <3>1. CASE i <= a - 1
      <4>1. i \in 1 .. n /\ i <= a BY <1>6, <2>1, <3>1
      <4>. QED BY <1>2, <1>8, <2>2, <3>1, <4>1
    <3>2. CASE i = a
      <4>1. ~(i <= a - 1) /\ i <= a BY <3>2
      <4>. QED BY <1>2, <1>6, <1>8, <2>1, <2>2, <3>2, <4>1
    <3>3. CASE i > a
      <4>1. ~(i <= a - 1) /\ ~(i <= a) /\ i # a BY <1>6, <3>3
      <4>. QED BY <1>8, <4>1
    <3>4. i <= a - 1 \/ i = a \/ i > a BY <1>6
    <3>. QED BY <3>1, <3>2, <3>3, <3>4
  <2>6. \E h : IsRun(h)' /\ h[at'] = Reading' /\ Named(h, names, at - 1)' BY <2>3, <2>4, <2>5
  <2>. QED BY <1>2, <1>8, <1>9, <2>6 DEF SameInv
<1>10. CASE pass # 0
  <2>1. patch' = patch /\ c = patch[a] /\ a \in 1 .. n BY <1>1, <1>6, <1>10 DEF Goes, Reads
  <2>2. IsRun(f)' BY <1>5, <2>1 DEF IsRun
  <2>3. f[at'] = Reading' /\ at' - 1 = a
    <3>1. f[a + 1] = After(f[a], patch[a]) BY <1>1, <1>5, <2>1 DEF IsRun
    <3>. QED BY <1>2, <1>3, <1>4, <1>5, <1>6, <2>1, <3>1
  <2>4. Named(f, names, at - 1)'
    <3>. SUFFICES ASSUME NEW i \in 1 .. MaxLen
         PROVE  names'[i] = IF i <= a THEN NameOf(f[i], patch[i]) ELSE <<>>
      BY <2>1, <2>3 DEF Named
    <3>1. CASE i <= a - 1
      <4>1. i <= a BY <1>6, <3>1
      <4>. QED BY <1>8, <3>1, <4>1
    <3>2. CASE i = a
      <4>1. ~(i <= a - 1) /\ i <= a BY <3>2
      <4>. QED BY <1>8, <2>1, <3>2, <4>1
    <3>3. CASE i > a
      <4>1. ~(i <= a - 1) /\ ~(i <= a) /\ i # a BY <1>6, <3>3
      <4>. QED BY <1>8, <4>1
    <3>4. i <= a - 1 \/ i = a \/ i > a BY <1>6
    <3>. QED BY <3>1, <3>2, <3>3, <3>4
  <2>5. Named(f, first, Len(patch))'
    <3>1. Named(f, first, Len(patch)) BY <1>2, <1>5, <1>10
    <3>. QED BY <2>1, <3>1 DEF Named
  <2>6. \E h : IsRun(h)' /\ h[at'] = Reading' /\ Named(h, names, at - 1)'
               /\ Named(h, first, Len(patch))'
    BY <2>2, <2>3, <2>4, <2>5
  <2>. QED BY <1>2, <1>8, <1>10, <2>6 DEF SameInv
<1>. QED BY <1>9, <1>10

LEMMA SetLabelAny ==
  ASSUME NEW name, SetLabel(name)
  PROVE  names' = names \/ \E x : names' = [names EXCEPT ![at] = x]
BY Zenon DEF SetLabel

LEMMA SameStep == Types /\ SameInv /\ [Next]_vars => SameInv'
<1>. SUFFICES ASSUME Types, SameInv, [Next]_vars PROVE SameInv' OBVIOUS
<1>1. CASE FinishPass BY <1>1, SameFinish
<1>2. CASE Next /\ ~FinishPass
  <2>1. first' = first
    <3>1. \E c : Reads(c)
      BY <1>2, Zenon DEF Next, Label, Plus, Minus, UseLabel, UseRelative, Namespace, NamespaceOff,
                  NamespaceNested, Pushns, Pullns, CallMacro, EndMacro, Struct, EndStruct, Skip
    <3>. QED BY <3>1 DEF Reads
  <2>2. CASE ~errored' BY <1>2, <2>1, <2>2, NextGoes, SameGoes
  <2>3. CASE errored'
    <3>1. names' = names \/ \E x : names' = [names EXCEPT ![at] = x]
      <4>1. CASE Label
        <5>1. names' = names \/ \E name : SetLabel(name) BY <4>1, Zenon DEF Label
        <5>. QED BY <5>1, SetLabelAny
      <4>2. CASE Plus
        <5>1. names' = names \/ \E name : SetLabel(name) BY <4>2, Zenon DEF Plus
        <5>. QED BY <5>1, SetLabelAny
      <4>3. CASE Minus
        <5>1. names' = names \/ \E name : SetLabel(name) BY <4>3, Zenon DEF Minus
        <5>. QED BY <5>1, SetLabelAny
      <4>4. CASE Struct BY <4>4, Zenon DEF Struct
      <4>5. CASE UseLabel \/ UseRelative \/ Namespace \/ NamespaceOff \/ NamespaceNested \/ Pushns
                 \/ Pullns \/ CallMacro \/ EndMacro \/ EndStruct \/ Skip
        BY <4>5 DEF UseLabel, UseRelative, Namespace, NamespaceOff, NamespaceNested, Pushns,
                    Pullns, CallMacro, EndMacro, EndStruct, Skip
      <4>. QED BY <1>2, <4>1, <4>2, <4>3, <4>4, <4>5 DEF Next
    <3>2. names = [i \in 1 .. MaxLen |-> names[i]] BY DEF SameInv
    <3>3. names' = [i \in 1 .. MaxLen |-> names'[i]] BY <3>1, <3>2
    <3>. QED BY <2>3, <3>3 DEF SameInv
  <2>. QED BY <2>2, <2>3
<1>3. CASE UNCHANGED vars
  <2>2. /\ UNCHANGED <<patch, pass, at, errored, names, first>> /\ Reading' = Reading
    BY <1>3 DEF vars, history, Reading, Space, Scope, Macro, Open, InStruct,
                namespace, scope, macro, struct
  <2>3. CASE errored BY <2>2, <2>3 DEF SameInv
  <2>4. CASE ~errored
    <3>1. PICK f : /\ IsRun(f)
                   /\ pass < 3 => f[at] = Reading /\ Named(f, names, at - 1)
                   /\ pass > 0 => Named(f, first, Len(patch))
                   /\ pass = 3 => Named(f, names, Len(patch))
      BY <2>4 DEF SameInv
    <3>2. /\ IsRun(f)'
          /\ pass' < 3 => f[at'] = Reading' /\ Named(f, names, at - 1)'
          /\ pass' > 0 => Named(f, first, Len(patch))'
          /\ pass' = 3 => Named(f, names, Len(patch))'
      BY <2>2, <3>1 DEF IsRun, Named
    <3>. QED BY <2>2, <3>2 DEF SameInv
  <2>. QED BY <2>3, <2>4
<1>. QED BY <1>1, <1>2, <1>3 DEF Next

\* A patch without errors gives each of its labels the same name in all its passes, whatever
\* its namespaces, pushes, macro calls, +/- labels and structs: initstuff starts all of it anew.
THEOREM SameNames == Spec => []SameNameInEveryPass
<1>1. Types /\ SameInv => SameNameInEveryPass
  <2>. SUFFICES ASSUME Types, SameInv, ~errored, NEW i \in 1 .. MaxLen, names[i] # <<>>, pass > 0
       PROVE  names[i] = first[i]
    BY Zenon DEF SameNameInEveryPass
  <2>1. PICK f : /\ pass < 3 => Named(f, names, at - 1)
                 /\ pass > 0 => Named(f, first, Len(patch))
                 /\ pass = 3 => Named(f, names, Len(patch))
    BY DEF SameInv
  <2>2. PICK n \in Nat, a \in Nat :
          n = Len(patch) /\ a = at /\ a \in 1 .. n + 1 /\ pass \in 0 .. 3
    BY DEF Types, ReadInv
  <2>3. \/ \A j \in 1 .. MaxLen : names[j] = IF j <= a - 1 THEN NameOf(f[j], patch[j]) ELSE <<>>
        \/ \A j \in 1 .. MaxLen : names[j] = IF j <= n THEN NameOf(f[j], patch[j]) ELSE <<>>
    BY <2>1, <2>2 DEF Named
  <2>4. \A j \in 1 .. MaxLen : first[j] = IF j <= n THEN NameOf(f[j], patch[j]) ELSE <<>>
    BY <2>1, <2>2 DEF Named
  <2>5. i <= a - 1 => i <= n BY <2>2
  <2>6. i <= n /\ names[i] = NameOf(f[i], patch[i]) BY <2>3, <2>5
  <2>. QED BY <2>4, <2>6
<1>2. Spec => [](Types /\ SameInv) BY TypesInit, TypesStep, SameInit, SameStep, PTL DEF Spec
<1>. QED BY <1>1, <1>2, PTL

-----------------------------------------------------------------------------
(***************************************************************************)
(* The macro call around a command                                         *)
(***************************************************************************)

LEMMA CountNext ==
  ASSUME NEW kind, NEW k \in Nat, NEW i \in Nat, k <= i
  PROVE  /\ Count(kind, k, i) \in Nat /\ Count(kind, i, i) = 0
         /\ Count(kind, k, i + 1) = Count(kind, k, i) + IF patch[i].c = kind THEN 1 ELSE 0
<1>. DEFINE C == { j \in k .. i - 1 : patch[j].c = kind }
<1>1. IsFiniteSet(C) /\ Cardinality(C) \in Nat
  <2>1. IsFiniteSet(k .. i - 1) BY FS_Interval
  <2>2. C \in SUBSET (k .. i - 1) OBVIOUS
  <2>3. IsFiniteSet(C) BY <2>1, <2>2, FS_Subset
  <2>. QED BY <2>3, FS_CardinalityType
<1>2. { j \in i .. i - 1 : patch[j].c = kind } = {} OBVIOUS
<1>3. Count(kind, i, i) = 0 BY <1>2, FS_EmptySet DEF Count
<1>4. CASE patch[i].c = kind
  <2>1. { j \in k .. (i + 1) - 1 : patch[j].c = kind } = C \cup {i} BY <1>4
  <2>2. i \notin C OBVIOUS
  <2>. QED BY <1>1, <1>3, <1>4, <2>1, <2>2, FS_AddElement DEF Count
<1>5. CASE patch[i].c # kind
  <2>1. { j \in k .. (i + 1) - 1 : patch[j].c = kind } = C BY <1>5
  <2>2. Count(kind, k, i + 1) = Count(kind, k, i) BY <2>1 DEF Count
  <2>. QED BY <1>1, <1>3, <1>5, <2>2 DEF Count
<1>. QED BY <1>4, <1>5

LEMMA OpenedNext ==
  ASSUME NEW k \in Nat, NEW i \in Nat, k <= i
  PROVE  /\ Opened(k, i) \in Int /\ Opened(i, i) = 0
         /\ patch[i].c = "call" => Opened(k, i + 1) = Opened(k, i) + 1
         /\ patch[i].c = "end_call" => Opened(k, i + 1) = Opened(k, i) - 1
         /\ patch[i].c \notin {"call", "end_call"} => Opened(k, i + 1) = Opened(k, i)
<1>1. /\ Count("call", k, i) \in Nat /\ Count("call", i, i) = 0
      /\ Count("call", k, i + 1) = Count("call", k, i) + IF patch[i].c = "call" THEN 1 ELSE 0
  BY CountNext
<1>2. /\ Count("end_call", k, i) \in Nat /\ Count("end_call", i, i) = 0
      /\ Count("end_call", k, i + 1)
           = Count("end_call", k, i) + IF patch[i].c = "end_call" THEN 1 ELSE 0
  BY CountNext
<1>. QED BY <1>1, <1>2 DEF Opened

\* A call is around a command that follows one it was around, unless that one ends it.
LEMMA CallsAroundNext ==
  ASSUME NEW i \in Nat, i >= 1
  PROVE  CallsAround(i + 1) = { k \in CallsAround(i) : Opened(k, i + 1) > 0 }
                                \cup (IF patch[i].c = "call" THEN {i} ELSE {})
<1>1. ASSUME NEW k \in 1 .. i - 1
      PROVE  (\A j \in k + 1 .. i + 1 : Opened(k, j) > 0)
               <=> (\A j \in k + 1 .. i : Opened(k, j) > 0) /\ Opened(k, i + 1) > 0
  <2>1. \A j \in k + 1 .. i + 1 : j \in k + 1 .. i \/ j = i + 1 OBVIOUS
  <2>2. i + 1 \in k + 1 .. i + 1 /\ \A j \in k + 1 .. i : j \in k + 1 .. i + 1 OBVIOUS
  <2>. QED BY <2>1, <2>2
<1>2. patch[i].c = "call" => \A j \in i + 1 .. i + 1 : Opened(i, j) > 0
  <2>1. \A j \in i + 1 .. i + 1 : j = i + 1 OBVIOUS
  <2>2. patch[i].c = "call" => Opened(i, i + 1) = 1
    <3>1. i <= i OBVIOUS
    <3>2. Opened(i, i) = 0 /\ (patch[i].c = "call" => Opened(i, i + 1) = Opened(i, i) + 1)
      BY <3>1, OpenedNext
    <3>. QED BY <3>2
  <2>. QED BY <2>1, <2>2
<1>3. (i + 1) - 1 = i /\ i \notin 1 .. i - 1 OBVIOUS
<1>4. \A k \in 1 .. i : k \in 1 .. i - 1 \/ k = i OBVIOUS
<1>5. \A k \in 1 .. i - 1 : k \in 1 .. i OBVIOUS
<1>6. i \in 1 .. i OBVIOUS
<1>7. CallsAround(i + 1) = { k \in 1 .. i : /\ patch[k].c = "call"
                                            /\ \A j \in k + 1 .. i + 1 : Opened(k, j) > 0 }
  BY <1>3 DEF CallsAround
<1>8. ASSUME NEW k
      PROVE  k \in CallsAround(i + 1) <=> \/ k \in CallsAround(i) /\ Opened(k, i + 1) > 0
                                          \/ k = i /\ patch[i].c = "call"
  <2>1. CASE k \in 1 .. i - 1
    <3>1. k # i BY <1>3, <2>1
    <3>. QED BY <1>1, <1>5, <1>7, <2>1, <3>1, Zenon DEF CallsAround
  <2>2. CASE k = i BY <1>2, <1>3, <1>6, <1>7, <2>2, Zenon DEF CallsAround
  <2>3. CASE k \notin 1 .. i BY <1>5, <1>6, <1>7, <2>3, Zenon DEF CallsAround
  <2>. QED BY <1>4, <2>1, <2>2, <2>3
<1>. QED BY <1>8

LEMMA AroundIs ==
  ASSUME NEW i
  PROVE  /\ CallsAround(i) = {} => Around(i) = 0
         /\ \A k \in CallsAround(i) : (\A j \in CallsAround(i) : j <= k) => Around(i) = k
<1>1. CallsAround(i) = {} => Around(i) = 0 BY DEF Around
<1>2. ASSUME NEW k \in CallsAround(i), \A j \in CallsAround(i) : j <= k PROVE Around(i) = k
  <2>1. Around(i) = CHOOSE m \in CallsAround(i) : \A j \in CallsAround(i) : j <= m
    BY <1>2 DEF Around
  <2>2. \A m \in CallsAround(i) : (\A j \in CallsAround(i) : j <= m) => m = k
    <3>1. \A m \in CallsAround(i) : m \in Int BY DEF CallsAround
    <3>. QED BY <1>2, <3>1
  <2>. HIDE DEF CallsAround
  <2>. QED BY <1>2, <2>1, <2>2
<1>. QED BY <1>1, <1>2

-----------------------------------------------------------------------------
(***************************************************************************)
(* What the words of a name tell apart                                     *)
(***************************************************************************)

LEMMA ConcatIs ==
  ASSUME NEW s, IsList(s), NEW t, IsList(t)
  PROVE  /\ IsList(s \o t) /\ Len(s) \in Nat /\ Len(t) \in Nat /\ Len(s \o t) = Len(s) + Len(t)
         /\ \A p \in 1 .. Len(s) : (s \o t)[p] = s[p]
         /\ \A p \in 1 .. Len(t) : (s \o t)[Len(s) + p] = t[p]
<1>. DEFINE S == ToSet(s) \cup ToSet(t)
<1>1. Len(s) \in Nat /\ Len(t) \in Nat BY DEF IsList
<1>2. s \in [1 .. Len(s) -> ToSet(s)] /\ t \in [1 .. Len(t) -> ToSet(t)] BY DEF IsList
<1>3. s \in [1 .. Len(s) -> S] /\ t \in [1 .. Len(t) -> S] BY <1>2
<1>4. s \in Seq(S) /\ t \in Seq(S) BY <1>1, <1>3, SeqDef
<1>. HIDE DEF S
<1>5. /\ s \o t \in Seq(S) /\ Len(s \o t) = Len(s) + Len(t)
      /\ \A i \in 1 .. Len(s) + Len(t) :
           (s \o t)[i] = IF i <= Len(s) THEN s[i] ELSE t[i - Len(s)]
  BY <1>4, ConcatProperties
<1>6. ASSUME NEW p \in 1 .. Len(s) PROVE (s \o t)[p] = s[p]
  <2>1. p \in 1 .. Len(s) + Len(t) /\ p <= Len(s) BY <1>1
  <2>. QED BY <1>5, <2>1
<1>7. ASSUME NEW p \in 1 .. Len(t) PROVE (s \o t)[Len(s) + p] = t[p]
  <2>1. /\ Len(s) + p \in 1 .. Len(s) + Len(t) /\ ~(Len(s) + p <= Len(s))
        /\ (Len(s) + p) - Len(s) = p
    BY <1>1
  <2>. QED BY <1>5, <2>1
<1>. QED BY <1>1, <1>5, <1>6, <1>7, IsListOf

\* Every place in a name that is put together is one of its parts.
LEMMA ConcatPlaces ==
  ASSUME NEW s, IsList(s), NEW t, IsList(t), NEW r \in 1 .. Len(s \o t)
  PROVE  \/ r \in 1 .. Len(s) /\ (s \o t)[r] = s[r]
         \/ \E p \in 1 .. Len(t) : r = Len(s) + p /\ (s \o t)[r] = t[p]
<1>1. /\ Len(s) \in Nat /\ Len(t) \in Nat /\ Len(s \o t) = Len(s) + Len(t)
      /\ \A p \in 1 .. Len(s) : (s \o t)[p] = s[p]
      /\ \A p \in 1 .. Len(t) : (s \o t)[Len(s) + p] = t[p]
  BY ConcatIs, SMTT(30)
<1>2. r \in 1 .. Len(s) \/ (r - Len(s) \in 1 .. Len(t) /\ r = Len(s) + (r - Len(s))) BY <1>1
<1>. QED BY <1>1, <1>2

\* The words of a patch, those of a macro label of the k-th call, and of a +/- label.
Plain(x) == IsList(x) /\ \A p \in 1 .. Len(x) : x[p] \notin Reserved
Tagged(x, k) ==
  /\ IsList(x)
  /\ \E p \in 1 .. Len(x) : /\ p + 1 \in 1 .. Len(x) /\ x[p] = ":macro" /\ x[p + 1] = Digit[k + 1]
                            /\ \A r \in 1 .. Len(x) : x[r] \in Reserved => r = p
Signed(x, m, k, w, d, n) ==
  /\ IsList(x) /\ w \in {":pos", ":neg"} /\ m \in BOOLEAN
  /\ \E p \in 1 .. Len(x) :
       /\ Len(x) = p + 2 /\ x[p] = w /\ x[p + 1] = Digit[d] /\ x[p + 2] = Digit[n + 1]
       /\ m => p - 2 \in 1 .. Len(x) /\ x[p - 2] = ":macro" /\ x[p - 1] = Digit[k + 1]
       /\ \A r \in 1 .. Len(x) : x[r] \in Reserved => r = p \/ (m /\ r = p - 2)

LEMMA PathPlain == ASSUME NEW x, IsPath(x) PROVE Plain(x)
<1>1. IsList(x) /\ Len(x) \in Nat BY IsListOf DEF IsPath
<1>2. \A p \in 1 .. Len(x) : x[p] \in ToSet(x) \ Reserved BY <1>1 DEF IsPath
<1>. QED BY <1>1, <1>2 DEF Plain

LEMMA PlainWords == Plain(<<>>) /\ \A w : w \notin Reserved => Plain(<<w>>) /\ Plain(<<".">>)
<1>1. Plain(<<>>) BY EmptyList DEF Plain
<1>2. ASSUME NEW w, w \notin Reserved PROVE Plain(<<w>>)
  <2>1. <<w>> \in Seq({w}) /\ Len(<<w>>) = 1 /\ <<w>>[1] = w OBVIOUS
  <2>2. IsList(<<w>>) BY <2>1, IsListOf
  <2>. QED BY <1>2, <2>1, <2>2 DEF Plain
<1>3. "." \notin Reserved BY DEF Reserved
<1>. QED BY <1>1, <1>2, <1>3

LEMMA PlainConcat == ASSUME NEW s, Plain(s), NEW t, Plain(t) PROVE Plain(s \o t)
<1>1. IsList(s) /\ IsList(t) BY DEF Plain
<1>2. IsList(s \o t) BY <1>1, ConcatIs
<1>3. ASSUME NEW r \in 1 .. Len(s \o t) PROVE (s \o t)[r] \notin Reserved
  <2>1. \/ r \in 1 .. Len(s) /\ (s \o t)[r] = s[r]
        \/ \E p \in 1 .. Len(t) : r = Len(s) + p /\ (s \o t)[r] = t[p]
    BY <1>1, ConcatPlaces, SMTT(30)
  <2>. QED BY <2>1 DEF Plain
<1>. QED BY <1>2, <1>3 DEF Plain

LEMMA TaggedConcat ==
  ASSUME NEW x, NEW k, Tagged(x, k), NEW s, Plain(s)
  PROVE  Tagged(s \o x, k) /\ Tagged(x \o s, k)
<1>1. IsList(s) /\ IsList(x) BY DEF Plain, Tagged
<1>2. PICK p \in 1 .. Len(x) :
        /\ p + 1 \in 1 .. Len(x) /\ x[p] = ":macro" /\ x[p + 1] = Digit[k + 1]
        /\ \A r \in 1 .. Len(x) : x[r] \in Reserved => r = p
  BY DEF Tagged
<1>3. Tagged(s \o x, k)
  <2>. DEFINE y == s \o x   q == Len(s) + p
  <2>1. /\ IsList(y) /\ Len(s) \in Nat /\ Len(x) \in Nat /\ Len(y) = Len(s) + Len(x)
        /\ y[Len(s) + p] = x[p] /\ y[Len(s) + (p + 1)] = x[p + 1]
    BY <1>1, <1>2, ConcatIs, SMTT(30)
  <2>2. \A r \in 1 .. Len(y) : y[r] \in Reserved => r = q
    <3>. SUFFICES ASSUME NEW r \in 1 .. Len(y), y[r] \in Reserved PROVE r = q OBVIOUS
    <3>1. \/ r \in 1 .. Len(s) /\ y[r] = s[r]
          \/ \E i \in 1 .. Len(x) : r = Len(s) + i /\ y[r] = x[i]
      BY <1>1, ConcatPlaces, SMTT(30)
    <3>. QED BY <1>2, <3>1 DEF Plain
  <2>3. q \in 1 .. Len(y) /\ q + 1 \in 1 .. Len(y) /\ q + 1 = Len(s) + (p + 1) BY <1>2, <2>1
  <2>. HIDE DEF y, q
  <2>4. y[q] = ":macro" /\ y[q + 1] = Digit[k + 1] BY <1>2, <2>1, <2>3 DEF q
  <2>5. Tagged(y, k) BY <2>1, <2>2, <2>3, <2>4 DEF Tagged
  <2>. QED BY <2>5 DEF y
<1>4. Tagged(x \o s, k)
  <2>. DEFINE y == x \o s
  <2>1. /\ IsList(y) /\ Len(s) \in Nat /\ Len(x) \in Nat /\ Len(y) = Len(x) + Len(s)
        /\ y[p] = x[p] /\ y[p + 1] = x[p + 1]
    BY <1>1, <1>2, ConcatIs, SMTT(30)
  <2>2. \A r \in 1 .. Len(y) : y[r] \in Reserved => r = p
    <3>. SUFFICES ASSUME NEW r \in 1 .. Len(y), y[r] \in Reserved PROVE r = p OBVIOUS
    <3>1. \/ r \in 1 .. Len(x) /\ y[r] = x[r]
          \/ \E i \in 1 .. Len(s) : r = Len(x) + i /\ y[r] = s[i]
      BY <1>1, ConcatPlaces, SMTT(30)
    <3>. QED BY <1>2, <3>1 DEF Plain
  <2>3. p \in 1 .. Len(y) /\ p + 1 \in 1 .. Len(y) BY <1>2, <2>1
  <2>. HIDE DEF y
  <2>5. Tagged(y, k) BY <1>2, <2>1, <2>2, <2>3 DEF Tagged
  <2>. QED BY <2>5 DEF y
<1>. QED BY <1>3, <1>4

LEMMA SignedConcat ==
  ASSUME NEW x, NEW m, NEW k, NEW w, NEW d, NEW n, Signed(x, m, k, w, d, n), NEW s, Plain(s)
  PROVE  Signed(s \o x, m, k, w, d, n)
<1>1. IsList(s) /\ IsList(x) /\ m \in BOOLEAN /\ w \in {":pos", ":neg"} BY DEF Plain, Signed
<1>2. PICK p \in 1 .. Len(x) :
        /\ Len(x) = p + 2 /\ x[p] = w /\ x[p + 1] = Digit[d] /\ x[p + 2] = Digit[n + 1]
        /\ m => p - 2 \in 1 .. Len(x) /\ x[p - 2] = ":macro" /\ x[p - 1] = Digit[k + 1]
        /\ \A r \in 1 .. Len(x) : x[r] \in Reserved => r = p \/ (m /\ r = p - 2)
  BY DEF Signed
<1>2a. \A r \in 1 .. Len(s \o x) :
        \/ r \in 1 .. Len(s) /\ (s \o x)[r] = s[r]
        \/ \E i \in 1 .. Len(x) : r = Len(s) + i /\ (s \o x)[r] = x[i]
  BY ONLY <1>1, ConcatPlaces, SMTT(30)
<1>2b. IsList(s \o x) /\ Len(s) \in Nat /\ Len(x) \in Nat /\ Len(s \o x) = Len(s) + Len(x)
  BY ONLY <1>1, ConcatIs, SMTT(30)
<1>2c. \A i \in 1 .. Len(x) : (s \o x)[Len(s) + i] = x[i] BY ONLY <1>1, ConcatIs, SMTT(30)
<1>. DEFINE y == s \o x   q == Len(s) + p
<1>3. /\ IsList(y) /\ Len(s) \in Nat /\ Len(x) \in Nat /\ Len(y) = Len(s) + Len(x)
      /\ \A i \in 1 .. Len(x) : y[Len(s) + i] = x[i]
  BY <1>2b, <1>2c, Zenon
<1>4. \A r \in 1 .. Len(y) : y[r] \in Reserved => r = q \/ (m /\ r = q - 2)
  <2>. SUFFICES ASSUME NEW r \in 1 .. Len(y), y[r] \in Reserved PROVE r = q \/ (m /\ r = q - 2)
    OBVIOUS
  <2>1. \/ r \in 1 .. Len(s) /\ y[r] = s[r]
        \/ \E i \in 1 .. Len(x) : r = Len(s) + i /\ y[r] = x[i]
    BY <1>2a
  <2>2. PICK i \in 1 .. Len(x) : r = Len(s) + i /\ x[i] \in Reserved BY <2>1 DEF Plain
  <2>3. i = p \/ (m /\ i = p - 2) BY <1>2, <2>2
  <2>4. Len(s) + (p - 2) = (Len(s) + p) - 2 BY <1>3
  <2>. QED BY <2>2, <2>3, <2>4
<1>5. /\ q \in 1 .. Len(y) /\ Len(y) = q + 2 /\ q + 1 = Len(s) + (p + 1) /\ q + 2 = Len(s) + (p + 2)
      /\ p + 1 \in 1 .. Len(x) /\ p + 2 \in 1 .. Len(x)
      /\ q - 2 = Len(s) + (p - 2) /\ q - 1 = Len(s) + (p - 1)
      /\ p - 2 \in 1 .. Len(x) => q - 2 \in 1 .. Len(y) /\ p - 1 \in 1 .. Len(x)
  BY <1>2, <1>3
<1>. HIDE DEF y
<1>6. y[q] = w /\ y[q + 1] = Digit[d] /\ y[q + 2] = Digit[n + 1]
  BY <1>2, <1>3, <1>5
<1>7. m => q - 2 \in 1 .. Len(y) /\ y[q - 2] = ":macro" /\ y[q - 1] = Digit[k + 1]
  BY <1>2, <1>3, <1>5
<1>. HIDE DEF q
<1>8. Signed(y, m, k, w, d, n) BY <1>1, <1>3, <1>4, <1>5, <1>6, <1>7 DEF Signed
<1>. QED BY <1>8 DEF y

\* A name is of one kind, and says which call and which label of it.
LEMMA KindsDiffer ==
  ASSUME NEW x
  PROVE  /\ \A k : Tagged(x, k) => ~Plain(x)
         /\ \A m, k, w, d, n : Signed(x, m, k, w, d, n) => ~Plain(x) /\ \A j : ~Tagged(x, j)
<1>1. Reserved = {":macro", ":pos", ":neg"} BY DEF Reserved
<1>2. \A k : Tagged(x, k) => ~Plain(x) BY <1>1 DEF Tagged, Plain
<1>3. ASSUME NEW m, NEW k, NEW w, NEW d, NEW n, Signed(x, m, k, w, d, n)
      PROVE  \E p \in 1 .. Len(x) : x[p] \in Reserved /\ x[p] # ":macro"
  BY <1>1, <1>3 DEF Signed
<1>4. (\E p \in 1 .. Len(x) : x[p] \in Reserved /\ x[p] # ":macro")
        => ~Plain(x) /\ \A j : ~Tagged(x, j)
  BY DEF Plain, Tagged
<1>. QED BY <1>2, <1>3, <1>4

Numeral(n) == n + 1 \in 1 .. MaxLen + 1
LEMMA NumeralIs ==
  ASSUME NEW i, i \in 1 .. MaxLen + 1, NEW j, j \in 1 .. MaxLen + 1, Digit[i] = Digit[j]
  PROVE  i = j
BY NamesAssumption

LEMMA TagOne ==
  ASSUME NEW x, NEW k \in Nat, NEW j \in Nat, Tagged(x, k), Tagged(x, j), Numeral(k), Numeral(j)
  PROVE  k = j
<1>1. ":macro" \in Reserved BY DEF Reserved
<1>2. Digit[k + 1] = Digit[j + 1] BY <1>1 DEF Tagged
<1>3. k + 1 = j + 1 BY <1>2, NumeralIs DEF Numeral
<1>. QED BY <1>3

LEMMA SignOne ==
  ASSUME NEW x, NEW m, NEW k \in Nat, NEW w, NEW d \in Depths, NEW n \in Nat,
         NEW m2, NEW k2 \in Nat, NEW w2, NEW d2 \in Depths, NEW n2 \in Nat,
         Signed(x, m, k, w, d, n), Signed(x, m2, k2, w2, d2, n2),
         Numeral(k), Numeral(k2), Numeral(n), Numeral(n2), MaxLen >= 1
  PROVE  m = m2 /\ w = w2 /\ d = d2 /\ n = n2 /\ (m => k = k2)
<1>0. Len(x) \in Nat BY DEF Signed, IsList
<1>1. PICK p \in 1 .. Len(x) :
        /\ Len(x) = p + 2 /\ x[p] = w /\ x[p + 1] = Digit[d] /\ x[p + 2] = Digit[n + 1]
        /\ m => p - 2 \in 1 .. Len(x) /\ x[p - 2] = ":macro" /\ x[p - 1] = Digit[k + 1]
        /\ \A r \in 1 .. Len(x) : x[r] \in Reserved => r = p \/ (m /\ r = p - 2)
  BY DEF Signed
<1>2. PICK q \in 1 .. Len(x) :
        /\ Len(x) = q + 2 /\ x[q] = w2 /\ x[q + 1] = Digit[d2] /\ x[q + 2] = Digit[n2 + 1]
        /\ m2 => q - 2 \in 1 .. Len(x) /\ x[q - 2] = ":macro" /\ x[q - 1] = Digit[k2 + 1]
        /\ \A r \in 1 .. Len(x) : x[r] \in Reserved => r = q \/ (m2 /\ r = q - 2)
  BY DEF Signed
<1>3. p = q BY <1>0, <1>1, <1>2
<1>4. w = w2 /\ Digit[d] = Digit[d2] /\ Digit[n + 1] = Digit[n2 + 1] BY <1>1, <1>2, <1>3
<1>5. d \in 1 .. MaxLen + 1 /\ d2 \in 1 .. MaxLen + 1 BY NamesAssumption DEF Depths
<1>6. d = d2 /\ n + 1 = n2 + 1 BY <1>4, <1>5, NumeralIs DEF Numeral
<1>7. m \in BOOLEAN /\ m2 \in BOOLEAN BY DEF Signed
<1>8. p - 2 # p BY <1>1
<1>9. ":macro" \in Reserved BY DEF Reserved
<1>10. m <=> m2 BY <1>1, <1>2, <1>3, <1>8, <1>9
<1>11. m => k = k2
  <2>. SUFFICES ASSUME m PROVE k = k2 OBVIOUS
  <2>1. Digit[k + 1] = Digit[k2 + 1] BY <1>1, <1>2, <1>3, <1>10
  <2>2. k + 1 = k2 + 1 BY <2>1, NumeralIs DEF Numeral
  <2>. QED BY <2>2
<1>. QED BY <1>4, <1>6, <1>7, <1>10, <1>11

-----------------------------------------------------------------------------
(***************************************************************************)
(* A run of the patch, and the macro calls that are open in it             *)
(***************************************************************************)

\* What a command without an error needs.
Legal(s, c) ==
  /\ c.c = "end_call" => s.macro.frames # <<>>
  /\ c.c = "pullns" => s.space.depth # 0
  /\ c.c = "label" => LabelNameOf(s, c) # <<>> /\ (c.global => ~c.m)
  /\ c.c \in {"plus", "minus"} => (c.m => s.macro.frames # <<>>)
LegalRun(f) ==
  /\ IsRun(f) /\ Len(patch) \in 0 .. MaxLen
  /\ \A i \in 1 .. Len(patch) : Legal(f[i], patch[i]) /\ IsCommand(patch[i])

\* The labels of the l-th open call, those in use or those that are put away.
Context(s, l) ==
  IF l = Len(s.macro.frames)
  THEN [called |-> s.macro.called, sub |-> s.macro.sub, plus |-> s.macro.plus,
        minus |-> s.macro.minus]
  ELSE LET v == s.macro.frames[l + 1]
       IN  [called |-> v.called, sub |-> v.sub, plus |-> v.plus, minus |-> v.minus]
OwnSign(c, kind, d)  == IF c.c = kind /\ c.m /\ c.d = d THEN 1 ELSE 0
FreeSign(c, kind, d) == IF c.c = kind /\ ~c.m /\ c.d = d THEN 1 ELSE 0
UpTo(i) == [Depths -> 0 .. i - 1]
NumberOf(f, a) == IF a = 0 THEN 0 ELSE f[a].macro.really

\* v is what there is of the call a before the i-th command: its number, the labels that have
\* it, and counts above those at any command of the call so far.
Grown(f, i, a, v) ==
  \A j \in 1 .. i - 1 : Around(j) = a => \A d \in Depths :
    /\ f[j].macro.plus[d] + OwnSign(patch[j], "plus", d) <= v.plus[d]
    /\ f[j].macro.minus[d] + OwnSign(patch[j], "minus", d) <= v.minus[d]
TaggedAll(x, k) == IsList(x) /\ \A p \in 1 .. Len(x) : Tagged(x[p], k)
Lives(f, i, a, v) ==
  /\ v.called = NumberOf(f, a) /\ v.called \in 0 .. i - 1
  /\ TaggedAll(v.sub, v.called)
  /\ v.plus \in UpTo(i) /\ v.minus \in UpTo(i) /\ Grown(f, i, a, v)

\* o lists the calls that are open, from 0, which is none.
OpenCalls(o, n, i) ==
  /\ o \in [0 .. n -> 0 .. i - 1] /\ o[0] = 0
  /\ \A l \in 1 .. n : \A k \in 0 .. l - 1 : o[k] < o[l]
  /\ CallsAround(i) = { o[l] : l \in 1 .. n }
  /\ \A l \in 1 .. n : Opened(o[l], i) = n - l + 1
Stacked(f, i, o) ==
  LET n == Len(f[i].macro.frames)
  IN  OpenCalls(o, n, i) /\ \A l \in 0 .. n : Lives(f, i, o[l], Context(f[i], l))
MacroAt(f, i) ==
  /\ IsList(f[i].macro.frames) /\ f[i].macro.really \in 0 .. i - 1
  /\ \A k \in 1 .. i - 1 :
       patch[k].c = "call" => f[k].macro.really \in Nat /\ f[k].macro.really < f[i].macro.really
  /\ \E o : Stacked(f, i, o)

LEMMA AroundTop ==
  ASSUME NEW i \in Nat, i >= 1, NEW n \in Nat, NEW o, OpenCalls(o, n, i)
  PROVE  Around(i) = o[n] /\ Around(i) \in 0 .. i - 1
<1>1. CASE n = 0
  <2>1. CallsAround(i) = {} BY <1>1 DEF OpenCalls
  <2>. QED BY <1>1, <2>1, AroundIs DEF OpenCalls
<1>2. CASE n # 0
  <2>1. n \in 1 .. n /\ \A l \in 1 .. n : l \in 0 .. n /\ (l = n \/ l \in 0 .. n - 1) BY <1>2
  <2>2. \A l \in 1 .. n : o[l] \in 0 .. i - 1 /\ o[l] <= o[n] BY <2>1 DEF OpenCalls
  <2>3. o[n] \in CallsAround(i) /\ \A j \in CallsAround(i) : j <= o[n] BY <2>1, <2>2 DEF OpenCalls
  <2>. QED BY <2>1, <2>2, <2>3, AroundIs
<1>. QED BY <1>1, <1>2

LEMMA OpenOrder ==
  ASSUME NEW i \in Nat, NEW n \in Nat, NEW o, OpenCalls(o, n, i), NEW l \in 0 .. n, l # n
  PROVE  o[l] # o[n]
<1>1. l \in 0 .. n - 1 /\ n \in 1 .. n /\ n \in 0 .. n OBVIOUS
<1>2. \A k \in 0 .. n - 1 : o[k] < o[n] BY <1>1, Zenon DEF OpenCalls
<1>3. o[l] < o[n] BY <1>1, <1>2
<1>4. o[l] \in Int /\ o[n] \in Int BY <1>1 DEF OpenCalls
<1>. QED BY <1>3, <1>4

\* The open calls after a command.
LEMMA OpenCallsNext ==
  ASSUME NEW i \in Nat, i >= 1, NEW n \in Nat, NEW o, OpenCalls(o, n, i)
  PROVE  /\ patch[i].c = "call" =>
              OpenCalls([l \in 0 .. n + 1 |-> IF l <= n THEN o[l] ELSE i], n + 1, i + 1)
         /\ patch[i].c = "end_call" /\ n > 0 =>
              OpenCalls([l \in 0 .. n - 1 |-> o[l]], n - 1, i + 1)
         /\ patch[i].c \notin {"call", "end_call"} => OpenCalls(o, n, i + 1)
<1>1. \A l \in 0 .. n : o[l] \in 0 .. i - 1 /\ o[l] \in Nat /\ o[l] <= i /\ o[l] # i BY DEF OpenCalls
<1>2. \A l \in 1 .. n : l \in 0 .. n /\ Opened(o[l], i) = n - l + 1 BY DEF OpenCalls
<1>3. CallsAround(i) = { o[l] : l \in 1 .. n } BY DEF OpenCalls
<1>4. CallsAround(i + 1) = { k \in CallsAround(i) : Opened(k, i + 1) > 0 }
                             \cup (IF patch[i].c = "call" THEN {i} ELSE {})
  BY CallsAroundNext
<1>5. i + 1 - 1 = i /\ i \in 0 .. i /\ 0 .. i - 1 \subseteq 0 .. i OBVIOUS
<1>6. ASSUME patch[i].c = "call"
      PROVE  OpenCalls([l \in 0 .. n + 1 |-> IF l <= n THEN o[l] ELSE i], n + 1, i + 1)
  <2>. DEFINE p == [l \in 0 .. n + 1 |-> IF l <= n THEN o[l] ELSE i]
  <2>1. /\ \A l \in 0 .. n : p[l] = o[l]
        /\ p[n + 1] = i /\ p \in [0 .. n + 1 -> 0 .. i]
    BY <1>1, <1>5
  <2>. HIDE DEF p
  <2>2. \A l \in 1 .. n + 1 : l \in 1 .. n \/ l = n + 1 OBVIOUS
  <2>3. \A l \in 1 .. n : Opened(o[l], i + 1) = (n + 1) - l + 1
    <3>. SUFFICES ASSUME NEW l \in 1 .. n PROVE Opened(o[l], i + 1) = (n + 1) - l + 1 OBVIOUS
    <3>1. Opened(o[l], i + 1) = Opened(o[l], i) + 1 BY <1>1, <1>2, <1>6, OpenedNext
    <3>. QED BY <1>2, <3>1
  <2>4. Opened(i, i + 1) = 1
    <3>1. i <= i OBVIOUS
    <3>2. Opened(i, i) = 0 /\ Opened(i, i + 1) = Opened(i, i) + 1 BY <1>6, <3>1, OpenedNext
    <3>. QED BY <3>2
  <2>5. \A l \in 1 .. n + 1 : Opened(p[l], i + 1) = (n + 1) - l + 1
    <3>1. (n + 1) - (n + 1) + 1 = 1 OBVIOUS
    <3>2. Opened(p[n + 1], i + 1) = (n + 1) - (n + 1) + 1 BY <2>1, <2>4, <3>1
    <3>3. \A l \in 1 .. n : Opened(p[l], i + 1) = (n + 1) - l + 1 BY <1>2, <2>1, <2>3
    <3>. QED BY <2>2, <3>2, <3>3
  <2>6. \A k \in CallsAround(i) : Opened(k, i + 1) > 0 BY <1>3, <2>3
  <2>7. CallsAround(i + 1) = { p[l] : l \in 1 .. n + 1 }
    <3>1. CallsAround(i + 1) = CallsAround(i) \cup {i} BY <1>4, <1>6, <2>6
    <3>2. \A l \in 1 .. n : p[l] = o[l] /\ l \in 1 .. n + 1 BY <1>2, <2>1
    <3>3. n + 1 \in 1 .. n + 1 OBVIOUS
    <3>. QED BY <1>3, <2>1, <2>2, <3>1, <3>2, <3>3
  <2>8. \A l \in 1 .. n + 1 : \A k \in 0 .. l - 1 : p[k] < p[l]
    <3>. SUFFICES ASSUME NEW l \in 1 .. n + 1, NEW k \in 0 .. l - 1 PROVE p[k] < p[l] OBVIOUS
    <3>1. CASE l \in 1 .. n
      <4>1. k \in 0 .. n BY <3>1
      <4>. QED BY <1>2, <2>1, <3>1, <4>1 DEF OpenCalls
    <3>2. CASE l = n + 1
      <4>1. k \in 0 .. n BY <3>2
      <4>2. p[k] \in 0 .. i - 1 /\ p[l] = i BY <1>1, <2>1, <3>2, <4>1
      <4>. QED BY <4>2
    <3>. QED BY <2>2, <3>1, <3>2
  <2>9. p[0] = 0 /\ p \in [0 .. n + 1 -> 0 .. (i + 1) - 1] BY <1>5, <2>1 DEF OpenCalls
  <2>10. OpenCalls(p, n + 1, i + 1) BY <2>5, <2>7, <2>8, <2>9 DEF OpenCalls
  <2>. QED BY <2>10 DEF p
<1>7. ASSUME patch[i].c = "end_call", n > 0
      PROVE  OpenCalls([l \in 0 .. n - 1 |-> o[l]], n - 1, i + 1)
  <2>. DEFINE p == [l \in 0 .. n - 1 |-> o[l]]
  <2>1. \A l \in 0 .. n - 1 : p[l] = o[l] /\ l \in 0 .. n OBVIOUS
  <2>2. p \in [0 .. n - 1 -> 0 .. i] BY <1>1, <1>5, <2>1
  <2>. HIDE DEF p
  <2>3. \A l \in 1 .. n : Opened(o[l], i + 1) = n - l
    <3>. SUFFICES ASSUME NEW l \in 1 .. n PROVE Opened(o[l], i + 1) = n - l OBVIOUS
    <3>1. Opened(o[l], i + 1) = Opened(o[l], i) - 1 BY <1>1, <1>2, <1>7, OpenedNext
    <3>. QED BY <1>2, <3>1
  <2>4. \A l \in 1 .. n - 1 : l \in 0 .. n - 1 /\ l \in 1 .. n /\ n - l = (n - 1) - l + 1 BY <1>7
  <2>5. \A l \in 1 .. n - 1 : Opened(p[l], i + 1) = (n - 1) - l + 1 BY <2>1, <2>3, <2>4
  <2>6. \A l \in 1 .. n : n - l > 0 <=> l \in 1 .. n - 1 OBVIOUS
  <2>7. CallsAround(i + 1) = { p[l] : l \in 1 .. n - 1 }
    <3>1. CallsAround(i + 1) = { k \in CallsAround(i) : Opened(k, i + 1) > 0 } BY <1>4, <1>7
    <3>2. ASSUME NEW k PROVE k \in CallsAround(i + 1) <=> k \in { p[l] : l \in 1 .. n - 1 }
      <4>1. ASSUME k \in CallsAround(i + 1) PROVE k \in { p[l] : l \in 1 .. n - 1 }
        <5>1. PICK l \in 1 .. n : k = o[l] BY <1>3, <3>1, <4>1
        <5>2. l \in 1 .. n - 1 BY <2>3, <2>6, <3>1, <4>1, <5>1
        <5>. QED BY <2>1, <2>4, <5>1, <5>2
      <4>2. ASSUME NEW l \in 1 .. n - 1 PROVE p[l] \in CallsAround(i + 1)
        <5>1. l \in 1 .. n /\ p[l] = o[l] BY <2>1, <2>4
        <5>2. Opened(o[l], i + 1) > 0 BY <2>3, <2>6, <5>1
        <5>. QED BY <1>3, <3>1, <5>1, <5>2
      <4>. QED BY <4>1, <4>2
    <3>. QED BY <3>2
  <2>8. \A l \in 1 .. n - 1 : \A k \in 0 .. l - 1 : p[k] < p[l]
    <3>. SUFFICES ASSUME NEW l \in 1 .. n - 1, NEW k \in 0 .. l - 1 PROVE p[k] < p[l] OBVIOUS
    <3>1. k \in 0 .. n - 1 /\ l \in 1 .. n /\ l \in 0 .. n - 1 OBVIOUS
    <3>. QED BY <2>1, <3>1 DEF OpenCalls
  <2>9. 0 \in 0 .. n - 1 BY <1>7
  <2>10. p[0] = 0 /\ p \in [0 .. n - 1 -> 0 .. (i + 1) - 1] BY <1>5, <2>1, <2>2, <2>9 DEF OpenCalls
  <2>11. OpenCalls(p, n - 1, i + 1) BY <2>5, <2>7, <2>8, <2>10 DEF OpenCalls
  <2>. QED BY <2>11 DEF p
<1>8. ASSUME patch[i].c \notin {"call", "end_call"} PROVE OpenCalls(o, n, i + 1)
  <2>1. \A l \in 1 .. n : Opened(o[l], i + 1) = n - l + 1
    BY <1>1, <1>2, <1>8, OpenedNext
  <2>2. \A k \in CallsAround(i) : Opened(k, i + 1) > 0 BY <1>3, <2>1
  <2>3. CallsAround(i + 1) = CallsAround(i) BY <1>4, <1>8, <2>2
  <2>4. o \in [0 .. n -> 0 .. (i + 1) - 1] BY <1>1, <1>5 DEF OpenCalls
  <2>. QED BY <2>1, <2>3, <2>4 DEF OpenCalls
<1>. QED BY <1>6, <1>7, <1>8

\* What there is of a call stays while another one is read.
LEMMA LivesStays ==
  ASSUME NEW f, NEW i \in Nat, i >= 1, NEW a, NEW v, Lives(f, i, a, v), Around(i) # a
  PROVE  Lives(f, i + 1, a, v)
<1>1. (i + 1) - 1 = i /\ \A j \in 1 .. i : j \in 1 .. i - 1 \/ j = i OBVIOUS
<1>2. Grown(f, i + 1, a, v) BY <1>1 DEF Lives, Grown
<1>3. v.plus \in UpTo(i + 1) /\ v.minus \in UpTo(i + 1) BY DEF Lives, UpTo
<1>4. v.called \in 0 .. (i + 1) - 1 BY DEF Lives
<1>. QED BY <1>2, <1>3, <1>4 DEF Lives

\* One that goes on counts the label that is read.
LEMMA LivesGoes ==
  ASSUME NEW f, NEW i \in Nat, i >= 1, NEW a, NEW v, Lives(f, i, a, v),
         v.plus = f[i].macro.plus, v.minus = f[i].macro.minus,
         NEW w, w.called = v.called, TaggedAll(w.sub, w.called), NEW P \in UpTo(i + 1),
         NEW M \in UpTo(i + 1), w.plus = P, w.minus = M,
         \A d \in Depths : /\ P[d] = v.plus[d] + OwnSign(patch[i], "plus", d)
                           /\ M[d] = v.minus[d] + OwnSign(patch[i], "minus", d)
  PROVE  Lives(f, i + 1, a, w)
<1>1. (i + 1) - 1 = i /\ \A j \in 1 .. i : j \in 1 .. i - 1 \/ j = i OBVIOUS
<1>2. \A j, d : OwnSign(patch[j], "plus", d) \in 0 .. 1 /\ OwnSign(patch[j], "minus", d) \in 0 .. 1
  BY DEF OwnSign
<1>3. v.plus \in UpTo(i) /\ v.minus \in UpTo(i) /\ v.called \in 0 .. i - 1 BY DEF Lives
<1>4. \A d \in Depths : /\ v.plus[d] \in Nat /\ v.minus[d] \in Nat /\ P[d] \in Nat /\ M[d] \in Nat
                        /\ v.plus[d] <= P[d] /\ v.minus[d] <= M[d]
  <2>. SUFFICES ASSUME NEW d \in Depths
       PROVE  /\ v.plus[d] \in Nat /\ v.minus[d] \in Nat /\ P[d] \in Nat /\ M[d] \in Nat
              /\ v.plus[d] <= P[d] /\ v.minus[d] <= M[d]
    OBVIOUS
  <2>1. v.plus[d] \in 0 .. i - 1 /\ v.minus[d] \in 0 .. i - 1 BY <1>3 DEF UpTo
  <2>2. PICK x, y : x \in 0 .. 1 /\ y \in 0 .. 1 /\ P[d] = v.plus[d] + x /\ M[d] = v.minus[d] + y
    BY <1>2
  <2>. QED BY <2>1, <2>2
<1>5. ASSUME NEW j \in 1 .. i, Around(j) = a, NEW d \in Depths
      PROVE  /\ f[j].macro.plus[d] + OwnSign(patch[j], "plus", d) <= P[d]
             /\ f[j].macro.minus[d] + OwnSign(patch[j], "minus", d) <= M[d]
  <2>1. CASE j = i BY <1>4, <2>1
  <2>2. CASE j \in 1 .. i - 1
    <3>1. PICK b, e, x, y : /\ b = f[j].macro.plus[d] + OwnSign(patch[j], "plus", d)
                            /\ e = f[j].macro.minus[d] + OwnSign(patch[j], "minus", d)
                            /\ x = f[j].macro.plus[d] /\ y = f[j].macro.minus[d]
      OBVIOUS
    <3>2. b <= v.plus[d] /\ e <= v.minus[d] BY <1>5, <2>2, <3>1 DEF Lives, Grown
    <3>. QED BY <1>4, <3>1, <3>2
  <2>. QED BY <1>1, <2>1, <2>2
<1>6. Grown(f, i + 1, a, w) BY <1>1, <1>5 DEF Grown
<1>7. w.called \in 0 .. (i + 1) - 1 /\ w.called = NumberOf(f, a) BY <1>3 DEF Lives
<1>. QED BY <1>6, <1>7 DEF Lives

-----------------------------------------------------------------------------
(***************************************************************************)
(* What a run says of the names                                            *)
(***************************************************************************)

PlainAll(x) == IsList(x) /\ \A p \in 1 .. Len(x) : Plain(x[p])
ScopeAt(f, i) ==
  /\ PlainAll(f[i].scope.sub) /\ f[i].scope.plus \in UpTo(i) /\ f[i].scope.minus \in UpTo(i)
  /\ \A j \in 1 .. i - 1 : \A d \in Depths :
       /\ f[j].scope.plus[d] + FreeSign(patch[j], "plus", d) <= f[i].scope.plus[d]
       /\ f[j].scope.minus[d] + FreeSign(patch[j], "minus", d) <= f[i].scope.minus[d]
PlainSlot(slot) == Plain(slot.ns) /\ Plain(slot.list)
PlainSpace(a) ==
  /\ Plain(a.ns) /\ Plain(a.list) /\ IsList(a.slots) /\ a.depth \in 0 .. Len(a.slots)
  /\ \A k \in 1 .. Len(a.slots) : PlainSlot(a.slots[k])
PlainOpen(a) == Plain(a.name) /\ Plain(a.parent)

\* The name of a macro label or of one outside of macros.
Kind(x, m, k) == IF m THEN Tagged(x, k) ELSE Plain(x)

LEMMA KindConcat ==
  ASSUME NEW x, NEW m, NEW k, Kind(x, m, k), NEW s, Plain(s)
  PROVE  Kind(x \o s, m, k) /\ Kind(s \o x, m, k)
<1>1. CASE m BY <1>1, TaggedConcat DEF Kind
<1>2. CASE ~m BY <1>2, PlainConcat DEF Kind
<1>. QED BY <1>1, <1>2

LEMMA TagKind ==
  ASSUME NEW s, NEW m, s.macro.called \in Nat, Numeral(s.macro.called)
  PROVE  Kind(TagOf(s, m), m, s.macro.called)
<1>1. CASE ~m BY <1>1, PlainWords DEF TagOf, Kind
<1>2. CASE m
  <2>. DEFINE w == Digit[s.macro.called + 1]   x == <<":macro", w>>
  <2>1. w \notin Reserved BY NamesAssumption DEF Numeral
  <2>. HIDE DEF w
  <2>2. x \in Seq({":macro", w}) /\ Len(x) = 2 /\ x[1] = ":macro" /\ x[2] = w OBVIOUS
  <2>3. IsList(x) BY <2>2, IsListOf
  <2>4. \A r \in 1 .. 2 : r = 1 \/ r = 2 OBVIOUS
  <2>. HIDE DEF x
  <2>5. \A r \in 1 .. Len(x) : x[r] \in Reserved => r = 1 BY <2>1, <2>2, <2>4
  <2>6. 1 \in 1 .. Len(x) /\ 1 + 1 \in 1 .. Len(x) /\ x[1 + 1] = Digit[s.macro.called + 1]
    BY <2>2 DEF w
  <2>7. Tagged(x, s.macro.called) BY <2>2, <2>3, <2>5, <2>6 DEF Tagged
  <2>. QED BY <1>2, <2>7 DEF TagOf, Kind, x, w
<1>. QED BY <1>1, <1>2

LEMMA LabelNameKind ==
  ASSUME NEW s, NEW l, IsPath(l.path), l.dots \in Nat, LabelNameOf(s, l) # <<>>,
         PlainAll(s.scope.sub), TaggedAll(s.macro.sub, s.macro.called), PlainOpen(s.open),
         s.macro.called \in Nat, Numeral(s.macro.called)
  PROVE  Kind(LabelNameOf(s, l), l.m, s.macro.called) /\ (l.m => s.macro.frames # <<>>)
<1>. DEFINE k == s.macro.called   t == TagOf(s, l.m)
<1>1. Plain(l.path) BY PathPlain
<1>2. Kind(t, l.m, k) BY TagKind
<1>3. ~(l.m /\ s.macro.frames = <<>>) BY DEF LabelNameOf
<1>4. CASE s.open.in # "no"
  <2>. DEFINE u == IF s.open.in = "sub" THEN s.open.parent \o <<".">> ELSE <<>>
  <2>1. l.dots = 1 BY <1>3, <1>4 DEF LabelNameOf
  <2>2. LabelNameOf(s, l) = t \o u \o s.open.name \o <<".">> \o l.path
    BY <1>3, <1>4, <2>1 DEF LabelNameOf
  <2>3. Plain(<<>>) /\ Plain(<<".">>)
    <3>1. "." \notin Reserved BY DEF Reserved
    <3>. QED BY <3>1, PlainWords
  <2>4. Plain(u) BY <2>3, PlainConcat DEF PlainOpen
  <2>5. Plain(s.open.name) BY DEF PlainOpen
  <2>. HIDE DEF t, u, k
  <2>6. Kind(t \o u, l.m, k) BY <1>2, <2>4, KindConcat
  <2>7. Kind(t \o u \o s.open.name, l.m, k) BY <2>5, <2>6, KindConcat
  <2>8. Kind(t \o u \o s.open.name \o <<".">>, l.m, k) BY <2>3, <2>7, KindConcat
  <2>9. Kind(t \o u \o s.open.name \o <<".">> \o l.path, l.m, k) BY <1>1, <2>8, KindConcat
  <2>10. Kind(LabelNameOf(s, l), l.m, k) BY <2>2, <2>9
  <2>. QED BY <1>3, <2>10 DEF k
<1>5. CASE s.open.in = "no" /\ l.dots = 0
  <2>1. LabelNameOf(s, l) = t \o l.path BY <1>3, <1>5 DEF LabelNameOf
  <2>. HIDE DEF t
  <2>2. Kind(t \o l.path, l.m, k) BY <1>1, <1>2, KindConcat
  <2>. QED BY <1>3, <2>1, <2>2
<1>6. CASE s.open.in = "no" /\ l.dots # 0
  <2>. DEFINE p == ParentsOf(s, l.m)
  <2>1. LabelNameOf(s, l) = p[l.dots] \o l.path /\ ~(Len(p) < l.dots)
    BY <1>3, <1>6 DEF LabelNameOf
  <2>2. IsList(p) /\ \A q \in 1 .. Len(p) : Kind(p[q], l.m, k)
    BY DEF ParentsOf, Kind, PlainAll, TaggedAll
  <2>. HIDE DEF p, k
  <2>3. Len(p) \in Nat BY <2>2 DEF IsList
  <2>4. l.dots \in 1 .. Len(p) BY <1>6, <2>1, <2>3
  <2>5. Kind(p[l.dots] \o l.path, l.m, k) BY <1>1, <2>2, <2>4, KindConcat
  <2>. QED BY <1>3, <2>1, <2>5 DEF k
<1>. QED BY <1>4, <1>5, <1>6

\* The parents of the sublabels that follow a label.
LEMMA AdoptPlaces ==
  ASSUME NEW s, IsList(s), NEW n \in Nat, n <= Len(s), NEW x
  PROVE  \A p \in 1 .. n + 1 : \/ p \in 1 .. Len(s) /\ Append(SubSeq(s, 1, n), x)[p] = s[p]
                               \/ Append(SubSeq(s, 1, n), x)[p] = x
<1>1. Len(s) \in Nat /\ s \in Seq(ToSet(s)) BY DEF IsList
<1>2. \A i \in 1 .. n : s[i] \in ToSet(s) BY <1>1
<1>3. (IF 1 <= n THEN n - 1 + 1 ELSE 0) = n /\ n - 1 + 1 = n OBVIOUS
<1>4. /\ SubSeq(s, 1, n) \in Seq(ToSet(s)) /\ Len(SubSeq(s, 1, n)) = n
      /\ \A i \in 1 .. n : SubSeq(s, 1, n)[i] = s[1 + i - 1]
  BY <1>1, <1>2, <1>3, SubSeqProperties
<1>5. \A i \in 1 .. n : 1 + i - 1 = i /\ i \in 1 .. Len(s) BY <1>1
<1>6. IsList(SubSeq(s, 1, n)) BY <1>4, IsListOf
<1>7. /\ \A i \in 1 .. n : Append(SubSeq(s, 1, n), x)[i] = SubSeq(s, 1, n)[i]
      /\ Append(SubSeq(s, 1, n), x)[n + 1] = x
  BY <1>4, <1>6, AppendList
<1>8. \A p \in 1 .. n + 1 : p \in 1 .. n \/ p = n + 1 OBVIOUS
<1>. QED BY <1>4, <1>5, <1>7, <1>8

LEMMA SubKind ==
  ASSUME NEW s, NEW c, NEW k, c.dots \in Nat, LabelNameOf(s, c) # <<>>, s.open.in = "no",
         Kind(LabelNameOf(s, c), c.m, k), IsList(ParentsOf(s, c.m)),
         \A q \in 1 .. Len(ParentsOf(s, c.m)) : Kind(ParentsOf(s, c.m)[q], c.m, k)
  PROVE  /\ IsList(SubAfter(s, c))
         /\ \A q \in 1 .. Len(SubAfter(s, c)) : Kind(SubAfter(s, c)[q], c.m, k)
<1>. DEFINE p == ParentsOf(s, c.m)   x == LabelNameOf(s, c)
<1>1. Len(p) \in Nat BY DEF IsList
<1>2. c.dots # 0 => ~(Len(p) < c.dots) BY DEF LabelNameOf
<1>3. c.dots <= Len(p) BY <1>1, <1>2
<1>. HIDE DEF p, x
<1>4. SubAfter(s, c) = Append(SubSeq(p, 1, c.dots), x) BY DEF SubAfter, p, x
<1>5. IsList(p) /\ Kind(x, c.m, k) /\ \A q \in 1 .. Len(p) : Kind(p[q], c.m, k) BY DEF p, x
<1>6. IsList(SubAfter(s, c)) /\ Len(SubAfter(s, c)) = c.dots + 1 BY <1>3, <1>4, <1>5, AdoptList
<1>7. \A q \in 1 .. c.dots + 1 : \/ q \in 1 .. Len(p) /\ SubAfter(s, c)[q] = p[q]
                                 \/ SubAfter(s, c)[q] = x
  BY <1>3, <1>4, <1>5, AdoptPlaces
<1>. QED BY <1>5, <1>6, <1>7

\* The innermost call that is open, and what there is of it.
Now(s) == [called |-> s.macro.called, sub |-> s.macro.sub, plus |-> s.macro.plus,
           minus |-> s.macro.minus]
LEMMA MacroTop ==
  ASSUME NEW f, NEW i \in Nat, i >= 1, MacroAt(f, i)
  PROVE  /\ Around(i) \in 0 .. i - 1 /\ Lives(f, i, Around(i), Now(f[i]))
         /\ f[i].macro.frames # <<>> => Around(i) \in CallsAround(i)
<1>. DEFINE n == Len(f[i].macro.frames)
<1>1. n \in Nat BY DEF MacroAt, IsList
<1>2. PICK o : OpenCalls(o, n, i) /\ \A l \in 0 .. n : Lives(f, i, o[l], Context(f[i], l))
  BY DEF MacroAt, Stacked
<1>3. Around(i) = o[n] /\ Around(i) \in 0 .. i - 1 BY <1>1, <1>2, AroundTop
<1>4. n \in 0 .. n /\ Context(f[i], n) = Now(f[i]) BY <1>1 DEF Context, Now
<1>5. f[i].macro.frames # <<>> => n \in 1 .. n
  <2>1. IsList(f[i].macro.frames) BY DEF MacroAt
  <2>2. f[i].macro.frames # <<>> => n # 0 BY <2>1, EmptySeq DEF IsList
  <2>. QED BY <1>1, <2>2
<1>6. f[i].macro.frames # <<>> => o[n] \in CallsAround(i)
  <2>1. CallsAround(i) = { o[l] : l \in 1 .. n } BY <1>2 DEF OpenCalls
  <2>. HIDE DEF n
  <2>. QED BY <1>5, <2>1
<1>. HIDE DEF n
<1>7. Lives(f, i, o[n], Now(f[i])) BY <1>2, <1>4
<1>. QED BY <1>3, <1>6, <1>7

LEMMA RunStep ==
  ASSUME NEW f, LegalRun(f), NEW i \in 1 .. Len(patch)
  PROVE  /\ i \in Nat /\ i >= 1 /\ i <= MaxLen /\ MaxLen \in Nat
         /\ Legal(f[i], patch[i]) /\ IsCommand(patch[i])
         /\ f[i + 1].space = SpaceAfter(f[i].space, patch[i])
         /\ f[i + 1].scope = ScopeAfter(f[i], patch[i])
         /\ f[i + 1].macro = MacroAfter(f[i], patch[i])
         /\ f[i + 1].open = OpenAfter(f[i].open, patch[i])
<1>1. f[i + 1] = After(f[i], patch[i]) BY DEF LegalRun, IsRun
<1>2. \A s, c : /\ After(s, c).space = SpaceAfter(s.space, c) /\ After(s, c).scope = ScopeAfter(s, c)
                /\ After(s, c).macro = MacroAfter(s, c) /\ After(s, c).open = OpenAfter(s.open, c)
  BY DEF After
<1>3. i \in Nat /\ i >= 1 /\ i <= MaxLen /\ MaxLen \in Nat
  BY NamesAssumption DEF LegalRun
<1>. QED BY <1>1, <1>2, <1>3 DEF LegalRun

\* The number of a call is below those of the calls that follow.
LEMMA ReallyNext ==
  ASSUME NEW f, NEW i \in Nat, i >= 1, MacroAt(f, i), f[i + 1].macro = MacroAfter(f[i], patch[i])
  PROVE  /\ f[i + 1].macro.really \in 0 .. i
         /\ \A k \in 1 .. i : patch[k].c = "call" =>
              f[k].macro.really \in Nat /\ f[k].macro.really < f[i + 1].macro.really
<1>1. f[i + 1].macro.really = IF patch[i].c = "call" THEN f[i].macro.really + 1
                              ELSE f[i].macro.really
  BY DEF MacroAfter
<1>2. \A k \in 1 .. i : k \in 1 .. i - 1 \/ k = i OBVIOUS
<1>3. f[i].macro.really \in 0 .. i - 1 BY DEF MacroAt
<1>4. ASSUME NEW k \in 1 .. i, patch[k].c = "call"
      PROVE  f[k].macro.really \in Nat /\ f[k].macro.really < f[i + 1].macro.really
  <2>1. CASE k = i BY <1>1, <1>3, <1>4, <2>1
  <2>2. CASE k \in 1 .. i - 1
    <3>1. f[k].macro.really \in Nat /\ f[k].macro.really < f[i].macro.really
      BY <1>4, <2>2 DEF MacroAt
    <3>. QED BY <1>1, <1>3, <3>1
  <2>. QED BY <1>2, <2>1, <2>2
<1>. QED BY <1>1, <1>3, <1>4

MacroNextIs(f, i) ==
  /\ IsList(f[i + 1].macro.frames)
  /\ \E o : Stacked(f, i + 1, o)

\* A call has no labels yet; those of the call around it are put away.
LEMMA CallStep ==
  ASSUME NEW f, NEW i \in Nat, i >= 1, MacroAt(f, i), f[i + 1].macro = MacroAfter(f[i], patch[i]),
         patch[i].c = "call", \A j \in 1 .. i : Around(j) # i
  PROVE  MacroNextIs(f, i)
<1>. DEFINE s == f[i].macro.frames   t == f[i + 1].macro.frames   n == Len(s)
            v == Now(f[i])   w == Now(f[i + 1])
<1>1. /\ t = Append(s, v) /\ w = [called |-> f[i].macro.really, sub |-> <<>>, plus |-> Zero,
                                  minus |-> Zero]
  <2>1. f[i + 1].macro =
          [called |-> f[i].macro.really, really |-> f[i].macro.really + 1, sub |-> <<>>,
           plus |-> Zero, minus |-> Zero, frames |-> Append(s, v)]
    BY DEF MacroAfter, Now
  <2>2. t = Append(s, v)
    <3>. HIDE DEF v, s
    <3>. QED BY <2>1
  <2>3. /\ f[i + 1].macro.called = f[i].macro.really /\ f[i + 1].macro.sub = <<>>
        /\ f[i + 1].macro.plus = Zero /\ f[i + 1].macro.minus = Zero
    <3>. HIDE DEF v, s
    <3>. QED BY <2>1
  <2>. QED BY <2>2, <2>3 DEF Now
<1>2. IsList(s) BY DEF MacroAt
<1>3. /\ IsList(t) /\ Len(t) = n + 1 /\ n \in Nat /\ t[n + 1] = v
      /\ \A l \in 1 .. n : t[l] = s[l]
  <2>. HIDE DEF s, t, v
  <2>. QED BY <1>1, <1>2, AppendList
<1>4. PICK o : OpenCalls(o, n, i) /\ \A l \in 0 .. n : Lives(f, i, o[l], Context(f[i], l))
  BY DEF MacroAt, Stacked
<1>. DEFINE p == [l \in 0 .. n + 1 |-> IF l <= n THEN o[l] ELSE i]
<1>5. OpenCalls(p, n + 1, i + 1) BY <1>3, <1>4, OpenCallsNext
<1>6. Around(i) = o[n] BY <1>3, <1>4, AroundTop
<1>7. \A l \in 0 .. n : p[l] = o[l] BY <1>3
<1>8. p[n + 1] = i
  <2>. HIDE DEF n
  <2>. QED BY <1>3
<1>9. v = [called |-> v.called, sub |-> v.sub, plus |-> v.plus, minus |-> v.minus] BY DEF Now
<1>10. Context(f[i + 1], n + 1) = w BY <1>3 DEF Context, Now
<1>11. \A l \in 0 .. n : Context(f[i + 1], l) = Context(f[i], l)
  <2>. SUFFICES ASSUME NEW l \in 0 .. n PROVE Context(f[i + 1], l) = Context(f[i], l) OBVIOUS
  <2>1. l # n + 1 BY <1>3
  <2>2. Context(f[i + 1], l) = [called |-> t[l + 1].called, sub |-> t[l + 1].sub,
                                plus |-> t[l + 1].plus, minus |-> t[l + 1].minus]
    BY <1>3, <2>1 DEF Context
  <2>3. CASE l = n
    <3>1. Context(f[i], l) = v BY <2>3 DEF Context, Now
    <3>. HIDE DEF v, t, s
    <3>. QED BY <1>3, <1>9, <2>2, <2>3, <3>1
  <2>4. CASE l # n
    <3>1. l + 1 \in 1 .. n BY <1>3, <2>4
    <3>2. t[l + 1] = s[l + 1] BY <1>3, <3>1
    <3>. QED BY <2>2, <2>4, <3>2 DEF Context
  <2>. QED BY <2>3, <2>4
<1>12. Lives(f, i + 1, i, w)
  <2>1. i # 0 /\ (i + 1) - 1 = i OBVIOUS
  <2>2. w.called = f[i].macro.really /\ f[i].macro.really \in 0 .. i - 1 BY <1>1 DEF MacroAt
  <2>3. w.called = NumberOf(f, i) /\ w.called \in 0 .. (i + 1) - 1 BY <2>1, <2>2 DEF NumberOf
  <2>4. TaggedAll(w.sub, w.called) BY <1>1, EmptyList DEF TaggedAll
  <2>5. w.plus \in UpTo(i + 1) /\ w.minus \in UpTo(i + 1) BY <1>1 DEF Zero, UpTo
  <2>6. Grown(f, i + 1, i, w) BY <2>1 DEF Grown
  <2>. HIDE DEF w
  <2>. QED BY <2>3, <2>4, <2>5, <2>6 DEF Lives
<1>13. \A l \in 0 .. n : Lives(f, i + 1, o[l], Context(f[i + 1], l))
  <2>. SUFFICES ASSUME NEW l \in 0 .. n PROVE Lives(f, i + 1, o[l], Context(f[i], l)) BY <1>11
  <2>1. CASE l # n
    <3>1. o[l] # o[n] BY <1>3, <1>4, <2>1, OpenOrder
    <3>2. Around(i) # o[l] BY <1>6, <3>1
    <3>. QED BY <1>4, <3>2, LivesStays
  <2>2. CASE l = n
    <3>1. Context(f[i], l) = v BY <2>2 DEF Context, Now
    <3>2. Lives(f, i, o[l], v) BY <1>4, <3>1
    <3>3. v.plus = f[i].macro.plus /\ v.minus = f[i].macro.minus BY DEF Now
    <3>. HIDE DEF v
    <3>4. v.plus \in UpTo(i) /\ v.minus \in UpTo(i) /\ TaggedAll(v.sub, v.called)
      BY <3>2 DEF Lives
    <3>5. v.plus \in UpTo(i + 1) /\ v.minus \in UpTo(i + 1) BY <3>4 DEF UpTo
    <3>6. \A d \in Depths : /\ v.plus[d] = v.plus[d] + OwnSign(patch[i], "plus", d)
                            /\ v.minus[d] = v.minus[d] + OwnSign(patch[i], "minus", d)
      BY <3>4 DEF OwnSign, UpTo
    <3>7. Lives(f, i + 1, o[l], v) BY <3>2, <3>3, <3>4, <3>5, <3>6, LivesGoes
    <3>. QED BY <3>1, <3>7
  <2>. QED BY <2>1, <2>2
<1>14. \A l \in 0 .. n + 1 : Lives(f, i + 1, p[l], Context(f[i + 1], l))
  <2>1. \A l \in 0 .. n + 1 : l \in 0 .. n \/ l = n + 1 BY <1>3
  <2>. HIDE DEF p, w, n
  <2>. QED BY <1>7, <1>8, <1>10, <1>12, <1>13, <2>1
<1>. HIDE DEF p
<1>15. Stacked(f, i + 1, p) BY <1>3, <1>5, <1>14 DEF Stacked
<1>. QED BY <1>3, <1>15 DEF MacroNextIs

\* A call that ends leaves those around it as they were.
LEMMA EndStep ==
  ASSUME NEW f, NEW i \in Nat, i >= 1, MacroAt(f, i), f[i + 1].macro = MacroAfter(f[i], patch[i]),
         patch[i].c = "end_call", f[i].macro.frames # <<>>
  PROVE  MacroNextIs(f, i)
<1>. DEFINE s == f[i].macro.frames   t == f[i + 1].macro.frames   n == Len(s)
<1>1. /\ t = Front(s) /\ Now(f[i + 1]) = [called |-> Last(s).called, sub |-> Last(s).sub,
                                          plus |-> Last(s).plus, minus |-> Last(s).minus]
  BY DEF MacroAfter, Now
<1>2. IsList(s) /\ s # <<>> BY DEF MacroAt
<1>3. /\ IsList(t) /\ Len(t) = n - 1 /\ n \in Nat /\ n > 0 /\ \A l \in 1 .. n - 1 : t[l] = s[l]
      /\ Last(s) = s[n]
  <2>. HIDE DEF s, t
  <2>1. /\ IsList(t) /\ Len(t) = Len(s) - 1 /\ Len(s) \in Nat /\ Len(s) > 0
        /\ \A l \in 1 .. Len(s) - 1 : t[l] = s[l]
    BY <1>1, <1>2, FrontList
  <2>. QED BY <2>1 DEF Last
<1>4. PICK o : OpenCalls(o, n, i) /\ \A l \in 0 .. n : Lives(f, i, o[l], Context(f[i], l))
  BY DEF MacroAt, Stacked
<1>. DEFINE p == [l \in 0 .. n - 1 |-> o[l]]
<1>5. OpenCalls(p, n - 1, i + 1) BY <1>3, <1>4, OpenCallsNext
<1>6. Around(i) = o[n] BY <1>3, <1>4, AroundTop
<1>7. \A l \in 0 .. n - 1 : p[l] = o[l] /\ l \in 0 .. n BY <1>3
<1>8. \A l \in 0 .. n - 1 : Context(f[i + 1], l) = Context(f[i], l)
  <2>. SUFFICES ASSUME NEW l \in 0 .. n - 1 PROVE Context(f[i + 1], l) = Context(f[i], l) OBVIOUS
  <2>1. l # n BY <1>3
  <2>2. Context(f[i], l) = [called |-> s[l + 1].called, sub |-> s[l + 1].sub,
                            plus |-> s[l + 1].plus, minus |-> s[l + 1].minus]
    BY <2>1 DEF Context
  <2>3. CASE l = n - 1
    <3>1. Context(f[i + 1], l) = Now(f[i + 1]) BY <1>3, <2>3 DEF Context, Now
    <3>2. l + 1 = n BY <1>3, <2>3
    <3>. HIDE DEF s, t
    <3>. QED BY <1>1, <1>3, <2>2, <3>1, <3>2
  <2>4. CASE l # n - 1
    <3>1. l + 1 \in 1 .. n - 1 BY <1>3, <2>4
    <3>2. t[l + 1] = s[l + 1] BY <1>3, <3>1
    <3>3. Context(f[i + 1], l) = [called |-> t[l + 1].called, sub |-> t[l + 1].sub,
                                  plus |-> t[l + 1].plus, minus |-> t[l + 1].minus]
      BY <1>3, <2>4 DEF Context
    <3>. QED BY <2>2, <3>2, <3>3
  <2>. QED BY <2>3, <2>4
<1>9. \A l \in 0 .. n - 1 : Lives(f, i + 1, p[l], Context(f[i + 1], l))
  <2>. SUFFICES ASSUME NEW l \in 0 .. n - 1 PROVE Lives(f, i + 1, o[l], Context(f[i], l))
    BY <1>7, <1>8
  <2>1. n \in 1 .. n /\ l \in 0 .. n /\ l # n BY <1>3
  <2>2. o[l] # o[n] BY <1>3, <1>4, <2>1, OpenOrder
  <2>3. Around(i) # o[l] BY <1>6, <2>2
  <2>. QED BY <1>4, <2>1, <2>3, LivesStays
<1>. HIDE DEF p
<1>10. Stacked(f, i + 1, p) BY <1>3, <1>5, <1>9 DEF Stacked
<1>. QED BY <1>3, <1>10 DEF MacroNextIs

LEMMA CountsUp ==
  ASSUME NEW i \in Nat, i >= 1, NEW a \in UpTo(i), NEW g, NEW d, g => d \in Depths
  PROVE  /\ (IF g THEN Counted(a, d) ELSE a) \in UpTo(i + 1)
         /\ \A e \in Depths : (IF g THEN Counted(a, d) ELSE a)[e]
                                = a[e] + IF g /\ d = e THEN 1 ELSE 0
<1>1. /\ DOMAIN a = Depths /\ \A e \in Depths : a[e] \in 0 .. i - 1
      /\ a = [e \in Depths |-> a[e]]
  BY DEF UpTo
<1>2. \A n \in 0 .. i - 1 : n \in 0 .. (i + 1) - 1 /\ n + 1 \in 0 .. (i + 1) - 1 /\ n + 0 = n
  OBVIOUS
<1>3. CASE g
  <2>1. /\ Counted(a, d) = [e \in Depths |-> IF e = d THEN a[d] + 1 ELSE a[e]]
    BY <1>1, <1>3 DEF Counted
  <2>. QED BY <1>1, <1>2, <1>3, <2>1 DEF UpTo
<1>4. CASE ~g BY <1>1, <1>2, <1>4 DEF UpTo
<1>. QED BY <1>3, <1>4

\* Any other command goes on with the innermost call.
LEMMA OtherStep ==
  ASSUME NEW f, NEW i \in Nat, i >= 1, i <= MaxLen, MacroAt(f, i),
         f[i + 1].macro = MacroAfter(f[i], patch[i]), patch[i].c \notin {"call", "end_call"},
         Legal(f[i], patch[i]), IsCommand(patch[i]), PlainAll(f[i].scope.sub),
         PlainOpen(f[i].open)
  PROVE  MacroNextIs(f, i)
<1>. DEFINE c == patch[i]   s == f[i].macro.frames   n == Len(s)
            v == Now(f[i])   w == Now(f[i + 1])
<1>1. /\ f[i + 1].macro.called = f[i].macro.called /\ f[i + 1].macro.frames = s
      /\ f[i + 1].macro.sub = IF Adopting(f[i], c) /\ c.m THEN SubAfter(f[i], c)
                              ELSE f[i].macro.sub
      /\ f[i + 1].macro.plus = IF c.c = "plus" /\ c.m THEN Counted(f[i].macro.plus, c.d)
                               ELSE f[i].macro.plus
      /\ f[i + 1].macro.minus = IF c.c = "minus" /\ c.m THEN Counted(f[i].macro.minus, c.d)
                                ELSE f[i].macro.minus
  BY DEF MacroAfter
<1>2. IsList(s) /\ n \in Nat BY DEF MacroAt, IsList
<1>3. PICK o : OpenCalls(o, n, i) /\ \A l \in 0 .. n : Lives(f, i, o[l], Context(f[i], l))
  BY DEF MacroAt, Stacked
<1>4. OpenCalls(o, n, i + 1) BY <1>2, <1>3, OpenCallsNext
<1>5. Around(i) = o[n] BY <1>2, <1>3, AroundTop
<1>6. Context(f[i], n) = v /\ Context(f[i + 1], n) = w BY <1>1 DEF Context, Now
<1>7. Lives(f, i, o[n], v) BY <1>2, <1>3, <1>6
<1>8. /\ v.called = f[i].macro.called /\ v.sub = f[i].macro.sub /\ v.plus = f[i].macro.plus
      /\ v.minus = f[i].macro.minus
      /\ w.called = f[i + 1].macro.called /\ w.sub = f[i + 1].macro.sub
      /\ w.plus = f[i + 1].macro.plus /\ w.minus = f[i + 1].macro.minus
  BY DEF Now
<1>. HIDE DEF v, w
<1>9. /\ f[i].macro.called \in 0 .. i - 1 /\ TaggedAll(f[i].macro.sub, f[i].macro.called)
      /\ f[i].macro.plus \in UpTo(i) /\ f[i].macro.minus \in UpTo(i)
  BY <1>7, <1>8, Zenon DEF Lives
<1>10. f[i].macro.called \in Nat /\ Numeral(f[i].macro.called)
  BY <1>9, NamesAssumption DEF Numeral
<1>11. TaggedAll(w.sub, w.called)
  <2>1. CASE ~(Adopting(f[i], c) /\ c.m) BY <1>1, <1>8, <1>9, <2>1
  <2>2. CASE Adopting(f[i], c) /\ c.m
    <3>1. /\ c.c = "label" /\ f[i].open.in = "no" /\ c.m BY <2>2 DEF Adopting
    <3>2. /\ LabelNameOf(f[i], c) # <<>> /\ IsPath(c.path) /\ c.dots \in Nat
      BY <3>1, NamesAssumption DEF Legal, IsCommand
    <3>3. Kind(LabelNameOf(f[i], c), c.m, f[i].macro.called)
      BY <1>9, <1>10, <3>2, LabelNameKind
    <3>4. /\ IsList(ParentsOf(f[i], c.m))
          /\ \A q \in 1 .. Len(ParentsOf(f[i], c.m)) :
               Kind(ParentsOf(f[i], c.m)[q], c.m, f[i].macro.called)
      BY <1>9, <3>1 DEF ParentsOf, TaggedAll, Kind
    <3>5. /\ IsList(SubAfter(f[i], c))
          /\ \A q \in 1 .. Len(SubAfter(f[i], c)) :
               Kind(SubAfter(f[i], c)[q], c.m, f[i].macro.called)
      BY <3>1, <3>2, <3>3, <3>4, SubKind
    <3>6. TaggedAll(SubAfter(f[i], c), f[i].macro.called) BY <3>1, <3>5 DEF TaggedAll, Kind
    <3>. QED BY <1>1, <1>8, <2>2, <3>6
  <2>. QED BY <2>1, <2>2
<1>12. /\ w.plus \in UpTo(i + 1) /\ w.minus \in UpTo(i + 1)
       /\ \A d \in Depths : /\ w.plus[d] = v.plus[d] + OwnSign(c, "plus", d)
                            /\ w.minus[d] = v.minus[d] + OwnSign(c, "minus", d)
  <2>1. c.c \in {"plus", "minus"} => c.d \in Depths BY DEF IsCommand
  <2>2. /\ w.plus \in UpTo(i + 1)
        /\ \A d \in Depths : w.plus[d] = v.plus[d] + OwnSign(c, "plus", d)
    <3>. DEFINE g == c.c = "plus" /\ c.m
    <3>1. w.plus = IF g THEN Counted(v.plus, c.d) ELSE v.plus BY <1>1, <1>8
    <3>2. \A d \in Depths : OwnSign(c, "plus", d) = IF g /\ c.d = d THEN 1 ELSE 0 BY DEF OwnSign
    <3>3. g => c.d \in Depths BY <2>1
    <3>. HIDE DEF g, c
    <3>4. v.plus \in UpTo(i) BY <1>8, <1>9
    <3>5. /\ (IF g THEN Counted(v.plus, c.d) ELSE v.plus) \in UpTo(i + 1)
          /\ \A e \in Depths : (IF g THEN Counted(v.plus, c.d) ELSE v.plus)[e]
                                 = v.plus[e] + IF g /\ c.d = e THEN 1 ELSE 0
      BY <3>3, <3>4, CountsUp
    <3>. QED BY <3>1, <3>2, <3>5
  <2>3. /\ w.minus \in UpTo(i + 1)
        /\ \A d \in Depths : w.minus[d] = v.minus[d] + OwnSign(c, "minus", d)
    <3>. DEFINE g == c.c = "minus" /\ c.m
    <3>1. w.minus = IF g THEN Counted(v.minus, c.d) ELSE v.minus BY <1>1, <1>8
    <3>2. \A d \in Depths : OwnSign(c, "minus", d) = IF g /\ c.d = d THEN 1 ELSE 0 BY DEF OwnSign
    <3>3. g => c.d \in Depths BY <2>1
    <3>. HIDE DEF g, c
    <3>4. v.minus \in UpTo(i) BY <1>8, <1>9
    <3>5. /\ (IF g THEN Counted(v.minus, c.d) ELSE v.minus) \in UpTo(i + 1)
          /\ \A e \in Depths : (IF g THEN Counted(v.minus, c.d) ELSE v.minus)[e]
                                 = v.minus[e] + IF g /\ c.d = e THEN 1 ELSE 0
      BY <3>3, <3>4, CountsUp
    <3>. QED BY <3>1, <3>2, <3>5
  <2>. QED BY <2>2, <2>3
<1>13. Lives(f, i + 1, o[n], w)
  <2>1. w.called = v.called BY <1>1, <1>8
  <2>. QED BY <1>7, <1>8, <1>11, <1>12, <2>1, LivesGoes
<1>14. \A l \in 0 .. n : Lives(f, i + 1, o[l], Context(f[i + 1], l))
  <2>. SUFFICES ASSUME NEW l \in 0 .. n PROVE Lives(f, i + 1, o[l], Context(f[i + 1], l)) OBVIOUS
  <2>1. CASE l = n BY <1>6, <1>13, <2>1
  <2>2. CASE l # n
    <3>1. o[l] # o[n] BY <1>2, <1>3, <2>2, OpenOrder
    <3>2. Around(i) # o[l] BY <1>5, <3>1
    <3>3. Lives(f, i + 1, o[l], Context(f[i], l)) BY <1>3, <3>2, LivesStays
    <3>4. Context(f[i + 1], l) = Context(f[i], l) BY <1>1, <2>2 DEF Context
    <3>. QED BY <3>3, <3>4
  <2>. QED BY <2>1, <2>2
<1>15. Stacked(f, i + 1, o) BY <1>1, <1>4, <1>14 DEF Stacked
<1>. QED BY <1>1, <1>2, <1>15 DEF MacroNextIs

LEMMA MacroStep ==
  ASSUME NEW f, NEW i \in Nat, i >= 1, i <= MaxLen, \A j \in 1 .. i : MacroAt(f, j),
         f[i + 1].macro = MacroAfter(f[i], patch[i]),
         Legal(f[i], patch[i]), IsCommand(patch[i]), PlainAll(f[i].scope.sub),
         PlainOpen(f[i].open)
  PROVE  MacroAt(f, i + 1)
<1>1. i \in 1 .. i /\ (i + 1) - 1 = i OBVIOUS
<1>2. MacroAt(f, i) BY <1>1
<1>3. /\ f[i + 1].macro.really \in 0 .. i
      /\ \A k \in 1 .. i : patch[k].c = "call" =>
           f[k].macro.really \in Nat /\ f[k].macro.really < f[i + 1].macro.really
  BY <1>2, ReallyNext
<1>4. MacroNextIs(f, i)
  <2>1. CASE patch[i].c = "call"
    <3>1. ASSUME NEW j \in 1 .. i PROVE Around(j) # i
      <4>1. Around(j) \in 0 .. j - 1 /\ j \in Nat /\ j >= 1 BY MacroTop
      <4>. QED BY <4>1
    <3>. QED BY <1>2, <2>1, <3>1, CallStep
  <2>2. CASE patch[i].c = "end_call"
    <3>1. f[i].macro.frames # <<>> BY <2>2 DEF Legal
    <3>. QED BY <1>2, <2>2, <3>1, EndStep
  <2>3. CASE patch[i].c \notin {"call", "end_call"} BY <1>2, <2>3, OtherStep
  <2>. QED BY <2>1, <2>2, <2>3
<1>. QED BY <1>1, <1>3, <1>4 DEF MacroAt, MacroNextIs

LEMMA ScopeStep ==
  ASSUME NEW f, NEW i \in Nat, i >= 1, i <= MaxLen, MacroAt(f, i), \A j \in 1 .. i : ScopeAt(f, j),
         f[i + 1].scope = ScopeAfter(f[i], patch[i]),
         Legal(f[i], patch[i]), IsCommand(patch[i]), PlainOpen(f[i].open)
  PROVE  ScopeAt(f, i + 1)
<1>. DEFINE c == patch[i]   a == f[i].scope   b == f[i + 1].scope
<1>0. ScopeAt(f, i)
  <2>1. i \in 1 .. i OBVIOUS
  <2>. QED BY <2>1
<1>1. /\ b.sub = IF Adopting(f[i], c) /\ ~c.m THEN SubAfter(f[i], c) ELSE a.sub
      /\ b.plus = IF c.c = "plus" /\ ~c.m THEN Counted(a.plus, c.d) ELSE a.plus
      /\ b.minus = IF c.c = "minus" /\ ~c.m THEN Counted(a.minus, c.d) ELSE a.minus
  BY DEF ScopeAfter
<1>2. PlainAll(b.sub)
  <2>1. CASE ~(Adopting(f[i], c) /\ ~c.m) BY <1>0, <1>1, <2>1 DEF ScopeAt
  <2>2. CASE Adopting(f[i], c) /\ ~c.m
    <3>1. c.c = "label" /\ f[i].open.in = "no" /\ ~c.m BY <2>2 DEF Adopting
    <3>2. LabelNameOf(f[i], c) # <<>> /\ IsPath(c.path) /\ c.dots \in Nat
      BY <3>1, NamesAssumption DEF Legal, IsCommand
    <3>3. Lives(f, i, Around(i), Now(f[i])) BY MacroTop
    <3>4. /\ Now(f[i]).called = f[i].macro.called /\ Now(f[i]).sub = f[i].macro.sub BY DEF Now
    <3>5. f[i].macro.called \in 0 .. i - 1 /\ TaggedAll(f[i].macro.sub, f[i].macro.called)
      BY <3>3, <3>4, Zenon DEF Lives
    <3>6. f[i].macro.called \in Nat /\ Numeral(f[i].macro.called)
      BY <3>5, NamesAssumption DEF Numeral
    <3>7. Kind(LabelNameOf(f[i], c), c.m, f[i].macro.called)
      BY <1>0, <3>2, <3>5, <3>6, LabelNameKind DEF ScopeAt
    <3>8. /\ IsList(ParentsOf(f[i], c.m))
          /\ \A q \in 1 .. Len(ParentsOf(f[i], c.m)) :
               Kind(ParentsOf(f[i], c.m)[q], c.m, f[i].macro.called)
      BY <1>0, <3>1 DEF ParentsOf, PlainAll, Kind, ScopeAt
    <3>9. /\ IsList(SubAfter(f[i], c))
          /\ \A q \in 1 .. Len(SubAfter(f[i], c)) :
               Kind(SubAfter(f[i], c)[q], c.m, f[i].macro.called)
      BY <3>1, <3>2, <3>7, <3>8, SubKind
    <3>10. PlainAll(SubAfter(f[i], c)) BY <3>1, <3>9 DEF PlainAll, Kind
    <3>. QED BY <1>1, <2>2, <3>10
  <2>. QED BY <2>1, <2>2
<1>3. c.c \in {"plus", "minus"} => c.d \in Depths BY DEF IsCommand
<1>4. a.plus \in UpTo(i) /\ a.minus \in UpTo(i) BY <1>0 DEF ScopeAt
<1>5. /\ b.plus \in UpTo(i + 1)
      /\ \A d \in Depths : b.plus[d] = a.plus[d] + FreeSign(c, "plus", d)
  <2>. DEFINE g == c.c = "plus" /\ ~c.m
  <2>1. b.plus = IF g THEN Counted(a.plus, c.d) ELSE a.plus BY <1>1
  <2>2. \A d \in Depths : FreeSign(c, "plus", d) = IF g /\ c.d = d THEN 1 ELSE 0 BY DEF FreeSign
  <2>3. g => c.d \in Depths BY <1>3
  <2>. HIDE DEF g
  <2>. QED BY <1>4, <2>1, <2>2, <2>3, CountsUp
<1>6. /\ b.minus \in UpTo(i + 1)
      /\ \A d \in Depths : b.minus[d] = a.minus[d] + FreeSign(c, "minus", d)
  <2>. DEFINE g == c.c = "minus" /\ ~c.m
  <2>1. b.minus = IF g THEN Counted(a.minus, c.d) ELSE a.minus BY <1>1
  <2>2. \A d \in Depths : FreeSign(c, "minus", d) = IF g /\ c.d = d THEN 1 ELSE 0 BY DEF FreeSign
  <2>3. g => c.d \in Depths BY <1>3
  <2>. HIDE DEF g
  <2>. QED BY <1>4, <2>1, <2>2, <2>3, CountsUp
<1>7. \A d \in Depths : /\ a.plus[d] \in Nat /\ a.minus[d] \in Nat
                        /\ b.plus[d] \in Nat /\ a.plus[d] <= b.plus[d]
                        /\ b.minus[d] \in Nat /\ a.minus[d] <= b.minus[d]
  <2>. SUFFICES ASSUME NEW d \in Depths
       PROVE  /\ a.plus[d] \in Nat /\ a.minus[d] \in Nat
              /\ b.plus[d] \in Nat /\ a.plus[d] <= b.plus[d]
              /\ b.minus[d] \in Nat /\ a.minus[d] <= b.minus[d]
    OBVIOUS
  <2>1. a.plus[d] \in 0 .. i - 1 /\ a.minus[d] \in 0 .. i - 1 BY <1>4 DEF UpTo
  <2>2. FreeSign(c, "plus", d) \in 0 .. 1 /\ FreeSign(c, "minus", d) \in 0 .. 1 BY DEF FreeSign
  <2>. HIDE DEF a, b, c
  <2>. QED BY <1>5, <1>6, <2>1, <2>2
<1>8. ASSUME NEW j \in 1 .. i, NEW d \in Depths
      PROVE  /\ f[j].scope.plus[d] + FreeSign(patch[j], "plus", d) <= b.plus[d]
             /\ f[j].scope.minus[d] + FreeSign(patch[j], "minus", d) <= b.minus[d]
  <2>1. CASE j = i BY <1>5, <1>6, <1>7, <2>1
  <2>2. CASE j \in 1 .. i - 1
    <3>1. PICK x, y, p, q : /\ x = f[j].scope.plus[d] + FreeSign(patch[j], "plus", d)
                            /\ y = f[j].scope.minus[d] + FreeSign(patch[j], "minus", d)
                            /\ p = f[j].scope.plus[d] /\ q = f[j].scope.minus[d]
      OBVIOUS
    <3>2. x <= a.plus[d] /\ y <= a.minus[d] BY <1>0, <2>2, <3>1 DEF ScopeAt
    <3>0. x \in Int /\ y \in Int
      <4>1. f[j].scope.plus \in UpTo(j) /\ f[j].scope.minus \in UpTo(j) BY DEF ScopeAt
      <4>2. p \in Int /\ q \in Int BY <3>1, <4>1 DEF UpTo
      <4>3. FreeSign(patch[j], "plus", d) \in Int /\ FreeSign(patch[j], "minus", d) \in Int
        BY DEF FreeSign
      <4>. QED BY <3>1, <4>2, <4>3
    <3>3. PICK x2, y2, p2, q2 : /\ x2 = a.plus[d] /\ y2 = a.minus[d]
                                /\ p2 = b.plus[d] /\ q2 = b.minus[d]
      OBVIOUS
    <3>4. x <= x2 /\ y <= y2 /\ x \in Int /\ y \in Int BY <3>0, <3>2, <3>3
    <3>5. x2 \in Nat /\ p2 \in Nat /\ y2 \in Nat /\ q2 \in Nat /\ x2 <= p2 /\ y2 <= q2
      BY <1>7, <3>3
    <3>6. x <= p2 /\ y <= q2 BY <3>4, <3>5
    <3>. QED BY <3>1, <3>3, <3>6
  <2>3. j = i \/ j \in 1 .. i - 1 OBVIOUS
  <2>. QED BY <2>1, <2>2, <2>3
<1>9. (i + 1) - 1 = i OBVIOUS
<1>. QED BY <1>2, <1>5, <1>6, <1>8, <1>9 DEF ScopeAt

LEMMA PlainAppend == ASSUME NEW s, Plain(s), NEW w, w \notin Reserved PROVE Plain(Append(s, w))
<1>1. IsList(s) BY DEF Plain
<1>2. /\ IsList(Append(s, w)) /\ Len(Append(s, w)) = Len(s) + 1 /\ Len(s) \in Nat
      /\ \A i \in 1 .. Len(s) : Append(s, w)[i] = s[i]
      /\ Append(s, w)[Len(s) + 1] = w
  BY <1>1, AppendList
<1>3. \A p \in 1 .. Len(s) + 1 : p \in 1 .. Len(s) \/ p = Len(s) + 1 BY <1>2
<1>. QED BY <1>2, <1>3 DEF Plain

LEMMA PlainFront == ASSUME NEW s, Plain(s), s # <<>> PROVE Plain(Front(s))
<1>1. IsList(s) BY DEF Plain
<1>2. /\ IsList(Front(s)) /\ Len(Front(s)) = Len(s) - 1 /\ Len(s) \in Nat
      /\ \A i \in 1 .. Len(s) - 1 : Front(s)[i] = s[i]
  BY <1>1, FrontList
<1>3. \A p \in 1 .. Len(s) - 1 : p \in 1 .. Len(s) BY <1>2
<1>. QED BY <1>2, <1>3 DEF Plain

LEMMA SpaceStep ==
  ASSUME NEW a, PlainSpace(a), NEW c, IsCommand(c), c.c = "pullns" => a.depth # 0
  PROVE  PlainSpace(SpaceAfter(a, c))
<1>1. /\ Plain(a.ns) /\ Plain(a.list) /\ IsList(a.slots) /\ a.depth \in 0 .. Len(a.slots)
      /\ \A k \in 1 .. Len(a.slots) : PlainSlot(a.slots[k])
  BY DEF PlainSpace
<1>2. Len(a.slots) \in Nat /\ Plain(<<>>) BY <1>1, PlainWords DEF IsList
<1>3. ASSUME NEW l, NEW n, Plain(l),
             SpaceAfter(a, c) = [ns |-> l, list |-> l, nested |-> n, slots |-> a.slots,
                                 depth |-> a.depth]
      PROVE  PlainSpace(SpaceAfter(a, c))
  BY <1>1, <1>3 DEF PlainSpace
<1>4. CASE c.c = "namespace"
  <2>. DEFINE l == Append(IF a.nested THEN a.list ELSE <<>>, c.name)
  <2>1. Plain(l) BY <1>1, <1>2, <1>4, PlainAppend DEF IsCommand
  <2>2. SpaceAfter(a, c) = [ns |-> l, list |-> l, nested |-> a.nested, slots |-> a.slots,
                            depth |-> a.depth]
    BY <1>4 DEF SpaceAfter
  <2>. HIDE DEF l
  <2>. QED BY <1>3, <2>1, <2>2
<1>5. CASE c.c = "namespace_off"
  <2>. DEFINE l == IF a.nested /\ a.list # <<>> THEN Front(a.list) ELSE <<>>
  <2>1. Plain(l) BY <1>1, <1>2, PlainFront
  <2>2. SpaceAfter(a, c) = [ns |-> l, list |-> l, nested |-> a.nested, slots |-> a.slots,
                            depth |-> a.depth]
    BY <1>5 DEF SpaceAfter
  <2>. HIDE DEF l
  <2>. QED BY <1>3, <2>1, <2>2
<1>6. CASE c.c = "namespace_nested"
  <2>1. SpaceAfter(a, c) = [ns |-> a.list, list |-> a.list, nested |-> c.on, slots |-> a.slots,
                            depth |-> a.depth]
    BY <1>6 DEF SpaceAfter
  <2>. QED BY <1>1, <1>3, <2>1
<1>7. CASE c.c = "pushns"
  <2>. DEFINE k == a.depth + 1
              left == IF k \in DOMAIN a.slots THEN a.slots[k].list ELSE <<>>
              slot == [ns |-> a.ns, list |-> left \o a.list, nested |-> a.nested]
              z == IF k \in DOMAIN a.slots THEN [a.slots EXCEPT ![k] = slot]
                                           ELSE Append(a.slots, slot)
  <2>1. DOMAIN a.slots = 1 .. Len(a.slots) BY <1>1 DEF IsList
  <2>2. Plain(left) BY <1>1, <1>2, <2>1 DEF PlainSlot
  <2>. HIDE DEF left
  <2>3. PlainSlot(slot) BY <1>1, <2>2, PlainConcat DEF PlainSlot
  <2>. HIDE DEF slot
  <2>4. IsList(z) /\ k \in 0 .. Len(z) /\ \A q \in 1 .. Len(z) : PlainSlot(z[q])
    <3>1. CASE k \in DOMAIN a.slots
      <4>1. z = [a.slots EXCEPT ![k] = slot] BY <3>1
      <4>2. a.slots \in Seq(ToSet(a.slots)) /\ ToSet(a.slots) \subseteq ToSet(a.slots) \cup {slot}
        BY <1>1 DEF IsList
      <4>3. a.slots \in Seq(ToSet(a.slots) \cup {slot}) BY <4>2
      <4>. HIDE DEF z
      <4>4. z \in Seq(ToSet(a.slots) \cup {slot}) /\ Len(z) = Len(a.slots) BY <2>1, <3>1, <4>1, <4>3
      <4>5. IsList(z) BY <4>4, IsListOf
      <4>6. k \in 0 .. Len(z) BY <2>1, <3>1, <4>4
      <4>7. \A q \in 1 .. Len(a.slots) : z[q] = IF q = k THEN slot ELSE a.slots[q]
        BY <2>1, <4>1
      <4>. QED BY <1>1, <2>3, <4>4, <4>5, <4>6, <4>7
    <3>2. CASE k \notin DOMAIN a.slots
      <4>1. z = Append(a.slots, slot) BY <3>2
      <4>. HIDE DEF z
      <4>2. /\ IsList(z) /\ Len(z) = Len(a.slots) + 1
            /\ \A q \in 1 .. Len(a.slots) : z[q] = a.slots[q]
            /\ z[Len(a.slots) + 1] = slot
        BY <1>1, <4>1, AppendList
      <4>3. \A q \in 1 .. Len(a.slots) + 1 : q \in 1 .. Len(a.slots) \/ q = Len(a.slots) + 1
        BY <1>2
      <4>4. k \in 0 .. Len(z) BY <1>1, <1>2, <4>2
      <4>. QED BY <1>1, <2>3, <4>2, <4>3, <4>4
    <3>. QED BY <3>1, <3>2
  <2>5. SpaceAfter(a, c) = [ns |-> <<>>, list |-> <<>>, nested |-> FALSE, depth |-> k, slots |-> z]
    BY <1>7 DEF SpaceAfter, slot, left
  <2>. HIDE DEF z, k
  <2>. QED BY <1>2, <2>4, <2>5 DEF PlainSpace
<1>8. CASE c.c = "pullns"
  <2>1. a.depth \in 1 .. Len(a.slots) /\ a.depth - 1 \in 0 .. Len(a.slots) BY <1>1, <1>2, <1>8
  <2>2. PlainSlot(a.slots[a.depth]) BY <1>1, <2>1
  <2>. DEFINE v == a.slots[a.depth]
  <2>3. SpaceAfter(a, c) = [ns |-> v.ns, list |-> v.list, nested |-> v.nested,
                            slots |-> a.slots, depth |-> a.depth - 1]
    BY <1>8 DEF SpaceAfter
  <2>4. Plain(v.ns) /\ Plain(v.list) BY <2>2 DEF PlainSlot
  <2>. HIDE DEF v
  <2>. QED BY <1>1, <2>1, <2>3, <2>4 DEF PlainSpace
<1>9. CASE c.c \notin {"namespace", "namespace_off", "namespace_nested", "pushns", "pullns"}
  <2>1. SpaceAfter(a, c) = a BY <1>9 DEF SpaceAfter
  <2>. QED BY <2>1
<1>. QED BY <1>4, <1>5, <1>6, <1>7, <1>8, <1>9

LEMMA OpenStep ==
  ASSUME NEW a, PlainOpen(a), NEW c, IsCommand(c)
  PROVE  PlainOpen(OpenAfter(a, c))
<1>1. Plain(<<>>) BY PlainWords
<1>2. CASE c.c = "struct"
  <2>1. Plain(c.name) /\ (c.base = "extends" => Plain(c.parent)) BY <1>2, PathPlain DEF IsCommand
  <2>2. /\ OpenAfter(a, c).name = c.name
        /\ OpenAfter(a, c).parent = IF c.base = "extends" THEN c.parent ELSE <<>>
    BY <1>2 DEF OpenAfter
  <2>. QED BY <1>1, <2>1, <2>2 DEF PlainOpen
<1>3. CASE c.c = "endstruct" BY <1>1, <1>3 DEF OpenAfter, PlainOpen, NotOpen
<1>4. CASE c.c \notin {"struct", "endstruct"} BY <1>4 DEF OpenAfter
<1>. QED BY <1>2, <1>3, <1>4

RunAt(f, i) ==
  MacroAt(f, i) /\ ScopeAt(f, i) /\ PlainSpace(f[i].space) /\ PlainOpen(f[i].open)

LEMMA RunStart == ASSUME NEW f, f[1] = Start PROVE RunAt(f, 1)
<1>1. /\ f[1].macro = [called |-> 0, really |-> 0, frames |-> <<>>, sub |-> <<>>, plus |-> Zero,
                       minus |-> Zero]
      /\ f[1].scope = [sub |-> <<>>, plus |-> Zero, minus |-> Zero]
      /\ f[1].space = [ns |-> <<>>, list |-> <<>>, nested |-> FALSE, slots |-> <<>>, depth |-> 0]
      /\ f[1].open = NotOpen
  BY DEF Start
<1>2. Zero \in UpTo(1) BY DEF Zero, UpTo
<1>3. 1 .. 1 - 1 = {} /\ 0 \in 0 .. 1 - 1 OBVIOUS
<1>4. IsList(<<>>) /\ Len(<<>>) = 0 /\ Plain(<<>>) BY EmptyList, PlainWords
<1>5. \E o : Stacked(f, 1, o)
  <2>. DEFINE o == [l \in 0 .. 0 |-> 0]
  <2>1. o \in [0 .. 0 -> 0 .. 1 - 1] /\ o[0] = 0 OBVIOUS
  <2>. HIDE DEF o
  <2>2. CallsAround(1) = {} BY <1>3 DEF CallsAround
  <2>3. 1 .. 0 = {} OBVIOUS
  <2>4. OpenCalls(o, 0, 1) BY <2>1, <2>2, <2>3 DEF OpenCalls
  <2>5. Len(f[1].macro.frames) = 0 BY <1>1, <1>4
  <2>. DEFINE v == Context(f[1], 0)
  <2>6. v.called = 0 /\ v.sub = <<>> /\ v.plus = Zero /\ v.minus = Zero
    BY <1>1, <2>5 DEF Context
  <2>. HIDE DEF v
  <2>7. TaggedAll(<<>>, 0) BY <1>4 DEF TaggedAll
  <2>8. Grown(f, 1, 0, v) BY <1>3 DEF Grown
  <2>9. NumberOf(f, 0) = 0 BY DEF NumberOf
  <2>10. Lives(f, 1, 0, v) BY <1>2, <1>3, <2>6, <2>7, <2>8, <2>9 DEF Lives
  <2>11. \A l \in 0 .. 0 : l = 0 OBVIOUS
  <2>12. \A l \in 0 .. 0 : Lives(f, 1, o[l], Context(f[1], l)) BY <2>1, <2>10, <2>11 DEF v
  <2>. QED BY <2>4, <2>5, <2>12 DEF Stacked
<1>6. MacroAt(f, 1) BY <1>1, <1>3, <1>4, <1>5 DEF MacroAt
<1>7. ScopeAt(f, 1) BY <1>1, <1>2, <1>3, <1>4 DEF ScopeAt, PlainAll
<1>8. PlainSpace(f[1].space) BY <1>1, <1>4 DEF PlainSpace
<1>9. PlainOpen(f[1].open) BY <1>1, <1>4 DEF PlainOpen, NotOpen
<1>. QED BY <1>6, <1>7, <1>8, <1>9 DEF RunAt

LEMMA RunNext ==
  ASSUME NEW f, LegalRun(f), NEW i \in 1 .. Len(patch), \A j \in 1 .. i : RunAt(f, j)
  PROVE  RunAt(f, i + 1)
<1>1. /\ i \in Nat /\ i >= 1 /\ i <= MaxLen /\ MaxLen \in Nat
      /\ Legal(f[i], patch[i]) /\ IsCommand(patch[i])
      /\ f[i + 1].space = SpaceAfter(f[i].space, patch[i])
      /\ f[i + 1].scope = ScopeAfter(f[i], patch[i])
      /\ f[i + 1].macro = MacroAfter(f[i], patch[i])
      /\ f[i + 1].open = OpenAfter(f[i].open, patch[i])
  BY RunStep
<1>2. RunAt(f, i)
  <2>1. i \in 1 .. i BY <1>1
  <2>. QED BY <2>1
<1>3. \A j \in 1 .. i : MacroAt(f, j) /\ ScopeAt(f, j) BY DEF RunAt
<1>4. /\ MacroAt(f, i) /\ ScopeAt(f, i) /\ PlainSpace(f[i].space) /\ PlainOpen(f[i].open)
      /\ PlainAll(f[i].scope.sub)
  BY <1>2 DEF RunAt, ScopeAt
<1>5. MacroAt(f, i + 1) BY <1>1, <1>3, <1>4, MacroStep
<1>6. ScopeAt(f, i + 1) BY <1>1, <1>3, <1>4, ScopeStep
<1>7. PlainSpace(f[i + 1].space)
  <2>1. patch[i].c = "pullns" => f[i].space.depth # 0 BY <1>1 DEF Legal
  <2>. QED BY <1>1, <1>4, <2>1, SpaceStep
<1>8. PlainOpen(f[i + 1].open) BY <1>1, <1>4, OpenStep
<1>. QED BY <1>5, <1>6, <1>7, <1>8 DEF RunAt

Below == { ss \in Nat \X Nat : ss[1] < ss[2] }

LEMMA BelowFounded == IsWellFoundedOn(Below, Nat)
BY NatLessThanWellFounded DEF OpToRel, Below

LEMMA Induction ==
  ASSUME NEW S \in SUBSET Nat, 0 \in S, \A n \in S : n + 1 \in S
  PROVE  S = Nat
<1>1. SUFFICES ASSUME Nat \ S # {} PROVE FALSE
  OBVIOUS
<1>2. PICK x \in Nat \ S : \A y \in Nat \ S : <<y, x>> \notin Below
  <2>1. Nat \ S \subseteq Nat OBVIOUS
  <2>. QED BY <1>1, <2>1, BelowFounded, WFMin
<1>3. x # 0 /\ x - 1 \in Nat BY <1>2
<1>4. x - 1 \notin S BY <1>3
<1>5. <<x - 1, x>> \in Below BY <1>2, <1>3 DEF Below
<1>. QED BY <1>2, <1>3, <1>4, <1>5

\* What a run says is true of all of it.
LEMMA RunAlways ==
  ASSUME NEW f, LegalRun(f)
  PROVE  \A i \in 1 .. Len(patch) + 1 : RunAt(f, i)
<1>1. PICK len \in Nat : len = Len(patch) BY NamesAssumption DEF LegalRun
<1>. DEFINE S == { n \in Nat : \A j \in 1 .. n + 1 : j <= len + 1 => RunAt(f, j) }
<1>2. 0 \in S
  <2>1. RunAt(f, 1) BY RunStart DEF LegalRun, IsRun
  <2>2. \A j \in 1 .. 0 + 1 : j = 1 OBVIOUS
  <2>. QED BY <2>1, <2>2
<1>3. ASSUME NEW n \in S PROVE n + 1 \in S
  <2>1. n \in Nat /\ \A j \in 1 .. n + 1 : j <= len + 1 => RunAt(f, j) OBVIOUS
  <2>. HIDE DEF S
  <2>2. ASSUME n + 2 <= len + 1 PROVE RunAt(f, n + 2)
    <3>1. n + 1 \in 1 .. len /\ \A j \in 1 .. n + 1 : j <= len + 1 BY <2>1, <2>2
    <3>2. \A j \in 1 .. n + 1 : RunAt(f, j) BY <2>1, <3>1
    <3>3. RunAt(f, (n + 1) + 1) BY <1>1, <3>1, <3>2, RunNext
    <3>4. (n + 1) + 1 = n + 2 BY <2>1
    <3>. QED BY <3>3, <3>4
  <2>3. \A j \in 1 .. (n + 1) + 1 : j \in 1 .. n + 1 \/ j = n + 2 BY <2>1
  <2>4. \A j \in 1 .. (n + 1) + 1 : j <= len + 1 => RunAt(f, j) BY <2>1, <2>2, <2>3
  <2>5. n + 1 \in Nat BY <2>1
  <2>. QED BY <2>4, <2>5 DEF S
<1>. HIDE DEF S
<1>4. S \subseteq Nat BY DEF S
<1>5. S = Nat BY <1>2, <1>3, <1>4, Induction
<1>6. len \in S BY <1>1, <1>5
<1>7. \A j \in 1 .. len + 1 : j <= len + 1 OBVIOUS
<1>. QED BY <1>1, <1>6, <1>7 DEF S

\* There is only one.
LEMMA RunsAgree ==
  ASSUME Len(patch) \in Nat, NEW f, IsRun(f), NEW g, IsRun(g)
  PROVE  \A i \in 1 .. Len(patch) + 1 : f[i] = g[i]
<1>1. PICK len \in Nat : len = Len(patch) OBVIOUS
<1>. DEFINE S == { n \in Nat : n + 1 <= len + 1 => f[n + 1] = g[n + 1] }
<1>2. 0 \in S
  <2>1. f[1] = g[1] /\ 0 + 1 = 1 BY DEF IsRun
  <2>. QED BY <2>1
<1>3. ASSUME NEW n \in S PROVE n + 1 \in S
  <2>1. n \in Nat /\ (n + 1 <= len + 1 => f[n + 1] = g[n + 1]) OBVIOUS
  <2>. HIDE DEF S
  <2>2. ASSUME (n + 1) + 1 <= len + 1 PROVE f[(n + 1) + 1] = g[(n + 1) + 1]
    <3>1. n + 1 \in 1 .. len /\ n + 1 <= len + 1 BY <2>1, <2>2
    <3>2. /\ f[(n + 1) + 1] = After(f[n + 1], patch[n + 1])
          /\ g[(n + 1) + 1] = After(g[n + 1], patch[n + 1])
      BY <1>1, <3>1 DEF IsRun
    <3>. QED BY <2>1, <3>1, <3>2
  <2>. QED BY <2>1, <2>2 DEF S
<1>. HIDE DEF S
<1>4. S \subseteq Nat BY DEF S
<1>5. S = Nat BY <1>2, <1>3, <1>4, Induction
<1>6. ASSUME NEW i \in 1 .. len + 1 PROVE f[i] = g[i]
  <2>1. i - 1 \in S /\ (i - 1) + 1 = i /\ i <= len + 1 BY <1>5
  <2>. QED BY <2>1 DEF S
<1>. QED BY <1>1, <1>6

-----------------------------------------------------------------------------
(***************************************************************************)
(* What a step adds to the labels, and what a reference finds              *)
(***************************************************************************)

\* The name a reference looks for.
RefOf(s, u) ==
  CASE u.c = "use" -> LabelNameOf(s, u)
    [] u.c = "use_plus" ->
         IF s.open.in # "no" \/ (u.m /\ s.macro.frames = <<>>) THEN <<>>
         ELSE Append(TagOf(s, u.m) \o <<":pos", Digit[u.d]>>,
                     Digit[1 + IF u.m THEN s.macro.plus[u.d] ELSE s.scope.plus[u.d]])
    [] u.c = "use_minus" ->
         IF s.open.in # "no" \/ (u.m /\ s.macro.frames = <<>>) THEN <<>>
         ELSE Append(TagOf(s, u.m) \o <<":neg", Digit[u.d]>>,
                     Digit[1 + IF u.m THEN s.macro.minus[u.d] ELSE s.scope.minus[u.d]])
Refers(c) == c.c \in {"use", "use_plus", "use_minus"}
Step(c) ==
  /\ Reads(c) /\ Legal(Reading, c)
  /\ \/ labels' = labels
     \/ pass < 2 /\ \E p : labels' = With(labels, NameOf(Reading, c), [pos |-> p, at |-> at])
  /\ IF Refers(c) /\ pass > 0
     THEN /\ RefOf(Reading, c) # <<>>
          /\ \E name \in {RefOf(Reading, c), ns \o RefOf(Reading, c)} :
               name \in DOMAIN labels /\ found' = [found EXCEPT ![at] = labels[name].at]
     ELSE Refers(c) \/ found' = found

LEMMA SetLabelAdds ==
  ASSUME NEW name, SetLabel(name), ~errored'
  PROVE  \/ labels' = labels
         \/ pass < 2 /\ labels' = With(labels, name, [pos |-> pos, at |-> at])
BY Zenon DEF SetLabel, Error

LEMMA StepLabel == ASSUME Label, ~errored' PROVE \E c : Step(c)
<1>1. PICK l : /\ l.c = "label" /\ Reads(l) /\ found' = found
               /\ IF l.global /\ (InStruct \/ l.m) THEN Error
                  ELSE SetLabel(IF LabelName(l) = <<>> \/ l.global THEN LabelName(l)
                                ELSE ns \o LabelName(l))
  BY Zenon DEF Label
<1>. DEFINE n == LabelName(l)  name == IF n = <<>> \/ l.global THEN n ELSE ns \o n
<1>2. SetLabel(name) /\ (l.global => ~l.m) BY <1>1, Zenon DEF Error
<1>. HIDE DEF n
<1>3. name # <<>> BY <1>2, SetLabelNames, Zenon
<1>4. n # <<>> BY <1>3
<1>5. n = LabelNameOf(Reading, l) BY LabelNameIs DEF n
<1>6. Reading.space.ns = ns BY ReadingIs DEF Space
<1>7. name = NameOf(Reading, l) BY <1>1, <1>4, <1>5, <1>6 DEF NameOf
<1>8. \/ labels' = labels
      \/ pass < 2 /\ labels' = With(labels, NameOf(Reading, l), [pos |-> pos, at |-> at])
  BY <1>2, <1>7, SetLabelAdds, Zenon
<1>9. Legal(Reading, l) BY <1>1, <1>2, <1>4, <1>5 DEF Legal
<1>10. ~Refers(l) BY <1>1 DEF Refers
<1>. QED BY <1>1, <1>8, <1>9, <1>10, Zenon DEF Step

LEMMA StepSign == ASSUME Plus \/ Minus, ~errored' PROVE \E c : Step(c)
<1>0. ASSUME NEW r, r.c \in {"plus", "minus"}, Reads(r), found' = found, ~(r.m /\ ~InMacro),
             NEW name, SetLabel(name), name = NameOf(Reading, r)
      PROVE  \E c : Step(c)
  <2>1. \/ labels' = labels
        \/ pass < 2 /\ labels' = With(labels, NameOf(Reading, r), [pos |-> pos, at |-> at])
    BY <1>0, SetLabelAdds, Zenon
  <2>2. Legal(Reading, r) BY <1>0, ReadingIs DEF Legal, Macro, InMacro
  <2>3. ~Refers(r) BY <1>0 DEF Refers
  <2>. QED BY <1>0, <2>1, <2>2, <2>3, Zenon DEF Step
<1>1. ASSUME Plus PROVE \E c : Step(c)
  <2>1. PICK r : /\ r.c = "plus" /\ Reads(r) /\ found' = found
                 /\ IF r.m /\ ~InMacro THEN Error
                    ELSE SetLabel(NewPlus(PlusName(r), IF r.m THEN mplus[r.d] ELSE plus[r.d]))
    BY <1>1, Zenon DEF Plus
  <2>. DEFINE name == NewPlus(PlusName(r), IF r.m THEN mplus[r.d] ELSE plus[r.d])
  <2>2. SetLabel(name) /\ ~(r.m /\ ~InMacro) BY <2>1, Zenon DEF Error
  <2>3. name = NameOf(Reading, r)
    BY <2>1, LabelNameIs, ReadingIs DEF NameOf, NewPlus, PlusName, Scope, Macro
  <2>. HIDE DEF name
  <2>4. r.c \in {"plus", "minus"} BY <2>1
  <2>. QED BY <1>0, <2>1, <2>2, <2>3, <2>4
<1>2. ASSUME Minus PROVE \E c : Step(c)
  <2>1. PICK r : /\ r.c = "minus" /\ Reads(r) /\ found' = found
                 /\ IF r.m /\ ~InMacro THEN Error
                    ELSE /\ SetLabel(Append(MinusName(r),
                                            Digit[1 + IF r.m THEN mminus'[r.d] ELSE minus'[r.d]]))
                         /\ minus'  = IF r.m THEN minus ELSE [minus EXCEPT ![r.d] = @ + 1]
                         /\ mminus' = IF r.m THEN [mminus EXCEPT ![r.d] = @ + 1] ELSE mminus
    BY <1>2, Zenon DEF Minus
  <2>. DEFINE name == Append(MinusName(r), Digit[1 + IF r.m THEN mminus'[r.d] ELSE minus'[r.d]])
  <2>2. SetLabel(name) /\ ~(r.m /\ ~InMacro) BY <2>1, Zenon DEF Error
  <2>3. /\ minus'  = IF r.m THEN minus ELSE Counted(minus, r.d)
        /\ mminus' = IF r.m THEN Counted(mminus, r.d) ELSE mminus
    BY <2>1, Zenon DEF Error, Counted
  <2>4. name = NameOf(Reading, r)
    BY <2>1, <2>3, LabelNameIs, ReadingIs DEF NameOf, MinusName, Scope, Macro
  <2>. HIDE DEF name
  <2>5. r.c \in {"plus", "minus"} BY <2>1
  <2>. QED BY <1>0, <2>1, <2>2, <2>4, <2>5
<1>. QED BY <1>1, <1>2

LEMMA StepUse == ASSUME UseLabel \/ UseRelative, ~errored' PROVE \E c : Step(c)
<1>0. ASSUME NEW u, Refers(u), Reads(u), labels' = labels, NEW name, Finds(name),
             name = RefOf(Reading, u)
      PROVE  \E c : Step(c)
  <2>1. Legal(Reading, u) BY <1>0 DEF Legal, Refers
  <2>2. name # <<>> BY <1>0, Zenon DEF Finds, Error
  <2>3. pass > 0 =>
          /\ Looked(name) \in DOMAIN labels
          /\ found' = [found EXCEPT ![at] = labels[Looked(name)].at]
    BY <1>0, <2>2, Zenon DEF Finds
  <2>4. Looked(name) \in {name, ns \o name} BY DEF Looked
  <2>5. pass > 0 => \E x \in {name, ns \o name} :
                      x \in DOMAIN labels /\ found' = [found EXCEPT ![at] = labels[x].at]
    BY <2>3, <2>4
  <2>. QED BY <1>0, <2>1, <2>2, <2>5, Zenon DEF Step
<1>1. ASSUME UseLabel PROVE \E c : Step(c)
  <2>1. PICK u : u.c = "use" /\ Reads(u) /\ Finds(LabelName(u)) /\ labels' = labels
    BY <1>1 DEF UseLabel
  <2>2. LabelName(u) = RefOf(Reading, u) /\ Refers(u) BY <2>1, LabelNameIs DEF RefOf, Refers
  <2>. QED BY <1>0, <2>1, <2>2
<1>2. ASSUME UseRelative PROVE \E c : Step(c)
  <2>1. PICK u :
          /\ u.c \in {"use_plus", "use_minus"} /\ Reads(u) /\ labels' = labels
          /\ Finds(IF InStruct \/ (u.m /\ ~InMacro) THEN <<>>
                   ELSE IF u.c = "use_plus"
                   THEN Append(PlusName(u), Digit[1 + IF u.m THEN mplus[u.d] ELSE plus[u.d]])
                   ELSE Append(MinusName(u), Digit[1 + IF u.m THEN mminus[u.d] ELSE minus[u.d]]))
    BY <1>2, Zenon DEF UseRelative
  <2>. DEFINE name == IF InStruct \/ (u.m /\ ~InMacro) THEN <<>>
                      ELSE IF u.c = "use_plus"
                      THEN Append(PlusName(u), Digit[1 + IF u.m THEN mplus[u.d] ELSE plus[u.d]])
                      ELSE Append(MinusName(u), Digit[1 + IF u.m THEN mminus[u.d] ELSE minus[u.d]])
  <2>2. /\ Reading.open.in = in /\ (Reading.open.in # "no" <=> InStruct)
        /\ (Reading.macro.frames = <<>>) <=> ~InMacro
        /\ Reading.macro.plus = mplus /\ Reading.macro.minus = mminus
        /\ Reading.scope.plus = plus /\ Reading.scope.minus = minus
    BY ReadingIs DEF Macro, Scope, Open, InMacro, InStruct
  <2>3. Tag(u.m) = TagOf(Reading, u.m) BY LabelNameIs
  <2>4. name = RefOf(Reading, u) BY <2>1, <2>2, <2>3 DEF RefOf, PlusName, MinusName
  <2>5. Refers(u) BY <2>1 DEF Refers
  <2>6. Finds(name) BY <2>1
  <2>. HIDE DEF name
  <2>. QED BY <1>0, <2>1, <2>4, <2>5, <2>6
<1>. QED BY <1>1, <1>2

LEMMA StepOther ==
  ASSUME Namespace \/ NamespaceOff \/ NamespaceNested \/ Pushns \/ Pullns \/ CallMacro \/ EndMacro
           \/ EndStruct \/ Skip, ~errored'
  PROVE  \E c : Step(c)
<1>1. labels' = labels /\ found' = found
  BY DEF Namespace, NamespaceOff, NamespaceNested, Pushns, Pullns, CallMacro, EndMacro, EndStruct, Skip
<1>2. ASSUME NEW c, Reads(c), c.c \in {"namespace", "namespace_off", "namespace_nested", "pushns",
                                       "call", "endstruct", "skip"}
      PROVE  \E d : Step(d)
  <2>1. Legal(Reading, c) /\ ~Refers(c) BY <1>2 DEF Legal, Refers
  <2>. QED BY <1>1, <1>2, <2>1, Zenon DEF Step
<1>3. CASE Namespace \/ NamespaceOff \/ NamespaceNested \/ Pushns \/ CallMacro \/ EndStruct \/ Skip
  <2>1. \E c : Reads(c) /\ c.c \in {"namespace", "namespace_off", "namespace_nested", "pushns",
                                    "call", "endstruct", "skip"}
    BY <1>3 DEF Namespace, NamespaceOff, NamespaceNested, Pushns, CallMacro, EndStruct, Skip
  <2>. QED BY <1>2, <2>1
<1>4. CASE Pullns
  <2>1. PICK c : c.c = "pullns" /\ Reads(c) /\ (depth = 0 => errored' = TRUE)
    BY <1>4 DEF Pullns, Error
  <2>2. depth # 0 BY <2>1
  <2>3. Reading.space.depth = depth BY ReadingIs DEF Space
  <2>4. Legal(Reading, c) /\ ~Refers(c) BY <2>1, <2>2, <2>3 DEF Legal, Refers
  <2>. QED BY <1>1, <2>1, <2>4, Zenon DEF Step
<1>5. CASE EndMacro
  <2>1. PICK c : c.c = "end_call" /\ Reads(c) /\ InMacro BY <1>5 DEF EndMacro
  <2>2. Reading.macro.frames # <<>> BY <2>1, ReadingIs DEF Macro, InMacro
  <2>3. Legal(Reading, c) /\ ~Refers(c) BY <2>1, <2>2 DEF Legal, Refers
  <2>. QED BY <1>1, <2>1, <2>3, Zenon DEF Step
<1>. QED BY <1>3, <1>4, <1>5

LEMMA StepStruct == ASSUME Struct, ~errored' PROVE \E c : Step(c)
<1>1. PICK c : /\ c.c = "struct" /\ Reads(c) /\ found' = found
               /\ \/ errored' = TRUE
                  \/ labels' = labels
                  \/ pass < 2 /\ \E p : labels' = With(labels,
                       IF c.base = "extends" THEN c.parent \o <<".">> \o c.name ELSE c.name,
                       [pos |-> p, at |-> at])
  BY Zenon DEF Struct, Error
<1>2. NameOf(Reading, c) = IF c.base = "extends" THEN c.parent \o <<".">> \o c.name ELSE c.name
  BY <1>1 DEF NameOf
<1>3. \/ labels' = labels
      \/ pass < 2 /\ \E p : labels' = With(labels, NameOf(Reading, c), [pos |-> p, at |-> at])
  BY <1>1, <1>2, Zenon
<1>4. Legal(Reading, c) /\ ~Refers(c) BY <1>1 DEF Legal, Refers
<1>. QED BY <1>1, <1>3, <1>4, Zenon DEF Step

LEMMA NextSteps ==
  ASSUME Types, Next, ~FinishPass, ~errored'
  PROVE  \E c : Goes(c) /\ Step(c) /\ IsCommand(c)
<1>1. PICK c : Goes(c) BY NextGoes
<1>2. \E d : Step(d) BY StepLabel, StepSign, StepUse, StepOther, StepStruct, Zenon DEF Next
<1>3. PICK d : Step(d) BY <1>2
<1>4. Reads(c) /\ Reads(d) /\ ReadInv BY <1>1, <1>3, Zenon DEF Goes, Step, Types
<1>5. patch'[at] = c /\ patch'[at] = d /\ IsCommand(c) BY <1>4, ReadsCommand
<1>. QED BY <1>1, <1>3, <1>5

\* While there is no error: each command has what it needs, a label is found at a command that
\* defines it, and a reference of pass 1 or 2 has found one.
LegalInv == ~errored => \A f : IsRun(f) => LegalRun(f)
Defined == IF pass = 0 THEN names ELSE first
LabelInv ==
  ~errored => \A n \in DOMAIN labels : labels[n].at \in 1 .. Len(patch) /\ Defined[labels[n].at] = n
FindsOf(f, i) ==
  /\ RefOf(f[i], patch[i]) # <<>> /\ found[i] \in 1 .. Len(patch)
  /\ first[found[i]] \in {RefOf(f[i], patch[i]), f[i].space.ns \o RefOf(f[i], patch[i])}
FoundInv ==
  ~errored /\ pass > 0 =>
    \A f : IsRun(f) => \A i \in 1 .. Len(patch) :
      Refers(patch[i]) /\ (pass = 1 => i < at) => FindsOf(f, i)
RefInv == LegalInv /\ LabelInv /\ FoundInv

LEMMA RefInit == Init => RefInv
<1>. SUFFICES ASSUME Init PROVE RefInv OBVIOUS
<1>1. patch = <<>> /\ pass = 0 /\ DOMAIN labels = {} BY DEF Init, Empty
<1>2. Len(patch) = 0 BY <1>1, EmptyList
<1>3. 1 .. 0 = {} /\ 0 \in 0 .. MaxLen BY NamesAssumption
<1>4. LegalInv BY <1>2, <1>3 DEF LegalInv, LegalRun
<1>. QED BY <1>1, <1>4 DEF RefInv, LabelInv, FoundInv

LEMMA RefFinish == ASSUME Types, SameInv, RefInv, FinishPass PROVE RefInv'
<1>1. PICK n \in Nat : n = Len(patch) BY DEF Types, ReadInv
<1>2. /\ errored' = (errored \/ InStruct \/ (pass = 0 /\ depth > 0))
      /\ pass' = pass + 1 /\ pass < 3 /\ at' = 1 /\ patch' = patch /\ labels' = labels
      /\ found' = found /\ first' = (IF pass = 0 THEN names ELSE first)
  BY DEF FinishPass, Fresh
<1>3. at = n + 1 /\ pass \in 0 .. 2
  <2>1. at \in 1 .. n + 1 /\ pass \in 0 .. 3 /\ (pass = 0 => at = n + 1)
    BY <1>1 DEF Types, ReadInv
  <2>2. pass # 0 => at > n BY <1>1 DEF FinishPass
  <2>. QED BY <1>1, <1>2, <2>1, <2>2
<1>. SUFFICES ASSUME ~errored' PROVE RefInv'
  BY Zenon DEF RefInv, LegalInv, LabelInv, FoundInv
<1>4. ~errored BY <1>2, Zenon
<1>5. LegalInv' BY <1>2, <1>4 DEF RefInv, LegalInv, LegalRun, IsRun
<1>6. LabelInv'
  <2>1. Defined' = Defined BY <1>2, <1>3 DEF Defined
  <2>. QED BY <1>2, <1>4, <2>1 DEF RefInv, LabelInv
<1>7. FoundInv'
  <2>1. SUFFICES ASSUME NEW f, IsRun(f)', NEW i \in 1 .. n, Refers(patch[i]), pass' = 1 => i < 1
        PROVE  FindsOf(f, i)'
    BY <1>1, <1>2 DEF FoundInv
  <2>2. pass # 0 /\ i < at BY <1>2, <1>3, <2>1
  <2>3. IsRun(f) /\ pass > 0 /\ first' = first BY <1>2, <1>3, <2>1, <2>2 DEF IsRun
  <2>4. FindsOf(f, i) BY <1>1, <1>4, <2>1, <2>2, <2>3 DEF RefInv, FoundInv
  <2>. QED BY <1>2, <2>3, <2>4 DEF FindsOf
<1>. QED BY <1>5, <1>6, <1>7 DEF RefInv

LEMMA RefGoes ==
  ASSUME Types, SameInv, RefInv, NEW c, Goes(c), Step(c), IsCommand(c), ~errored'
  PROVE  RefInv'
<1>1. PICK n \in Nat : n = Len(patch) BY DEF Types, ReadInv
<1>2. PICK a \in Nat : a = at /\ a \in 1 .. n + 1 BY <1>1 DEF Types, ReadInv
<1>3. PICK m \in Nat :
        /\ m = Len(patch') /\ at' = a + 1 /\ a \in 1 .. MaxLen /\ patch'[a] = c /\ a <= m
        /\ m <= MaxLen /\ \A i \in 1 .. n : patch'[i] = patch[i]
        /\ pass' = pass /\ first' = first /\ pass \in 0 .. 2
  BY <1>1, <1>2, ReadsCommand DEF Types, Goes, Reads, ReadInv
<1>4. IF pass = 0 THEN a = n + 1 /\ m = n + 1 ELSE patch' = patch /\ m = n /\ c = patch[a]
  <2>1. CASE pass = 0
    <3>1. patch' = Append(patch, c) BY <2>1 DEF Goes, Reads
    <3>. QED BY <1>1, <1>2, <1>3, <2>1, <3>1, AppendProperties DEF Types, ReadInv
  <2>2. CASE pass # 0 BY <1>1, <1>2, <1>3, <2>2 DEF Goes, Reads
  <2>. QED BY <2>1, <2>2
<1>5. ~errored BY Zenon DEF Goes
<1>6. PICK g : /\ IsRun(g) /\ g[a] = Reading /\ Named(g, names, at - 1)
               /\ pass > 0 => Named(g, first, Len(patch))
  BY <1>2, <1>3, <1>5 DEF SameInv
<1>7. ASSUME NEW f, IsRun(f)' PROVE IsRun(f) /\ f[a] = Reading
  <2>1. f[1] = Start /\ \A i \in 1 .. m : f[i + 1] = After(f[i], patch'[i])
    BY <1>3, <1>7 DEF IsRun
  <2>2. n <= m BY <1>4
  <2>3. IsRun(f) BY <1>1, <1>3, <2>1, <2>2 DEF IsRun
  <2>4. f[a] = g[a] BY <1>1, <1>2, <1>6, <2>3, RunsAgree
  <2>. QED BY <1>6, <2>3, <2>4
<1>8. LegalInv'
  <2>. SUFFICES ASSUME NEW f, IsRun(f)' PROVE LegalRun(f)' BY DEF LegalInv
  <2>1. IsRun(f) /\ f[a] = Reading BY <1>7
  <2>2. LegalRun(f) BY <1>5, <2>1 DEF RefInv, LegalInv
  <2>3. Legal(Reading, c) BY DEF Step
  <2>4. ASSUME NEW i \in 1 .. m PROVE Legal(f[i], patch'[i]) /\ IsCommand(patch'[i])
    <3>1. CASE i \in 1 .. n BY <1>1, <1>3, <2>2, <3>1 DEF LegalRun
    <3>2. CASE i \notin 1 .. n
      <4>1. i = a BY <1>4, <3>2
      <4>. QED BY <1>3, <2>1, <2>3, <4>1
    <3>. QED BY <3>1, <3>2
  <2>5. m \in 0 .. MaxLen BY <1>3, NamesAssumption
  <2>. QED BY <1>3, <2>4, <2>5 DEF LegalRun
<1>9. /\ Defined'[a] = NameOf(Reading, c)
      /\ \A i \in 1 .. n : Defined'[i] = Defined[i]
  <2>1. CASE pass = 0
    <3>1. Defined' = names' /\ Defined = names BY <1>3, <2>1 DEF Defined
    <3>2. DOMAIN names = 1 .. MaxLen BY DEF SameInv
    <3>3. NameOf(Reading, c) = <<>> => names[a] = NameOf(Reading, c)
      <4>1. ~(a <= at - 1) BY <1>2
      <4>2. names[a] = <<>> BY <1>3, <1>6, <4>1 DEF Named
      <4>. QED BY <4>2
    <3>4. names'[a] = NameOf(Reading, c) BY <1>2, <1>3, <3>2, <3>3 DEF Goes
    <3>5. \A i \in 1 .. n : i # a /\ i \in 1 .. MaxLen BY <1>3, <1>4, <2>1, NamesAssumption
    <3>6. \A i \in 1 .. n : names'[i] = names[i]
      <4>1. names' = names \/ \E x : names' = [names EXCEPT ![a] = x] BY <1>2 DEF Goes
      <4>. QED BY <3>2, <3>5, <4>1
    <3>. QED BY <3>1, <3>4, <3>6
  <2>2. CASE pass # 0
    <3>1. Defined' = first /\ Defined = first BY <1>3, <2>2 DEF Defined
    <3>2. a <= Len(patch) /\ Named(g, first, Len(patch)) BY <1>1, <1>3, <1>4, <1>6, <2>2
    <3>3. first[a] = NameOf(g[a], patch[a]) BY <1>3, <3>2 DEF Named
    <3>. QED BY <1>4, <1>6, <2>2, <3>1, <3>3
  <2>. QED BY <2>1, <2>2
<1>10. LabelInv'
  <2>1. \A x \in DOMAIN labels : labels[x].at \in 1 .. n /\ Defined[labels[x].at] = x
    BY <1>1, <1>5 DEF RefInv, LabelInv
  <2>2. \A x \in DOMAIN labels : labels[x].at \in 1 .. m /\ Defined'[labels[x].at] = x
    BY <1>4, <1>9, <2>1
  <2>3. CASE labels' = labels BY <1>3, <2>2, <2>3 DEF LabelInv
  <2>4. CASE labels' # labels
    <3>1. PICK p : labels' = With(labels, NameOf(Reading, c), [pos |-> p, at |-> at])
      BY <2>4 DEF Step
    <3>2. PICK y : y = [pos |-> p, at |-> at] OBVIOUS
    <3>3. y.at = a BY <1>2, <3>2
    <3>4. PICK z : z = NameOf(Reading, c) OBVIOUS
    <3>5. labels' = [x \in DOMAIN labels \cup {z} |-> IF x = z THEN y ELSE labels[x]]
      BY <3>1, <3>2, <3>4 DEF With
    <3>6. a \in 1 .. m /\ Defined'[a] = z BY <1>2, <1>3, <1>9, <3>4
    <3>7. \A x \in DOMAIN labels' : labels'[x].at \in 1 .. m /\ Defined'[labels'[x].at] = x
      BY <2>2, <3>3, <3>5, <3>6
    <3>. QED BY <1>3, <3>7 DEF LabelInv
  <2>. QED BY <2>3, <2>4
<1>11. FoundInv'
  <2>1. SUFFICES ASSUME pass > 0, NEW f, IsRun(f)', NEW i \in 1 .. n, Refers(patch[i]),
                        pass = 1 => i < a + 1
        PROVE  FindsOf(f, i)'
    BY <1>3, <1>4 DEF FoundInv
  <2>2. patch' = patch /\ m = n /\ c = patch[a] /\ pass # 0 BY <1>4, <2>1
  <2>3. IsRun(f) /\ f[a] = Reading BY <1>7, <2>1
  <2>4. found \in [1 .. MaxLen -> 0 .. MaxLen] /\ i \in 1 .. MaxLen
    <3>1. MaxLen \in Nat BY NamesAssumption
    <3>2. i \in 1 .. MaxLen BY <1>3, <2>2, <3>1
    <3>. QED BY <3>2 DEF Types, TableInv
  <2>5. CASE i = a
    <3>1. PICK name \in {RefOf(Reading, c), ns \o RefOf(Reading, c)} :
            name \in DOMAIN labels /\ found' = [found EXCEPT ![at] = labels[name].at]
      BY <2>1, <2>2, <2>5 DEF Step
    <3>2. RefOf(Reading, c) # <<>> BY <2>1, <2>2, <2>5 DEF Step
    <3>3. found'[a] = labels[name].at BY <1>2, <1>3, <2>4, <3>1
    <3>4. labels[name].at \in 1 .. n /\ first[labels[name].at] = name
      BY <1>1, <1>5, <2>2, <3>1 DEF RefInv, LabelInv, Defined
    <3>5. Reading.space.ns = ns BY ReadingIs DEF Space
    <3>6. found'[a] \in 1 .. Len(patch') /\ first'[found'[a]] = name
      BY <1>3, <2>2, <3>3, <3>4
    <3>. HIDE DEF RefOf
    <3>. QED BY <2>2, <2>3, <2>5, <3>1, <3>2, <3>5, <3>6 DEF FindsOf
  <2>6. CASE i # a
    <3>1. found'[i] = found[i]
      <4>1. found' = found \/ \E x : found' = [found EXCEPT ![at] = x] BY <2>1 DEF Step
      <4>. QED BY <1>2, <2>4, <2>6, <4>1
    <3>2. pass = 1 => i < at BY <1>2, <2>1, <2>6
    <3>3. FindsOf(f, i) BY <1>1, <1>5, <2>1, <2>3, <3>2 DEF RefInv, FoundInv
    <3>. QED BY <1>3, <2>2, <3>1, <3>3 DEF FindsOf
  <2>. QED BY <2>5, <2>6
<1>. QED BY <1>8, <1>10, <1>11 DEF RefInv

LEMMA RefStep == Types /\ SameInv /\ RefInv /\ [Next]_vars => RefInv'
<1>. SUFFICES ASSUME Types, SameInv, RefInv, [Next]_vars PROVE RefInv' OBVIOUS
<1>1. CASE FinishPass BY <1>1, RefFinish
<1>2. CASE Next /\ ~FinishPass
  <2>1. CASE ~errored' BY <1>2, <2>1, NextSteps, RefGoes
  <2>2. CASE errored' BY <2>2, Zenon DEF RefInv, LegalInv, LabelInv, FoundInv
  <2>. QED BY <2>1, <2>2
<1>3. CASE UNCHANGED vars
  <2>1. UNCHANGED <<errored, patch, pass, at, labels, names, first, found>>
    BY <1>3 DEF vars, history
  <2>. QED BY <2>1 DEF RefInv, LegalInv, LegalRun, IsRun, LabelInv, Defined, FoundInv, FindsOf
<1>. QED BY <1>1, <1>2, <1>3

-----------------------------------------------------------------------------
(***************************************************************************)
(* The label a reference finds                                             *)
(***************************************************************************)

CountOf(s, kind, m, d) ==
  IF kind = "plus" THEN IF m THEN s.macro.plus[d] ELSE s.scope.plus[d]
                   ELSE IF m THEN s.macro.minus[d] ELSE s.scope.minus[d]
WordOf(kind) == IF kind = "plus" THEN ":pos" ELSE ":neg"

LEMMA RunFacts ==
  ASSUME NEW f, LegalRun(f), NEW i \in 1 .. Len(patch)
  PROVE  /\ i \in Nat /\ i >= 1 /\ i <= MaxLen /\ MaxLen \in Nat /\ MaxLen >= 1
         /\ Legal(f[i], patch[i]) /\ IsCommand(patch[i]) /\ RunAt(f, i)
         /\ f[i].macro.called \in Nat /\ Numeral(f[i].macro.called)
         /\ PlainAll(f[i].scope.sub) /\ TaggedAll(f[i].macro.sub, f[i].macro.called)
         /\ PlainOpen(f[i].open) /\ Plain(f[i].space.ns)
         /\ Lives(f, i, Around(i), Now(f[i]))
<1>1. /\ i \in Nat /\ i >= 1 /\ i <= MaxLen /\ MaxLen \in Nat
      /\ Legal(f[i], patch[i]) /\ IsCommand(patch[i])
  BY RunStep
<1>2. RunAt(f, i)
  <2>1. i \in 1 .. Len(patch) + 1 BY NamesAssumption DEF LegalRun
  <2>. QED BY <2>1, RunAlways
<1>3. Lives(f, i, Around(i), Now(f[i])) BY <1>1, <1>2, MacroTop DEF RunAt
<1>4. Now(f[i]).called = f[i].macro.called /\ Now(f[i]).sub = f[i].macro.sub BY DEF Now
<1>5. f[i].macro.called \in 0 .. i - 1 /\ TaggedAll(f[i].macro.sub, f[i].macro.called)
  BY <1>3, <1>4, Zenon DEF Lives
<1>6. f[i].macro.called \in Nat /\ Numeral(f[i].macro.called) BY <1>1, <1>5 DEF Numeral
<1>7. PlainAll(f[i].scope.sub) /\ PlainOpen(f[i].open) /\ Plain(f[i].space.ns)
  BY <1>2 DEF RunAt, ScopeAt, PlainSpace
<1>8. MaxLen >= 1 BY <1>1
<1>. QED BY <1>1, <1>2, <1>3, <1>5, <1>6, <1>7, <1>8

\* The counts of + and - labels only grow, in the patch and in each macro call.
LEMMA CountsGrow ==
  ASSUME NEW f, LegalRun(f), NEW j \in 1 .. Len(patch), NEW kind \in {"plus", "minus"},
         NEW m \in BOOLEAN, NEW d \in Depths
  PROVE  /\ CountOf(f[j], kind, m, d) \in 0 .. j - 1
         /\ \A i \in 1 .. j - 1 : (m => Around(i) = Around(j)) =>
              /\ CountOf(f[i], kind, m, d) <= CountOf(f[j], kind, m, d)
              /\ patch[i].c = kind /\ patch[i].m = m /\ patch[i].d = d =>
                   CountOf(f[i], kind, m, d) + 1 <= CountOf(f[j], kind, m, d)
<1>1. /\ j \in Nat /\ ScopeAt(f, j) /\ Lives(f, j, Around(j), Now(f[j]))
  BY RunFacts DEF RunAt
<1>2. Now(f[j]).plus = f[j].macro.plus /\ Now(f[j]).minus = f[j].macro.minus BY DEF Now
<1>3. /\ f[j].macro.plus \in UpTo(j) /\ f[j].macro.minus \in UpTo(j)
      /\ f[j].scope.plus \in UpTo(j) /\ f[j].scope.minus \in UpTo(j)
  BY <1>1, <1>2 DEF Lives, ScopeAt
<1>4. CountOf(f[j], kind, m, d) \in 0 .. j - 1 BY <1>3 DEF CountOf, UpTo
<1>5. ASSUME NEW i \in 1 .. j - 1, m => Around(i) = Around(j)
      PROVE  /\ CountOf(f[i], kind, m, d) \in Nat
             /\ CountOf(f[i], kind, m, d)
                  + (IF patch[i].c = kind /\ patch[i].m = m /\ patch[i].d = d THEN 1 ELSE 0)
                  <= CountOf(f[j], kind, m, d)
  <2>1. i \in 1 .. Len(patch) BY NamesAssumption DEF LegalRun
  <2>2. /\ i \in Nat /\ ScopeAt(f, i) /\ Lives(f, i, Around(i), Now(f[i])) /\ IsCommand(patch[i])
    BY <2>1, RunFacts DEF RunAt
  <2>3. Now(f[i]).plus = f[i].macro.plus /\ Now(f[i]).minus = f[i].macro.minus BY DEF Now
  <2>4. /\ f[i].macro.plus \in UpTo(i) /\ f[i].macro.minus \in UpTo(i)
        /\ f[i].scope.plus \in UpTo(i) /\ f[i].scope.minus \in UpTo(i)
    BY <2>2, <2>3 DEF Lives, ScopeAt
  <2>5. CountOf(f[i], kind, m, d) \in Nat
    <3>1. CountOf(f[i], kind, m, d) \in 0 .. i - 1 BY <2>4 DEF CountOf, UpTo
    <3>. QED BY <2>2, <3>1
  <2>6. patch[i].c = kind => patch[i].m \in BOOLEAN BY <2>2 DEF IsCommand
  <2>. DEFINE e == IF patch[i].c = kind /\ patch[i].m = m /\ patch[i].d = d THEN 1 ELSE 0
  <2>7. CASE m
    <3>1. Grown(f, j, Around(j), Now(f[j])) BY <1>1 DEF Lives
    <3>2. /\ f[i].macro.plus[d] + OwnSign(patch[i], "plus", d) <= f[j].macro.plus[d]
          /\ f[i].macro.minus[d] + OwnSign(patch[i], "minus", d) <= f[j].macro.minus[d]
      BY <1>2, <1>5, <2>7, <3>1 DEF Grown
    <3>3. OwnSign(patch[i], kind, d) = e BY <2>6, <2>7 DEF OwnSign
    <3>. HIDE DEF e
    <3>4. CountOf(f[i], kind, m, d) + e <= CountOf(f[j], kind, m, d)
      BY <2>7, <3>2, <3>3 DEF CountOf
    <3>. QED BY <2>5, <3>4 DEF e
  <2>8. CASE ~m
    <3>1. /\ f[i].scope.plus[d] + FreeSign(patch[i], "plus", d) <= f[j].scope.plus[d]
          /\ f[i].scope.minus[d] + FreeSign(patch[i], "minus", d) <= f[j].scope.minus[d]
      BY <1>1, <1>5 DEF ScopeAt
    <3>2. FreeSign(patch[i], kind, d) = e BY <2>6, <2>8 DEF FreeSign
    <3>. HIDE DEF e
    <3>3. CountOf(f[i], kind, m, d) + e <= CountOf(f[j], kind, m, d)
      BY <2>8, <3>1, <3>2 DEF CountOf
    <3>. QED BY <2>5, <3>3 DEF e
  <2>. QED BY <2>7, <2>8
<1>6. \A x, y \in Nat : /\ x + 0 <= y => x <= y
                        /\ x + 1 <= y => x <= y
  OBVIOUS
<1>7. ASSUME NEW i \in 1 .. j - 1, m => Around(i) = Around(j)
      PROVE  /\ CountOf(f[i], kind, m, d) <= CountOf(f[j], kind, m, d)
             /\ patch[i].c = kind /\ patch[i].m = m /\ patch[i].d = d =>
                  CountOf(f[i], kind, m, d) + 1 <= CountOf(f[j], kind, m, d)
  <2>1. PICK x, y : x = CountOf(f[i], kind, m, d) /\ y = CountOf(f[j], kind, m, d) OBVIOUS
  <2>2. x \in Nat /\ y \in Nat BY <1>1, <1>4, <1>5, <1>7, <2>1
  <2>3. x + (IF patch[i].c = kind /\ patch[i].m = m /\ patch[i].d = d THEN 1 ELSE 0) <= y
    BY <1>5, <1>7, <2>1
  <2>. QED BY <1>6, <2>1, <2>2, <2>3
<1>. QED BY <1>4, <1>7

\* Two commands of one number are of one macro call.
LEMMA AroundSame ==
  ASSUME NEW f, LegalRun(f), NEW i \in 1 .. Len(patch), NEW j \in 1 .. Len(patch),
         f[i].macro.frames # <<>>, f[j].macro.frames # <<>>,
         f[i].macro.called = f[j].macro.called
  PROVE  Around(i) = Around(j)
<1>. DEFINE a == Around(i)   b == Around(j)
<1>1. /\ i \in Nat /\ i >= 1 /\ j \in Nat /\ j >= 1 /\ MacroAt(f, i) /\ MacroAt(f, j)
      /\ Len(patch) \in Nat
  BY RunFacts, NamesAssumption DEF RunAt, LegalRun
<1>2. /\ a \in CallsAround(i) /\ b \in CallsAround(j)
      /\ Lives(f, i, a, Now(f[i])) /\ Lives(f, j, b, Now(f[j]))
  BY <1>1, MacroTop
<1>3. /\ a \in 1 .. Len(patch) /\ patch[a].c = "call" /\ b \in 1 .. Len(patch)
      /\ patch[b].c = "call"
  BY <1>1, <1>2 DEF CallsAround
<1>4. Now(f[i]).called = f[i].macro.called /\ Now(f[j]).called = f[j].macro.called BY DEF Now
<1>5. f[a].macro.really = f[b].macro.really
  <2>1. f[i].macro.called = NumberOf(f, a) /\ f[j].macro.called = NumberOf(f, b)
    BY <1>2, <1>4 DEF Lives
  <2>2. a # 0 /\ b # 0 BY <1>3
  <2>. HIDE DEF a, b
  <2>. QED BY <2>1, <2>2 DEF NumberOf
<1>. HIDE DEF a, b
<1>6. ASSUME NEW p \in 1 .. Len(patch), NEW q \in 1 .. Len(patch), p < q, patch[p].c = "call"
      PROVE  f[p].macro.really # f[q].macro.really
  <2>1. MacroAt(f, q) BY RunFacts DEF RunAt
  <2>2. p \in 1 .. q - 1 BY <1>1, <1>6
  <2>3. /\ f[p].macro.really \in Nat /\ f[p].macro.really < f[q].macro.really
        /\ f[q].macro.really \in 0 .. q - 1
    BY <1>6, <2>1, <2>2 DEF MacroAt
  <2>. QED BY <2>3
<1>7. ~(a < b) /\ ~(b < a) BY <1>3, <1>5, <1>6
<1>8. a = b BY <1>1, <1>3, <1>7
<1>. QED BY <1>8 DEF a, b

\* The name of a + or - label of a number.
LEMMA SignName ==
  ASSUME NEW s, s.macro.called \in Nat, Numeral(s.macro.called), NEW m \in BOOLEAN,
         NEW w \in {":pos", ":neg"}, NEW d \in Depths, NEW n \in Nat, Numeral(n), MaxLen >= 1
  PROVE  Signed(Append(TagOf(s, m) \o <<w, Digit[d]>>, Digit[n + 1]), m, s.macro.called, w, d, n)
<1>. DEFINE k == s.macro.called
<1>1. Digit[d] \notin Reserved /\ Digit[n + 1] \notin Reserved /\ Digit[k + 1] \notin Reserved
  BY NamesAssumption DEF Numeral, Depths
<1>2. ":macro" \in Reserved /\ w \in Reserved BY DEF Reserved
<1>3. PICK x, y, z : x = Digit[d] /\ y = Digit[n + 1] /\ z = Digit[k + 1] OBVIOUS
<1>b. PICK b : b = <<w, x>> OBVIOUS
<1>4. b \in Seq({w, x}) /\ Len(b) = 2 /\ b[1] = w /\ b[2] = x BY <1>b
<1>5. ASSUME NEW t, IsList(t), NEW l \in Nat, Len(t) = l
      PROVE  LET u == Append(t \o b, y)
             IN  /\ IsList(u) /\ Len(u) = l + 3 /\ u[l + 1] = w /\ u[l + 2] = x /\ u[l + 3] = y
                 /\ \A r \in 1 .. l : u[r] = t[r]
  <2>1. IsList(b) BY <1>4, IsListOf
  <2>2. /\ IsList(t \o b) /\ Len(t \o b) = l + 2 /\ (t \o b)[l + 1] = w /\ (t \o b)[l + 2] = x
        /\ \A r \in 1 .. l : (t \o b)[r] = t[r]
    <3>1. /\ IsList(t \o b) /\ Len(t \o b) = Len(t) + Len(b)
          /\ \A p \in 1 .. Len(t) : (t \o b)[p] = t[p]
          /\ \A p \in 1 .. Len(b) : (t \o b)[Len(t) + p] = b[p]
      <4>1. IsList(t) BY <1>5
      <4>2. IsList(t \o b) BY <4>1, <2>1, ConcatIs
      <4>3. Len(t \o b) = Len(t) + Len(b) BY <4>1, <2>1, ConcatIs
      <4>4. \A p \in 1 .. Len(t) : (t \o b)[p] = t[p] BY <4>1, <2>1, ConcatIs
      <4>5. \A p \in 1 .. Len(b) : (t \o b)[Len(t) + p] = b[p] BY <4>1, <2>1, ConcatIs
      <4>. QED BY <4>2, <4>3, <4>4, <4>5
    <3>2. 1 \in 1 .. 2 /\ 2 \in 1 .. 2 OBVIOUS
    <3>. QED BY <1>4, <1>5, <3>1, <3>2
  <2>3. /\ l + 1 \in 1 .. l + 2 /\ l + 2 \in 1 .. l + 2 /\ l + 2 + 1 = l + 3
        /\ \A r \in 1 .. l : r \in 1 .. l + 2
    OBVIOUS
  <2>4. /\ IsList(Append(t \o b, y)) /\ Len(Append(t \o b, y)) = (l + 2) + 1
        /\ Append(t \o b, y)[(l + 2) + 1] = y
        /\ \A r \in 1 .. l + 2 : Append(t \o b, y)[r] = (t \o b)[r]
    BY <2>2, AppendList
  <2>. QED BY <2>2, <2>3, <2>4
<1>. DEFINE t == TagOf(s, m)   u == Append(t \o b, y)
<1>6. Append(TagOf(s, m) \o <<w, Digit[d]>>, Digit[n + 1]) = u BY <1>3, <1>b
<1>7. CASE m
  <2>1. t = <<":macro", z>> BY <1>3, <1>7 DEF TagOf
  <2>2. t \in Seq({":macro", z}) /\ Len(t) = 2 /\ t[1] = ":macro" /\ t[2] = z BY <2>1
  <2>3. IsList(t) BY <2>2, IsListOf
  <2>4. 2 \in Nat /\ 1 \in 1 .. 2 /\ 2 \in 1 .. 2 /\ 2 + 1 = 3 /\ 2 + 2 = 4 /\ 2 + 3 = 5 OBVIOUS
  <2>. HIDE DEF t
  <2>5. /\ IsList(u) /\ Len(u) = 2 + 3 /\ u[2 + 1] = w /\ u[2 + 2] = x /\ u[2 + 3] = y
        /\ \A r \in 1 .. 2 : u[r] = t[r]
    BY <1>5, <2>2, <2>3, <2>4
  <2>. HIDE DEF u
  <2>6. /\ Len(u) = 5 /\ u[1] = ":macro" /\ u[2] = z /\ u[3] = w /\ u[4] = x /\ u[5] = y
    BY <2>2, <2>4, <2>5
  <2>7. \A r \in 1 .. 5 : r = 1 \/ r = 2 \/ r = 3 \/ r = 4 \/ r = 5 OBVIOUS
  <2>8. \A r \in 1 .. Len(u) : u[r] \in Reserved => r = 3 \/ (m /\ r = 3 - 2)
    BY <1>1, <1>3, <1>7, <2>6, <2>7
  <2>9. /\ 3 \in 1 .. 5 /\ 3 + 2 = 5 /\ 3 + 1 = 4 /\ 3 - 2 = 1 /\ 3 - 1 = 2 /\ 1 \in 1 .. 5
    OBVIOUS
  <2>10. Signed(u, m, k, w, d, n) BY <1>3, <1>7, <2>5, <2>6, <2>8, <2>9 DEF Signed
  <2>. QED BY <1>6, <2>10 DEF k
<1>8. CASE ~m
  <2>1. t = <<>> BY <1>8 DEF TagOf
  <2>2. IsList(t) /\ Len(t) = 0 BY <2>1, EmptyList
  <2>3. 0 \in Nat /\ 0 + 1 = 1 /\ 0 + 2 = 2 /\ 0 + 3 = 3 OBVIOUS
  <2>. HIDE DEF t
  <2>4. IsList(u) /\ Len(u) = 0 + 3 /\ u[0 + 1] = w /\ u[0 + 2] = x /\ u[0 + 3] = y
    BY <1>5, <2>2, <2>3
  <2>. HIDE DEF u
  <2>5. Len(u) = 3 /\ u[1] = w /\ u[2] = x /\ u[3] = y BY <2>3, <2>4
  <2>6. \A r \in 1 .. 3 : r = 1 \/ r = 2 \/ r = 3 OBVIOUS
  <2>7. \A r \in 1 .. Len(u) : u[r] \in Reserved => r = 1 \/ (m /\ r = 1 - 2)
    BY <1>1, <1>3, <2>5, <2>6
  <2>8. 1 \in 1 .. 3 /\ 1 + 2 = 3 /\ 1 + 1 = 2 OBVIOUS
  <2>9. Signed(u, m, k, w, d, n) BY <1>3, <1>8, <2>4, <2>5, <2>7, <2>8 DEF Signed
  <2>. QED BY <1>6, <2>9 DEF k
<1>. QED BY <1>7, <1>8

\* The name a command defines.
LEMMA NameKind ==
  ASSUME NEW f, LegalRun(f), NEW i \in 1 .. Len(patch)
  PROVE  LET c == patch[i]   x == NameOf(f[i], c)   k == f[i].macro.called
         IN  /\ c.c \in {"plus", "minus"} =>
                  /\ c.m \in BOOLEAN /\ c.d \in Depths /\ (c.m => f[i].macro.frames # <<>>)
                  /\ LET n == CountOf(f[i], c.c, c.m, c.d) + IF c.c = "minus" THEN 1 ELSE 0
                     IN  n \in Nat /\ Numeral(n) /\ Signed(x, c.m, k, WordOf(c.c), c.d, n)
             /\ c.c = "label" => Kind(x, c.m, k) /\ (c.m => f[i].macro.frames # <<>>)
             /\ c.c \notin {"plus", "minus", "label"} => Plain(x)
<1>. DEFINE c == patch[i]   x == NameOf(f[i], c)   k == f[i].macro.called
<1>1. /\ i \in Nat /\ i >= 1 /\ i <= MaxLen /\ MaxLen \in Nat /\ MaxLen >= 1
      /\ Legal(f[i], c) /\ IsCommand(c)
      /\ k \in Nat /\ Numeral(k) /\ PlainAll(f[i].scope.sub) /\ TaggedAll(f[i].macro.sub, k)
      /\ PlainOpen(f[i].open) /\ Plain(f[i].space.ns)
  BY RunFacts
<1>2. ASSUME c.c \in {"plus", "minus"}
      PROVE  /\ c.m \in BOOLEAN /\ c.d \in Depths /\ (c.m => f[i].macro.frames # <<>>)
             /\ LET n == CountOf(f[i], c.c, c.m, c.d) + IF c.c = "minus" THEN 1 ELSE 0
                IN  n \in Nat /\ Numeral(n) /\ Signed(x, c.m, k, WordOf(c.c), c.d, n)
  <2>1. c.m \in BOOLEAN /\ c.d \in Depths /\ (c.m => f[i].macro.frames # <<>>)
    BY <1>1, <1>2 DEF IsCommand, Legal
  <2>2. CountOf(f[i], c.c, c.m, c.d) \in 0 .. i - 1 BY <1>2, <2>1, CountsGrow
  <2>. DEFINE n == CountOf(f[i], c.c, c.m, c.d) + IF c.c = "minus" THEN 1 ELSE 0
  <2>3. n \in Nat /\ Numeral(n) BY <1>1, <2>2 DEF Numeral
  <2>4. CASE c.c = "plus"
    <3>1. x = Append(TagOf(f[i], c.m) \o <<":pos", Digit[c.d]>>,
                     Digit[CountOf(f[i], "plus", c.m, c.d) + 1])
      BY <2>4 DEF NameOf, CountOf
    <3>2. n = CountOf(f[i], "plus", c.m, c.d) /\ WordOf(c.c) = ":pos" BY <2>2, <2>4 DEF WordOf
    <3>. HIDE DEF n, x
    <3>3. Signed(x, c.m, k, ":pos", c.d, n) BY <1>1, <2>1, <2>3, <3>1, <3>2, SignName
    <3>. QED BY <2>1, <2>3, <3>2, <3>3 DEF n
  <2>5. CASE c.c = "minus"
    <3>1. PICK q : q = CountOf(f[i], "minus", c.m, c.d) /\ q \in 0 .. i - 1 BY <2>2, <2>5
    <3>2. /\ x = Append(TagOf(f[i], c.m) \o <<":neg", Digit[c.d]>>,
                        Digit[1 + IF c.m THEN Counted(f[i].macro.minus, c.d)[c.d]
                                  ELSE Counted(f[i].scope.minus, c.d)[c.d]])
      BY <2>5 DEF NameOf
    <3>3. (IF c.m THEN Counted(f[i].macro.minus, c.d)[c.d]
           ELSE Counted(f[i].scope.minus, c.d)[c.d]) = q + 1
      <4>1. /\ f[i].macro.minus \in UpTo(i) /\ f[i].scope.minus \in UpTo(i)
        <5>1. ScopeAt(f, i) /\ Lives(f, i, Around(i), Now(f[i])) BY RunFacts DEF RunAt
        <5>2. Now(f[i]).minus = f[i].macro.minus BY DEF Now
        <5>. QED BY <5>1, <5>2 DEF Lives, ScopeAt
      <4>2. \A z \in UpTo(i) : Counted(z, c.d)[c.d] = z[c.d] + 1 BY <2>1 DEF Counted, UpTo
      <4>. QED BY <3>1, <4>1, <4>2 DEF CountOf
    <3>4. n = q + 1 /\ WordOf(c.c) = ":neg" BY <2>5, <3>1 DEF WordOf
    <3>5. 1 + (q + 1) = n + 1 BY <3>1, <3>4
    <3>. HIDE DEF n, x
    <3>6. x = Append(TagOf(f[i], c.m) \o <<":neg", Digit[c.d]>>, Digit[n + 1])
      BY <3>2, <3>3, <3>5
    <3>7. Signed(x, c.m, k, ":neg", c.d, n) BY <1>1, <2>1, <2>3, <3>6, SignName
    <3>. QED BY <2>1, <2>3, <3>4, <3>7 DEF n
  <2>. QED BY <1>2, <2>4, <2>5
<1>3. ASSUME c.c = "label" PROVE Kind(x, c.m, k) /\ (c.m => f[i].macro.frames # <<>>)
  <2>1. LabelNameOf(f[i], c) # <<>> /\ IsPath(c.path) /\ c.dots \in Nat
    BY <1>1, <1>3, NamesAssumption DEF Legal, IsCommand
  <2>2. Kind(LabelNameOf(f[i], c), c.m, k) /\ (c.m => f[i].macro.frames # <<>>)
    BY <1>1, <2>1, LabelNameKind
  <2>3. x = LabelNameOf(f[i], c) \/ x = f[i].space.ns \o LabelNameOf(f[i], c)
    BY <1>3 DEF NameOf
  <2>. HIDE DEF x, c, k
  <2>. QED BY <1>1, <2>2, <2>3, KindConcat
<1>4. ASSUME c.c \notin {"plus", "minus", "label"} PROVE Plain(x)
  <2>1. CASE c.c = "struct"
    <3>1. Plain(c.name) /\ (c.base = "extends" => Plain(c.parent))
      BY <1>1, <2>1, PathPlain DEF IsCommand
    <3>2. Plain(<<".">>)
      <4>1. "." \notin Reserved BY DEF Reserved
      <4>. QED BY <4>1, PlainWords
    <3>3. x = IF c.base = "extends" THEN c.parent \o <<".">> \o c.name ELSE c.name
      BY <2>1 DEF NameOf
    <3>. HIDE DEF x, c
    <3>4. c.base = "extends" => Plain(c.parent \o <<".">> \o c.name)
      BY <3>1, <3>2, PlainConcat
    <3>. QED BY <3>1, <3>3, <3>4
  <2>2. CASE c.c # "struct"
    <3>1. x = <<>> BY <1>4, <2>2 DEF NameOf
    <3>. QED BY <3>1, PlainWords
  <2>. QED BY <2>1, <2>2
<1>. QED BY <1>2, <1>3, <1>4

\* The name a reference looks for, in a namespace or outside of any.
KindOf(u) == IF u.c = "use_plus" THEN "plus" ELSE "minus"
LEMMA RefKind ==
  ASSUME NEW f, LegalRun(f), NEW i \in 1 .. Len(patch), Refers(patch[i]),
         RefOf(f[i], patch[i]) # <<>>, NEW x,
         x \in {RefOf(f[i], patch[i]), f[i].space.ns \o RefOf(f[i], patch[i])}
  PROVE  LET u == patch[i]   k == f[i].macro.called
         IN  /\ u.m => f[i].macro.frames # <<>>
             /\ u.c = "use" => Kind(x, u.m, k)
             /\ u.c # "use" =>
                  /\ u.m \in BOOLEAN /\ u.d \in Depths
                  /\ LET n == CountOf(f[i], KindOf(u), u.m, u.d)
                     IN  n \in Nat /\ Numeral(n) /\ Signed(x, u.m, k, WordOf(KindOf(u)), u.d, n)
<1>. DEFINE u == patch[i]   k == f[i].macro.called   R == RefOf(f[i], u)
<1>1. /\ i \in Nat /\ i >= 1 /\ i <= MaxLen /\ MaxLen \in Nat /\ MaxLen >= 1 /\ IsCommand(u)
      /\ k \in Nat /\ Numeral(k) /\ PlainAll(f[i].scope.sub) /\ TaggedAll(f[i].macro.sub, k)
      /\ PlainOpen(f[i].open) /\ Plain(f[i].space.ns)
  BY RunFacts
<1>2. u.c \in {"use", "use_plus", "use_minus"} BY DEF Refers
<1>3. CASE u.c = "use"
  <2>1. R = LabelNameOf(f[i], u) BY <1>3 DEF RefOf
  <2>2. LabelNameOf(f[i], u) # <<>> /\ IsPath(u.path) /\ u.dots \in Nat
    BY <1>1, <1>3, <2>1, NamesAssumption DEF IsCommand
  <2>3. Kind(LabelNameOf(f[i], u), u.m, k) /\ (u.m => f[i].macro.frames # <<>>)
    BY <1>1, <2>2, LabelNameKind
  <2>. HIDE DEF R, k
  <2>4. Kind(x, u.m, k) BY <1>1, <2>1, <2>3, KindConcat DEF R
  <2>. QED BY <1>3, <2>3, <2>4 DEF k
<1>4. CASE u.c # "use"
  <2>. DEFINE n == CountOf(f[i], KindOf(u), u.m, u.d)   w == WordOf(KindOf(u))
  <2>1. u.m \in BOOLEAN /\ u.d \in Depths /\ u.c \in {"use_plus", "use_minus"}
    BY <1>1, <1>2, <1>4 DEF IsCommand
  <2>2. u.m => f[i].macro.frames # <<>> BY <2>1 DEF RefOf
  <2>3. KindOf(u) \in {"plus", "minus"} /\ w \in {":pos", ":neg"} BY DEF KindOf, WordOf
  <2>4. n \in 0 .. i - 1 BY <2>1, <2>3, CountsGrow
  <2>5. n \in Nat /\ Numeral(n) /\ 1 + n = n + 1 BY <1>1, <2>4 DEF Numeral
  <2>6. R = Append(TagOf(f[i], u.m) \o <<w, Digit[u.d]>>, Digit[1 + n])
    BY <2>1 DEF RefOf, CountOf, WordOf, KindOf
  <2>. HIDE DEF n, w, R, k
  <2>7. R = Append(TagOf(f[i], u.m) \o <<w, Digit[u.d]>>, Digit[n + 1]) BY <2>5, <2>6
  <2>8. Signed(R, u.m, k, w, u.d, n) BY <1>1, <2>1, <2>3, <2>5, <2>7, SignName DEF k
  <2>9. Signed(f[i].space.ns \o R, u.m, k, w, u.d, n) BY <1>1, <2>8, SignedConcat
  <2>10. Signed(x, u.m, k, w, u.d, n) BY <2>8, <2>9 DEF R
  <2>. QED BY <1>4, <2>1, <2>2, <2>5, <2>10 DEF n, w, k
<1>. QED BY <1>3, <1>4

\* A run of a patch that has been assembled without errors.
Done(g) ==
  /\ patch \in Seq(commands.of) /\ LegalRun(g) /\ Named(g, first, Len(patch))
  /\ \A i \in 1 .. Len(patch) : Refers(patch[i]) => FindsOf(g, i)

LEMMA FinalRun == ASSUME Types, SameInv, RefInv, Final PROVE \E g : Done(g)
<1>1. ~errored /\ pass = 3 BY DEF Final
<1>2. PICK g : IsRun(g) /\ Named(g, first, Len(patch)) BY <1>1 DEF SameInv
<1>3. LegalRun(g) BY <1>1, <1>2 DEF RefInv, LegalInv
<1>4. \A i \in 1 .. Len(patch) : Refers(patch[i]) => FindsOf(g, i)
  BY <1>1, <1>2 DEF RefInv, FoundInv
<1>5. patch \in Seq(commands.of) BY DEF Types, ReadInv
<1>. QED BY <1>2, <1>3, <1>4, <1>5, Zenon DEF Done

LEMMA FoundName ==
  ASSUME NEW g, Done(g), NEW i \in 1 .. Len(patch), Refers(patch[i])
  PROVE  /\ found[i] \in 1 .. Len(patch) /\ RefOf(g[i], patch[i]) # <<>>
         /\ NameOf(g[found[i]], patch[found[i]])
              \in {RefOf(g[i], patch[i]), g[i].space.ns \o RefOf(g[i], patch[i])}
<1>1. FindsOf(g, i) /\ LegalRun(g) /\ Named(g, first, Len(patch)) BY DEF Done
<1>2. PICK j : j = found[i] OBVIOUS
<1>3. j \in 1 .. Len(patch) BY <1>1, <1>2 DEF FindsOf
<1>4. j \in 1 .. MaxLen /\ j <= Len(patch) BY <1>1, <1>3, NamesAssumption DEF LegalRun
<1>5. first[j] = NameOf(g[j], patch[j]) BY <1>1, <1>4 DEF Named
<1>. QED BY <1>1, <1>2, <1>5 DEF FindsOf

\* The label that is found is of the kind, and of the number, that the reference wants.
LEMMA FoundSign ==
  ASSUME NEW g, Done(g), NEW i \in 1 .. Len(patch), patch[i].c \in {"use_plus", "use_minus"}
  PROVE  LET u == patch[i]   kind == KindOf(u)
         IN  /\ found[i] \in Alike(i) /\ kind \in {"plus", "minus"}
             /\ u.m \in BOOLEAN /\ u.d \in Depths
             /\ CountOf(g[found[i]], kind, u.m, u.d) + (IF kind = "minus" THEN 1 ELSE 0)
                  = CountOf(g[i], kind, u.m, u.d)
<1>. DEFINE u == patch[i]   kind == KindOf(u)
<1>1. PICK j, x : j = found[i] /\ x = NameOf(g[j], patch[j]) OBVIOUS
<1>2. Refers(u) /\ u.c # "use" /\ LegalRun(g) BY DEF Refers, Done
<1>3. /\ j \in 1 .. Len(patch) /\ RefOf(g[i], u) # <<>>
      /\ x \in {RefOf(g[i], u), g[i].space.ns \o RefOf(g[i], u)}
  BY <1>1, <1>2, FoundName
<1>. DEFINE n == CountOf(g[i], kind, u.m, u.d)   k == g[i].macro.called
<1>4. /\ u.m => g[i].macro.frames # <<>>
      /\ u.m \in BOOLEAN /\ u.d \in Depths /\ n \in Nat /\ Numeral(n)
      /\ Signed(x, u.m, k, WordOf(kind), u.d, n)
  BY <1>2, <1>3, RefKind
<1>. DEFINE c == patch[j]   k2 == g[j].macro.called
            n2 == CountOf(g[j], c.c, c.m, c.d) + IF c.c = "minus" THEN 1 ELSE 0
<1>5. /\ c.c \in {"plus", "minus"} =>
           /\ c.m \in BOOLEAN /\ c.d \in Depths /\ (c.m => g[j].macro.frames # <<>>)
           /\ n2 \in Nat /\ Numeral(n2) /\ Signed(x, c.m, k2, WordOf(c.c), c.d, n2)
      /\ c.c = "label" => Kind(x, c.m, k2)
      /\ c.c \notin {"plus", "minus", "label"} => Plain(x)
  BY <1>1, <1>2, <1>3, NameKind
<1>6. /\ k \in Nat /\ Numeral(k) /\ k2 \in Nat /\ Numeral(k2) /\ MaxLen >= 1
  BY <1>2, <1>3, RunFacts
<1>. HIDE DEF n, n2, k, k2, c, u, kind
<1>7. ~Plain(x) /\ \A q : ~Tagged(x, q) BY <1>4, KindsDiffer
<1>8. c.c \in {"plus", "minus"} BY <1>5, <1>7 DEF Kind
<1>9. u.m = c.m /\ WordOf(kind) = WordOf(c.c) /\ u.d = c.d /\ n = n2 /\ (u.m => k = k2)
  BY <1>4, <1>5, <1>6, <1>8, SignOne
<1>10. kind \in {"plus", "minus"} BY DEF kind, KindOf
<1>11. kind = c.c BY <1>8, <1>9, <1>10 DEF WordOf
<1>12. u.m => Around(j) = Around(i)
  <2>. SUFFICES ASSUME u.m PROVE Around(j) = Around(i) OBVIOUS
  <2>1. /\ g[i].macro.frames # <<>> /\ g[j].macro.frames # <<>>
        /\ g[i].macro.called = g[j].macro.called
    BY <1>4, <1>5, <1>8, <1>9 DEF k, k2
  <2>. QED BY <1>2, <1>3, <2>1, AroundSame
<1>13. j \in DOMAIN patch
  <2>1. i \in 1 .. Len(patch) OBVIOUS
  <2>2. DOMAIN patch = 1 .. Len(patch) BY DEF Done
  <2>. QED BY <1>3, <2>2
<1>14. kind = IF u.c = "use_plus" THEN "plus" ELSE "minus" BY DEF kind, KindOf
<1>15. j \in Alike(i) BY <1>9, <1>11, <1>12, <1>13, <1>14 DEF Alike, u, c
<1>16. CountOf(g[j], kind, u.m, u.d) + (IF kind = "minus" THEN 1 ELSE 0) = n
  BY <1>9, <1>11 DEF n2
<1>. QED BY <1>1, <1>4, <1>10, <1>15, <1>16 DEF u, kind, n

\* In the patch, and among the labels a reference may want, the later has the higher count.
LEMMA AlikeGrow ==
  ASSUME NEW g, Done(g), NEW i \in 1 .. Len(patch), patch[i].c \in {"use_plus", "use_minus"}
  PROVE  LET u == patch[i]
             h(x) == CountOf(g[x], KindOf(u), u.m, u.d)
         IN  \A x, y \in Alike(i) \cup {i} :
               /\ x \in Nat /\ h(x) \in Nat
               /\ x < y => h(x) <= h(y) /\ (x \in Alike(i) => h(x) + 1 <= h(y))
<1>. DEFINE u == patch[i]   kind == KindOf(u)   h(x) == CountOf(g[x], kind, u.m, u.d)
<1>1. LegalRun(g) /\ patch \in Seq(commands.of) BY DEF Done
<1>2. kind \in {"plus", "minus"} /\ u.m \in BOOLEAN /\ u.d \in Depths BY FoundSign
<1>3. kind = IF u.c = "use_plus" THEN "plus" ELSE "minus" BY DEF KindOf
<1>4. \A x \in Alike(i) : /\ x \in 1 .. Len(patch) /\ (u.m => Around(x) = Around(i))
                          /\ patch[x].c = kind /\ patch[x].m = u.m /\ patch[x].d = u.d
  BY <1>1, <1>3 DEF Alike
<1>. HIDE DEF u, kind
<1>5. ASSUME NEW x \in Alike(i) \cup {i}, NEW y \in Alike(i) \cup {i}
      PROVE  /\ x \in Nat /\ h(x) \in Nat
             /\ x < y => h(x) <= h(y) /\ (x \in Alike(i) => h(x) + 1 <= h(y))
  <2>1. /\ x \in 1 .. Len(patch) /\ y \in 1 .. Len(patch) /\ (u.m => Around(x) = Around(y))
    BY <1>4
  <2>2. h(x) \in 0 .. x - 1 BY <1>1, <1>2, <2>1, CountsGrow
  <2>3. ASSUME x < y PROVE h(x) <= h(y) /\ (x \in Alike(i) => h(x) + 1 <= h(y))
    <3>1. x \in 1 .. y - 1 BY <2>1, <2>3
    <3>2. /\ h(x) <= h(y)
          /\ patch[x].c = kind /\ patch[x].m = u.m /\ patch[x].d = u.d => h(x) + 1 <= h(y)
      BY <1>1, <1>2, <2>1, <3>1, CountsGrow
    <3>. QED BY <1>4, <3>2
  <2>. QED BY <2>1, <2>2, <2>3
<1>. QED BY <1>5 DEF u, kind

\* In a patch without errors a reference + means the next + label of its depth and a reference -
\* the last one, and ?+ and ?- those of the call they are in (posneglabelname): the count that is
\* in its name is that of one label, and no other one between has it.
THEOREM RelativeNearestHolds == Spec => []RelativeNearest
<1>1. Types /\ SameInv /\ RefInv => RelativeNearest
  <2>. SUFFICES ASSUME Types, SameInv, RefInv, Final PROVE RelativeNearest
    BY DEF RelativeNearest
  <2>1. PICK g : Done(g) BY FinalRun
  <2>2. DOMAIN patch = 1 .. Len(patch) BY DEF Types, ReadInv
  <2>3. ASSUME NEW i \in DOMAIN patch, patch[i].c \in {"use_plus", "use_minus"}
        PROVE  \E h :
                 /\ found[i] \in Alike(i) /\ i \notin Alike(i)
                 /\ h[found[i]] + (IF patch[i].c = "use_minus" THEN 1 ELSE 0) = h[i]
                 /\ \A x, y \in Alike(i) \cup {i} :
                      /\ x \in Nat /\ h[x] \in Nat
                      /\ x < y => h[x] <= h[y] /\ (x \in Alike(i) => h[x] + 1 <= h[y])
    <3>. DEFINE u == patch[i]   kind == KindOf(u)
                h == [x \in Alike(i) \cup {i} |-> CountOf(g[x], kind, u.m, u.d)]
    <3>1. i \in 1 .. Len(patch) BY <2>2
    <3>2. /\ found[i] \in Alike(i)
          /\ CountOf(g[found[i]], kind, u.m, u.d) + (IF kind = "minus" THEN 1 ELSE 0)
               = CountOf(g[i], kind, u.m, u.d)
      BY <2>1, <2>3, <3>1, FoundSign
    <3>3. \A x, y \in Alike(i) \cup {i} :
            LET p == CountOf(g[x], kind, u.m, u.d)   q == CountOf(g[y], kind, u.m, u.d)
            IN  /\ x \in Nat /\ p \in Nat
                /\ x < y => p <= q /\ (x \in Alike(i) => p + 1 <= q)
      BY <2>1, <2>3, <3>1, AlikeGrow
    <3>4. \A x \in Alike(i) \cup {i} : h[x] = CountOf(g[x], kind, u.m, u.d) OBVIOUS
    <3>5. kind = "minus" <=> u.c = "use_minus" BY <2>3 DEF KindOf
    <3>6. i \notin Alike(i) BY <2>3 DEF Alike
    <3>. HIDE DEF h, kind, u
    <3>7. h[found[i]] + (IF u.c = "use_minus" THEN 1 ELSE 0) = h[i]
      BY <3>2, <3>4, <3>5
    <3>8. \A x, y \in Alike(i) \cup {i} :
            /\ x \in Nat /\ h[x] \in Nat
            /\ x < y => h[x] <= h[y] /\ (x \in Alike(i) => h[x] + 1 <= h[y])
      BY <3>3, <3>4
    <3>. QED BY <3>2, <3>6, <3>7, <3>8 DEF u
  <2>4. ASSUME NEW i \in References({"use_plus"})
        PROVE  LET next == { j \in Alike(i) : j > i }
               IN  found[i] \in next /\ \A j \in next : found[i] <= j
    <3>1. i \in DOMAIN patch /\ patch[i].c = "use_plus" BY DEF References
    <3>2. PICK h : /\ found[i] \in Alike(i) /\ i \notin Alike(i)
                   /\ h[found[i]] + 0 = h[i]
                   /\ \A x, y \in Alike(i) \cup {i} :
                        /\ x \in Nat /\ h[x] \in Nat
                        /\ x < y => h[x] <= h[y] /\ (x \in Alike(i) => h[x] + 1 <= h[y])
      BY <2>3, <3>1
    <3>3. PICK F, A : F = found[i] /\ A = Alike(i) OBVIOUS
    <3>4. /\ F \in A /\ i \notin A /\ h[F] + 0 = h[i] /\ F \in A \cup {i} /\ i \in A \cup {i}
          /\ \A x, y \in A \cup {i} :
                /\ x \in Nat /\ h[x] \in Nat
                /\ x < y => h[x] <= h[y] /\ (x \in A => h[x] + 1 <= h[y])
      BY <3>2, <3>3, Zenon
    <3>5. F \in Nat /\ i \in Nat /\ h[F] \in Nat /\ h[i] \in Nat BY <3>4
    <3>6. ~(F < i)
      <4>1. F < i => h[F] + 1 <= h[i] BY <3>4
      <4>. QED BY <3>4, <3>5, <4>1
    <3>7. F > i BY <3>4, <3>5, <3>6
    <3>8. ASSUME NEW j \in A, j > i PROVE F <= j
      <4>1. j \in Nat /\ h[j] \in Nat BY <3>4
      <4>2. h[i] <= h[j] /\ (j < F => h[j] + 1 <= h[F])
        <5>1. i < j BY <3>5, <3>8, <4>1
        <5>. QED BY <3>4, <5>1
      <4>. QED BY <3>4, <3>5, <4>1, <4>2
    <3>. QED BY <3>3, <3>4, <3>7, <3>8
  <2>5. ASSUME NEW i \in References({"use_minus"})
        PROVE  LET last == { j \in Alike(i) : j < i }
               IN  found[i] \in last /\ \A j \in last : j <= found[i]
    <3>1. i \in DOMAIN patch /\ patch[i].c = "use_minus" BY DEF References
    <3>2. PICK h : /\ found[i] \in Alike(i) /\ i \notin Alike(i)
                   /\ h[found[i]] + 1 = h[i]
                   /\ \A x, y \in Alike(i) \cup {i} :
                        /\ x \in Nat /\ h[x] \in Nat
                        /\ x < y => h[x] <= h[y] /\ (x \in Alike(i) => h[x] + 1 <= h[y])
      BY <2>3, <3>1
    <3>3. PICK F, A : F = found[i] /\ A = Alike(i) OBVIOUS
    <3>4. /\ F \in A /\ i \notin A /\ h[F] + 1 = h[i] /\ F \in A \cup {i} /\ i \in A \cup {i}
          /\ \A x, y \in A \cup {i} :
                /\ x \in Nat /\ h[x] \in Nat
                /\ x < y => h[x] <= h[y] /\ (x \in A => h[x] + 1 <= h[y])
      BY <3>2, <3>3, Zenon
    <3>5. F \in Nat /\ i \in Nat /\ h[F] \in Nat /\ h[i] \in Nat BY <3>4
    <3>6. ~(i < F)
      <4>1. i < F => h[i] <= h[F] BY <3>4
      <4>. QED BY <3>4, <3>5, <4>1
    <3>7. F < i BY <3>4, <3>5, <3>6
    <3>8. ASSUME NEW j \in A, j < i PROVE j <= F
      <4>1. j \in Nat /\ h[j] \in Nat BY <3>4
      <4>2. h[j] + 1 <= h[i] /\ (F < j => h[F] + 1 <= h[j]) BY <3>4, <3>8
      <4>. QED BY <3>4, <3>5, <4>1, <4>2
    <3>. QED BY <3>3, <3>4, <3>7, <3>8
  <2>. QED BY <2>4, <2>5, Zenon DEF RelativeNearest
<1>2. Spec => [](Types /\ SameInv /\ RefInv)
  BY TypesInit, TypesStep, SameInit, SameStep, RefInit, RefStep, PTL DEF Spec
<1>. QED BY <1>1, <1>2, PTL

\* In a patch without errors a macro label is found by the call that defines it, never by an
\* inner, an outer or another one: its name has the number of the call (callmacro).
THEOREM MacroLabelsHold == Spec => []MacroLabelsStay
<1>1. Types /\ SameInv /\ RefInv => MacroLabelsStay
  <2>. SUFFICES ASSUME Types, SameInv, RefInv, Final, NEW i \in References({"use"}), patch[i].m
       PROVE  found[i] # 0 /\ Around(found[i]) = Around(i)
    BY Zenon DEF MacroLabelsStay
  <2>1. PICK g : Done(g) BY FinalRun
  <2>2. PICK j, x : j = found[i] /\ x = NameOf(g[j], patch[j]) OBVIOUS
  <2>3. i \in 1 .. Len(patch) /\ patch[i].c = "use" /\ Refers(patch[i]) /\ LegalRun(g)
    BY <2>1 DEF Types, ReadInv, References, Refers, Done
  <2>4. /\ j \in 1 .. Len(patch) /\ RefOf(g[i], patch[i]) # <<>>
        /\ x \in {RefOf(g[i], patch[i]), g[i].space.ns \o RefOf(g[i], patch[i])}
    BY <2>1, <2>2, <2>3, FoundName
  <2>. DEFINE k == g[i].macro.called   k2 == g[j].macro.called   c == patch[j]
  <2>5. g[i].macro.frames # <<>> /\ Kind(x, patch[i].m, k) BY <2>3, <2>4, RefKind
  <2>6. Tagged(x, k) BY <2>5 DEF Kind
  <2>7. ~Plain(x) /\ \A m, q, w, d, n : ~Signed(x, m, q, w, d, n) BY <2>6, KindsDiffer
  <2>8. /\ c.c \in {"plus", "minus"} => \E m, q, w, d, n : Signed(x, m, q, w, d, n)
        /\ c.c = "label" => Kind(x, c.m, k2) /\ (c.m => g[j].macro.frames # <<>>)
        /\ c.c \notin {"plus", "minus", "label"} => Plain(x)
    BY <2>2, <2>3, <2>4, NameKind
  <2>9. c.m /\ Tagged(x, k2) /\ g[j].macro.frames # <<>> BY <2>7, <2>8 DEF Kind
  <2>10. k \in Nat /\ Numeral(k) /\ k2 \in Nat /\ Numeral(k2) BY <2>3, <2>4, RunFacts
  <2>. HIDE DEF c
  <2>11. k = k2
    <3>. HIDE DEF k, k2
    <3>. QED BY <2>6, <2>9, <2>10, TagOne
  <2>12. Around(i) = Around(j) BY <2>3, <2>4, <2>5, <2>9, <2>11, AroundSame
  <2>. QED BY <2>2, <2>4, <2>12
<1>2. Spec => [](Types /\ SameInv /\ RefInv)
  BY TypesInit, TypesStep, SameInit, SameStep, RefInit, RefStep, PTL DEF Spec
<1>. QED BY <1>1, <1>2, PTL
=============================================================================
