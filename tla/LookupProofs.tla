----------------------------- MODULE LookupProofs -----------------------------
(***************************************************************************)
(* What the table finds, for every table that calls can make and every     *)
(* request.                                                                *)
(***************************************************************************)
EXTENDS RouteTableProofs

-----------------------------------------------------------------------------
(* The edges of a tree *)

ParamLabel == <<"param", "">>
CatchAllLabel == <<"catchAll", "...">>

(* A walk follows the label on a segment of a path.                        *)
Filled(seg) == seg # ""
Follows(l, seg) == l = <<"static", seg>> \/ (l = ParamLabel /\ Filled(seg))

LEMMA ParamFacts ==
  \A s \in Params : Label(s) = ParamLabel /\ ~Checked(s) /\ s.type = "" /\ s \in Seg
<1> SUFFICES ASSUME NEW s \in Params
             PROVE  Label(s) = ParamLabel /\ ~Checked(s) /\ s.type = "" /\ s \in Seg
  OBVIOUS
<1>1. s \in Seg /\ s.kind = "param" /\ s.type = ""
  BY DEF Params, Seg
<1> QED
  BY <1>1 DEF Label, Checked, ParamLabel

LEMMA CatchAllFacts ==
  \A s \in CatchAlls : Label(s) = CatchAllLabel /\ ~Checked(s) /\ s.type = "..." /\ s \in Seg
<1> SUFFICES ASSUME NEW s \in CatchAlls
             PROVE  Label(s) = CatchAllLabel /\ ~Checked(s) /\ s.type = "..." /\ s \in Seg
  OBVIOUS
<1>1. s \in Seg /\ s.kind = "catchAll" /\ s.type = "..."
  BY DEF CatchAlls, Seg
<1> QED
  BY <1>1 DEF Label, Checked, CatchAllLabel

(* A list is empty or has a first element.                                 *)
LEMMA SomeElement ==
  ASSUME NEW S, NEW seq \in Seq(S)
  PROVE  seq # << >> <=> \E i \in DOMAIN seq : seq[i] \in S
<1>1. seq # << >> => 1 \in DOMAIN seq /\ seq[1] \in S
  OBVIOUS
<1>2. DOMAIN << >> = {}
  OBVIOUS
<1> QED
  BY <1>1, <1>2

(* The node behind an edge, by the label of the edge.                      *)
LEMMA ChildLabel ==
  ASSUME NEW t, TreeInv(t), NEW n \in DOMAIN t, NEW l, Append(n, l) \in DOMAIN t,
         NEW L, l \in L
  PROVE  \E s \in Seg : l = Label(s)
<1>1. n \in Seq(Labels) /\ Append(n, l) \in Seq(Labels)
  BY DEF TreeInv
<1>2. n \in Seq(L \cup Labels)
  BY <1>1
<1>3. Append(n, l)[Len(n) + 1] = l /\ Len(Append(n, l)) = Len(n) + 1
  BY <1>2
<1>4. l \in Labels
  BY <1>1, <1>3
<1> QED
  BY <1>4 DEF Labels

(* A node has an edge of either kind just if there is a node behind it.    *)
LEMMA TreeEdges ==
  ASSUME NEW t, TreeInv(t), NEW n \in DOMAIN t
  PROVE  /\ t[n] \in Node
         /\ t[n].params # << >> <=> Append(n, ParamLabel) \in DOMAIN t
         /\ t[n].catchAlls # << >> <=> Append(n, CatchAllLabel) \in DOMAIN t
<1>1. t[n] \in Node /\ t[n].params \in Seq(Params) /\ t[n].catchAlls \in Seq(CatchAlls)
  BY DEF TreeInv, Node
<1>2. \A s \in Seg : s.kind # "static" =>
        (Append(n, Label(s)) \in DOMAIN t <=> Known(EdgesFor(t[n], s), s))
  BY DEF TreeInv
<1>3. ASSUME t[n].params # << >>
      PROVE  Append(n, ParamLabel) \in DOMAIN t
  <2>1. PICK i \in DOMAIN t[n].params : t[n].params[i] \in Params
    BY <1>1, <1>3, SomeElement
  <2>2. /\ t[n].params[i] \in Seg /\ t[n].params[i].kind = "param"
        /\ Label(t[n].params[i]) = ParamLabel
    BY <2>1, ParamFacts DEF Params
  <2>3. Known(EdgesFor(t[n], t[n].params[i]), t[n].params[i])
    BY <2>1, <2>2 DEF Known, EdgesFor
  <2> QED
    BY <1>2, <2>2, <2>3
<1>4. ASSUME Append(n, ParamLabel) \in DOMAIN t
      PROVE  t[n].params # << >>
  <2>1. PICK s \in Seg : ParamLabel = Label(s)
    BY <1>4, ChildLabel
  <2>2. s.kind = "param"
    BY <2>1 DEF Label, ParamLabel, Seg
  <2>3. Known(t[n].params, s)
    BY <1>2, <1>4, <2>1, <2>2 DEF EdgesFor
  <2> QED
    BY <1>1, <2>3, SomeElement DEF Known
<1>5. ASSUME t[n].catchAlls # << >>
      PROVE  Append(n, CatchAllLabel) \in DOMAIN t
  <2>1. PICK i \in DOMAIN t[n].catchAlls : t[n].catchAlls[i] \in CatchAlls
    BY <1>1, <1>5, SomeElement
  <2>2. /\ t[n].catchAlls[i] \in Seg /\ t[n].catchAlls[i].kind = "catchAll"
        /\ Label(t[n].catchAlls[i]) = CatchAllLabel
    BY <2>1, CatchAllFacts DEF CatchAlls
  <2>3. Known(EdgesFor(t[n], t[n].catchAlls[i]), t[n].catchAlls[i])
    BY <2>1, <2>2 DEF Known, EdgesFor
  <2> QED
    BY <1>2, <2>2, <2>3
<1>6. ASSUME Append(n, CatchAllLabel) \in DOMAIN t
      PROVE  t[n].catchAlls # << >>
  <2>1. PICK s \in Seg : CatchAllLabel = Label(s)
    BY <1>6, ChildLabel
  <2>2. s.kind = "catchAll"
    BY <2>1 DEF Label, CatchAllLabel, Seg
  <2>3. Known(t[n].catchAlls, s)
    BY <1>2, <1>6, <2>1, <2>2 DEF EdgesFor
  <2> QED
    BY <1>1, <2>3, SomeElement DEF Known
<1> QED
  BY <1>1, <1>3, <1>4, <1>5, <1>6

LEMMA Prepended ==
  ASSUME NEW S, NEW y \in Seq(S), NEW T, NEW x \in T
  PROVE  /\ DOMAIN (<<x>> \o y) = 1 .. Len(y) + 1 /\ Len(y) \in Nat
         /\ (<<x>> \o y)[1] = x
         /\ \A i \in 2 .. Len(y) + 1 : (<<x>> \o y)[i] = y[i - 1]
<1>1. <<x>> \in Seq(S \cup T) /\ y \in Seq(S \cup T) /\ Len(<<x>>) = 1 /\ <<x>>[1] = x
  OBVIOUS
<1> QED
  BY <1>1

(* What a walk may try from a node on a segment, one by one.               *)
AreBranches(bs, ps, t, n, seg) ==
    /\ Len(ps) \in Nat /\ DOMAIN bs = 1 .. Len(ps) + 1
    /\ bs[1].to = Append(n, <<"static", seg>>) /\ bs[1].binds = << >>
    /\ bs[1].open <=> Append(n, <<"static", seg>>) \in DOMAIN t
    /\ \A i \in 2 .. Len(ps) + 1 : bs[i].to = Append(n, ParamLabel)
    /\ \A i \in 2 .. Len(ps) + 1 : bs[i].open <=> Filled(seg)
    /\ \A i \in 2 .. Len(ps) + 1 : bs[i].binds = <<Binding(ps[i - 1], <<seg>>)>>

LEMMA BranchFacts ==
  ASSUME NEW t, TreeInv(t), NEW n \in DOMAIN t, NEW seg
  PROVE  AreBranches(Branches(t, n, seg), t[n].params, t, n, seg)
<1>0. PICK bs, ps : bs = Branches(t, n, seg) /\ ps = t[n].params
  OBVIOUS
<1> DEFINE x == [to |-> Append(n, <<"static", seg>>),
                 open |-> Append(n, <<"static", seg>>) \in DOMAIN t, binds |-> << >>]
           y == [i \in DOMAIN ps |-> [to |-> Append(n, Label(ps[i])),
                                      open |-> seg # "" /\ Passes(ps[i], seg),
                                      binds |-> <<Binding(ps[i], <<seg>>)>>]]
           z(i) == [to |-> Append(n, ParamLabel), open |-> seg # "",
                    binds |-> <<Binding(ps[i], <<seg>>)>>]
<1>1. ps \in Seq(Params) /\ Len(ps) \in Nat /\ DOMAIN ps = 1 .. Len(ps)
  BY <1>0, TreeEdges DEF Node
<1>2. ASSUME NEW i \in DOMAIN ps
      PROVE  y[i] = z(i)
  <2>1. ps[i] \in Params
    BY <1>1
  <2>2. Label(ps[i]) = ParamLabel /\ (Passes(ps[i], seg) <=> TRUE)
    BY <2>1, ParamFacts DEF Passes
  <2>3. (seg # "" /\ Passes(ps[i], seg)) = (seg # "")
    BY <2>2
  <2> QED
    BY <2>2, <2>3
<1>3. bs = <<x>> \o y
  BY <1>0 DEF Branches
<1>4. Len(y) = Len(ps) /\ y \in Seq({y[i] : i \in DOMAIN ps})
  <2>1. DOMAIN y = 1 .. Len(ps) /\ y = [i \in 1 .. Len(ps) |-> y[i]]
    BY <1>1
  <2> HIDE DEF y
  <2>2. \A i \in 1 .. Len(ps) : y[i] \in {y[j] : j \in DOMAIN ps}
    BY <1>1
  <2> QED
    BY <1>1, <2>1, <2>2, IsASeq
<1>6. \A i \in 2 .. Len(ps) + 1 : i - 1 \in DOMAIN ps
  BY <1>1
<1> HIDE DEF x, y, z
<1>5. /\ DOMAIN (<<x>> \o y) = 1 .. Len(ps) + 1
      /\ (<<x>> \o y)[1] = x
      /\ \A i \in 2 .. Len(ps) + 1 : (<<x>> \o y)[i] = y[i - 1]
  <2>1. \E T : x \in T
    OBVIOUS
  <2> QED
    BY <1>4, <2>1, Prepended
<1>7. \A i \in 2 .. Len(ps) + 1 : (<<x>> \o y)[i] = z(i - 1)
  BY <1>2, <1>5, <1>6
<1>8. /\ x.to = Append(n, <<"static", seg>>) /\ x.binds = << >>
      /\ x.open <=> Append(n, <<"static", seg>>) \in DOMAIN t
  BY DEF x
<1>9. \A i : /\ z(i).to = Append(n, ParamLabel) /\ (z(i).open <=> Filled(seg))
             /\ z(i).binds = <<Binding(ps[i], <<seg>>)>>
  BY Zenon DEF z, Filled
<1>10. /\ DOMAIN bs = 1 .. Len(ps) + 1
       /\ bs[1] = x /\ \A i \in 2 .. Len(ps) + 1 : bs[i] = z(i - 1)
  BY <1>3, <1>5, <1>7
<1>11. \A i \in 2 .. Len(ps) + 1 :
         /\ bs[i].to = Append(n, ParamLabel) /\ (bs[i].open <=> Filled(seg))
         /\ bs[i].binds = <<Binding(ps[i - 1], <<seg>>)>>
  BY <1>9, <1>10
<1> HIDE DEF x
<1>12. AreBranches(bs, ps, t, n, seg)
  BY <1>1, <1>8, <1>10, <1>11 DEF AreBranches
<1> QED
  BY <1>0, <1>12

-----------------------------------------------------------------------------
(* Collect *)

(* The ways on are those of the labels that the segment lets it follow.    *)
LEMMA WaysOn ==
  ASSUME NEW t, TreeInv(t), NEW n \in DOMAIN t, NEW seg, NEW deeper, NEW v
  PROVE  (\E b \in ToSet(Branches(t, n, seg)) : b.open /\ v \in deeper[b.to]) <=>
           \E l : /\ Follows(l, seg) /\ Append(n, l) \in DOMAIN t
                  /\ v \in deeper[Append(n, l)]
<1>1. PICK bs, ps : bs = Branches(t, n, seg) /\ ps = t[n].params
  OBVIOUS
<1> DEFINE m == Append(n, <<"static", seg>>)
<1>2. /\ Len(ps) \in Nat /\ DOMAIN bs = 1 .. Len(ps) + 1
      /\ bs[1].to = m /\ (bs[1].open <=> m \in DOMAIN t)
      /\ \A i \in 2 .. Len(ps) + 1 : bs[i].to = Append(n, ParamLabel)
      /\ \A i \in 2 .. Len(ps) + 1 : bs[i].open <=> Filled(seg)
  <2>1. AreBranches(bs, ps, t, n, seg)
    BY <1>1, BranchFacts
  <2> QED
    BY <2>1 DEF AreBranches
<1>3. /\ ps \in Seq(Params)
      /\ ps # << >> <=> Append(n, ParamLabel) \in DOMAIN t
  BY <1>1, TreeEdges DEF Node
<1> HIDE DEF m
<1>4. (\E i \in 2 .. Len(ps) + 1 : TRUE) <=> Append(n, ParamLabel) \in DOMAIN t
  <2>1. ps # << >> <=> Len(ps) # 0
    BY <1>3, EmptySeq
  <2>2. Len(ps) # 0 => 2 \in 2 .. Len(ps) + 1
    BY <1>2
  <2>3. Len(ps) = 0 => 2 .. Len(ps) + 1 = {}
    BY <1>2
  <2> QED
    BY <1>3, <2>1, <2>2, <2>3
<1> DEFINE Some == \E b \in ToSet(bs) : b.open /\ v \in deeper[b.to]
<1>5. Some <=> \E i \in 1 .. Len(ps) + 1 : bs[i].open /\ v \in deeper[bs[i].to]
  BY <1>2 DEF ToSet
<1>6. \A i : i \in 1 .. Len(ps) + 1 <=> i = 1 \/ i \in 2 .. Len(ps) + 1
  BY <1>2
<1> HIDE DEF Some
<1>7. Some <=> \/ m \in DOMAIN t /\ v \in deeper[m]
               \/ /\ Filled(seg) /\ Append(n, ParamLabel) \in DOMAIN t
                  /\ v \in deeper[Append(n, ParamLabel)]
  BY <1>2, <1>4, <1>5, <1>6
<1> QED
  BY <1>1, <1>7 DEF Some, m, Follows

(* What one node gives.                                                    *)
LEMMA CollectedFrom ==
  ASSUME NEW t, TreeInv(t), NEW n \in DOMAIN t, NEW left, NEW deeper, NEW v
  PROVE  v \in CollectFrom(t, n, left, deeper) <=>
           \/ left = << >> /\ Holds(t, n, v)
           \/ left # << >> /\ \E l : /\ Follows(l, Head(left)) /\ Append(n, l) \in DOMAIN t
                                     /\ v \in deeper[Append(n, l)]
           \/ Holds(t, Append(n, CatchAllLabel), v)
<1> DEFINE bs == Branches(t, n, Head(left))
           ps == t[n].params
           cs == t[n].catchAlls
           open == {b \in ToSet(bs) : b.open}
           behind == {e \in ToSet(cs) : left = << >> \/ Passes(e, left)}
           here == IF left = << >> THEN ToSet(t[n].values)
                   ELSE UNION {deeper[b.to] : b \in open}
           rest == UNION {ToSet(t[Append(n, Label(e))].values) : e \in behind}
<1>1. CollectFrom(t, n, left, deeper) = here \cup rest
  BY Zenon DEF CollectFrom
<1>2. /\ ps \in Seq(Params) /\ cs \in Seq(CatchAlls)
      /\ ps # << >> <=> Append(n, ParamLabel) \in DOMAIN t
      /\ cs # << >> <=> Append(n, CatchAllLabel) \in DOMAIN t
  BY TreeEdges DEF Node
<1>3. v \in rest <=> Holds(t, Append(n, CatchAllLabel), v)
  <2>1. \A e \in ToSet(cs) : Label(e) = CatchAllLabel /\ Passes(e, left)
    BY <1>2, CatchAllFacts DEF ToSet, Passes
  <2>2. v \in rest <=> \E e \in ToSet(cs) : v \in ToSet(t[Append(n, CatchAllLabel)].values)
    BY <2>1
  <2>3. (\E e \in ToSet(cs) : TRUE) <=> Append(n, CatchAllLabel) \in DOMAIN t
    <3>1. cs # << >> <=> \E i \in DOMAIN cs : cs[i] \in CatchAlls
      BY <1>2, SomeElement
    <3>2. \A i \in DOMAIN cs : cs[i] \in CatchAlls
      BY <1>2
    <3> HIDE DEF cs
    <3> QED
      BY <1>2, <3>1, <3>2 DEF ToSet
  <2> QED
    BY <2>2, <2>3 DEF Holds
<1>4. left = << >> => (v \in here <=> Holds(t, n, v))
  BY DEF Holds
<1>5. ASSUME left # << >>
      PROVE  v \in here <=> \E l : /\ Follows(l, Head(left)) /\ Append(n, l) \in DOMAIN t
                                   /\ v \in deeper[Append(n, l)]
  <2>1. v \in here <=> \E b \in ToSet(bs) : b.open /\ v \in deeper[b.to]
    BY <1>5
  <2> HIDE DEF here
  <2> QED
    BY <2>1, WaysOn
<1> HIDE DEF here, rest
<1> QED
  BY <1>1, <1>3, <1>4, <1>5

(* A node gives what its tree holds, if the nodes below do.                *)
LEMMA CollectedType ==
  ASSUME NEW t, TreeInv(t), NEW n \in DOMAIN t, NEW left,
         NEW deeper, left # << >> => deeper \in [DOMAIN t -> SUBSET Nat]
  PROVE  CollectFrom(t, n, left, deeper) \in SUBSET Nat
<1>1. \A m, v : Holds(t, m, v) => v \in Nat
  <2>1. \A m \in DOMAIN t : t[m].values \in Seq(Nat)
    BY DEF TreeInv, Node
  <2> QED
    BY <2>1 DEF Holds, ToSet
<1>2. ASSUME NEW v \in CollectFrom(t, n, left, deeper)
      PROVE  v \in Nat
  BY <1>1, <1>2, CollectedFrom
<1> QED
  BY <1>2

(* What is left of a path.                                                 *)
LEMMA EndingFacts ==
  ASSUME NEW S, NEW path \in Seq(S)
  PROVE  /\ Ending(path, 0) = << >>
         /\ \A j \in 1 .. Len(path) : /\ Ending(path, j) # << >>
                                      /\ Head(Ending(path, j)) = path[Len(path) - j + 1]
         /\ \A j \in 0 .. Len(path) : Ending(path, j) \in Seq(S) /\ Len(Ending(path, j)) = j
<1> DEFINE n == Len(path)
<1>1. n \in Nat
  OBVIOUS
<1>2. Ending(path, 0) = << >>
  <2>1. n - 0 + 1 = n + 1
    BY <1>1
  <2> QED
    BY <2>1, SubSeqEmpty DEF Ending
<1>3. ASSUME NEW j \in 1 .. n
      PROVE  /\ Ending(path, j) \in Seq(S) /\ Len(Ending(path, j)) = j
             /\ Ending(path, j) # << >>
             /\ Head(Ending(path, j)) = path[n - j + 1]
  <2>1. n - j + 1 \in 1 .. n /\ n \in n - j + 1 .. n /\ n - (n - j + 1) + 1 = j
    BY <1>1
  <2>2. /\ Ending(path, j) \in Seq(S) /\ Len(Ending(path, j)) = j
        /\ \A i \in 1 .. j : Ending(path, j)[i] = path[n - j + 1 + i - 1]
    BY <1>1, <2>1, SubSeqProperties DEF Ending
  <2>3. 1 \in 1 .. j /\ n - j + 1 + 1 - 1 = n - j + 1
    BY <1>1
  <2>4. Ending(path, j)[1] = path[n - j + 1]
    BY <2>2, <2>3
  <2>5. Ending(path, j) # << >>
    BY <2>2, <2>3, EmptySeq
  <2> QED
    BY <2>2, <2>4, <2>5, HeadTailProperties
<1>4. Ending(path, 0) \in Seq(S) /\ Len(Ending(path, 0)) = 0
  BY <1>2, EmptySeq
<1>5. \A j \in 0 .. n : j = 0 \/ j \in 1 .. n
  BY <1>1
<1> HIDE DEF n
<1>6. \A j \in 0 .. n : Ending(path, j) \in Seq(S) /\ Len(Ending(path, j)) = j
  BY <1>3, <1>4, <1>5
<1> QED
  BY <1>2, <1>3, <1>6 DEF n

(* A recursion over how much is left defines a function.                   *)
IsCounted(f, n, A, base, F) ==
    /\ f \in [0 .. n -> A] /\ f[0] = base
    /\ \A k \in 1 .. n : f[k] = F[k][f[k - 1]]

LEMMA CountedExists ==
  ASSUME NEW n \in Nat, NEW A, NEW base \in A, NEW F \in [1 .. n -> [A -> A]]
  PROVE  \E f : IsCounted(f, n, A, base, F)
<1> DEFINE up == [k \in 1 .. n |-> k - 1]
<1>1. \A k \in 1 .. n : up[k] = k - 1 /\ up[k] \in 0 .. k - 1
  OBVIOUS
<1> HIDE DEF up
<1>2. PICK f : IsTreeFold(f, n, A, base, up, F)
  BY <1>1, TreeFoldExists
<1> QED
  BY <1>1, <1>2 DEF IsTreeFold, IsCounted

(* The function behind Collect.                                            *)
Collected(t, path, c) ==
    \A j \in 0 .. Len(path), n \in DOMAIN t :
      c[j][n] = CollectFrom(t, n, Ending(path, j), c[j - 1])

LEMMA CollectRuns ==
  ASSUME NEW t, TreeInv(t), NEW S, NEW path \in Seq(S)
  PROVE  \E c : Collected(t, path, c) /\ Collect(t, path) = c[Len(path)][<< >>]
<1> DEFINE L == Len(path)
           A == [DOMAIN t -> SUBSET Nat]
           Step(j, x) == [n \in DOMAIN t |-> CollectFrom(t, n, Ending(path, j), x)]
           base == Step(0, << >>)
           F == [j \in 1 .. L |-> [x \in A |-> Step(j, x)]]
           Def(g) == g = [j \in 0 .. L |-> Step(j, g[j - 1])]
           from == CHOOSE g : Def(g)
<1>1. L \in Nat /\ Ending(path, 0) = << >>
  BY EndingFacts
<1>2. \A x : Step(0, x) = base
  <2>1. \A n, x, y : CollectFrom(t, n, << >>, x) = CollectFrom(t, n, << >>, y)
    BY Zenon DEF CollectFrom
  <2> QED
    BY <1>1, <2>1
<1>3. base \in A
  <2>1. \A n \in DOMAIN t : CollectFrom(t, n, << >>, << >>) \in SUBSET Nat
    BY CollectedType
  <2> QED
    BY <1>1, <2>1
<1>4. F \in [1 .. L -> [A -> A]]
  <2>1. \A j \in 1 .. L, x \in A, n \in DOMAIN t :
          CollectFrom(t, n, Ending(path, j), x) \in SUBSET Nat
    BY CollectedType
  <2> QED
    BY <2>1
<1>10. PICK f : IsCounted(f, L, A, base, F)
  <2> HIDE DEF L, A, base, F
  <2> QED
    BY <1>1, <1>3, <1>4, CountedExists
<1>5. /\ f \in [0 .. L -> A] /\ f[0] = base
      /\ \A k \in 1 .. L : f[k] = F[k][f[k - 1]]
  BY <1>10 DEF IsCounted
<1>6. Def(f)
  <2>1. ASSUME NEW j \in 0 .. L
        PROVE  f[j] = Step(j, f[j - 1])
    <3>1. CASE j = 0
      BY <1>2, <1>5, <3>1
    <3>2. CASE j # 0
      <4>1. j \in 1 .. L /\ j - 1 \in 0 .. L
        BY <1>1, <3>2
      <4>2. f[j - 1] \in A /\ f[j] = F[j][f[j - 1]]
        BY <1>5, <4>1
      <4> QED
        BY <4>1, <4>2
    <3> QED
      BY <3>1, <3>2
  <2>2. f = [j \in 0 .. L |-> f[j]]
    BY <1>5
  <2> HIDE DEF Step
  <2> QED
    BY <2>1, <2>2
<1>7. Def(from)
  <2> HIDE DEF Def
  <2> QED
    BY <1>6
<1>8. Collected(t, path, from)
  <2>1. \A j \in 0 .. L : from[j] = Step(j, from[j - 1])
    <3> HIDE DEF from, Step
    <3> QED
      BY <1>7
  <2> HIDE DEF from
  <2> QED
    BY <2>1 DEF Collected
<1>9. Collect(t, path) = from[L][<< >>]
  BY DEF Collect
<1> HIDE DEF from
<1> QED
  BY <1>8, <1>9

(* The beginnings of a list.                                               *)
LEMMA BeginningFacts ==
  ASSUME NEW S, NEW m \in Seq(S), NEW k \in 0 .. Len(m)
  PROVE  /\ SubSeq(m, 1, k) \in Seq(S) /\ Len(SubSeq(m, 1, k)) = k
         /\ \A i \in 1 .. k : SubSeq(m, 1, k)[i] = m[i]
<1>1. \A i \in 1 .. k : m[i] \in S
  OBVIOUS
<1>2. /\ SubSeq(m, 1, k) \in Seq(S)
      /\ Len(SubSeq(m, 1, k)) = IF 1 <= k THEN k - 1 + 1 ELSE 0
      /\ \A i \in 1 .. k - 1 + 1 : SubSeq(m, 1, k)[i] = m[1 + i - 1]
  BY <1>1, SubSeqProperties
<1> QED
  BY <1>2

LEMMA OneShorter ==
  ASSUME NEW S, NEW m \in Seq(S), NEW k \in 1 .. Len(m)
  PROVE  SubSeq(m, 1, k) = Append(SubSeq(m, 1, k - 1), m[k])
<1>1. 1 \in 1 .. Len(m) /\ k \in 1 .. Len(m) /\ k - 1 \in 0 .. Len(m) /\ m[k] \in S
  OBVIOUS
<1>2. SubSeq(m, 1, k) = SubSeq(m, 1, k - 1) \o <<m[k]>>
  BY <1>1, SubSeqRecursiveSecond
<1> QED
  BY <1>1, <1>2, BeginningFacts, AppendIsConcat

(* Every beginning of a node's name is a node.                             *)
LEMMA NodesAbove ==
  ASSUME NEW t, TreeInv(t), NEW m \in DOMAIN t, NEW k \in 0 .. Len(m)
  PROVE  SubSeq(m, 1, k) \in DOMAIN t
<1> DEFINE L == Len(m)
           T == {i \in Nat : SubSeq(m, 1, L - i) \in DOMAIN t}
<1>1. m \in Seq(Labels) /\ L \in Nat
  BY DEF TreeInv
<1>2. 0 \in T
  <2>1. SubSeq(m, 1, L) = m /\ L - 0 = L
    BY <1>1, SubSeqFull
  <2> QED
    BY <2>1
<1>3. ASSUME NEW i \in Nat, i < L, i \in T
      PROVE  i + 1 \in T
  <2>1. L - (i + 1) \in 0 .. L /\ L - i \in 1 .. L /\ L - i - 1 = L - (i + 1)
    BY <1>1, <1>3
  <2>2. m[L - i] \in Labels
    BY <1>1, <2>1
  <2>3. SubSeq(m, 1, L - (i + 1)) \in Seq(Labels)
    BY <1>1, <2>1
  <2>4. SubSeq(m, 1, L - i) = Append(SubSeq(m, 1, L - (i + 1)), m[L - i])
    BY <1>1, <2>1, OneShorter
  <2>5. \E s \in Seg : m[L - i] = Label(s)
    BY <2>2 DEF Labels
  <2>6. \A n \in Seq(Labels), s \in Seg : Append(n, Label(s)) \in DOMAIN t => n \in DOMAIN t
    BY DEF TreeInv
  <2>7. SubSeq(m, 1, L - i) \in DOMAIN t
    BY <1>3
  <2>8. SubSeq(m, 1, L - (i + 1)) \in DOMAIN t
    BY <2>3, <2>4, <2>5, <2>6, <2>7
  <2> QED
    BY <2>8
<1>4. \A i \in 0 .. L : i \in T
  <2> HIDE DEF T, L
  <2> QED
    BY <1>1, <1>2, <1>3, UpTo
<1>5. L - k \in 0 .. L /\ L - (L - k) = k
  BY <1>1
<1> QED
  BY <1>4, <1>5

(* m is n or lies below it.                                                *)
Underneath(m, n) == Len(n) <= Len(m) /\ \A i \in 1 .. Len(n) : m[i] = n[i]

LEMMA ChildNamed ==
  ASSUME NEW t, TreeInv(t), NEW n \in DOMAIN t, NEW l, Append(n, l) \in DOMAIN t
  PROVE  /\ Len(n) \in Nat /\ Len(Append(n, l)) = Len(n) + 1
         /\ Append(n, l)[Len(n) + 1] = l
         /\ \A i \in 1 .. Len(n) : Append(n, l)[i] = n[i]
<1>1. PICK s \in Seg : l = Label(s)
  <2>1. l \in {l}
    OBVIOUS
  <2> QED
    BY <2>1, ChildLabel
<1>2. n \in Seq(Labels) /\ l \in Labels
  BY <1>1 DEF TreeInv, Labels
<1> QED
  BY <1>2, AppendProperties

(* Below a node is the node itself and what is below its children.         *)
LEMMA BelowSelf ==
  ASSUME NEW t, TreeInv(t), NEW n \in DOMAIN t, NEW m \in DOMAIN t, Len(m) = Len(n)
  PROVE  Underneath(m, n) <=> m = n
<1>1. n \in Seq(Labels) /\ m \in Seq(Labels)
  BY DEF TreeInv
<1> QED
  BY <1>1, SeqEqual DEF Underneath

LEMMA BelowChild ==
  ASSUME NEW t, TreeInv(t), NEW n \in DOMAIN t, NEW m \in DOMAIN t, NEW l,
         Append(n, l) \in DOMAIN t
  PROVE  Underneath(m, Append(n, l)) <=> Len(n) < Len(m) /\ Underneath(m, n) /\ m[Len(n) + 1] = l
<1> DEFINE c == Append(n, l)
           k == Len(n)
           L == Len(m)
<1>1. /\ k \in Nat /\ Len(c) = k + 1 /\ c[k + 1] = l
      /\ \A i \in 1 .. k : c[i] = n[i]
  BY ChildNamed
<1>2. L \in Nat
  BY DEF TreeInv
<1> HIDE DEF c, k, L
<1>3. \A i : i \in 1 .. k + 1 <=> i \in 1 .. k \/ i = k + 1
  BY <1>1
<1>4. k + 1 <= L <=> k < L
  BY <1>1, <1>2
<1>5. k < L => k <= L
  BY <1>1, <1>2
<1>6. Underneath(m, c) <=> k + 1 <= L /\ \A i \in 1 .. k + 1 : m[i] = c[i]
  BY <1>1 DEF Underneath, L
<1>7. Underneath(m, n) <=> k <= L /\ \A i \in 1 .. k : m[i] = n[i]
  BY DEF Underneath, L, k
<1>8. Underneath(m, c) <=> k < L /\ Underneath(m, n) /\ m[k + 1] = l
  BY <1>1, <1>3, <1>4, <1>5, <1>6, <1>7
<1> QED
  BY <1>8 DEF c, k, L

LEMMA TowardsBelow ==
  ASSUME NEW t, TreeInv(t), NEW n \in DOMAIN t, NEW m \in DOMAIN t, Underneath(m, n),
         Len(n) < Len(m)
  PROVE  Append(n, m[Len(n) + 1]) \in DOMAIN t
<1> DEFINE k == Len(n)
           b == SubSeq(m, 1, k)
<1>1. n \in Seq(Labels) /\ m \in Seq(Labels) /\ k \in Nat /\ Len(m) \in Nat
  BY DEF TreeInv
<1>2. k + 1 \in 1 .. Len(m) /\ k \in 0 .. Len(m) /\ k + 1 - 1 = k
  BY <1>1
<1>3. b \in Seq(Labels) /\ Len(b) = k /\ \A i \in 1 .. k : b[i] = m[i]
  BY <1>1, <1>2, BeginningFacts
<1>4. b = n
  <2> HIDE DEF b
  <2> QED
    BY <1>1, <1>3, SeqEqual DEF Underneath
<1>5. SubSeq(m, 1, k + 1) = Append(SubSeq(m, 1, k + 1 - 1), m[k + 1])
  BY <1>1, <1>2, OneShorter
<1>6. SubSeq(m, 1, k + 1) \in DOMAIN t
  BY <1>2, NodesAbove
<1> QED
  BY <1>2, <1>4, <1>5, <1>6

(* The name of a node fits a path from its k-th segment on: its labels     *)
(* follow the segments, and a catch-all may take the rest.                 *)
Along(m, path, k, last) == \A i \in k .. last : Follows(m[i], path[i])
FitsFrom(m, path, k) ==
    \/ Len(m) = Len(path) /\ Along(m, path, k, Len(m))
    \/ /\ k <= Len(m) /\ Len(m) <= Len(path) + 1
       /\ m[Len(m)] = CatchAllLabel /\ Along(m, path, k, Len(m) - 1)

LEMMA AlongStep ==
  ASSUME NEW m, NEW path, NEW k \in Nat, NEW last \in Nat, k <= last
  PROVE  Along(m, path, k, last) <=> Follows(m[k], path[k]) /\ Along(m, path, k + 1, last)
<1>1. \A i : i \in k .. last <=> i = k \/ i \in k + 1 .. last
  OBVIOUS
<1> QED
  BY <1>1 DEF Along

(* The labels agree with one segment more, or a catch-all takes the rest.  *)
LEMMA FitsStep ==
  ASSUME NEW m, NEW path, NEW k \in Nat, k # 0, Len(m) \in Nat, Len(path) \in Nat,
         k <= Len(m), k <= Len(path)
  PROVE  FitsFrom(m, path, k) <=>
           \/ Follows(m[k], path[k]) /\ FitsFrom(m, path, k + 1)
           \/ Len(m) = k /\ m[k] = CatchAllLabel
<1> DEFINE n == Len(m)
           L == Len(path)
<1>1. Along(m, path, k, n) <=> Follows(m[k], path[k]) /\ Along(m, path, k + 1, n)
  BY AlongStep
<1>2. CASE n = k
  <2>1. Along(m, path, k, n - 1)
    BY <1>2 DEF Along
  <2>2. ~(k + 1 <= n) /\ k <= n /\ n <= L + 1
    BY <1>2
  <2> HIDE DEF n, L
  <2> QED
    BY <1>1, <1>2, <2>1, <2>2 DEF FitsFrom, n, L
<1>3. CASE n # k
  <2>1. n - 1 \in Nat /\ k <= n - 1 /\ k + 1 <= n
    BY <1>3
  <2>2. Along(m, path, k, n - 1) <=>
          Follows(m[k], path[k]) /\ Along(m, path, k + 1, n - 1)
    BY <2>1, AlongStep
  <2> HIDE DEF n, L
  <2> QED
    BY <1>1, <1>3, <2>1, <2>2 DEF FitsFrom, n, L
<1> QED
  BY <1>2, <1>3

(* Behind the last segment there is the node itself and its catch-all.     *)
LEMMA FitsEnd ==
  ASSUME NEW m, NEW path, Len(m) \in Nat, Len(path) \in Nat
  PROVE  FitsFrom(m, path, Len(path) + 1) <=>
           \/ Len(m) = Len(path)
           \/ Len(m) = Len(path) + 1 /\ m[Len(path) + 1] = CatchAllLabel
<1>1. Len(m) = Len(path) => Along(m, path, Len(path) + 1, Len(m))
  BY DEF Along
<1>2. Len(m) = Len(path) + 1 => Along(m, path, Len(path) + 1, Len(m) - 1)
  BY DEF Along
<1> QED
  BY <1>1, <1>2 DEF FitsFrom

(* A node below n (or n itself) whose name fits what is left of the path   *)
(* behind n; and a value that such a node holds.                           *)
FitsBelow(m, n, path) == Underneath(m, n) /\ FitsFrom(m, path, Len(n) + 1)
Given(t, n, path, v) == \E m : Holds(t, m, v) /\ FitsBelow(m, n, path)

CatchAllChild(n) == Append(n, CatchAllLabel)

LEMMA HoldsNode ==
  ASSUME NEW t, TreeInv(t), NEW m, NEW v, Holds(t, m, v)
  PROVE  m \in DOMAIN t /\ m \in Seq(Labels) /\ Len(m) \in Nat /\ v \in Nat
<1>1. m \in DOMAIN t /\ v \in ToSet(t[m].values)
  BY DEF Holds
<1>2. m \in Seq(Labels) /\ t[m].values \in Seq(Nat)
  BY <1>1 DEF TreeInv, Node
<1> QED
  BY <1>1, <1>2 DEF ToSet

(* A child of n is the node below n that is one label longer.              *)
LEMMA IsChild ==
  ASSUME NEW t, TreeInv(t), NEW n \in DOMAIN t, NEW m \in DOMAIN t, NEW l
  PROVE  m = Append(n, l) <=> Underneath(m, n) /\ Len(m) = Len(n) + 1 /\ m[Len(n) + 1] = l
<1> DEFINE c == Append(n, l)
           k == Len(n)
<1>1. k \in Nat /\ k < k + 1 /\ Len(m) \in Nat
  BY DEF TreeInv
<1>2. ASSUME Underneath(m, n), Len(m) = k + 1, m[k + 1] = l
      PROVE  m = c
  <2>1. k < Len(m)
    BY <1>1, <1>2
  <2>2. c \in DOMAIN t
    BY <1>2, <2>1, TowardsBelow
  <2>3. Len(c) = Len(m)
    BY <1>2, <2>2, ChildNamed
  <2>4. Underneath(m, c)
    BY <1>2, <2>1, <2>2, BelowChild
  <2> QED
    BY <2>2, <2>3, <2>4, BelowSelf
<1>3. ASSUME m = c
      PROVE  Underneath(m, n) /\ Len(m) = k + 1 /\ m[k + 1] = l
  <2>1. c \in DOMAIN t /\ Len(m) = k + 1 /\ m[k + 1] = l
    BY <1>3, ChildNamed
  <2>2. Underneath(m, c)
    BY <1>3, BelowSelf
  <2> QED
    BY <2>1, <2>2, BelowChild
<1> QED
  BY <1>2, <1>3

(* At the end of the path there are the node itself and its catch-all ...  *)
LEMMA FitsAtEnd ==
  ASSUME NEW t, TreeInv(t), NEW S, NEW path \in Seq(S),
         NEW n \in DOMAIN t, Len(n) = Len(path), NEW m \in DOMAIN t
  PROVE  FitsBelow(m, n, path) <=> m = n \/ m = CatchAllChild(n)
<1>1. Len(path) \in Nat /\ Len(m) \in Nat
  BY DEF TreeInv
<1>2. FitsFrom(m, path, Len(path) + 1) <=>
        \/ Len(m) = Len(path)
        \/ Len(m) = Len(path) + 1 /\ m[Len(path) + 1] = CatchAllLabel
  BY <1>1, FitsEnd
<1>3. PICK L : L = Len(path)
  OBVIOUS
<1>4. FitsBelow(m, n, path) <=>
        /\ Underneath(m, n)
        /\ \/ Len(m) = L
           \/ Len(m) = L + 1 /\ m[L + 1] = CatchAllLabel
  BY <1>2, <1>3 DEF FitsBelow
<1>5. Len(m) = L => (Underneath(m, n) <=> m = n)
  BY <1>3, BelowSelf
<1>6. m = CatchAllChild(n) <=> Underneath(m, n) /\ Len(m) = L + 1 /\ m[L + 1] = CatchAllLabel
  BY <1>3, IsChild DEF CatchAllChild
<1>7. m = n => Len(m) = L
  BY <1>3
<1> QED
  BY <1>4, <1>5, <1>6, <1>7

(* ... and before it the nodes on the ways on, and the catch-all.          *)
LEMMA FitsBefore ==
  ASSUME NEW t, TreeInv(t), NEW S, NEW path \in Seq(S),
         NEW n \in DOMAIN t, Len(n) < Len(path), NEW m \in DOMAIN t
  PROVE  FitsBelow(m, n, path) <=>
           \/ \E l : /\ Follows(l, path[Len(n) + 1]) /\ Append(n, l) \in DOMAIN t
                     /\ FitsBelow(m, Append(n, l), path)
           \/ m = CatchAllChild(n)
<1> DEFINE k == Len(n) + 1
<1>0. /\ Len(path) \in Nat /\ Len(m) \in Nat /\ k \in Nat /\ k # 0 /\ k <= Len(path)
      /\ Len(n) = k - 1 /\ Len(n) < Len(m) <=> k <= Len(m)
  BY DEF TreeInv
<1>1. k <= Len(m) =>
        (FitsFrom(m, path, k) <=> \/ Follows(m[k], path[k]) /\ FitsFrom(m, path, k + 1)
                                  \/ Len(m) = k /\ m[k] = CatchAllLabel)
  BY <1>0, FitsStep
<1>2. Underneath(m, n) /\ FitsFrom(m, path, k) => k <= Len(m) /\ Append(n, m[k]) \in DOMAIN t
  <2>1. Underneath(m, n) /\ FitsFrom(m, path, k) => k <= Len(m)
    BY <1>0 DEF FitsFrom, Underneath
  <2> QED
    BY <1>0, <2>1, TowardsBelow
<1>3. \A l : Append(n, l) \in DOMAIN t =>
        /\ Underneath(m, Append(n, l)) <=> k <= Len(m) /\ Underneath(m, n) /\ m[k] = l
        /\ Len(Append(n, l)) = k
  BY <1>0, BelowChild, ChildNamed
<1>4. m = CatchAllChild(n) <=> Underneath(m, n) /\ Len(m) = k /\ m[k] = CatchAllLabel
  BY IsChild DEF CatchAllChild
<1>5. Len(m) = k => k <= Len(m)
  BY <1>0
<1>6. \A l : Append(n, l) \in DOMAIN t =>
        (FitsBelow(m, Append(n, l), path) <=>
           k <= Len(m) /\ Underneath(m, n) /\ m[k] = l /\ FitsFrom(m, path, k + 1))
  BY <1>3 DEF FitsBelow
<1>7. FitsBelow(m, n, path) <=> Underneath(m, n) /\ FitsFrom(m, path, k)
  BY DEF FitsBelow
<1> HIDE DEF k
<1>8. FitsBelow(m, n, path) <=>
        \/ \E l : /\ Follows(l, path[k]) /\ Append(n, l) \in DOMAIN t
                  /\ FitsBelow(m, Append(n, l), path)
        \/ m = CatchAllChild(n)
  BY <1>1, <1>2, <1>4, <1>5, <1>6, <1>7
<1> QED
  BY <1>8 DEF k

LEMMA GivenAtEnd ==
  ASSUME NEW t, TreeInv(t), NEW S, NEW path \in Seq(S),
         NEW n \in DOMAIN t, Len(n) = Len(path), NEW v
  PROVE  Given(t, n, path, v) <=> Holds(t, n, v) \/ Holds(t, CatchAllChild(n), v)
BY FitsAtEnd DEF Given, Holds

LEMMA GivenBefore ==
  ASSUME NEW t, TreeInv(t), NEW S, NEW path \in Seq(S),
         NEW n \in DOMAIN t, Len(n) < Len(path), NEW v
  PROVE  Given(t, n, path, v) <=>
           \/ \E l : /\ Follows(l, path[Len(n) + 1]) /\ Append(n, l) \in DOMAIN t
                     /\ Given(t, Append(n, l), path, v)
           \/ Holds(t, CatchAllChild(n), v)
<1>1. ASSUME NEW m, Holds(t, m, v)
      PROVE  FitsBelow(m, n, path) <=>
           \/ \E l : /\ Follows(l, path[Len(n) + 1]) /\ Append(n, l) \in DOMAIN t
                     /\ FitsBelow(m, Append(n, l), path)
           \/ m = CatchAllChild(n)
  BY <1>1, HoldsNode, FitsBefore
<1> QED
  BY <1>1 DEF Given

(* Collect gives what the nodes hold whose names fit the path.             *)
LEMMA CollectedNodes ==
  ASSUME NEW t, TreeInv(t), NEW S, NEW path \in Seq(S), NEW c, Collected(t, path, c)
  PROVE  \A j \in 0 .. Len(path), n \in DOMAIN t :
           Len(n) = Len(path) - j => \A v : v \in c[j][n] <=> Given(t, n, path, v)
<1> DEFINE L == Len(path)
           Right(j) == \A n \in DOMAIN t :
                         Len(n) = L - j => \A v : v \in c[j][n] <=> Given(t, n, path, v)
           T == {j \in 0 .. L : Right(j)}
<1>1. L \in Nat
  OBVIOUS
<1>2. ASSUME NEW j \in 0 .. L, NEW n \in DOMAIN t, NEW v
      PROVE  v \in c[j][n] <=>
               \/ Ending(path, j) = << >> /\ Holds(t, n, v)
               \/ Ending(path, j) # << >>
                  /\ \E l : /\ Follows(l, Head(Ending(path, j))) /\ Append(n, l) \in DOMAIN t
                            /\ v \in c[j - 1][Append(n, l)]
               \/ Holds(t, Append(n, CatchAllLabel), v)
  <2>1. c[j][n] = CollectFrom(t, n, Ending(path, j), c[j - 1])
    BY DEF Collected
  <2> QED
    BY <2>1, CollectedFrom
<1>3. 0 \in T
  <2>1. ASSUME NEW n \in DOMAIN t, Len(n) = L, NEW v
        PROVE  v \in c[0][n] <=> Given(t, n, path, v)
    <3>1. 0 \in 0 .. L /\ Ending(path, 0) = << >>
      BY <1>1, EndingFacts
    <3>2. v \in c[0][n] <=> Holds(t, n, v) \/ Holds(t, CatchAllChild(n), v)
      BY <1>2, <3>1 DEF CatchAllChild
    <3> QED
      BY <2>1, <3>2, GivenAtEnd
  <2>2. L - 0 = L /\ 0 \in 0 .. L
    BY <1>1
  <2> QED
    BY <2>1, <2>2
<1>4. ASSUME NEW k \in Nat, k < L, k \in T
      PROVE  k + 1 \in T
  <2> DEFINE j == k + 1
  <2>1. j \in 1 .. L /\ j \in 0 .. L /\ j - 1 = k
    BY <1>1, <1>4
  <2>2. Ending(path, j) # << >> /\ Head(Ending(path, j)) = path[L - j + 1]
    BY <2>1, EndingFacts
  <2>3. ASSUME NEW n \in DOMAIN t, Len(n) = L - j, NEW v
        PROVE  v \in c[j][n] <=> Given(t, n, path, v)
    <3>1. Len(n) < L /\ L - j + 1 = Len(n) + 1
      BY <1>1, <2>1, <2>3
    <3>2. ASSUME NEW l, Append(n, l) \in DOMAIN t
          PROVE  v \in c[k][Append(n, l)] <=> Given(t, Append(n, l), path, v)
      <4>1. Len(Append(n, l)) = Len(n) + 1
        BY <3>2, ChildNamed
      <4>2. Len(Append(n, l)) = L - k
        BY <1>1, <2>1, <2>3, <4>1
      <4>3. Right(k)
        BY <1>4
      <4> QED
        BY <3>2, <4>2, <4>3
    <3>3. v \in c[j][n] <=>
            \/ \E l : /\ Follows(l, path[Len(n) + 1]) /\ Append(n, l) \in DOMAIN t
                      /\ v \in c[k][Append(n, l)]
            \/ Holds(t, CatchAllChild(n), v)
      <4> HIDE DEF j, L
      <4> QED
        BY <1>2, <2>1, <2>2, <3>1 DEF CatchAllChild
    <3>4. Given(t, n, path, v) <=>
            \/ \E l : /\ Follows(l, path[Len(n) + 1]) /\ Append(n, l) \in DOMAIN t
                      /\ Given(t, Append(n, l), path, v)
            \/ Holds(t, CatchAllChild(n), v)
      BY <3>1, GivenBefore
    <3> QED
      BY <3>2, <3>3, <3>4
  <2>4. Right(j)
    BY <2>3
  <2> QED
    BY <2>1, <2>4
<1>5. \A j \in 0 .. L : j \in T
  <2> HIDE DEF T, L
  <2> QED
    BY <1>1, <1>3, <1>4, UpTo
<1> QED
  BY <1>5

(* What the root gives is what a node holds whose name fits the whole path. *)
LEMMA RootGives ==
  ASSUME NEW t, TreeInv(t), NEW S, NEW path \in Seq(S), NEW v
  PROVE  /\ v \in Collect(t, path) <=> Given(t, << >>, path, v)
         /\ v \in Collect(t, path) <=> \E m : Holds(t, m, v) /\ FitsFrom(m, path, 1)
<1>1. PICK c : Collected(t, path, c) /\ Collect(t, path) = c[Len(path)][<< >>]
  BY CollectRuns
<1>2. << >> \in DOMAIN t /\ Len(<< >>) = 0 /\ Len(path) \in Nat
  BY DEF TreeInv
<1>3. Len(path) \in 0 .. Len(path) /\ Len(<< >>) = Len(path) - Len(path)
  BY <1>2
<1>4. v \in c[Len(path)][<< >>] <=> Given(t, << >>, path, v)
  BY <1>1, <1>2, <1>3, CollectedNodes
<1>5. \A m : Holds(t, m, v) => Underneath(m, << >>)
  <2>1. \A m : Holds(t, m, v) => Len(m) \in Nat
    BY HoldsNode
  <2> QED
    BY <1>2, <2>1 DEF Underneath
<1>6. Len(<< >>) + 1 = 1
  BY <1>2
<1>7. Given(t, << >>, path, v) <=>
        \E m : Holds(t, m, v) /\ Underneath(m, << >>) /\ FitsFrom(m, path, 1)
  BY <1>6 DEF Given, FitsBelow
<1> QED
  BY <1>1, <1>4, <1>5, <1>7

-----------------------------------------------------------------------------
(* Templates and the paths they match *)

LEMMA ParamLabelKind == ParamLabel[1] = "param"
BY DEF ParamLabel

LEMMA FollowsLabel ==
  ASSUME NEW s \in Seg, NEW seg
  PROVE  /\ s.kind # "catchAll" => (Follows(Label(s), seg) <=> SegmentMatches(s, seg))
         /\ s.kind = "catchAll" <=> Label(s) = CatchAllLabel
         /\ ~Follows(CatchAllLabel, seg)
<1>1. CASE s.kind = "static"
  <2>1. Label(s) = <<"static", s.text>>
    BY <1>1 DEF Label
  <2>2. SegmentMatches(s, seg) <=> s.text = seg
    BY Zenon, <1>1 DEF SegmentMatches
  <2> QED
    BY <1>1, <2>1, <2>2 DEF Follows, ParamLabel, CatchAllLabel
<1>2. CASE s.kind = "param"
  <2>1. s \in Params
    BY <1>2 DEF Params
  <2>2. Label(s) = ParamLabel /\ Passes(s, seg)
    BY <2>1, ParamFacts DEF Passes
  <2>3. SegmentMatches(s, seg) <=> Filled(seg)
    BY Zenon, <1>2, <2>2 DEF SegmentMatches, Filled
  <2>4. ParamLabel[1] = "param" /\ CatchAllLabel[1] = "catchAll"
    BY Zenon, ParamLabelKind DEF CatchAllLabel
  <2>5. <<"static", seg>>[1] = "static" /\ "static" # "param" /\ "catchAll" # "param"
    BY Zenon
  <2>6. ParamLabel # <<"static", seg>> /\ CatchAllLabel # ParamLabel
        /\ CatchAllLabel # <<"static", seg>>
    <3>1. CatchAllLabel # <<"static", seg>>
      BY DEF CatchAllLabel
    <3> QED
      BY Zenon, <2>4, <2>5, <3>1
  <2> QED
    BY Zenon, <1>2, <2>2, <2>3, <2>6 DEF Follows
<1>3. CASE s.kind = "catchAll"
  <2>1. s \in CatchAlls
    BY <1>3 DEF CatchAlls
  <2> QED
    BY <1>3, <2>1, CatchAllFacts DEF Follows, ParamLabel, CatchAllLabel
<1> QED
  BY <1>1, <1>2, <1>3, SegKind

(* A template matches the paths that its node fits.                        *)
LEMMA KeyFits ==
  ASSUME NEW segs \in Templates, NEW S, NEW path \in Seq(S)
  PROVE  FitsFrom(Key(segs), path, 1) <=> PathMatches(segs, path)
<1> DEFINE n == Len(segs)
           m == Key(segs)
           L == Len(path)
<1>1. segs \in Seq(Seg) /\ n \in Nat /\ n # 0 /\ n \in 1 .. n /\ L \in Nat /\ segs # << >>
  BY DEF Templates, WellFormed
<1>2. \A i \in 1 .. n : segs[i] \in Seg /\ m[i] = Label(segs[i])
  BY <1>1 DEF Key
<1>3. Len(m) = n
  BY <1>1 DEF Key
<1>4. \A i \in 1 .. n : segs[i].kind = "catchAll" => i = n
  BY <1>1 DEF Templates, WellFormed
<1>5. Last(segs) = segs[n]
  BY <1>1 DEF Last
<1> HIDE DEF n, m, L
<1>6. ASSUME NEW last \in 0 .. n, \A i \in 1 .. last : segs[i].kind # "catchAll"
      PROVE  Along(m, path, 1, last) <=> \A i \in 1 .. last : SegmentMatches(segs[i], path[i])
  <2>1. \A i \in 1 .. last : i \in 1 .. n
    BY <1>1
  <2>2. \A i \in 1 .. last : Follows(m[i], path[i]) <=> SegmentMatches(segs[i], path[i])
    BY <1>2, <1>6, <2>1, FollowsLabel
  <2> QED
    BY <2>2 DEF Along
<1>7. FitsFrom(m, path, 1) <=>
        \/ n = L /\ Along(m, path, 1, n)
        \/ n <= L + 1 /\ m[n] = CatchAllLabel /\ Along(m, path, 1, n - 1)
  <2>1. 1 <= n
    BY <1>1
  <2> QED
    BY <1>3, <2>1 DEF FitsFrom, L
<1>8. m[n] = CatchAllLabel <=> segs[n].kind = "catchAll"
  BY <1>1, <1>2, FollowsLabel
<1>9. CASE segs[n].kind # "catchAll"
  <2>1. \A i \in 1 .. n : segs[i].kind # "catchAll"
    BY <1>4, <1>9
  <2>2. n \in 0 .. n
    BY <1>1
  <2>3. Along(m, path, 1, n) <=> \A i \in 1 .. n : SegmentMatches(segs[i], path[i])
    BY <1>6, <2>1, <2>2
  <2>4. PathMatches(segs, path) <=> L = n /\ \A i \in 1 .. n : SegmentMatches(segs[i], path[i])
    BY <1>5, <1>9 DEF PathMatches, n, L
  <2> QED
    BY <1>7, <1>8, <1>9, <2>3, <2>4 DEF m
<1>10. CASE segs[n].kind = "catchAll"
  <2>1. \A i \in 1 .. n - 1 : i \in 1 .. n /\ i # n
    BY <1>1
  <2>2. n - 1 \in 0 .. n
    BY <1>1
  <2>3. \A i \in 1 .. n - 1 : segs[i].kind # "catchAll"
    BY <1>4, <2>1
  <2>4. Along(m, path, 1, n - 1) <=> \A i \in 1 .. n - 1 : SegmentMatches(segs[i], path[i])
    BY <1>6, <2>2, <2>3
  <2>5. ~Along(m, path, 1, n)
    BY <1>1, <1>8, <1>10, FollowsLabel DEF Along
  <2>6. PathMatches(segs, path) <=>
          L >= n - 1 /\ \A i \in 1 .. n - 1 : SegmentMatches(segs[i], path[i])
    BY <1>1, <1>5, <1>10 DEF PathMatches, n, L
  <2>7. n <= L + 1 <=> L >= n - 1
    BY <1>1
  <2> QED
    BY <1>7, <1>8, <1>10, <2>4, <2>5, <2>6, <2>7 DEF m
<1> QED
  BY <1>9, <1>10

(* Without wildcards it matches the path it makes.                         *)
LEMMA StaticFits ==
  ASSUME NEW segs \in Templates, Wildcards(segs) = {}, NEW S, NEW path \in Seq(S)
  PROVE  PathMatches(segs, path) <=> path = AsPath(segs)
<1> DEFINE n == Len(segs)
<1>1. segs \in Seq(Seg) /\ n \in Nat /\ n \in 1 .. n /\ segs # << >> /\ DOMAIN segs = 1 .. n
  BY DEF Templates, WellFormed
<1>2. \A i \in 1 .. n : segs[i].kind = "static"
  BY <1>1 DEF Wildcards
<1>3. Last(segs) = segs[n]
  BY <1>1 DEF Last
<1>4. \A i \in 1 .. n : SegmentMatches(segs[i], path[i]) <=> path[i] = AsPath(segs)[i]
  BY Zenon, <1>1, <1>2 DEF SegmentMatches, AsPath
<1>5. Len(AsPath(segs)) = n /\ DOMAIN AsPath(segs) = 1 .. n
      /\ AsPath(segs) = [i \in 1 .. n |-> AsPath(segs)[i]]
  BY <1>1 DEF AsPath
<1>6. Len(path) \in Nat /\ DOMAIN path = 1 .. Len(path) /\ path = [i \in 1 .. Len(path) |-> path[i]]
  OBVIOUS
<1> HIDE DEF n
<1>7. PathMatches(segs, path) <=>
        Len(path) = n /\ \A i \in 1 .. n : SegmentMatches(segs[i], path[i])
  BY <1>1, <1>2, <1>3 DEF PathMatches, n
<1>8. path = AsPath(segs) <=> Len(path) = n /\ \A i \in 1 .. n : path[i] = AsPath(segs)[i]
  BY <1>5, <1>6
<1> QED
  BY <1>4, <1>7, <1>8
LEMMA EntryFacts ==
  ASSUME TableInv, NEW i \in DOMAIN entries
  PROVE  /\ entries[i] \in Entry /\ entries[i].segs \in Templates
         /\ entries[i].segs \in Seq(Seg) /\ i \in Nat
<1>1. entries \in Seq(Entry)
  BY DEF TableInv, EntriesInv
<1>2. entries[i] \in Entry /\ i \in Nat
  BY <1>1
<1> QED
  BY <1>2 DEF Entry, Templates

(* The candidates for a path are exactly the entries whose templates match *)
(* it: the static map and the tree between them miss none and offer no     *)
(* other.                                                                  *)
LEMMA CandidatesFacts ==
  ASSUME TableInv, NEW S, NEW path \in Seq(S)
  PROVE  Candidates(path) = {i \in DOMAIN entries : PathMatches(entries[i].segs, path)}
<1> DEFINE At(i) == entries[i].segs
<1>1. StaticInv(static, entries) /\ TreeHas(tree, entries) /\ TreeInv(tree)
  BY DEF TableInv
<1>2. ASSUME NEW i
      PROVE  i \in Seed(path) <=>
               /\ i \in DOMAIN entries /\ Wildcards(At(i)) = {}
               /\ PathMatches(At(i), path)
  <2>1. i \in Seed(path) <=> path \in DOMAIN static /\ static[path] = i
    BY DEF Seed
  <2>2. ASSUME i \in DOMAIN entries, Wildcards(At(i)) = {}
        PROVE  PathMatches(At(i), path) <=> path = AsPath(At(i))
    BY <2>2, EntryFacts, StaticFits
  <2> QED
    BY <1>1, <2>1, <2>2 DEF StaticInv
<1>3. ASSUME NEW i
      PROVE  i \in Collect(tree, path) <=>
               /\ i \in DOMAIN entries /\ Wildcards(At(i)) # {}
               /\ PathMatches(At(i), path)
  <2>1. i \in Collect(tree, path) <=> \E m : Holds(tree, m, i) /\ FitsFrom(m, path, 1)
    BY <1>1, RootGives
  <2>2. \A m : Holds(tree, m, i) <=>
          i \in DOMAIN entries /\ Wildcards(At(i)) # {} /\ m = Key(At(i))
    BY <1>1 DEF TreeHas
  <2>3. i \in DOMAIN entries => (FitsFrom(Key(At(i)), path, 1) <=> PathMatches(At(i), path))
    BY EntryFacts, KeyFits
  <2> QED
    BY <2>1, <2>2, <2>3
<1> HIDE DEF At
<1>4. \A i : i \in Candidates(path) <=> i \in DOMAIN entries /\ PathMatches(At(i), path)
  BY <1>2, <1>3 DEF Candidates
<1> QED
  BY <1>4 DEF At

(* Whatever is registered, in whatever order.                              *)
CandidatesAreMatches ==
    \A path \in Seq(STRING) :
      Candidates(path) = {i \in DOMAIN entries : PathMatches(entries[i].segs, path)}

THEOREM CandidatesAreExact == TableSpec => []CandidatesAreMatches
<1>1. TableInv => CandidatesAreMatches
  BY CandidatesFacts DEF CandidatesAreMatches
<1> QED
  BY <1>1, TableInvariance, PTL
-----------------------------------------------------------------------------
(* Hosts *)

(* A route answers under each of its host patterns, as they are read, or   *)
(* under every host.                                                       *)
LEMMA HostsAre ==
  ASSUME NEW call \in Calls, Compiled(call).ok
  PROVE  /\ call.hosts = << >> => ToSet(HostsOf(call)) = {EveryHost}
         /\ call.hosts # << >> =>
              \A h : h \in ToSet(HostsOf(call)) <=>
                       \E form \in ToSet(call.hosts) : h = HostOf(ParseHostPattern(form.text)[1])
<1>1. CASE call.hosts = << >>
  <2>1. HostsOf(call) = <<EveryHost>>
    BY <1>1 DEF HostsOf
  <2>2. ToSet(<<EveryHost>>) = {EveryHost}
    BY DEF ToSet
  <2> QED
    BY <1>1, <2>1, <2>2
<1>2. CASE call.hosts # << >>
  <2> DEFINE n == Len(call.hosts)
             texts == [i \in DOMAIN call.hosts |-> call.hosts[i].text]
             parsed == [i \in DOMAIN texts |-> ParseHostPattern(texts[i])]
             pats == Compiled(call).pats
  <2>1. call.hosts \in Seq([form : Form, text : Seq(STRING)])
    BY CallsAssumption DEF Registration
  <2>2. n \in Nat /\ n # 0 /\ DOMAIN parsed = 1 .. n /\ DOMAIN call.hosts = 1 .. n
    BY <1>2, <2>1
  <2>3. pats = FoldLeft(AddOnce, << >>, parsed)
    BY DEF Compiled, CompileHosts
  <2>4. \A i \in 1 .. n : parsed[i] = ParseHostPattern(call.hosts[i].text)
    BY <2>2
  <2> HIDE DEF n, texts, parsed
  <2>5. \A x : x \in ToSet(pats) <=> \E i \in 1 .. n : x = parsed[i][1]
    BY <2>2, <2>3, OnceRuns
  <2>6. HostsOf(call) = [i \in DOMAIN pats |-> HostOf(pats[i])]
    BY <1>2 DEF HostsOf
  <2> HIDE DEF pats
  <2>7. \A h : h \in ToSet(HostsOf(call)) <=> \E x \in ToSet(pats) : h = HostOf(x)
    BY <2>6 DEF ToSet
  <2>8. \A h : h \in ToSet(HostsOf(call)) <=>
                 \E i \in 1 .. n : h = HostOf(ParseHostPattern(call.hosts[i].text)[1])
    BY <2>4, <2>5, <2>7
  <2> QED
    BY <1>2, <2>2, <2>8 DEF ToSet
<1> QED
  BY <1>1, <1>2

LEMMA EveryHostMatches == \A host, port : Matches(EveryHost, host, port)
<1>1. EveryHost.kind = "any" /\ EveryHost.port = Lower(NoPort)
  BY DEF EveryHost, Pattern
<1>2. Lower(NoPort) = NoPort
  BY DEF Lower, NoPort
<1> QED
  BY <1>1, <1>2 DEF Matches, PortAccepts, HostAccepts

LEMMA UnconstrainedAdmits == \A asked : FormAdmits(Unconstrained, asked)
BY DEF FormAdmits, Unconstrained, AnyHost

(* Under the hosts of a route the table accepts the hosts it admits.       *)
LEMMA AdmittedHosts ==
  ASSUME NEW call \in Calls, Compiled(call).ok, NEW q, HostsRead(q)
  PROVE  (\E h \in ToSet(HostsOf(call)) : Matches(h, q.host, q.port)) <=> Admitting(call, q) # {}
<1>1. CASE call.hosts = << >>
  <2>1. FormsOf(call) = {Unconstrained}
    BY <1>1 DEF FormsOf
  <2>2. Unconstrained \in Admitting(call, q)
    BY <2>1, UnconstrainedAdmits DEF Admitting
  <2> QED
    BY <1>1, <2>2, HostsAre, EveryHostMatches
<1>2. CASE call.hosts # << >>
  <2>1. FormsOf(call) = {h.form : h \in ToSet(call.hosts)}
    BY <1>2 DEF FormsOf
  <2>2. \A h \in ToSet(call.hosts) :
          Matches(HostOf(ParseHostPattern(h.text)[1]), q.host, q.port)
            <=> FormAdmits(h.form, q.asked)
    BY DEF HostsRead, FormsRead
  <2>3. Admitting(call, q) # {} <=> \E h \in ToSet(call.hosts) : FormAdmits(h.form, q.asked)
    BY <2>1 DEF Admitting
  <2> QED
    BY <1>2, <2>2, <2>3, HostsAre
<1> QED
  BY <1>1, <1>2
-----------------------------------------------------------------------------
(* Resolve *)

(* One method answers another if it is at all ranked for it.               *)
LEMMA RouteInFacts ==
  ASSUME NEW v, \A m \in DOMAIN v.byMethod : v.byMethod[m] # NoRoute, NEW method
  PROVE  /\ RouteIn(v, method) # NoRoute <=>
              \E m \in DOMAIN v.byMethod : MethodRank(m, method) >= 0
         /\ RouteIn(v, method) # NoRoute =>
              \E m \in DOMAIN v.byMethod : /\ MethodRank(m, method) >= 0
                                           /\ RouteIn(v, method) = v.byMethod[m]
<1>1. \A m : MethodRank(m, method) >= 0 <=>
               m = method \/ (m = "GET" /\ method = "HEAD") \/ m = "*"
  BY DEF MethodRank
<1>2. CASE method \in DOMAIN v.byMethod
  BY <1>1, <1>2 DEF RouteIn
<1>3. CASE method \notin DOMAIN v.byMethod /\ method = "HEAD" /\ "GET" \in DOMAIN v.byMethod
  BY <1>1, <1>3 DEF RouteIn
<1>4. CASE method \notin DOMAIN v.byMethod /\ ~(method = "HEAD" /\ "GET" \in DOMAIN v.byMethod)
  <2>1. RouteIn(v, method) = IF MethodAny \in DOMAIN v.byMethod
                             THEN v.byMethod[MethodAny] ELSE NoRoute
    BY <1>4 DEF RouteIn
  <2> QED
    BY <1>1, <1>4, <2>1 DEF MethodAny
<1> QED
  BY <1>2, <1>3, <1>4

LEMMA VariantsTyped ==
  ASSUME NEW e \in Entry
  PROVE  Variants(e) \in Seq(Variant)
<1>1. e.hosts \in [Buckets -> Seq(Variant)]
  BY DEF Entry
<1>2. \A b \in {"ported", "exact", "wild", "plain"} : e.hosts[b] \in Seq(Variant)
  BY <1>1 DEF Buckets
<1> QED
  BY <1>2 DEF Variants

(* The entry has something for the host and the method.                    *)
Offers(e, h, r, q) ==
    \E m : /\ Files(e, h, m, r)
           /\ Matches(h, q.host, q.port) /\ MethodRank(m, q.method) >= 0

LEMMA ResolveFacts ==
  ASSUME NEW e \in Entry, \A h, m, r : Files(e, h, m, r) => r # NoRoute, NEW q
  PROVE  /\ Resolve(e, q).route # NoRoute <=> \E h, r : Offers(e, h, r, q)
         /\ Resolve(e, q).route # NoRoute => \E h : Offers(e, h, Resolve(e, q).route, q)
         /\ Resolve(e, q).hostOK <=>
              ~HasHosts(e) \/ \E v \in ToSet(Variants(e)) : Matches(v.host, q.host, q.port)
<1> DEFINE vs == Variants(e)
           n == Len(vs)
           good == {i \in 1 .. n : /\ Matches(vs[i].host, q.host, q.port)
                                   /\ RouteIn(vs[i], q.method) # NoRoute}
           sel == SelectInSeq(vs, LAMBDA v : /\ Matches(v.host, q.host, q.port)
                                             /\ RouteIn(v, q.method) # NoRoute)
<1>1. vs \in Seq(Variant) /\ n \in Nat /\ DOMAIN vs = 1 .. n
  BY VariantsTyped
<1>2. sel = IF good # {} THEN Min(good) ELSE 0
  BY DEF SelectInSeq
<1>3. good # {} => sel \in good /\ sel # 0
  <2>1. good \in SUBSET Nat /\ 0 \notin good
    BY <1>1
  <2> HIDE DEF good, sel
  <2> QED
    BY <1>2, <2>1, MinIsMember
<1>4. Resolve(e, q).route = IF sel = 0 THEN NoRoute ELSE RouteIn(vs[sel], q.method)
  BY DEF Resolve
<1> HIDE DEF sel
<1>5. Resolve(e, q).route # NoRoute <=> good # {}
  BY <1>2, <1>3, <1>4
<1>6. \A i \in 1 .. n : \A m \in DOMAIN vs[i].byMethod :
        Files(e, vs[i].host, m, vs[i].byMethod[m])
  BY <1>1 DEF Files, ToSet
<1> HIDE DEF vs, n
<1>7. ASSUME NEW i \in good
      PROVE  Offers(e, vs[i].host, RouteIn(vs[i], q.method), q)
  <2>1. \A m \in DOMAIN vs[i].byMethod : vs[i].byMethod[m] # NoRoute
    BY <1>6
  <2>2. PICK m \in DOMAIN vs[i].byMethod : /\ MethodRank(m, q.method) >= 0
                                           /\ RouteIn(vs[i], q.method) = vs[i].byMethod[m]
    BY <2>1, RouteInFacts
  <2> QED
    BY <1>6, <2>2 DEF Offers
<1>8. ASSUME NEW h, NEW r, Offers(e, h, r, q)
      PROVE  good # {}
  <2>1. PICK m : /\ Files(e, h, m, r)
                 /\ Matches(h, q.host, q.port) /\ MethodRank(m, q.method) >= 0
    BY <1>8 DEF Offers
  <2>2. PICK i \in 1 .. n : vs[i].host = h /\ m \in DOMAIN vs[i].byMethod /\ vs[i].byMethod[m] = r
    BY <1>1, <2>1 DEF Files, ToSet, vs
  <2>3. \A x \in DOMAIN vs[i].byMethod : vs[i].byMethod[x] # NoRoute
    BY <1>6
  <2>4. RouteIn(vs[i], q.method) # NoRoute
    BY <2>1, <2>2, <2>3, RouteInFacts
  <2> QED
    BY <2>1, <2>2, <2>4
<1>9. Resolve(e, q).route # NoRoute => \E h : Offers(e, h, Resolve(e, q).route, q)
  BY <1>2, <1>3, <1>4, <1>5, <1>7
<1>10. Resolve(e, q).hostOK <=>
              ~HasHosts(e) \/ \E v \in ToSet(Variants(e)) : Matches(v.host, q.host, q.port)
  BY DEF Resolve
<1> QED
  BY <1>3, <1>5, <1>7, <1>8, <1>9, <1>10
-----------------------------------------------------------------------------
(* What the table has for a request, and what its routes have *)

(* Templates of one key match the same paths.                              *)
LEMMA SameKeyFits ==
  ASSUME NEW x \in Templates, NEW y \in Templates, Key(x) = Key(y), NEW S, NEW path \in Seq(S)
  PROVE  PathMatches(x, path) <=> PathMatches(y, path)
BY KeyFits

LEMMA RouteFacts ==
  ASSUME TableInv, NEW r \in DOMAIN routes
  PROVE  /\ routes[r] \in Calls /\ Compiled(routes[r]).ok
         /\ routes[r].segs \in Templates /\ r \in Nat \ {NoRoute}
<1>1. routes \in Seq(AcceptedCalls)
  BY DEF TableInv, EntriesInv
<1>2. routes[r] \in AcceptedCalls /\ r \in Nat /\ r # 0
  BY <1>1
<1>3. routes[r] \in Calls /\ Compiled(routes[r]).ok /\ WellFormed(routes[r].segs)
  BY <1>2 DEF AcceptedCalls
<1>4. routes[r].segs \in Seq(Seg)
  BY <1>3, CallsAssumption DEF Registration
<1> QED
  BY <1>2, <1>3, <1>4 DEF Templates, NoRoute

LEMMA EntryFiles ==
  ASSUME TableInv, NEW i \in DOMAIN entries
  PROVE  \A h, m, r : Files(entries[i], h, m, r) <=>
           /\ r \in DOMAIN routes /\ routes[r].method = m
           /\ Key(routes[r].segs) = Key(entries[i].segs) /\ h \in ToSet(HostsOf(routes[r]))
BY DEF TableInv, EntriesInv, FilesOwn

(* A candidate offers exactly the routes of its template that serve.       *)
LEMMA OffersFacts ==
  ASSUME TableInv, NEW S, NEW q, q.path \in Seq(S), HostsRead(q),
         NEW i \in Candidates(q.path), NEW r
  PROVE  (\E h : Offers(entries[i], h, r, q)) <=>
           /\ r \in DOMAIN routes /\ Key(routes[r].segs) = Key(entries[i].segs)
           /\ Serves(routes[r], q)
<1>1. i \in DOMAIN entries /\ PathMatches(entries[i].segs, q.path)
  BY CandidatesFacts
<1>2. ASSUME r \in DOMAIN routes
      PROVE  /\ (\E h \in ToSet(HostsOf(routes[r])) : Matches(h, q.host, q.port))
                  <=> Admitting(routes[r], q) # {}
             /\ Key(routes[r].segs) = Key(entries[i].segs) => PathMatches(routes[r].segs, q.path)
  <2>1. routes[r] \in Calls /\ Compiled(routes[r]).ok
    BY <1>2, RouteFacts
  <2>2. routes[r].segs \in Templates /\ entries[i].segs \in Templates
    BY <1>1, <1>2, RouteFacts, EntryFacts
  <2>3. Key(routes[r].segs) = Key(entries[i].segs) => PathMatches(routes[r].segs, q.path)
    BY <1>1, <2>2, SameKeyFits
  <2> QED
    BY <2>1, <2>3, AdmittedHosts
<1>3. \A h : Offers(entries[i], h, r, q) <=>
        /\ r \in DOMAIN routes /\ Key(routes[r].segs) = Key(entries[i].segs)
        /\ h \in ToSet(HostsOf(routes[r])) /\ Matches(h, q.host, q.port)
        /\ MethodRank(routes[r].method, q.method) >= 0
  <2> SUFFICES ASSUME NEW h
               PROVE  Offers(entries[i], h, r, q) <=>
                        /\ r \in DOMAIN routes /\ Key(routes[r].segs) = Key(entries[i].segs)
                        /\ h \in ToSet(HostsOf(routes[r])) /\ Matches(h, q.host, q.port)
                        /\ MethodRank(routes[r].method, q.method) >= 0
    OBVIOUS
  <2>1. \A m : Files(entries[i], h, m, r) <=>
          /\ r \in DOMAIN routes /\ routes[r].method = m
          /\ Key(routes[r].segs) = Key(entries[i].segs) /\ h \in ToSet(HostsOf(routes[r]))
    BY <1>1, EntryFiles
  <2> QED
    BY <2>1 DEF Offers
<1> QED
  BY <1>2, <1>3 DEF Serves, OnPathAndHost

(* What a candidate resolves to serves the request, and it resolves to     *)
(* something whenever a route of its template would.                       *)
LEMMA CandidateServes ==
  ASSUME TableInv, NEW S, NEW q, q.path \in Seq(S), HostsRead(q),
         NEW i \in Candidates(q.path)
  PROVE  LET found == Resolve(entries[i], q).route
         IN /\ found # NoRoute <=> \E r \in DOMAIN routes :
                 Key(routes[r].segs) = Key(entries[i].segs) /\ Serves(routes[r], q)
            /\ found # NoRoute =>
                 /\ found \in DOMAIN routes /\ Serves(routes[found], q)
                 /\ Key(routes[found].segs) = Key(entries[i].segs)
<1>1. i \in DOMAIN entries
  BY CandidatesFacts
<1>2. entries[i] \in Entry
  BY <1>1, EntryFacts
<1>3. \A h, m, r : Files(entries[i], h, m, r) => r # NoRoute
  BY <1>1, EntryFiles, RouteFacts
<1>4. /\ Resolve(entries[i], q).route # NoRoute <=> \E h, r : Offers(entries[i], h, r, q)
      /\ Resolve(entries[i], q).route # NoRoute =>
           \E h : Offers(entries[i], h, Resolve(entries[i], q).route, q)
  BY <1>2, <1>3, ResolveFacts
<1> QED
  BY <1>4, OffersFacts

(* A route's path is that of a candidate.                                  *)
LEMMA RouteIsOffered ==
  ASSUME TableInv, NEW S, NEW path \in Seq(S), NEW r \in DOMAIN routes,
         PathMatches(routes[r].segs, path)
  PROVE  \E i \in Candidates(path) : Key(routes[r].segs) = Key(entries[i].segs)
<1>1. PICK i \in DOMAIN entries : Key(entries[i].segs) = Key(routes[r].segs)
  BY DEF TableInv, EntriesInv
<1>2. PathMatches(entries[i].segs, path)
  BY <1>1, RouteFacts, EntryFacts, SameKeyFits
<1> QED
  BY <1>1, <1>2, CandidatesFacts

(* A candidate takes the host if a route of its template does.             *)
LEMMA CandidateHosts ==
  ASSUME TableInv, NEW S, NEW q, q.path \in Seq(S), HostsRead(q),
         NEW i \in Candidates(q.path)
  PROVE  Resolve(entries[i], q).hostOK <=>
           \E r \in DOMAIN routes :
             Key(routes[r].segs) = Key(entries[i].segs) /\ OnPathAndHost(routes[r], q)
<1> DEFINE e == entries[i]
           vs == ToSet(Variants(e))
           Own(r) == r \in DOMAIN routes /\ Key(routes[r].segs) = Key(e.segs)
<1>1. i \in DOMAIN entries /\ PathMatches(e.segs, q.path)
  BY CandidatesFacts
<1>2. e \in Entry /\ e.segs \in Templates
  BY <1>1, EntryFacts
<1>3. \A h, m, r : Files(e, h, m, r) => r # NoRoute
  BY <1>1, EntryFiles, RouteFacts
<1>4. Resolve(e, q).hostOK <=>
        (\A v \in vs : v.host = EveryHost) \/ \E v \in vs : Matches(v.host, q.host, q.port)
  BY <1>2, <1>3, ResolveFacts DEF HasHosts
<1>5. \A h : (\E v \in vs : v.host = h) <=> \E m, r : Files(e, h, m, r)
  <2>1. \A v \in vs : v \in Variant
    BY <1>2, VariantsTyped DEF ToSet
  <2>2. \A v \in vs : \E m : m \in DOMAIN v.byMethod
    <3>1. \A f \in ByMethod : DOMAIN f # {}
      BY DEF ByMethod
    <3> QED
      BY <2>1, <3>1 DEF Variant
  <2> HIDE DEF vs
  <2> QED
    BY <2>2 DEF Files, vs
<1>6. \A h : (\E m, r : Files(e, h, m, r)) <=> \E r : Own(r) /\ h \in ToSet(HostsOf(routes[r]))
  BY <1>1, EntryFiles
<1>7. \E r : Own(r) /\ HostsOf(routes[r]) # << >>
  <2>1. PICK r : Own(r)
    BY <1>1 DEF TableInv, EntriesInv
  <2>2. HostsOf(routes[r]) # << >>
    BY <2>1, RouteFacts, HostsListed
  <2> QED
    BY <2>1, <2>2
<1>8. \E v \in vs : TRUE
  <2>1. PICK r : Own(r) /\ HostsOf(routes[r]) # << >>
    BY <1>7
  <2>2. HostsOf(routes[r]) \in Seq(Listed)
    BY <2>1, RouteFacts, HostsListed
  <2>3. \E h : h \in ToSet(HostsOf(routes[r]))
    BY <2>1, <2>2, SomeElement DEF ToSet
  <2> QED
    BY <1>5, <1>6, <2>1, <2>3
<1>9. Resolve(e, q).hostOK <=> \E v \in vs : Matches(v.host, q.host, q.port)
  BY <1>4, <1>8, EveryHostMatches
<1>10. Resolve(e, q).hostOK <=>
         \E r : Own(r) /\ \E h \in ToSet(HostsOf(routes[r])) : Matches(h, q.host, q.port)
  <2> HIDE DEF vs, Own
  <2> QED
    BY <1>5, <1>6, <1>9
<1>11. \A r : Own(r) =>
         ((\E h \in ToSet(HostsOf(routes[r])) : Matches(h, q.host, q.port))
            <=> OnPathAndHost(routes[r], q))
  <2> SUFFICES ASSUME NEW r, Own(r)
               PROVE  (\E h \in ToSet(HostsOf(routes[r])) : Matches(h, q.host, q.port))
                         <=> OnPathAndHost(routes[r], q)
    OBVIOUS
  <2>1. routes[r] \in Calls /\ Compiled(routes[r]).ok /\ routes[r].segs \in Templates
    BY RouteFacts
  <2>2. PathMatches(routes[r].segs, q.path)
    BY <1>1, <1>2, <2>1, SameKeyFits
  <2> QED
    BY <2>1, <2>2, AdmittedHosts DEF OnPathAndHost
<1> QED
  BY <1>10, <1>11
-----------------------------------------------------------------------------
(* Lookup *)

Bound(S) == [name : STRING, value : Seq(S)]
Results(S) == [ok : BOOLEAN, value : Nat, params : Seq(Bound(S))]

LEMMA FoundFacts ==
  \A v, params : /\ Found(v, params).ok
                 /\ Found(v, params).value = v /\ Found(v, params).params = params
BY DEF Found

LEMMA NothingFacts == \A S : Nothing \in Results(S) /\ ~Nothing.ok
<1>1. \A S : << >> \in Seq(Bound(S))
  OBVIOUS
<1> QED
  BY <1>1 DEF Nothing, Results

(* What a result is with parameters in front of its own.                   *)
LEMMA Preceded ==
  ASSUME NEW S, NEW r \in Results(S), NEW b \in Seq(Bound(S))
  PROVE  LET new == [r EXCEPT !.params = b \o @]
         IN /\ new \in Results(S) /\ new.ok = r.ok /\ new.value = r.value
            /\ new.params = b \o r.params
<1>1. b \o r.params \in Seq(Bound(S))
  BY DEF Results
<1> QED
  BY <1>1 DEF Results

LEMMA PrecededByNone ==
  ASSUME NEW S, NEW r \in Results(S)
  PROVE  [r EXCEPT !.params = << >> \o @] = r
<1>1. << >> \o r.params = r.params
  <2>1. r.params \in Seq(Bound(S))
    BY DEF Results
  <2> QED
    BY <2>1
<1> QED
  BY <1>1 DEF Results

(* The first of some tries that found something.                           *)
LEMMA FirstFoundFacts ==
  ASSUME NEW S, NEW tries \in Seq(Results(S))
  PROVE  /\ FirstFound(tries) \in Results(S)
         /\ (\A i \in DOMAIN tries : ~tries[i].ok) => FirstFound(tries) = Nothing
         /\ (\E i \in DOMAIN tries : tries[i].ok) =>
              \E i \in DOMAIN tries : /\ tries[i].ok /\ FirstFound(tries) = tries[i]
                                      /\ \A k \in DOMAIN tries : k < i => ~tries[k].ok
<1> DEFINE found == {i \in DOMAIN tries : tries[i].ok}
<1>1. FirstFound(tries) = IF found = {} THEN Nothing ELSE tries[Min(found)]
  BY DEF FirstFound
<1>2. found \in SUBSET Nat /\ DOMAIN tries \in SUBSET Nat
  OBVIOUS
<1>3. ASSUME found # {}
      PROVE  Min(found) \in found /\ \A k \in DOMAIN tries : k < Min(found) => ~tries[k].ok
  <2> DEFINE m == Min(found)
  <2>1. m \in found /\ \A x \in found : m <= x
    BY <1>2, <1>3, MinIsMember
  <2>2. m \in Nat
    BY <1>2, <2>1
  <2> HIDE DEF m
  <2>3. \A k \in DOMAIN tries : k < m => ~tries[k].ok
    BY <1>2, <2>1, <2>2
  <2> QED
    BY <2>1, <2>3 DEF m
<1>4. \A i \in DOMAIN tries : tries[i] \in Results(S)
  OBVIOUS
<1>5. FirstFound(tries) \in Results(S)
  BY <1>1, <1>3, <1>4, NothingFacts
<1> QED
  BY <1>1, <1>3, <1>5

LEMMA FirstFoundConcat ==
  ASSUME NEW S, NEW x \in Seq(Results(S)), NEW y \in Seq(Results(S))
  PROVE  FirstFound(x \o y) =
           IF \E i \in DOMAIN x : x[i].ok THEN FirstFound(x) ELSE FirstFound(y)
<1> DEFINE z == x \o y
           n == Len(x)
<1>1. /\ z \in Seq(Results(S)) /\ n \in Nat /\ DOMAIN x = 1 .. n /\ Len(y) \in Nat
      /\ DOMAIN y = 1 .. Len(y) /\ DOMAIN z = 1 .. n + Len(y)
      /\ \A i \in DOMAIN x : i \in DOMAIN z /\ z[i] = x[i]
      /\ \A i \in DOMAIN y : n + i \in DOMAIN z /\ z[n + i] = y[i]
  OBVIOUS
<1>2. \A k \in DOMAIN z : k \in DOMAIN x \/ (k - n \in DOMAIN y /\ k = n + (k - n))
  BY <1>1
<1> HIDE DEF z, n
<1>3. CASE \E i \in DOMAIN x : x[i].ok
  <2>1. PICK i \in DOMAIN x : /\ x[i].ok /\ FirstFound(x) = x[i]
                              /\ \A k \in DOMAIN x : k < i => ~x[k].ok
    BY <1>3, FirstFoundFacts
  <2>2. PICK j \in DOMAIN z : /\ z[j].ok /\ FirstFound(z) = z[j]
                              /\ \A k \in DOMAIN z : k < j => ~z[k].ok
    BY <1>1, <2>1, FirstFoundFacts
  <2>3. ~(i < j)
    BY <1>1, <2>1, <2>2
  <2>4. j \in DOMAIN x
    BY <1>1, <2>1, <2>3
  <2>5. ~(j < i)
    BY <1>1, <2>1, <2>2, <2>4
  <2>6. i = j
    BY <1>1, <2>1, <2>3, <2>4, <2>5
  <2> QED
    BY <1>1, <1>3, <2>1, <2>2, <2>6 DEF z
<1>4. CASE ~(\E i \in DOMAIN x : x[i].ok)
  <2>1. CASE \E i \in DOMAIN y : y[i].ok
    <3>1. PICK i \in DOMAIN y : /\ y[i].ok /\ FirstFound(y) = y[i]
                                /\ \A k \in DOMAIN y : k < i => ~y[k].ok
      BY <2>1, FirstFoundFacts
    <3>2. PICK j \in DOMAIN z : /\ z[j].ok /\ FirstFound(z) = z[j]
                                /\ \A k \in DOMAIN z : k < j => ~z[k].ok
      BY <1>1, <3>1, FirstFoundFacts
    <3>3. j - n \in DOMAIN y /\ j = n + (j - n)
      BY <1>1, <1>2, <1>4, <3>2
    <3>4. y[j - n].ok
      BY <1>1, <3>2, <3>3
    <3>5. ~(j - n < i)
      BY <3>1, <3>3, <3>4
    <3>6. ~(n + i < j)
      BY <1>1, <3>1, <3>2
    <3>7. j = n + i
      BY <1>1, <3>1, <3>2, <3>3, <3>5, <3>6
    <3> QED
      BY <1>1, <1>4, <3>1, <3>2, <3>7 DEF z
  <2>2. CASE ~(\E i \in DOMAIN y : y[i].ok)
    <3>1. \A i \in DOMAIN z : ~z[i].ok
      BY <1>1, <1>2, <1>4, <2>2
    <3> QED
      BY <1>1, <1>4, <2>2, <3>1, FirstFoundFacts DEF z
  <2> QED
    BY <2>1, <2>2
<1> QED
  BY <1>3, <1>4
LEMMA HereFacts ==
  ASSUME NEW S, NEW nd \in Node, NEW params \in Seq(Bound(S))
  PROVE  /\ Here(nd, params) \in Results(S)
         /\ nd.values = << >> => Here(nd, params) = Nothing
         /\ nd.values # << >> => Here(nd, params) = Found(Head(nd.values), params)
         /\ nd.values # << >> => Head(nd.values) \in ToSet(nd.values)
<1>1. nd.values \in Seq(Nat)
  BY DEF Node
<1>2. nd.values # << >> => Head(nd.values) \in Nat /\ Head(nd.values) \in ToSet(nd.values)
  <2>1. nd.values # << >> => 1 \in DOMAIN nd.values /\ Head(nd.values) = nd.values[1]
    BY <1>1
  <2> QED
    BY <1>1, <2>1 DEF ToSet
<1>3. nd.values # << >> => Found(Head(nd.values), params) \in Results(S)
  BY <1>2 DEF Found, Results
<1> QED
  BY <1>2, <1>3, NothingFacts DEF Here

LEMMA Single ==
  ASSUME NEW T, NEW x \in T
  PROVE  <<x>> \in Seq(T) /\ DOMAIN <<x>> = {1} /\ <<x>>[1] = x
OBVIOUS

LEMMA BindingFacts ==
  ASSUME NEW S, NEW s \in Seg, NEW value \in Seq(S)
  PROVE  Binding(s, value) \in Bound(S) /\ <<Binding(s, value)>> \in Seq(Bound(S))
<1>1. s.text \in STRING
  BY DEF Seg
<1>2. Binding(s, value) \in Bound(S)
  BY <1>1 DEF Binding, Bound
<1> QED
  BY <1>2, Single

(* What the catch-alls of a node give.                                     *)
LEMMA RestFacts ==
  ASSUME NEW S, NEW t, TreeInv(t), NEW n \in DOMAIN t, NEW left \in Seq(S)
  PROVE  LET c == Append(n, CatchAllLabel)
         IN /\ Rest(t, n, left) \in Seq(Results(S))
            /\ FirstFound(Rest(t, n, left)) =
                 IF c \in DOMAIN t /\ t[c].values # << >>
                 THEN Found(Head(t[c].values), <<Binding(t[n].catchAlls[1], left)>>)
                 ELSE Nothing
<1> DEFINE c == Append(n, CatchAllLabel)
           cs == t[n].catchAlls
           rest == Rest(t, n, left)
<1>1. cs \in Seq(CatchAlls) /\ (cs # << >> <=> c \in DOMAIN t)
  BY TreeEdges DEF Node
<1>2. \A i \in DOMAIN cs : cs[i] \in Seg /\ Label(cs[i]) = CatchAllLabel /\ Passes(cs[i], left)
  BY <1>1, CatchAllFacts DEF Passes
<1>3. DOMAIN rest = DOMAIN cs
  BY DEF Rest
<1>4. \A i \in DOMAIN cs : rest[i] = Here(t[c], <<Binding(cs[i], left)>>)
  BY <1>2 DEF Rest
<1>5. \A i \in DOMAIN cs : <<Binding(cs[i], left)>> \in Seq(Bound(S))
  BY <1>2, BindingFacts
<1>6. c \in DOMAIN t => t[c] \in Node
  BY TreeEdges
<1>7. \A i \in DOMAIN cs : cs # << >>
  BY <1>1
<1>8. \A i \in DOMAIN cs :
        /\ rest[i] \in Results(S)
        /\ t[c].values = << >> => rest[i] = Nothing
        /\ t[c].values # << >> => rest[i] = Found(Head(t[c].values), <<Binding(cs[i], left)>>)
  BY <1>1, <1>4, <1>5, <1>6, <1>7, HereFacts
<1>9. rest \in Seq(Results(S))
  <2>1. Len(cs) \in Nat /\ DOMAIN cs = 1 .. Len(cs)
    BY <1>1
  <2>2. rest = [i \in 1 .. Len(cs) |-> rest[i]]
    BY <2>1 DEF Rest
  <2> HIDE DEF rest, cs
  <2>3. \A i \in 1 .. Len(cs) : rest[i] \in Results(S)
    BY <1>8, <2>1
  <2> QED
    BY <2>1, <2>2, <2>3, IsASeq
<1> HIDE DEF rest, c, cs
<1>10. CASE c \in DOMAIN t /\ t[c].values # << >>
  <2>1. 1 \in DOMAIN cs
    BY <1>1, <1>10
  <2>2. \A i \in DOMAIN cs : rest[i].ok
    <3> SUFFICES ASSUME NEW i \in DOMAIN cs
                 PROVE  rest[i].ok
      OBVIOUS
    <3>1. rest[i] = Found(Head(t[c].values), <<Binding(cs[i], left)>>)
      BY <1>8, <1>10
    <3>2. PICK r : r = rest[i]
      OBVIOUS
    <3>3. r.ok = TRUE
      BY <3>1, <3>2 DEF Found
    <3> QED
      BY <3>2, <3>3
  <2>3. PICK i \in DOMAIN rest : /\ rest[i].ok /\ FirstFound(rest) = rest[i]
                                 /\ \A k \in DOMAIN rest : k < i => ~rest[k].ok
    BY <1>3, <1>9, <2>1, <2>2, FirstFoundFacts
  <2>4. i = 1
    <3>1. i \in Nat /\ i # 0 /\ ~(1 < i)
      BY <1>1, <1>3, <2>1, <2>2, <2>3
    <3> QED
      BY <3>1
  <2>5. FirstFound(rest) = Found(Head(t[c].values), <<Binding(cs[1], left)>>)
    BY <1>8, <1>10, <2>1, <2>3, <2>4
  <2> QED
    BY <1>9, <1>10, <2>5 DEF rest, c, cs
<1>11. CASE ~(c \in DOMAIN t /\ t[c].values # << >>)
  <2>1. \A i \in DOMAIN rest : ~rest[i].ok
    BY <1>1, <1>3, <1>7, <1>8, <1>11, NothingFacts
  <2>2. FirstFound(rest) = Nothing
    BY <1>9, <2>1, FirstFoundFacts
  <2> QED
    BY <1>9, <1>11, <2>2 DEF rest, c, cs
<1> QED
  BY <1>10, <1>11

(* What the ways on from a node give.                                      *)
Ways(t, n, seg, deeper) ==
    LET branches == Branches(t, n, seg)
    IN [i \in DOMAIN branches |->
          IF branches[i].open
          THEN [deeper[branches[i].to] EXCEPT !.params = branches[i].binds \o @]
          ELSE Nothing]

Leads(t, c, deeper) == c \in DOMAIN t /\ deeper[c].ok
StaticChild(n, seg) == Append(n, <<"static", seg>>)
ParamChild(n) == Append(n, ParamLabel)

(* The result behind a parameter.                                          *)
Through(t, n, seg, r) == [r EXCEPT !.params = <<Binding(t[n].params[1], <<seg>>)>> \o @]

LEMMA WaysFacts ==
  ASSUME NEW S, NEW t, TreeInv(t), NEW n \in DOMAIN t, NEW seg \in S,
         NEW deeper \in [DOMAIN t -> Results(S)]
  PROVE  LET ways == Ways(t, n, seg, deeper)
             s == StaticChild(n, seg)
             p == ParamChild(n)
         IN /\ ways \in Seq(Results(S))
            /\ (\E i \in DOMAIN ways : ways[i].ok) <=>
                 Leads(t, s, deeper) \/ (Filled(seg) /\ Leads(t, p, deeper))
            /\ Leads(t, s, deeper) => FirstFound(ways) = deeper[s]
            /\ ~Leads(t, s, deeper) /\ Filled(seg) /\ Leads(t, p, deeper) =>
                 FirstFound(ways) = Through(t, n, seg, deeper[p])
<1> DEFINE ways == Ways(t, n, seg, deeper)
           s == StaticChild(n, seg)
           p == ParamChild(n)
<1>0. PICK bs, ps : bs = Branches(t, n, seg) /\ ps = t[n].params
  OBVIOUS
<1>1. AreBranches(bs, ps, t, n, seg)
  BY <1>0, BranchFacts
<1>2. /\ Len(ps) \in Nat /\ DOMAIN bs = 1 .. Len(ps) + 1
      /\ bs[1].to = s /\ bs[1].binds = << >> /\ (bs[1].open <=> s \in DOMAIN t)
      /\ \A i \in 2 .. Len(ps) + 1 : bs[i].to = p
      /\ \A i \in 2 .. Len(ps) + 1 : bs[i].open <=> Filled(seg)
      /\ \A i \in 2 .. Len(ps) + 1 : bs[i].binds = <<Binding(ps[i - 1], <<seg>>)>>
  BY <1>1 DEF AreBranches, StaticChild, ParamChild
<1>3. ps \in Seq(Params) /\ (ps # << >> <=> p \in DOMAIN t)
  BY <1>0, TreeEdges DEF Node, ParamChild
<1> DEFINE m == Len(ps)
           With1(i) == [deeper[p] EXCEPT !.params = <<Binding(ps[i], <<seg>>)>> \o @]
<1>4. ways = [i \in 1 .. m + 1 |-> IF bs[i].open
                THEN [deeper[bs[i].to] EXCEPT !.params = bs[i].binds \o @] ELSE Nothing]
  BY <1>0, <1>2 DEF Ways
<1>5. ways[1] = IF s \in DOMAIN t THEN deeper[s] ELSE Nothing
  <2>1. 1 \in 1 .. m + 1
    BY <1>2
  <2>2. s \in DOMAIN t => [deeper[s] EXCEPT !.params = << >> \o @] = deeper[s]
    BY PrecededByNone
  <2> QED
    BY <1>2, <1>4, <2>1, <2>2
<1>6. \A i \in 2 .. m + 1 : i \in 1 .. m + 1 /\ i - 1 \in 1 .. m /\ i - 1 \in DOMAIN ps
  BY <1>2, <1>3
<1>7. \A i \in 2 .. m + 1 : ways[i] = IF Filled(seg) THEN With1(i - 1) ELSE Nothing
  BY <1>2, <1>4, <1>6
<1>8. \A i \in 1 .. m : p \in DOMAIN t
  BY <1>3
<1>9. ASSUME NEW i \in 1 .. m
      PROVE  With1(i) \in Results(S) /\ With1(i).ok = deeper[p].ok
  <2>1. ps[i] \in Seg
    <3>1. ps[i] \in Params
      BY <1>3
    <3> QED
      BY <3>1, ParamFacts
  <2>2. <<seg>> \in Seq(S)
    BY Single
  <2>3. <<Binding(ps[i], <<seg>>)>> \in Seq(Bound(S))
    BY <2>1, <2>2, BindingFacts
  <2>4. deeper[p] \in Results(S)
    BY <1>8
  <2>5. PICK b, r : b = <<Binding(ps[i], <<seg>>)>> /\ r = deeper[p]
    OBVIOUS
  <2>6. [r EXCEPT !.params = b \o @] \in Results(S) /\ [r EXCEPT !.params = b \o @].ok = r.ok
    <3>1. b \in Seq(Bound(S)) /\ r \in Results(S)
      BY <2>3, <2>4, <2>5
    <3> QED
      BY Zenon, <3>1, Preceded
  <2> QED
    BY <2>5, <2>6
<1>10. s \in DOMAIN t => deeper[s] \in Results(S)
  OBVIOUS
<1> HIDE DEF With1, s, p, ways, m
<1>11. ways \in Seq(Results(S)) /\ DOMAIN ways = 1 .. m + 1
  <2>1. \A i \in 1 .. m + 1 : i = 1 \/ i \in 2 .. m + 1
    BY <1>2 DEF m
  <2>2. \A i \in 1 .. m + 1 : ways[i] \in Results(S)
    BY <1>5, <1>6, <1>7, <1>9, <1>10, <2>1, NothingFacts
  <2>3. m + 1 \in Nat /\ DOMAIN ways = 1 .. m + 1 /\ ways = [i \in 1 .. m + 1 |-> ways[i]]
    BY <1>2, <1>4 DEF m
  <2> QED
    BY <2>2, <2>3, IsASeq
<1>12. /\ 1 \in DOMAIN ways /\ \A i \in DOMAIN ways : i = 1 \/ i \in 2 .. m + 1
       /\ \A i \in 2 .. m + 1 : i \in DOMAIN ways
       /\ p \in DOMAIN t <=> 2 \in 2 .. m + 1
       /\ \A i \in DOMAIN ways : i \in Nat
  <2>1. p \in DOMAIN t <=> m # 0
    BY <1>3, EmptySeq DEF m
  <2>2. m \in Nat
    BY <1>2 DEF m
  <2> QED
    BY <1>11, <2>1, <2>2
<1>13. ways[1].ok <=> Leads(t, s, deeper)
  BY <1>5, NothingFacts DEF Leads
<1>14. \A i \in 2 .. m + 1 : ways[i].ok <=> Filled(seg) /\ Leads(t, p, deeper)
  BY <1>6, <1>7, <1>8, <1>9, NothingFacts DEF Leads
<1>15. (\E i \in DOMAIN ways : ways[i].ok) <=>
         Leads(t, s, deeper) \/ (Filled(seg) /\ Leads(t, p, deeper))
  BY <1>12, <1>13, <1>14 DEF Leads
<1>16. ASSUME Leads(t, s, deeper)
       PROVE  FirstFound(ways) = deeper[s]
  <2>1. PICK i \in DOMAIN ways : /\ ways[i].ok /\ FirstFound(ways) = ways[i]
                                 /\ \A k \in DOMAIN ways : k < i => ~ways[k].ok
    BY <1>11, <1>15, <1>16, FirstFoundFacts
  <2>2. ~(1 < i)
    BY <1>12, <1>13, <1>16, <2>1
  <2>3. i = 1
    BY <1>11, <2>1, <2>2
  <2> QED
    BY <1>5, <1>16, <2>1, <2>3 DEF Leads
<1>17. ASSUME ~Leads(t, s, deeper), Filled(seg), Leads(t, p, deeper)
       PROVE  FirstFound(ways) = With1(1)
  <2>1. PICK i \in DOMAIN ways : /\ ways[i].ok /\ FirstFound(ways) = ways[i]
                                 /\ \A k \in DOMAIN ways : k < i => ~ways[k].ok
    BY <1>11, <1>15, <1>17, FirstFoundFacts
  <2>2. 2 \in 2 .. m + 1 /\ ways[2].ok
    BY <1>12, <1>14, <1>17 DEF Leads
  <2>3. i # 1
    BY <1>13, <1>17, <2>1
  <2>4. ~(2 < i)
    BY <1>12, <2>1, <2>2
  <2>5. i = 2
    <3>1. i \in 2 .. m + 1 /\ m \in Nat
      BY <1>2, <1>12, <2>3 DEF m
    <3> QED
      BY <2>4, <3>1
  <2>6. 2 - 1 = 1
    OBVIOUS
  <2> QED
    BY <1>7, <1>17, <2>1, <2>2, <2>5, <2>6
<1>18. With1(1) = Through(t, n, seg, deeper[p])
  BY <1>0 DEF With1, Through
<1> QED
  BY <1>11, <1>15, <1>16, <1>17, <1>18 DEF ways, s, p
Caught(t, n, left) ==
    LET c == CatchAllChild(n)
    IN IF c \in DOMAIN t /\ t[c].values # << >>
       THEN Found(Head(t[c].values), <<Binding(t[n].catchAlls[1], left)>>)
       ELSE Nothing

(* What one node gives: at the end of the path ...                         *)
LEMMA LookedUpAtEnd ==
  ASSUME NEW S, NEW t, TreeInv(t), NEW n \in DOMAIN t, NEW deeper
  PROVE  LET r == LookupFrom(t, n, << >>, deeper)
         IN /\ r \in Results(S)
            /\ r = IF t[n].values # << >> THEN Found(Head(t[n].values), << >>)
                   ELSE Caught(t, n, << >>)
<1> DEFINE r == LookupFrom(t, n, << >>, deeper)
           x == Here(t[n], << >>)
           rest == Rest(t, n, << >>)
<1>1. r = FirstFound(<<x>> \o rest)
  BY DEF LookupFrom
<1>2. << >> \in Seq(S) /\ << >> \in Seq(Bound(S)) /\ t[n] \in Node
  BY TreeEdges
<1>3. /\ x \in Results(S)
      /\ t[n].values = << >> => x = Nothing
      /\ t[n].values # << >> => x = Found(Head(t[n].values), << >>)
  BY <1>2, HereFacts
<1>4. rest \in Seq(Results(S)) /\ FirstFound(rest) = Caught(t, n, << >>)
  BY <1>2, RestFacts DEF Caught, CatchAllChild
<1> HIDE DEF x, rest, r
<1>5. <<x>> \in Seq(Results(S)) /\ DOMAIN <<x>> = {1} /\ <<x>>[1] = x
  BY <1>3, Single
<1>6. r = IF x.ok THEN FirstFound(<<x>>) ELSE FirstFound(rest)
  <2>1. (\E i \in DOMAIN <<x>> : <<x>>[i].ok) <=> x.ok
    BY <1>5
  <2>2. r = IF \E i \in DOMAIN <<x>> : <<x>>[i].ok THEN FirstFound(<<x>>) ELSE FirstFound(rest)
    BY <1>1, <1>4, <1>5, FirstFoundConcat
  <2> QED
    BY <2>1, <2>2
<1>7. ASSUME x.ok
      PROVE  FirstFound(<<x>>) = x
  <2>1. PICK y : y = <<x>>
    OBVIOUS
  <2>2. y \in Seq(Results(S)) /\ DOMAIN y = {1} /\ y[1] = x
    BY <1>5, <2>1
  <2>3. PICK i \in DOMAIN y : FirstFound(y) = y[i]
    BY <1>7, <2>2, FirstFoundFacts
  <2> QED
    BY <2>1, <2>2, <2>3
<1>8. FirstFound(rest) \in Results(S)
  BY <1>4, FirstFoundFacts
<1>9. x.ok <=> t[n].values # << >>
  <2>1. CASE t[n].values = << >>
    BY <1>3, <2>1, NothingFacts
  <2>2. CASE t[n].values # << >>
    <3>1. x.ok = TRUE
      BY <1>3, <2>2 DEF Found
    <3> QED
      BY <2>2, <3>1
  <2> QED
    BY <2>1, <2>2
<1>10. /\ r \in Results(S)
       /\ r = IF t[n].values # << >> THEN Found(Head(t[n].values), << >>)
              ELSE Caught(t, n, << >>)
  BY <1>3, <1>4, <1>6, <1>7, <1>8, <1>9
<1> QED
  BY <1>10 DEF r

(* ... and before it.                                                      *)
LEMMA LookedUpBefore ==
  ASSUME NEW S, NEW t, TreeInv(t), NEW n \in DOMAIN t, NEW left \in Seq(S), left # << >>,
         NEW deeper \in [DOMAIN t -> Results(S)]
  PROVE  LET r == LookupFrom(t, n, left, deeper)
             seg == Head(left)
             s == StaticChild(n, seg)
             p == ParamChild(n)
         IN /\ r \in Results(S)
            /\ r = IF Leads(t, s, deeper) THEN deeper[s]
                   ELSE IF Filled(seg) /\ Leads(t, p, deeper)
                   THEN Through(t, n, seg, deeper[p])
                   ELSE Caught(t, n, left)
<1> DEFINE r == LookupFrom(t, n, left, deeper)
           seg == Head(left)
           s == StaticChild(n, seg)
           p == ParamChild(n)
           ways == Ways(t, n, seg, deeper)
           rest == Rest(t, n, left)
<1>1. r = FirstFound(ways \o rest)
  BY Zenon DEF LookupFrom, Ways
<1>2. seg \in S
  OBVIOUS
<1>3. rest \in Seq(Results(S)) /\ FirstFound(rest) = Caught(t, n, left)
  BY RestFacts DEF Caught, CatchAllChild
<1>4. /\ ways \in Seq(Results(S))
      /\ (\E i \in DOMAIN ways : ways[i].ok) <=>
           Leads(t, s, deeper) \/ (Filled(seg) /\ Leads(t, p, deeper))
      /\ Leads(t, s, deeper) => FirstFound(ways) = deeper[s]
      /\ ~Leads(t, s, deeper) /\ Filled(seg) /\ Leads(t, p, deeper) =>
           FirstFound(ways) = Through(t, n, seg, deeper[p])
  <2> HIDE DEF seg
  <2> QED
    BY <1>2, WaysFacts
<1> HIDE DEF ways, rest, s, p, seg, r
<1>5. r = IF \E i \in DOMAIN ways : ways[i].ok THEN FirstFound(ways) ELSE FirstFound(rest)
  BY <1>1, <1>3, <1>4, FirstFoundConcat
<1>6. FirstFound(ways) \in Results(S) /\ FirstFound(rest) \in Results(S)
  BY <1>3, <1>4, FirstFoundFacts
<1>7. /\ r \in Results(S)
      /\ r = IF Leads(t, s, deeper) THEN deeper[s]
             ELSE IF Filled(seg) /\ Leads(t, p, deeper)
             THEN Through(t, n, seg, deeper[p])
             ELSE Caught(t, n, left)
  BY <1>3, <1>4, <1>5, <1>6
<1> QED
  BY <1>7 DEF r, s, p, seg

(* The function behind Lookup.                                             *)
LookedUp(t, path, f) ==
    \A j \in 0 .. Len(path), n \in DOMAIN t :
      f[j][n] = LookupFrom(t, n, Ending(path, j), f[j - 1])

LEMMA LookupRuns ==
  ASSUME NEW t, TreeInv(t), NEW S, NEW path \in Seq(S)
  PROVE  \E f : /\ LookedUp(t, path, f) /\ Lookup(t, path) = f[Len(path)][<< >>]
                /\ \A j \in 0 .. Len(path) : f[j] \in [DOMAIN t -> Results(S)]
<1> DEFINE L == Len(path)
           A == [DOMAIN t -> Results(S)]
           Step(j, x) == [n \in DOMAIN t |-> LookupFrom(t, n, Ending(path, j), x)]
           base == Step(0, << >>)
           F == [j \in 1 .. L |-> [x \in A |-> Step(j, x)]]
           Def(g) == g = [j \in 0 .. L |-> Step(j, g[j - 1])]
           from == CHOOSE g : Def(g)
<1>1. L \in Nat /\ Ending(path, 0) = << >>
  BY EndingFacts
<1>2. \A x : Step(0, x) = base
  <2>1. \A n \in DOMAIN t : \A x, y : LookupFrom(t, n, << >>, x) = LookupFrom(t, n, << >>, y)
    BY LookedUpAtEnd
  <2> QED
    BY <1>1, <2>1
<1>3. base \in A
  <2>1. \A n \in DOMAIN t : LookupFrom(t, n, << >>, << >>) \in Results(S)
    BY LookedUpAtEnd
  <2> QED
    BY <1>1, <2>1
<1>4. F \in [1 .. L -> [A -> A]]
  <2>1. \A j \in 1 .. L : Ending(path, j) \in Seq(S) /\ Ending(path, j) # << >>
    BY <1>1, EndingFacts
  <2>2. \A j \in 1 .. L, x \in A, n \in DOMAIN t :
          LookupFrom(t, n, Ending(path, j), x) \in Results(S)
    BY <2>1, LookedUpBefore
  <2> QED
    BY <2>2
<1>5. PICK f : IsCounted(f, L, A, base, F)
  <2> HIDE DEF L, A, base, F
  <2> QED
    BY <1>1, <1>3, <1>4, CountedExists
<1>6. /\ f \in [0 .. L -> A] /\ f[0] = base
      /\ \A k \in 1 .. L : f[k] = F[k][f[k - 1]]
  BY <1>5 DEF IsCounted
<1>7. \A j \in 0 .. L : f[j] = Step(j, f[j - 1])
  <2> SUFFICES ASSUME NEW j \in 0 .. L
               PROVE  f[j] = Step(j, f[j - 1])
    OBVIOUS
  <2>1. CASE j = 0
    BY <1>2, <1>6, <2>1
  <2>2. CASE j # 0
    <3>1. j \in 1 .. L /\ j - 1 \in 0 .. L
      BY <1>1, <2>2
    <3>2. f[j - 1] \in A /\ f[j] = F[j][f[j - 1]]
      BY <1>6, <3>1
    <3> QED
      BY <3>1, <3>2
  <2> QED
    BY <2>1, <2>2
<1>8. Def(f)
  <2>1. f = [j \in 0 .. L |-> f[j]]
    BY <1>6
  <2> HIDE DEF Step
  <2> QED
    BY <1>7, <2>1
<1>9. Def(from)
  <2> HIDE DEF Def
  <2> QED
    BY <1>8
<1>10. \A j \in 0 .. L : from[j] = Step(j, from[j - 1])
  <2> HIDE DEF from, Step
  <2> QED
    BY <1>9
<1>11. LookedUp(t, path, from)
  <2> HIDE DEF from
  <2> QED
    BY <1>10 DEF LookedUp
<1>12. \A j \in 0 .. L : from[j] \in A
  <2> DEFINE T == {j \in 0 .. L : from[j] \in A}
  <2>1. 0 \in T
    <3>1. 0 \in 0 .. L
      BY <1>1
    <3>2. from[0] = Step(0, from[0 - 1])
      <4> HIDE DEF from, Step
      <4> QED
        BY <1>10, <3>1
    <3> HIDE DEF from
    <3> QED
      BY <1>2, <1>3, <3>1, <3>2
  <2>2. ASSUME NEW k \in Nat, k < L, k \in T
        PROVE  k + 1 \in T
    <3>1. k + 1 \in 1 .. L /\ k + 1 \in 0 .. L /\ k + 1 - 1 = k
      BY <1>1, <2>2
    <3>2. from[k] \in A
      BY <2>2
    <3>3. from[k + 1] = Step(k + 1, from[k])
      <4> HIDE DEF from, Step
      <4> QED
        BY <1>10, <3>1
    <3>4. F[k + 1] \in [A -> A] /\ F[k + 1][from[k]] = Step(k + 1, from[k])
      <4> HIDE DEF A, Step, from
      <4> QED
        BY <1>4, <3>1, <3>2
    <3>5. from[k + 1] \in A
      <4> HIDE DEF A, Step, from, F
      <4> QED
        BY <3>2, <3>3, <3>4
    <3> QED
      BY <3>1, <3>5
  <2>3. \A j \in 0 .. L : j \in T
    <3> HIDE DEF T, L
    <3> QED
      BY <1>1, <2>1, <2>2, UpTo
  <2> QED
    BY <2>3
<1>13. Lookup(t, path) = from[L][<< >>]
  BY DEF Lookup
<1> HIDE DEF from
<1> QED
  BY <1>11, <1>12, <1>13

-----------------------------------------------------------------------------
(* Lookup finds what a node of the tree holds whose name fits the path, if *)
(* there is any.                                                           *)
LEMMA CaughtFacts ==
  ASSUME NEW t, TreeInv(t), NEW n \in DOMAIN t, NEW left
  PROVE  /\ Caught(t, n, left).ok <=> \E v : Holds(t, CatchAllChild(n), v)
         /\ Caught(t, n, left).ok => Holds(t, CatchAllChild(n), Caught(t, n, left).value)
<1> DEFINE c == CatchAllChild(n)
<1>1. PICK r : r = Caught(t, n, left)
  OBVIOUS
<1>2. CASE c \in DOMAIN t /\ t[c].values # << >>
  <2>1. r = Found(Head(t[c].values), <<Binding(t[n].catchAlls[1], left)>>)
    BY <1>1, <1>2 DEF Caught
  <2>2. r.ok = TRUE /\ r.value = Head(t[c].values)
    BY <2>1 DEF Found
  <2>3. t[c].values \in Seq(Nat)
    BY <1>2 DEF TreeInv, Node
  <2>4. Head(t[c].values) \in ToSet(t[c].values)
    <3>1. 1 \in DOMAIN t[c].values /\ Head(t[c].values) = t[c].values[1]
      BY <1>2, <2>3
    <3> QED
      BY <3>1 DEF ToSet
  <2> QED
    BY <1>1, <1>2, <2>2, <2>4 DEF Holds
<1>3. CASE ~(c \in DOMAIN t /\ t[c].values # << >>)
  <2>1. r = Nothing
    BY <1>1, <1>3 DEF Caught
  <2>2. ~(\E v : Holds(t, c, v))
    BY <1>3 DEF Holds, ToSet
  <2> QED
    BY <1>1, <2>1, <2>2, NothingFacts
<1> QED
  BY <1>2, <1>3

LEMMA LookupAgrees ==
  ASSUME NEW t, TreeInv(t), NEW S, NEW path \in Seq(S), NEW f, LookedUp(t, path, f),
         \A j \in 0 .. Len(path) : f[j] \in [DOMAIN t -> Results(S)]
  PROVE  \A j \in 0 .. Len(path), n \in DOMAIN t :
           Len(n) = Len(path) - j =>
             /\ f[j][n].ok <=> \E v : Given(t, n, path, v)
             /\ f[j][n].ok => Given(t, n, path, f[j][n].value)
<1> DEFINE L == Len(path)
           Good(r, n) == /\ r.ok <=> \E v : Given(t, n, path, v)
                         /\ r.ok => Given(t, n, path, r.value)
           Right(j) == \A n \in DOMAIN t : Len(n) = L - j => Good(f[j][n], n)
           T == {j \in 0 .. L : Right(j)}
<1>1. L \in Nat
  OBVIOUS
<1>2. 0 \in T
  <2>1. ASSUME NEW n \in DOMAIN t, Len(n) = L
        PROVE  Good(f[0][n], n)
    <3>1. 0 \in 0 .. L /\ Ending(path, 0) = << >>
      BY <1>1, EndingFacts
    <3>2. f[0][n] = LookupFrom(t, n, << >>, f[0 - 1])
      BY <3>1 DEF LookedUp
    <3>3. PICK r : r = f[0][n]
      OBVIOUS
    <3>4. r = IF t[n].values # << >> THEN Found(Head(t[n].values), << >>) ELSE Caught(t, n, << >>)
      BY <3>2, <3>3, LookedUpAtEnd
    <3>5. \A v : Given(t, n, path, v) <=> Holds(t, n, v) \/ Holds(t, CatchAllChild(n), v)
      BY <2>1, GivenAtEnd
    <3>6. CASE t[n].values # << >>
      <4>1. t[n].values \in Seq(Nat)
        BY DEF TreeInv, Node
      <4>2. 1 \in DOMAIN t[n].values /\ Head(t[n].values) = t[n].values[1]
        BY <3>6, <4>1
      <4>3. Holds(t, n, Head(t[n].values))
        BY <4>2 DEF Holds, ToSet
      <4>4. r.ok = TRUE /\ r.value = Head(t[n].values)
        BY <3>4, <3>6 DEF Found
      <4> QED
        BY <3>3, <3>5, <4>3, <4>4
    <3>7. CASE t[n].values = << >>
      <4>1. \A v : ~Holds(t, n, v)
        BY <3>7 DEF Holds, ToSet
      <4>2. r = Caught(t, n, << >>)
        BY <3>4, <3>7
      <4> QED
        BY <3>3, <3>5, <4>1, <4>2, CaughtFacts
    <3> QED
      BY <3>6, <3>7
  <2>2. L - 0 = L /\ 0 \in 0 .. L
    BY <1>1
  <2> HIDE DEF Good, L
  <2> QED
    BY <2>1, <2>2
<1>3. ASSUME NEW k \in Nat, k < L, k \in T
      PROVE  k + 1 \in T
  <2> DEFINE j == k + 1
             left == Ending(path, j)
  <2>1. j \in 1 .. L /\ j \in 0 .. L /\ k \in 0 .. L /\ j - 1 = k
    BY <1>1, <1>3
  <2>2. left # << >> /\ left \in Seq(S) /\ Head(left) = path[L - j + 1]
    BY <2>1, EndingFacts
  <2> HIDE DEF left
  <2>3. ASSUME NEW n \in DOMAIN t, Len(n) = L - j
        PROVE  Good(f[j][n], n)
    <3> DEFINE seg == path[Len(n) + 1]
               deeper == f[k]
               s == StaticChild(n, seg)
               p == ParamChild(n)
    <3>1. Len(n) < L /\ L - j + 1 = Len(n) + 1 /\ Head(left) = seg
      BY <1>1, <2>1, <2>2, <2>3
    <3>2. ASSUME NEW l, Append(n, l) \in DOMAIN t
          PROVE  Good(deeper[Append(n, l)], Append(n, l))
      <4>1. Len(Append(n, l)) = Len(n) + 1
        BY <3>2, ChildNamed
      <4>2. Len(Append(n, l)) = L - k
        BY <1>1, <2>1, <2>3, <4>1
      <4>3. Right(k)
        BY <1>3
      <4> QED
        BY <3>2, <4>2, <4>3
    <3>3. \A v : Given(t, n, path, v) <=>
            \/ s \in DOMAIN t /\ Given(t, s, path, v)
            \/ Filled(seg) /\ p \in DOMAIN t /\ Given(t, p, path, v)
            \/ Holds(t, CatchAllChild(n), v)
      BY <3>1, GivenBefore DEF Follows, StaticChild, ParamChild
    <3>4. deeper \in [DOMAIN t -> Results(S)]
      BY <2>1
    <3>5. f[j][n] = LookupFrom(t, n, left, deeper)
      BY <2>1 DEF LookedUp, left
    <3>6. PICK r : r = f[j][n]
      OBVIOUS
    <3> HIDE DEF seg, deeper, j
    <3>7. r = IF Leads(t, s, deeper) THEN deeper[s]
              ELSE IF Filled(seg) /\ Leads(t, p, deeper) THEN Through(t, n, seg, deeper[p])
              ELSE Caught(t, n, left)
      BY <2>2, <3>1, <3>4, <3>5, <3>6, LookedUpBefore
    <3>8. s \in DOMAIN t => Good(deeper[s], s)
      BY <3>2 DEF StaticChild
    <3>9. p \in DOMAIN t => Good(deeper[p], p)
      BY <3>2 DEF ParamChild
    <3>10. p \in DOMAIN t => /\ Through(t, n, seg, deeper[p]).ok = deeper[p].ok
                             /\ Through(t, n, seg, deeper[p]).value = deeper[p].value
      BY <3>4 DEF Through, Results
    <3> HIDE DEF s, p, left
    <3>11. Good(r, n)
      <4>1. CASE Leads(t, s, deeper)
        BY <3>3, <3>7, <3>8, <4>1 DEF Leads
      <4>2. CASE ~Leads(t, s, deeper) /\ Filled(seg) /\ Leads(t, p, deeper)
        BY <3>3, <3>7, <3>9, <3>10, <4>2 DEF Leads
      <4>3. CASE ~Leads(t, s, deeper) /\ ~(Filled(seg) /\ Leads(t, p, deeper))
        <5>1. r = Caught(t, n, left)
          BY <3>7, <4>3
        <5>2. \A v : Given(t, n, path, v) <=> Holds(t, CatchAllChild(n), v)
          BY <3>3, <3>8, <3>9, <4>3 DEF Leads
        <5> QED
          BY <5>1, <5>2, CaughtFacts
      <4> QED
        BY <4>1, <4>2, <4>3
    <3> QED
      BY <3>6, <3>11
  <2>4. Right(j)
    BY <2>3
  <2> QED
    BY <2>1, <2>4
<1>4. \A j \in 0 .. L : j \in T
  <2> HIDE DEF T, L
  <2> QED
    BY <1>1, <1>2, <1>3, UpTo
<1> QED
  BY <1>4

LEMMA LookupFinds ==
  ASSUME NEW t, TreeInv(t), NEW S, NEW path \in Seq(S)
  PROVE  /\ Lookup(t, path).ok <=> Collect(t, path) # {}
         /\ Lookup(t, path).ok => Lookup(t, path).value \in Collect(t, path)
<1>1. PICK f : /\ LookedUp(t, path, f) /\ Lookup(t, path) = f[Len(path)][<< >>]
               /\ \A j \in 0 .. Len(path) : f[j] \in [DOMAIN t -> Results(S)]
  BY LookupRuns
<1>2. << >> \in DOMAIN t /\ Len(<< >>) = 0 /\ Len(path) \in Nat
  BY DEF TreeInv
<1>3. Len(path) \in 0 .. Len(path) /\ Len(<< >>) = Len(path) - Len(path)
  BY <1>2
<1>4. /\ Lookup(t, path).ok <=> \E v : Given(t, << >>, path, v)
      /\ Lookup(t, path).ok => Given(t, << >>, path, Lookup(t, path).value)
  BY <1>1, <1>2, <1>3, LookupAgrees
<1>5. \A v : Given(t, << >>, path, v) <=> v \in Collect(t, path)
  BY RootGives
<1> QED
  BY <1>4, <1>5

-----------------------------------------------------------------------------
(* Extract *)

Accs(S) == [ok : BOOLEAN, done : BOOLEAN, path : Seq(S), params : Seq(Bound(S))]
Unextracted(path) == [ok |-> TRUE, done |-> FALSE, path |-> path, params |-> << >>]

LEMMA ExtractStepTyped ==
  ASSUME NEW S, NEW acc \in Accs(S), NEW s \in Seg
  PROVE  ExtractStep(acc, s) \in Accs(S)
<1>1. acc.path \in Seq(S) /\ acc.params \in Seq(Bound(S))
  BY DEF Accs
<1>2. acc.path # << >> => Head(acc.path) \in S /\ Tail(acc.path) \in Seq(S)
  BY <1>1
<1>3. Append(acc.params, Binding(s, acc.path)) \in Seq(Bound(S))
  BY <1>1, BindingFacts
<1>4. acc.path # << >> => Append(acc.params, Binding(s, <<Head(acc.path)>>)) \in Seq(Bound(S))
  <2> SUFFICES ASSUME acc.path # << >>
               PROVE  Append(acc.params, Binding(s, <<Head(acc.path)>>)) \in Seq(Bound(S))
    OBVIOUS
  <2>1. <<Head(acc.path)>> \in Seq(S)
    BY <1>2, Single
  <2>2. Binding(s, <<Head(acc.path)>>) \in Bound(S)
    BY <2>1, BindingFacts
  <2> QED
    BY <1>1, <2>2
<1> DEFINE seg == Head(acc.path)
           full == seg # "" /\ Passes(s, seg)
<1>5. full \in BOOLEAN
  OBVIOUS
<1>6. \/ ExtractStep(acc, s) = acc
      \/ ExtractStep(acc, s) = [acc EXCEPT !.done = TRUE,
                                           !.params = Append(@, Binding(s, acc.path))]
      \/ ExtractStep(acc, s) = [acc EXCEPT !.ok = FALSE]
      \/ /\ acc.path # << >>
         /\ ExtractStep(acc, s) = [acc EXCEPT !.ok = seg = s.text, !.path = Tail(@)]
      \/ /\ acc.path # << >>
         /\ ExtractStep(acc, s) = [acc EXCEPT !.ok = full, !.path = Tail(@),
                                              !.params = Append(@, Binding(s, <<seg>>))]
  BY Zenon DEF ExtractStep
<1> HIDE DEF full, seg
<1> QED
  BY <1>1, <1>2, <1>3, <1>4, <1>5, <1>6 DEF Accs, seg

(* The walk that Extract makes, step by step.                              *)
Extracting(f, segs, path) ==
    /\ f[0] = Unextracted(path)
    /\ \A i \in 1 .. Len(segs) : f[i] = ExtractStep(f[i - 1], segs[i])

LEMMA ExtractRuns ==
  ASSUME NEW S, NEW path \in Seq(S), NEW segs \in Seq(Seg)
  PROVE  \E f : /\ Extracting(f, segs, path)
                /\ \A i \in 0 .. Len(segs) : f[i] \in Accs(S)
                /\ FoldLeft(ExtractStep, Unextracted(path), segs) = f[Len(segs)]
<1> DEFINE n == Len(segs)
           A == Accs(S)
           base == Unextracted(path)
           F == [i \in 1 .. n |-> [w \in A |-> ExtractStep(w, segs[i])]]
           Step(g, s) == IF s = {} THEN base
                         ELSE ExtractStep(g[s \ {Max(s)}], segs[Max(s)])
           Def(g) == g = [s \in SUBSET DOMAIN segs |-> Step(g, s)]
           iter == CHOOSE g : Def(g)
<1>0. n \in Nat /\ DOMAIN segs = 1 .. n /\ \A i \in 1 .. n : segs[i] \in Seg
  OBVIOUS
<1>1. base \in A
  <2>1. << >> \in Seq(Bound(S))
    OBVIOUS
  <2> QED
    BY <2>1 DEF Unextracted, Accs
<1>2. \A w \in A, i \in 1 .. n : ExtractStep(w, segs[i]) \in A
  BY <1>0, ExtractStepTyped
<1> HIDE DEF A, base
<1>3. F \in [1 .. n -> [A -> A]]
  BY <1>2
<1>4. PICK g : IsFold(g, n, A, base, F)
  <2> HIDE DEF n, F
  <2> QED
    BY <1>0, <1>1, <1>3, FoldExists
<1>5. ASSUME NEW s \in SUBSET (1 .. n)
      PROVE  g[s] = Step(g, s) /\ g[s] \in A
  <2>1. CASE s # {}
    <3>1. Max(s) \in 1 .. n /\ s \ {Max(s)} \in SUBSET (1 .. n)
      BY <1>0, <2>1, MaxIsMember
    <3> QED
      BY <1>4, <2>1, <3>1 DEF IsFold
  <2>2. CASE s = {}
    BY <1>4, <2>2 DEF IsFold
  <2> QED
    BY <2>1, <2>2
<1>6. Def(g)
  BY <1>0, <1>4, <1>5 DEF IsFold
<1>7. Def(iter)
  <2> HIDE DEF Def
  <2> QED
    BY <1>6
<1>8. FoldLeft(ExtractStep, base, segs) = iter[DOMAIN segs]
  BY DEF FoldLeft, MapThenFoldSet
<1>9. \A s \in SUBSET (1 .. n) : iter[s] = Step(iter, s)
  BY <1>0, <1>7
<1> HIDE DEF iter
<1>10. iter[1 .. 0] = base
  <2>1. 1 .. 0 = {} /\ 1 .. 0 \in SUBSET (1 .. n)
    OBVIOUS
  <2> QED
    BY <1>9, <2>1
<1>11. ASSUME NEW i \in 1 .. n
       PROVE  iter[1 .. i] = ExtractStep(iter[1 .. i - 1], segs[i])
  <2>1. /\ 1 .. i \in SUBSET (1 .. n) /\ 1 .. i # {}
        /\ Max(1 .. i) = i
        /\ (1 .. i) \ {Max(1 .. i)} = 1 .. i - 1
    BY <1>0, FoldPath
  <2> QED
    BY <1>9, <2>1
<1>12. \A i \in 0 .. n : iter[1 .. i] \in A
  <2> DEFINE T == {i \in Nat : iter[1 .. i] \in A}
  <2>1. 0 \in T
    BY <1>1, <1>10
  <2>2. ASSUME NEW k \in Nat, k < n, k \in T
        PROVE  k + 1 \in T
    <3>1. k + 1 \in 1 .. n /\ k + 1 - 1 = k
      BY <1>0, <2>2
    <3>2. iter[1 .. k + 1] = ExtractStep(iter[1 .. k], segs[k + 1])
      BY <1>11, <3>1
    <3> QED
      BY <1>2, <2>2, <3>1, <3>2
  <2> HIDE DEF T, n
  <2>3. \A k \in 0 .. n : k \in T
    BY <1>0, <2>1, <2>2, UpTo
  <2> QED
    BY <2>3 DEF T
<1> DEFINE f == [i \in 0 .. n |-> iter[1 .. i]]
<1>13. /\ f[0] = base
       /\ \A i \in 1 .. n : f[i] = ExtractStep(f[i - 1], segs[i])
       /\ \A i \in 0 .. n : f[i] \in A
       /\ f[n] = iter[DOMAIN segs]
  <2>1. \A i \in 1 .. n : i - 1 \in 0 .. n /\ i \in 0 .. n
    BY <1>0
  <2>2. 0 \in 0 .. n /\ n \in 0 .. n
    BY <1>0
  <2> QED
    BY <1>0, <1>10, <1>11, <1>12, <2>1, <2>2
<1> QED
  <2> HIDE DEF f
  <2> QED
    BY <1>8, <1>13 DEF A, base, Extracting

LEMMA EndingTail ==
  ASSUME NEW S, NEW path \in Seq(S), NEW j \in 1 .. Len(path)
  PROVE  Tail(Ending(path, j)) = Ending(path, j - 1)
<1>1. /\ Len(path) - j + 1 \in 1 .. Len(path)
      /\ Len(path) \in Len(path) - j + 1 .. Len(path)
      /\ Len(path) - j + 1 + 1 = Len(path) - (j - 1) + 1
  OBVIOUS
<1> QED
  BY <1>1, HeadTailOfSubSeq DEF Ending

(* One step on a segment that matches.                                     *)
Extracted(acc, done, left, params) ==
    acc.ok /\ acc.done = done /\ acc.path = left /\ acc.params = params

LEMMA ExtractCatchAll ==
  ASSUME NEW S, NEW acc \in Accs(S), acc.ok, ~acc.done, NEW s \in Seg, s.kind = "catchAll"
  PROVE  Extracted(ExtractStep(acc, s), TRUE, acc.path, Append(acc.params, Binding(s, acc.path)))
<1>1. s \in CatchAlls
  BY DEF CatchAlls
<1>2. Passes(s, acc.path)
  BY <1>1, CatchAllFacts DEF Passes
<1>3. ExtractStep(acc, s) = [acc EXCEPT !.done = TRUE,
                                        !.params = Append(@, Binding(s, acc.path))]
  BY Zenon, <1>2 DEF ExtractStep
<1> QED
  BY <1>3 DEF Accs, Extracted

LEMMA ExtractOther ==
  ASSUME NEW S, NEW acc \in Accs(S), acc.ok, ~acc.done, NEW s \in Seg, s.kind # "catchAll",
         acc.path # << >>, SegmentMatches(s, Head(acc.path))
  PROVE  Extracted(ExtractStep(acc, s), FALSE, Tail(acc.path),
                   IF s.kind = "static" THEN acc.params
                   ELSE Append(acc.params, Binding(s, <<Head(acc.path)>>)))
<1> DEFINE seg == Head(acc.path)
           full == seg # "" /\ Passes(s, seg)
<1>1. CASE s.kind = "static"
  <2>1. s.text = seg
    BY Zenon, <1>1 DEF SegmentMatches
  <2>2. ExtractStep(acc, s) = [acc EXCEPT !.ok = seg = s.text, !.path = Tail(@)]
    BY Zenon, <1>1 DEF ExtractStep
  <2>3. ExtractStep(acc, s) = [acc EXCEPT !.ok = TRUE, !.path = Tail(@)]
    BY <2>1, <2>2
  <2> HIDE DEF seg
  <2> QED
    BY <1>1, <2>3 DEF Accs, Extracted
<1>2. CASE s.kind # "static"
  <2>1. full = TRUE
    BY Zenon, <1>2 DEF SegmentMatches
  <2>2. ExtractStep(acc, s) = [acc EXCEPT !.ok = full, !.path = Tail(@),
                                          !.params = Append(@, Binding(s, <<seg>>))]
    BY Zenon, <1>2 DEF ExtractStep
  <2> HIDE DEF full
  <2> QED
    BY <1>2, <2>1, <2>2 DEF Accs, Extracted
<1> QED
  BY <1>1, <1>2

(* What a template captures, segment by segment.                           *)
Chained(b, segs, path) ==
    /\ b[0] = << >>
    /\ \A i \in 1 .. Len(segs) : b[i] = b[i - 1] \o Bind(segs[i], path, i)

LEMMA ExtractFacts ==
  ASSUME NEW S, NEW path \in Seq(S), NEW segs \in Templates, PathMatches(segs, path)
  PROVE  /\ Extract(segs, path).ok
         /\ \E b : /\ Chained(b, segs, path) /\ Extract(segs, path).params = b[Len(segs)]
                   /\ \A i \in 0 .. Len(segs) : b[i] \in Seq(Bound(S))
<1>0. PICK n, L : n = Len(segs) /\ L = Len(path)
  OBVIOUS
<1>1. n \in Nat /\ n \in 1 .. n /\ L \in Nat
  BY <1>0 DEF Templates, WellFormed
<1>12. /\ segs \in Seq(Seg) /\ segs # << >> /\ DOMAIN segs = 1 .. n
       /\ \A i \in 1 .. n : segs[i] \in Seg
       /\ \A i \in 1 .. n : segs[i].kind = "catchAll" => i = n
       /\ \A i \in 1 .. L : path[i] \in S
  BY <1>0 DEF Templates, WellFormed
<1>2. PICK f : /\ Extracting(f, segs, path)
               /\ \A i \in 0 .. n : f[i] \in Accs(S)
               /\ FoldLeft(ExtractStep, Unextracted(path), segs) = f[n]
  BY <1>0, <1>12, ExtractRuns
<1> DEFINE open == segs[n].kind = "catchAll"
           Right(k) == /\ f[k].ok
                       /\ k = n /\ open => f[k].done
                       /\ ~(k = n /\ open) => ~f[k].done /\ f[k].path = Ending(path, L - k)
                       /\ k # 0 => f[k].params = f[k - 1].params \o Bind(segs[k], path, k)
           T == {k \in 0 .. n : Right(k)}
<1>3. /\ open => L >= n - 1 /\ \A i \in 1 .. n - 1 : SegmentMatches(segs[i], path[i])
      /\ ~open => L = n /\ \A i \in 1 .. n : SegmentMatches(segs[i], path[i])
  <2>1. Last(segs) = segs[n]
    BY <1>0, <1>12 DEF Last
  <2> QED
    BY <1>0, <1>1, <1>12, <2>1 DEF PathMatches
<1>4. Right(0)
  <2>1. f[0] = Unextracted(path)
    BY <1>2 DEF Extracting
  <2>2. f[0].ok = TRUE /\ f[0].done = FALSE /\ f[0].path = path
    BY <2>1 DEF Unextracted
  <2>3. L - L + 1 = 1 /\ L - 0 = L
    BY <1>1
  <2>4. Ending(path, L) = path
    BY <1>0, <2>3, SubSeqFull DEF Ending
  <2> QED
    BY <1>1, <2>2, <2>3, <2>4
<1>5. ASSUME NEW k \in Nat, k < n, Right(k)
      PROVE  Right(k + 1)
  <2> DEFINE i == k + 1
             a == f[k]
             s == segs[i]
  <2>1. i \in 1 .. n /\ i - 1 = k /\ k \in 0 .. n /\ k # n /\ i # 0
    BY <1>1, <1>5
  <2>2. a \in Accs(S) /\ a.ok /\ ~a.done /\ a.path = Ending(path, L - k)
    BY <1>2, <1>5, <2>1
  <2>3. f[i] = ExtractStep(a, s) /\ s \in Seg
    BY <1>0, <1>2, <1>12, <2>1 DEF Extracting
  <2>4. a.params \in Seq(Bound(S))
    BY <2>2 DEF Accs
  <2>5. CASE s.kind = "catchAll"
    <3>1. i = n /\ open
      BY <1>12, <2>1, <2>5
    <3>2. L - (L - k) + 1 = i
      BY <1>1
    <3>3. Bind(s, path, i) = <<Binding(s, a.path)>>
      BY Zenon, <1>0, <2>2, <2>5, <3>2 DEF Bind, Ending
    <3>4. Extracted(f[i], TRUE, a.path, Append(a.params, Binding(s, a.path)))
      BY <2>2, <2>3, <2>5, ExtractCatchAll
    <3>5. Binding(s, a.path) \in Bound(S)
      <4>1. a.path \in Seq(S)
        BY <2>2 DEF Accs
      <4> QED
        BY <2>3, <4>1, BindingFacts
    <3>6. Append(a.params, Binding(s, a.path)) = a.params \o Bind(s, path, i)
      BY <2>4, <3>3, <3>5, AppendIsConcat
    <3> HIDE DEF a, s, open, i
    <3> QED
      BY <2>1, <3>1, <3>4, <3>6 DEF Extracted, a, s, i
  <2>6. CASE s.kind # "catchAll"
    <3>1. i <= L /\ SegmentMatches(s, path[i]) /\ ~(i = n /\ open)
      <4>1. CASE open
        <5>1. i # n
          BY <2>6, <4>1
        <5>2. i \in 1 .. n - 1
          BY <1>1, <2>1, <5>1
        <5> QED
          BY <1>1, <1>3, <4>1, <5>1, <5>2
      <4>2. CASE ~open
        BY <1>1, <1>3, <2>1, <4>2
      <4> QED
        BY <4>1, <4>2
    <3>2. L - k \in 1 .. L /\ L - (L - k) + 1 = i /\ L - k - 1 = L - i
      BY <1>1, <2>1, <3>1
    <3>3. a.path # << >> /\ Head(a.path) = path[i] /\ Tail(a.path) = Ending(path, L - i)
      BY <1>0, <2>2, <3>2, EndingFacts, EndingTail
    <3>4. Extracted(f[i], FALSE, Tail(a.path),
                    IF s.kind = "static" THEN a.params
                    ELSE Append(a.params, Binding(s, <<Head(a.path)>>)))
      BY <2>2, <2>3, <2>6, <3>1, <3>3, ExtractOther
    <3>5. Bind(s, path, i) = IF s.kind = "static" THEN << >> ELSE <<Binding(s, <<Head(a.path)>>)>>
      <4>1. s.kind \in {"static", "param", "catchAll"}
        BY <2>3, SegKind
      <4> QED
        BY <2>6, <3>3, <4>1 DEF Bind
    <3>6. Binding(s, <<Head(a.path)>>) \in Bound(S)
      <4>1. path[i] \in S
        BY <1>1, <1>12, <2>1, <3>1
      <4>2. <<Head(a.path)>> \in Seq(S)
        BY <3>3, <4>1, Single
      <4> QED
        BY <2>3, <4>2, BindingFacts
    <3>7. a.params \o Bind(s, path, i) =
            IF s.kind = "static" THEN a.params
            ELSE Append(a.params, Binding(s, <<Head(a.path)>>))
      <4>1. a.params \o << >> = a.params
        BY <2>4
      <4>2. Append(a.params, Binding(s, <<Head(a.path)>>))
              = a.params \o <<Binding(s, <<Head(a.path)>>)>>
        BY <2>4, <3>6, AppendIsConcat
      <4> QED
        BY <3>5, <4>1, <4>2
    <3> HIDE DEF a, s, open, i
    <3> QED
      BY <2>1, <3>1, <3>3, <3>4, <3>7 DEF Extracted, a, s, i
  <2> QED
    BY <2>5, <2>6
<1>6. \A k \in 0 .. n : Right(k)
  <2> HIDE DEF Right
  <2>1. 0 \in T
    BY <1>1, <1>4
  <2>2. \A k \in Nat : k < n /\ k \in T => k + 1 \in T
    BY <1>1, <1>5
  <2>3. \A k \in 0 .. n : k \in T
    <3> HIDE DEF T
    <3> QED
      BY <1>1, <2>1, <2>2, UpTo
  <2> QED
    BY <2>3
<1>7. Extract(segs, path) = [ok |-> f[n].ok /\ (f[n].done \/ f[n].path = << >>),
                             params |-> f[n].params]
  BY <1>0, <1>2 DEF Extract, Unextracted
<1>8. f[n].ok /\ (f[n].done \/ f[n].path = << >>)
  <2>1. ~open => L - n = 0
    BY <1>1, <1>3
  <2>2. n \in 0 .. n
    BY <1>1
  <2>3. Ending(path, 0) = << >>
    BY EndingFacts
  <2> QED
    BY <1>6, <2>1, <2>2, <2>3
<1> DEFINE b == [k \in 0 .. n |-> f[k].params]
<1>9. Chained(b, segs, path) /\ \A i \in 0 .. n : b[i] \in Seq(Bound(S))
  <2>1. f[0].params = << >>
    BY <1>2 DEF Extracting, Unextracted
  <2>2. 0 \in 0 .. n /\ \A i \in 1 .. n : i \in 0 .. n /\ i - 1 \in 0 .. n /\ i # 0
    BY <1>1
  <2>3. \A i \in 1 .. n : f[i].params = f[i - 1].params \o Bind(segs[i], path, i)
    <3> HIDE DEF open
    <3> QED
      BY <1>6, <2>2
  <2>4. \A i \in 0 .. n : f[i].params \in Seq(Bound(S))
    BY <1>2 DEF Accs
  <2> QED
    BY <1>0, <2>1, <2>2, <2>3, <2>4 DEF Chained
<1>10. n \in 0 .. n
  BY <1>1
<1>11. Extract(segs, path).ok = TRUE /\ Extract(segs, path).params = b[n]
  <2>1. b[n] = f[n].params
    BY <1>10
  <2>2. (f[n].ok /\ (f[n].done \/ f[n].path = << >>)) = TRUE
    BY <1>8
  <2> DEFINE v == f[n].ok /\ (f[n].done \/ f[n].path = << >>)
  <2>3. Extract(segs, path) = [ok |-> v, params |-> f[n].params] /\ v = TRUE
    BY <1>7, <2>2
  <2> HIDE DEF b, v
  <2>4. [ok |-> v, params |-> f[n].params].ok = v
        /\ [ok |-> v, params |-> f[n].params].params = f[n].params
    OBVIOUS
  <2> QED
    BY <2>1, <2>3, <2>4
<1> HIDE DEF b
<1> QED
  BY <1>0, <1>9, <1>11

-----------------------------------------------------------------------------
(* The order of the candidates *)

(* Lists of one length are ordered by the first place where they differ.   *)
LEMMA OutranksOrders ==
  ASSUME NEW n \in Nat, NEW x \in [1 .. n -> Int], NEW y \in [1 .. n -> Int]
  PROVE  /\ x # y => Outranks(x, y) \/ Outranks(y, x)
         /\ ~(Outranks(x, y) /\ Outranks(y, x))
         /\ \A z \in [1 .. n -> Int] : Outranks(x, y) /\ Outranks(y, z) => Outranks(x, z)
<1>1. x # y => Outranks(x, y) \/ Outranks(y, x)
  <2> SUFFICES ASSUME x # y
               PROVE  Outranks(x, y) \/ Outranks(y, x)
    OBVIOUS
  <2> DEFINE differ == {i \in 1 .. n : x[i] # y[i]}
             m == Min(differ)
  <2>1. differ # {} /\ differ \in SUBSET Nat
    OBVIOUS
  <2>2. m \in differ /\ \A i \in differ : m <= i
    <3> HIDE DEF differ
    <3> QED
      BY <2>1, MinIsMember
  <2> HIDE DEF m
  <2>3. m \in 1 .. n /\ x[m] # y[m] /\ \A j \in 1 .. m - 1 : x[j] = y[j]
    BY <2>2
  <2>4. x[m] > y[m] \/ y[m] > x[m]
    BY <2>3
  <2> QED
    BY <2>3, <2>4 DEF Outranks
<1>2. ~(Outranks(x, y) /\ Outranks(y, x))
  <2> SUFFICES ASSUME Outranks(x, y), Outranks(y, x)
               PROVE  FALSE
    OBVIOUS
  <2>1. PICK i \in 1 .. n : x[i] > y[i] /\ \A j \in 1 .. i - 1 : x[j] = y[j]
    BY DEF Outranks
  <2>2. PICK k \in 1 .. n : y[k] > x[k] /\ \A j \in 1 .. k - 1 : y[j] = x[j]
    BY DEF Outranks
  <2>3. x[i] # y[i] /\ x[k] # y[k]
    BY <2>1, <2>2
  <2>4. i \notin 1 .. k - 1 /\ k \notin 1 .. i - 1
    BY <2>1, <2>2, <2>3
  <2>5. i = k
    BY <2>4
  <2> QED
    BY <2>1, <2>2, <2>5
<1>3. ASSUME NEW z \in [1 .. n -> Int], Outranks(x, y), Outranks(y, z)
      PROVE  Outranks(x, z)
  <2>1. PICK i \in 1 .. n : x[i] > y[i] /\ \A j \in 1 .. i - 1 : x[j] = y[j]
    BY <1>3 DEF Outranks
  <2>2. PICK k \in 1 .. n : y[k] > z[k] /\ \A j \in 1 .. k - 1 : y[j] = z[j]
    BY <1>3 DEF Outranks
  <2>3. CASE i < k
    <3>1. i \in 1 .. k - 1 /\ \A j \in 1 .. i - 1 : j \in 1 .. k - 1
      BY <2>3
    <3>2. x[i] > z[i] /\ \A j \in 1 .. i - 1 : x[j] = z[j]
      BY <2>1, <2>2, <3>1
    <3> QED
      BY <3>2 DEF Outranks
  <2>4. CASE k < i
    <3>1. k \in 1 .. i - 1 /\ \A j \in 1 .. k - 1 : j \in 1 .. i - 1
      BY <2>4
    <3>2. x[k] > z[k] /\ \A j \in 1 .. k - 1 : x[j] = z[j]
      BY <2>1, <2>2, <3>1
    <3> QED
      BY <3>2 DEF Outranks
  <2>5. CASE i = k
    <3>1. x[i] > z[i] /\ \A j \in 1 .. i - 1 : x[j] = z[j]
      BY <2>1, <2>2, <2>5
    <3> QED
      BY <3>1 DEF Outranks
  <2> QED
    BY <2>3, <2>4, <2>5
<1> QED
  BY <1>1, <1>2, <1>3

LEMMA SpecificityTyped ==
  \A segs \in Seq(Seg) : Specificity(segs) \in [1 .. SpecDepth -> Int]
<1> SUFFICES ASSUME NEW segs \in Seq(Seg), NEW i \in 1 .. SpecDepth
             PROVE  Rank(segs, i) \in Int
  BY DEF Specificity
<1>1. CASE i > Len(segs)
  BY <1>1 DEF Rank
<1>2. CASE ~(i > Len(segs))
  <2>1. i \in 1 .. Len(segs)
    BY <1>2, BoundAssumption
  <2>2. segs[i].kind \in {"static", "param", "catchAll"}
    BY <2>1, SegKind
  <2>3. Rank(segs, i) \in {5, 4, 3, 1}
    BY Zenon, <1>2, <2>2 DEF Rank
  <2> QED
    BY <2>3
<1> QED
  BY <1>1, <1>2

(* Of two candidates one precedes the other.                               *)
Order == {p \in (DOMAIN entries) \X (DOMAIN entries) : Precedes(p[1], p[2])}

LEMMA CandidatesOrdered ==
  ASSUME TableInv
  PROVE  /\ OrdersAll(Order, Len(entries)) /\ Len(entries) \in Nat
         /\ DOMAIN entries = 1 .. Len(entries)
         /\ \A i, j \in DOMAIN entries : <<i, j>> \in Order <=> Precedes(i, j)
<1>1. entries \in Seq(Entry)
  BY DEF TableInv, EntriesInv
<1>2. Len(entries) \in Nat /\ DOMAIN entries = 1 .. Len(entries)
  BY <1>1
<1> DEFINE S(i) == Specificity(entries[i].segs)
           P(i) == entries[i].priority
<1>3. \A i \in DOMAIN entries : S(i) \in [1 .. SpecDepth -> Int] /\ P(i) \in Int
  BY EntryFacts, SpecificityTyped DEF Entry
<1>4. \A i, j \in DOMAIN entries : Precedes(i, j) <=>
        \/ P(i) < P(j)
        \/ /\ P(i) = P(j)
           /\ \/ Outranks(S(i), S(j))
              \/ S(i) = S(j) /\ i < j
  BY DEF Precedes
<1>5. \A i, j \in DOMAIN entries :
        /\ S(i) = S(j) \/ Outranks(S(i), S(j)) \/ Outranks(S(j), S(i))
        /\ ~(Outranks(S(i), S(j)) /\ Outranks(S(j), S(i)))
        /\ \A k \in DOMAIN entries :
             Outranks(S(i), S(j)) /\ Outranks(S(j), S(k)) => Outranks(S(i), S(k))
  <2>1. \A x, y \in [1 .. SpecDepth -> Int] :
          /\ x # y => Outranks(x, y) \/ Outranks(y, x)
          /\ ~(Outranks(x, y) /\ Outranks(y, x))
          /\ \A z \in [1 .. SpecDepth -> Int] :
               Outranks(x, y) /\ Outranks(y, z) => Outranks(x, z)
    BY BoundAssumption, OutranksOrders
  <2> HIDE DEF S
  <2> QED
    BY <1>3, <2>1
<1>6. \A i, j \in DOMAIN entries : <<i, j>> \in Order <=> Precedes(i, j)
  BY DEF Order
<1> HIDE DEF S, P
<1>7. \A i, j \in DOMAIN entries : i # j => Precedes(i, j) \/ Precedes(j, i)
  BY <1>2, <1>3, <1>4, <1>5
<1>8. \A i, j, k \in DOMAIN entries : Precedes(i, j) /\ Precedes(j, k) => Precedes(i, k)
  BY <1>2, <1>3, <1>4, <1>5
<1>9. \A i \in DOMAIN entries : ~Precedes(i, i)
  BY <1>2, <1>3, <1>4, <1>5
<1> QED
  BY <1>2, <1>6, <1>7, <1>8, <1>9 DEF OrdersAll

(* The candidate that answers is the first of those that can.              *)
LEMMA ForemostFacts ==
  ASSUME TableInv, NEW usable \in SUBSET DOMAIN entries, usable # {}
  PROVE  /\ Foremost(usable) \in usable
         /\ \A j \in usable \ {Foremost(usable)} : Precedes(Foremost(usable), j)
<1>1. /\ OrdersAll(Order, Len(entries)) /\ Len(entries) \in Nat
      /\ DOMAIN entries = 1 .. Len(entries)
      /\ \A i, j \in DOMAIN entries : <<i, j>> \in Order <=> Precedes(i, j)
  BY CandidatesOrdered
<1>2. PICK i \in usable : \A j \in usable \ {i} : <<i, j>> \in Order
  BY <1>1, FirstOfAll
<1>3. \A j \in usable \ {i} : Precedes(i, j)
  BY <1>1, <1>2
<1> QED
  BY <1>3 DEF Foremost

-----------------------------------------------------------------------------
(* What find returns *)

Resolved(i, q) == Resolve(entries[i], q).route

LEMMA HitFacts ==
  \A r, params : /\ Hit(r, params).route = r /\ Hit(r, params).params = params
                 /\ Hit(r, params).pathMatched
BY DEF Hit

LEMMA MissFacts ==
  ASSUME NEW matched \in BOOLEAN
  PROVE  Miss(matched).route = NoRoute /\ Miss(matched).pathMatched = matched
BY DEF Miss

(* An answer that a candidate gives, or a miss that is told from the       *)
(* candidates' hosts.                                                      *)
Settles(x, q) ==
    /\ x.route # NoRoute => \E i \in Candidates(q.path) : x.route = Resolved(i, q)
    /\ x.route = NoRoute => \A i \in Candidates(q.path) : Resolved(i, q) = NoRoute
    /\ x.pathMatched <=> \/ x.route # NoRoute
                         \/ \E i \in Candidates(q.path) : Resolve(entries[i], q).hostOK

LEMMA UsableFacts ==
  ASSUME TableInv, NEW S, NEW q, q.path \in Seq(S), NEW i \in Candidates(q.path)
  PROVE  Usable(i, q) <=> Resolved(i, q) # NoRoute
<1>1. i \in DOMAIN entries /\ PathMatches(entries[i].segs, q.path)
  BY CandidatesFacts
<1>2. Extract(entries[i].segs, q.path).ok
  BY <1>1, EntryFacts, ExtractFacts
<1> QED
  BY <1>2 DEF Usable, Resolved

LEMMA SlowSettles ==
  ASSUME TableInv, NEW S, NEW q, q.path \in Seq(S)
  PROVE  Settles(SlowPath(q), q)
<1> DEFINE C == Candidates(q.path)
           usable == {i \in C : Usable(i, q)}
           some == \E i \in C : Resolve(entries[i], q).hostOK
<1>1. SlowPath(q) = IF usable # {} THEN Answer(Foremost(usable), q) ELSE Miss(some)
  BY DEF SlowPath, FirstIn
<1>2. \A i \in C : Usable(i, q) <=> Resolved(i, q) # NoRoute
  BY UsableFacts
<1>3. C \subseteq DOMAIN entries
  BY CandidatesFacts
<1>4. CASE usable # {}
  <2>1. Foremost(usable) \in usable
    <3>1. usable \in SUBSET DOMAIN entries
      BY <1>3
    <3> HIDE DEF usable
    <3> QED
      BY <1>4, <3>1, ForemostFacts
  <2>2. SlowPath(q) = Answer(Foremost(usable), q)
    BY <1>1, <1>4
  <2>3. PICK i : i = Foremost(usable) /\ i \in C /\ Resolved(i, q) # NoRoute
    BY <1>2, <2>1
  <2>4. SlowPath(q) = Answer(i, q)
    BY <2>2, <2>3
  <2>5. SlowPath(q).route = Resolved(i, q) /\ SlowPath(q).pathMatched
    BY <2>4, HitFacts DEF Answer, Resolved
  <2> QED
    BY <2>3, <2>5 DEF Settles
<1>5. CASE usable = {}
  <2>1. SlowPath(q) = Miss(some) /\ some \in BOOLEAN
    BY <1>1, <1>5
  <2> HIDE DEF some
  <2>2. SlowPath(q).route = NoRoute /\ SlowPath(q).pathMatched = some
    BY <2>1, MissFacts
  <2>3. \A i \in C : Resolved(i, q) = NoRoute
    BY <1>2, <1>5
  <2> QED
    BY <2>2, <2>3 DEF Settles, some
<1> QED
  BY <1>4, <1>5

(* What is decided on the fast path.                                       *)
LEMMA ServedSettles ==
  ASSUME NEW q, NEW i \in Candidates(q.path), NEW params,
         IfServed(Resolve(entries[i], q), params) # << >>
  PROVE  Settles(Head(IfServed(Resolve(entries[i], q), params)), q)
<1> DEFINE found == Resolve(entries[i], q)
           x == Hit(found.route, found.params \o params)
<1>1. found.route # NoRoute /\ IfServed(found, params) = <<x>>
  BY DEF IfServed
<1>2. Head(<<x>>) = x
  <2> HIDE DEF x
  <2> QED
    OBVIOUS
<1>3. x.route = Resolved(i, q) /\ x.pathMatched
  BY HitFacts DEF Resolved
<1> HIDE DEF x, found
<1> QED
  BY <1>1, <1>2, <1>3 DEF Settles, Resolved, found

LEMMA FastSettles ==
  ASSUME TableInv, NEW S, NEW q, q.path \in Seq(S), FastPath(q) # << >>
  PROVE  Settles(Head(FastPath(q)), q)
<1> DEFINE C == Candidates(q.path)
<1>1. CASE q.path \in DOMAIN static
  <2>1. static[q.path] \in C
    BY <1>1 DEF Candidates, Seed
  <2>2. FastPath(q) = IfServed(Resolve(entries[static[q.path]], q), << >>)
    BY <1>1 DEF FastPath
  <2> QED
    BY <2>1, <2>2, ServedSettles
<1>2. CASE q.path \notin DOMAIN static
  <2> DEFINE best == Lookup(tree, q.path)
  <2>1. FastPath(q) = FromTree(best, q)
    BY <1>2 DEF FastPath
  <2>2. TreeInv(tree)
    BY DEF TableInv
  <2>3. /\ best.ok <=> Collect(tree, q.path) # {}
        /\ best.ok => best.value \in Collect(tree, q.path)
    BY <2>2, LookupFinds
  <2>4. CASE best.ok
    <3>1. best.value \in C
      BY <2>3, <2>4 DEF Candidates
    <3>2. FastPath(q) = IfServed(Resolve(entries[best.value], q), best.params)
      BY <2>1, <2>4 DEF FromTree
    <3> QED
      BY <3>1, <3>2, ServedSettles
  <2>5. CASE ~best.ok
    <3>1. C = {}
      BY <1>2, <2>3, <2>5 DEF Candidates, Seed
    <3>2. FastPath(q) = <<Miss(FALSE)>>
      BY <2>1, <2>5 DEF FromTree
    <3>3. Head(<<Miss(FALSE)>>) = Miss(FALSE)
      OBVIOUS
    <3>4. Miss(FALSE).route = NoRoute /\ Miss(FALSE).pathMatched = FALSE
      BY MissFacts
    <3> QED
      BY <3>1, <3>2, <3>3, <3>4 DEF Settles
  <2> QED
    BY <2>4, <2>5
<1> QED
  BY <1>1, <1>2

LEMMA FindSettles ==
  ASSUME TableInv, NEW S, NEW q, q.path \in Seq(S)
  PROVE  Settles(Find(q), q)
<1>1. Find(q) = SlowPath(q) \/ (FastPath(q) # << >> /\ Find(q) = Head(FastPath(q)))
  BY DEF Find, OrElse
<1> QED
  BY <1>1, SlowSettles, FastSettles

(* In terms of the routes that are registered.                             *)
LEMMA FindFacts ==
  ASSUME TableInv, NEW S, NEW q, q.path \in Seq(S), HostsRead(q)
  PROVE  /\ Find(q).route # NoRoute =>
              Find(q).route \in DOMAIN routes /\ Serves(routes[Find(q).route], q)
         /\ Find(q).route = NoRoute => \A r \in DOMAIN routes : ~Serves(routes[r], q)
         /\ Find(q).pathMatched <=> OnSomeRoute(routes, q)
<1>1. PICK x : x = Find(q) /\ Settles(x, q)
  BY FindSettles
<1> DEFINE C == Candidates(q.path)
           Own(i, r) == r \in DOMAIN routes /\ Key(routes[r].segs) = Key(entries[i].segs)
<1>2. \A i \in C :
        /\ Resolved(i, q) # NoRoute <=> \E r : Own(i, r) /\ Serves(routes[r], q)
        /\ Resolved(i, q) # NoRoute =>
             Own(i, Resolved(i, q)) /\ Serves(routes[Resolved(i, q)], q)
        /\ Resolve(entries[i], q).hostOK <=> \E r : Own(i, r) /\ OnPathAndHost(routes[r], q)
  BY CandidateServes, CandidateHosts DEF Resolved
<1>3. \A r \in DOMAIN routes : PathMatches(routes[r].segs, q.path) => \E i \in C : Own(i, r)
  BY RouteIsOffered
<1>4. \A r : /\ Serves(routes[r], q) => OnPathAndHost(routes[r], q)
             /\ OnPathAndHost(routes[r], q) => PathMatches(routes[r].segs, q.path)
  BY DEF Serves, OnPathAndHost
<1> HIDE DEF Own, C
<1>5. x.route # NoRoute => x.route \in DOMAIN routes /\ Serves(routes[x.route], q)
  BY <1>1, <1>2 DEF Settles, C, Own
<1>6. x.route = NoRoute => \A r \in DOMAIN routes : ~Serves(routes[r], q)
  BY <1>1, <1>2, <1>3, <1>4 DEF Settles, C
<1>7. x.pathMatched <=> OnSomeRoute(routes, q)
  <2>1. (\E i \in C : Resolve(entries[i], q).hostOK) <=> OnSomeRoute(routes, q)
    <3>1. \A i, r : Own(i, r) => r \in DOMAIN routes
      BY DEF Own
    <3> QED
      BY <1>2, <1>3, <1>4, <3>1 DEF OnSomeRoute
  <2>2. x.route # NoRoute => OnSomeRoute(routes, q)
    BY <1>4, <1>5 DEF OnSomeRoute
  <2> QED
    BY <1>1, <2>1, <2>2 DEF Settles, C
<1> QED
  BY <1>1, <1>5, <1>6, <1>7

(* What the theorems ask of requests: that they are requests, and that the *)
(* patterns were read as they are meant.                                   *)
Readable == \A q \in Arrived : Asks(q) /\ HostsRead(q)

(* Whatever is registered, a miss is a 405 just when some route has the    *)
(* request's path and host (router.go, answerUnmatched on table.find's     *)
(* pathMatched).                                                           *)
THEOREM MissesAreClassified == ASSUME Readable PROVE TableSpec => []MissIsClassified
<1>1. TableInv => MissIsClassified
  BY FindFacts DEF MissIsClassified, Readable, Asks
<1> QED
  BY <1>1, TableInvariance, PTL

-----------------------------------------------------------------------------
(* What allowed returns *)

LEMMA OnHost ==
  ASSUME TableInv, NEW S, NEW q, q.path \in Seq(S), HostsRead(q), NEW m
  PROVE  (\E i \in Candidates(q.path) : \E v \in ToSet(Variants(entries[i])) :
            Matches(v.host, q.host, q.port) /\ m \in DOMAIN v.byMethod)
         <=> \E r \in DOMAIN routes : OnPathAndHost(routes[r], q) /\ routes[r].method = m
<1> DEFINE C == Candidates(q.path)
           Own(i, r) == r \in DOMAIN routes /\ Key(routes[r].segs) = Key(entries[i].segs)
           Open(r) == \E h \in ToSet(HostsOf(routes[r])) : Matches(h, q.host, q.port)
<1>1. \A i \in C : i \in DOMAIN entries /\ PathMatches(entries[i].segs, q.path)
  BY CandidatesFacts
<1>2. \A i \in C :
        (\E v \in ToSet(Variants(entries[i])) :
           Matches(v.host, q.host, q.port) /\ m \in DOMAIN v.byMethod)
        <=> \E h, r : Files(entries[i], h, m, r) /\ Matches(h, q.host, q.port)
  BY DEF Files
<1>3. \A i \in C :
        (\E h, r : Files(entries[i], h, m, r) /\ Matches(h, q.host, q.port))
        <=> \E r : Own(i, r) /\ routes[r].method = m /\ Open(r)
  <2> SUFFICES ASSUME NEW i \in C
               PROVE  (\E h, r : Files(entries[i], h, m, r) /\ Matches(h, q.host, q.port))
                        <=> \E r : Own(i, r) /\ routes[r].method = m /\ Open(r)
    OBVIOUS
  <2>1. \A h, r : Files(entries[i], h, m, r) <=>
          r \in DOMAIN routes /\ routes[r].method = m
          /\ Key(routes[r].segs) = Key(entries[i].segs) /\ h \in ToSet(HostsOf(routes[r]))
    BY <1>1, EntryFiles
  <2> QED
    BY <2>1
<1>4. \A r \in DOMAIN routes :
        /\ Open(r) <=> Admitting(routes[r], q) # {}
        /\ PathMatches(routes[r].segs, q.path) => \E i \in C : Own(i, r)
  BY RouteFacts, AdmittedHosts, RouteIsOffered
<1>5. \A i \in C : \A r : Own(i, r) => PathMatches(routes[r].segs, q.path)
  BY <1>1, RouteFacts, EntryFacts, SameKeyFits
<1>6. \A i, r : Own(i, r) => r \in DOMAIN routes
  OBVIOUS
<1> HIDE DEF C, Own, Open
<1>7. (\E i \in C : \E r : Own(i, r) /\ routes[r].method = m /\ Open(r))
        <=> \E r \in DOMAIN routes : OnPathAndHost(routes[r], q) /\ routes[r].method = m
  BY <1>4, <1>5, <1>6 DEF OnPathAndHost
<1> QED
  BY <1>2, <1>3, <1>7 DEF C

(* The methods of the routes of the path on the host.                      *)
LEMMA AllowedFacts ==
  ASSUME TableInv, NEW S, NEW q, q.path \in Seq(S), HostsRead(q), NEW m
  PROVE  LET Served(x) == \E r \in DOMAIN routes :
                          OnPathAndHost(routes[r], q) /\ routes[r].method = x
         IN m \in Allowed(q) <=> (m # "*" /\ Served(m)) \/ (m = "HEAD" /\ Served("GET"))
<1> DEFINE Served(x) == \E r \in DOMAIN routes :
                          OnPathAndHost(routes[r], q) /\ routes[r].method = x
           on == {v \in UNION {ToSet(Variants(entries[i])) :
                              i \in Candidates(q.path)} :
                 Matches(v.host, q.host, q.port)}
           all == UNION {DOMAIN v.byMethod : v \in on}
           methods == all \ {MethodAny}
<1>1. \A x : x \in methods <=> x # "*" /\ Served(x)
  <2> SUFFICES ASSUME NEW x
               PROVE  x \in methods <=> x # "*" /\ Served(x)
    OBVIOUS
  <2>1. x \in methods <=> x # "*" /\ \E v \in on : x \in DOMAIN v.byMethod
    <3>1. x \in all <=> \E v \in on : x \in DOMAIN v.byMethod
      <4> HIDE DEF on
      <4> QED
        BY Zenon
    <3> HIDE DEF all, on
    <3> QED
      BY <3>1 DEF MethodAny
  <2>2. (\E v \in on : x \in DOMAIN v.byMethod) <=>
          \E i \in Candidates(q.path) : \E v \in ToSet(Variants(entries[i])) :
            Matches(v.host, q.host, q.port) /\ x \in DOMAIN v.byMethod
    OBVIOUS
  <2> HIDE DEF methods, on
  <2> QED
    BY <2>1, <2>2, OnHost
<1>2. Allowed(q) = IF "GET" \in methods THEN methods \cup {"HEAD"} ELSE methods
  BY DEF Allowed
<1> HIDE DEF methods, Served
<1>3. m \in Allowed(q) <=> (m # "*" /\ Served(m)) \/ (m = "HEAD" /\ Served("GET"))
  BY <1>1, <1>2
<1> QED
  BY <1>3 DEF Served

(* A request with another method.                                          *)
LEMMA OtherMethod ==
  ASSUME NEW q, Asks(q), NEW m
  PROVE  LET o == [q EXCEPT !.method = m]
         IN /\ o.method = m /\ o.path = q.path /\ o.host = q.host
            /\ o.port = q.port /\ o.asked = q.asked
            /\ \A rt : OnPathAndHost(rt, o) <=> OnPathAndHost(rt, q)
<1> DEFINE o == [q EXCEPT !.method = m]
<1>1. o.method = m /\ o.path = q.path /\ o.host = q.host /\ o.port = q.port /\ o.asked = q.asked
  BY DEF Asks
<1> HIDE DEF o
<1>2. \A rt : OnPathAndHost(rt, o) <=> OnPathAndHost(rt, q)
  BY <1>1 DEF OnPathAndHost, Admitting
<1> QED
  BY <1>1, <1>2 DEF o

LEMMA AllowFacts ==
  ASSUME TableInv, NEW q, Asks(q), HostsRead(q), Is405(Find(q))
  PROVE  Allowed(q) = ServedMethods(routes, q) /\ ServedMethods(routes, q) # {}
<1> DEFINE On(r) == r \in DOMAIN routes /\ OnPathAndHost(routes[r], q)
<1>1. /\ \A r \in DOMAIN routes : ~Serves(routes[r], q)
      /\ \E r : On(r)
  BY FindFacts DEF Asks, Is405, OnSomeRoute
<1>2. \A x, y : MethodRank(x, y) >= 0 <=> x = y \/ (x = "GET" /\ y = "HEAD") \/ x = "*"
  BY DEF MethodRank
<1>3. \A r : On(r) => routes[r].method # "*"
  BY <1>1, <1>2 DEF Serves
<1>4. ASSUME NEW m
      PROVE  (\E r \in DOMAIN routes : Serves(routes[r], [q EXCEPT !.method = m])) <=>
               \E r : On(r) /\ (routes[r].method = m \/ (routes[r].method = "GET" /\ m = "HEAD"))
  <2>1. PICK o : o = [q EXCEPT !.method = m]
    OBVIOUS
  <2>2. o.method = m /\ \A rt : OnPathAndHost(rt, o) <=> OnPathAndHost(rt, q)
    BY <2>1, OtherMethod
  <2>3. \A r : r \in DOMAIN routes /\ Serves(routes[r], o) <=>
          On(r) /\ MethodRank(routes[r].method, m) >= 0
    BY <2>2 DEF Serves
  <2> HIDE DEF On
  <2> QED
    BY <1>2, <1>3, <2>1, <2>3
<1>5. \A m : m \in ServedMethods(routes, q) <=>
               /\ m \in MethodsNamed(routes) \cup {"HEAD"}
               /\ \E r : On(r) /\ (routes[r].method = m \/ (routes[r].method = "GET" /\ m = "HEAD"))
  BY <1>4 DEF ServedMethods
<1>6. \A m : m \in Allowed(q) <=>
               \/ m # "*" /\ \E r : On(r) /\ routes[r].method = m
               \/ m = "HEAD" /\ \E r : On(r) /\ routes[r].method = "GET"
  BY AllowedFacts DEF Asks
<1>7. \A r : On(r) => routes[r].method \in MethodsNamed(routes)
  BY <1>3 DEF MethodsNamed
<1>8. \A m : m \in MethodsNamed(routes) => m # "*"
  BY DEF MethodsNamed
<1> HIDE DEF On
<1>9. \A m : m \in Allowed(q) <=> m \in ServedMethods(routes, q)
  BY <1>3, <1>5, <1>6, <1>7, <1>8
<1>10. \E m : m \in ServedMethods(routes, q)
  BY <1>1, <1>5, <1>7
<1> QED
  BY <1>9, <1>10

(* Whatever is registered, a 405 lists exactly the methods that would have *)
(* been served, HEAD with GET, and there is one (router.go, Allow; table   *)
(* .go, allowed).                                                          *)
THEOREM AllowHeadersAreExact == ASSUME Readable PROVE TableSpec => []AllowIsExact
<1>1. TableInv => AllowIsExact
  BY AllowFacts DEF AllowIsExact, Readable
<1> QED
  BY <1>1, TableInvariance, PTL
===============================================================================
