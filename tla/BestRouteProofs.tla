---------------------------- MODULE BestRouteProofs ----------------------------
(***************************************************************************)
(* Which of the routes that serve a request the table finds, for every     *)
(* table that calls can make.                                              *)
(***************************************************************************)
EXTENDS LookupProofs

-----------------------------------------------------------------------------
(* Specificity, of nodes *)

(* What specificity makes of the label at one position of a node's name,   *)
(* and of the position behind its end.                                     *)
LabelRank(l) ==
    IF l = ParamLabel THEN 3 ELSE IF l = CatchAllLabel THEN 1 ELSE 5
NodeRank(m, i) == IF i > Len(m) THEN 2 ELSE LabelRank(m[i])

(* From the k-th label on, m is more specific at the first that differs.   *)
Ahead(m, w, k) ==
    \E i \in Nat : /\ k <= i /\ NodeRank(m, i) > NodeRank(w, i)
                   /\ \A j \in k .. i - 1 : NodeRank(m, j) = NodeRank(w, j)

LEMMA LabelRanks ==
  /\ LabelRank(ParamLabel) = 3 /\ LabelRank(CatchAllLabel) = 1
  /\ \A seg : LabelRank(<<"static", seg>>) = 5
<1>1. CatchAllLabel[1] = "catchAll" /\ \A seg : <<"static", seg>>[1] = "static"
  BY DEF CatchAllLabel
<1> QED
  BY <1>1, ParamLabelKind DEF LabelRank

LEMMA RanksAgree ==
  ASSUME NEW segs \in Seq(Seg), NEW i \in Nat \ {0}
  PROVE  /\ Rank(segs, i) = NodeRank(Key(segs), i)
         /\ (IF i > Len(segs) THEN 2 ELSE SegmentRank(segs[i])) = NodeRank(Key(segs), i)
         /\ NodeRank(Key(segs), i) \in Nat
         /\ i > Len(segs) => NodeRank(Key(segs), i) = 2
         /\ Len(Key(segs)) = Len(segs)
<1>1. Len(Key(segs)) = Len(segs) /\ DOMAIN Key(segs) = 1 .. Len(segs) /\ Len(segs) \in Nat
  BY DEF Key
<1>2. CASE i > Len(segs)
  BY <1>1, <1>2 DEF Rank, NodeRank
<1>3. CASE ~(i > Len(segs))
  <2>1. i \in 1 .. Len(segs)
    BY <1>1, <1>3
  <2>2. segs[i] \in Seg /\ Key(segs)[i] = Label(segs[i])
    BY <2>1 DEF Key
  <2> DEFINE s == segs[i]
  <2>3. s.kind \in {"static", "param", "catchAll"}
    BY <2>2, SegKind
  <2>4. NodeRank(Key(segs), i) = LabelRank(Label(s))
    BY <1>1, <1>3, <2>2 DEF NodeRank
  <2>5. CASE s.kind = "static"
    <3>1. Label(s) = <<"static", s.text>>
      BY <2>5 DEF Label
    <3>2. LabelRank(Label(s)) = 5
      BY <3>1, LabelRanks
    <3>3. Rank(segs, i) = 5 /\ SegmentRank(s) = 5
      BY Zenon, <1>3, <2>5 DEF Rank, SegmentRank
    <3> QED
      BY <1>1, <1>3, <2>4, <3>2, <3>3
  <2>6. CASE s.kind = "param"
    <3>1. s \in Params
      BY <2>2, <2>6 DEF Params
    <3>2. Label(s) = ParamLabel /\ ~Checked(s)
      BY <3>1, ParamFacts
    <3>3. LabelRank(Label(s)) = 3
      BY <3>2, LabelRanks
    <3>4. Rank(segs, i) = 3 /\ SegmentRank(s) = 3
      BY Zenon, <1>3, <2>6, <3>2 DEF Rank, SegmentRank
    <3> QED
      BY <1>1, <1>3, <2>4, <3>3, <3>4
  <2>7. CASE s.kind = "catchAll"
    <3>1. s \in CatchAlls
      BY <2>2, <2>7 DEF CatchAlls
    <3>2. Label(s) = CatchAllLabel
      BY <3>1, CatchAllFacts
    <3>3. LabelRank(Label(s)) = 1
      BY <3>2, LabelRanks
    <3>4. Rank(segs, i) = 1 /\ SegmentRank(s) = 1
      BY Zenon, <1>3, <2>7 DEF Rank, SegmentRank
    <3> QED
      BY <1>1, <1>3, <2>4, <3>3, <3>4
  <2> QED
    BY <2>3, <2>5, <2>6, <2>7
<1> QED
  BY <1>2, <1>3

(* Templates no longer than the code compares are ranked by their first    *)
(* difference, in the table as in the rule.                                *)
LEMMA AheadIs ==
  ASSUME NEW x \in Seq(Seg), NEW y \in Seq(Seg), Len(x) <= SpecDepth, Len(y) <= SpecDepth
  PROVE  /\ Outranks(Specificity(x), Specificity(y)) <=> Ahead(Key(x), Key(y), 1)
         /\ MoreSpecific(x, y) <=> Ahead(Key(x), Key(y), 1)
<1> DEFINE X(i) == NodeRank(Key(x), i)
           Y(i) == NodeRank(Key(y), i)
<1>1. SpecDepth \in Nat /\ Len(x) \in Nat /\ Len(y) \in Nat
  BY BoundAssumption
<1>2. \A i \in Nat \ {0} :
        /\ Rank(x, i) = X(i) /\ Rank(y, i) = Y(i)
        /\ (IF i > Len(x) THEN 2 ELSE SegmentRank(x[i])) = X(i)
        /\ (IF i > Len(y) THEN 2 ELSE SegmentRank(y[i])) = Y(i)
        /\ X(i) \in Nat /\ Y(i) \in Nat
        /\ i > Len(x) => X(i) = 2
        /\ i > Len(y) => Y(i) = 2
  BY RanksAgree
<1>3. \A i \in Nat \ {0} : X(i) > Y(i) => i <= Len(x) \/ i <= Len(y)
  BY <1>1, <1>2
<1> HIDE DEF X, Y
<1>4. Outranks(Specificity(x), Specificity(y)) <=>
        \E i \in 1 .. SpecDepth : X(i) > Y(i) /\ \A j \in 1 .. i - 1 : X(j) = Y(j)
  <2>1. DOMAIN Specificity(x) = 1 .. SpecDepth
    BY DEF Specificity
  <2>2. \A i \in 1 .. SpecDepth : Specificity(x)[i] = X(i) /\ Specificity(y)[i] = Y(i)
    BY <1>1, <1>2 DEF Specificity
  <2>3. \A i \in 1 .. SpecDepth : \A j \in 1 .. i - 1 : j \in 1 .. SpecDepth
    BY <1>1
  <2> QED
    BY <2>1, <2>2, <2>3 DEF Outranks
<1>5. MoreSpecific(x, y) <=>
        \E i \in 1 .. Len(x) + Len(y) : X(i) > Y(i) /\ \A j \in 1 .. i - 1 : X(j) = Y(j)
  <2> DEFINE rank(segs, i) == IF i > Len(segs) THEN 2 ELSE SegmentRank(segs[i])
  <2>1. \A i \in 1 .. Len(x) + Len(y) : rank(x, i) = X(i) /\ rank(y, i) = Y(i)
    BY <1>1, <1>2
  <2>2. \A i \in 1 .. Len(x) + Len(y) : \A j \in 1 .. i - 1 : j \in 1 .. Len(x) + Len(y)
    BY <1>1
  <2>3. MoreSpecific(x, y) <=>
          \E i \in 1 .. Len(x) + Len(y) :
             rank(x, i) > rank(y, i) /\ \A j \in 1 .. i - 1 : rank(x, j) = rank(y, j)
    BY DEF MoreSpecific
  <2> HIDE DEF rank
  <2> QED
    BY <2>1, <2>2, <2>3
<1>6. Ahead(Key(x), Key(y), 1) <=>
        \E i \in Nat \ {0} : X(i) > Y(i) /\ \A j \in 1 .. i - 1 : X(j) = Y(j)
  BY DEF Ahead, X, Y
<1>7. \A i \in Nat \ {0} : i <= Len(x) \/ i <= Len(y) =>
        i \in 1 .. SpecDepth /\ i \in 1 .. Len(x) + Len(y)
  BY <1>1
<1>8. /\ \A i \in 1 .. SpecDepth : i \in Nat \ {0}
      /\ \A i \in 1 .. Len(x) + Len(y) : i \in Nat \ {0}
  BY <1>1
<1> QED
  BY <1>3, <1>4, <1>5, <1>6, <1>7, <1>8
-----------------------------------------------------------------------------
(* The best match of a walk *)

(* Of the nodes with a value that fit what is left behind n, m is ahead.   *)
Best(t, m, v, n, path) ==
    /\ Holds(t, m, v) /\ FitsBelow(m, n, path)
    /\ \A w, x : Holds(t, w, x) /\ FitsBelow(w, n, path) /\ w # m => Ahead(m, w, Len(n) + 1)

(* Nodes below n by their next label.                                      *)
LEMMA RankBelow ==
  ASSUME NEW t, TreeInv(t), NEW n \in DOMAIN t, NEW m \in DOMAIN t
  PROVE  /\ Len(n) \in Nat
         /\ m = n => NodeRank(m, Len(n) + 1) = 2
         /\ m = CatchAllChild(n) => NodeRank(m, Len(n) + 1) = 1
         /\ \A l : Append(n, l) \in DOMAIN t /\ Underneath(m, Append(n, l)) =>
              NodeRank(m, Len(n) + 1) = LabelRank(l)
<1>1. Len(n) \in Nat /\ Len(m) \in Nat /\ n \in Seq(Labels)
  BY DEF TreeInv
<1>2. m = n => NodeRank(m, Len(n) + 1) = 2
  BY <1>1 DEF NodeRank
<1>3. ASSUME NEW l, Append(n, l) \in DOMAIN t, Underneath(m, Append(n, l))
      PROVE  NodeRank(m, Len(n) + 1) = LabelRank(l)
  <2>1. Len(n) < Len(m) /\ m[Len(n) + 1] = l
    BY <1>3, BelowChild
  <2> QED
    BY <1>1, <2>1 DEF NodeRank
<1>4. ASSUME m = CatchAllChild(n)
      PROVE  NodeRank(m, Len(n) + 1) = 1
  <2>1. Append(n, CatchAllLabel) \in DOMAIN t /\ Underneath(m, Append(n, CatchAllLabel))
    BY <1>1, <1>4 DEF CatchAllChild, Underneath
  <2> QED
    BY <1>3, <2>1, LabelRanks
<1> QED
  BY <1>1, <1>2, <1>3, <1>4

LEMMA AheadHere ==
  ASSUME NEW m, NEW w, NEW k \in Nat, NodeRank(m, k) > NodeRank(w, k)
  PROVE  Ahead(m, w, k)
BY DEF Ahead

LEMMA AheadBelow ==
  ASSUME NEW m, NEW w, NEW k \in Nat, NodeRank(m, k) = NodeRank(w, k), Ahead(m, w, k + 1)
  PROVE  Ahead(m, w, k)
<1>1. PICK i \in Nat : /\ k + 1 <= i /\ NodeRank(m, i) > NodeRank(w, i)
                       /\ \A j \in k + 1 .. i - 1 : NodeRank(m, j) = NodeRank(w, j)
  BY DEF Ahead
<1>2. \A j \in k .. i - 1 : j = k \/ j \in k + 1 .. i - 1
  OBVIOUS
<1> QED
  BY <1>1, <1>2 DEF Ahead

(* At the end of the path the node comes before its catch-all.             *)
LEMMA BestAtEnd ==
  ASSUME NEW t, TreeInv(t), NEW S, NEW path \in Seq(S),
         NEW n \in DOMAIN t, Len(n) = Len(path), NEW v, Holds(t, n, v)
  PROVE  Best(t, n, v, n, path)
<1>1. FitsBelow(n, n, path)
  BY FitsAtEnd
<1>2. ASSUME NEW w, NEW x, Holds(t, w, x), FitsBelow(w, n, path), w # n
      PROVE  Ahead(n, w, Len(n) + 1)
  <2>1. w \in DOMAIN t
    BY <1>2, HoldsNode
  <2>2. w = CatchAllChild(n)
    BY <1>2, <2>1, FitsAtEnd
  <2>3. NodeRank(n, Len(n) + 1) = 2 /\ NodeRank(w, Len(n) + 1) = 1 /\ Len(n) + 1 \in Nat
    BY <2>1, <2>2, RankBelow
  <2> QED
    BY <2>3, AheadHere
<1> QED
  BY <1>1, <1>2 DEF Best

(* The catch-all is best if nothing else is there: at the end ...          *)
LEMMA BestCaughtAtEnd ==
  ASSUME NEW t, TreeInv(t), NEW S, NEW path \in Seq(S),
         NEW n \in DOMAIN t, Len(n) = Len(path), \A x : ~Holds(t, n, x),
         NEW v, Holds(t, CatchAllChild(n), v)
  PROVE  Best(t, CatchAllChild(n), v, n, path)
<1>1. \A w, x : Holds(t, w, x) => w \in DOMAIN t
  BY HoldsNode
<1>2. \A w \in DOMAIN t : FitsBelow(w, n, path) <=> w = n \/ w = CatchAllChild(n)
  BY FitsAtEnd
<1> QED
  BY <1>1, <1>2 DEF Best

(* ... and before it.                                                      *)
LEMMA BestCaught ==
  ASSUME NEW t, TreeInv(t), NEW S, NEW path \in Seq(S),
         NEW n \in DOMAIN t, Len(n) < Len(path),
         \A l : Follows(l, path[Len(n) + 1]) /\ Append(n, l) \in DOMAIN t =>
                  \A x : ~Given(t, Append(n, l), path, x),
         NEW v, Holds(t, CatchAllChild(n), v)
  PROVE  Best(t, CatchAllChild(n), v, n, path)
<1>1. \A w, x : Holds(t, w, x) => w \in DOMAIN t
  BY HoldsNode
<1>2. \A w \in DOMAIN t : FitsBelow(w, n, path) <=>
           \/ \E l : /\ Follows(l, path[Len(n) + 1]) /\ Append(n, l) \in DOMAIN t
                     /\ FitsBelow(w, Append(n, l), path)
           \/ w = CatchAllChild(n)
  BY FitsBefore
<1>3. \A w, x : Holds(t, w, x) /\ FitsBelow(w, n, path) => w = CatchAllChild(n)
  BY <1>1, <1>2 DEF Given
<1> QED
  BY <1>1, <1>2, <1>3 DEF Best

(* What is best below a way on is best, if every way of a higher rank      *)
(* leads nowhere.                                                          *)
LEMMA BestBelow ==
  ASSUME NEW t, TreeInv(t), NEW S, NEW path \in Seq(S),
         NEW n \in DOMAIN t, Len(n) < Len(path),
         NEW l, Follows(l, path[Len(n) + 1]), Append(n, l) \in DOMAIN t,
         \A d : Follows(d, path[Len(n) + 1]) /\ Append(n, d) \in DOMAIN t /\ d # l =>
                  LabelRank(l) > LabelRank(d) \/ \A x : ~Given(t, Append(n, d), path, x),
         NEW m, NEW v, Best(t, m, v, Append(n, l), path)
  PROVE  Best(t, m, v, n, path)
<1>1. \A w, x : Holds(t, w, x) => w \in DOMAIN t
  BY HoldsNode
<1>2. \A w \in DOMAIN t : FitsBelow(w, n, path) <=>
           \/ \E d : /\ Follows(d, path[Len(n) + 1]) /\ Append(n, d) \in DOMAIN t
                     /\ FitsBelow(w, Append(n, d), path)
           \/ w = CatchAllChild(n)
  BY FitsBefore
<1>3. Holds(t, m, v) /\ FitsBelow(m, Append(n, l), path) /\ m \in DOMAIN t
  BY <1>1 DEF Best
<1>4. FitsBelow(m, n, path)
  BY <1>2, <1>3
<1>5. Len(Append(n, l)) = Len(n) + 1 /\ Len(n) \in Nat
  BY ChildNamed
<1>6. NodeRank(m, Len(n) + 1) = LabelRank(l)
  BY <1>3, RankBelow DEF FitsBelow
<1>7. LabelRank(l) \in {3, 5}
  BY LabelRanks DEF Follows
<1>8. ASSUME NEW w, NEW x, Holds(t, w, x), FitsBelow(w, n, path), w # m
      PROVE  Ahead(m, w, Len(n) + 1)
  <2>1. w \in DOMAIN t
    BY <1>1, <1>8
  <2>2. CASE w = CatchAllChild(n)
    <3>1. NodeRank(w, Len(n) + 1) = 1
      BY <2>1, <2>2, RankBelow
    <3> QED
      BY <1>5, <1>6, <1>7, <3>1, AheadHere
  <2>3. ASSUME NEW d, Follows(d, path[Len(n) + 1]), Append(n, d) \in DOMAIN t,
               FitsBelow(w, Append(n, d), path)
        PROVE  Ahead(m, w, Len(n) + 1)
    <3>1. NodeRank(w, Len(n) + 1) = LabelRank(d)
      BY <2>1, <2>3, RankBelow DEF FitsBelow
    <3>2. CASE d = l
      <4>1. Ahead(m, w, Len(n) + 1 + 1)
        BY <1>5, <1>8, <2>3, <3>2 DEF Best
      <4> QED
        BY <1>5, <1>6, <3>1, <3>2, <4>1, AheadBelow
    <3>3. CASE d # l
      <4>1. Given(t, Append(n, d), path, x)
        BY <1>8, <2>3 DEF Given
      <4>2. LabelRank(l) > LabelRank(d)
        BY <2>3, <3>3, <4>1
      <4> QED
        BY <1>5, <1>6, <3>1, <4>2, AheadHere
    <3> QED
      BY <3>2, <3>3
  <2> QED
    BY <1>2, <1>8, <2>1, <2>2, <2>3
<1> QED
  BY <1>3, <1>4, <1>8 DEF Best
-----------------------------------------------------------------------------
(* What a walk captures *)

(* The names of the edges on the way to a template's node are those of the *)
(* template.                                                               *)
Prefix(segs, k) == [i \in 1 .. k |-> Label(segs[i])]
NamedAt(nd, s) ==
    s.kind # "static" => EdgesFor(nd, s) # << >> /\ EdgesFor(nd, s)[1].text = s.text
Named(t, segs) ==
    \A k \in 1 .. Len(segs) : /\ Prefix(segs, k - 1) \in DOMAIN t
                              /\ NamedAt(t[Prefix(segs, k - 1)], segs[k])

(* The parameters are what the template captures behind its first k        *)
(* segments.                                                               *)
Binds(segs, k, path, params, S) ==
    \A b : Chained(b, segs, path) /\ (\A i \in 0 .. Len(segs) : b[i] \in Seq(Bound(S)))
             => b[k] \o params = b[Len(segs)]

LEMMA BindsAtEnd ==
  ASSUME NEW segs \in Seq(Seg), NEW path, NEW S
  PROVE  Binds(segs, Len(segs), path, << >>, S)
<1>1. Len(segs) \in 0 .. Len(segs)
  OBVIOUS
<1>2. \A b \in Seq(Bound(S)) : b \o << >> = b
  OBVIOUS
<1> QED
  BY <1>1, <1>2, Zenon DEF Binds

LEMMA BindTyped ==
  ASSUME NEW segs \in Seq(Seg), NEW S, NEW path \in Seq(S), NEW k \in 1 .. Len(segs),
         segs[k].kind = "param" => k <= Len(path)
  PROVE  Bind(segs[k], path, k) \in Seq(Bound(S))
<1>1. segs[k] \in Seg /\ k \in Nat /\ Len(path) \in Nat
  OBVIOUS
<1>2. segs[k].kind \in {"static", "param", "catchAll"}
  BY <1>1, SegKind
<1>3. CASE segs[k].kind = "static"
  BY <1>3 DEF Bind
<1>4. CASE segs[k].kind = "param"
  <2>1. <<path[k]>> \in Seq(S)
    BY <1>1, <1>4
  <2>2. Bind(segs[k], path, k) = <<Binding(segs[k], <<path[k]>>)>>
    BY <1>4 DEF Bind
  <2> QED
    BY <1>1, <2>1, <2>2, BindingFacts
<1>5. CASE segs[k].kind = "catchAll"
  <2>1. SubSeq(path, k, Len(path)) \in Seq(S)
    BY <1>1
  <2>2. Bind(segs[k], path, k) = <<Binding(segs[k], SubSeq(path, k, Len(path)))>>
    BY <1>5 DEF Bind
  <2> QED
    BY <1>1, <2>1, <2>2, BindingFacts
<1> QED
  BY <1>2, <1>3, <1>4, <1>5

LEMMA Associates ==
  ASSUME NEW T, NEW x \in Seq(T), NEW y \in Seq(T), NEW z \in Seq(T)
  PROVE  (x \o y) \o z = x \o (y \o z)
OBVIOUS

LEMMA BindsOneMore ==
  ASSUME NEW segs \in Seq(Seg), NEW S, NEW path \in Seq(S), NEW k \in 1 .. Len(segs),
         segs[k].kind = "param" => k <= Len(path),
         NEW params \in Seq(Bound(S)), Binds(segs, k, path, params, S)
  PROVE  Binds(segs, k - 1, path, Bind(segs[k], path, k) \o params, S)
<1>1. PICK new \in Seq(Bound(S)) : new = Bind(segs[k], path, k)
  BY BindTyped
<1> SUFFICES ASSUME NEW b, Chained(b, segs, path),
                    \A i \in 0 .. Len(segs) : b[i] \in Seq(Bound(S))
             PROVE  b[k - 1] \o (new \o params) = b[Len(segs)]
  BY <1>1 DEF Binds
<1>2. k - 1 \in 0 .. Len(segs)
  OBVIOUS
<1>3. PICK x \in Seq(Bound(S)) : x = b[k - 1]
  BY <1>2
<1>4. b[k] = x \o new
  BY <1>1, <1>3 DEF Chained
<1>5. b[k] \o params = b[Len(segs)]
  BY DEF Binds
<1>6. (x \o new) \o params = x \o (new \o params)
  BY SMTT(20), Associates
<1> QED
  BY <1>3, <1>4, <1>5, <1>6

(* Only the name of a segment counts for what it captures.                 *)
LEMMA BindsByName ==
  ASSUME NEW s, NEW u, s.text = u.text, NEW value
  PROVE  Binding(s, value) = Binding(u, value)
BY DEF Binding

(* What is taken by a parameter, and by a catch-all, that have the         *)
(* template's names.                                                       *)
LEMMA BindsParam ==
  ASSUME NEW segs \in Seq(Seg), NEW S, NEW path \in Seq(S), NEW k \in 1 .. Len(segs),
         k <= Len(path), segs[k].kind = "param", NEW nd, NamedAt(nd, segs[k]),
         NEW params \in Seq(Bound(S)), Binds(segs, k, path, params, S)
  PROVE  Binds(segs, k - 1, path, <<Binding(nd.params[1], <<path[k]>>)>> \o params, S)
<1>1. nd.params[1].text = segs[k].text
  BY DEF NamedAt, EdgesFor
<1>2. Bind(segs[k], path, k) = <<Binding(segs[k], <<path[k]>>)>>
  BY DEF Bind
<1>3. Binding(nd.params[1], <<path[k]>>) = Binding(segs[k], <<path[k]>>)
  BY <1>1, BindsByName
<1>4. Binds(segs, k - 1, path, Bind(segs[k], path, k) \o params, S)
  BY BindsOneMore
<1> QED
  BY <1>2, <1>3, <1>4

LEMMA BindsStatic ==
  ASSUME NEW segs \in Seq(Seg), NEW S, NEW path \in Seq(S), NEW k \in 1 .. Len(segs),
         segs[k].kind = "static",
         NEW params \in Seq(Bound(S)), Binds(segs, k, path, params, S)
  PROVE  Binds(segs, k - 1, path, params, S)
<1>1. Bind(segs[k], path, k) = << >>
  BY DEF Bind
<1>2. << >> \o params = params
  OBVIOUS
<1>3. Binds(segs, k - 1, path, Bind(segs[k], path, k) \o params, S)
  BY BindsOneMore
<1> QED
  BY <1>1, <1>2, <1>3

LEMMA BindsCatchAll ==
  ASSUME NEW segs \in Seq(Seg), segs # << >>, NEW S, NEW path \in Seq(S),
         segs[Len(segs)].kind = "catchAll", NEW nd, NamedAt(nd, segs[Len(segs)])
  PROVE  Binds(segs, Len(segs) - 1, path,
               <<Binding(nd.catchAlls[1], SubSeq(path, Len(segs), Len(path)))>>, S)
<1> DEFINE k == Len(segs)
           rest == SubSeq(path, k, Len(path))
<1>1. k \in 1 .. Len(segs) /\ segs[k].kind # "param" /\ segs[k] \in Seg
  OBVIOUS
<1>2. nd.catchAlls[1].text = segs[k].text
  BY <1>1 DEF NamedAt, EdgesFor
<1>3. Bind(segs[k], path, k) = <<Binding(segs[k], rest)>>
  BY DEF Bind
<1>4. Binding(nd.catchAlls[1], rest) = Binding(segs[k], rest)
  BY <1>2, BindsByName
<1>5. Binds(segs, k, path, << >>, S) /\ << >> \in Seq(Bound(S))
  BY BindsAtEnd
<1>6. Binds(segs, k - 1, path, Bind(segs[k], path, k) \o << >>, S)
  BY <1>1, <1>5, BindsOneMore
<1>7. Bind(segs[k], path, k) \o << >> = Bind(segs[k], path, k)
  BY <1>1, BindTyped
<1> QED
  BY <1>3, <1>4, <1>6, <1>7
-----------------------------------------------------------------------------
(* Lookup finds the best match, and captures what it captures.             *)

(* A tree that holds the templates of some entries, under their names.     *)
Grows(t, es) ==
    /\ TreeInv(t) /\ es \in Seq(Entry) /\ TreeHas(t, es)
    /\ \A i \in DOMAIN es : Wildcards(es[i].segs) # {} => Named(t, es[i].segs)

Matched(t, es, r, n, path, S) ==
    r.ok => \E m : /\ Best(t, m, r.value, n, path)
                   /\ Binds(es[r.value].segs, Len(n), path, r.params, S)

LEMMA HeldEntry ==
  ASSUME NEW t, NEW es, Grows(t, es), NEW m, NEW v, Holds(t, m, v)
  PROVE  /\ v \in DOMAIN es /\ es[v].segs \in Templates /\ es[v].segs \in Seq(Seg)
         /\ m = Key(es[v].segs) /\ Named(t, es[v].segs)
         /\ Len(m) = Len(es[v].segs) /\ Len(m) \in Nat /\ m \in DOMAIN t
         /\ \A i \in 1 .. Len(m) : m[i] = Label(es[v].segs[i]) /\ es[v].segs[i] \in Seg
<1>1. v \in DOMAIN es /\ Wildcards(es[v].segs) # {} /\ m = Key(es[v].segs)
  BY DEF Grows, TreeHas
<1>2. es[v] \in Entry
  BY <1>1 DEF Grows
<1>3. es[v].segs \in Templates /\ es[v].segs \in Seq(Seg)
  BY <1>2 DEF Entry, Templates
<1>4. /\ Len(m) = Len(es[v].segs) /\ Len(m) \in Nat
      /\ \A i \in 1 .. Len(m) : m[i] = Label(es[v].segs[i]) /\ es[v].segs[i] \in Seg
  BY <1>1, <1>3 DEF Key
<1> QED
  BY <1>1, <1>3, <1>4 DEF Grows, Holds

LEMMA NamedBelow ==
  ASSUME NEW t, NEW es, Grows(t, es), NEW m, NEW v, Holds(t, m, v),
         NEW n \in DOMAIN t, Underneath(m, n), Len(n) < Len(m)
  PROVE  /\ Len(n) + 1 \in 1 .. Len(es[v].segs)
         /\ NamedAt(t[n], es[v].segs[Len(n) + 1])
<1> DEFINE segs == es[v].segs
           k == Len(n) + 1
<1>1. n \in Seq(Labels) /\ Len(n) \in Nat
  BY DEF Grows, TreeInv
<1>2. /\ segs \in Seq(Seg) /\ Named(t, segs) /\ Len(m) = Len(segs) /\ Len(m) \in Nat
      /\ \A i \in 1 .. Len(m) : m[i] = Label(segs[i])
  BY HeldEntry
<1>3. k \in 1 .. Len(segs) /\ k - 1 = Len(n)
  BY <1>1, <1>2
<1>4. \A i \in 1 .. Len(n) : n[i] = Label(segs[i])
  BY <1>1, <1>2 DEF Underneath
<1>5. n = Prefix(segs, Len(n))
  BY <1>1, <1>4 DEF Prefix
<1> HIDE DEF segs
<1> QED
  BY <1>2, <1>3, <1>5 DEF Named, segs

LEMMA MatchedAtEnd ==
  ASSUME NEW t, NEW es, Grows(t, es), NEW S, NEW path \in Seq(S),
         NEW n \in DOMAIN t, Len(n) = Len(path), t[n].values # << >>
  PROVE  Matched(t, es, Found(Head(t[n].values), << >>), n, path, S)
<1>1. TreeInv(t)
  BY DEF Grows
<1>2. PICK v : v = Head(t[n].values)
  OBVIOUS
<1>3. Holds(t, n, v)
  <2>1. t[n].values \in Seq(Nat)
    BY <1>1 DEF TreeInv, Node
  <2>2. 1 \in DOMAIN t[n].values /\ v = t[n].values[1]
    BY <1>2, <2>1
  <2> QED
    BY <2>2 DEF Holds, ToSet
<1>4. Best(t, n, v, n, path)
  BY <1>1, <1>3, BestAtEnd
<1>5. Binds(es[v].segs, Len(n), path, << >>, S)
  <2>1. es[v].segs \in Seq(Seg) /\ Len(n) = Len(es[v].segs)
    BY <1>3, HeldEntry
  <2> QED
    BY <2>1, BindsAtEnd
<1> QED
  BY <1>2, <1>4, <1>5, FoundFacts DEF Matched

LEMMA MatchedCaught ==
  ASSUME NEW t, NEW es, Grows(t, es), NEW S, NEW path \in Seq(S),
         NEW n \in DOMAIN t,
         \A v : Holds(t, CatchAllChild(n), v) => Best(t, CatchAllChild(n), v, n, path),
         NEW left, left = SubSeq(path, Len(n) + 1, Len(path))
  PROVE  Matched(t, es, Caught(t, n, left), n, path, S)
<1> DEFINE c == CatchAllChild(n)
<1>1. TreeInv(t) /\ n \in Seq(Labels) /\ Len(n) \in Nat
  BY DEF Grows, TreeInv
<1>2. CASE ~(c \in DOMAIN t /\ t[c].values # << >>)
  BY <1>2, NothingFacts DEF Caught, Matched
<1>3. CASE c \in DOMAIN t /\ t[c].values # << >>
  <2>1. PICK v : v = Head(t[c].values)
    OBVIOUS
  <2>2. Caught(t, n, left) = Found(v, <<Binding(t[n].catchAlls[1], left)>>)
    BY <1>3, <2>1 DEF Caught
  <2>3. Holds(t, c, v)
    <3>1. t[c].values \in Seq(Nat)
      BY <1>1, <1>3 DEF TreeInv, Node
    <3>2. 1 \in DOMAIN t[c].values /\ v = t[c].values[1]
      BY <1>3, <2>1, <3>1
    <3> QED
      BY <1>3, <3>2 DEF Holds, ToSet
  <2>4. PICK segs : segs = es[v].segs
    OBVIOUS
  <2>5. /\ segs \in Seq(Seg) /\ Len(c) = Len(segs)
        /\ \A i \in 1 .. Len(c) : c[i] = Label(segs[i]) /\ segs[i] \in Seg
    BY <2>3, <2>4, HeldEntry
  <2>6. Len(c) = Len(n) + 1 /\ c[Len(n) + 1] = CatchAllLabel /\ Underneath(c, n)
    BY <1>1 DEF CatchAllChild, Underneath
  <2>7. Len(segs) = Len(n) + 1 /\ Len(segs) - 1 = Len(n) /\ segs # << >>
    <3>1. Len(segs) = Len(n) + 1 /\ Len(<< >>) = 0
      BY <2>5, <2>6
    <3>2. segs # << >>
      BY <1>1, <3>1
    <3> QED
      BY <1>1, <3>1, <3>2
  <2>8. Label(segs[Len(segs)]) = CatchAllLabel /\ segs[Len(segs)] \in Seg
    BY <1>1, <2>5, <2>6, <2>7
  <2>9. segs[Len(segs)].kind = "catchAll"
    BY <2>8, FollowsLabel
  <2>10. NamedAt(t[n], segs[Len(segs)])
    BY <1>1, <2>3, <2>4, <2>6, <2>7, NamedBelow
  <2>11. Binds(segs, Len(n), path, <<Binding(t[n].catchAlls[1], left)>>, S)
    BY <2>5, <2>7, <2>9, <2>10, BindsCatchAll
  <2>12. Best(t, c, v, n, path)
    BY <2>3
  <2> QED
    BY <2>2, <2>4, <2>11, <2>12, FoundFacts DEF Matched
<1> QED
  BY <1>2, <1>3

(* Through a static child, and through a parameter.                        *)
LEMMA MatchedBelow ==
  ASSUME NEW t, NEW es, Grows(t, es), NEW S, NEW path \in Seq(S),
         NEW n \in DOMAIN t, Len(n) < Len(path),
         NEW l, Follows(l, path[Len(n) + 1]), Append(n, l) \in DOMAIN t,
         \A d : Follows(d, path[Len(n) + 1]) /\ Append(n, d) \in DOMAIN t /\ d # l =>
                  LabelRank(l) > LabelRank(d) \/ \A x : ~Given(t, Append(n, d), path, x),
         NEW r \in Results(S), Matched(t, es, r, Append(n, l), path, S)
  PROVE  /\ l # ParamLabel => Matched(t, es, r, n, path, S)
         /\ l = ParamLabel => Matched(t, es, Through(t, n, path[Len(n) + 1], r), n, path, S)
<1> DEFINE k == Len(n) + 1
<1>1. TreeInv(t) /\ n \in Seq(Labels) /\ Len(n) \in Nat /\ k - 1 = Len(n) /\ Len(path) \in Nat
  BY DEF Grows, TreeInv
<1>2. Len(Append(n, l)) = k
  BY <1>1, ChildNamed
<1>3. PICK new : new = Through(t, n, path[k], r)
  OBVIOUS
<1>4. /\ new.ok = r.ok /\ new.value = r.value
      /\ new.params = <<Binding(t[n].params[1], <<path[k]>>)>> \o r.params
  BY <1>3 DEF Through, Results
<1> SUFFICES ASSUME r.ok
             PROVE  \E m : /\ Best(t, m, r.value, n, path)
                           /\ l # ParamLabel => Binds(es[r.value].segs, Len(n), path, r.params, S)
                           /\ l = ParamLabel => Binds(es[r.value].segs, Len(n), path, new.params, S)
  BY <1>3, <1>4 DEF Matched
<1>5. PICK m : /\ Best(t, m, r.value, Append(n, l), path)
               /\ Binds(es[r.value].segs, k, path, r.params, S)
  BY <1>2 DEF Matched
<1>6. Best(t, m, r.value, n, path)
  BY <1>1, <1>5, BestBelow
<1>7. Holds(t, m, r.value) /\ Underneath(m, Append(n, l)) /\ m \in DOMAIN t
  BY <1>1, <1>5, HoldsNode DEF Best, FitsBelow
<1>8. Len(n) < Len(m) /\ Underneath(m, n) /\ m[k] = l
  BY <1>1, <1>7, BelowChild
<1>9. PICK segs : segs = es[r.value].segs
  OBVIOUS
<1>10. k \in 1 .. Len(segs) /\ NamedAt(t[n], segs[k])
  BY <1>7, <1>8, <1>9, NamedBelow
<1>11. segs \in Seq(Seg) /\ Label(segs[k]) = l /\ segs[k] \in Seg
  BY <1>7, <1>8, <1>9, <1>10, HeldEntry
<1>12. r.params \in Seq(Bound(S))
  BY DEF Results
<1>13. segs[k].kind \in {"static", "param", "catchAll"}
  BY <1>11, SegKind
<1>14. l # CatchAllLabel
  BY FollowsLabel, ParamLabelKind, <1>11
<1>15. segs[k].kind # "catchAll"
  BY <1>11, <1>14, FollowsLabel
<1>16. ASSUME l # ParamLabel
       PROVE  Binds(segs, Len(n), path, r.params, S)
  <2>1. segs[k].kind # "param"
    BY <1>11, <1>16, ParamFacts DEF Params
  <2>2. segs[k].kind = "static"
    BY <1>13, <1>15, <2>1
  <2> QED
    BY <1>1, <1>5, <1>9, <1>10, <1>11, <1>12, <2>2, BindsStatic
<1>17. ASSUME l = ParamLabel
       PROVE  Binds(segs, Len(n), path, new.params, S)
  <2>1. segs[k].kind # "static"
    <3>1. \A s : s.kind = "static" => Label(s)[1] = "static"
      BY DEF Label
    <3> QED
      BY <1>11, <1>17, <3>1, ParamLabelKind
  <2>2. segs[k].kind = "param" /\ k <= Len(path)
    BY <1>1, <1>13, <1>15, <2>1
  <2> QED
    BY <1>1, <1>4, <1>5, <1>9, <1>10, <1>11, <1>12, <2>2, BindsParam
<1> QED
  BY <1>6, <1>9, <1>16, <1>17
LEMMA LookupMatches ==
  ASSUME NEW t, NEW es, Grows(t, es), NEW S, NEW path \in Seq(S), NEW f, LookedUp(t, path, f),
         \A j \in 0 .. Len(path) : f[j] \in [DOMAIN t -> Results(S)]
  PROVE  \A j \in 0 .. Len(path), n \in DOMAIN t :
           Len(n) = Len(path) - j => Matched(t, es, f[j][n], n, path, S)
<1> DEFINE L == Len(path)
           Right(j) == \A n \in DOMAIN t : Len(n) = L - j => Matched(t, es, f[j][n], n, path, S)
           T == {j \in 0 .. L : Right(j)}
<1>1. L \in Nat /\ TreeInv(t)
  BY DEF Grows
<1>2. 0 \in T
  <2>1. ASSUME NEW n \in DOMAIN t, Len(n) = L
        PROVE  Matched(t, es, f[0][n], n, path, S)
    <3>1. 0 \in 0 .. L /\ Ending(path, 0) = << >>
      BY <1>1, EndingFacts
    <3>2. f[0][n] = LookupFrom(t, n, << >>, f[0 - 1])
      BY <3>1 DEF LookedUp
    <3>3. f[0][n] = IF t[n].values # << >> THEN Found(Head(t[n].values), << >>)
                    ELSE Caught(t, n, << >>)
      BY <1>1, <3>2, LookedUpAtEnd
    <3>4. CASE t[n].values # << >>
      BY <2>1, <3>3, <3>4, MatchedAtEnd
    <3>5. CASE t[n].values = << >>
      <4>1. \A x : ~Holds(t, n, x)
        BY <3>5 DEF Holds, ToSet
      <4>2. \A v : Holds(t, CatchAllChild(n), v) => Best(t, CatchAllChild(n), v, n, path)
        BY <1>1, <2>1, <4>1, BestCaughtAtEnd
      <4>3. << >> = SubSeq(path, Len(n) + 1, Len(path))
        BY <1>1, <2>1
      <4> QED
        BY <3>3, <3>5, <4>2, <4>3, MatchedCaught
    <3> QED
      BY <3>4, <3>5
  <2>2. L - 0 = L /\ 0 \in 0 .. L
    BY <1>1
  <2> HIDE DEF L
  <2> QED
    BY <2>1, <2>2
<1>3. ASSUME NEW k \in Nat, k < L, k \in T
      PROVE  k + 1 \in T
  <2> DEFINE j == k + 1
             left == Ending(path, j)
  <2>1. j \in 1 .. L /\ j \in 0 .. L /\ k \in 0 .. L /\ j - 1 = k
    BY <1>1, <1>3
  <2>2. left # << >> /\ left \in Seq(S) /\ Head(left) = path[L - j + 1]
    BY <2>1, EndingFacts
  <2>3. left = SubSeq(path, L - j + 1, L)
    BY DEF Ending
  <2> HIDE DEF left
  <2>4. ASSUME NEW n \in DOMAIN t, Len(n) = L - j
        PROVE  Matched(t, es, f[j][n], n, path, S)
    <3> DEFINE seg == path[Len(n) + 1]
               deeper == f[k]
               s == StaticChild(n, seg)
               p == ParamChild(n)
               lit == <<"static", seg>>
    <3>1. Len(n) < L /\ L - j + 1 = Len(n) + 1 /\ Head(left) = seg
      BY <1>1, <2>1, <2>2, <2>4
    <3>2. ASSUME NEW l, Append(n, l) \in DOMAIN t
          PROVE  /\ Matched(t, es, deeper[Append(n, l)], Append(n, l), path, S)
                 /\ deeper[Append(n, l)].ok <=> \E v : Given(t, Append(n, l), path, v)
                 /\ deeper[Append(n, l)] \in Results(S)
      <4>1. Len(Append(n, l)) = Len(n) + 1
        BY <1>1, <3>2, ChildNamed
      <4>2. Len(Append(n, l)) = L - k
        BY <1>1, <2>1, <2>4, <4>1
      <4>3. Right(k)
        BY <1>3
      <4>4. deeper[Append(n, l)].ok <=> \E v : Given(t, Append(n, l), path, v)
        BY <1>1, <2>1, <3>2, <4>2, LookupAgrees
      <4>5. deeper \in [DOMAIN t -> Results(S)]
        BY <2>1
      <4> QED
        BY <3>2, <4>2, <4>3, <4>4, <4>5
    <3>3. deeper \in [DOMAIN t -> Results(S)]
      BY <2>1
    <3>4. f[j][n] = LookupFrom(t, n, left, deeper)
      BY <2>1 DEF LookedUp, left
    <3>5. PICK r : r = f[j][n]
      OBVIOUS
    <3>6. LabelRank(lit) = 5 /\ LabelRank(ParamLabel) = 3 /\ lit # ParamLabel
      BY LabelRanks
    <3>7. \A d : Follows(d, seg) <=> d = lit \/ (d = ParamLabel /\ Filled(seg))
      BY DEF Follows
    <3> HIDE DEF seg, deeper, j, lit
    <3>8. r = IF Leads(t, s, deeper) THEN deeper[s]
              ELSE IF Filled(seg) /\ Leads(t, p, deeper) THEN Through(t, n, seg, deeper[p])
              ELSE Caught(t, n, left)
      BY <1>1, <2>2, <3>1, <3>3, <3>4, <3>5, LookedUpBefore
    <3>9. s = Append(n, lit) /\ p = Append(n, ParamLabel)
      BY DEF StaticChild, ParamChild, lit
    <3> HIDE DEF s, p
    <3>10. CASE Leads(t, s, deeper)
      <4>1. s \in DOMAIN t
        BY <3>10 DEF Leads
      <4>2. \A d : Follows(d, seg) /\ d # lit => LabelRank(lit) > LabelRank(d)
        BY <3>6, <3>7
      <4>3. Follows(lit, seg)
        BY <3>7
      <4>4. Matched(t, es, deeper[s], n, path, S)
        BY <3>1, <3>2, <3>6, <3>9, <4>1, <4>2, <4>3, MatchedBelow DEF seg
      <4> QED
        BY <3>5, <3>8, <3>10, <4>4
    <3>11. CASE ~Leads(t, s, deeper) /\ Filled(seg) /\ Leads(t, p, deeper)
      <4>1. p \in DOMAIN t
        BY <3>11 DEF Leads
      <4>2. \A d : Follows(d, seg) /\ Append(n, d) \in DOMAIN t /\ d # ParamLabel =>
              \A x : ~Given(t, Append(n, d), path, x)
        BY <3>2, <3>7, <3>9, <3>11 DEF Leads
      <4>3. Follows(ParamLabel, seg)
        BY <3>7, <3>11
      <4>4. Matched(t, es, Through(t, n, seg, deeper[p]), n, path, S)
        BY <3>1, <3>2, <3>9, <4>1, <4>2, <4>3, MatchedBelow DEF seg
      <4> QED
        BY <3>5, <3>8, <3>11, <4>4
    <3>12. CASE ~Leads(t, s, deeper) /\ ~(Filled(seg) /\ Leads(t, p, deeper))
      <4>1. \A d : Follows(d, seg) /\ Append(n, d) \in DOMAIN t =>
              \A x : ~Given(t, Append(n, d), path, x)
        BY <3>2, <3>7, <3>9, <3>12 DEF Leads
      <4>2. \A v : Holds(t, CatchAllChild(n), v) => Best(t, CatchAllChild(n), v, n, path)
        BY <1>1, <3>1, <4>1, BestCaught DEF seg
      <4>3. left = SubSeq(path, Len(n) + 1, Len(path))
        BY <2>3, <3>1
      <4> QED
        BY <3>5, <3>8, <3>12, <4>2, <4>3, MatchedCaught
    <3> QED
      BY <3>10, <3>11, <3>12
  <2>5. Right(j)
    BY <2>4
  <2> QED
    BY <2>1, <2>5
<1>4. \A j \in 0 .. L : j \in T
  <2> HIDE DEF T, L
  <2> QED
    BY <1>1, <1>2, <1>3, UpTo
<1> QED
  BY <1>4

LEMMA LookupIsBest ==
  ASSUME NEW t, NEW es, Grows(t, es), NEW S, NEW path \in Seq(S)
  PROVE  Matched(t, es, Lookup(t, path), << >>, path, S)
<1>1. TreeInv(t)
  BY DEF Grows
<1>2. PICK f : /\ LookedUp(t, path, f) /\ Lookup(t, path) = f[Len(path)][<< >>]
               /\ \A j \in 0 .. Len(path) : f[j] \in [DOMAIN t -> Results(S)]
  BY <1>1, LookupRuns
<1>3. << >> \in DOMAIN t /\ Len(<< >>) = 0 /\ Len(path) \in Nat
  BY <1>1 DEF TreeInv
<1>4. Len(path) \in 0 .. Len(path) /\ Len(<< >>) = Len(path) - Len(path)
  BY <1>3
<1> QED
  BY <1>2, <1>3, <1>4, LookupMatches

-----------------------------------------------------------------------------
(* Insert names what it adds, and renames nothing *)

KeepsNames(t, u) ==
    /\ DOMAIN t \subseteq DOMAIN u
    /\ \A n \in DOMAIN t, s \in Seg : NamedAt(t[n], s) => NamedAt(u[n], s)

LEMMA StillNamed ==
  ASSUME NEW t, NEW u, KeepsNames(t, u), NEW segs \in Seq(Seg), Named(t, segs)
  PROVE  Named(u, segs)
<1>1. \A k \in 1 .. Len(segs) : segs[k] \in Seg
  OBVIOUS
<1> QED
  BY <1>1 DEF KeepsNames, Named

(* The edges of a node all have one type, so the first is the only one.    *)
LEMMA EdgeNamed ==
  ASSUME NEW edges, NEW s \in Seg,
         s.kind = "param" => edges \in Seq(Params),
         s.kind = "catchAll" => edges \in Seq(CatchAlls),
         s.kind # "static", ~Clashes(edges, s)
  PROVE  /\ WithEdge(edges, s) # << >> /\ WithEdge(edges, s)[1].text = s.text
         /\ edges # << >> => WithEdge(edges, s) = edges
<1>1. s.kind \in {"param", "catchAll"}
  BY SegKind
<1>2. PICK K : edges \in Seq(K) /\ s \in K /\ \A u \in K : u.type = s.type /\ ~Checked(u)
  <2>1. CASE s.kind = "param"
    <3>1. s \in Params /\ \A u \in Params : u.type = s.type /\ ~Checked(u)
      <4>1. s \in Params
        BY <2>1 DEF Params
      <4> QED
        BY <4>1, ParamFacts
    <3> QED
      BY <2>1, <3>1
  <2>2. CASE s.kind = "catchAll"
    <3>1. s \in CatchAlls /\ \A u \in CatchAlls : u.type = s.type /\ ~Checked(u)
      <4>1. s \in CatchAlls
        BY <2>2 DEF CatchAlls
      <4> QED
        BY <4>1, CatchAllFacts
    <3> QED
      BY <2>2, <3>1
  <2> QED
    BY <1>1, <2>1, <2>2
<1>3. CASE edges = << >>
  <2>1. ~Known(edges, s)
    BY <1>3 DEF Known
  <2>2. ~Checked(s)
    BY <1>2
  <2>3. WithEdge(edges, s) = Append(edges, s)
    BY <2>1, <2>2 DEF WithEdge
  <2>4. Append(edges, s) # << >> /\ Append(edges, s)[1] = s
    BY <1>3
  <2> QED
    BY <1>3, <2>3, <2>4
<1>4. CASE edges # << >>
  <2>1. 1 \in DOMAIN edges /\ edges[1] \in K
    BY <1>2, <1>4
  <2>2. Known(edges, s)
    BY <1>2, <2>1 DEF Known
  <2>3. WithEdge(edges, s) = edges
    BY <2>2 DEF WithEdge
  <2>4. edges[1].text = s.text
    BY <1>2, <2>1 DEF Clashes
  <2> QED
    BY <1>4, <2>3, <2>4
<1> QED
  BY <1>3, <1>4

LEMMA NodeNamed ==
  ASSUME NEW nd \in Node, NEW s \in Seg, s.kind # "static" => ~Clashes(EdgesFor(nd, s), s)
  PROVE  /\ NamedAt(LinkedNode(nd, s), s)
         /\ \A u \in Seg : NamedAt(nd, u) => NamedAt(LinkedNode(nd, s), u)
<1>1. nd.params \in Seq(Params) /\ nd.catchAlls \in Seq(CatchAlls)
  BY DEF Node
<1>2. s.kind \in {"static", "param", "catchAll"}
  BY SegKind
<1> DEFINE new == LinkedNode(nd, s)
<1>3. CASE s.kind = "static"
  BY <1>3 DEF LinkedNode, NamedAt
<1>4. CASE s.kind = "param"
  <2>1. ~Clashes(nd.params, s)
    BY <1>4 DEF EdgesFor
  <2>2. /\ WithEdge(nd.params, s) # << >> /\ WithEdge(nd.params, s)[1].text = s.text
        /\ nd.params # << >> => WithEdge(nd.params, s) = nd.params
    BY <1>1, <1>4, <2>1, EdgeNamed
  <2>3. new.params = WithEdge(nd.params, s) /\ new.catchAlls = nd.catchAlls
    BY <1>4 DEF LinkedNode, Node
  <2> HIDE DEF new
  <2> QED
    BY <1>4, <2>2, <2>3 DEF NamedAt, EdgesFor, new
<1>5. CASE s.kind = "catchAll"
  <2>1. ~Clashes(nd.catchAlls, s)
    BY <1>5 DEF EdgesFor
  <2>2. /\ WithEdge(nd.catchAlls, s) # << >> /\ WithEdge(nd.catchAlls, s)[1].text = s.text
        /\ nd.catchAlls # << >> => WithEdge(nd.catchAlls, s) = nd.catchAlls
    BY <1>1, <1>5, <2>1, EdgeNamed
  <2>3. new.catchAlls = WithEdge(nd.catchAlls, s) /\ new.params = nd.params
    BY <1>5 DEF LinkedNode, Node
  <2> HIDE DEF new
  <2> QED
    BY <1>5, <2>2, <2>3 DEF NamedAt, EdgesFor, new
<1> QED
  BY <1>2, <1>3, <1>4, <1>5

LEMMA GrownNamed ==
  ASSUME NEW t, TreeInv(t), NEW at \in DOMAIN t, NEW s \in Seg,
         s.kind # "static" => ~Clashes(EdgesFor(t[at], s), s)
  PROVE  KeepsNames(t, Grown(t, at, s)) /\ NamedAt(Grown(t, at, s)[at], s)
<1> DEFINE nd == LinkedNode(t[at], s)
           g == Grown(t, at, s)
           n == Append(at, Label(s))
<1>1. t \in [DOMAIN t -> Node] /\ t[at] \in Node
  BY DEF TreeInv
<1>2. NamedAt(nd, s) /\ \A u \in Seg : NamedAt(t[at], u) => NamedAt(nd, u)
  BY <1>1, NodeNamed
<1> HIDE DEF nd
<1>3. Linked(t, at, s) = [t EXCEPT ![at] = nd]
  BY DEF Linked, nd
<1>4. /\ DOMAIN t \subseteq DOMAIN g /\ g[at] = nd
      /\ \A m \in DOMAIN t : m # at => g[m] = t[m]
  <2>1. DOMAIN Linked(t, at, s) = DOMAIN t
    BY <1>3
  <2>2. CASE n \in DOMAIN t
    <3>1. g = [t EXCEPT ![at] = nd]
      BY <1>3, <2>1, <2>2 DEF Grown, WithNode
    <3> QED
      BY <3>1, <1>1
  <2>3. CASE n \notin DOMAIN t
    <3>1. g = With([t EXCEPT ![at] = nd], n, EmptyNode)
      BY <1>3, <2>1, <2>3 DEF Grown, WithNode
    <3>2. g = [x \in DOMAIN t \cup {n} |-> IF x = n THEN EmptyNode ELSE [t EXCEPT ![at] = nd][x]]
      BY <3>1 DEF With
    <3> HIDE DEF g, n
    <3> QED
      BY <1>1, <2>3, <3>2
  <2> QED
    BY <2>2, <2>3
<1> HIDE DEF g
<1> QED
  BY <1>2, <1>4 DEF KeepsNames, g

(* A step that goes on does not clash.                                     *)
LEMMA DescendedNamed ==
  ASSUME NEW t, NEW w, WalkInv(t, w), NEW s \in Seg, Descend(w, s).ok
  PROVE  /\ w.ok /\ Descend(w, s).at = Append(w.at, Label(s))
         /\ KeepsNames(w.tree, Descend(w, s).tree)
         /\ NamedAt(Descend(w, s).tree[w.at], s)
<1> DEFINE edges == IF s.kind = "param" THEN w.tree[w.at].params ELSE w.tree[w.at].catchAlls
           n == Append(w.at, Label(s))
<1>1. w \in Walks /\ TreeInv(w.tree) /\ w.at \in DOMAIN w.tree
  BY DEF WalkInv
<1>2. s.kind # "static" => ~Clashes(edges, s)
  <2> SUFFICES ASSUME s.kind # "static", Clashes(edges, s)
               PROVE  FALSE
    OBVIOUS
  <2>1. CASE ~w.ok
    <3>1. Descend(w, s) = w
      BY <2>1 DEF Descend
    <3> QED
      BY <2>1, <3>1
  <2>2. CASE w.ok
    <3>1. Descend(w, s) = [w EXCEPT !.ok = FALSE]
      BY <2>2, Zenon DEF Descend
    <3>2. \A x : [w EXCEPT !.ok = x] = [tree |-> w.tree, at |-> w.at, ok |-> x]
      <4>1. w \in [tree : Trees, at : Seq(Labels), ok : BOOLEAN]
        BY <1>1 DEF Walks
      <4> QED
        BY <4>1, OtherVerdict
    <3> HIDE DEF edges
    <3>3. Descend(w, s).ok = FALSE
      BY <3>1, <3>2
    <3> QED
      BY <3>3
  <2> QED
    BY <2>1, <2>2
<1>3. edges = EdgesFor(w.tree[w.at], s)
  BY DEF EdgesFor
<1> HIDE DEF edges
<1>4. /\ w.ok
      /\ Descend(w, s) = [tree |-> Grown(w.tree, w.at, s), at |-> n, ok |-> TRUE]
  BY <1>1, DescendCases
<1>5. KeepsNames(w.tree, Grown(w.tree, w.at, s)) /\ NamedAt(Grown(w.tree, w.at, s)[w.at], s)
  BY <1>1, <1>2, <1>3, GrownNamed
<1> QED
  BY <1>4, <1>5

(* The walk has named every segment it has passed.                         *)
NamedTo(u, segs, k) ==
    \A i \in 1 .. k : /\ Prefix(segs, i - 1) \in DOMAIN u
                      /\ NamedAt(u[Prefix(segs, i - 1)], segs[i])

LEMMA WalkNames ==
  ASSUME NEW t, TreeInv(t), NEW segs \in Seq(Seg)
  PROVE  LET w == FoldLeft(Descend, Before(t), segs)
         IN w.ok => KeepsNames(t, w.tree) /\ Named(w.tree, segs)
<1> DEFINE n == Len(segs)
<1>1. PICK f : /\ f[0] = Before(t)
               /\ \A i \in 1 .. n : f[i] = Descend(f[i - 1], segs[i])
               /\ \A i \in 0 .. n : WalkInv(t, f[i])
               /\ FoldLeft(Descend, Before(t), segs) = f[n]
  BY DescendRuns
<1>2. n \in Nat /\ \A i \in 1 .. n : segs[i] \in Seg
  OBVIOUS
<1> DEFINE Right(k) == f[k].ok => /\ f[k].at = Prefix(segs, k)
                                  /\ KeepsNames(t, f[k].tree) /\ NamedTo(f[k].tree, segs, k)
           T == {k \in Nat : Right(k)}
<1>3. 0 \in T
  <2>1. f[0].at = << >> /\ f[0].tree = t
    BY <1>1 DEF Before
  <2>2. Prefix(segs, 0) = << >>
    BY DEF Prefix
  <2>3. KeepsNames(t, t) /\ NamedTo(t, segs, 0)
    BY DEF KeepsNames, NamedTo
  <2> QED
    BY <2>1, <2>2, <2>3
<1>4. ASSUME NEW k \in Nat, k < n, k \in T
      PROVE  k + 1 \in T
  <2>1. k + 1 \in 1 .. n /\ k + 1 - 1 = k /\ k \in 0 .. n
    BY <1>2, <1>4
  <2>2. PICK s \in Seg : s = segs[k + 1]
    BY <1>2, <2>1
  <2>3. f[k + 1] = Descend(f[k], s) /\ WalkInv(t, f[k])
    BY <1>1, <2>1, <2>2
  <2>4. ASSUME f[k + 1].ok
        PROVE  /\ f[k + 1].at = Prefix(segs, k + 1)
               /\ KeepsNames(t, f[k + 1].tree) /\ NamedTo(f[k + 1].tree, segs, k + 1)
    <3>1. PICK u : u = f[k].tree
      OBVIOUS
    <3>2. PICK v : v = f[k + 1].tree
      OBVIOUS
    <3>3. /\ f[k].ok /\ f[k + 1].at = Append(f[k].at, Label(s))
          /\ KeepsNames(u, v) /\ NamedAt(v[f[k].at], s) /\ f[k].at \in DOMAIN u
      BY <2>3, <2>4, <3>1, <3>2, DescendedNamed DEF WalkInv
    <3>4. f[k].at = Prefix(segs, k) /\ KeepsNames(t, u) /\ NamedTo(u, segs, k)
      BY <1>4, <3>1, <3>3
    <3>5. Append(Prefix(segs, k), Label(s)) = Prefix(segs, k + 1)
      BY <1>4, <2>2, KeyGrows DEF Prefix
    <3>6. KeepsNames(t, v)
      BY <3>3, <3>4 DEF KeepsNames
    <3>7. NamedTo(v, segs, k + 1)
      <4> SUFFICES ASSUME NEW i \in 1 .. k + 1
                   PROVE  /\ Prefix(segs, i - 1) \in DOMAIN v
                          /\ NamedAt(v[Prefix(segs, i - 1)], segs[i])
        BY DEF NamedTo
      <4>1. CASE i = k + 1
        BY <2>1, <2>2, <3>3, <3>4, <4>1 DEF KeepsNames
      <4>2. CASE i # k + 1
        <5>1. i \in 1 .. k /\ segs[i] \in Seg
          BY <1>2, <2>1, <4>2
        <5>2. Prefix(segs, i - 1) \in DOMAIN u /\ NamedAt(u[Prefix(segs, i - 1)], segs[i])
          BY <3>4, <5>1 DEF NamedTo
        <5> QED
          BY <3>3, <5>1, <5>2 DEF KeepsNames
      <4> QED
        BY <4>1, <4>2
    <3> QED
      BY <3>2, <3>3, <3>4, <3>5, <3>6, <3>7
  <2> HIDE DEF n
  <2> QED
    BY <2>4
<1>5. \A k \in 0 .. n : k \in T
  <2> HIDE DEF T, n
  <2> QED
    BY <1>2, <1>3, <1>4, UpTo
<1>6. n \in T
  BY <1>2, <1>5
<1> QED
  BY <1>1, <1>6 DEF NamedTo, Named

LEMMA InsertNames ==
  ASSUME NEW t, TreeInv(t), NEW segs \in Seq(Seg), NEW v \in Nat, Insert(t, segs, v).ok
  PROVE  KeepsNames(t, Insert(t, segs, v).tree) /\ Named(Insert(t, segs, v).tree, segs)
<1> DEFINE w == FoldLeft(Descend, Before(t), segs)
<1>1. WalkInv(t, w)
  BY DescendFold
<1>2. w.ok => KeepsNames(t, w.tree) /\ Named(w.tree, segs)
  BY WalkNames
<1>3. Insert(t, segs, v) = IF w.ok THEN [ok |-> TRUE, tree |-> Valued(w.tree, w.at, v)]
                                   ELSE [ok |-> FALSE, tree |-> w.tree]
  BY InsertIs, Zenon
<1> HIDE DEF w
<1>4. PICK u : u = w.tree
  OBVIOUS
<1>5. PICK n : n = w.at
  OBVIOUS
<1>6. w.ok /\ Insert(t, segs, v).tree = Valued(u, n, v)
  BY <1>3, <1>4, <1>5
<1>7. /\ KeepsNames(t, u) /\ Named(u, segs) /\ n \in DOMAIN u /\ u \in [DOMAIN u -> Node]
  BY <1>1, <1>2, <1>4, <1>5, <1>6 DEF WalkInv, TreeInv
<1>8. KeepsNames(u, Valued(u, n, v))
  <2> DEFINE nd == [u[n] EXCEPT !.values = Append(@, v)]
  <2>1. Valued(u, n, v) = [u EXCEPT ![n] = nd]
    BY <1>7 DEF Valued
  <2>2. u[n] \in Node
    BY <1>7
  <2>3. nd.params = u[n].params /\ nd.catchAlls = u[n].catchAlls
    BY <2>2, NodeValued
  <2> HIDE DEF nd
  <2>4. \A s : NamedAt(u[n], s) => NamedAt(nd, s)
    BY <2>3 DEF NamedAt, EdgesFor
  <2>5. \A m \in DOMAIN u : m # n => Valued(u, n, v)[m] = u[m]
    BY <2>1
  <2>6. Valued(u, n, v)[n] = nd /\ DOMAIN Valued(u, n, v) = DOMAIN u
    BY <1>7, <2>1
  <2> QED
    BY <2>4, <2>5, <2>6 DEF KeepsNames
<1>9. KeepsNames(t, Valued(u, n, v))
  BY <1>7, <1>8 DEF KeepsNames
<1>10. Named(Valued(u, n, v), segs)
  BY <1>7, <1>8, StillNamed
<1> QED
  BY <1>6, <1>9, <1>10

-----------------------------------------------------------------------------
(* Entries, in the order and with the urgency of their routes *)

(* The wildcards of two templates of one key that are named alike make     *)
(* them one.                                                               *)
LEMMA SameTemplate ==
  ASSUME NEW x \in Seq(Seg), NEW y \in Seq(Seg)
  PROVE  /\ SamePattern(x, y) <=> Key(x) = Key(y)
         /\ Key(x) = Key(y) /\ SameNames(x, y) => x = y
<1>1. /\ DOMAIN Key(x) = 1 .. Len(x) /\ DOMAIN Key(y) = 1 .. Len(y)
      /\ Len(x) \in Nat /\ Len(y) \in Nat
  BY DEF Key
<1>2. \A i \in 1 .. Len(x) : x[i] \in Seg /\ Key(x)[i] = Label(x[i])
  BY DEF Key
<1>3. \A i \in 1 .. Len(y) : y[i] \in Seg /\ Key(y)[i] = Label(y[i])
  BY DEF Key
<1>4. \A s, u \in Seg :
        Label(s) = Label(u) <=> /\ s.kind = u.kind /\ s.type = u.type
                                /\ s.kind = "static" => s.text = u.text
  <2> SUFFICES ASSUME NEW s \in Seg, NEW u \in Seg
               PROVE  Label(s) = Label(u) <=> /\ s.kind = u.kind /\ s.type = u.type
                                              /\ s.kind = "static" => s.text = u.text
    OBVIOUS
  <2>1. CASE s.kind # "static"
    BY <2>1, SameLabel
  <2>2. CASE s.kind = "static" /\ u.kind # "static"
    <3>1. Label(u) = Label(s) => s.kind = u.kind
      BY <2>2, SameLabel
    <3> QED
      BY <2>2, <3>1
  <2>3. CASE s.kind = "static" /\ u.kind = "static"
    <3>1. Label(s) = <<"static", s.text>> /\ Label(u) = <<"static", u.text>>
      BY <2>3 DEF Label
    <3>2. s.type = u.type
      <4>1. \A e : (s.kind = "static" /\ u.kind = "static" /\ s \in [kind : {"static", "param"}, text : STRING, type : {e}]
                 \cup [kind : {"catchAll"}, text : STRING, type : {"..."}]
              /\ u \in [kind : {"static", "param"}, text : STRING, type : {e}]
                 \cup [kind : {"catchAll"}, text : STRING, type : {"..."}]) => s.type = u.type
        OBVIOUS
      <4> QED
        BY <2>3, <4>1, Zenon DEF Seg
    <3> QED
      BY <2>3, <3>1, <3>2
  <2> QED
    BY <2>1, <2>2, <2>3
<1>5. SamePattern(x, y) <=> Key(x) = Key(y)
  <2>1. ASSUME SamePattern(x, y)
        PROVE  Key(x) = Key(y)
    <3>1. Len(x) = Len(y) /\ \A i \in 1 .. Len(x) : Label(x[i]) = Label(y[i])
      BY <1>1, <1>2, <1>3, <1>4, <2>1 DEF SamePattern
    <3> QED
      BY <3>1 DEF Key
  <2>2. ASSUME Key(x) = Key(y)
        PROVE  SamePattern(x, y)
    <3>1. Len(x) = Len(y)
      BY <1>1, <2>2
    <3>2. \A i \in 1 .. Len(x) : Label(x[i]) = Label(y[i])
      BY <1>2, <1>3, <2>2, <3>1
    <3> QED
      BY <1>1, <1>2, <1>3, <1>4, <3>1, <3>2 DEF SamePattern
  <2> QED
    BY <2>1, <2>2
<1>6. ASSUME SamePattern(x, y), SameNames(x, y)
      PROVE  x = y
  <2>1. \A s, u \in Seg : s.kind = u.kind /\ s.type = u.type /\ s.text = u.text => s = u
    <3>1. \A e : \A s, u \in [kind : {"static", "param"}, text : STRING, type : {e}]
                 \cup [kind : {"catchAll"}, text : STRING, type : {"..."}] :
            s.kind = u.kind /\ s.type = u.type /\ s.text = u.text => s = u
      OBVIOUS
    <3> QED
      BY <3>1, Zenon DEF Seg
  <2>2. \A i \in 1 .. Len(x) : x[i].text = y[i].text
    BY <1>1, <1>6 DEF SamePattern, SameNames, Wildcards
  <2>3. Len(x) = Len(y) /\ \A i \in 1 .. Len(x) : x[i] = y[i]
    BY <1>2, <1>3, <1>6, <2>1, <2>2 DEF SamePattern
  <2> QED
    BY <2>3
<1> QED
  BY <1>5, <1>6

(* An entry's template is that of all its routes, names included; its      *)
(* priority is their lowest; and the entries are in the order of their     *)
(* first routes.                                                           *)
InOrder(es, rs) ==
    /\ \A i \in DOMAIN es, r \in DOMAIN rs : Key(rs[r].segs) = Key(es[i].segs) =>
         rs[r].segs = es[i].segs /\ es[i].priority <= rs[r].priority
    /\ \A i \in DOMAIN es : \E r \in DOMAIN rs :
         Key(rs[r].segs) = Key(es[i].segs) /\ rs[r].priority = es[i].priority
    /\ \A i, j \in DOMAIN es : i < j =>
         \A s \in DOMAIN rs : Key(rs[s].segs) = Key(es[j].segs) =>
           \E r \in DOMAIN rs : r < s /\ Key(rs[r].segs) = Key(es[i].segs)

LEMMA RouteInOrder ==
  ASSUME NEW es, NEW rs, EntriesInv(es, rs), OneEach(es), InOrder(es, rs),
         NEW call \in AcceptedCalls, NEW i \in DOMAIN es, es[i].segs = call.segs,
         NEW new \in Entry, new.segs = es[i].segs, call.priority \in Int,
         new.priority = IF call.priority < es[i].priority THEN call.priority ELSE es[i].priority
  PROVE  InOrder([es EXCEPT ![i] = new], Append(rs, call))
<1> DEFINE es2 == [es EXCEPT ![i] = new]
           more == Append(rs, call)
           n == Len(rs) + 1
<1>1. es \in Seq(Entry) /\ rs \in Seq(AcceptedCalls)
  BY DEF EntriesInv
<1>2. /\ DOMAIN more = DOMAIN rs \cup {n} /\ more[n] = call
      /\ \A r \in DOMAIN rs : more[r] = rs[r]
      /\ n \in Nat /\ \A r \in DOMAIN rs : r \in Nat /\ r < n
  BY <1>1, OneMore
<1>3. /\ DOMAIN es2 = DOMAIN es /\ es2[i] = new
      /\ \A j \in DOMAIN es : j # i => es2[j] = es[j]
      /\ \A j \in DOMAIN es : es2[j].segs = es[j].segs
      /\ \A j \in DOMAIN es : es[j].priority \in Int
  <2>1. \A e \in Entry : e.priority \in Int
    BY DEF Entry
  <2> QED
    BY <1>1, <2>1
<1>4. \A r \in DOMAIN rs : rs[r].priority \in Int
  BY <1>1, CallsAssumption DEF AcceptedCalls, Registration
<1> HIDE DEF es2, more, n
<1>5. \A j \in DOMAIN es : Key(es[j].segs) = Key(call.segs) => j = i
  BY DEF OneEach
<1>6. new.priority <= es[i].priority /\ new.priority <= call.priority
  BY <1>3
<1>7. ASSUME NEW j \in DOMAIN es2, NEW r \in DOMAIN more, Key(more[r].segs) = Key(es2[j].segs)
      PROVE  more[r].segs = es2[j].segs /\ es2[j].priority <= more[r].priority
  <2>1. j \in DOMAIN es /\ es2[j].segs = es[j].segs
    BY <1>3
  <2>2. CASE r = n
    <3>1. j = i
      BY <1>2, <1>5, <1>7, <2>1, <2>2
    <3> QED
      BY <1>2, <1>3, <1>6, <2>2, <3>1
  <2>3. CASE r \in DOMAIN rs
    <3>1. more[r] = rs[r] /\ rs[r].segs = es[j].segs /\ es[j].priority <= rs[r].priority
      BY <1>2, <1>7, <2>1, <2>3 DEF InOrder
    <3>2. CASE j = i
      <4>1. new.priority <= rs[r].priority
        <5>1. new.priority \in Int /\ es[i].priority \in Int /\ rs[r].priority \in Int
          BY <1>3, <1>4, <2>3 DEF Entry
        <5> QED
          BY <1>6, <3>1, <3>2, <5>1
      <4> QED
        BY <1>3, <2>1, <3>1, <3>2, <4>1
    <3>3. CASE j # i
      BY <1>3, <2>1, <3>1, <3>3
    <3> QED
      BY <3>2, <3>3
  <2> QED
    BY <1>2, <2>2, <2>3
<1>8. ASSUME NEW j \in DOMAIN es2
      PROVE  \E r \in DOMAIN more :
               Key(more[r].segs) = Key(es2[j].segs) /\ more[r].priority = es2[j].priority
  <2>1. j \in DOMAIN es /\ es2[j].segs = es[j].segs
    BY <1>3
  <2>2. PICK r \in DOMAIN rs : Key(rs[r].segs) = Key(es[j].segs) /\ rs[r].priority = es[j].priority
    BY <2>1 DEF InOrder
  <2>3. CASE es2[j].priority = es[j].priority
    BY <1>2, <2>1, <2>2, <2>3
  <2>4. CASE es2[j].priority # es[j].priority
    <3>1. j = i /\ new.priority = call.priority
      BY <1>3, <2>1, <2>4
    <3> QED
      BY <1>2, <1>3, <2>1, <3>1
  <2> QED
    BY <2>3, <2>4
<1>9. ASSUME NEW j \in DOMAIN es2, NEW k \in DOMAIN es2, j < k,
             NEW s \in DOMAIN more, Key(more[s].segs) = Key(es2[k].segs)
      PROVE  \E r \in DOMAIN more : r < s /\ Key(more[r].segs) = Key(es2[j].segs)
  <2>1. j \in DOMAIN es /\ k \in DOMAIN es /\ es2[j].segs = es[j].segs /\ es2[k].segs = es[k].segs
    BY <1>3
  <2>2. CASE s = n
    <3>1. PICK r \in DOMAIN rs : Key(rs[r].segs) = Key(es[j].segs)
      BY <2>1 DEF InOrder
    <3> QED
      BY <1>2, <2>1, <2>2, <3>1
  <2>3. CASE s \in DOMAIN rs
    <3>1. PICK r \in DOMAIN rs : r < s /\ Key(rs[r].segs) = Key(es[j].segs)
      BY <1>2, <1>9, <2>1, <2>3 DEF InOrder
    <3> QED
      BY <1>2, <2>1, <3>1
  <2> QED
    BY <1>2, <2>2, <2>3
<1>10. InOrder(es2, more)
  BY <1>7, <1>8, <1>9 DEF InOrder
<1> QED
  BY <1>10 DEF es2, more

LEMMA EntryInOrder ==
  ASSUME NEW es, NEW rs, EntriesInv(es, rs), InOrder(es, rs),
         NEW call \in AcceptedCalls, \A j \in DOMAIN es : Key(es[j].segs) # Key(call.segs),
         NEW new \in Entry, new.segs = call.segs, new.priority = call.priority
  PROVE  InOrder(Append(es, new), Append(rs, call))
<1> DEFINE es2 == Append(es, new)
           more == Append(rs, call)
           n == Len(rs) + 1
           l == Len(es) + 1
<1>1. es \in Seq(Entry) /\ rs \in Seq(AcceptedCalls)
  BY DEF EntriesInv
<1>2. /\ DOMAIN more = DOMAIN rs \cup {n} /\ more[n] = call
      /\ \A r \in DOMAIN rs : more[r] = rs[r]
      /\ n \in Nat /\ \A r \in DOMAIN rs : r \in Nat /\ r < n
  BY <1>1, OneMore
<1>3. /\ DOMAIN es2 = DOMAIN es \cup {l} /\ es2[l] = new
      /\ \A j \in DOMAIN es : es2[j] = es[j]
      /\ l \in Nat /\ \A j \in DOMAIN es : j \in Nat /\ j < l
  BY <1>1, OneMore
<1>4. new.priority \in Int
  BY DEF Entry
<1>5. \A r \in DOMAIN rs : Key(rs[r].segs) # Key(call.segs)
  <2> SUFFICES ASSUME NEW r \in DOMAIN rs, Key(rs[r].segs) = Key(call.segs)
               PROVE  FALSE
    OBVIOUS
  <2>1. PICK j \in DOMAIN es : Key(es[j].segs) = Key(rs[r].segs)
    BY DEF EntriesInv
  <2> QED
    BY <2>1
<1> HIDE DEF es2, more, n, l
<1>6. ASSUME NEW j \in DOMAIN es2, NEW r \in DOMAIN more, Key(more[r].segs) = Key(es2[j].segs)
      PROVE  more[r].segs = es2[j].segs /\ es2[j].priority <= more[r].priority
  <2>1. CASE j = l
    <3>1. r = n
      BY <1>2, <1>3, <1>5, <1>6, <2>1
    <3> QED
      BY <1>2, <1>3, <1>4, <2>1, <3>1
  <2>2. CASE j \in DOMAIN es
    <3>1. r \in DOMAIN rs
      BY <1>2, <1>3, <1>6, <2>2
    <3> QED
      BY <1>2, <1>3, <1>6, <2>2, <3>1 DEF InOrder
  <2> QED
    BY <1>3, <2>1, <2>2
<1>7. ASSUME NEW j \in DOMAIN es2
      PROVE  \E r \in DOMAIN more :
               Key(more[r].segs) = Key(es2[j].segs) /\ more[r].priority = es2[j].priority
  <2>1. CASE j = l
    BY <1>2, <1>3, <2>1
  <2>2. CASE j \in DOMAIN es
    <3>1. PICK r \in DOMAIN rs : Key(rs[r].segs) = Key(es[j].segs) /\ rs[r].priority = es[j].priority
      BY <2>2 DEF InOrder
    <3> QED
      BY <1>2, <1>3, <2>2, <3>1
  <2> QED
    BY <1>3, <2>1, <2>2
<1>8. ASSUME NEW j \in DOMAIN es2, NEW k \in DOMAIN es2, j < k,
             NEW s \in DOMAIN more, Key(more[s].segs) = Key(es2[k].segs)
      PROVE  \E r \in DOMAIN more : r < s /\ Key(more[r].segs) = Key(es2[j].segs)
  <2>1. j \in DOMAIN es
    BY <1>3, <1>8
  <2>2. CASE k = l
    <3>1. s = n
      BY <1>2, <1>3, <1>5, <1>8, <2>2
    <3>2. PICK r \in DOMAIN rs : Key(rs[r].segs) = Key(es[j].segs)
      BY <2>1 DEF InOrder
    <3> QED
      BY <1>2, <1>3, <2>1, <3>1, <3>2
  <2>3. CASE k \in DOMAIN es
    <3>1. s \in DOMAIN rs
      BY <1>2, <1>3, <1>8, <2>3
    <3>2. PICK r \in DOMAIN rs : r < s /\ Key(rs[r].segs) = Key(es[j].segs)
      BY <1>2, <1>3, <1>8, <2>1, <2>3, <3>1 DEF InOrder
    <3> QED
      BY <1>2, <1>3, <2>1, <3>2
  <2> QED
    BY <1>3, <2>2, <2>3
<1>9. InOrder(es2, more)
  BY <1>6, <1>7, <1>8 DEF InOrder
<1> QED
  BY <1>9 DEF es2, more

-----------------------------------------------------------------------------
(* Host patterns, as they are read *)

Text == Seq(STRING \cup {"h"})
Lowered == {Lower(t) : t \in Text}

LEMMA LowerFacts ==
  /\ \A t \in Text : Lower(t) \in Text /\ Len(Lower(t)) = Len(t)
  /\ \A t \in Lowered : t \in Text /\ Lower(t) = t
  /\ << >> \in Text /\ Lower(<< >>) = << >>
<1> DEFINE Letters == STRING \cup {"h"}
<1>1. \A c \in Letters : LowerCase(c) \in Letters /\ LowerCase(LowerCase(c)) = LowerCase(c)
  <2>1. LowerCase("h") = "h" /\ "h" \in Letters
    BY DEF LowerCase
  <2>2. \A c : LowerCase(c) = c \/ LowerCase(c) = "h"
    BY DEF LowerCase
  <2>3. ASSUME NEW c \in Letters
        PROVE  LowerCase(c) \in Letters /\ LowerCase(LowerCase(c)) = LowerCase(c)
    <3>1. LowerCase(c) = c \/ LowerCase(c) = "h"
      BY <2>2
    <3> QED
      BY <2>1, <3>1
  <2> QED
    BY <2>3
<1> HIDE DEF Letters
<1>2. \A t \in Text : /\ Lower(t) \in Text /\ Len(Lower(t)) = Len(t)
                      /\ Lower(Lower(t)) = Lower(t)
  <2> SUFFICES ASSUME NEW t \in Text
               PROVE  /\ Lower(t) \in Text /\ Len(Lower(t)) = Len(t)
                      /\ Lower(Lower(t)) = Lower(t)
    OBVIOUS
  <2>0. Text = Seq(Letters)
    BY DEF Text, Letters
  <2>1. DOMAIN t = 1 .. Len(t) /\ \A i \in 1 .. Len(t) : t[i] \in Letters
    BY <2>0
  <2>2. Lower(t) \in Text /\ Len(Lower(t)) = Len(t)
    BY <1>1, <2>0, <2>1 DEF Lower
  <2>3. Lower(Lower(t)) = Lower(t)
    BY <1>1, <2>1 DEF Lower
  <2> QED
    BY <2>2, <2>3
<1>3. << >> \in Text /\ Lower(<< >>) = << >>
  BY DEF Text, Lower
<1> QED
  BY <1>2, <1>3 DEF Lowered

(* A pattern fixes the whole of a host, or an end of it, or nothing.       *)
HostPattern(p) ==
    /\ p = [kind |-> p.kind, name |-> p.name, literal |-> p.literal,
            suffix |-> p.suffix, port |-> p.port]
    /\ p.kind \in {"any", "wild", "label", "exact"}
    /\ p.literal \in Lowered /\ p.suffix \in Lowered /\ p.port \in Lowered
    /\ p.kind = "exact" => p.suffix = << >>
    /\ p.kind # "exact" => p.literal = << >>
    /\ p.kind = "any" => p.suffix = << >>

LEMMA PatternFacts ==
  ASSUME NEW kind \in {"any", "wild", "label", "exact"}, NEW name,
         NEW literal \in Text, NEW suffix \in Text, NEW port \in Text,
         kind \in {"any", "exact"} => suffix = << >>, kind # "exact" => literal = << >>
  PROVE  HostPattern(Pattern(kind, name, literal, suffix, port))
<1> DEFINE p == Pattern(kind, name, literal, suffix, port)
<1>1. Lower(literal) \in Lowered /\ Lower(suffix) \in Lowered /\ Lower(port) \in Lowered
  BY DEF Lowered
<1>2. p = [kind |-> kind, name |-> name, literal |-> Lower(literal),
           suffix |-> Lower(suffix), port |-> Lower(port)]
  BY DEF Pattern
<1> QED
  BY <1>1, <1>2, LowerFacts DEF HostPattern

LEMMA PlacesFacts ==
  ASSUME NEW text \in Text, NEW c
  PROVE  /\ Places(text, c) \in SUBSET (1 .. Len(text))
         /\ Places(text, c) # {} => Min(Places(text, c)) \in 1 .. Len(text)
         /\ ContainsAny(text, {c}) => Places(text, c) # {}
<1>1. Places(text, c) \in SUBSET (1 .. Len(text)) /\ Len(text) \in Nat
  BY DEF Places, Text
<1>2. Places(text, c) # {} => Min(Places(text, c)) \in 1 .. Len(text)
  BY <1>1, MinIsMember
<1>3. ContainsAny(text, {c}) => Places(text, c) # {}
  BY DEF ContainsAny, Places, ToSet
<1> QED
  BY <1>1, <1>2, <1>3

LEMMA PartOfText ==
  ASSUME NEW text \in Text, NEW i \in Nat, NEW j \in Int, i # 0, j <= Len(text)
  PROVE  SubSeq(text, i, j) \in Text
BY DEF Text

LEMMA AfterTyped ==
  ASSUME NEW text \in Text, NEW i \in 1 .. Len(text)
  PROVE  After(text, i) \in Text
<1>1. Len(text) \in Nat
  BY DEF Text
<1> QED
  BY <1>1, PartOfText DEF After

LEMMA SplitTyped ==
  ASSUME NEW raw \in Text, raw # << >>, SplitPatternPort(raw) # << >>
  PROVE  SplitPatternPort(raw)[1].host \in Text /\ SplitPatternPort(raw)[1].port \in Text
<1>1. \A h, p : Split(h, p) # << >> /\ Split(h, p)[1].host = h /\ Split(h, p)[1].port = p
  BY DEF Split
<1>2. Len(raw) \in Nat /\ NoPort \in Text
  BY DEF Text, NoPort
<1>3. ASSUME NEW i \in 1 .. Len(raw)
      PROVE  /\ SubSeq(raw, 1, i) \in Text /\ SubSeq(raw, 1, i - 1) \in Text
             /\ After(raw, i) \in Text
  BY <1>2, PartOfText DEF After
<1>4. \A t \in Text : t # << >> => Tail(t) \in Text
  BY DEF Text
<1>5. CASE Head(raw) = "["
  <2>1. ContainsAny(raw, {"]"}) /\ SplitPatternPort(raw) = SplitBracketed(raw)
    BY <1>5 DEF SplitPatternPort
  <2>2. PICK end : end = Min(Places(raw, "]"))
    OBVIOUS
  <2>3. end \in 1 .. Len(raw)
    BY <2>1, <2>2, PlacesFacts
  <2>4. PICK rest \in Text : rest = After(raw, end)
    BY <1>3, <2>3
  <2>5. SplitBracketed(raw) =
          CASE rest = << >> -> Split(raw, NoPort)
            [] rest # << >> /\ rest[1] = ":" -> Split(SubSeq(raw, 1, end), Tail(rest))
            [] OTHER -> << >>
    BY <2>2, <2>4 DEF SplitBracketed
  <2>6. SplitBracketed(raw) \in {Split(raw, NoPort), << >>}
        \/ (rest # << >> /\ SplitBracketed(raw) = Split(SubSeq(raw, 1, end), Tail(rest)))
    BY <2>5
  <2> QED
    BY <1>1, <1>2, <1>3, <1>4, <2>1, <2>3, <2>6
<1>6. CASE Head(raw) # "["
  <2>1. PICK colons : colons = Places(raw, ":")
    OBVIOUS
  <2>2. SplitPatternPort(raw) =
          CASE Head(raw) = "[" -> IF ContainsAny(raw, {"]"}) THEN SplitBracketed(raw) ELSE << >>
            [] Head(raw) # "[" /\ colons = {} -> Split(raw, NoPort)
            [] OTHER -> IF Cardinality(colons) > 1 \/ Last(raw) = ":" THEN << >>
                        ELSE Split(SubSeq(raw, 1, Min(colons) - 1), After(raw, Min(colons)))
    BY <2>1 DEF SplitPatternPort
  <2>3. \/ SplitPatternPort(raw) = Split(raw, NoPort)
        \/ /\ colons # {}
           /\ SplitPatternPort(raw) = Split(SubSeq(raw, 1, Min(colons) - 1), After(raw, Min(colons)))
    BY <1>6, <2>2
  <2>4. colons # {} => Min(colons) \in 1 .. Len(raw)
    BY <2>1, PlacesFacts
  <2> QED
    BY <1>1, <1>2, <1>3, <2>3, <2>4
<1> QED
  BY <1>5, <1>6

Reads(parsed) == parsed # << >> => HostPattern(parsed[1])

LEMMA PlaceholderReads ==
  ASSUME NEW body \in Text, ContainsAny(body, {"}"}), NEW port \in Text
  PROVE  Reads(ParsePlaceholder(body, port))
<1>1. PICK close : close = Min(Places(body, "}"))
  OBVIOUS
<1>2. close \in 1 .. Len(body)
  <2>1. Places(body, "}") # {}
    BY PlacesFacts
  <2> QED
    BY <1>1, <2>1, PlacesFacts
<1>3. PICK rest \in Text : rest = After(body, close)
  BY <1>2, AfterTyped
<1>4. ASSUME NEW kind \in {"any", "wild", "label"}, NEW name, NEW suffix \in Text,
             kind = "any" => suffix = << >>
      PROVE  Reads(<<Pattern(kind, name, << >>, suffix, port)>>)
  BY <1>4, PatternFacts, LowerFacts DEF Reads
<1>5. Reads(<< >>)
  BY DEF Reads
<1> DEFINE inner == SubSeq(body, 2, close - 1)
           catchAll == inner # << >> /\ Last(inner) = "..."
           name == IF catchAll THEN Front(inner) ELSE inner
<1>6. ParsePlaceholder(body, port) =
        CASE Len(name) # 1 \/ ContainsAny(name, {"{", ".", "*", ":", "..."}) -> << >>
          [] Len(name) = 1 /\ rest = << >> ->
               IF catchAll THEN <<Pattern("any", name[1], << >>, << >>, port)>> ELSE << >>
          [] OTHER ->
               IF rest[1] = "." /\ PlausibleHost(Tail(rest))
               THEN <<Pattern(IF catchAll THEN "wild" ELSE "label", name[1], << >>, rest, port)>>
               ELSE << >>
  BY <1>1, <1>3 DEF ParsePlaceholder
<1> HIDE DEF name, catchAll
<1>7. ParsePlaceholder(body, port) \in
        {<< >>, <<Pattern("any", name[1], << >>, << >>, port)>>,
         <<Pattern("wild", name[1], << >>, rest, port)>>,
         <<Pattern("label", name[1], << >>, rest, port)>>}
  BY <1>6
<1>8. /\ Reads(<<Pattern("any", name[1], << >>, << >>, port)>>)
      /\ Reads(<<Pattern("wild", name[1], << >>, rest, port)>>)
      /\ Reads(<<Pattern("label", name[1], << >>, rest, port)>>)
  BY <1>4, LowerFacts
<1> QED
  BY <1>5, <1>7, <1>8

LEMMA BodyReads ==
  ASSUME NEW body \in Text, NEW port \in Text
  PROVE  Reads(ParseBody(body, port))
<1>1. \A kind \in {"any", "wild", "label", "exact"}, literal, suffix \in Text :
        (kind \in {"any", "exact"} => suffix = << >>) /\ (kind # "exact" => literal = << >>)
          => Reads(<<Pattern(kind, NoName, literal, suffix, port)>>)
  <2> SUFFICES ASSUME NEW kind \in {"any", "wild", "label", "exact"},
                      NEW literal \in Text, NEW suffix \in Text,
                      kind \in {"any", "exact"} => suffix = << >>, kind # "exact" => literal = << >>
               PROVE  Reads(<<Pattern(kind, NoName, literal, suffix, port)>>)
    OBVIOUS
  <2> DEFINE name == NoName
  <2> HIDE DEF name
  <2>1. HostPattern(Pattern(kind, name, literal, suffix, port))
    BY PatternFacts
  <2>2. Reads(<<Pattern(kind, name, literal, suffix, port)>>)
    BY <2>1 DEF Reads
  <2> QED
    BY <2>2 DEF name
<1>2. Reads(<< >>)
  BY DEF Reads
<1>3. ParseBody(body, port) \in
        {<<Pattern("any", NoName, << >>, << >>, port)>>,
         <<Pattern("exact", NoName, body, << >>, port)>>, << >>}
      \/ (Len(body) > 1 /\ ParseBody(body, port) = <<Pattern("wild", NoName, << >>, Tail(body), port)>>)
      \/ (ContainsAny(body, {"}"}) /\ ParseBody(body, port) = ParsePlaceholder(body, port))
  <2> DEFINE any == <<Pattern("any", NoName, << >>, << >>, port)>>
             wild == <<Pattern("wild", NoName, << >>, Tail(body), port)>>
             exact == <<Pattern("exact", NoName, body, << >>, port)>>
  <2>1. ParseBody(body, port) =
          CASE body = <<"*">> -> any
            [] Len(body) > 1 /\ body[1] = "*" /\ body[2] = "." ->
                 IF PlausibleHost(After(body, 2)) THEN wild ELSE << >>
            [] body # << >> /\ body[1] = "{" ->
                 IF ContainsAny(body, {"}"}) THEN ParsePlaceholder(body, port) ELSE << >>
            [] OTHER -> IF PlausibleHost(body) THEN exact ELSE << >>
    BY DEF ParseBody
  <2> HIDE DEF any, wild, exact
  <2>2. \/ ParseBody(body, port) \in {any, exact, << >>}
        \/ Len(body) > 1 /\ ParseBody(body, port) = wild
        \/ ContainsAny(body, {"}"}) /\ ParseBody(body, port) = ParsePlaceholder(body, port)
    BY <2>1
  <2> QED
    BY <2>2 DEF any, wild, exact
<1>4. Len(body) > 1 => Tail(body) \in Text
  BY DEF Text
<1>5. << >> \in Text
  BY LowerFacts
<1> QED
  BY <1>1, <1>2, <1>3, <1>4, <1>5, PlaceholderReads

LEMMA HostReads ==
  ASSUME NEW raw \in Text
  PROVE  Reads(ParseHostPattern(raw))
<1>1. CASE raw = << >> \/ ContainsAny(raw, {"/", " "}) \/ SplitPatternPort(raw) = << >>
  <2>1. ParseHostPattern(raw) = << >>
    BY <1>1 DEF ParseHostPattern
  <2> QED
    BY <2>1 DEF Reads
<1>2. CASE ~(raw = << >> \/ ContainsAny(raw, {"/", " "}) \/ SplitPatternPort(raw) = << >>)
  <2>1. ParseHostPattern(raw) = ParseBody(SplitPatternPort(raw)[1].host, SplitPatternPort(raw)[1].port)
    BY <1>2 DEF ParseHostPattern
  <2>2. SplitPatternPort(raw)[1].host \in Text /\ SplitPatternPort(raw)[1].port \in Text
    BY <1>2, SplitTyped
  <2> QED
    BY <2>1, <2>2, BodyReads
<1> QED
  BY <1>1, <1>2

LEMMA EveryHostIs == HostPattern(EveryHost)
<1>1. NoPort \in Text /\ << >> \in Text
  BY LowerFacts DEF NoPort
<1> DEFINE name == NoName
<1> HIDE DEF name
<1>2. HostPattern(Pattern("any", name, << >>, << >>, NoPort))
  BY <1>1, PatternFacts
<1>3. EveryHost = Pattern("any", name, << >>, << >>, NoPort)
  BY DEF EveryHost, name
<1> QED
  BY <1>2, <1>3

(* The patterns of a call that compiles can all be read, and name what     *)
(* they capture alike.                                                     *)
LEMMA CompiledReads ==
  ASSUME NEW call \in Calls, Compiled(call).ok
  PROVE  /\ \A form \in ToSet(call.hosts) : ParseHostPattern(form.text) # << >>
         /\ \A x, y \in ToSet(call.hosts) :
              ParseHostPattern(x.text)[1].name = ParseHostPattern(y.text)[1].name
<1> DEFINE n == Len(call.hosts)
           texts == [i \in DOMAIN call.hosts |-> call.hosts[i].text]
           parsed == [i \in DOMAIN texts |-> ParseHostPattern(texts[i])]
           named == {p[1].name : p \in ToSet(parsed) \ {<< >>}}
<1>1. call.hosts \in Seq([form : Form, text : Seq(STRING)])
  BY CallsAssumption DEF Registration
<1>2. n \in Nat /\ DOMAIN parsed = 1 .. n /\ DOMAIN call.hosts = 1 .. n
  BY <1>1
<1>3. \A i \in 1 .. n : parsed[i] = ParseHostPattern(call.hosts[i].text)
  BY <1>2
<1>4. << >> \notin ToSet(parsed) /\ ~(Cardinality(named) > 1)
  BY DEF Compiled, CompileHosts
<1> HIDE DEF n, texts, parsed
<1>5. \A i \in 1 .. n : parsed[i] # << >>
  BY <1>2, <1>4 DEF ToSet
<1>6. named = {parsed[i][1].name : i \in 1 .. n}
  BY <1>2, <1>5 DEF ToSet
<1> HIDE DEF named
<1>7. IsFiniteSet(named)
  <2> DEFINE f == [i \in 1 .. n |-> parsed[i][1].name]
  <2>1. f \in Surjection(1 .. n, named)
    BY <1>6 DEF Surjection
  <2>2. IsFiniteSet(1 .. n)
    BY <1>2, FS_Interval
  <2> HIDE DEF f
  <2> QED
    BY <2>1, <2>2, FS_Surjection
<1>8. \A x, y \in named : x = y
  <2> SUFFICES ASSUME NEW x \in named, NEW y \in named, x # y
               PROVE  FALSE
    OBVIOUS
  <2>1. IsFiniteSet({x}) /\ Cardinality({x}) = 1
    BY FS_Singleton
  <2>2. Cardinality({x} \cup {y}) = 2
    <3>1. y \notin {x}
      OBVIOUS
    <3>2. Cardinality({x} \cup {y}) = Cardinality({x}) + 1
      BY <2>1, <3>1, FS_AddElement
    <3> QED
      BY <2>1, <3>2
  <2>3. {x} \cup {y} \in SUBSET named
    OBVIOUS
  <2>4. Cardinality({x} \cup {y}) <= Cardinality(named)
    BY <1>7, <2>3, FS_Subset
  <2>5. Cardinality(named) \in Nat
    BY <1>7, FS_CardinalityType
  <2>6. PICK c : c = Cardinality(named)
    OBVIOUS
  <2>7. 2 <= c /\ c \in Nat /\ ~(c > 1)
    BY <1>4, <2>2, <2>4, <2>5, <2>6
  <2> QED
    BY <2>7
<1>9. \A form \in ToSet(call.hosts) :
        \E i \in 1 .. n : ParseHostPattern(form.text) = parsed[i]
  BY <1>2, <1>3 DEF ToSet
<1>10. \A i \in 1 .. n : parsed[i][1].name \in named
  BY <1>6
<1>11. \A form \in ToSet(call.hosts) : ParseHostPattern(form.text) # << >>
  BY <1>5, <1>9
<1>12. \A form \in ToSet(call.hosts) : ParseHostPattern(form.text)[1].name \in named
  BY <1>9, <1>10
<1> QED
  BY <1>8, <1>11, <1>12

LEMMA ListedReads == \A h \in Listed : HostPattern(h)
<1> SUFFICES ASSUME NEW c \in Calls, NEW i \in DOMAIN HostsOf(c)
             PROVE  HostPattern(HostsOf(c)[i])
  BY DEF Listed
<1>1. HostsOf(c)[i] \in ToSet(HostsOf(c))
  BY DEF ToSet
<1>2. CASE c.hosts = << >>
  <2>1. HostsOf(c) = <<EveryHost>>
    BY <1>2 DEF HostsOf
  <2>2. i \in {1} /\ <<EveryHost>>[1] = EveryHost
    BY <2>1
  <2> QED
    BY <2>1, <2>2, EveryHostIs
<1>3. CASE Compiled(c).ok /\ c.hosts # << >>
  <2>1. PICK form \in ToSet(c.hosts) : HostsOf(c)[i] = HostOf(ParseHostPattern(form.text)[1])
    BY <1>1, <1>3, HostsAre
  <2>2. PICK k \in DOMAIN c.hosts : form = c.hosts[k]
    BY DEF ToSet
  <2>3. c.hosts[k].text \in Seq(STRING)
    <3> DEFINE S == [form : Form, text : Seq(STRING)]
    <3>1. c.hosts \in Seq(S)
      BY CallsAssumption DEF Registration
    <3>2. \A s \in S : s.text \in Seq(STRING)
      OBVIOUS
    <3> HIDE DEF S
    <3>3. c.hosts[k] \in S
      BY <3>1
    <3> QED
      BY <3>2, <3>3
  <2>4. form.text \in Text
    BY <2>2, <2>3 DEF Text
  <2>5. ParseHostPattern(form.text) # << >>
    BY <1>3, <2>1, CompiledReads
  <2>6. HostPattern(ParseHostPattern(form.text)[1])
    BY <2>4, <2>5, HostReads DEF Reads
  <2> QED
    BY <2>1, <2>6, EveryHostIs DEF HostOf
<1>4. CASE ~Compiled(c).ok /\ c.hosts # << >>
  <2>1. Compiled(c).pats = << >>
    BY <1>4 DEF Compiled, CompileHosts
  <2>2. HostsOf(c) = [k \in DOMAIN << >> |-> HostOf(<< >>[k])]
    BY <1>4, <2>1 DEF HostsOf
  <2> QED
    BY <2>2
<1> QED
  BY <1>2, <1>3, <1>4

LEMMA ScoreTyped ==
  ASSUME NEW p, HostPattern(p)
  PROVE  Score(p) \in [1 .. 3 -> Int]
<1>1. Len(p.literal) \in Int /\ Len(p.suffix) \in Int
  <2>1. p.literal \in Text /\ p.suffix \in Text
    BY LowerFacts DEF HostPattern
  <2> QED
    BY <2>1 DEF Text
<1>2. KindRank(p.kind) \in Int
  BY DEF HostPattern, KindRank
<1>3. \A x, y, z \in Int : <<x, y, z>> \in [1 .. 3 -> Int]
  OBVIOUS
<1> DEFINE port == IF p.port = NoPort THEN 0 ELSE 1
           len == Len(p.literal) + Len(p.suffix)
<1>4. port \in Int /\ len \in Int
  BY <1>1
<1>5. Score(p) = <<KindRank(p.kind), port, len>>
  BY DEF Score
<1> HIDE DEF port, len
<1> QED
  BY <1>2, <1>3, <1>4, <1>5

LEMMA SameSuffix ==
  ASSUME NEW S, NEW s \in Seq(S), NEW u \in Seq(S), Len(s) = Len(u),
         NEW t, IsSuffix(s, t), IsSuffix(u, t)
  PROVE  s = u
<1> DEFINE n == Len(s)
           back(x) == Reverse(x)
<1>1. n \in Nat
  OBVIOUS
<1>2. ASSUME NEW x \in Seq(S), Len(x) = n
      PROVE  /\ back(x) \in Seq(S) /\ Len(back(x)) = n
             /\ SubSeq(back(x), 1, n) = back(x)
             /\ \A i \in 1 .. n : x[i] = back(x)[n - i + 1]
  <2>1. back(x) = [i \in 1 .. n |-> x[n - i + 1]]
    BY <1>2 DEF Reverse
  <2>2. \A i \in 1 .. n : n - i + 1 \in 1 .. n /\ n - (n - i + 1) + 1 = i /\ x[i] \in S
    BY <1>1, <1>2
  <2>3. back(x) \in Seq(S) /\ Len(back(x)) = n
    BY <1>1, <2>1, <2>2
  <2>4. \A i \in 1 .. n : x[i] = back(x)[n - i + 1]
    BY <2>1, <2>2
  <2> HIDE DEF back
  <2>5. SubSeq(back(x), 1, n) = back(x)
    BY <1>1, <2>3
  <2> QED
    BY <2>3, <2>4, <2>5
<1>3. Len(back(s)) = n /\ Len(back(u)) = n
  BY <1>2
<1>4. SubSeq(back(s), 1, n) = SubSeq(back(t), 1, n)
  BY <1>3 DEF IsSuffix, IsPrefix
<1>5. SubSeq(back(u), 1, n) = SubSeq(back(t), 1, n)
  BY <1>3 DEF IsSuffix, IsPrefix
<1> HIDE DEF back, n
<1>6. Len(s) = n /\ Len(u) = n
  BY DEF n
<1>7. back(s) = back(u)
  BY <1>2, <1>4, <1>5, <1>6
<1>8. \A i \in 1 .. n : s[i] = u[i]
  BY ZenonT(30), <1>2, <1>6, <1>7
<1> QED
  BY <1>6, <1>8

(* Patterns that accept one host, rank alike and capture under one name    *)
(* are one.                                                                *)
LEMMA Alike ==
  ASSUME NEW p, HostPattern(p), NEW r, HostPattern(r), NEW host, NEW port,
         Matches(p, host, port), Matches(r, host, port),
         Score(p) = Score(r), p.name = r.name
  PROVE  p = r
<1>1. /\ KindRank(p.kind) = KindRank(r.kind)
      /\ (IF p.port = NoPort THEN 0 ELSE 1) = (IF r.port = NoPort THEN 0 ELSE 1)
      /\ Len(p.literal) + Len(p.suffix) = Len(r.literal) + Len(r.suffix)
  BY DEF Score
<1>2. p.kind = r.kind
  BY <1>1 DEF KindRank, HostPattern
<1>3. \A t \in Lowered : Lower(t) = t /\ t \in Text
  BY LowerFacts
<1>4. p.port = r.port
  <2>1. p.port \in Lowered /\ r.port \in Lowered
    BY DEF HostPattern
  <2>2. p.port = NoPort <=> r.port = NoPort
    BY <1>1
  <2> QED
    BY <1>3, <2>1, <2>2 DEF Matches, PortAccepts, EqualFold
<1>5. p.literal = r.literal /\ p.suffix = r.suffix
  <2>1. CASE p.kind = "any"
    BY <1>2, <2>1 DEF HostPattern
  <2>2. CASE p.kind = "exact"
    <3>1. p.literal \in Lowered /\ r.literal \in Lowered /\ p.suffix = r.suffix
      BY <1>2, <2>2 DEF HostPattern
    <3>2. Lower(host) = Lower(p.literal) /\ Lower(host) = Lower(r.literal)
      BY <1>2, <2>2 DEF Matches, HostAccepts, EqualFold
    <3> QED
      BY <1>3, <3>1, <3>2
  <2>3. CASE p.kind \in {"wild", "label"}
    <3>1. p.literal = << >> /\ r.literal = << >>
      BY <1>2, <2>3 DEF HostPattern
    <3>2. IsSuffix(p.suffix, Lower(host)) /\ IsSuffix(r.suffix, Lower(host))
      BY <1>2, <2>3 DEF Matches, HostAccepts
    <3>3. p.suffix \in Text /\ r.suffix \in Text
      BY <1>3 DEF HostPattern
    <3>4. Len(p.suffix) \in Nat /\ Len(r.suffix) \in Nat
      BY <3>3 DEF Text
    <3>5. Len(p.suffix) = Len(r.suffix)
      BY <1>1, <3>1, <3>4
    <3> QED
      BY <3>1, <3>2, <3>3, <3>5, SameSuffix DEF Text
  <2> QED
    BY <2>1, <2>2, <2>3 DEF HostPattern
<1>6. /\ p = [kind |-> p.kind, name |-> p.name, literal |-> p.literal,
              suffix |-> p.suffix, port |-> p.port]
      /\ r = [kind |-> r.kind, name |-> r.name, literal |-> r.literal,
              suffix |-> r.suffix, port |-> r.port]
  BY DEF HostPattern
<1> QED
  BY <1>2, <1>4, <1>5, <1>6

LEMMA NamedAlike ==
  ASSUME NEW call \in Calls, Compiled(call).ok,
         NEW g \in ToSet(HostsOf(call)), NEW h \in ToSet(HostsOf(call))
  PROVE  g.name = h.name
<1>1. CASE call.hosts = << >>
  <2>1. g = EveryHost /\ h = EveryHost
    BY <1>1, HostsAre
  <2> QED
    BY <2>1
<1>2. CASE call.hosts # << >>
  <2>1. PICK x \in ToSet(call.hosts) : g = HostOf(ParseHostPattern(x.text)[1])
    BY <1>2, HostsAre
  <2>2. PICK y \in ToSet(call.hosts) : h = HostOf(ParseHostPattern(y.text)[1])
    BY <1>2, HostsAre
  <2>3. \A p : HostOf(p).name = p.name
    <3> DEFINE none == NoName
    <3>1. EveryHost.name = none
      BY DEF EveryHost, Pattern, none
    <3>2. \A p : HostOf(p) = IF p.kind = "any" /\ p.name = none THEN EveryHost ELSE p
      BY DEF HostOf, none
    <3> HIDE DEF none
    <3> QED
      BY <3>1, <3>2
  <2>4. ParseHostPattern(x.text)[1].name = ParseHostPattern(y.text)[1].name
    BY CompiledReads
  <2> QED
    BY <2>1, <2>2, <2>3, <2>4
<1> QED
  BY <1>1, <1>2

-----------------------------------------------------------------------------
(* The order of host variants *)

(* A variant comes before another of its bucket if it ranks higher, or     *)
(* ranks alike and has a route that is not later than any of the other's.  *)
Earlier(v, w) ==
    \E m \in DOMAIN v.byMethod : \A k \in DOMAIN w.byMethod : v.byMethod[m] <= w.byMethod[k]
Sooner(v, w) ==
    /\ v.host # w.host
    /\ \/ Outranks(Score(v.host), Score(w.host))
       \/ Score(v.host) = Score(w.host) /\ Earlier(v, w)
Sorted(vs) == \A i, j \in DOMAIN vs : i < j => Sooner(vs[i], vs[j])

LEMMA ScoresOrdered ==
  ASSUME NEW g, NEW h, HostPattern(g), HostPattern(h)
  PROVE  /\ Score(g) = Score(h) \/ Outranks(Score(g), Score(h)) \/ Outranks(Score(h), Score(g))
         /\ ~(Outranks(Score(g), Score(h)) /\ Outranks(Score(h), Score(g)))
         /\ \A k : HostPattern(k) /\ Outranks(Score(g), Score(h))
                   /\ Outranks(Score(h), Score(k)) => Outranks(Score(g), Score(k))
<1>1. Score(g) \in [1 .. 3 -> Int] /\ Score(h) \in [1 .. 3 -> Int] /\ 3 \in Nat
  BY ScoreTyped
<1>2. \A k : HostPattern(k) => Score(k) \in [1 .. 3 -> Int]
  BY ScoreTyped
<1> QED
  BY <1>1, <1>2, OutranksOrders

(* A variant's host can be read, and its routes are numbered.              *)
LEMMA VariantFacts ==
  ASSUME NEW v \in Variant
  PROVE  /\ HostPattern(v.host) /\ v.host \in Listed
         /\ v.byMethod \in ByMethod
         /\ \E m : m \in DOMAIN v.byMethod
         /\ \A m \in DOMAIN v.byMethod : v.byMethod[m] \in Nat
<1>1. v.host \in Listed /\ v.byMethod \in ByMethod
  BY DEF Variant
<1>2. \A f \in ByMethod : (\E m : m \in DOMAIN f) /\ \A m \in DOMAIN f : f[m] \in Nat
  BY DEF ByMethod
<1> QED
  BY <1>1, <1>2, ListedReads

(* A method more, or one filed again, leaves a variant where it was.       *)
LEMMA EarlierRefiled ==
  ASSUME NEW v \in Variant, NEW w \in Variant, NEW v2 \in Variant, NEW w2 \in Variant,
         Earlier(v, w), NEW r \in Nat,
         \A m \in DOMAIN v.byMethod : v.byMethod[m] <= r,
         \A m \in DOMAIN v.byMethod : m \in DOMAIN v2.byMethod /\ v2.byMethod[m] = v.byMethod[m],
         \A m \in DOMAIN w2.byMethod :
           w2.byMethod[m] = r \/ (m \in DOMAIN w.byMethod /\ w2.byMethod[m] = w.byMethod[m])
  PROVE  Earlier(v2, w2)
<1>1. PICK m \in DOMAIN v.byMethod : \A k \in DOMAIN w.byMethod : v.byMethod[m] <= w.byMethod[k]
  BY DEF Earlier
<1>2. m \in DOMAIN v2.byMethod /\ v2.byMethod[m] = v.byMethod[m]
  OBVIOUS
<1>3. \A k \in DOMAIN w2.byMethod : v2.byMethod[m] <= w2.byMethod[k]
  BY <1>1, <1>2
<1> QED
  BY <1>2, <1>3 DEF Earlier

LEMMA RefiledSorted ==
  ASSUME NEW vs \in Seq(Variant), Sorted(vs), NEW h, NEW m \in STRING, NEW r \in Nat,
         \A i \in DOMAIN vs : \A x \in DOMAIN vs[i].byMethod : vs[i].byMethod[x] <= r,
         \A i \in DOMAIN vs : vs[i].host = h /\ m \in DOMAIN vs[i].byMethod =>
           vs[i].byMethod[m] = r
  PROVE  Sorted([i \in DOMAIN vs |-> IF vs[i].host = h
                                     THEN [vs[i] EXCEPT !.byMethod = With(@, m, r)]
                                     ELSE vs[i]])
<1> DEFINE new(i) == IF vs[i].host = h THEN [vs[i] EXCEPT !.byMethod = With(@, m, r)] ELSE vs[i]
           ws == [i \in DOMAIN vs |-> new(i)]
           Still(v, w) ==
             /\ w \in Variant /\ w.host = v.host
             /\ \A x \in DOMAIN v.byMethod : x \in DOMAIN w.byMethod /\ w.byMethod[x] = v.byMethod[x]
             /\ \A x \in DOMAIN w.byMethod :
                  w.byMethod[x] = r \/ (x \in DOMAIN v.byMethod /\ w.byMethod[x] = v.byMethod[x])
<1>1. ASSUME NEW i \in DOMAIN vs
      PROVE  Still(vs[i], new(i))
  <2>1. vs[i] \in Variant
    OBVIOUS
  <2>2. CASE vs[i].host = h
    <3>1. PICK w \in Variant : /\ w = new(i) /\ w.host = vs[i].host
                               /\ w.byMethod = With(vs[i].byMethod, m, r)
      BY <2>1, <2>2, Refiled
    <3>2. vs[i].byMethod \in ByMethod
      BY <2>1, VariantFacts
    <3>3. /\ DOMAIN w.byMethod = DOMAIN vs[i].byMethod \cup {m} /\ w.byMethod[m] = r
          /\ \A x \in DOMAIN vs[i].byMethod : x # m => w.byMethod[x] = vs[i].byMethod[x]
      <4>1. PICK f \in ByMethod : f = vs[i].byMethod
        BY <3>2
      <4>2. /\ DOMAIN With(f, m, r) = DOMAIN f \cup {m} /\ With(f, m, r)[m] = r
            /\ \A x \in DOMAIN f : x # m => With(f, m, r)[x] = f[x]
        BY ZenonT(30), WithTyped
      <4> QED
        BY <3>1, <4>1, <4>2
    <3>4. m \in DOMAIN vs[i].byMethod => w.byMethod[m] = vs[i].byMethod[m]
      BY <2>2, <3>3
    <3>5. Still(vs[i], w)
      BY <3>1, <3>3, <3>4
    <3> QED
      BY <3>1, <3>5
  <2>3. CASE vs[i].host # h
    BY <2>1, <2>3
  <2> QED
    BY <2>2, <2>3
<1>2. DOMAIN ws = DOMAIN vs /\ \A i \in DOMAIN vs : ws[i] = new(i)
  OBVIOUS
<1> HIDE DEF new, ws
<1>3. ASSUME NEW i \in DOMAIN ws, NEW j \in DOMAIN ws, i < j
      PROVE  Sooner(ws[i], ws[j])
  <2>1. i \in DOMAIN vs /\ j \in DOMAIN vs /\ Sooner(vs[i], vs[j])
    BY <1>2, <1>3 DEF Sorted
  <2>2. Still(vs[i], ws[i]) /\ Still(vs[j], ws[j]) /\ vs[i] \in Variant /\ vs[j] \in Variant
    BY <1>1, <1>2, <2>1
  <2>3. Earlier(vs[i], vs[j]) => Earlier(ws[i], ws[j])
    BY <2>1, <2>2, EarlierRefiled
  <2> QED
    BY <2>1, <2>2, <2>3 DEF Sooner
<1>4. Sorted(ws)
  BY <1>3 DEF Sorted
<1> QED
  BY <1>4 DEF ws, new

(* A new variant goes behind those that do not rank lower.                 *)
LEMMA InsertedSorted ==
  ASSUME NEW vs \in Seq(Variant), Sorted(vs), NEW x \in Variant,
         \A i \in DOMAIN vs : vs[i].host # x.host,
         \A i \in DOMAIN vs : Earlier(vs[i], x)
  PROVE  /\ InsertVariant(vs, x) \in Seq(Variant)
         /\ Sorted(InsertVariant(vs, x))
         /\ ToSet(InsertVariant(vs, x)) = ToSet(vs) \cup {x}
<1> DEFINE n == Len(vs)
           up(i) == ~Outranks(Score(x.host), Score(vs[i].host))
           P == {i \in DOMAIN vs : up(i)}
<1>1. n \in Nat /\ DOMAIN vs = 1 .. n /\ P \in SUBSET (DOMAIN vs)
  OBVIOUS
<1>2. PICK r : r = InsertVariant(vs, x)
  OBVIOUS
<1>3. r = InsertBehind(vs, P, x)
  BY <1>2 DEF InsertVariant
<1> HIDE DEF P
<1>4. r \in Seq(Variant) /\ Len(r) = n + 1
  BY <1>1, <1>3, InsertedAt
<1>5. PICK k \in 0 .. n : /\ k # 0 => k \in P
                          /\ \A i \in P : i <= k
                          /\ HasBehind(r, vs, k, x)
  BY <1>1, <1>3, InsertedAt
<1>6. /\ \A i \in 1 .. k : r[i] = vs[i]
      /\ r[k + 1] = x
      /\ \A i \in k + 1 .. n : r[i + 1] = vs[i]
      /\ DOMAIN r = 1 .. n + 1
  BY <1>4, <1>5 DEF HasBehind
<1>7. HostPattern(x.host) /\ \A i \in 1 .. n : HostPattern(vs[i].host)
  BY <1>1, VariantFacts
<1>8. \A i \in 1 .. n : i > k => Outranks(Score(x.host), Score(vs[i].host))
  BY <1>1, <1>5 DEF P
<1>9. ASSUME NEW i \in 1 .. k
      PROVE  Sooner(vs[i], x)
  <2>1. i \in 1 .. n /\ k \in 1 .. n /\ k \in P
    BY <1>1, <1>5
  <2>2. ~Outranks(Score(x.host), Score(vs[k].host))
    BY <2>1 DEF P
  <2>3. i = k \/ Sooner(vs[i], vs[k])
    BY <1>1, <2>1 DEF Sorted
  <2>4. i = k \/ Score(vs[i].host) = Score(vs[k].host)
              \/ Outranks(Score(vs[i].host), Score(vs[k].host))
    BY <2>3 DEF Sooner
  <2>5. PICK a : a = vs[i].host
    OBVIOUS
  <2>6. PICK b : b = vs[k].host
    OBVIOUS
  <2>7. PICK c : c = x.host
    OBVIOUS
  <2>8. HostPattern(a) /\ HostPattern(b) /\ HostPattern(c)
    BY <1>7, <2>1, <2>5, <2>6, <2>7
  <2>9. Score(b) = Score(c) \/ Outranks(Score(b), Score(c))
    BY <2>2, <2>6, <2>7, <2>8, ScoresOrdered
  <2>10. Score(a) = Score(b) \/ Outranks(Score(a), Score(b))
    BY <2>4, <2>5, <2>6
  <2>11. Score(a) = Score(c) \/ Outranks(Score(a), Score(c))
    BY <2>8, <2>9, <2>10, ScoresOrdered
  <2>12. vs[i].host # x.host /\ Earlier(vs[i], x)
    BY <1>1, <2>1
  <2> QED
    BY <2>5, <2>7, <2>11, <2>12 DEF Sooner
<1>10. ASSUME NEW i \in k + 1 .. n
       PROVE  Sooner(x, vs[i])
  <2>1. i \in 1 .. n /\ i > k
    BY <1>1, <1>5
  <2>2. Outranks(Score(x.host), Score(vs[i].host)) /\ vs[i].host # x.host
    BY <1>1, <1>8, <2>1
  <2> QED
    BY <2>2 DEF Sooner
<1>11. ASSUME NEW i \in DOMAIN r, NEW j \in DOMAIN r, i < j
       PROVE  Sooner(r[i], r[j])
  <2>1. \A a, b \in 1 .. n : a < b => Sooner(vs[a], vs[b])
    BY <1>1 DEF Sorted
  <2>2. i \in 1 .. n + 1 /\ j \in 1 .. n + 1 /\ k \in 0 .. n
    BY <1>6
  <2>3. CASE j <= k
    <3>1. i \in 1 .. k /\ j \in 1 .. k /\ i \in 1 .. n /\ j \in 1 .. n
      BY <1>1, <1>11, <2>2, <2>3
    <3> QED
      BY <1>6, <1>11, <2>1, <3>1
  <2>4. CASE j = k + 1
    <3>1. i \in 1 .. k
      BY <1>1, <1>11, <2>2, <2>4
    <3> QED
      BY <1>6, <1>9, <2>4, <3>1
  <2>5. CASE j > k + 1
    <3>1. j - 1 \in k + 1 .. n /\ j - 1 \in 1 .. n /\ (j - 1) + 1 = j
      BY <1>1, <2>2, <2>5
    <3>2. r[j] = vs[j - 1]
      BY <1>6, <3>1
    <3>3. CASE i <= k
      <4>1. i \in 1 .. k /\ i \in 1 .. n /\ i < j - 1
        BY <1>1, <2>2, <2>5, <3>3
      <4> QED
        BY <1>6, <2>1, <3>1, <3>2, <4>1
    <3>4. CASE i = k + 1
      BY <1>6, <1>10, <3>1, <3>2, <3>4
    <3>5. CASE i > k + 1
      <4>1. i - 1 \in k + 1 .. n /\ i - 1 \in 1 .. n /\ (i - 1) + 1 = i /\ i - 1 < j - 1
        BY <1>1, <1>11, <2>2, <3>5
      <4>2. r[i] = vs[i - 1]
        BY <1>6, <4>1
      <4> QED
        BY <2>1, <3>1, <3>2, <4>1, <4>2
    <3> QED
      BY <1>1, <2>2, <3>3, <3>4, <3>5
  <2> QED
    BY <1>1, <2>2, <2>3, <2>4, <2>5
<1>12. Sorted(r)
  BY <1>11 DEF Sorted
<1>13. \A v : v \in ToSet(r) <=> v \in ToSet(vs) \cup {x}
  <2>1. \A v : v \in ToSet(r) <=> \E i \in 1 .. n + 1 : v = r[i]
    BY <1>6 DEF ToSet
  <2>2. \A v : v \in ToSet(vs) <=> \E i \in 1 .. n : v = vs[i]
    BY <1>1 DEF ToSet
  <2>3. ASSUME NEW i \in 1 .. n + 1
        PROVE  r[i] = x \/ \E j \in 1 .. n : r[i] = vs[j]
    <3>1. i \in 1 .. k \/ i = k + 1 \/ i - 1 \in k + 1 .. n
      BY <1>1
    <3>2. CASE i - 1 \in k + 1 .. n
      <4>1. r[(i - 1) + 1] = vs[i - 1] /\ (i - 1) + 1 = i /\ i - 1 \in 1 .. n
        BY <1>1, <1>6, <3>2
      <4> QED
        BY <4>1
    <3>3. CASE i \in 1 .. k
      <4>1. i \in 1 .. n
        BY <1>1, <3>3
      <4> QED
        BY <1>6, <3>3, <4>1
    <3> QED
      BY <1>6, <3>1, <3>2, <3>3
  <2>4. ASSUME NEW j \in 1 .. n
        PROVE  \E i \in 1 .. n + 1 : r[i] = vs[j]
    <3>1. CASE j <= k
      <4>1. j \in 1 .. k /\ j \in 1 .. n + 1
        BY <1>1, <3>1
      <4> QED
        BY <1>6, <4>1
    <3>2. CASE j > k
      <4>1. j \in k + 1 .. n /\ j + 1 \in 1 .. n + 1
        BY <1>1, <3>2
      <4> QED
        BY <1>6, <4>1
    <3> QED
      BY <1>1, <3>1, <3>2
  <2>5. k + 1 \in 1 .. n + 1 /\ r[k + 1] = x
    BY <1>1, <1>6
  <2>6. \A v : v \in ToSet(r) => v \in ToSet(vs) \cup {x}
    BY <2>1, <2>2, <2>3
  <2>7. \A v : v \in ToSet(vs) => v \in ToSet(r)
    BY <2>1, <2>2, <2>4
  <2>8. x \in ToSet(r)
    BY <2>1, <2>5
  <2> QED
    BY <2>6, <2>7, <2>8
<1>14. ToSet(r) = ToSet(vs) \cup {x}
  BY <1>13
<1> QED
  BY <1>2, <1>4, <1>12, <1>14

(* The variants of an entry, each in its bucket and its place.             *)
InBucket(vs, b) == \A i \in DOMAIN vs : Bucket(vs[i].host) = b
Ranked(e) == \A b \in Buckets : InBucket(e.hosts[b], b) /\ Sorted(e.hosts[b])

LEMMA FiledSorted ==
  ASSUME NEW vs \in Seq(Variant), NEW b, InBucket(vs, b), Sorted(vs),
         NEW h \in Listed, Bucket(h) = b, NEW m \in STRING, NEW r \in Nat,
         \A g, x, q : Lists(vs, g, x, q) => q <= r,
         \A q : Lists(vs, h, m, q) => q = r
  PROVE  InBucket(FiledIn(vs, h, m, r), b) /\ Sorted(FiledIn(vs, h, m, r))
<1>1. \A i \in DOMAIN vs : vs[i] \in Variant /\ vs[i] \in ToSet(vs)
  BY DEF ToSet
<1>2. \A i \in DOMAIN vs : \A x \in DOMAIN vs[i].byMethod :
        Lists(vs, vs[i].host, x, vs[i].byMethod[x])
  BY <1>1 DEF Lists
<1>3. /\ \A i \in DOMAIN vs : \A x \in DOMAIN vs[i].byMethod : vs[i].byMethod[x] <= r
      /\ \A i \in DOMAIN vs : vs[i].host = h /\ m \in DOMAIN vs[i].byMethod =>
           vs[i].byMethod[m] = r
  BY <1>2
<1>4. CASE \E v \in ToSet(vs) : v.host = h
  <2> DEFINE ws == [i \in DOMAIN vs |-> IF vs[i].host = h
                                        THEN [vs[i] EXCEPT !.byMethod = With(@, m, r)]
                                        ELSE vs[i]]
  <2>1. FiledIn(vs, h, m, r) = ws
    BY <1>4 DEF FiledIn
  <2>2. Sorted(ws)
    BY <1>3, RefiledSorted
  <2>3. ASSUME NEW i \in DOMAIN vs
        PROVE  ws[i].host = vs[i].host
    <3>1. CASE vs[i].host = h
      <4>1. [vs[i] EXCEPT !.byMethod = With(@, m, r)].host = vs[i].host
        BY <1>1, Refiled
      <4> QED
        BY <3>1, <4>1
    <3>2. CASE vs[i].host # h
      BY <3>2
    <3> QED
      BY <3>1, <3>2
  <2>4. DOMAIN ws = DOMAIN vs
    OBVIOUS
  <2> HIDE DEF ws
  <2>5. InBucket(ws, b)
    BY <2>3, <2>4 DEF InBucket
  <2> QED
    BY <2>1, <2>2, <2>5
<1>5. CASE ~\E v \in ToSet(vs) : v.host = h
  <2>1. PICK x : x = [host |-> h, byMethod |-> [y \in {m} |-> r]]
    OBVIOUS
  <2>2. x \in Variant /\ x.host = h /\ DOMAIN x.byMethod = {m} /\ x.byMethod[m] = r
    <3>1. [y \in {m} |-> r] \in ByMethod
      <4>1. {m} \in (SUBSET STRING) \ {{}} /\ [y \in {m} |-> r] \in [{m} -> Nat]
        OBVIOUS
      <4> QED
        BY <4>1 DEF ByMethod
    <3> QED
      BY <2>1, <3>1 DEF Variant
  <2>3. FiledIn(vs, h, m, r) = InsertVariant(vs, x)
    BY <1>5, <2>1 DEF FiledIn
  <2>4. \A i \in DOMAIN vs : vs[i].host # x.host
    BY <1>1, <1>5, <2>2
  <2>5. \A i \in DOMAIN vs : Earlier(vs[i], x)
    <3> SUFFICES ASSUME NEW i \in DOMAIN vs
                 PROVE  Earlier(vs[i], x)
      OBVIOUS
    <3>1. PICK y : y \in DOMAIN vs[i].byMethod
      BY <1>1, VariantFacts
    <3>2. \A k \in DOMAIN x.byMethod : vs[i].byMethod[y] <= x.byMethod[k]
      BY <1>3, <2>2, <3>1
    <3> QED
      BY <3>1, <3>2 DEF Earlier
  <2>6. /\ InsertVariant(vs, x) \in Seq(Variant) /\ Sorted(InsertVariant(vs, x))
        /\ ToSet(InsertVariant(vs, x)) = ToSet(vs) \cup {x}
    BY <2>2, <2>4, <2>5, InsertedSorted
  <2>7. InBucket(InsertVariant(vs, x), b)
    <3>1. \A v \in ToSet(vs) \cup {x} : Bucket(v.host) = b
      BY <2>2 DEF InBucket, ToSet
    <3> QED
      BY <2>6, <3>1 DEF InBucket, ToSet
  <2> QED
    BY <2>3, <2>6, <2>7
<1> QED
  BY <1>4, <1>5

LEMMA FileRanks ==
  ASSUME NEW e \in Entry, Ranked(e), NEW h \in Listed, NEW m \in STRING, NEW r \in Nat,
         \A g, x, q : Files(e, g, x, q) => q <= r,
         \A q : Files(e, h, m, q) => q = r
  PROVE  Ranked(File(e, h, m, r))
<1> DEFINE at == Bucket(h)
           vs == e.hosts[at]
           new == FiledIn(vs, h, m, r)
<1>1. at \in Buckets
  BY DEF Bucket, Buckets
<1>2. e.hosts \in [Buckets -> Seq(Variant)]
  BY DEF Entry
<1>3. File(e, h, m, r).hosts = [e.hosts EXCEPT ![at] = new]
  BY FileIs
<1>4. \A g, x, q : Lists(vs, g, x, q) => Files(e, g, x, q)
  BY <1>1, FilesIs
<1>5. vs \in Seq(Variant) /\ InBucket(vs, at) /\ Sorted(vs)
  BY <1>1, <1>2 DEF Ranked
<1> HIDE DEF vs
<1>6. InBucket(new, at) /\ Sorted(new)
  <2>1. /\ \A g, x, q : Lists(vs, g, x, q) => q <= r
        /\ \A q : Lists(vs, h, m, q) => q = r
    BY <1>4
  <2> QED
    BY <1>5, <2>1, FiledSorted
<1> HIDE DEF at, new
<1>7. ASSUME NEW b \in Buckets
      PROVE  InBucket(File(e, h, m, r).hosts[b], b) /\ Sorted(File(e, h, m, r).hosts[b])
  <2>1. File(e, h, m, r).hosts[b] = IF b = at THEN new ELSE e.hosts[b]
    BY <1>1, <1>2, <1>3
  <2> QED
    BY <1>6, <2>1 DEF Ranked
<1> QED
  BY <1>7 DEF Ranked

LEMMA FiledRanks ==
  ASSUME NEW e \in Entry, Ranked(e), NEW call, HostsOf(call) \in Seq(Listed),
         call.method \in STRING, Len(routes) + 1 \in Nat,
         \A h \in ToSet(HostsOf(call)) : ~Taken(e, h, call.method),
         \A g, x, q : Files(e, g, x, q) => q <= Len(routes) + 1
  PROVE  Ranked(Filed(e, call))
<1> DEFINE hs == HostsOf(call)
           n == Len(hs)
           m == call.method
           r == Len(routes) + 1
<1>1. PICK f : /\ f[0] = e
               /\ \A i \in 1 .. n : f[i] = File(f[i - 1], hs[i], m, r)
               /\ Filed(e, call) = f[n]
  BY FiledRuns
<1>2. n \in Nat /\ DOMAIN hs = 1 .. n /\ \A i \in 1 .. n : hs[i] \in Listed /\ hs[i] \in ToSet(hs)
  BY DEF ToSet
<1>3. \A h \in ToSet(hs) : ~Taken(e, h, m)
  OBVIOUS
<1>4. m \in STRING /\ r \in Nat /\ \A g, x, q : Files(e, g, x, q) => q <= r
  OBVIOUS
<1> HIDE DEF hs, n, m, r
<1> DEFINE Good(k) ==
             /\ f[k] \in Entry /\ Ranked(f[k])
             /\ \A g, y, q : Files(f[k], g, y, q) => q <= r
             /\ \A h \in ToSet(hs) : \A q : Files(f[k], h, m, q) => q = r
           T == {k \in Nat : Good(k)}
<1>5. \A h \in ToSet(hs) : \A q : ~Files(e, h, m, q)
  BY <1>3 DEF Taken, Files
<1>6. ASSUME NEW k \in Nat, k < n, Good(k)
      PROVE  Good(k + 1)
  <2> DEFINE h == hs[k + 1]
             new == File(f[k], h, m, r)
  <2>1. k + 1 \in 1 .. n /\ k + 1 - 1 = k
    BY <1>2, <1>6
  <2>2. f[k + 1] = new /\ h \in Listed /\ h \in ToSet(hs)
    BY <1>1, <1>2, <2>1
  <2>3. /\ f[k] \in Entry /\ Ranked(f[k])
        /\ \A g, y, q : Files(f[k], g, y, q) => q <= r
        /\ \A q : Files(f[k], h, m, q) => q = r
    BY <1>6, <2>2
  <2> HIDE DEF h, Good
  <2>4. Ranked(new)
    BY <1>4, <2>2, <2>3, FileRanks
  <2>5. /\ new \in Entry
        /\ \A g, y, q : Files(new, g, y, q) => Files(f[k], g, y, q) \/ (g = h /\ y = m /\ q = r)
    <3> HIDE DEF new
    <3> QED
      BY <1>4, <2>2, <2>3, FileFacts DEF new
  <2> HIDE DEF new
  <2> USE DEF Good
  <2>6. \A g, y, q : Files(new, g, y, q) => q <= r
    BY <1>4, <2>3, <2>5
  <2>7. \A g \in ToSet(hs) : \A q : Files(new, g, m, q) => q = r
    BY <1>6, <2>5
  <2> QED
    BY <2>2, <2>4, <2>5, <2>6, <2>7
<1>7. 0 \in T
  BY <1>1, <1>4, <1>5
<1>8. \A k \in Nat : k < n /\ k \in T => k + 1 \in T
  <2> HIDE DEF Good
  <2> QED
    BY <1>6
<1>9. n \in T
  <2> HIDE DEF T
  <2>1. \A k \in 0 .. n : k \in T
    BY <1>2, <1>7, <1>8, UpTo
  <2> QED
    BY <1>2, <2>1
<1> QED
  BY <1>1, <1>9

(* What registration makes of an entry, and what it begins with.           *)
LEMMA RouteRanks ==
  ASSUME TableInv, NEW call \in Calls, Valid(call), NEW i \in EntryFor(call.segs),
         Ranked(entries[i])
  PROVE  LET new == Urged(Filed(entries[i], call), call.priority)
         IN /\ new \in Entry /\ Ranked(new) /\ new.segs = entries[i].segs
            /\ new.priority = IF call.priority < entries[i].priority THEN call.priority
                              ELSE entries[i].priority
<1>1. /\ call.method \in STRING /\ call.priority \in Int
      /\ HostsOf(call) \in Seq(Listed) /\ HostsOf(call) # << >>
      /\ Len(routes) + 1 \in Nat
  BY ValidCall
<1>2. i \in DOMAIN entries /\ entries[i] \in Entry
  BY EntryFacts DEF EntryFor
<1>3. \A h \in ToSet(HostsOf(call)) : ~Taken(entries[i], h, call.method)
  BY DEF Valid
<1>4. \A g, x, q : Files(entries[i], g, x, q) => q <= Len(routes) + 1
  <2>1. \A r \in DOMAIN routes : r <= Len(routes) + 1
    BY DEF TableInv, EntriesInv
  <2> QED
    BY <1>2, <2>1, EntryFiles
<1>5. PICK e : e = entries[i]
  OBVIOUS
<1>6. PICK f : f = Filed(e, call)
  OBVIOUS
<1>7. Ranked(f)
  BY <1>1, <1>2, <1>3, <1>4, <1>5, <1>6, FiledRanks
<1>8. f \in Entry /\ f.segs = e.segs /\ f.priority = e.priority
  BY <1>1, <1>2, <1>3, <1>5, <1>6, FiledFacts
<1>9. Urged(f, call.priority) \in Entry /\ Urged(f, call.priority).segs = f.segs
  BY <1>1, <1>8, UrgedFiles
<1>10. Urged(f, call.priority).hosts = f.hosts
  BY <1>8 DEF Urged, Entry
<1>11. Urged(f, call.priority).priority =
         IF call.priority < f.priority THEN call.priority ELSE f.priority
  BY <1>8 DEF Urged, Entry
<1>12. Ranked(Urged(f, call.priority))
  BY <1>7, <1>10 DEF Ranked
<1> QED
  BY <1>5, <1>6, <1>8, <1>9, <1>11, <1>12

LEMMA FreshRanks ==
  ASSUME TableInv, NEW call \in Calls, Valid(call)
  PROVE  LET new == Filed([segs |-> call.segs, priority |-> call.priority,
                           hosts |-> NoVariants], call)
         IN /\ new \in Entry /\ Ranked(new)
            /\ new.segs = call.segs /\ new.priority = call.priority
<1> DEFINE e == [segs |-> call.segs, priority |-> call.priority, hosts |-> NoVariants]
<1>1. /\ call.segs \in Templates /\ call.method \in STRING /\ call.priority \in Int
      /\ HostsOf(call) \in Seq(Listed) /\ HostsOf(call) # << >>
      /\ Len(routes) + 1 \in Nat
  BY ValidCall
<1>2. NoVariants \in [Buckets -> Seq(Variant)] /\ \A b \in Buckets : NoVariants[b] = << >>
  BY DEF NoVariants
<1>3. e \in Entry /\ e.segs = call.segs /\ e.hosts = NoVariants /\ e.priority = call.priority
  BY <1>1, <1>2 DEF Entry
<1> HIDE DEF e
<1>4. \A v : v \notin ToSet(Variants(e))
  <2>1. \A b \in Buckets : ToSet(e.hosts[b]) = {}
    BY <1>2, <1>3 DEF ToSet
  <2> QED
    BY <1>3, <2>1, InVariants
<1>5. /\ \A h : ~Taken(e, h, call.method)
      /\ \A h, m, r : ~Files(e, h, m, r)
  BY <1>4 DEF Taken, Files
<1>6. Ranked(e)
  BY <1>2, <1>3 DEF Ranked, InBucket, Sorted
<1> DEFINE new == Filed(e, call)
<1>7. new \in Entry /\ new.segs = e.segs /\ new.priority = e.priority
  BY <1>1, <1>3, <1>5, FiledFacts
<1>8. Ranked(new)
  BY <1>1, <1>3, <1>5, <1>6, FiledRanks
<1> HIDE DEF new
<1>9. /\ new \in Entry /\ Ranked(new)
      /\ new.segs = call.segs /\ new.priority = call.priority
  BY <1>3, <1>7, <1>8
<1> QED
  BY <1>9 DEF e, new

-----------------------------------------------------------------------------
(* What the table keeps beside TableInv: the order of its entries and of   *)
(* their variants, and the names of the tree's edges.                      *)
NamesKept(t, es) ==
    \A i \in DOMAIN es : Wildcards(es[i].segs) # {} => Named(t, es[i].segs)
OrderInv ==
    /\ InOrder(entries, routes)
    /\ \A i \in DOMAIN entries : Ranked(entries[i])
    /\ NamesKept(tree, entries)

LEMMA OrderInvInit == TableInit => OrderInv
<1> SUFFICES ASSUME TableInit
             PROVE  OrderInv
  OBVIOUS
<1>1. entries = << >> /\ routes = << >>
  BY DEF TableInit
<1>2. DOMAIN entries = {} /\ DOMAIN routes = {}
  BY <1>1
<1> QED
  BY <1>2 DEF OrderInv, InOrder, NamesKept

LEMMA AddToEntryKeepsOrder ==
  TableInv /\ OrderInv => \A call \in Calls : AddToEntry(call) => OrderInv'
<1> SUFFICES ASSUME TableInv, OrderInv, NEW call \in Calls, AddToEntry(call)
             PROVE  OrderInv'
  OBVIOUS
<1>1. Valid(call) /\ routes' = Append(routes, call) /\ tree' = tree
  BY DEF AddToEntry, Record
<1>2. PICK i \in EntryFor(call.segs) :
        entries' = [entries EXCEPT ![i] = Urged(Filed(@, call), call.priority)]
  BY DEF AddToEntry
<1>3. /\ call \in AcceptedCalls /\ call.priority \in Int
      /\ call.segs \in Seq(Seg) /\ call.segs \in Templates
  BY <1>1, ValidCall
<1>4. /\ EntriesInv(entries, routes) /\ entries \in Seq(Entry) /\ OneEach(entries)
      /\ i \in DOMAIN entries /\ Key(entries[i].segs) = Key(call.segs)
  BY <1>2 DEF TableInv, EntriesInv, EntryFor
<1>5. entries[i].segs = call.segs
  <2>1. SameNames(entries[i].segs, call.segs)
    BY <1>1, <1>2 DEF Valid
  <2>2. entries[i].segs \in Seq(Seg)
    BY <1>4, EntryFacts
  <2> QED
    BY <1>3, <1>4, <2>1, <2>2, SameTemplate
<1>6. PICK new : new = Urged(Filed(entries[i], call), call.priority)
  OBVIOUS
<1>7. /\ new \in Entry /\ Ranked(new) /\ new.segs = entries[i].segs
      /\ new.priority = IF call.priority < entries[i].priority THEN call.priority
                        ELSE entries[i].priority
  <2>1. Ranked(entries[i])
    BY <1>4 DEF OrderInv
  <2> QED
    BY <1>1, <1>6, <2>1, RouteRanks
<1>8. entries' = [entries EXCEPT ![i] = new]
  BY <1>2, <1>6, Zenon
<1>9. InOrder(entries', routes')
  <2>1. InOrder(entries, routes)
    BY DEF OrderInv
  <2>2. InOrder([entries EXCEPT ![i] = new], Append(routes, call))
    BY <1>3, <1>4, <1>5, <1>7, <2>1, RouteInOrder
  <2> QED
    BY <1>1, <1>8, <2>2
<1>10. /\ DOMAIN entries' = DOMAIN entries /\ entries'[i] = new
       /\ \A j \in DOMAIN entries : j # i => entries'[j] = entries[j]
  BY <1>4, <1>8
<1>11. \A j \in DOMAIN entries' : Ranked(entries'[j])
  BY <1>7, <1>10 DEF OrderInv
<1>12. NamesKept(tree', entries')
  <2>1. \A j \in DOMAIN entries : entries'[j].segs = entries[j].segs
    BY <1>7, <1>10
  <2>2. NamesKept(tree, entries)
    BY DEF OrderInv
  <2> QED
    BY <1>1, <1>10, <2>1, <2>2 DEF NamesKept
<1> QED
  BY <1>9, <1>11, <1>12 DEF OrderInv

(* One more entry.                                                         *)
LEMMA NewEntryOrdered ==
  TableInv /\ OrderInv =>
    \A call \in Calls :
      /\ Valid(call) /\ EntryFor(call.segs) = {}
      /\ entries' = NewEntry(call) /\ routes' = Append(routes, call)
      => /\ InOrder(entries', routes')
         /\ \A j \in DOMAIN entries' : Ranked(entries'[j])
<1> SUFFICES ASSUME TableInv, OrderInv, NEW call \in Calls, Valid(call),
                    EntryFor(call.segs) = {},
                    entries' = NewEntry(call), routes' = Append(routes, call)
             PROVE  /\ InOrder(entries', routes')
                    /\ \A j \in DOMAIN entries' : Ranked(entries'[j])
  OBVIOUS
<1>1. PICK new : new = Filed([segs |-> call.segs, priority |-> call.priority,
                              hosts |-> NoVariants], call)
  OBVIOUS
<1>2. /\ new \in Entry /\ Ranked(new)
      /\ new.segs = call.segs /\ new.priority = call.priority
  BY <1>1, FreshRanks
<1>3. entries' = Append(entries, new)
  BY <1>1 DEF NewEntry
<1>4. EntriesInv(entries, routes) /\ entries \in Seq(Entry) /\ InOrder(entries, routes)
  BY DEF TableInv, EntriesInv, OrderInv
<1>5. InOrder(Append(entries, new), Append(routes, call))
  <2>1. \A j \in DOMAIN entries : Key(entries[j].segs) # Key(call.segs)
    BY DEF EntryFor
  <2>2. call \in AcceptedCalls
    BY ValidCall
  <2> QED
    BY <1>2, <1>4, <2>1, <2>2, EntryInOrder
<1>6. \A j \in DOMAIN Append(entries, new) : Ranked(Append(entries, new)[j])
  <2>1. /\ DOMAIN Append(entries, new) = DOMAIN entries \cup {Len(entries) + 1}
        /\ Append(entries, new)[Len(entries) + 1] = new
        /\ \A j \in DOMAIN entries : Append(entries, new)[j] = entries[j]
    BY <1>2, <1>4, OneMore
  <2>2. \A j \in DOMAIN entries : Ranked(entries[j])
    BY DEF OrderInv
  <2> QED
    BY <1>2, <2>1, <2>2
<1> QED
  BY <1>3, <1>5, <1>6

LEMMA AddStaticKeepsOrder ==
  TableInv /\ OrderInv => \A call \in Calls : AddStatic(call) => OrderInv'
<1> SUFFICES ASSUME TableInv, OrderInv, NEW call \in Calls, AddStatic(call)
             PROVE  OrderInv'
  OBVIOUS
<1>1. /\ Valid(call) /\ EntryFor(call.segs) = {} /\ Wildcards(call.segs) = {}
      /\ entries' = NewEntry(call) /\ routes' = Append(routes, call) /\ tree' = tree
  BY DEF AddStatic, Record
<1>2. /\ DOMAIN entries' = DOMAIN entries \cup {Len(entries) + 1}
      /\ entries'[Len(entries) + 1].segs = call.segs
      /\ \A j \in DOMAIN entries : entries'[j] = entries[j]
  BY <1>1, NewEntryAdded
<1>3. InOrder(entries', routes') /\ \A j \in DOMAIN entries' : Ranked(entries'[j])
  BY <1>1, NewEntryOrdered
<1>4. NamesKept(tree', entries')
  BY <1>1, <1>2 DEF OrderInv, NamesKept
<1> QED
  BY <1>3, <1>4 DEF OrderInv

LEMMA AddToTreeKeepsOrder ==
  TableInv /\ OrderInv => \A call \in Calls : AddToTree(call) => OrderInv'
<1> SUFFICES ASSUME TableInv, OrderInv, NEW call \in Calls, AddToTree(call)
             PROVE  OrderInv'
  OBVIOUS
<1> DEFINE k == Len(entries) + 1
           ins == Insert(tree, call.segs, k)
<1>1. /\ Valid(call) /\ EntryFor(call.segs) = {} /\ tree' = ins.tree
      /\ \/ ins.ok /\ entries' = NewEntry(call) /\ routes' = Append(routes, call)
         \/ ~ins.ok /\ entries' = entries /\ routes' = routes
  BY DEF AddToTree, Record, Refuse
<1>2. TreeInv(tree) /\ IsFiniteSet(Stored(tree)) /\ entries \in Seq(Entry) /\ k \in Nat
  BY DEF TableInv, EntriesInv
<1>3. call.segs \in Seq(Seg)
  BY <1>1, ValidCall
<1>4. CASE ins.ok
  <2>1. /\ DOMAIN entries' = DOMAIN entries \cup {k}
        /\ entries'[k].segs = call.segs
        /\ \A j \in DOMAIN entries : entries'[j] = entries[j]
    BY <1>1, <1>4, NewEntryAdded
  <2>2. InOrder(entries', routes') /\ \A j \in DOMAIN entries' : Ranked(entries'[j])
    BY <1>1, <1>4, NewEntryOrdered
  <2>3. KeepsNames(tree, tree') /\ Named(tree', call.segs)
    <3> HIDE DEF k
    <3>1. KeepsNames(tree, ins.tree) /\ Named(ins.tree, call.segs)
      BY <1>2, <1>3, <1>4, InsertNames
    <3> QED
      BY <1>1, <3>1
  <2> HIDE DEF ins, k
  <2>4. ASSUME NEW j \in DOMAIN entries, Wildcards(entries[j].segs) # {}
        PROVE  Named(tree', entries[j].segs)
    <3>1. entries[j].segs \in Seq(Seg)
      BY EntryFacts
    <3>2. Named(tree, entries[j].segs)
      BY <2>4 DEF OrderInv, NamesKept
    <3> QED
      BY <2>3, <3>1, <3>2, StillNamed
  <2>5. NamesKept(tree', entries')
    BY <2>1, <2>3, <2>4 DEF NamesKept
  <2> QED
    BY <2>2, <2>5 DEF OrderInv
<1>5. CASE ~ins.ok
  <2>1. tree' = tree
    <3> HIDE DEF k
    <3>1. ins.tree = tree
      BY <1>2, <1>3, <1>5, InsertFacts
    <3> QED
      BY <1>1, <3>1
  <2>2. entries' = entries /\ routes' = routes
    BY <1>1, <1>5
  <2> QED
    BY <2>1, <2>2 DEF OrderInv
<1> QED
  BY <1>4, <1>5

LEMMA OrderStep ==
  ASSUME TableInv, OrderInv, [\E call \in Calls : Handle(call)]_tableVars
  PROVE  OrderInv'
<1>1. ASSUME NEW call \in Calls, RefuseInvalid(call)
      PROVE  OrderInv'
  <2>1. tree' = tree /\ entries' = entries /\ routes' = routes
    BY <1>1 DEF RefuseInvalid, Refuse
  <2> QED
    BY <2>1 DEF OrderInv
<1>2. CASE UNCHANGED tableVars
  BY <1>2 DEF tableVars, OrderInv
<1> QED
  BY <1>1, <1>2, AddToEntryKeepsOrder, AddStaticKeepsOrder, AddToTreeKeepsOrder DEF Handle

(* Entries, their variants and the tree's edges keep their order and their *)
(* names in every table that calls can make.                               *)
THEOREM OrderIsKept == TableSpec => [](TableInv /\ OrderInv)
<1>1. TableInit => OrderInv
  BY OrderInvInit
<1>2. TableInv /\ OrderInv /\ [\E call \in Calls : Handle(call)]_tableVars => OrderInv'
  BY OrderStep
<1>3. TableSpec => []TableInv
  BY TableInvariance
<1> QED
  BY <1>1, <1>2, <1>3, PTL DEF TableSpec

-----------------------------------------------------------------------------
(* What a template captures, segment by segment and as a whole.            *)
Joined(b, seqs, n) ==
    /\ b[0] = << >>
    /\ \A i \in 1 .. n : b[i] = b[i - 1] \o seqs[i]

LEMMA FlattenIs ==
  ASSUME NEW T, NEW n \in Nat \ {0}, NEW seqs \in [1 .. n -> Seq(T)],
         NEW b \in [0 .. n -> Seq(T)], Joined(b, seqs, n)
  PROVE  FlattenSeq(seqs) = b[n]
<1> DEFINE Def(g) == g = [i \in 1 .. n |-> IF i = 1 THEN seqs[i] ELSE g[i - 1] \o seqs[i]]
           flatten == CHOOSE g : Def(g)
           f == [i \in 1 .. n |-> b[i]]
<1>1. Len(seqs) = n
  OBVIOUS
<1>2. b[1] = seqs[1]
  <2>1. \A x \in Seq(T) : << >> \o x = x
    OBVIOUS
  <2>2. 1 \in 1 .. n /\ 1 - 1 = 0
    OBVIOUS
  <2>3. b[1] = << >> \o seqs[1] /\ seqs[1] \in Seq(T)
    BY <2>2 DEF Joined
  <2> QED
    BY <2>1, <2>3
<1>9. \A i \in 1 .. n : b[i] = b[i - 1] \o seqs[i]
  BY DEF Joined
<1>3. Def(f)
  <2>1. ASSUME NEW i \in 1 .. n
        PROVE  f[i] = IF i = 1 THEN seqs[i] ELSE f[i - 1] \o seqs[i]
    <3>1. CASE i = 1
      BY <1>2, <3>1
    <3>2. CASE i # 1
      <4>1. i - 1 \in 1 .. n
        BY <3>2
      <4> QED
        BY <1>9, <3>2, <4>1
    <3> QED
      BY <3>1, <3>2
  <2> QED
    BY <2>1
<1>4. Def(flatten)
  <2> HIDE DEF Def
  <2> QED
    BY <1>3
<1>5. FlattenSeq(seqs) = flatten[n]
  BY <1>1 DEF FlattenSeq
<1> HIDE DEF flatten
<1>6. \A i \in 1 .. n : flatten[i] = IF i = 1 THEN seqs[i] ELSE flatten[i - 1] \o seqs[i]
  BY <1>4
<1> HIDE DEF Def, f
<1>11. ASSUME NEW i \in 1 .. n, i # 1, flatten[i - 1] = b[i - 1]
       PROVE  flatten[i] = b[i]
  <2>1. flatten[i] = flatten[i - 1] \o seqs[i]
    BY <1>6, <1>11
  <2>2. b[i] = b[i - 1] \o seqs[i]
    BY <1>9
  <2> QED
    BY <1>11, <2>1, <2>2, Zenon
<1>12. flatten[1] = b[1]
  <2>1. 1 \in 1 .. n
    OBVIOUS
  <2>2. flatten[1] = seqs[1]
    BY <1>6, <2>1
  <2> QED
    BY <1>2, <2>2
<1> DEFINE Same(k) == k # 0 => flatten[k] = b[k]
           S == {k \in 0 .. n : Same(k)}
<1>7. 0 \in S
  OBVIOUS
<1>8. ASSUME NEW k \in Nat, k < n, Same(k)
      PROVE  Same(k + 1)
  <2>1. PICK i : i = k + 1
    OBVIOUS
  <2>2. i \in 1 .. n /\ i - 1 = k /\ (k # 0 => i # 1)
    BY <1>8, <2>1
  <2>3. CASE k = 0
    BY <1>12, <2>1, <2>3
  <2>4. CASE k # 0
    <3>1. flatten[i - 1] = b[i - 1]
      BY <1>8, <2>2, <2>4
    <3> HIDE DEF Same
    <3>2. flatten[i] = b[i]
      BY <1>11, <2>2, <2>4, <3>1
    <3> QED
      BY <2>1, <3>2 DEF Same
  <2> QED
    BY <2>3, <2>4
<1> HIDE DEF Same
<1>13. \A k \in Nat : k < n /\ k \in S => k + 1 \in S
  BY <1>8
<1> HIDE DEF S
<1>10. n \in S
  <2>1. \A k \in 0 .. n : k \in S
    BY <1>7, <1>13, UpTo
  <2> QED
    BY <2>1
<1> QED
  BY <1>5, <1>10 DEF S, Same

LEMMA BindingsAre ==
  ASSUME NEW S, NEW path \in Seq(S), NEW segs \in Templates, PathMatches(segs, path)
  PROVE  /\ Extract(segs, path).params = Bindings(segs, path)
         /\ Bindings(segs, path) \in Seq(Bound(S))
         /\ \A b : Chained(b, segs, path) /\ (\A i \in 0 .. Len(segs) : b[i] \in Seq(Bound(S)))
              => b[Len(segs)] = Bindings(segs, path)
<1>1. PICK n : n = Len(segs)
  OBVIOUS
<1>2. n \in Nat \ {0} /\ DOMAIN segs = 1 .. n /\ segs \in Seq(Seg)
  BY <1>1 DEF Templates, WellFormed
<1> DEFINE seqs == [i \in DOMAIN segs |-> Bind(segs[i], path, i)]
<1>3. ASSUME NEW b, Chained(b, segs, path), \A i \in 0 .. n : b[i] \in Seq(Bound(S))
      PROVE  b[n] = Bindings(segs, path)
  <2> DEFINE c == [i \in 0 .. n |-> b[i]]
  <2>1. c \in [0 .. n -> Seq(Bound(S))] /\ c[0] = << >> /\ c[n] = b[n]
    BY <1>2, <1>3 DEF Chained
  <2>2. \A i \in 1 .. n : c[i] = c[i - 1] \o seqs[i]
    <3>1. \A i \in 1 .. n : c[i] = b[i] /\ c[i - 1] = b[i - 1]
      BY <1>2
    <3>2. \A i \in 1 .. n : b[i] = b[i - 1] \o Bind(segs[i], path, i)
      BY <1>1, <1>3 DEF Chained
    <3>3. \A i \in 1 .. n : seqs[i] = Bind(segs[i], path, i)
      BY <1>2
    <3> HIDE DEF c, seqs
    <3> QED
      BY <3>1, <3>2, <3>3
  <2>3. seqs \in [1 .. n -> Seq(Bound(S))]
    <3>1. ASSUME NEW i \in 1 .. n
          PROVE  Bind(segs[i], path, i) \in Seq(Bound(S))
      <4>1. segs[i].kind = "param" => i <= Len(path)
        <5>1. i \in DOMAIN segs /\ segs[i] \in Seg /\ segs # << >>
          BY <1>2
        <5>2. Last(segs) = segs[n] /\ Len(path) \in Nat
          BY <1>1, <1>2 DEF Last
        <5>3. Last(segs).kind = "catchAll" => Len(path) >= n - 1
          BY <1>1, <5>1 DEF PathMatches
        <5>4. Last(segs).kind # "catchAll" => Len(path) = n
          BY <1>1, <5>1 DEF PathMatches
        <5>5. segs[i].kind = "param" /\ Last(segs).kind = "catchAll" => i # n
          BY <5>2
        <5> QED
          BY <1>2, <5>2, <5>3, <5>4, <5>5
      <4> QED
        BY <1>1, <1>2, <4>1, BindTyped
    <3> QED
      BY <1>2, <3>1
  <2> HIDE DEF c, seqs
  <2>4. FlattenSeq(seqs) = c[n]
    <3>1. Joined(c, seqs, n)
      BY <2>1, <2>2 DEF Joined
    <3> QED
      BY <1>2, <2>1, <2>3, <3>1, FlattenIs
  <2> QED
    BY <2>1, <2>4 DEF Bindings, seqs
<1>4. PICK b : /\ Chained(b, segs, path) /\ Extract(segs, path).params = b[n]
               /\ \A i \in 0 .. n : b[i] \in Seq(Bound(S))
  BY <1>1, ExtractFacts
<1>5. n \in 0 .. n
  BY <1>2
<1> QED
  BY <1>1, <1>3, <1>4, <1>5

-----------------------------------------------------------------------------
(* The fast paths *)

LEMMA Shallow ==
  ASSUME TableInv, OrderInv, WithinDepth, NEW i \in DOMAIN entries
  PROVE  Len(entries[i].segs) <= SpecDepth
<1>1. PICK r \in DOMAIN routes : Key(routes[r].segs) = Key(entries[i].segs)
  BY DEF OrderInv, InOrder
<1>2. routes[r].segs = entries[i].segs
  BY <1>1 DEF OrderInv, InOrder
<1>3. routes[r] \in Calls
  BY RouteFacts
<1> QED
  BY <1>2, <1>3 DEF WithinDepth

(* Without priorities the more specific template comes first.              *)
LEMMA AheadPrecedes ==
  ASSUME TableInv, OrderInv, WithinDepth, NEW i \in DOMAIN entries, NEW j \in DOMAIN entries,
         entries[i].priority = entries[j].priority,
         Ahead(Key(entries[i].segs), Key(entries[j].segs), 1)
  PROVE  Precedes(i, j) /\ ~Precedes(j, i)
<1>1. /\ entries[i].segs \in Seq(Seg) /\ entries[j].segs \in Seq(Seg)
      /\ Len(entries[i].segs) <= SpecDepth /\ Len(entries[j].segs) <= SpecDepth
  BY EntryFacts, Shallow
<1>2. Outranks(Specificity(entries[i].segs), Specificity(entries[j].segs))
  BY <1>1, AheadIs
<1>3. Precedes(i, j)
  BY <1>2 DEF Precedes
<1>4. /\ Specificity(entries[i].segs) \in [1 .. SpecDepth -> Int]
      /\ Specificity(entries[j].segs) \in [1 .. SpecDepth -> Int]
      /\ SpecDepth \in Nat
  BY <1>1, SpecificityTyped, BoundAssumption
<1>5. /\ ~Outranks(Specificity(entries[j].segs), Specificity(entries[i].segs))
      /\ ~Outranks(Specificity(entries[i].segs), Specificity(entries[i].segs))
  BY <1>2, <1>4, OutranksOrders
<1>6. Specificity(entries[i].segs) # Specificity(entries[j].segs)
  BY <1>2, <1>5
<1>7. entries[i].priority \in Int /\ entries[j].priority \in Int
  <2>1. \A e \in Entry : e.priority \in Int
    BY DEF Entry
  <2> QED
    BY <2>1, EntryFacts
<1>8. ~Precedes(j, i)
  BY <1>5, <1>6, <1>7 DEF Precedes
<1> QED
  BY <1>3, <1>8

(* A static template is more specific than any other that matches its path. *)
LEMMA StaticAhead ==
  ASSUME NEW S, NEW path \in Seq(S), NEW x \in Templates, NEW y \in Templates,
         PathMatches(x, path), PathMatches(y, path),
         Wildcards(x) = {}, Wildcards(y) # {}
  PROVE  Ahead(Key(x), Key(y), 1)
<1>1. /\ x \in Seq(Seg) /\ y \in Seq(Seg) /\ Len(x) \in Nat /\ Len(y) \in Nat \ {0}
      /\ x # << >> /\ y # << >> /\ DOMAIN x = 1 .. Len(x) /\ DOMAIN y = 1 .. Len(y)
  BY DEF Templates, WellFormed
<1>2. PICK m : m \in Wildcards(y) /\ \A i \in Wildcards(y) : m <= i
  <2>1. Wildcards(y) \in SUBSET Nat
    BY <1>1 DEF Wildcards
  <2> QED
    BY <2>1, MinIsMember
<1>3. /\ m \in 1 .. Len(y) /\ y[m] \in Seg /\ y[m].kind # "static"
      /\ \A i \in 1 .. m - 1 : y[i].kind = "static" /\ i \in 1 .. Len(y)
  BY <1>1, <1>2 DEF Wildcards
<1>4. \A i \in 1 .. Len(x) : x[i].kind = "static"
  BY <1>1 DEF Wildcards
<1>5. Last(x) = x[Len(x)] /\ Last(y) = y[Len(y)] /\ Len(x) \in 1 .. Len(x)
  BY <1>1 DEF Last
<1>6. Len(path) = Len(x) /\ Len(path) \in Nat
  BY <1>1, <1>4, <1>5 DEF PathMatches
<1>7. y[m].kind = "catchAll" => m = Len(y)
  BY <1>1, <1>3 DEF Templates, WellFormed
<1>8. /\ y[m].kind = "catchAll" => m <= Len(x) + 1
      /\ y[m].kind # "catchAll" => m <= Len(x)
  <2>1. CASE Last(y).kind = "catchAll"
    <3>1. Len(path) >= Len(y) - 1
      BY <1>1, <2>1 DEF PathMatches
    <3>2. y[m].kind # "catchAll" => m # Len(y)
      BY <1>5, <2>1
    <3>3. m \in Nat /\ m <= Len(y)
      BY <1>1, <1>3
    <3>4. m <= Len(x) + 1 /\ (m # Len(y) => m <= Len(x))
      <4>1. Len(x) \in Nat /\ Len(y) \in Nat /\ Len(x) >= Len(y) - 1
        BY <1>1, <1>6, <3>1
      <4> QED
        BY <3>3, <4>1
    <3> QED
      BY <3>2, <3>4
  <2>2. CASE Last(y).kind # "catchAll"
    <3>1. Len(path) = Len(y)
      BY <1>1, <2>2 DEF PathMatches
    <3> QED
      BY <1>1, <1>3, <1>6, <3>1
  <2> QED
    BY <2>1, <2>2
<1>9. /\ \A i \in 1 .. Len(x) : NodeRank(Key(x), i) = 5
      /\ \A i \in Nat : i > Len(x) => NodeRank(Key(x), i) = 2
  <2>1. Len(Key(x)) = Len(x) /\ \A i \in 1 .. Len(x) : Key(x)[i] = <<"static", x[i].text>>
    BY <1>1, <1>4 DEF Key, Label
  <2>2. \A i \in 1 .. Len(x) : ~(i > Len(Key(x)))
    BY <1>1, <2>1
  <2>3. \A i \in 1 .. Len(x) : NodeRank(Key(x), i) = 5
    BY <2>1, <2>2, LabelRanks DEF NodeRank
  <2>4. \A i \in Nat : i > Len(x) => NodeRank(Key(x), i) = 2
    BY <2>1 DEF NodeRank
  <2> QED
    BY <2>3, <2>4
<1>10. \A i \in 1 .. m - 1 : NodeRank(Key(y), i) = 5
  <2>1. Len(Key(y)) = Len(y) /\ \A i \in 1 .. m - 1 : Key(y)[i] = <<"static", y[i].text>>
    BY <1>1, <1>3 DEF Key, Label
  <2>2. \A i \in 1 .. m - 1 : ~(i > Len(Key(y)))
    BY <1>3, <2>1
  <2> QED
    BY <2>1, <2>2, LabelRanks DEF NodeRank
<1>11. NodeRank(Key(y), m) = IF y[m].kind = "catchAll" THEN 1 ELSE 3
  <2>1. Len(Key(y)) = Len(y) /\ Key(y)[m] = Label(y[m])
    BY <1>1, <1>3 DEF Key
  <2>2. NodeRank(Key(y), m) = LabelRank(Label(y[m]))
    BY <1>3, <2>1 DEF NodeRank
  <2>3. CASE y[m].kind = "catchAll"
    <3>1. Label(y[m]) = CatchAllLabel
      BY <1>3, <2>3, CatchAllFacts DEF CatchAlls
    <3> QED
      BY <2>2, <2>3, <3>1, LabelRanks
  <2>4. CASE y[m].kind # "catchAll"
    <3>1. y[m].kind = "param"
      BY <1>3, <2>4, SegKind
    <3>2. Label(y[m]) = ParamLabel
      BY <1>3, <3>1, ParamFacts DEF Params
    <3> QED
      BY <2>2, <2>4, <3>2, LabelRanks
  <2> QED
    BY <2>3, <2>4
<1>12. m \in Nat /\ 1 <= m
  BY <1>1, <1>3
<1>13. NodeRank(Key(x), m) > NodeRank(Key(y), m)
  <2>1. NodeRank(Key(x), m) = 5 \/ NodeRank(Key(x), m) = 2
    BY <1>1, <1>9, <1>12
  <2>2. y[m].kind # "catchAll" => NodeRank(Key(x), m) = 5
    BY <1>1, <1>8, <1>9, <1>12
  <2> QED
    BY <1>11, <2>1, <2>2
<1>14. \A i \in 1 .. m - 1 : i \in 1 .. Len(x)
  BY <1>1, <1>3, <1>8
<1>15. \A i \in 1 .. m - 1 : NodeRank(Key(x), i) = NodeRank(Key(y), i)
  BY <1>9, <1>10, <1>14
<1> QED
  BY <1>12, <1>13, <1>15 DEF Ahead

(* A candidate that every other is behind answers, if it has a route.      *)
LEMMA FirstAnswers ==
  ASSUME TableInv, OrderInv, WithinDepth, ~HasPriority, NEW S, NEW q, q.path \in Seq(S),
         NEW i \in Candidates(q.path), Resolved(i, q) # NoRoute,
         \A j \in Candidates(q.path) \ {i} : Ahead(Key(entries[i].segs), Key(entries[j].segs), 1)
  PROVE  SlowPath(q) = Answer(i, q)
<1> DEFINE C == Candidates(q.path)
           usable == {j \in C : Usable(j, q)}
<1>1. C \subseteq DOMAIN entries
  BY CandidatesFacts
<1>2. i \in usable
  BY UsableFacts
<1>3. \A j \in DOMAIN entries : entries[j].priority = DefaultPriority
  BY DEF HasPriority, ToSet
<1>4. \A j \in usable \ {i} : Precedes(i, j) /\ ~Precedes(j, i)
  <2> SUFFICES ASSUME NEW j \in usable \ {i}
               PROVE  Precedes(i, j) /\ ~Precedes(j, i)
    OBVIOUS
  <2>1. i \in DOMAIN entries /\ j \in DOMAIN entries /\ j \in C \ {i}
    BY <1>1, <1>2
  <2>2. entries[i].priority = entries[j].priority
    BY <1>3, <2>1
  <2> QED
    BY <2>1, <2>2, AheadPrecedes
<1>5. SlowPath(q) = Answer(Foremost(usable), q)
  BY <1>2 DEF SlowPath, FirstIn
<1>6. usable \in SUBSET DOMAIN entries /\ usable # {}
  BY <1>1, <1>2
<1> HIDE DEF usable
<1>7. /\ Foremost(usable) \in usable
      /\ \A j \in usable \ {Foremost(usable)} : Precedes(Foremost(usable), j)
  BY <1>6, ForemostFacts
<1>8. Foremost(usable) = i
  BY <1>2, <1>4, <1>7
<1> QED
  BY <1>5, <1>8

LEMMA AnswerIs ==
  ASSUME TableInv, NEW S, NEW q, q.path \in Seq(S), NEW i \in Candidates(q.path)
  PROVE  Answer(i, q) = Hit(Resolved(i, q),
                            Resolve(entries[i], q).params \o Bindings(entries[i].segs, q.path))
<1>1. i \in DOMAIN entries /\ PathMatches(entries[i].segs, q.path)
  BY CandidatesFacts
<1>2. Extract(entries[i].segs, q.path).params = Bindings(entries[i].segs, q.path)
  BY <1>1, EntryFacts, BindingsAre
<1> QED
  BY <1>2 DEF Answer, Resolved

(* What the tree finds at once is ahead of all other candidates, and       *)
(* captures what its template does.                                        *)
LEMMA TreeIsAhead ==
  ASSUME TableInv, OrderInv, NEW S, NEW path \in Seq(S), Lookup(tree, path).ok
  PROVE  LET r == Lookup(tree, path)
         IN /\ r.value \in DOMAIN entries
            /\ r.params = Bindings(entries[r.value].segs, path)
            /\ \A j \in Collect(tree, path) \ {r.value} :
                 Ahead(Key(entries[r.value].segs), Key(entries[j].segs), 1)
<1>1. PICK v, params : v = Lookup(tree, path).value /\ params = Lookup(tree, path).params
  OBVIOUS
<1>2. TreeInv(tree) /\ TreeHas(tree, entries) /\ OneEach(entries) /\ entries \in Seq(Entry)
  BY DEF TableInv, EntriesInv
<1>3. Grows(tree, entries)
  BY <1>2 DEF Grows, OrderInv, NamesKept
<1>4. Matched(tree, entries, Lookup(tree, path), << >>, path, S)
  BY <1>3, LookupIsBest
<1>5. PICK m : /\ Best(tree, m, v, << >>, path)
               /\ Binds(entries[v].segs, 0, path, params, S)
  <2>1. Len(<< >>) = 0
    OBVIOUS
  <2> QED
    BY <1>1, <1>4, <2>1 DEF Matched
<1>6. v \in Collect(tree, path)
  BY <1>1, <1>2, LookupFinds
<1>7. v \in DOMAIN entries /\ PathMatches(entries[v].segs, path) /\ entries[v].segs \in Templates
  <2>1. v \in Candidates(path)
    BY <1>6 DEF Candidates
  <2> QED
    BY <2>1, CandidatesFacts, EntryFacts
<1>8. params \in Seq(Bound(S))
  <2>1. PICK f : /\ Lookup(tree, path) = f[Len(path)][<< >>]
                 /\ \A j \in 0 .. Len(path) : f[j] \in [DOMAIN tree -> Results(S)]
    BY <1>2, LookupRuns
  <2>2. Len(path) \in 0 .. Len(path) /\ << >> \in DOMAIN tree
    BY <1>2 DEF TreeInv
  <2>3. Lookup(tree, path) \in Results(S)
    BY <2>1, <2>2
  <2> QED
    BY <1>1, <2>3 DEF Results
<1>9. params = Bindings(entries[v].segs, path)
  <2> DEFINE segs == entries[v].segs
  <2>1. PICK b : /\ Chained(b, segs, path)
                 /\ \A i \in 0 .. Len(segs) : b[i] \in Seq(Bound(S))
    BY <1>7, ExtractFacts
  <2>2. b[Len(segs)] = Bindings(segs, path)
    BY <1>7, <2>1, BindingsAre
  <2>3. b[0] \o params = b[Len(segs)] /\ b[0] = << >>
    BY <1>5, <2>1 DEF Binds, Chained
  <2>4. << >> \o params = params
    BY <1>8
  <2> QED
    BY <2>2, <2>3, <2>4
<1>10. ASSUME NEW j \in Collect(tree, path) \ {v}
       PROVE  Ahead(Key(entries[v].segs), Key(entries[j].segs), 1)
  <2>1. Holds(tree, m, v)
    BY <1>5 DEF Best
  <2>2. m = Key(entries[v].segs)
    BY <1>2, <2>1 DEF TreeHas
  <2>3. PICK w : Holds(tree, w, j) /\ FitsBelow(w, << >>, path)
    BY <1>2, RootGives DEF Given
  <2>4. j \in DOMAIN entries /\ w = Key(entries[j].segs)
    BY <1>2, <2>3 DEF TreeHas
  <2>5. w # m
    BY <1>2, <1>7, <2>2, <2>4 DEF OneEach
  <2>6. Len(<< >>) + 1 = 1
    OBVIOUS
  <2> QED
    BY <1>5, <2>2, <2>3, <2>4, <2>5, <2>6 DEF Best
<1> QED
  BY <1>1, <1>7, <1>9, <1>10

(* The fast paths decide as the slow path would.                           *)
LEMMA FastIsSlow ==
  ASSUME TableInv, OrderInv, WithinDepth, ~HasPriority, NEW S, NEW q, q.path \in Seq(S),
         FastPath(q) # << >>
  PROVE  Head(FastPath(q)) = SlowPath(q)
<1> DEFINE C == Candidates(q.path)
<1>1. ASSUME NEW i \in C, NEW params, params = Bindings(entries[i].segs, q.path),
             FastPath(q) = IfServed(Resolve(entries[i], q), params),
             \A j \in C \ {i} : Ahead(Key(entries[i].segs), Key(entries[j].segs), 1)
      PROVE  Head(FastPath(q)) = SlowPath(q)
  <2> DEFINE found == Resolve(entries[i], q)
             x == Hit(found.route, found.params \o params)
  <2>1. found.route # NoRoute /\ IfServed(found, params) = <<x>>
    BY <1>1 DEF IfServed
  <2>2. SlowPath(q) = Answer(i, q)
    BY <1>1, <2>1, FirstAnswers DEF Resolved
  <2>3. Answer(i, q) = x
    BY <1>1, AnswerIs DEF Resolved
  <2>4. FastPath(q) = <<x>>
    BY <1>1, <2>1
  <2> HIDE DEF x
  <2> QED
    BY <2>2, <2>3, <2>4
<1>2. CASE q.path \in DOMAIN static
  <2>1. PICK i : i = static[q.path]
    OBVIOUS
  <2>2. /\ i \in DOMAIN entries /\ AsPath(entries[i].segs) = q.path
        /\ Wildcards(entries[i].segs) = {}
    BY <1>2, <2>1 DEF TableInv, StaticInv
  <2>3. i \in C
    BY <1>2, <2>1 DEF Candidates, Seed
  <2>4. entries[i].segs \in Templates /\ PathMatches(entries[i].segs, q.path)
    BY <2>3, CandidatesFacts, EntryFacts
  <2>5. ASSUME NEW j \in C \ {i}
        PROVE  Ahead(Key(entries[i].segs), Key(entries[j].segs), 1)
    <3>1. /\ j \in DOMAIN entries /\ entries[j].segs \in Templates
          /\ PathMatches(entries[j].segs, q.path)
      BY CandidatesFacts, EntryFacts
    <3>2. Wildcards(entries[j].segs) # {}
      <4>1. Wildcards(entries[j].segs) = {} => AsPath(entries[j].segs) = q.path
        BY <3>1, StaticFits
      <4>2. Wildcards(entries[j].segs) = {} => static[AsPath(entries[j].segs)] = j
        BY <3>1 DEF TableInv, StaticInv
      <4> QED
        BY <2>1, <4>1, <4>2
    <3> QED
      BY <2>2, <2>4, <3>1, <3>2, StaticAhead
  <2>6. Bindings(entries[i].segs, q.path) = << >>
    <3>1. \A k \in DOMAIN entries[i].segs : Bind(entries[i].segs[k], q.path, k) = << >>
      BY <2>2 DEF Bind, Wildcards
    <3>2. PICK b : /\ Chained(b, entries[i].segs, q.path)
                   /\ \A k \in 0 .. Len(entries[i].segs) : b[k] \in Seq(Bound(S))
      BY <2>4, ExtractFacts
    <3>3. b[Len(entries[i].segs)] = Bindings(entries[i].segs, q.path)
      BY <2>4, <3>2, BindingsAre
    <3>4. PICK n : n = Len(entries[i].segs) /\ n \in Nat /\ DOMAIN entries[i].segs = 1 .. n
      BY <2>4 DEF Templates
    <3>5. \A k \in 1 .. n : b[k] = b[k - 1] \o << >>
      BY <3>1, <3>2, <3>4 DEF Chained
    <3> DEFINE T == {k \in 0 .. n : b[k] = << >>}
    <3>6. 0 \in T
      BY <3>2, <3>4 DEF Chained
    <3>7. \A k \in Nat : k < n /\ k \in T => k + 1 \in T
      <4>1. ASSUME NEW k \in Nat, k < n, k \in T
            PROVE  k + 1 \in T
        <5>1. PICK l : l = k + 1
          OBVIOUS
        <5>2. l \in 1 .. n /\ l - 1 = k /\ l \in 0 .. n
          BY <3>4, <4>1, <5>1
        <5>3. b[k] = << >>
          BY <4>1
        <5>4. b[l] = << >> \o << >>
          BY <3>5, <5>2, <5>3, Zenon
        <5>5. << >> \o << >> = << >>
          OBVIOUS
        <5> QED
          BY <5>1, <5>2, <5>4, <5>5
      <4> QED
        BY <4>1
    <3>8. n \in T
      <4> HIDE DEF T
      <4>1. \A k \in 0 .. n : k \in T
        BY <3>4, <3>6, <3>7, UpTo
      <4> QED
        BY <3>4, <4>1
    <3> QED
      BY <3>3, <3>4, <3>8
  <2>7. FastPath(q) = IfServed(Resolve(entries[i], q), << >>)
    BY <1>2, <2>1 DEF FastPath
  <2> QED
    BY <1>1, <2>3, <2>5, <2>6, <2>7
<1>3. CASE q.path \notin DOMAIN static
  <2>1. FastPath(q) = FromTree(Lookup(tree, q.path), q) /\ C = Collect(tree, q.path)
    BY <1>3 DEF FastPath, Candidates, Seed
  <2>2. TreeInv(tree)
    BY DEF TableInv
  <2>3. CASE Lookup(tree, q.path).ok
    <3>1. PICK i, params : i = Lookup(tree, q.path).value /\ params = Lookup(tree, q.path).params
      OBVIOUS
    <3>2. i \in C
      BY <2>1, <2>2, <2>3, <3>1, LookupFinds
    <3>3. /\ params = Bindings(entries[i].segs, q.path)
          /\ \A j \in C \ {i} : Ahead(Key(entries[i].segs), Key(entries[j].segs), 1)
      BY <2>1, <2>3, <3>1, TreeIsAhead
    <3>4. FastPath(q) = IfServed(Resolve(entries[i], q), params)
      BY <2>1, <2>3, <3>1 DEF FromTree
    <3> HIDE DEF C
    <3> QED
      BY <1>1, <3>2, <3>3, <3>4
  <2>4. CASE ~Lookup(tree, q.path).ok
    <3>1. C = {}
      BY <2>1, <2>2, <2>4, LookupFinds
    <3>2. FastPath(q) = <<Miss(FALSE)>>
      BY <2>1, <2>4 DEF FromTree
    <3>3. SlowPath(q) = Miss(\E i \in C : Resolve(entries[i], q).hostOK)
      BY <3>1 DEF SlowPath, FirstIn
    <3>4. (\E i \in C : Resolve(entries[i], q).hostOK) = FALSE
      BY <3>1
    <3> HIDE DEF C
    <3>5. SlowPath(q) = Miss(FALSE)
      BY <3>3, <3>4
    <3> QED
      BY <3>2, <3>5
  <2> QED
    BY <2>3, <2>4
<1> QED
  BY <1>2, <1>3

(* Whichever path find takes, it finds what sorting every candidate would. *)
LEMMA FindIsSlow ==
  ASSUME TableInv, OrderInv, WithinDepth, NEW S, NEW q, q.path \in Seq(S)
  PROVE  Find(q) = SlowPath(q)
BY FastIsSlow DEF Find, OrElse

-----------------------------------------------------------------------------
(* The order of all of an entry's variants *)

(* Ahead of another variant, in its bucket or in an earlier one.           *)
Over(v, w) ==
    /\ v.host # w.host
    /\ \/ Outranks(Score(v.host), Score(w.host))
       \/ /\ Score(v.host) = Score(w.host)
          /\ \/ w.host = EveryHost
             \/ v.host # EveryHost /\ w.host # EveryHost /\ Earlier(v, w)
AllOver(vs) == \A i, j \in DOMAIN vs : i < j => Over(vs[i], vs[j])

LEMMA ConcatOver ==
  ASSUME NEW x \in Seq(Variant), NEW y \in Seq(Variant), AllOver(x), AllOver(y),
         \A i \in DOMAIN x, j \in DOMAIN y : Over(x[i], y[j])
  PROVE  AllOver(x \o y) /\ x \o y \in Seq(Variant)
<1>1. PICK n, k : n = Len(x) /\ k = Len(y)
  OBVIOUS
<1>2. PICK s : s = x \o y
  OBVIOUS
<1>3. /\ n \in Nat /\ k \in Nat /\ DOMAIN x = 1 .. n /\ DOMAIN y = 1 .. k
      /\ DOMAIN s = 1 .. n + k
      /\ \A i \in 1 .. n : s[i] = x[i]
      /\ \A i \in n + 1 .. n + k : i - n \in 1 .. k /\ s[i] = y[i - n]
  BY <1>1, <1>2
<1>4. \A i \in 1 .. n + k : i \in 1 .. n \/ i \in n + 1 .. n + k
  BY <1>3
<1>5. ASSUME NEW i \in 1 .. n + k, NEW j \in 1 .. n + k, i < j
      PROVE  Over(s[i], s[j])
  <2>1. CASE i \in 1 .. n /\ j \in 1 .. n
    BY <1>3, <1>5, <2>1 DEF AllOver
  <2>2. CASE i \in 1 .. n /\ j \in n + 1 .. n + k
    BY <1>3, <2>2
  <2>3. CASE i \in n + 1 .. n + k /\ j \in n + 1 .. n + k
    <3>1. i - n \in 1 .. k /\ j - n \in 1 .. k /\ i - n < j - n
      BY <1>3, <1>5, <2>3
    <3> QED
      BY <1>3, <2>3, <3>1 DEF AllOver
  <2>4. ~(i \in n + 1 .. n + k /\ j \in 1 .. n)
    BY <1>3, <1>5
  <2> QED
    BY <1>4, <2>1, <2>2, <2>3, <2>4
<1> QED
  BY <1>2, <1>3, <1>5 DEF AllOver

(* Hosts of different buckets rank in the order of the buckets.            *)
LEMMA BucketsRank ==
  ASSUME NEW g, NEW h, HostPattern(g), HostPattern(h)
  PROVE  /\ Bucket(g) = "ported" /\ Bucket(h) \in {"exact", "wild", "plain"}
              => Outranks(Score(g), Score(h))
         /\ Bucket(g) = "exact" /\ Bucket(h) \in {"wild", "plain"}
              => Outranks(Score(g), Score(h))
         /\ Bucket(g) = "wild" /\ Bucket(h) = "plain"
              => Outranks(Score(g), Score(h)) \/ Score(g) = Score(h)
         /\ Bucket(h) = "plain" <=> h = EveryHost
<1>1. EveryHost.kind = "any" /\ HostPattern(EveryHost)
  BY EveryHostIs DEF EveryHost, Pattern
<1>2. \A p : HostPattern(p) =>
        /\ p.kind \in {"any", "wild", "label", "exact"}
        /\ Bucket(p) = "plain" <=> p = EveryHost
        /\ Bucket(p) = "ported" => p.kind = "exact" /\ p.port # NoPort
        /\ Bucket(p) = "exact" => p.kind = "exact" /\ p.port = NoPort
        /\ Bucket(p) = "wild" => p.kind \in {"any", "wild", "label"}
  BY <1>1 DEF Bucket, HostPattern
<1>3. \A p : HostPattern(p) =>
        /\ Score(p) \in [1 .. 3 -> Int]
        /\ Score(p)[1] = KindRank(p.kind)
        /\ Score(p)[2] = IF p.port = NoPort THEN 0 ELSE 1
        /\ p.kind = "any" => Score(p)[3] = 0
  <2> SUFFICES ASSUME NEW p, HostPattern(p)
               PROVE  /\ Score(p) \in [1 .. 3 -> Int]
                      /\ Score(p)[1] = KindRank(p.kind)
                      /\ Score(p)[2] = IF p.port = NoPort THEN 0 ELSE 1
                      /\ p.kind = "any" => Score(p)[3] = 0
    OBVIOUS
  <2>1. Score(p) \in [1 .. 3 -> Int]
    BY ScoreTyped
  <2>2. Score(p)[1] = KindRank(p.kind) /\ Score(p)[2] = (IF p.port = NoPort THEN 0 ELSE 1)
        /\ Score(p)[3] = Len(p.literal) + Len(p.suffix)
    BY DEF Score
  <2>3. p.kind = "any" => p.literal = << >> /\ p.suffix = << >>
    BY DEF HostPattern
  <2>5. ASSUME p.kind = "any"
        PROVE  Score(p)[3] = 0
    <3>1. Len(p.literal) = 0 /\ Len(p.suffix) = 0
      BY <2>3, <2>5
    <3>2. Score(p)[3] = 0 + 0
      BY <2>2, <3>1, Zenon
    <3> QED
      BY <3>2
  <2> QED
    BY Zenon, <2>1, <2>2, <2>5
<1>4. \A p : HostPattern(p) => \A r : HostPattern(r) =>
        (Score(p)[1] > Score(r)[1]
           \/ (Score(p)[1] = Score(r)[1] /\ Score(p)[2] > Score(r)[2])
         => Outranks(Score(p), Score(r)))
  <2> SUFFICES ASSUME NEW p, NEW r, HostPattern(p), HostPattern(r),
                      Score(p)[1] > Score(r)[1]
                      \/ (Score(p)[1] = Score(r)[1] /\ Score(p)[2] > Score(r)[2])
               PROVE  Outranks(Score(p), Score(r))
    OBVIOUS
  <2>1. DOMAIN Score(p) = 1 .. 3
    BY <1>3
  <2>2. CASE Score(p)[1] > Score(r)[1]
    <3>1. 1 \in 1 .. 3 /\ 1 .. 1 - 1 = {}
      OBVIOUS
    <3> QED
      BY <2>1, <2>2, <3>1 DEF Outranks
  <2>3. CASE Score(p)[1] = Score(r)[1] /\ Score(p)[2] > Score(r)[2]
    <3>1. 2 \in 1 .. 3 /\ 1 .. 2 - 1 = {1}
      OBVIOUS
    <3> QED
      BY <2>1, <2>3, <3>1 DEF Outranks
  <2> QED
    BY <2>2, <2>3
<1>5. /\ KindRank("any") = 0 /\ KindRank("wild") = 1
      /\ KindRank("label") = 2 /\ KindRank("exact") = 3
  BY DEF KindRank
<1>6. EveryHost.port = NoPort
  <2>1. Lower(NoPort) = NoPort
    BY DEF Lower, NoPort
  <2> QED
    BY <2>1 DEF EveryHost, Pattern
<1>7. Bucket(h) = "plain" => h = EveryHost /\ Score(h)[1] = 0 /\ Score(h)[2] = 0 /\ Score(h)[3] = 0
  BY <1>1, <1>2, <1>3, <1>5, <1>6
<1>8. Bucket(g) = "ported" /\ Bucket(h) \in {"exact", "wild", "plain"}
        => Outranks(Score(g), Score(h))
  <2>1. Bucket(g) = "ported" => Score(g)[1] = 3 /\ Score(g)[2] = 1
    BY <1>2, <1>3, <1>5
  <2>2. Bucket(h) = "exact" => Score(h)[1] = 3 /\ Score(h)[2] = 0
    BY <1>2, <1>3, <1>5
  <2>3. Bucket(h) = "wild" => Score(h)[1] \in {0, 1, 2}
    BY <1>2, <1>3, <1>5
  <2> QED
    BY <1>4, <1>7, <2>1, <2>2, <2>3
<1>9. Bucket(g) = "exact" /\ Bucket(h) \in {"wild", "plain"}
        => Outranks(Score(g), Score(h))
  <2>1. Bucket(g) = "exact" => Score(g)[1] = 3
    BY <1>2, <1>3, <1>5
  <2>2. Bucket(h) = "wild" => Score(h)[1] \in {0, 1, 2}
    BY <1>2, <1>3, <1>5
  <2> QED
    BY <1>4, <1>7, <2>1, <2>2
<1>10. ASSUME Bucket(g) = "wild", Bucket(h) = "plain"
       PROVE  Outranks(Score(g), Score(h)) \/ Score(g) = Score(h)
  <2>1. g.kind \in {"any", "wild", "label"}
    BY <1>2, <1>10
  <2>2. CASE g.kind \in {"wild", "label"}
    <3>1. Score(g)[1] \in {1, 2}
      BY <1>3, <1>5, <2>2
    <3> QED
      BY <1>4, <1>7, <1>10, <3>1
  <2>3. CASE g.kind = "any"
    <3>1. Score(g)[1] = 0 /\ Score(g)[3] = 0 /\ Score(g)[2] \in {0, 1}
      BY <1>3, <1>5, <2>3
    <3>2. CASE Score(g)[2] = 1
      BY <1>4, <1>7, <1>10, <3>1, <3>2
    <3>3. CASE Score(g)[2] = 0
      <4>1. \A i \in 1 .. 3 : Score(g)[i] = Score(h)[i]
        <5>1. \A i \in 1 .. 3 : i = 1 \/ i = 2 \/ i = 3
          OBVIOUS
        <5> QED
          BY <1>7, <1>10, <3>1, <3>3, <5>1
      <4>2. Score(g) \in [1 .. 3 -> Int] /\ Score(h) \in [1 .. 3 -> Int]
        BY <1>3
      <4> QED
        BY <4>1, <4>2
    <3> QED
      BY <3>1, <3>2, <3>3
  <2> QED
    BY <2>1, <2>2, <2>3
<1> QED
  BY <1>2, <1>8, <1>9, <1>10

LEMMA Regrouped ==
  ASSUME NEW S, NEW a \in Seq(S), NEW b \in Seq(S), NEW c \in Seq(S), NEW d \in Seq(S)
  PROVE  (a \o b) \o (c \o d) = a \o b \o c \o d
OBVIOUS

LEMMA VariantsOver ==
  ASSUME NEW e \in Entry, Ranked(e)
  PROVE  AllOver(Variants(e)) /\ Variants(e) \in Seq(Variant)
<1> DEFINE In(b) == e.hosts[b]
<1>1. \A b \in Buckets : In(b) \in Seq(Variant)
  BY DEF Entry
<1>2. \A b \in Buckets : \A i \in DOMAIN In(b) :
        In(b)[i] \in Variant /\ HostPattern(In(b)[i].host) /\ Bucket(In(b)[i].host) = b
  BY <1>1, VariantFacts DEF Ranked, InBucket
<1>3. /\ "ported" \in Buckets /\ "exact" \in Buckets
      /\ "wild" \in Buckets /\ "plain" \in Buckets
  BY DEF Buckets
<1>4. \A b \in Buckets : AllOver(In(b))
  <2> SUFFICES ASSUME NEW b \in Buckets, NEW i \in DOMAIN In(b), NEW j \in DOMAIN In(b), i < j
               PROVE  Over(In(b)[i], In(b)[j])
    BY DEF AllOver
  <2>1. Sooner(In(b)[i], In(b)[j])
    BY DEF Ranked, Sorted
  <2>2. /\ HostPattern(In(b)[i].host) /\ Bucket(In(b)[i].host) = b
        /\ HostPattern(In(b)[j].host) /\ Bucket(In(b)[j].host) = b
    BY <1>2
  <2>3. \A g : HostPattern(g) => (Bucket(g) = "plain" <=> g = EveryHost)
    BY BucketsRank
  <2>4. In(b)[i].host = EveryHost <=> In(b)[j].host = EveryHost
    BY <2>2, <2>3
  <2> QED
    BY <2>1, <2>4 DEF Sooner, Over
<1> HIDE DEF In
<1>5. /\ \A i \in DOMAIN In("ported"), j \in DOMAIN In("exact") : Over(In("ported")[i], In("exact")[j])
      /\ \A i \in DOMAIN In("ported"), j \in DOMAIN In("wild") : Over(In("ported")[i], In("wild")[j])
      /\ \A i \in DOMAIN In("ported"), j \in DOMAIN In("plain") : Over(In("ported")[i], In("plain")[j])
      /\ \A i \in DOMAIN In("exact"), j \in DOMAIN In("wild") : Over(In("exact")[i], In("wild")[j])
      /\ \A i \in DOMAIN In("exact"), j \in DOMAIN In("plain") : Over(In("exact")[i], In("plain")[j])
  BY <1>2, <1>3, BucketsRank DEF Over
<1>6. \A i \in DOMAIN In("wild"), j \in DOMAIN In("plain") : Over(In("wild")[i], In("plain")[j])
  BY <1>2, <1>3, BucketsRank DEF Over
<1> DEFINE x == In("ported") \o In("exact")
           y == In("wild") \o In("plain")
<1>7. AllOver(x) /\ x \in Seq(Variant)
  BY <1>1, <1>3, <1>4, <1>5, ConcatOver
<1>8. AllOver(y) /\ y \in Seq(Variant)
  BY <1>1, <1>3, <1>4, <1>6, ConcatOver
<1>9. /\ \A i \in DOMAIN x : x[i] \in ToSet(In("ported")) \/ x[i] \in ToSet(In("exact"))
      /\ \A i \in DOMAIN y : y[i] \in ToSet(In("wild")) \/ y[i] \in ToSet(In("plain"))
  <2>1. /\ \A i \in DOMAIN x : x[i] \in ToSet(x)
        /\ \A i \in DOMAIN y : y[i] \in ToSet(y)
    BY DEF ToSet
  <2> QED
    BY <1>1, <1>3, <2>1, InConcat
<1> HIDE DEF x, y
<1>10. \A i \in DOMAIN x, j \in DOMAIN y : Over(x[i], y[j])
  BY <1>5, <1>9 DEF ToSet
<1>11. AllOver(x \o y) /\ x \o y \in Seq(Variant)
  BY <1>7, <1>8, <1>10, ConcatOver
<1>12. x \o y = Variants(e)
  <2>3. /\ In("ported") \in Seq(Variant) /\ In("exact") \in Seq(Variant)
        /\ In("wild") \in Seq(Variant) /\ In("plain") \in Seq(Variant)
    BY <1>1, <1>3
  <2>2. x \o y = In("ported") \o In("exact") \o In("wild") \o In("plain")
    BY SMTT(20), <2>3, Regrouped DEF x, y
  <2> QED
    BY <2>2 DEF Variants, In
<1> QED
  BY <1>11, <1>12

-----------------------------------------------------------------------------
(* Hosts and the forms they are read from *)

(* The patterns of a route, each with its form.                            *)
Read(call) ==
    IF call.hosts = << >> THEN {<<EveryHost, Unconstrained>>}
    ELSE {<<HostOf(ParseHostPattern(h.text)[1]), h.form>> : h \in ToSet(call.hosts)}

Met(q) == {x \in Readings : Matches(x[1], q.host, q.port)}

LEMMA ReadFacts ==
  ASSUME NEW call \in Calls, Compiled(call).ok
  PROVE  /\ \A h : h \in ToSet(HostsOf(call)) <=> \E x \in Read(call) : x[1] = h
         /\ \A f : f \in FormsOf(call) <=> \E x \in Read(call) : x[2] = f
         /\ Read(call) \subseteq Readings
<1> DEFINE any == <<EveryHost, Unconstrained>>
           pair(h) == <<HostOf(ParseHostPattern(h.text)[1]), h.form>>
<1>1. any[1] = EveryHost /\ any[2] = Unconstrained
  OBVIOUS
<1>2. \A h : pair(h)[1] = HostOf(ParseHostPattern(h.text)[1]) /\ pair(h)[2] = h.form
  OBVIOUS
<1>3. Read(call) = IF call.hosts = << >> THEN {any} ELSE {pair(h) : h \in ToSet(call.hosts)}
  BY DEF Read
<1>4. /\ any \in Readings
      /\ \A h \in ToSet(call.hosts) : pair(h) \in Readings
  BY DEF Readings
<1> HIDE DEF any, pair
<1>5. CASE call.hosts = << >>
  <2>1. ToSet(HostsOf(call)) = {EveryHost}
    BY <1>5, HostsAre
  <2>2. FormsOf(call) = {Unconstrained}
    BY <1>5 DEF FormsOf
  <2>3. Read(call) = {any}
    BY <1>3, <1>5
  <2> QED
    BY <1>1, <1>4, <2>1, <2>2, <2>3
<1>6. CASE call.hosts # << >>
  <2>1. FormsOf(call) = {h.form : h \in ToSet(call.hosts)}
    BY <1>6 DEF FormsOf
  <2>2. Read(call) = {pair(h) : h \in ToSet(call.hosts)}
    BY <1>3, <1>6
  <2>3. \A h : h \in ToSet(HostsOf(call)) <=>
                 \E form \in ToSet(call.hosts) : h = HostOf(ParseHostPattern(form.text)[1])
    BY <1>6, HostsAre
  <2>4. \A x : x \in Read(call) <=> \E h \in ToSet(call.hosts) : x = pair(h)
    BY <2>2
  <2>5. \A h : h \in ToSet(HostsOf(call)) <=> \E x \in Read(call) : x[1] = h
    <3>1. ASSUME NEW x \in Read(call)
          PROVE  x[1] \in ToSet(HostsOf(call))
      <4>1. PICK h \in ToSet(call.hosts) : x = pair(h)
        BY <2>4
      <4>2. x[1] = HostOf(ParseHostPattern(h.text)[1])
        BY <1>2, <4>1
      <4> QED
        BY <2>3, <4>1, <4>2
    <3>2. ASSUME NEW f \in ToSet(HostsOf(call))
          PROVE  \E x \in Read(call) : x[1] = f
      <4>1. PICK h \in ToSet(call.hosts) : f = HostOf(ParseHostPattern(h.text)[1])
        BY <2>3
      <4>2. pair(h) \in Read(call) /\ pair(h)[1] = f
        BY <1>2, <2>4, <4>1
      <4> QED
        BY <4>2
    <3> QED
      BY <3>1, <3>2
  <2>7. \A f : f \in FormsOf(call) <=> \E h \in ToSet(call.hosts) : f = h.form
    BY <2>1
  <2>6. \A f : f \in FormsOf(call) <=> \E x \in Read(call) : x[2] = f
    <3>1. ASSUME NEW x \in Read(call)
          PROVE  x[2] \in FormsOf(call)
      <4>1. PICK h \in ToSet(call.hosts) : x = pair(h)
        BY <2>4
      <4>2. x[2] = h.form
        BY <1>2, <4>1
      <4> QED
        BY <2>7, <4>1, <4>2
    <3>2. ASSUME NEW f \in FormsOf(call)
          PROVE  \E x \in Read(call) : x[2] = f
      <4>1. PICK h \in ToSet(call.hosts) : f = h.form
        BY <2>7
      <4>2. pair(h) \in Read(call) /\ pair(h)[2] = f
        BY <1>2, <2>4, <4>1
      <4> QED
        BY <4>2
    <3> QED
      BY <3>1, <3>2
  <2> QED
    BY <1>4, <2>4, <2>5, <2>6
<1> QED
  BY <1>5, <1>6

LEMMA ReadingsAre ==
  \A x \in Readings : \/ x = <<EveryHost, Unconstrained>>
                      \/ \E c \in Calls : Compiled(c).ok /\ c.hosts # << >> /\ x \in Read(c)
<1> SUFFICES ASSUME NEW x \in Readings, x # <<EveryHost, Unconstrained>>
             PROVE  \E c \in Calls : Compiled(c).ok /\ c.hosts # << >> /\ x \in Read(c)
  OBVIOUS
<1> DEFINE pairs(c) == {<<HostOf(ParseHostPattern(h.text)[1]), h.form>> : h \in ToSet(c.hosts)}
           good == {c \in Calls : Compiled(c).ok}
<1>1. x \in UNION {pairs(c) : c \in good}
  BY DEF Readings
<1>2. PICK c \in good : x \in pairs(c)
  <2> HIDE DEF pairs, good
  <2> QED
    BY <1>1
<1>3. c.hosts # << >>
  <2>1. PICK h \in ToSet(c.hosts) : TRUE
    BY <1>2
  <2>2. ToSet(<< >>) = {}
    BY DEF ToSet
  <2> QED
    BY <2>1, <2>2
<1> QED
  BY <1>2, <1>3 DEF Read

(* A pattern accepts the request's host just if its form admits it.        *)
LEMMA ReadAdmits ==
  ASSUME NEW q, HostsRead(q), NEW x \in Readings
  PROVE  Matches(x[1], q.host, q.port) <=> FormAdmits(x[2], q.asked)
<1>1. CASE x = <<EveryHost, Unconstrained>>
  BY <1>1, EveryHostMatches, UnconstrainedAdmits
<1>2. ASSUME NEW c \in Calls, Compiled(c).ok, c.hosts # << >>, x \in Read(c)
      PROVE  Matches(x[1], q.host, q.port) <=> FormAdmits(x[2], q.asked)
  <2>1. PICK h \in ToSet(c.hosts) : x = <<HostOf(ParseHostPattern(h.text)[1]), h.form>>
    BY <1>2 DEF Read
  <2>2. Matches(HostOf(ParseHostPattern(h.text)[1]), q.host, q.port)
          <=> FormAdmits(h.form, q.asked)
    BY <1>2 DEF HostsRead, FormsRead
  <2> QED
    BY <2>1, <2>2
<1> QED
  BY <1>1, <1>2, ReadingsAre

(* A route lists a pattern that is met just if it has its form.            *)
LEMMA FormsListed ==
  ASSUME NEW call \in Calls, Compiled(call).ok, NEW q, HostsRead(q), RanksRead(q)
  PROVE  /\ \A x \in Met(q) : /\ x[2] \in FormsOf(call) <=> x[1] \in ToSet(HostsOf(call))
                              /\ x[2] \in Admitting(call, q) <=> x[1] \in ToSet(HostsOf(call))
         /\ \A f \in Admitting(call, q) : \E x \in Met(q) :
              x[2] = f /\ x[1] \in ToSet(HostsOf(call))
         /\ \A h \in ToSet(HostsOf(call)) : Matches(h, q.host, q.port) =>
              \E x \in Met(q) : x[1] = h
<1>1. /\ \A h : h \in ToSet(HostsOf(call)) <=> \E x \in Read(call) : x[1] = h
      /\ \A f : f \in FormsOf(call) <=> \E x \in Read(call) : x[2] = f
      /\ Read(call) \subseteq Readings
  BY ReadFacts
<1>2. \A x \in Readings : Matches(x[1], q.host, q.port) <=> FormAdmits(x[2], q.asked)
  BY ReadAdmits
<1>3. \A x, y \in Met(q) : x[1] = y[1] <=> x[2] = y[2]
  BY DEF RanksRead, RankAlike, Met
<1>4. \A x : x \in Met(q) <=> x \in Readings /\ Matches(x[1], q.host, q.port)
  BY DEF Met
<1>5. \A f : f \in Admitting(call, q) <=> f \in FormsOf(call) /\ FormAdmits(f, q.asked)
  BY DEF Admitting
<1> QED
  BY <1>1, <1>2, <1>3, <1>4, <1>5

-----------------------------------------------------------------------------
(* The host a route answers under *)

LEMMA LeastFacts ==
  ASSUME NEW T \in SUBSET Nat, T # {}
  PROVE  Least(T) \in T /\ \A y \in T : Least(T) <= y
BY MinIsMember DEF Least, Min

(* The routes of an entry that are filed under a host.                     *)
Under(i, h) == {r \in DOMAIN routes : /\ Key(routes[r].segs) = Key(entries[i].segs)
                                      /\ h \in ToSet(HostsOf(routes[r]))}

LEMMA SiblingsAre ==
  ASSUME TableInv, NEW i \in DOMAIN entries, NEW r \in DOMAIN routes,
         Key(routes[r].segs) = Key(entries[i].segs)
  PROVE  Siblings(routes, r) = {s \in DOMAIN routes : Key(routes[s].segs) = Key(entries[i].segs)}
<1>1. \A s \in DOMAIN routes : routes[s].segs \in Seq(Seg)
  BY RouteFacts DEF Templates
<1>2. \A s \in DOMAIN routes :
        SamePattern(routes[s].segs, routes[r].segs) <=> Key(routes[s].segs) = Key(routes[r].segs)
  BY <1>1, SameTemplate
<1> QED
  BY <1>2 DEF Siblings

LEMMA FirstUnderIs ==
  ASSUME TableInv, NEW i \in DOMAIN entries, NEW r \in DOMAIN routes,
         Key(routes[r].segs) = Key(entries[i].segs),
         NEW q, HostsRead(q), RanksRead(q), NEW x \in Met(q)
  PROVE  FirstUnder(routes, r, x[2]) = Least(Under(i, x[1]))
<1>1. Siblings(routes, r) = {s \in DOMAIN routes : Key(routes[s].segs) = Key(entries[i].segs)}
  BY SiblingsAre
<1>2. \A s \in DOMAIN routes : x[2] \in FormsOf(routes[s]) <=> x[1] \in ToSet(HostsOf(routes[s]))
  BY RouteFacts, FormsListed
<1>3. {j \in Siblings(routes, r) : x[2] \in FormsOf(routes[j])} = Under(i, x[1])
  BY <1>1, <1>2 DEF Under
<1> QED
  BY <1>3 DEF FirstUnder

(* The routes under a variant's host are those it has.                     *)
LEMMA UnderVariant ==
  ASSUME TableInv, OrderInv, NEW i \in DOMAIN entries,
         NEW a \in DOMAIN Variants(entries[i])
  PROVE  LET v == Variants(entries[i])[a]
         IN /\ Under(i, v.host) = {v.byMethod[m] : m \in DOMAIN v.byMethod}
            /\ \A m \in DOMAIN v.byMethod : routes[v.byMethod[m]].method = m
            /\ Under(i, v.host) \in SUBSET Nat /\ Under(i, v.host) # {}
<1> DEFINE vs == Variants(entries[i])
<1>1. entries[i] \in Entry /\ Ranked(entries[i])
  BY EntryFacts DEF OrderInv
<1>2. AllOver(vs) /\ vs \in Seq(Variant)
  BY <1>1, VariantsOver
<1>3. \A h, m, r : Files(entries[i], h, m, r) <=>
           /\ r \in DOMAIN routes /\ routes[r].method = m
           /\ Key(routes[r].segs) = Key(entries[i].segs) /\ h \in ToSet(HostsOf(routes[r]))
  BY EntryFiles
<1>4. PICK v : v = vs[a]
  OBVIOUS
<1>5. v \in Variant /\ v \in ToSet(vs)
  BY <1>2, <1>4 DEF ToSet
<1>6. \A w \in ToSet(vs) : w.host = v.host => w = v
  <2>1. \A b, c \in DOMAIN vs : b < c => vs[b].host # vs[c].host
    BY <1>2 DEF AllOver, Over
  <2>2. \A b \in DOMAIN vs : b < a \/ a < b \/ b = a
    BY <1>2
  <2> QED
    BY <1>4, <2>1, <2>2 DEF ToSet
<1> HIDE DEF vs
<1>7. \A m, r : Files(entries[i], v.host, m, r) <=> m \in DOMAIN v.byMethod /\ v.byMethod[m] = r
  BY <1>5, <1>6 DEF Files, vs
<1>8. \A r : r \in Under(i, v.host) <=> \E m : Files(entries[i], v.host, m, r)
  BY <1>3 DEF Under
<1>9. Under(i, v.host) = {v.byMethod[m] : m \in DOMAIN v.byMethod}
  BY <1>7, <1>8
<1>10. \A m \in DOMAIN v.byMethod : routes[v.byMethod[m]].method = m
  BY <1>3, <1>7
<1>11. /\ \E m : m \in DOMAIN v.byMethod
       /\ \A m \in DOMAIN v.byMethod : v.byMethod[m] \in Nat
  BY <1>5, VariantFacts
<1>12. Under(i, v.host) \in SUBSET Nat /\ Under(i, v.host) # {}
  BY <1>9, <1>11
<1> QED
  BY <1>4, <1>9, <1>10, <1>12 DEF vs

(* The rule ranks the hosts of a request as the entry's variants stand.    *)
LEMMA VariantBefore ==
  ASSUME TableInv, OrderInv, NEW i \in DOMAIN entries, NEW r \in DOMAIN routes,
         Key(routes[r].segs) = Key(entries[i].segs),
         NEW q, HostsRead(q), RanksRead(q), NEW x \in Met(q), NEW y \in Met(q),
         NEW a \in DOMAIN Variants(entries[i]), NEW b \in DOMAIN Variants(entries[i]), a < b,
         x[1] = Variants(entries[i])[a].host, y[1] = Variants(entries[i])[b].host
  PROVE  /\ HostBefore(routes, r, x[2], y[2]) /\ ~HostBefore(routes, r, y[2], x[2])
         /\ x[2] # y[2]
<1> DEFINE vs == Variants(entries[i])
<1>1. PICK v, w : v = vs[a] /\ w = vs[b]
  OBVIOUS
<1>2. Over(v, w) /\ v \in Variant /\ w \in Variant
  <2>1. entries[i] \in Entry /\ Ranked(entries[i])
    BY EntryFacts DEF OrderInv
  <2>2. AllOver(vs) /\ vs \in Seq(Variant)
    BY <2>1, VariantsOver
  <2> QED
    BY <1>1, <2>2 DEF AllOver
<1>3. PICK g, h, f, e : /\ g = v.host /\ h = w.host /\ f = x[2] /\ e = y[2]
                        /\ x[1] = g /\ y[1] = h
  BY <1>1
<1>4. /\ g = h <=> f = e
      /\ Outranks(Score(g), Score(h)) <=> Outranks(FormScore(f), FormScore(e))
      /\ Outranks(Score(h), Score(g)) <=> Outranks(FormScore(e), FormScore(f))
      /\ Score(g) = Score(h) <=> FormScore(f) = FormScore(e)
  BY <1>3 DEF RanksRead, RankAlike, Met
<1>5. HostPattern(g) /\ HostPattern(h)
  BY <1>2, <1>3, VariantFacts
<1>6. g # h /\ f # e
  BY <1>2, <1>3, <1>4 DEF Over
<1>7. /\ ~(Outranks(Score(g), Score(h)) /\ Outranks(Score(h), Score(g)))
      /\ ~Outranks(Score(g), Score(g))
  BY <1>5, ScoresOrdered
<1>8. /\ g = EveryHost <=> f = Unconstrained
      /\ h = EveryHost <=> e = Unconstrained
  <2>5. PICK z : z = <<EveryHost, Unconstrained>>
    OBVIOUS
  <2>2. z[1] = EveryHost /\ z[2] = Unconstrained
    BY <2>5
  <2>6. z \in Readings
    BY <2>5 DEF Readings
  <2>1. z \in Met(q)
    BY <2>2, <2>6, EveryHostMatches DEF Met
  <2>3. x[1] = z[1] <=> x[2] = z[2]
    BY <2>1 DEF RanksRead, RankAlike, Met
  <2>4. y[1] = z[1] <=> y[2] = z[2]
    BY <2>1 DEF RanksRead, RankAlike, Met
  <2> QED
    BY <1>3, <2>2, <2>3, <2>4
<1>9. ASSUME Score(g) = Score(h), Earlier(v, w)
      PROVE  /\ FirstUnder(routes, r, f) < FirstUnder(routes, r, e)
             /\ ~(FirstUnder(routes, r, e) < FirstUnder(routes, r, f))
  <2> DEFINE U == Under(i, g)
             V == Under(i, h)
  <2>1. /\ U = {v.byMethod[m] : m \in DOMAIN v.byMethod}
        /\ V = {w.byMethod[m] : m \in DOMAIN w.byMethod}
        /\ U \in SUBSET Nat /\ U # {} /\ V \in SUBSET Nat /\ V # {}
    <3>1. /\ Under(i, vs[a].host) = {vs[a].byMethod[m] : m \in DOMAIN vs[a].byMethod}
          /\ Under(i, vs[a].host) \in SUBSET Nat /\ Under(i, vs[a].host) # {}
      BY UnderVariant
    <3>2. /\ Under(i, vs[b].host) = {vs[b].byMethod[m] : m \in DOMAIN vs[b].byMethod}
          /\ Under(i, vs[b].host) \in SUBSET Nat /\ Under(i, vs[b].host) # {}
      BY UnderVariant
    <3> HIDE DEF vs
    <3> QED
      BY <1>1, <1>3, <3>1, <3>2
  <2>2. FirstUnder(routes, r, f) = Least(U) /\ FirstUnder(routes, r, e) = Least(V)
    BY <1>3, FirstUnderIs
  <2>3. \A s : ~(s \in U /\ s \in V)
    <3> SUFFICES ASSUME NEW s, s \in U, s \in V
                 PROVE  FALSE
      OBVIOUS
    <3>1. /\ s \in DOMAIN routes
          /\ g \in ToSet(HostsOf(routes[s])) /\ h \in ToSet(HostsOf(routes[s]))
      BY DEF Under
    <3>2. g.name = h.name
      BY <3>1, RouteFacts, NamedAlike
    <3>3. Matches(g, q.host, q.port) /\ Matches(h, q.host, q.port)
      BY <1>3 DEF Met
    <3> QED
      BY <1>5, <1>6, <1>9, <3>2, <3>3, Alike
  <2>4. PICK k \in U : \A l \in V : k <= l
    BY <1>9, <2>1 DEF Earlier
  <2> HIDE DEF U, V
  <2>5. /\ Least(U) \in U /\ \A s \in U : Least(U) <= s
        /\ Least(V) \in V /\ \A s \in V : Least(V) <= s
    BY <2>1, LeastFacts
  <2>6. Least(U) \in Nat /\ Least(V) \in Nat /\ k \in Nat
    BY <2>1, <2>4, <2>5
  <2>7. Least(U) <= k /\ k <= Least(V) /\ Least(U) # Least(V)
    BY <2>3, <2>4, <2>5
  <2> QED
    BY <2>2, <2>6, <2>7
<1>10. CASE Outranks(Score(g), Score(h))
  <2>1. Score(g) # Score(h)
    BY <1>7, <1>10
  <2> QED
    BY <1>3, <1>4, <1>6, <1>7, <1>10, <2>1 DEF HostBefore
<1>11. CASE Score(g) = Score(h) /\ h = EveryHost
  <2>1. ~Outranks(Score(h), Score(g))
    BY <1>7, <1>11
  <2> QED
    BY <1>3, <1>4, <1>6, <1>8, <1>11, <2>1 DEF HostBefore
<1>12. CASE /\ Score(g) = Score(h) /\ g # EveryHost /\ h # EveryHost
            /\ Earlier(v, w)
  <2>1. ~Outranks(Score(h), Score(g))
    BY <1>7, <1>12
  <2>2. /\ FirstUnder(routes, r, f) < FirstUnder(routes, r, e)
        /\ ~(FirstUnder(routes, r, e) < FirstUnder(routes, r, f))
    BY <1>9, <1>12
  <2> QED
    BY <1>3, <1>4, <1>6, <1>8, <1>12, <2>1, <2>2 DEF HostBefore
<1> QED
  BY <1>2, <1>3, <1>10, <1>11, <1>12 DEF Over

(* The host a route answers under is that of its first variant that        *)
(* accepts the request.                                                    *)
LEMMA BestHostIs ==
  ASSUME TableInv, OrderInv, NEW i \in DOMAIN entries, NEW r \in DOMAIN routes,
         Key(routes[r].segs) = Key(entries[i].segs),
         NEW q, HostsRead(q), RanksRead(q), NEW x \in Met(q),
         NEW a \in DOMAIN Variants(entries[i]), x[1] = Variants(entries[i])[a].host,
         x[1] \in ToSet(HostsOf(routes[r])),
         \A b \in DOMAIN Variants(entries[i]) :
           b < a /\ Matches(Variants(entries[i])[b].host, q.host, q.port) =>
             Variants(entries[i])[b].host \notin ToSet(HostsOf(routes[r]))
  PROVE  BestHost(routes, r, q) = x[2]
<1> DEFINE vs == Variants(entries[i])
           A == Admitting(routes[r], q)
           Wins(h) == \A g \in A : ~HostBefore(routes, r, g, h)
<1>1. routes[r] \in Calls /\ Compiled(routes[r]).ok
  BY RouteFacts
<1>2. x[2] \in A
  BY <1>1, FormsListed
<1>3. vs \in Seq(Variant)
  BY EntryFacts, VariantsTyped
<1>4. ASSUME NEW f \in A, f # x[2]
      PROVE  HostBefore(routes, r, x[2], f) /\ ~HostBefore(routes, r, f, x[2])
  <2>1. PICK y \in Met(q) : y[2] = f /\ y[1] \in ToSet(HostsOf(routes[r]))
    BY <1>1, FormsListed
  <2>2. PICK b \in DOMAIN vs : vs[b].host = y[1]
    <3>1. Files(entries[i], y[1], routes[r].method, r)
      BY <2>1, EntryFiles
    <3> QED
      BY <3>1 DEF Files, ToSet
  <2>3. Matches(vs[b].host, q.host, q.port)
    BY <2>2 DEF Met
  <2>4. ~(b < a)
    BY <2>1, <2>2, <2>3
  <2>5. b # a
    <3>1. x[1] = y[1] <=> x[2] = y[2]
      BY DEF RanksRead, RankAlike, Met
    <3> QED
      BY <1>4, <2>1, <2>2, <3>1
  <2>6. a < b
    BY <1>3, <2>4, <2>5
  <2> QED
    BY <2>1, <2>2, <2>6, VariantBefore
<1>5. ~HostBefore(routes, r, x[2], x[2])
  <2>1. HostPattern(x[1])
    <3>1. vs[a] \in Variant
      BY <1>3
    <3> QED
      BY <3>1, VariantFacts
  <2>2. ~Outranks(FormScore(x[2]), FormScore(x[2]))
    <3>1. ~Outranks(Score(x[1]), Score(x[1]))
      BY <2>1, ScoresOrdered
    <3> QED
      BY <3>1 DEF RanksRead, RankAlike, Met
  <2>3. ~(FirstUnder(routes, r, x[2]) < FirstUnder(routes, r, x[2]))
    <3>1. /\ Under(i, vs[a].host) \in SUBSET Nat /\ Under(i, vs[a].host) # {}
      BY UnderVariant
    <3>2. FirstUnder(routes, r, x[2]) = Least(Under(i, x[1]))
      BY FirstUnderIs
    <3>3. FirstUnder(routes, r, x[2]) \in Nat
      BY <3>1, <3>2, LeastFacts
    <3> QED
      BY <3>3
  <2> QED
    BY <2>2, <2>3 DEF HostBefore
<1>6. Wins(x[2]) /\ \A f \in A : Wins(f) => f = x[2]
  BY <1>2, <1>4, <1>5
<1>7. BestHost(routes, r, q) = CHOOSE h \in A : Wins(h)
  BY DEF BestHost
<1> HIDE DEF A, Wins
<1> QED
  BY <1>2, <1>6, <1>7

-----------------------------------------------------------------------------
(* The best route of an entry *)

(* Of the methods that answer, the one that is served ranks highest.       *)
LEMMA RouteInBest ==
  ASSUME NEW v, \A m \in DOMAIN v.byMethod : v.byMethod[m] # NoRoute, NEW method,
         RouteIn(v, method) # NoRoute
  PROVE  \E m \in DOMAIN v.byMethod :
           /\ MethodRank(m, method) >= 0 /\ RouteIn(v, method) = v.byMethod[m]
           /\ \A k \in DOMAIN v.byMethod : k # m => MethodRank(m, method) > MethodRank(k, method)
<1>1. \A m : /\ m = method => MethodRank(m, method) = 2
             /\ m # method /\ m = "GET" /\ method = "HEAD" => MethodRank(m, method) = 1
             /\ m # method /\ ~(m = "GET" /\ method = "HEAD") /\ m = "*" => MethodRank(m, method) = 0
             /\ m # method /\ ~(m = "GET" /\ method = "HEAD") /\ m # "*" => MethodRank(m, method) = -1
  BY DEF MethodRank
<1>2. CASE method \in DOMAIN v.byMethod
  <2>1. RouteIn(v, method) = v.byMethod[method]
    BY <1>2 DEF RouteIn
  <2>2. \A k : k # method => 2 > MethodRank(k, method)
    BY <1>1
  <2> QED
    BY <1>1, <1>2, <2>1, <2>2
<1>3. CASE method \notin DOMAIN v.byMethod /\ method = "HEAD" /\ "GET" \in DOMAIN v.byMethod
  <2>1. RouteIn(v, method) = v.byMethod["GET"]
    BY <1>3 DEF RouteIn
  <2>2. \A k \in DOMAIN v.byMethod : k # "GET" => 1 > MethodRank(k, method)
    BY <1>1, <1>3
  <2>3. MethodRank("GET", method) = 1
    BY <1>1, <1>3
  <2> QED
    BY <1>3, <2>1, <2>2, <2>3
<1>4. CASE method \notin DOMAIN v.byMethod /\ ~(method = "HEAD" /\ "GET" \in DOMAIN v.byMethod)
  <2>1. RouteIn(v, method) = IF MethodAny \in DOMAIN v.byMethod
                             THEN v.byMethod[MethodAny] ELSE NoRoute
    BY <1>4 DEF RouteIn
  <2>2. "*" \in DOMAIN v.byMethod /\ RouteIn(v, method) = v.byMethod["*"]
    BY <2>1 DEF MethodAny
  <2>3. MethodRank("*", method) = 0
    BY <1>1, <1>4, <2>2
  <2>4. \A k \in DOMAIN v.byMethod : k # "*" => 0 > MethodRank(k, method)
    BY <1>1, <1>4
  <2> QED
    BY <2>2, <2>3, <2>4
<1> QED
  BY <1>2, <1>3, <1>4

Accepting(v, q) == Matches(v.host, q.host, q.port) /\ RouteIn(v, q.method) # NoRoute

LEMMA ResolveIs ==
  ASSUME NEW e \in Entry, NEW q, Resolve(e, q).route # NoRoute
  PROVE  \E a \in DOMAIN Variants(e) :
           /\ Accepting(Variants(e)[a], q)
           /\ Resolve(e, q).route = RouteIn(Variants(e)[a], q.method)
           /\ Resolve(e, q).params = Captures(Variants(e)[a].host, q.host)
           /\ \A b \in DOMAIN Variants(e) : b < a => ~Accepting(Variants(e)[b], q)
<1> DEFINE vs == Variants(e)
           n == Len(vs)
           good == {i \in 1 .. n : Accepting(vs[i], q)}
           sel == SelectInSeq(vs, LAMBDA v : /\ Matches(v.host, q.host, q.port)
                                             /\ RouteIn(v, q.method) # NoRoute)
<1>1. vs \in Seq(Variant) /\ n \in Nat /\ DOMAIN vs = 1 .. n
  BY VariantsTyped
<1>2. sel = IF good # {} THEN Min(good) ELSE 0
  BY DEF SelectInSeq, Accepting
<1>3. good # {} => sel \in good /\ sel # 0 /\ \A i \in good : sel <= i
  <2>1. good \in SUBSET Nat /\ 0 \notin good
    BY <1>1
  <2> HIDE DEF good, sel
  <2> QED
    BY <1>2, <2>1, MinIsMember
<1>4. /\ Resolve(e, q).route = IF sel = 0 THEN NoRoute ELSE RouteIn(vs[sel], q.method)
      /\ Resolve(e, q).params = IF sel = 0 THEN << >> ELSE Captures(vs[sel].host, q.host)
  BY DEF Resolve
<1> HIDE DEF sel, vs, n
<1>5. sel \in good
  BY <1>2, <1>3, <1>4
<1>6. \A b \in DOMAIN vs : b < sel => ~Accepting(vs[b], q)
  <2>1. \A b \in 1 .. n : b \in Nat
    OBVIOUS
  <2>2. sel \in Nat
    BY <1>5
  <2> QED
    BY <1>1, <1>3, <1>5, <2>1, <2>2
<1>7. sel \in DOMAIN vs /\ sel # 0 /\ Accepting(vs[sel], q)
  BY <1>1, <1>3, <1>5
<1> QED
  BY <1>4, <1>6, <1>7 DEF vs

(* What a candidate resolves to is the best of its routes that serve, and  *)
(* captures what the host it answers under does.                           *)
LEMMA BestOfEntry ==
  ASSUME TableInv, OrderInv, NEW S, NEW q, q.path \in Seq(S), HostsRead(q), RanksRead(q),
         NEW i \in Candidates(q.path), Resolved(i, q) # NoRoute
  PROVE  LET r == Resolved(i, q)
         IN /\ r \in DOMAIN routes /\ Serves(routes[r], q)
            /\ Key(routes[r].segs) = Key(entries[i].segs)
            /\ Resolve(entries[i], q).params = FormCaptures(BestHost(routes, r, q), q.asked)
            /\ \A s \in DOMAIN routes :
                 Key(routes[s].segs) = Key(entries[i].segs) /\ Serves(routes[s], q) /\ s # r =>
                   Preferred(routes, r, s, q) /\ ~Preferred(routes, s, r, q)
<1> DEFINE vs == Variants(entries[i])
           Of(s) == s \in DOMAIN routes /\ Key(routes[s].segs) = Key(entries[i].segs)
           Bears(s, h) == h \in ToSet(HostsOf(routes[s]))
<1>1. i \in DOMAIN entries /\ entries[i] \in Entry
  BY CandidatesFacts, EntryFacts
<1>2. PICK r : r = Resolved(i, q)
  OBVIOUS
<1>3. Of(r) /\ Serves(routes[r], q)
  BY <1>2, CandidateServes DEF Resolved
<1>4. PICK a \in DOMAIN vs :
        /\ Accepting(vs[a], q)
        /\ r = RouteIn(vs[a], q.method)
        /\ Resolve(entries[i], q).params = Captures(vs[a].host, q.host)
        /\ \A b \in DOMAIN vs : b < a => ~Accepting(vs[b], q)
  BY <1>1, <1>2, ResolveIs DEF Resolved
<1>5. vs \in Seq(Variant)
  BY <1>1, VariantsTyped
<1>6. \A s \in DOMAIN routes : routes[s] \in Calls /\ Compiled(routes[s]).ok /\ s # NoRoute
  BY RouteFacts
<1>7. \A b \in DOMAIN vs :
        /\ Under(i, vs[b].host) = {vs[b].byMethod[m] : m \in DOMAIN vs[b].byMethod}
        /\ \A m \in DOMAIN vs[b].byMethod :
             routes[vs[b].byMethod[m]].method = m /\ vs[b].byMethod[m] # NoRoute
  <2> SUFFICES ASSUME NEW b \in DOMAIN vs
               PROVE  /\ Under(i, vs[b].host) = {vs[b].byMethod[m] : m \in DOMAIN vs[b].byMethod}
                      /\ \A m \in DOMAIN vs[b].byMethod :
                           routes[vs[b].byMethod[m]].method = m /\ vs[b].byMethod[m] # NoRoute
    OBVIOUS
  <2>1. /\ Under(i, vs[b].host) = {vs[b].byMethod[m] : m \in DOMAIN vs[b].byMethod}
        /\ \A m \in DOMAIN vs[b].byMethod : routes[vs[b].byMethod[m]].method = m
    BY <1>1, UnderVariant
  <2>2. \A s \in Under(i, vs[b].host) : s # NoRoute
    BY <1>6 DEF Under
  <2> HIDE DEF vs
  <2> QED
    BY <2>1, <2>2
<1> HIDE DEF vs
(* A variant that accepts the host and has a route that serves answers.    *)
<1>8. ASSUME NEW s, Of(s), Serves(routes[s], q), NEW b \in DOMAIN vs,
             Matches(vs[b].host, q.host, q.port), Bears(s, vs[b].host)
      PROVE  /\ Accepting(vs[b], q)
             /\ routes[s].method \in DOMAIN vs[b].byMethod
             /\ vs[b].byMethod[routes[s].method] = s
  <2>1. s \in Under(i, vs[b].host)
    BY <1>8 DEF Under
  <2>2. PICK m \in DOMAIN vs[b].byMethod : s = vs[b].byMethod[m]
    BY <1>7, <2>1
  <2>3. m = routes[s].method
    BY <1>7, <2>2
  <2>4. MethodRank(m, q.method) >= 0
    BY <1>8, <2>3 DEF Serves
  <2>5. RouteIn(vs[b], q.method) # NoRoute
    BY <1>7, <2>4, RouteInFacts
  <2> QED
    BY <1>8, <2>2, <2>3, <2>5 DEF Accepting
(* So a route that serves is under no earlier variant that accepts.        *)
<1>9. ASSUME NEW s, Of(s), Serves(routes[s], q), NEW b \in DOMAIN vs, b < a,
             Matches(vs[b].host, q.host, q.port)
      PROVE  ~Bears(s, vs[b].host)
  BY <1>4, <1>8, <1>9
<1>10. PICK m \in DOMAIN vs[a].byMethod :
         /\ r = vs[a].byMethod[m]
         /\ \A k \in DOMAIN vs[a].byMethod : k # m => MethodRank(m, q.method) > MethodRank(k, q.method)
  <2>1. RouteIn(vs[a], q.method) # NoRoute
    BY <1>4 DEF Accepting
  <2> QED
    BY <1>4, <1>7, <2>1, RouteInBest
<1>11. routes[r].method = m /\ Bears(r, vs[a].host)
  <2>1. routes[r].method = m
    BY <1>7, <1>10
  <2>2. r \in Under(i, vs[a].host)
    BY <1>7, <1>10
  <2> QED
    BY <2>1, <2>2 DEF Under
<1>12. PICK x \in Met(q) : x[1] = vs[a].host
  BY <1>3, <1>4, <1>6, <1>11, FormsListed DEF Accepting
<1>13. ASSUME NEW s, Of(s), Serves(routes[s], q)
       PROVE  \E y \in Met(q), b \in DOMAIN vs :
                /\ y[1] = vs[b].host /\ Bears(s, vs[b].host)
                /\ BestHost(routes, s, q) = y[2] /\ ~(b < a)
  <2> DEFINE good == {b \in DOMAIN vs : Matches(vs[b].host, q.host, q.port) /\ Bears(s, vs[b].host)}
  <2>1. good # {}
    <3>1. PICK f \in Admitting(routes[s], q) : TRUE
      BY <1>13 DEF Serves, OnPathAndHost
    <3>2. PICK y \in Met(q) : y[1] \in ToSet(HostsOf(routes[s]))
      BY <1>6, <1>13, <3>1, FormsListed
    <3>3. Files(entries[i], y[1], routes[s].method, s)
      BY <1>1, <1>13, <3>2, EntryFiles
    <3>4. PICK b \in DOMAIN vs : vs[b].host = y[1]
      BY <3>3 DEF Files, ToSet, vs
    <3>5. b \in good
      BY <3>2, <3>4 DEF Met
    <3> QED
      BY <3>5
  <2>2. good \in SUBSET Nat
    BY <1>5
  <2> HIDE DEF good
  <2>3. PICK b : b \in good /\ \A c \in good : b <= c
    BY <2>1, <2>2, MinIsMember
  <2>4. b \in DOMAIN vs /\ Matches(vs[b].host, q.host, q.port) /\ Bears(s, vs[b].host)
    BY <2>3 DEF good
  <2>5. PICK y \in Met(q) : y[1] = vs[b].host
    BY <1>6, <1>13, <2>4, FormsListed
  <2>6. \A c \in DOMAIN vs : c < b /\ Matches(vs[c].host, q.host, q.port) => ~Bears(s, vs[c].host)
    <3>1. \A c \in good : ~(c < b)
      BY <2>2, <2>3
    <3> QED
      BY <3>1 DEF good
  <2>7. BestHost(routes, s, q) = y[2]
    <3> USE DEF vs
    <3> QED
      BY <1>1, <1>13, <2>4, <2>5, <2>6, BestHostIs
  <2>8. ~(b < a)
    BY <1>9, <1>13, <2>4
  <2> QED
    BY <2>4, <2>5, <2>7, <2>8
<1>14. BestHost(routes, r, q) = x[2]
  <2> USE DEF vs
  <2> QED
    BY <1>1, <1>3, <1>9, <1>11, <1>12, BestHostIs
<1>15. Resolve(entries[i], q).params = FormCaptures(BestHost(routes, r, q), q.asked)
  <2>1. Captures(x[1], q.host) = FormCaptures(x[2], q.asked)
    BY DEF RanksRead, Met
  <2> QED
    BY <1>4, <1>12, <1>14, <2>1
<1>16. ASSUME NEW s, Of(s), Serves(routes[s], q), s # r
       PROVE  Preferred(routes, r, s, q) /\ ~Preferred(routes, s, r, q)
  <2>1. PICK y \in Met(q), b \in DOMAIN vs :
          /\ y[1] = vs[b].host /\ Bears(s, vs[b].host)
          /\ BestHost(routes, s, q) = y[2] /\ ~(b < a)
    BY <1>13, <1>16
  <2>2. /\ PriorityOf(routes, r) = PriorityOf(routes, s)
        /\ SamePattern(routes[r].segs, routes[s].segs)
        /\ SamePattern(routes[s].segs, routes[r].segs)
    <3>1. Siblings(routes, r) = Siblings(routes, s)
      BY <1>1, <1>3, <1>16, SiblingsAre
    <3>2. routes[r].segs \in Seq(Seg) /\ routes[s].segs \in Seq(Seg)
      BY <1>3, <1>16, RouteFacts DEF Templates
    <3> QED
      BY <1>3, <1>16, <3>1, <3>2, SameTemplate DEF PriorityOf
  <2>3. CASE a < b
    <3>1. /\ HostBefore(routes, r, x[2], y[2]) /\ ~HostBefore(routes, r, y[2], x[2])
          /\ x[2] # y[2]
          /\ ~HostBefore(routes, s, y[2], x[2])
      <4> USE DEF vs
      <4> QED
        BY <1>1, <1>3, <1>12, <1>16, <2>1, <2>3, VariantBefore
    <3>2. Preferred(routes, r, s, q) <=> HostBefore(routes, r, x[2], y[2])
      BY <1>14, <2>1, <2>2, <3>1 DEF Preferred
    <3>3. Preferred(routes, s, r, q) <=> HostBefore(routes, s, y[2], x[2])
      BY <1>14, <2>1, <2>2, <3>1 DEF Preferred
    <3> QED
      BY <3>1, <3>2, <3>3
  <2>4. CASE a = b
    <3>1. x[2] = y[2]
      <4>1. x[1] = y[1] <=> x[2] = y[2]
        BY DEF RanksRead, RankAlike, Met
      <4> QED
        BY <1>12, <2>1, <2>4, <4>1
    <3>2. routes[s].method \in DOMAIN vs[a].byMethod /\ vs[a].byMethod[routes[s].method] = s
      BY <1>4, <1>8, <1>16, <2>1, <2>4 DEF Accepting
    <3>3. routes[s].method # m
      BY <1>10, <1>16, <3>2
    <3>4. MethodRank(routes[r].method, q.method) > MethodRank(routes[s].method, q.method)
      BY <1>10, <1>11, <3>2, <3>3
    <3>5. /\ MethodRank(routes[r].method, q.method) \in Int
          /\ MethodRank(routes[s].method, q.method) \in Int
      BY DEF MethodRank
    <3>6. /\ Preferred(routes, r, s, q) <=>
               MethodRank(routes[r].method, q.method) > MethodRank(routes[s].method, q.method)
          /\ Preferred(routes, s, r, q) <=>
               MethodRank(routes[s].method, q.method) > MethodRank(routes[r].method, q.method)
      BY <1>14, <2>1, <2>2, <3>1 DEF Preferred
    <3> QED
      BY <3>4, <3>5, <3>6
  <2>5. a < b \/ a = b
    BY <1>5, <2>1
  <2> QED
    BY <2>3, <2>4, <2>5
<1> QED
  BY <1>2, <1>3, <1>15, <1>16

-----------------------------------------------------------------------------
(* The best of the entries *)

LEMMA PriorityIs ==
  ASSUME TableInv, OrderInv, NEW i \in DOMAIN entries, NEW r \in DOMAIN routes,
         Key(routes[r].segs) = Key(entries[i].segs)
  PROVE  PriorityOf(routes, r) = entries[i].priority
<1> DEFINE P == {routes[j].priority : j \in Siblings(routes, r)}
<1>1. Siblings(routes, r) = {s \in DOMAIN routes : Key(routes[s].segs) = Key(entries[i].segs)}
  BY SiblingsAre
<1>2. \A s \in DOMAIN routes : routes[s].priority \in Int
  <2>1. \A s \in DOMAIN routes : routes[s] \in Registration
    BY RouteFacts, CallsAssumption
  <2> QED
    BY <2>1 DEF Registration
<1>3. PICK p : p = entries[i].priority
  OBVIOUS
<1>4. p \in P /\ (\A x \in P : p <= x) /\ P \in SUBSET Int
  BY <1>1, <1>2, <1>3 DEF OrderInv, InOrder
<1>5. PriorityOf(routes, r) = CHOOSE x \in P : \A y \in P : x <= y
  BY DEF PriorityOf, Least
<1> HIDE DEF P
<1>6. \A x \in P : (\A y \in P : x <= y) => x = p
  BY <1>4
<1> QED
  BY <1>3, <1>4, <1>5, <1>6

LEMMA PlacesAre ==
  ASSUME TableInv, OrderInv, NEW i \in DOMAIN entries, NEW j \in DOMAIN entries, i < j,
         NEW r \in DOMAIN routes, Key(routes[r].segs) = Key(entries[i].segs),
         NEW s \in DOMAIN routes, Key(routes[s].segs) = Key(entries[j].segs)
  PROVE  /\ PlaceOf(routes, r) \in Nat /\ PlaceOf(routes, s) \in Nat
         /\ PlaceOf(routes, r) < PlaceOf(routes, s)
<1> DEFINE X == Siblings(routes, r)
           Y == Siblings(routes, s)
<1>1. /\ X = {t \in DOMAIN routes : Key(routes[t].segs) = Key(entries[i].segs)}
      /\ Y = {t \in DOMAIN routes : Key(routes[t].segs) = Key(entries[j].segs)}
  BY SiblingsAre
<1>2. \A t \in Y : \E u \in X : u < t
  BY <1>1 DEF OrderInv, InOrder
<1>3. X \in SUBSET Nat /\ Y \in SUBSET Nat /\ r \in X /\ s \in Y
  <2>1. \A t \in DOMAIN routes : t \in Nat
    BY RouteFacts
  <2> QED
    BY <1>1, <2>1
<1> HIDE DEF X, Y
<1>4. /\ Least(X) \in X /\ \A t \in X : Least(X) <= t
      /\ Least(Y) \in Y /\ \A t \in Y : Least(Y) <= t
  BY <1>3, LeastFacts
<1>5. PICK u \in X : u < Least(Y)
  BY <1>2, <1>4
<1>6. Least(X) <= u /\ Least(X) \in Nat /\ Least(Y) \in Nat /\ u \in Nat
  BY <1>3, <1>4
<1>7. Least(X) < Least(Y)
  BY <1>5, <1>6
<1> QED
  BY <1>6, <1>7 DEF PlaceOf, X, Y

(* Every route of a candidate that precedes another is to be preferred to  *)
(* every route of the other.                                               *)
LEMMA Across ==
  ASSUME TableInv, OrderInv, WithinDepth, NEW q,
         NEW i \in DOMAIN entries, NEW j \in DOMAIN entries, i # j, Precedes(i, j),
         NEW r \in DOMAIN routes, Key(routes[r].segs) = Key(entries[i].segs),
         NEW s \in DOMAIN routes, Key(routes[s].segs) = Key(entries[j].segs)
  PROVE  Preferred(routes, r, s, q) /\ ~Preferred(routes, s, r, q)
<1>1. PICK x, y, p, o : /\ x = entries[i].segs /\ y = entries[j].segs
                        /\ p = entries[i].priority /\ o = entries[j].priority
  OBVIOUS
<1>2. routes[r].segs = x /\ routes[s].segs = y
  BY <1>1 DEF OrderInv, InOrder
<1>3. PriorityOf(routes, r) = p /\ PriorityOf(routes, s) = o
  BY <1>1, PriorityIs
<1>4. /\ x \in Seq(Seg) /\ y \in Seq(Seg) /\ Len(x) <= SpecDepth /\ Len(y) <= SpecDepth
      /\ i \in Nat /\ j \in Nat
  BY <1>1, EntryFacts, Shallow
<1>5. p \in Int /\ o \in Int
  <2>1. \A e \in Entry : e.priority \in Int
    BY DEF Entry
  <2> QED
    BY <1>1, <2>1, EntryFacts
<1>6. ~SamePattern(x, y) /\ ~SamePattern(y, x)
  <2>1. Key(x) # Key(y)
    BY <1>1 DEF TableInv, OneEach
  <2> QED
    BY <1>4, <2>1, SameTemplate
<1>7. /\ Preferred(routes, r, s, q) <=>
           \/ p < o
           \/ p = o /\ (\/ MoreSpecific(x, y)
                        \/ ~MoreSpecific(y, x) /\ PlaceOf(routes, r) < PlaceOf(routes, s))
      /\ Preferred(routes, s, r, q) <=>
           \/ o < p
           \/ o = p /\ (\/ MoreSpecific(y, x)
                        \/ ~MoreSpecific(x, y) /\ PlaceOf(routes, s) < PlaceOf(routes, r))
  <2>1. CASE p = o
    <3>1. Preferred(routes, r, s, q) <=>
            \/ MoreSpecific(x, y)
            \/ ~MoreSpecific(y, x) /\ PlaceOf(routes, r) < PlaceOf(routes, s)
      BY <1>2, <1>3, <1>6, <2>1, Zenon DEF Preferred
    <3>2. Preferred(routes, s, r, q) <=>
            \/ MoreSpecific(y, x)
            \/ ~MoreSpecific(x, y) /\ PlaceOf(routes, s) < PlaceOf(routes, r)
      BY <1>2, <1>3, <1>6, <2>1, Zenon DEF Preferred
    <3> QED
      BY <1>5, <2>1, <3>1, <3>2
  <2>2. CASE p # o
    BY <1>2, <1>3, <1>5, <2>2 DEF Preferred
  <2> QED
    BY <2>1, <2>2
<1>8. /\ MoreSpecific(x, y) <=> Outranks(Specificity(x), Specificity(y))
      /\ MoreSpecific(y, x) <=> Outranks(Specificity(y), Specificity(x))
  BY <1>4, AheadIs
<1>9. /\ ~(Outranks(Specificity(x), Specificity(y)) /\ Outranks(Specificity(y), Specificity(x)))
      /\ Specificity(x) = Specificity(y) =>
           ~Outranks(Specificity(x), Specificity(y)) /\ ~Outranks(Specificity(y), Specificity(x))
  <2>1. /\ Specificity(x) \in [1 .. SpecDepth -> Int] /\ Specificity(y) \in [1 .. SpecDepth -> Int]
        /\ SpecDepth \in Nat
    BY <1>4, SpecificityTyped, BoundAssumption
  <2>2. ~(Outranks(Specificity(x), Specificity(y)) /\ Outranks(Specificity(y), Specificity(x)))
    BY <2>1, OutranksOrders
  <2> QED
    BY <2>2
<1>10. \/ p < o
       \/ /\ p = o
          /\ \/ Outranks(Specificity(x), Specificity(y))
             \/ Specificity(x) = Specificity(y) /\ i < j
  BY <1>1 DEF Precedes
<1>11. i < j => /\ PlaceOf(routes, r) < PlaceOf(routes, s)
                /\ ~(PlaceOf(routes, s) < PlaceOf(routes, r))
  <2> SUFFICES ASSUME i < j
               PROVE  /\ PlaceOf(routes, r) < PlaceOf(routes, s)
                      /\ ~(PlaceOf(routes, s) < PlaceOf(routes, r))
    OBVIOUS
  <2>1. /\ PlaceOf(routes, r) \in Nat /\ PlaceOf(routes, s) \in Nat
        /\ PlaceOf(routes, r) < PlaceOf(routes, s)
    BY PlacesAre
  <2> QED
    BY <2>1
<1> QED
  BY <1>5, <1>7, <1>8, <1>9, <1>10, <1>11

(* What the slow path answers is what the rule picks: the one route that   *)
(* is to be preferred to all others that serve the request.                *)
Able(rts, q) == {r \in DOMAIN rts : Serves(rts[r], q)}
OutdoesAll(rts, r, q) ==
    \A s \in Able(rts, q) \ {r} : Preferred(rts, r, s, q) /\ ~Preferred(rts, s, r, q)

LEMMA SlowIsBest ==
  ASSUME TableInv, OrderInv, WithinDepth, NEW S, NEW q, q.path \in Seq(S), HostsRead(q), RanksRead(q)
  PROVE  /\ IsBest(SlowPath(q), BestRoute(routes, q), q)
         /\ SlowPath(q).route = NoRoute => Able(routes, q) = {}
         /\ SlowPath(q).route # NoRoute => /\ SlowPath(q).route \in Able(routes, q)
                                           /\ OutdoesAll(routes, SlowPath(q).route, q)
<1> DEFINE C == Candidates(q.path)
           usable == {i \in C : Usable(i, q)}
           able == {r \in DOMAIN routes : Serves(routes[r], q)}
           First(r) == \A s \in able \ {r} : Preferred(routes, r, s, q)
<1>1. SlowPath(q) = IF usable # {} THEN Answer(Foremost(usable), q)
                    ELSE Miss(\E i \in C : Resolve(entries[i], q).hostOK)
  BY DEF SlowPath, FirstIn
<1>2. \A i \in C : /\ i \in DOMAIN entries
                   /\ Usable(i, q) <=> Resolved(i, q) # NoRoute
  BY UsableFacts, CandidatesFacts
<1>3. ASSUME NEW r \in able
      PROVE  \E i \in usable : Key(routes[r].segs) = Key(entries[i].segs)
  <2>1. PathMatches(routes[r].segs, q.path)
    BY DEF Serves, OnPathAndHost
  <2>2. PICK i \in C : Key(routes[r].segs) = Key(entries[i].segs)
    BY <2>1, RouteIsOffered
  <2>3. Resolved(i, q) # NoRoute
    BY <2>2, CandidateServes DEF Resolved
  <2> QED
    BY <1>2, <2>2, <2>3
<1>4. BestRoute(routes, q) = IF able = {} THEN 0 ELSE CHOOSE r \in able : First(r)
  BY DEF BestRoute
<1>5. CASE usable = {}
  <2>1. PICK matched : SlowPath(q) = Miss(matched)
    BY <1>1, <1>5
  <2>2. SlowPath(q).route = NoRoute /\ SlowPath(q).params = << >>
    BY <2>1 DEF Miss
  <2>3. able = {}
    BY <1>3, <1>5
  <2>4. BestRoute(routes, q) = 0
    BY <1>4, <2>3
  <2> QED
    BY <2>2, <2>3, <2>4 DEF IsBest, ParamsOf, NoRoute, Able
<1>6. CASE usable # {}
  <2>1. PICK i : i = Foremost(usable)
    OBVIOUS
  <2>2. i \in usable /\ \A j \in usable \ {i} : Precedes(i, j)
    <3>1. usable \in SUBSET DOMAIN entries
      BY <1>2
    <3> HIDE DEF usable
    <3> QED
      BY <1>6, <2>1, <3>1, ForemostFacts
  <2>3. i \in C /\ i \in DOMAIN entries /\ Resolved(i, q) # NoRoute
    BY <1>2, <2>2
  <2>4. PICK r : r = Resolved(i, q)
    OBVIOUS
  <2>5. /\ r \in able /\ Key(routes[r].segs) = Key(entries[i].segs)
        /\ Resolve(entries[i], q).params = FormCaptures(BestHost(routes, r, q), q.asked)
        /\ \A s \in able \ {r} : Key(routes[s].segs) = Key(entries[i].segs) =>
             Preferred(routes, r, s, q) /\ ~Preferred(routes, s, r, q)
    BY <2>3, <2>4, BestOfEntry
  <2>6. \A s \in able \ {r} : Preferred(routes, r, s, q) /\ ~Preferred(routes, s, r, q)
    <3> SUFFICES ASSUME NEW s \in able \ {r}
                 PROVE  Preferred(routes, r, s, q) /\ ~Preferred(routes, s, r, q)
      OBVIOUS
    <3>1. PICK j \in usable : Key(routes[s].segs) = Key(entries[j].segs)
      BY <1>3
    <3>2. CASE j = i
      BY <2>5, <3>1, <3>2
    <3>3. CASE j # i
      BY <1>2, <2>2, <2>3, <2>5, <3>1, <3>3, Across
    <3> QED
      BY <3>2, <3>3
  <2>7. r \in Able(routes, q) /\ OutdoesAll(routes, r, q)
    BY <2>5, <2>6 DEF Able, OutdoesAll
  <2>8. First(r) /\ \A s \in able : First(s) => s = r
    BY <2>5, <2>6
  <2> HIDE DEF First, able
  <2>9. BestRoute(routes, q) = r
    BY <1>4, <2>5, <2>8
  <2>10. SlowPath(q) = Hit(r, Resolve(entries[i], q).params \o Bindings(entries[i].segs, q.path))
    BY <1>1, <1>6, <2>1, <2>3, <2>4, AnswerIs
  <2>11. /\ SlowPath(q).route = r
         /\ SlowPath(q).params = FormCaptures(BestHost(routes, r, q), q.asked)
                                   \o Bindings(entries[i].segs, q.path)
    <3>1. PICK params : params = Resolve(entries[i], q).params \o Bindings(entries[i].segs, q.path)
      OBVIOUS
    <3>2. SlowPath(q) = Hit(r, params)
      BY <2>10, <3>1
    <3>3. SlowPath(q).route = r /\ SlowPath(q).params = params
      <4>1. Hit(r, params).route = r /\ Hit(r, params).params = params
        BY HitFacts
      <4> QED
        BY <3>2, <4>1
    <3> QED
      BY <2>5, <3>1, <3>3
  <2>12. r \in DOMAIN routes /\ r # 0
    BY <2>5, RouteFacts DEF able, NoRoute
  <2>13. routes[r].segs = entries[i].segs
    BY <2>3, <2>5, <2>12 DEF OrderInv, InOrder
  <2>14. ParamsOf(routes, r, q) = SlowPath(q).params
    BY <2>11, <2>12, <2>13 DEF ParamsOf
  <2> QED
    BY <2>9, <2>11, <2>12, <2>14, <2>7 DEF IsBest, NoRoute
<1> QED
  BY <1>5, <1>6

(* The fast paths change nothing of what is found.                         *)
FastPathsChangeNothing == \A q \in Arrived : Find(q) = SlowPath(q)

(* Whatever is registered, in whatever order, a table without priorities   *)
(* answers at once what sorting all candidates would give (table.go, find, *)
(* the comment on the fast paths).                                         *)
THEOREM FastPathsAgree ==
  ASSUME Readable, WithinDepth PROVE TableSpec => []FastPathsChangeNothing
<1>1. TableInv /\ OrderInv => FastPathsChangeNothing
  BY FindIsSlow DEF FastPathsChangeNothing, Readable, Asks
<1> QED
  BY <1>1, OrderIsKept, PTL

(* Whatever is registered, in whatever order, find answers with the route  *)
(* that the rule picks and captures what it captures (table.go, find).     *)
THEOREM BestRouteIsFound ==
  ASSUME Readable, WithinDepth, \A q \in Arrived : RanksRead(q)
  PROVE  TableSpec => []FindsBestRoute
<1>1. TableInv /\ OrderInv => FindsBestRoute
  <2> SUFFICES ASSUME TableInv, OrderInv, NEW q \in Arrived
               PROVE  IsBest(Find(q), BestRoute(routes, q), q)
    BY DEF FindsBestRoute
  <2>1. q.path \in Seq(STRING) /\ HostsRead(q) /\ RanksRead(q)
    BY DEF Readable, Asks
  <2> QED
    BY <2>1, FindIsSlow, SlowIsBest
<1> QED
  BY <1>1, OrderIsKept, PTL

-----------------------------------------------------------------------------
(* What a further registration changes *)

LEMMA PatternsAlike ==
  ASSUME NEW x \in Seq(Seg), NEW y \in Seq(Seg), SamePattern(x, y)
  PROVE  SamePattern(y, x)
<1>1. Key(x) = Key(y)
  BY SameTemplate
<1> QED
  BY <1>1, SameTemplate

LEMMA StillLeast ==
  ASSUME NEW T \in SUBSET Nat, NEW i \in T, NEW n \in Nat, i < n
  PROVE  Least(T \ {n}) = Least(T)
<1>1. /\ Least(T) \in T /\ \A y \in T : Least(T) <= y
      /\ Least(T \ {n}) \in T \ {n} /\ \A y \in T \ {n} : Least(T \ {n}) <= y
  BY LeastFacts
<1>2. Least(T) <= i
  BY <1>1
<1>3. PICK a \in Nat, b \in Nat : a = Least(T) /\ b = Least(T \ {n})
  BY <1>1
<1>4. a # n /\ a \in T \ {n}
  BY <1>1, <1>2, <1>3
<1>5. a <= b /\ b <= a
  BY <1>1, <1>3, <1>4
<1> QED
  BY <1>3, <1>5

(* Earlier routes keep their siblings, but for the new one.                *)
LEMMA EarlierSiblings ==
  ASSUME TableInv, routes # << >>, NEW i \in DOMAIN Front(routes)
  PROVE  /\ i \in DOMAIN routes /\ i < Len(routes) /\ Front(routes)[i] = routes[i]
         /\ Siblings(Front(routes), i) = Siblings(routes, i) \ {Len(routes)}
         /\ Siblings(routes, i) \in SUBSET Nat /\ i \in Siblings(routes, i)
<1>1. routes \in Seq(Calls)
  <2>1. routes \in Seq(AcceptedCalls)
    BY DEF TableInv, EntriesInv
  <2>2. AcceptedCalls \in SUBSET Calls
    BY DEF AcceptedCalls
  <2> QED
    BY <2>1, <2>2
<1>2. /\ Len(routes) \in Nat /\ DOMAIN routes = 1 .. Len(routes)
      /\ DOMAIN Front(routes) = 1 .. Len(routes) - 1
      /\ \A j \in 1 .. Len(routes) - 1 : Front(routes)[j] = routes[j]
  BY <1>1 DEF Front
<1>3. \A j \in DOMAIN routes : routes[j].segs \in Seq(Seg)
  BY RouteFacts DEF Templates
<1>4. i \in DOMAIN routes /\ i < Len(routes) /\ Front(routes)[i] = routes[i]
  BY <1>2
<1>5. SamePattern(routes[i].segs, routes[i].segs)
  BY <1>3, <1>4, SameTemplate
<1>6. Siblings(Front(routes), i) = Siblings(routes, i) \ {Len(routes)}
  <2>1. \A j : j \in DOMAIN Front(routes) <=> j \in DOMAIN routes /\ j # Len(routes)
    BY <1>2
  <2>2. \A j \in DOMAIN Front(routes) : Front(routes)[j] = routes[j]
    BY <1>2
  <2> QED
    BY <1>4, <2>1, <2>2 DEF Siblings
<1>7. Siblings(routes, i) \in SUBSET Nat /\ i \in Siblings(routes, i)
  BY <1>2, <1>4, <1>5 DEF Siblings
<1> QED
  BY <1>4, <1>6, <1>7

LEMMA PlaceStays ==
  ASSUME TableInv, routes # << >>, NEW i \in DOMAIN Front(routes)
  PROVE  PlaceOf(Front(routes), i) = PlaceOf(routes, i)
<1>1. Len(routes) \in Nat
  <2>1. routes \in Seq(AcceptedCalls)
    BY DEF TableInv, EntriesInv
  <2> QED
    BY <2>1
<1> QED
  BY <1>1, EarlierSiblings, StillLeast DEF PlaceOf

(* A pattern that has routes is not made more urgent.                      *)
LEMMA PriorityStays ==
  ASSUME TableInv, OrderInv, routes # << >>, ~Urges, NEW i \in DOMAIN Front(routes)
  PROVE  PriorityOf(Front(routes), i) = PriorityOf(routes, i)
<1> DEFINE X == Siblings(routes, i)
           n == Len(routes)
           P == {routes[j].priority : j \in X}
           Q == {routes[j].priority : j \in X \ {n}}
<1>1. i \in DOMAIN routes /\ i < n /\ X \in SUBSET DOMAIN routes /\ i \in X
  BY EarlierSiblings DEF Siblings
<1>2. Siblings(Front(routes), i) = X \ {n}
  BY EarlierSiblings
<1>3. \A j \in X \ {n} : Front(routes)[j].priority = routes[j].priority
  <2>1. \A j \in X \ {n} : j \in DOMAIN Front(routes)
    BY <1>2 DEF Siblings
  <2> QED
    BY <2>1, EarlierSiblings
<1>4. PriorityOf(Front(routes), i) = Least(Q)
  <2>1. {Front(routes)[j].priority : j \in X \ {n}} = Q
    BY <1>3
  <2> QED
    BY <1>2, <2>1 DEF PriorityOf
<1>5. PriorityOf(routes, i) = Least(P)
  BY DEF PriorityOf
<1>6. PICK k \in DOMAIN entries : Key(routes[i].segs) = Key(entries[k].segs)
  BY <1>1 DEF TableInv, EntriesInv
<1>7. X = {s \in DOMAIN routes : Key(routes[s].segs) = Key(entries[k].segs)}
  BY <1>1, <1>6, SiblingsAre
<1>8. \A s \in DOMAIN routes : routes[s].priority \in Int
  <2>1. \A s \in DOMAIN routes : routes[s] \in Registration
    BY RouteFacts, CallsAssumption
  <2> QED
    BY <2>1 DEF Registration
<1>9. PICK p : p = entries[k].priority
  OBVIOUS
<1>10. p \in P /\ (\A y \in P : y \in Int /\ p <= y)
  BY <1>7, <1>8, <1>9 DEF OrderInv, InOrder
<1>11. p \in Q
  <2>1. PICK t \in X : routes[t].priority = p
    BY <1>10
  <2>2. CASE t # n
    BY <2>1, <2>2
  <2>3. CASE t = n
    <3>1. n \in DOMAIN routes /\ Key(routes[n].segs) = Key(entries[k].segs)
      BY <1>7, <2>3
    <3>2. Siblings(routes, n) = X
      BY <1>7, <3>1, SiblingsAre
    <3>3. Last(routes) = routes[n]
      BY DEF Last
    <3>4. i \in X \ {n}
      BY <1>1
    <3>5. PICK j \in X \ {n} : ~(Last(routes).priority < routes[j].priority)
      BY <3>2, <3>4 DEF Urges
    <3>6. routes[j].priority \in Int /\ p \in Int /\ p <= routes[j].priority
      BY <1>10, <3>5
    <3>7. routes[j].priority = p
      BY <2>1, <2>3, <3>3, <3>5, <3>6
    <3> QED
      BY <3>5, <3>7
  <2> QED
    BY <2>2, <2>3
<1>12. Q \in SUBSET P
  OBVIOUS
<1> HIDE DEF P, Q
<1>13. /\ \A x \in P : (\A y \in P : x <= y) => x = p
       /\ \A x \in Q : (\A y \in Q : x <= y) => x = p
       /\ \A y \in Q : p <= y
  BY <1>10, <1>11, <1>12
<1>14. Least(P) = p
  BY <1>10, <1>13 DEF Least
<1>15. Least(Q) = p
  BY <1>11, <1>13 DEF Least
<1> QED
  BY <1>4, <1>5, <1>14, <1>15

(* Hosts are ranked as before, and so is the one a route answers under.    *)
LEMMA HostOrderStays ==
  ASSUME TableInv, routes # << >>, NEW i \in DOMAIN Front(routes),
         NEW j \in Siblings(Front(routes), i), NEW l \in Siblings(Front(routes), i),
         NEW g \in FormsOf(routes[j]), NEW h \in FormsOf(routes[l])
  PROVE  HostBefore(Front(routes), i, g, h) <=> HostBefore(routes, i, g, h)
<1> DEFINE n == Len(routes)
           Having(f) == {k \in Siblings(routes, i) : f \in FormsOf(routes[k])}
<1>1. /\ i \in DOMAIN routes /\ i < n /\ Siblings(Front(routes), i) = Siblings(routes, i) \ {n}
      /\ Siblings(routes, i) \in SUBSET Nat
  BY EarlierSiblings
<1>2. n \in Nat
  <2>1. routes \in Seq(AcceptedCalls)
    BY DEF TableInv, EntriesInv
  <2> QED
    BY <2>1
<1>3. ASSUME NEW f, NEW k \in Siblings(routes, i) \ {n}, f \in FormsOf(routes[k])
      PROVE  FirstUnder(Front(routes), i, f) = FirstUnder(routes, i, f)
  <2>1. \A m \in Siblings(routes, i) \ {n} : m \in DOMAIN Front(routes)
    BY <1>1 DEF Siblings
  <2>2. \A m \in Siblings(routes, i) \ {n} : Front(routes)[m] = routes[m]
    BY <2>1, EarlierSiblings
  <2>3. {m \in Siblings(Front(routes), i) : f \in FormsOf(Front(routes)[m])} = Having(f) \ {n}
    BY <1>1, <2>2
  <2>4. k < n /\ k \in Nat
    BY <2>1, EarlierSiblings, <1>1
  <2>5. Having(f) \in SUBSET Nat /\ k \in Having(f)
    BY <1>1, <1>3
  <2>6. Least(Having(f) \ {n}) = Least(Having(f))
    <3> HIDE DEF Having, n
    <3> QED
      BY <1>2, <2>4, <2>5, StillLeast
  <2> QED
    BY <2>3, <2>6 DEF FirstUnder
<1>4. /\ FirstUnder(Front(routes), i, g) = FirstUnder(routes, i, g)
      /\ FirstUnder(Front(routes), i, h) = FirstUnder(routes, i, h)
  BY <1>1, <1>3
<1> QED
  BY <1>4 DEF HostBefore

LEMMA HostStays ==
  ASSUME TableInv, routes # << >>, NEW i \in DOMAIN Front(routes), NEW q
  PROVE  BestHost(Front(routes), i, q) = BestHost(routes, i, q)
<1> DEFINE A == Admitting(routes[i], q)
           Old(h) == \A g \in A : ~HostBefore(Front(routes), i, g, h)
           New(h) == \A g \in A : ~HostBefore(routes, i, g, h)
<1>1. Front(routes)[i] = routes[i] /\ i \in Siblings(Front(routes), i)
  BY EarlierSiblings
<1>2. \A h \in A : h \in FormsOf(routes[i])
  BY DEF Admitting
<1>3. \A h \in A : Old(h) <=> New(h)
  BY <1>1, <1>2, HostOrderStays
<1>4. /\ BestHost(Front(routes), i, q) = CHOOSE h \in A : Old(h)
      /\ BestHost(routes, i, q) = CHOOSE h \in A : New(h)
  BY <1>1 DEF BestHost
<1> HIDE DEF A, Old, New
<1>5. (CHOOSE h \in A : Old(h)) = CHOOSE h \in A : New(h)
  BY <1>3
<1> QED
  BY <1>4, <1>5

(* A route whose host is taken answers under one of its patterns.          *)
LEMMA BestHostAdmits ==
  ASSUME TableInv, OrderInv, NEW q, HostsRead(q), RanksRead(q), NEW s \in DOMAIN routes,
         Admitting(routes[s], q) # {}
  PROVE  BestHost(routes, s, q) \in Admitting(routes[s], q)
<1>1. PICK i \in DOMAIN entries : Key(routes[s].segs) = Key(entries[i].segs)
  BY DEF TableInv, EntriesInv
<1> DEFINE vs == Variants(entries[i])
           Bears(h) == h \in ToSet(HostsOf(routes[s]))
           good == {b \in DOMAIN vs : Matches(vs[b].host, q.host, q.port) /\ Bears(vs[b].host)}
<1>2. routes[s] \in Calls /\ Compiled(routes[s]).ok
  BY RouteFacts
<1>3. good # {}
  <2>1. PICK y \in Met(q) : Bears(y[1])
    BY <1>2, FormsListed
  <2>2. Files(entries[i], y[1], routes[s].method, s)
    BY <1>1, <2>1, EntryFiles
  <2>3. PICK b \in DOMAIN vs : vs[b].host = y[1]
    BY <2>2 DEF Files, ToSet
  <2>4. b \in good
    BY <2>1, <2>3 DEF Met
  <2> QED
    BY <2>4
<1>4. good \in SUBSET Nat
  <2>1. vs \in Seq(Variant)
    BY EntryFacts, VariantsTyped
  <2> QED
    BY <2>1
<1> HIDE DEF good
<1>5. PICK b : b \in good /\ \A c \in good : b <= c
  BY <1>3, <1>4, MinIsMember
<1>6. b \in DOMAIN vs /\ Matches(vs[b].host, q.host, q.port) /\ Bears(vs[b].host)
  BY <1>5 DEF good
<1>7. PICK y \in Met(q) : y[1] = vs[b].host
  BY <1>2, <1>6, FormsListed
<1>8. \A c \in DOMAIN vs : c < b /\ Matches(vs[c].host, q.host, q.port) => ~Bears(vs[c].host)
  <2>1. \A c \in good : ~(c < b)
    BY <1>4, <1>5
  <2> QED
    BY <2>1 DEF good
<1>9. BestHost(routes, s, q) = y[2]
  BY <1>1, <1>6, <1>7, <1>8, BestHostIs
<1>10. y[2] \in Admitting(routes[s], q)
  BY <1>2, <1>6, <1>7, FormsListed
<1> QED
  BY <1>9, <1>10

(* The rule, case by case.                                                 *)
LEMMA PreferredCases ==
  ASSUME NEW rts, NEW i, NEW j, NEW q
  PROVE  LET same == PriorityOf(rts, i) = PriorityOf(rts, j)
             alike == SamePattern(rts[i].segs, rts[j].segs)
             g == BestHost(rts, i, q)
             h == BestHost(rts, j, q)
         IN /\ ~same => (Preferred(rts, i, j, q) <=> PriorityOf(rts, i) < PriorityOf(rts, j))
            /\ same /\ ~alike =>
                 (Preferred(rts, i, j, q) <=>
                    \/ MoreSpecific(rts[i].segs, rts[j].segs)
                    \/ ~MoreSpecific(rts[j].segs, rts[i].segs) /\ PlaceOf(rts, i) < PlaceOf(rts, j))
            /\ same /\ alike /\ g # h => (Preferred(rts, i, j, q) <=> HostBefore(rts, i, g, h))
            /\ same /\ alike /\ g = h =>
                 (Preferred(rts, i, j, q) <=>
                    MethodRank(rts[i].method, q.method) > MethodRank(rts[j].method, q.method))
<1>1. PICK x, y, pi, pj, g, h :
        /\ x = rts[i].segs /\ y = rts[j].segs
        /\ pi = PriorityOf(rts, i) /\ pj = PriorityOf(rts, j)
        /\ g = BestHost(rts, i, q) /\ h = BestHost(rts, j, q)
  OBVIOUS
<1>2. CASE pi # pj
  BY <1>1, <1>2 DEF Preferred
<1>3. CASE pi = pj /\ ~SamePattern(x, y)
  BY <1>1, <1>3 DEF Preferred
<1>4. CASE pi = pj /\ SamePattern(x, y) /\ g # h
  BY <1>1, <1>4 DEF Preferred
<1>5. CASE pi = pj /\ SamePattern(x, y) /\ g = h
  BY <1>1, <1>5 DEF Preferred
<1> QED
  BY <1>2, <1>3, <1>4, <1>5

(* So earlier routes are preferred to one another as before.               *)
LEMMA PreferenceStays ==
  ASSUME TableInv, OrderInv, routes # << >>, ~Urges,
         NEW q, HostsRead(q), RanksRead(q),
         NEW i \in Able(Front(routes), q), NEW j \in Able(Front(routes), q)
  PROVE  Preferred(Front(routes), i, j, q) <=> Preferred(routes, i, j, q)
<1> DEFINE old == Front(routes)
<1>1. i \in DOMAIN old /\ j \in DOMAIN old
  BY DEF Able
<1>2. old[i] = routes[i] /\ old[j] = routes[j]
  BY <1>1, EarlierSiblings
<1>3. PriorityOf(old, i) = PriorityOf(routes, i) /\ PriorityOf(old, j) = PriorityOf(routes, j)
  BY <1>1, PriorityStays
<1>4. PlaceOf(old, i) = PlaceOf(routes, i) /\ PlaceOf(old, j) = PlaceOf(routes, j)
  BY <1>1, PlaceStays
<1>5. BestHost(old, i, q) = BestHost(routes, i, q) /\ BestHost(old, j, q) = BestHost(routes, j, q)
  BY <1>1, HostStays
<1>6. SamePattern(routes[i].segs, routes[j].segs) =>
        (HostBefore(old, i, BestHost(routes, i, q), BestHost(routes, j, q)) <=>
         HostBefore(routes, i, BestHost(routes, i, q), BestHost(routes, j, q)))
  <2> SUFFICES ASSUME SamePattern(routes[i].segs, routes[j].segs)
               PROVE  HostBefore(old, i, BestHost(routes, i, q), BestHost(routes, j, q)) <=>
                      HostBefore(routes, i, BestHost(routes, i, q), BestHost(routes, j, q))
    OBVIOUS
  <2>1. /\ i \in DOMAIN routes /\ j \in DOMAIN routes
        /\ i \in Siblings(old, i)
    BY <1>1, EarlierSiblings
  <2>2. j \in Siblings(old, i)
    <3>1. routes[i].segs \in Seq(Seg) /\ routes[j].segs \in Seq(Seg)
      BY <2>1, RouteFacts DEF Templates
    <3>2. SamePattern(routes[j].segs, routes[i].segs)
      BY <3>1, PatternsAlike
    <3> QED
      BY <1>1, <1>2, <3>2 DEF Siblings
  <2>3. Admitting(routes[i], q) # {} /\ Admitting(routes[j], q) # {}
    BY <1>2 DEF Able, Serves, OnPathAndHost
  <2>4. /\ BestHost(routes, i, q) \in FormsOf(routes[i])
        /\ BestHost(routes, j, q) \in FormsOf(routes[j])
    BY <2>1, <2>3, BestHostAdmits DEF Admitting
  <2> QED
    BY <1>1, <2>1, <2>2, <2>4, HostOrderStays
<1> HIDE DEF old
<1>7. CASE PriorityOf(routes, i) # PriorityOf(routes, j)
  <2>1. Preferred(old, i, j, q) <=> PriorityOf(old, i) < PriorityOf(old, j)
    BY <1>3, <1>7, PreferredCases
  <2>2. Preferred(routes, i, j, q) <=> PriorityOf(routes, i) < PriorityOf(routes, j)
    BY <1>7, PreferredCases
  <2> QED
    BY <1>3, <2>1, <2>2 DEF old
<1>8. CASE /\ PriorityOf(routes, i) = PriorityOf(routes, j)
           /\ ~SamePattern(routes[i].segs, routes[j].segs)
  <2>1. Preferred(old, i, j, q) <=>
          \/ MoreSpecific(old[i].segs, old[j].segs)
          \/ ~MoreSpecific(old[j].segs, old[i].segs) /\ PlaceOf(old, i) < PlaceOf(old, j)
    BY <1>2, <1>3, <1>8, PreferredCases
  <2>2. Preferred(routes, i, j, q) <=>
          \/ MoreSpecific(routes[i].segs, routes[j].segs)
          \/ ~MoreSpecific(routes[j].segs, routes[i].segs) /\ PlaceOf(routes, i) < PlaceOf(routes, j)
    BY <1>8, PreferredCases
  <2> QED
    BY <1>2, <1>4, <2>1, <2>2 DEF old
<1>9. CASE /\ PriorityOf(routes, i) = PriorityOf(routes, j)
           /\ SamePattern(routes[i].segs, routes[j].segs)
           /\ BestHost(routes, i, q) # BestHost(routes, j, q)
  <2>1. Preferred(old, i, j, q) <=> HostBefore(old, i, BestHost(old, i, q), BestHost(old, j, q))
    BY <1>2, <1>3, <1>5, <1>9, PreferredCases
  <2>2. Preferred(routes, i, j, q) <=>
          HostBefore(routes, i, BestHost(routes, i, q), BestHost(routes, j, q))
    BY <1>9, PreferredCases
  <2> QED
    BY <1>5, <1>6, <1>9, <2>1, <2>2 DEF old
<1>10. CASE /\ PriorityOf(routes, i) = PriorityOf(routes, j)
            /\ SamePattern(routes[i].segs, routes[j].segs)
            /\ BestHost(routes, i, q) = BestHost(routes, j, q)
  <2>1. Preferred(old, i, j, q) <=>
          MethodRank(old[i].method, q.method) > MethodRank(old[j].method, q.method)
    BY <1>2, <1>3, <1>5, <1>10, PreferredCases
  <2>2. Preferred(routes, i, j, q) <=>
          MethodRank(routes[i].method, q.method) > MethodRank(routes[j].method, q.method)
    BY <1>10, PreferredCases
  <2> QED
    BY <1>2, <2>1, <2>2 DEF old
<1> QED
  BY <1>7, <1>8, <1>9, <1>10

(* ... and the best of them is what it was, if the new route is not it.    *)
LEMMA BestStays ==
  ASSUME TableInv, OrderInv, WithinDepth, routes # << >>, ~Urges,
         NEW S, NEW q, q.path \in Seq(S), HostsRead(q), RanksRead(q)
  PROVE  SlowPath(q).route \in {BestRoute(Front(routes), q), Len(routes)}
<1> DEFINE old == Front(routes)
           r == SlowPath(q).route
           able == Able(old, q)
           Wins(s) == \A t \in able \ {s} : Preferred(old, s, t, q)
<1>1. /\ r = NoRoute => Able(routes, q) = {}
      /\ r # NoRoute => r \in Able(routes, q) /\ OutdoesAll(routes, r, q)
  BY SlowIsBest
<1>2. \A s \in able : s \in Able(routes, q)
  BY EarlierSiblings DEF Able
<1>3. BestRoute(old, q) = IF able = {} THEN 0 ELSE CHOOSE s \in able : Wins(s)
  BY DEF BestRoute, Able
<1>4. CASE r = NoRoute
  <2>1. able = {}
    BY <1>1, <1>2, <1>4
  <2>2. BestRoute(old, q) = NoRoute
    BY <1>3, <2>1 DEF NoRoute
  <2> QED
    BY <1>4, <2>2
<1>5. CASE r # NoRoute /\ r # Len(routes)
  <2>1. r \in able
    <3>1. r \in DOMAIN routes /\ Serves(routes[r], q)
      BY <1>1, <1>5 DEF Able
    <3>2. routes \in Seq(AcceptedCalls)
      BY DEF TableInv, EntriesInv
    <3>3. r \in DOMAIN old
      BY <1>5, <3>1, <3>2 DEF Front
    <3> QED
      BY <3>1, <3>3, EarlierSiblings DEF Able
  <2>2. \A s \in able \ {r} : Preferred(old, r, s, q) /\ ~Preferred(old, s, r, q)
    BY <1>1, <1>2, <1>5, <2>1, PreferenceStays DEF OutdoesAll
  <2>3. Wins(r) /\ \A s \in able : Wins(s) => s = r
    BY <2>1, <2>2
  <2> HIDE DEF able, Wins, r
  <2>4. BestRoute(old, q) = r
    BY <1>3, <2>1, <2>3
  <2> QED
    BY <2>4 DEF r
<1> QED
  BY <1>4, <1>5

(* The last registration claims requests only for itself.                  *)
THEOREM AdditionsAreHarmless ==
  ASSUME Readable, WithinDepth, \A q \in Arrived : RanksRead(q)
  PROVE  TableSpec => []AdditionsOnlyClaim
<1>1. TableInv /\ OrderInv => AdditionsOnlyClaim
  <2> SUFFICES ASSUME TableInv, OrderInv, routes # << >>, NEW q \in Arrived
               PROVE  StillAnswers(Find(q), BestRoute(Front(routes), q))
    BY DEF AdditionsOnlyClaim
  <2>1. q.path \in Seq(STRING) /\ HostsRead(q) /\ RanksRead(q)
    BY DEF Readable, Asks
  <2>2. Find(q) = SlowPath(q)
    BY <2>1, FindIsSlow
  <2>3. BestRoute(Front(routes), q) # NoRoute => Find(q).route # NoRoute
    <3> SUFFICES ASSUME Find(q).route = NoRoute
                 PROVE  BestRoute(Front(routes), q) = NoRoute
      OBVIOUS
    <3>1. Able(routes, q) = {}
      BY <2>1, <2>2, SlowIsBest
    <3>2. Able(Front(routes), q) = {}
      BY <3>1, EarlierSiblings DEF Able
    <3> QED
      BY <3>2 DEF BestRoute, Able, NoRoute
  <2>4. ~Urges => Find(q).route \in {BestRoute(Front(routes), q), Len(routes)}
    BY <2>1, <2>2, BestStays
  <2> QED
    BY <2>3, <2>4 DEF StillAnswers
<1> QED
  BY <1>1, OrderIsKept, PTL
=============================================================================
