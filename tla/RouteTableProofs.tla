--------------------------- MODULE RouteTableProofs ---------------------------
(***************************************************************************)
(* Theorems about RouteTable, for every list of calls.                     *)
(***************************************************************************)
EXTENDS RouteTable, Induction, SequenceTheorems

-----------------------------------------------------------------------------
(* Insertion into a list *)

(* The last place in a list that something holds of, or 0.                 *)
LEMMA LastOrNone ==
  ASSUME NEW n \in Nat, NEW s \in SUBSET (1 .. n)
  PROVE  /\ Max(s \cup {0}) \in 0 .. n
         /\ Max(s \cup {0}) # 0 => Max(s \cup {0}) \in s
         /\ \A i \in s : i <= Max(s \cup {0})
<1>1. CASE s = {}
  <2>1. Max(s \cup {0}) = 0
    <3>1. s \cup {0} \in SUBSET Int /\ 0 \in s \cup {0} /\ \A x \in s \cup {0} : 0 >= x
      BY <1>1
    <3> QED
      BY <3>1, MaxIs
  <2> QED
    BY <1>1, <2>1
<1>2. CASE s # {}
  <2>1. Max(s) \in s /\ \A x \in s : Max(s) >= x
    BY <1>2, MaxIsMember
  <2>2. PICK m \in s : m = Max(s)
    BY <2>1
  <2>3. Max(s \cup {0}) = m
    <3>1. s \cup {0} \in SUBSET Int /\ m \in s \cup {0} /\ \A x \in s \cup {0} : m >= x
      BY <2>1, <2>2
    <3> QED
      BY <3>1, MaxIs
  <2> QED
    BY <2>1, <2>2, <2>3
<1> QED
  BY <1>1, <1>2

(* r is seq with x in it, behind the k-th element.                         *)
HasBehind(r, seq, k, x) ==
    /\ \A i \in 1 .. k : r[i] = seq[i]
    /\ r[k + 1] = x
    /\ \A i \in k + 1 .. Len(seq) : r[i + 1] = seq[i]

(* An element is inserted behind the last of some positions, and moves     *)
(* those behind it by one.                                                 *)
LEMMA InsertedAt ==
  ASSUME NEW S, NEW seq \in Seq(S), NEW positions \in SUBSET (DOMAIN seq), NEW x \in S,
         NEW r, r = InsertBehind(seq, positions, x)
  PROVE  /\ r \in Seq(S) /\ Len(r) = Len(seq) + 1
         /\ \E k \in 0 .. Len(seq) :
              /\ k # 0 => k \in positions
              /\ \A i \in positions : i <= k
              /\ HasBehind(r, seq, k, x)
<1> DEFINE n == Len(seq)
           k == Max(positions \cup {0})
           front == SubSeq(seq, 1, k)
           back == SubSeq(seq, k + 1, n)
<1>1. n \in Nat /\ DOMAIN seq = 1 .. n
  OBVIOUS
<1>2. k \in 0 .. n /\ (k # 0 => k \in positions) /\ \A i \in positions : i <= k
  BY <1>1, LastOrNone
<1>3. r = front \o <<x>> \o back
  <2> DEFINE j == k + 1
  <2>1. r = InsertAt(seq, j, x)
    BY DEF InsertBehind
  <2>2. j - 1 = k
    BY <1>2
  <2> HIDE DEF j, k, n
  <2>3. InsertAt(seq, j, x) = SubSeq(seq, 1, j - 1) \o <<x>> \o SubSeq(seq, j, Len(seq))
    BY DEF InsertAt
  <2>4. SubSeq(seq, 1, j - 1) = SubSeq(seq, 1, k)
    BY <2>2
  <2> QED
    BY <2>1, <2>3, <2>4, Zenon DEF j, n
<1> HIDE DEF k
<1>4. /\ front \in Seq(S) /\ Len(front) = k /\ \A i \in 1 .. k : front[i] = seq[i]
      /\ back \in Seq(S) /\ Len(back) = n - k /\ \A i \in 1 .. n - k : back[i] = seq[k + i]
  <2>1. \A i \in 1 .. n : seq[i] \in S
    BY <1>1
  <2>2. \A i \in 1 .. k : seq[i] \in S
    BY <1>2, <2>1
  <2>3. \A i \in k + 1 .. n : seq[i] \in S
    BY <1>2, <2>1
  <2> HIDE DEF n, k
  <2>4. 1 \in Int /\ k \in Int /\ k + 1 \in Int /\ n \in Int
    BY <1>1, <1>2
  <2>5. /\ front \in Seq(S) /\ Len(front) = IF 1 <= k THEN k - 1 + 1 ELSE 0
        /\ \A i \in 1 .. k - 1 + 1 : front[i] = seq[1 + i - 1]
    BY <2>2, <2>4, SubSeqProperties
  <2>6. /\ back \in Seq(S) /\ Len(back) = IF k + 1 <= n THEN n - (k + 1) + 1 ELSE 0
        /\ \A i \in 1 .. n - (k + 1) + 1 : back[i] = seq[k + 1 + i - 1]
    BY <2>3, <2>4, SubSeqProperties
  <2> HIDE DEF front, back
  <2>7. k - 1 + 1 = k /\ n - (k + 1) + 1 = n - k
    BY <1>1, <1>2
  <2>9. Len(front) = k /\ Len(back) = n - k
    BY <1>1, <1>2, <2>5, <2>6
  <2>8. ASSUME NEW i \in 1 .. k
        PROVE  front[i] = seq[i]
    <3>1. i \in 1 .. k - 1 + 1 /\ 1 + i - 1 = i
      BY <1>2
    <3> QED
      BY <2>5, <3>1
  <2>10. ASSUME NEW i \in 1 .. n - k
         PROVE  back[i] = seq[k + i]
    <3>1. i \in 1 .. n - (k + 1) + 1 /\ k + 1 + i - 1 = k + i
      BY <1>1, <1>2
    <3> QED
      BY <2>6, <3>1
  <2> QED
    BY <2>5, <2>6, <2>8, <2>9, <2>10
<1> HIDE DEF front, back
<1>5. /\ front \o <<x>> \in Seq(S) /\ Len(front \o <<x>>) = k + 1
      /\ \A i \in 1 .. k + 1 : (front \o <<x>>)[i] = IF i = k + 1 THEN x ELSE seq[i]
  BY <1>2, <1>4
<1>6. /\ r \in Seq(S) /\ Len(r) = n + 1
      /\ \A i \in 1 .. n + 1 : r[i] = IF i <= k THEN seq[i]
                                      ELSE IF i = k + 1 THEN x ELSE seq[i - 1]
  <2> DEFINE fx == front \o <<x>>
  <2> HIDE DEF fx
  <2>1. fx \in Seq(S) /\ Len(fx) = k + 1 /\ \A i \in 1 .. k + 1 : fx[i] = IF i = k + 1 THEN x ELSE seq[i]
    BY <1>5 DEF fx
  <2>2. r = fx \o back
    BY <1>3 DEF fx
  <2>3. r \in Seq(S) /\ Len(r) = n + 1
    <3>1. fx \in Seq(S) /\ back \in Seq(S) /\ Len(fx) = k + 1 /\ Len(back) = n - k
      BY <1>4, <2>1
    <3>2. r \in Seq(S) /\ Len(r) = Len(fx) + Len(back)
      BY <2>2, <3>1, ConcatProperties, Zenon
    <3> QED
      BY <1>1, <1>2, <3>1, <3>2
  <2>4. \A i \in 1 .. n + 1 : r[i] = IF i <= k + 1 THEN fx[i] ELSE back[i - (k + 1)]
    <3>1. \A i \in 1 .. k + 1 + (n - k) :
            (fx \o back)[i] = IF i <= k + 1 THEN fx[i] ELSE back[i - (k + 1)]
      <4>1. fx \in Seq(S) /\ back \in Seq(S) /\ Len(fx) = k + 1 /\ Len(back) = n - k
        BY <1>4, <2>1
      <4>2. \A i \in 1 .. Len(fx) + Len(back) :
              (fx \o back)[i] = IF i <= Len(fx) THEN fx[i] ELSE back[i - Len(fx)]
        BY <4>1, ConcatProperties, Zenon
      <4> QED
        BY <4>1, <4>2
    <3>2. k + 1 + (n - k) = n + 1
      BY <1>1, <1>2
    <3> QED
      BY <2>2, <3>1, <3>2
  <2>5. \A i \in 1 .. n + 1 : i > k + 1 => i - (k + 1) \in 1 .. n - k /\ k + (i - (k + 1)) = i - 1
    BY <1>1, <1>2
  <2>6. ASSUME NEW i \in 1 .. n + 1
        PROVE  r[i] = IF i <= k THEN seq[i] ELSE IF i = k + 1 THEN x ELSE seq[i - 1]
    <3>1. CASE i <= k + 1
      BY <1>2, <2>1, <2>4, <3>1
    <3>2. CASE i > k + 1
      <4>1. r[i] = back[i - (k + 1)]
        BY <1>2, <2>4, <3>2
      <4>2. back[i - (k + 1)] = seq[k + (i - (k + 1))]
        BY <1>4, <2>5, <3>2
      <4>3. r[i] = seq[i - 1]
        BY <2>5, <3>2, <4>1, <4>2
      <4>4. i \in Int /\ ~(i <= k) /\ i # k + 1
        BY <1>2, <3>2
      <4> QED
        BY <4>3, <4>4
    <3> QED
      BY <1>2, <3>1, <3>2
  <2> QED
    BY <2>3, <2>6
<1>7. /\ \A i \in 1 .. k : r[i] = seq[i]
      /\ r[k + 1] = x
      /\ \A i \in k + 1 .. n : r[i + 1] = seq[i]
  <2> HIDE DEF n
  <2>1. \A i \in 1 .. k : i \in 1 .. n + 1 /\ i <= k
    BY <1>1, <1>2
  <2>2. k + 1 \in 1 .. n + 1 /\ ~(k + 1 <= k)
    BY <1>1, <1>2
  <2>3. ASSUME NEW i \in k + 1 .. n
        PROVE  r[i + 1] = seq[i]
    <3>1. i + 1 \in 1 .. n + 1 /\ ~(i + 1 <= k) /\ i + 1 # k + 1 /\ i + 1 - 1 = i
      BY <1>1, <1>2
    <3>2. r[i + 1] = seq[i + 1 - 1]
      BY <1>6, <3>1
    <3> QED
      BY <3>1, <3>2
  <2> QED
    BY <1>6, <2>1, <2>2, <2>3
<1>8. HasBehind(r, seq, k, x)
  BY <1>7 DEF HasBehind
<1> QED
  BY <1>2, <1>6, <1>8

(* A list gains the element that is inserted and nothing else.             *)
LEMMA Inserted ==
  ASSUME NEW S, NEW seq \in Seq(S), NEW positions \in SUBSET (DOMAIN seq), NEW x \in S
  PROVE  /\ InsertBehind(seq, positions, x) \in Seq(S)
         /\ Len(InsertBehind(seq, positions, x)) = Len(seq) + 1
         /\ \A i \in DOMAIN InsertBehind(seq, positions, x) :
              InsertBehind(seq, positions, x)[i] # x =>
                \E j \in DOMAIN seq : seq[j] = InsertBehind(seq, positions, x)[i]
         /\ \E i \in DOMAIN InsertBehind(seq, positions, x) :
              InsertBehind(seq, positions, x)[i] = x
         /\ \A j \in DOMAIN seq : \E i \in DOMAIN InsertBehind(seq, positions, x) :
              InsertBehind(seq, positions, x)[i] = seq[j]
<1> DEFINE n == Len(seq)
<1>1. n \in Nat /\ DOMAIN seq = 1 .. n
  OBVIOUS
<1>2. PICK r : r = InsertBehind(seq, positions, x)
  OBVIOUS
<1>3. r \in Seq(S) /\ Len(r) = n + 1 /\ \E k \in 0 .. n : HasBehind(r, seq, k, x)
  BY <1>2, InsertedAt
<1>4. PICK k \in 0 .. n : /\ \A i \in 1 .. k : r[i] = seq[i]
                          /\ r[k + 1] = x
                          /\ \A i \in k + 1 .. n : r[i + 1] = seq[i]
  BY <1>3 DEF HasBehind
<1>5. DOMAIN r = 1 .. n + 1
  BY <1>3
<1> HIDE DEF n
<1>6. ASSUME NEW i \in 1 .. n + 1, r[i] # x
      PROVE  \E j \in 1 .. n : seq[j] = r[i]
  <2>1. CASE i <= k
    <3>1. i \in 1 .. k /\ i \in 1 .. n
      BY <1>1, <2>1
    <3> QED
      BY <1>4, <3>1
  <2>2. CASE i > k
    <3>1. i # k + 1
      BY <1>4, <1>6
    <3>2. PICK j : j = i - 1
      OBVIOUS
    <3>3. j \in k + 1 .. n /\ j \in 1 .. n /\ j + 1 = i
      BY <1>1, <2>2, <3>1, <3>2
    <3> QED
      BY <1>4, <3>3
  <2> QED
    BY <1>1, <2>1, <2>2
<1>7. k + 1 \in 1 .. n + 1 /\ r[k + 1] = x
  BY <1>1, <1>4
<1>8. ASSUME NEW j \in 1 .. n
      PROVE  \E i \in 1 .. n + 1 : r[i] = seq[j]
  <2>1. CASE j <= k
    <3>1. j \in 1 .. k /\ j \in 1 .. n + 1
      BY <1>1, <2>1
    <3> QED
      BY <1>4, <3>1
  <2>2. CASE j > k
    <3>1. j \in k + 1 .. n /\ j + 1 \in 1 .. n + 1
      BY <1>1, <2>2
    <3> QED
      BY <1>4, <3>1
  <2> QED
    BY <1>1, <2>1, <2>2
<1> QED
  BY <1>1, <1>2, <1>3, <1>5, <1>6, <1>7, <1>8 DEF n

(* What Append leaves and what it adds.                                    *)
LEMMA OneMore ==
  ASSUME NEW S, NEW seq \in Seq(S), NEW x \in S
  PROVE  /\ Append(seq, x) \in Seq(S)
         /\ Len(Append(seq, x)) = Len(seq) + 1
         /\ DOMAIN Append(seq, x) = DOMAIN seq \cup {Len(seq) + 1}
         /\ Len(seq) + 1 \in Nat \ DOMAIN seq
         /\ Append(seq, x)[Len(seq) + 1] = x
         /\ \A i \in DOMAIN seq : Append(seq, x)[i] = seq[i]
OBVIOUS

-----------------------------------------------------------------------------
(* The prefix tree *)

Labels == {Label(s) : s \in Seg}
Params == {s \in Seg : s.kind = "param"}
CatchAlls == {s \in Seg : s.kind = "catchAll"}
Node == [params : Seq(Params), catchAlls : Seq(CatchAlls), values : Seq(Nat)]

(* A label tells the kinds of wildcard apart.                              *)
LEMMA SegKind ==
  ASSUME NEW s \in Seg
  PROVE  s.kind \in {"static", "param", "catchAll"} /\ Label(s) \in Labels
BY DEF Seg, Labels

LEMMA SameLabel ==
  ASSUME NEW s \in Seg, NEW u \in Seg, s.kind # "static"
  PROVE  Label(u) = Label(s) <=> u.kind = s.kind /\ u.type = s.type
<1>1. Label(s) = <<s.kind, s.type>>
  BY DEF Label
<1>2. CASE u.kind = "static"
  <2>1. Label(u) = <<"static", u.text>>
    BY <1>2 DEF Label
  <2> QED
    BY <1>1, <1>2, <2>1
<1>3. CASE u.kind # "static"
  <2>1. Label(u) = <<u.kind, u.type>>
    BY <1>3 DEF Label
  <2> QED
    BY <1>1, <2>1
<1> QED
  BY <1>2, <1>3

(* The edges of a node that a segment may take.                            *)
EdgesFor(nd, s) == IF s.kind = "param" THEN nd.params ELSE nd.catchAlls

(* The edge for s makes its type known, and no other.                      *)
LEMMA EdgeAdded ==
  ASSUME NEW K, NEW edges \in Seq(K), NEW s \in K
  PROVE  /\ WithEdge(edges, s) \in Seq(K)
         /\ Known(edges, s) => WithEdge(edges, s) = edges
         /\ \A u :
              Known(WithEdge(edges, s), u) <=> Known(edges, u) \/ u.type = s.type
<1>1. CASE Known(edges, s)
  <2>1. WithEdge(edges, s) = edges
    BY <1>1 DEF WithEdge
  <2>2. \A u : u.type = s.type => Known(edges, u)
    BY <1>1 DEF Known
  <2> QED
    BY <2>1, <2>2
<1>2. ASSUME ~Known(edges, s), Checked(s)
      PROVE  /\ WithEdge(edges, s) \in Seq(K)
             /\ \A u :
                  Known(WithEdge(edges, s), u) <=> Known(edges, u) \/ u.type = s.type
  <2> DEFINE at == {i \in DOMAIN edges : Checked(edges[i])}
             r == InsertBehind(edges, at, s)
  <2>1. WithEdge(edges, s) = r
    BY <1>2 DEF WithEdge
  <2>2. at \in SUBSET (DOMAIN edges)
    OBVIOUS
  <2> HIDE DEF at
  <2>3. /\ r \in Seq(K)
        /\ \A i \in DOMAIN r : r[i] # s => \E j \in DOMAIN edges : edges[j] = r[i]
        /\ \E i \in DOMAIN r : r[i] = s
        /\ \A j \in DOMAIN edges : \E i \in DOMAIN r : r[i] = edges[j]
    BY <2>2, Inserted
  <2> HIDE DEF r
  <2>4. \A u : Known(r, u) => Known(edges, u) \/ s.type = u.type
    BY <2>3 DEF Known
  <2>5. \A u : Known(edges, u) \/ s.type = u.type => Known(r, u)
    BY <2>3 DEF Known
  <2> QED
    BY <2>1, <2>3, <2>4, <2>5
<1>3. ASSUME ~Known(edges, s), ~Checked(s)
      PROVE  /\ WithEdge(edges, s) \in Seq(K)
             /\ \A u :
                  Known(WithEdge(edges, s), u) <=> Known(edges, u) \/ u.type = s.type
  <2> DEFINE r == Append(edges, s)
  <2>1. WithEdge(edges, s) = r
    BY <1>3 DEF WithEdge
  <2>2. /\ r \in Seq(K) /\ DOMAIN edges = 1 .. Len(edges)
        /\ DOMAIN r = 1 .. Len(edges) + 1 /\ r[Len(edges) + 1] = s
        /\ \A i \in 1 .. Len(edges) : r[i] = edges[i]
    OBVIOUS
  <2> HIDE DEF r
  <2>3. Len(edges) \in Nat
    OBVIOUS
  <2>4. \A u : Known(r, u) <=> Known(edges, u) \/ s.type = u.type
    BY <2>2, <2>3 DEF Known
  <2> QED
    BY <2>1, <2>2, <2>4
<1> QED
  BY <1>1, <1>2, <1>3

(* The node that a segment leaves from, once it is linked.                 *)
LinkedNode(nd, s) ==
    IF s.kind = "static" THEN nd
    ELSE IF s.kind = "param" THEN [nd EXCEPT !.params = WithEdge(nd.params, s)]
    ELSE [nd EXCEPT !.catchAlls = WithEdge(nd.catchAlls, s)]

(* Linking a node to one more child keeps its values and adds one edge.    *)
LEMMA NodeLinked ==
  ASSUME NEW nd \in Node, NEW s \in Seg
  PROVE  /\ LinkedNode(nd, s) \in Node /\ LinkedNode(nd, s).values = nd.values
         /\ s.kind = "static" \/ Known(EdgesFor(nd, s), s) => LinkedNode(nd, s) = nd
         /\ \A u \in Seg : u.kind # "static" =>
              (Known(EdgesFor(LinkedNode(nd, s), u), u) <=>
                 Known(EdgesFor(nd, u), u) \/ (u.kind = s.kind /\ u.type = s.type))
<1> DEFINE ps == WithEdge(nd.params, s)
           cs == WithEdge(nd.catchAlls, s)
           new == LinkedNode(nd, s)
<1>1. nd.params \in Seq(Params) /\ nd.catchAlls \in Seq(CatchAlls)
  BY DEF Node
<1>2. s.kind = "param" =>
        /\ ps \in Seq(Params)
        /\ Known(nd.params, s) => ps = nd.params
        /\ \A u \in Seg : Known(ps, u) <=> Known(nd.params, u) \/ u.type = s.type
  <2> HAVE s.kind = "param"
  <2>1. s \in Params
    BY DEF Params
  <2> QED
    BY <1>1, <2>1, EdgeAdded
<1>3. s.kind = "catchAll" =>
        /\ cs \in Seq(CatchAlls)
        /\ Known(nd.catchAlls, s) => cs = nd.catchAlls
        /\ \A u \in Seg : Known(cs, u) <=> Known(nd.catchAlls, u) \/ u.type = s.type
  <2> HAVE s.kind = "catchAll"
  <2>1. s \in CatchAlls
    BY DEF CatchAlls
  <2> QED
    BY <1>1, <2>1, EdgeAdded
<1>4. \A u \in Seg : u.kind \in {"static", "param", "catchAll"}
  BY SegKind
<1>5. CASE s.kind = "static"
  <2>1. new = nd
    BY <1>5 DEF LinkedNode
  <2>2. \A u \in Seg : u.kind # "static" => u.kind # s.kind
    BY <1>5
  <2> HIDE DEF new
  <2> QED
    BY <2>1, <2>2, Zenon DEF new
<1>6. CASE s.kind = "param"
  <2>1. new = [nd EXCEPT !.params = ps]
    BY <1>6 DEF LinkedNode
  <2> HIDE DEF ps, new
  <2>2. /\ new \in Node /\ new.values = nd.values
        /\ new.params = ps /\ new.catchAlls = nd.catchAlls
        /\ ps = nd.params => new = nd
    BY <1>2, <1>6, <2>1 DEF Node
  <2>3. \A u \in Seg : u.kind # "static" =>
          (Known(EdgesFor(new, u), u) <=>
             Known(EdgesFor(nd, u), u) \/ (u.kind = s.kind /\ u.type = s.type))
    <3> SUFFICES ASSUME NEW u \in Seg, u.kind # "static"
                 PROVE  Known(EdgesFor(new, u), u) <=>
                          Known(EdgesFor(nd, u), u) \/ (u.kind = s.kind /\ u.type = s.type)
      OBVIOUS
    <3>1. CASE u.kind = "param"
      <4>1. EdgesFor(new, u) = new.params /\ EdgesFor(nd, u) = nd.params
        BY <3>1 DEF EdgesFor
      <4> QED
        BY <1>2, <1>6, <2>2, <3>1, <4>1
    <3>2. CASE u.kind = "catchAll"
      <4>1. EdgesFor(new, u) = new.catchAlls /\ EdgesFor(nd, u) = nd.catchAlls
        BY <3>2 DEF EdgesFor
      <4> QED
        BY <1>2, <1>6, <2>2, <3>2, <4>1
    <3> QED
      BY <1>4, <3>1, <3>2
  <2>4. Known(EdgesFor(nd, s), s) => new = nd
    BY <1>2, <1>6, <2>2 DEF EdgesFor
  <2> QED
    BY <1>6, <2>2, <2>3, <2>4 DEF new
<1>7. CASE s.kind = "catchAll"
  <2>1. new = [nd EXCEPT !.catchAlls = cs]
    BY <1>7 DEF LinkedNode
  <2> HIDE DEF cs, new
  <2>2. /\ new \in Node /\ new.values = nd.values
        /\ new.catchAlls = cs /\ new.params = nd.params
        /\ cs = nd.catchAlls => new = nd
    BY <1>3, <1>7, <2>1 DEF Node
  <2>3. \A u \in Seg : u.kind # "static" =>
          (Known(EdgesFor(new, u), u) <=>
             Known(EdgesFor(nd, u), u) \/ (u.kind = s.kind /\ u.type = s.type))
    <3> SUFFICES ASSUME NEW u \in Seg, u.kind # "static"
                 PROVE  Known(EdgesFor(new, u), u) <=>
                          Known(EdgesFor(nd, u), u) \/ (u.kind = s.kind /\ u.type = s.type)
      OBVIOUS
    <3>1. CASE u.kind = "param"
      <4>1. EdgesFor(new, u) = new.params /\ EdgesFor(nd, u) = nd.params
        BY <3>1 DEF EdgesFor
      <4> QED
        BY <1>3, <1>7, <2>2, <3>1, <4>1
    <3>2. CASE u.kind = "catchAll"
      <4>1. EdgesFor(new, u) = new.catchAlls /\ EdgesFor(nd, u) = nd.catchAlls
        BY <3>2 DEF EdgesFor
      <4> QED
        BY <1>3, <1>7, <2>2, <3>2, <4>1
    <3> QED
      BY <1>4, <3>1, <3>2
  <2>4. Known(EdgesFor(nd, s), s) => new = nd
    BY <1>3, <1>7, <2>2 DEF EdgesFor
  <2> QED
    BY <1>7, <2>2, <2>3, <2>4 DEF new
<1> QED
  BY <1>4, <1>5, <1>6, <1>7

(* Every node but the root hangs on a node of the tree, by an edge if it   *)
(* is behind a wildcard, and every edge leads to a node.                   *)
TreeInv(t) ==
    /\ DOMAIN t \subseteq Seq(Labels) /\ t \in [DOMAIN t -> Node]
    /\ << >> \in DOMAIN t
    /\ \A n \in Seq(Labels), s \in Seg :
         Append(n, Label(s)) \in DOMAIN t => n \in DOMAIN t
    /\ \A n \in DOMAIN t, s \in Seg :
         s.kind # "static" => (Append(n, Label(s)) \in DOMAIN t <=> Known(EdgesFor(t[n], s), s))

(* The tree of a new table.                                                *)
LEMMA EmptyTreeInv == TreeInv(EmptyTree)
<1>1. DOMAIN EmptyTree = {<< >>} /\ EmptyTree[<< >>] = EmptyNode
  BY DEF EmptyTree
<1>2. EmptyNode \in Node
  BY DEF EmptyNode, Node
<1>3. \A n \in Seq(Labels), s \in Seg : Append(n, Label(s)) # << >>
  <2> SUFFICES ASSUME NEW n \in Seq(Labels), NEW s \in Seg
               PROVE  Append(n, Label(s)) # << >>
    OBVIOUS
  <2>1. Label(s) \in Labels
    BY SegKind
  <2>2. Len(Append(n, Label(s))) # 0 /\ Len(<< >>) = 0
    BY <2>1
  <2> QED
    BY <2>2
<1>4. \A s \in Seg : ~Known(EdgesFor(EmptyNode, s), s)
  BY DEF EmptyNode, EdgesFor, Known
<1>5. << >> \in Seq(Labels)
  OBVIOUS
<1>6. EmptyTree \in [DOMAIN EmptyTree -> Node]
  BY <1>1, <1>2 DEF EmptyTree
<1> QED
  BY <1>1, <1>3, <1>4, <1>5, <1>6 DEF TreeInv

(* The tree with a segment linked to a node, and the node behind it.       *)
Linked(t, at, s) == [t EXCEPT ![at] = LinkedNode(t[at], s)]
Grown(t, at, s) == WithNode(Linked(t, at, s), Append(at, Label(s)))

(* A segment that leads to a node of the tree adds nothing ...             *)
LEMMA NothingGrown ==
  ASSUME NEW t, TreeInv(t), NEW at \in DOMAIN t, NEW s \in Seg,
         Append(at, Label(s)) \in DOMAIN t
  PROVE  Grown(t, at, s) = t
<1>1. t[at] \in Node /\ t = [n \in DOMAIN t |-> t[n]]
  BY DEF TreeInv
<1>2. s.kind = "static" \/ Known(EdgesFor(t[at], s), s)
  BY DEF TreeInv
<1>3. LinkedNode(t[at], s) = t[at]
  BY <1>1, <1>2, NodeLinked
<1>4. Linked(t, at, s) = t
  BY <1>1, <1>3 DEF Linked
<1> QED
  BY <1>4 DEF Grown, WithNode

(* A node from which nothing has grown yet.                                *)
Fresh(t, n) ==
    /\ n \in DOMAIN t /\ t[n] = EmptyNode
    /\ \A u \in Seg : Append(n, Label(u)) \notin DOMAIN t

(* ... and one that does not leads to a fresh one.                         *)
LEMMA NodeGrown ==
  ASSUME NEW t, TreeInv(t), NEW at \in DOMAIN t, NEW s \in Seg,
         NEW n, n = Append(at, Label(s)), n \notin DOMAIN t
  PROVE  /\ TreeInv(Grown(t, at, s))
         /\ DOMAIN Grown(t, at, s) = DOMAIN t \cup {n}
         /\ Fresh(Grown(t, at, s), n)
         /\ \A m \in DOMAIN t : Grown(t, at, s)[m].values = t[m].values
<1> DEFINE g == Grown(t, at, s)
           nd == LinkedNode(t[at], s)
<1>1. /\ DOMAIN t \subseteq Seq(Labels) /\ t \in [DOMAIN t -> Node] /\ << >> \in DOMAIN t
      /\ \A m \in Seq(Labels), u \in Seg :
           Append(m, Label(u)) \in DOMAIN t => m \in DOMAIN t
      /\ \A m \in DOMAIN t, u \in Seg :
           u.kind # "static" => (Append(m, Label(u)) \in DOMAIN t <=> Known(EdgesFor(t[m], u), u))
  BY DEF TreeInv
<1>2. /\ nd \in Node /\ nd.values = t[at].values
      /\ \A u \in Seg : u.kind # "static" =>
           (Known(EdgesFor(nd, u), u) <=>
              Known(EdgesFor(t[at], u), u) \/ (u.kind = s.kind /\ u.type = s.type))
  BY <1>1, NodeLinked
<1> HIDE DEF nd
<1>3. EmptyNode \in Node /\ \A u \in Seg : ~Known(EdgesFor(EmptyNode, u), u)
  <2>1. EmptyNode \in Node
    BY DEF EmptyNode, Node
  <2>2. \A u \in Seg : ~Known(EdgesFor(EmptyNode, u), u)
    BY DEF EmptyNode, EdgesFor, Known
  <2> QED
    BY <2>1, <2>2
<1>4. /\ DOMAIN g = DOMAIN t \cup {n}
      /\ g[n] = EmptyNode /\ g[at] = nd
      /\ \A m \in DOMAIN t : m # at => g[m] = t[m]
      /\ g \in [DOMAIN t \cup {n} -> Node]
  <2>1. Linked(t, at, s) = [t EXCEPT ![at] = nd]
    BY DEF Linked, nd
  <2>2. DOMAIN Linked(t, at, s) = DOMAIN t
    BY <2>1
  <2>3. g = With(Linked(t, at, s), n, EmptyNode)
    BY <2>2 DEF Grown, WithNode
  <2>4. g = [m \in DOMAIN t \cup {n} |->
               IF m = n THEN EmptyNode ELSE IF m = at THEN nd ELSE t[m]]
    BY <2>1, <2>2, <2>3 DEF With
  <2> HIDE DEF g
  <2> QED
    BY <1>1, <1>2, <1>3, <2>4
<1> HIDE DEF g
<1>5. at \in Seq(Labels) /\ n \in Seq(Labels)
  <2>1. Label(s) \in Labels
    BY SegKind
  <2> QED
    BY <1>1, <2>1
<1>6. \A m \in Seq(Labels), u \in Seg :
        Append(m, Label(u)) = n => m = at /\ Label(u) = Label(s)
  <2> SUFFICES ASSUME NEW m \in Seq(Labels), NEW u \in Seg, Append(m, Label(u)) = n
               PROVE  m = at /\ Label(u) = Label(s)
    OBVIOUS
  <2>1. Label(u) \in Labels /\ Label(s) \in Labels
    BY SegKind
  <2> QED
    BY <1>5, <2>1, AppendInjective
<1>7. \A u \in Seg : Append(n, Label(u)) \notin DOMAIN g
  <2> SUFFICES ASSUME NEW u \in Seg
               PROVE  Append(n, Label(u)) \notin DOMAIN t /\ Append(n, Label(u)) # n
    BY <1>4
  <2>1. Label(u) \in Labels
    BY SegKind
  <2>2. Len(Append(n, Label(u))) # Len(n)
    BY <1>5, <2>1
  <2> QED
    BY <1>1, <1>5, <2>2
<1>8. \A m \in Seq(Labels), u \in Seg :
        Append(m, Label(u)) \in DOMAIN g => m \in DOMAIN g
  BY <1>1, <1>4, <1>6
<1>9. ASSUME NEW m \in DOMAIN g, NEW u \in Seg, u.kind # "static"
      PROVE  Append(m, Label(u)) \in DOMAIN g <=> Known(EdgesFor(g[m], u), u)
  <2>1. CASE m = n
    BY <1>3, <1>4, <1>7, <2>1
  <2>2. CASE m = at
    <3>1. Append(at, Label(u)) = n <=> u.kind = s.kind /\ u.type = s.type
      <4>1. Append(at, Label(u)) = n <=> Label(u) = Label(s)
        BY <1>5, <1>6
      <4>2. Label(s) = Label(u) <=> s.kind = u.kind /\ s.type = u.type
        BY <1>9, SameLabel
      <4> QED
        BY <4>1, <4>2
    <3> QED
      BY <1>1, <1>2, <1>4, <1>9, <2>2, <3>1
  <2>3. CASE m # n /\ m # at
    <3>1. m \in DOMAIN t /\ g[m] = t[m] /\ m \in Seq(Labels)
      BY <1>1, <1>4, <1>9, <2>3
    <3>2. Append(m, Label(u)) # n
      BY <1>6, <2>3, <3>1
    <3> QED
      BY <1>1, <1>4, <1>9, <3>1, <3>2
  <2> QED
    BY <2>1, <2>2, <2>3
<1>10. TreeInv(g)
  BY <1>1, <1>4, <1>5, <1>8, <1>9 DEF TreeInv
<1>11. Fresh(g, n)
  BY <1>4, <1>7 DEF Fresh
<1>12. \A m \in DOMAIN t : g[m].values = t[m].values
  BY <1>2, <1>4
<1> QED
  BY <1>4, <1>10, <1>11, <1>12 DEF g

(* The walk that Insert makes into t: a refusal leaves no trace, because   *)
(* names clash only where the tree has been before.  Values stay where     *)
(* they are.                                                               *)
Trees == UNION {[D -> Node] : D \in SUBSET Seq(Labels)}
Walks == [tree : Trees, at : Seq(Labels), ok : BOOLEAN]

KeepsValues(t, u) ==
    /\ DOMAIN t \subseteq DOMAIN u
    /\ \A n \in DOMAIN t : u[n].values = t[n].values
    /\ \A n \in DOMAIN u \ DOMAIN t : u[n].values = << >>

WalkInv(t, w) ==
    /\ w \in Walks
    /\ TreeInv(w.tree) /\ w.at \in DOMAIN w.tree
    /\ w.tree = t \/ (w.ok /\ Fresh(w.tree, w.at))
    /\ KeepsValues(t, w.tree)

LEMMA TreeIsTyped == \A t : TreeInv(t) => t \in Trees
BY DEF TreeInv, Trees

(* What a walk is when its verdict changes.                                *)
LEMMA OtherVerdict ==
  ASSUME NEW A, NEW B, NEW C, NEW w \in [tree : A, at : B, ok : C], NEW x
  PROVE  [w EXCEPT !.ok = x] = [tree |-> w.tree, at |-> w.at, ok |-> x]
OBVIOUS

(* One step of Insert's walk: it has stopped before, it stops, or it goes  *)
(* down.                                                                   *)
LEMMA DescendCases ==
  ASSUME NEW w \in Walks, NEW s \in Seg, w.at \in DOMAIN w.tree
  PROVE  \/ ~w.ok /\ Descend(w, s) = w
         \/ /\ w.ok /\ \E edges : edges \in {w.tree[w.at].params, w.tree[w.at].catchAlls}
                                  /\ Clashes(edges, s)
            /\ Descend(w, s) = [tree |-> w.tree, at |-> w.at, ok |-> FALSE]
         \/ /\ w.ok
            /\ Descend(w, s) = [tree |-> Grown(w.tree, w.at, s),
                               at |-> Append(w.at, Label(s)), ok |-> TRUE]
<1> DEFINE edges == IF s.kind = "param" THEN w.tree[w.at].params ELSE w.tree[w.at].catchAlls
           linked == CASE s.kind = "static"   -> w.tree
                       [] s.kind = "param"    ->
                            [w.tree EXCEPT ![w.at].params = WithEdge(edges, s)]
                       [] s.kind = "catchAll" ->
                            [w.tree EXCEPT ![w.at].catchAlls = WithEdge(edges, s)]
<1>1. Descend(w, s) =
        CASE ~w.ok -> w
          [] w.ok /\ s.kind # "static" /\ Clashes(edges, s) -> [w EXCEPT !.ok = FALSE]
          [] OTHER -> [tree |-> WithNode(linked, Append(w.at, Label(s))),
                       at |-> Append(w.at, Label(s)), ok |-> TRUE]
  BY DEF Descend
<1>2. /\ w.tree = [n \in DOMAIN w.tree |-> w.tree[n]]
      /\ w.ok \in BOOLEAN
      /\ [w EXCEPT !.ok = FALSE] = [tree |-> w.tree, at |-> w.at, ok |-> FALSE]
  <2>1. w.tree \in Trees /\ w.ok \in BOOLEAN
    BY DEF Walks
  <2>2. PICK D \in SUBSET Seq(Labels) : w.tree \in [D -> Node]
    BY <2>1 DEF Trees
  <2>3. w.tree = [n \in DOMAIN w.tree |-> w.tree[n]]
    BY <2>2
  <2>4. [w EXCEPT !.ok = FALSE] = [tree |-> w.tree, at |-> w.at, ok |-> FALSE]
    <3>1. ASSUME NEW x
          PROVE  [w EXCEPT !.ok = x] = [tree |-> w.tree, at |-> w.at, ok |-> x]
      <4>1. w \in [tree : Trees, at : Seq(Labels), ok : BOOLEAN]
        BY DEF Walks
      <4> QED
        BY <4>1, OtherVerdict
    <3> QED
      BY <3>1, Zenon
  <2> QED
    BY <2>1, <2>3, <2>4
<1>3. linked = Linked(w.tree, w.at, s)
  <2>1. s.kind \in {"static", "param", "catchAll"}
    BY SegKind
  <2>2. CASE s.kind = "static"
    BY <1>2, <2>2 DEF Linked, LinkedNode
  <2>3. CASE s.kind = "param"
    BY <2>3 DEF Linked, LinkedNode
  <2>4. CASE s.kind = "catchAll"
    BY <2>4 DEF Linked, LinkedNode
  <2> QED
    BY <2>1, <2>2, <2>3, <2>4
<1>4. edges \in {w.tree[w.at].params, w.tree[w.at].catchAlls}
  OBVIOUS
<1> HIDE DEF edges, linked
<1>5. CASE ~w.ok
  BY <1>1, <1>5
<1>6. CASE w.ok /\ s.kind # "static" /\ Clashes(edges, s)
  BY <1>1, <1>2, <1>4, <1>6
<1>7. CASE w.ok /\ ~(s.kind # "static" /\ Clashes(edges, s))
  <2>1. Descend(w, s) = [tree |-> WithNode(linked, Append(w.at, Label(s))),
                         at |-> Append(w.at, Label(s)), ok |-> TRUE]
    BY <1>1, <1>7
  <2> QED
    BY <1>3, <1>7, <2>1 DEF Grown
<1> QED
  BY <1>2, <1>5, <1>6, <1>7

(* Each step keeps what is known of the walk.                              *)
LEMMA DescendKeepsWalkInv ==
  ASSUME NEW t, NEW w, WalkInv(t, w), NEW s \in Seg
  PROVE  WalkInv(t, Descend(w, s))
<1>1. /\ w \in Walks /\ TreeInv(w.tree) /\ w.at \in DOMAIN w.tree
      /\ w.tree = t \/ (w.ok /\ Fresh(w.tree, w.at))
      /\ KeepsValues(t, w.tree)
  BY DEF WalkInv
<1>2. w.tree \in Trees /\ w.at \in Seq(Labels)
  BY <1>1 DEF Walks
<1>3. CASE Descend(w, s) = w
  BY <1>3
<1>4. ASSUME NEW edges, edges \in {w.tree[w.at].params, w.tree[w.at].catchAlls},
             Clashes(edges, s),
             Descend(w, s) = [tree |-> w.tree, at |-> w.at, ok |-> FALSE]
      PROVE  WalkInv(t, Descend(w, s))
  <2>1. ~Fresh(w.tree, w.at)
    BY <1>4 DEF Fresh, EmptyNode, Clashes
  <2>2. w.tree = t
    BY <1>1, <2>1
  <2> QED
    BY <1>1, <1>2, <1>4, <2>2 DEF WalkInv, Walks
<1>5. ASSUME w.ok, Descend(w, s) = [tree |-> Grown(w.tree, w.at, s),
                                    at |-> Append(w.at, Label(s)), ok |-> TRUE]
      PROVE  WalkInv(t, Descend(w, s))
  <2> DEFINE n == Append(w.at, Label(s))
             g == Grown(w.tree, w.at, s)
  <2>0. n \in Seq(Labels)
    <3>1. Label(s) \in Labels
      BY SegKind
    <3> QED
      BY <1>2, <3>1
  <2>1. CASE n \in DOMAIN w.tree
    <3>1. g = w.tree
      BY <1>1, <2>1, NothingGrown
    <3>2. ~Fresh(w.tree, w.at)
      BY <2>1 DEF Fresh
    <3>3. w.tree = t
      BY <1>1, <3>2
    <3> QED
      BY <1>1, <1>2, <1>5, <2>0, <2>1, <3>1, <3>3 DEF WalkInv, Walks
  <2>2. CASE n \notin DOMAIN w.tree
    <3>1. /\ TreeInv(g)
          /\ DOMAIN g = DOMAIN w.tree \cup {n}
          /\ Fresh(g, n)
          /\ \A m \in DOMAIN w.tree : g[m].values = w.tree[m].values
      <4>1. TreeInv(w.tree) /\ w.at \in DOMAIN w.tree
        BY <1>1
      <4> QED
        BY <2>2, <4>1, NodeGrown, Zenon
    <3> HIDE DEF g, n
    <3>2. g \in Trees
      BY <3>1, TreeIsTyped, Zenon
    <3>3. g[n].values = << >>
      BY <3>1 DEF Fresh, EmptyNode
    <3>4. KeepsValues(t, g)
      BY <1>1, <2>2, <3>1, <3>3 DEF KeepsValues
    <3>5. Descend(w, s) = [tree |-> g, at |-> n, ok |-> TRUE]
      BY <1>5 DEF g, n
    <3>6. n \in DOMAIN g
      BY <3>1
    <3> QED
      BY <2>0, <3>1, <3>2, <3>4, <3>5, <3>6 DEF WalkInv, Walks
  <2> QED
    BY <2>1, <2>2
<1> QED
  BY <1>1, <1>3, <1>4, <1>5, DescendCases

(* The tree before a walk, and the walks along its way: from the root, one *)
(* step per segment.                                                       *)
Before(t) == [tree |-> t, at |-> << >>, ok |-> TRUE]

(* The walk, step by step, and its end: at the node its segments name,     *)
(* unless a name clashed.                                                  *)
LEMMA DescendRuns ==
  ASSUME NEW t, TreeInv(t), NEW segs \in Seq(Seg)
  PROVE  \E f : /\ f[0] = Before(t)
                /\ \A i \in 1 .. Len(segs) : f[i] = Descend(f[i - 1], segs[i])
                /\ \A i \in 0 .. Len(segs) : WalkInv(t, f[i])
                /\ FoldLeft(Descend, Before(t), segs) = f[Len(segs)]
<1> DEFINE n == Len(segs)
           A == {w \in Walks : WalkInv(t, w)}
           F == [i \in 1 .. n |-> [w \in A |-> Descend(w, segs[i])]]
           Step(g, s) == IF s = {} THEN Before(t)
                         ELSE Descend(g[s \ {Max(s)}], segs[Max(s)])
           Def(g) == g = [s \in SUBSET DOMAIN segs |-> Step(g, s)]
           iter == CHOOSE g : Def(g)
<1>0. n \in Nat /\ DOMAIN segs = 1 .. n
  OBVIOUS
<1>1. Before(t) \in A
  <2>1. t \in Trees /\ << >> \in DOMAIN t
    BY TreeIsTyped DEF TreeInv
  <2>2. << >> \in Seq(Labels)
    OBVIOUS
  <2>3. Before(t) \in Walks
    BY <2>1, <2>2 DEF Before, Walks
  <2>4. Before(t).tree = t /\ Before(t).at = << >>
    BY DEF Before
  <2>5. KeepsValues(t, t)
    BY DEF KeepsValues
  <2> QED
    BY <2>1, <2>3, <2>4, <2>5 DEF WalkInv
<1>2. ASSUME NEW w \in A, NEW i \in 1 .. n
      PROVE  Descend(w, segs[i]) \in A
  <2>1. segs[i] \in Seg
    BY <1>0
  <2>2. WalkInv(t, w)
    OBVIOUS
  <2>3. WalkInv(t, Descend(w, segs[i]))
    BY <2>1, <2>2, DescendKeepsWalkInv
  <2> QED
    BY <2>3 DEF WalkInv
<1>3. F \in [1 .. n -> [A -> A]]
  BY <1>2
<1>4. PICK g : IsFold(g, n, A, Before(t), F)
  <2> HIDE DEF n, F, A
  <2> QED
    BY <1>0, <1>1, <1>3, FoldExists
<1> HIDE DEF A
<1>5. ASSUME NEW s \in SUBSET (1 .. n)
      PROVE  g[s] = Step(g, s) /\ g[s] \in A
  <2>1. CASE s # {}
    <3>1. Max(s) \in 1 .. n /\ s \ {Max(s)} \in SUBSET (1 .. n)
      BY <1>0, <2>1, MaxIsMember
    <3> QED
      BY <1>4, <2>1, <3>1 DEF IsFold
  <2>2. CASE s = {}
    BY <1>4, <2>2 DEF IsFold
  <2> QED
    BY <2>1, <2>2
<1>6. Def(g)
  BY <1>0, <1>4, <1>5 DEF IsFold
<1>7. Def(iter)
  <2> HIDE DEF Def
  <2> QED
    BY <1>6
<1>8. FoldLeft(Descend, Before(t), segs) = iter[DOMAIN segs]
  BY DEF FoldLeft, MapThenFoldSet
<1>9. \A s \in SUBSET (1 .. n) : iter[s] = Step(iter, s)
  BY <1>0, <1>7
<1> HIDE DEF iter
<1>10. iter[1 .. 0] = Before(t)
  <2>1. 1 .. 0 = {} /\ 1 .. 0 \in SUBSET (1 .. n)
    OBVIOUS
  <2> QED
    BY <1>9, <2>1
<1>11. ASSUME NEW i \in 1 .. n
       PROVE  iter[1 .. i] = Descend(iter[1 .. i - 1], segs[i])
  <2>1. /\ 1 .. i \in SUBSET (1 .. n) /\ 1 .. i # {}
        /\ Max(1 .. i) = i
        /\ (1 .. i) \ {Max(1 .. i)} = 1 .. i - 1
    BY <1>0, FoldPath
  <2> QED
    BY <1>9, <2>1
<1>12. \A i \in 0 .. n : iter[1 .. i] \in A
  <2> DEFINE T == {i \in Nat : iter[1 .. i] \in A}
  <2>1. 0 \in T
    BY <1>1, <1>10
  <2>2. ASSUME NEW k \in Nat, k < n, k \in T
        PROVE  k + 1 \in T
    <3>1. k + 1 \in 1 .. n /\ k + 1 - 1 = k
      BY <1>0, <2>2
    <3>2. iter[1 .. k + 1] = Descend(iter[1 .. k], segs[k + 1])
      BY <1>11, <3>1
    <3> QED
      BY <1>2, <2>2, <3>1, <3>2
  <2> HIDE DEF T, n
  <2>3. \A k \in 0 .. n : k \in T
    BY <1>0, <2>1, <2>2, UpTo
  <2> QED
    BY <2>3 DEF T
<1> DEFINE f == [i \in 0 .. n |-> iter[1 .. i]]
<1>13. /\ f[0] = Before(t)
       /\ \A i \in 1 .. n : f[i] = Descend(f[i - 1], segs[i])
       /\ \A i \in 0 .. n : WalkInv(t, f[i])
       /\ f[n] = iter[DOMAIN segs]
  <2>1. \A i \in 1 .. n : i - 1 \in 0 .. n /\ i \in 0 .. n
    BY <1>0
  <2>2. 0 \in 0 .. n /\ n \in 0 .. n
    BY <1>0
  <2>3. \A i \in 0 .. n : WalkInv(t, iter[1 .. i])
    BY <1>12 DEF A
  <2> QED
    BY <1>0, <1>10, <1>11, <2>1, <2>2, <2>3
<1> QED
  <2> HIDE DEF f
  <2> QED
    BY <1>8, <1>13

(* The walk ends at the node that the key of its template names.           *)
LEMMA KeyGrows ==
  ASSUME NEW segs \in Seq(Seg), NEW k \in Nat, k < Len(segs)
  PROVE  Append([i \in 1 .. k |-> Label(segs[i])], Label(segs[k + 1]))
           = [i \in 1 .. k + 1 |-> Label(segs[i])]
<1> DEFINE f == [i \in 1 .. k |-> Label(segs[i])]
           x == Label(segs[k + 1])
           g == [i \in 1 .. k + 1 |-> Label(segs[i])]
<1>1. \A i \in 1 .. k + 1 : segs[i] \in Seg
  OBVIOUS
<1>2. \A i \in 1 .. k + 1 : Label(segs[i]) \in Labels
  BY <1>1, SegKind
<1>3. f \in Seq(Labels) /\ Len(f) = k /\ g \in Seq(Labels) /\ Len(g) = k + 1 /\ x \in Labels
  BY <1>2
<1>4. Append(f, x) \in Seq(Labels) /\ Len(Append(f, x)) = k + 1
  BY <1>3
<1>5. \A i \in 1 .. k + 1 : Append(f, x)[i] = IF i = k + 1 THEN x ELSE f[i]
  BY <1>3
<1>6. \A i \in 1 .. k + 1 : Append(f, x)[i] = g[i]
  BY <1>5
<1> HIDE DEF f, g, x
<1>7. Append(f, x) = g
  BY <1>3, <1>4, <1>6, SeqEqual
<1> QED
  BY <1>7 DEF f, g, x

LEMMA DescendFold ==
  ASSUME NEW t, TreeInv(t), NEW segs \in Seq(Seg)
  PROVE  LET w == FoldLeft(Descend, Before(t), segs)
         IN WalkInv(t, w) /\ (w.ok => w.at = Key(segs))
<1> DEFINE n == Len(segs)
           key(k) == [i \in 1 .. k |-> Label(segs[i])]
<1>1. PICK f : /\ f[0] = Before(t)
               /\ \A i \in 1 .. n : f[i] = Descend(f[i - 1], segs[i])
               /\ \A i \in 0 .. n : WalkInv(t, f[i])
               /\ FoldLeft(Descend, Before(t), segs) = f[n]
  BY DescendRuns
<1>2. n \in Nat /\ DOMAIN segs = 1 .. n
  OBVIOUS
<1> DEFINE T == {k \in Nat : f[k].ok => f[k].at = key(k)}
<1>3. 0 \in T
  <2>1. f[0].at = << >>
    BY <1>1 DEF Before
  <2>2. key(0) = << >>
    OBVIOUS
  <2> QED
    BY <2>1, <2>2
<1>4. ASSUME NEW k \in Nat, k < n, k \in T
      PROVE  k + 1 \in T
  <2>1. k + 1 \in 1 .. n /\ k + 1 - 1 = k /\ k \in 0 .. n
    BY <1>2, <1>4
  <2>2. /\ f[k + 1] = Descend(f[k], segs[k + 1])
        /\ f[k] \in Walks /\ f[k].at \in DOMAIN f[k].tree /\ segs[k + 1] \in Seg
    BY <1>1, <1>2, <2>1 DEF WalkInv
  <2>3. f[k + 1].ok => f[k].ok /\ f[k + 1].at = Append(f[k].at, Label(segs[k + 1]))
    BY <2>2, DescendCases
  <2>4. f[k + 1].ok => f[k + 1].at = Append(key(k), Label(segs[k + 1]))
    BY <1>4, <2>3
  <2>5. Append(key(k), Label(segs[k + 1])) = key(k + 1)
    BY <1>4, KeyGrows
  <2> HIDE DEF key
  <2>6. f[k + 1].ok => f[k + 1].at = key(k + 1)
    BY <2>4, <2>5
  <2> QED
    BY <2>6
<1>5. \A k \in 0 .. n : k \in T
  <2> HIDE DEF T, n
  <2> QED
    BY <1>2, <1>3, <1>4, UpTo
<1>6. f[n].ok => f[n].at = Key(segs)
  <2>1. n \in 0 .. n
    BY <1>2
  <2>2. key(n) = Key(segs)
    BY <1>2 DEF Key
  <2>3. f[n].ok => f[n].at = key(n)
    BY <1>5, <2>1
  <2> QED
    BY <2>2, <2>3
<1>7. WalkInv(t, f[n])
  BY <1>1, <1>2
<1> QED
  BY <1>1, <1>6, <1>7

(* What the tree holds, by node and place.  A walk stores nothing.         *)
Stored(t) == UNION {{n} \X DOMAIN t[n].values : n \in DOMAIN t}

(* The values a tree holds, one by one; a walk adds none.                  *)
LEMMA StoredIn ==
  \A t, x : x \in Stored(t) <=>
              \E n \in DOMAIN t : \E i \in DOMAIN t[n].values : x = <<n, i>>
BY DEF Stored

LEMMA WalkStoresNothing ==
  ASSUME NEW t, NEW u, KeepsValues(t, u)
  PROVE  Stored(u) = Stored(t)
<1>1. \A x : x \in Stored(t) => x \in Stored(u)
  BY StoredIn DEF KeepsValues
<1>2. ASSUME NEW x \in Stored(u)
      PROVE  x \in Stored(t)
  <2>1. PICK n \in DOMAIN u : \E i \in DOMAIN u[n].values : x = <<n, i>>
    BY <1>2, StoredIn
  <2>2. n \in DOMAIN t
    <3>1. SUFFICES ASSUME n \notin DOMAIN t PROVE FALSE
      OBVIOUS
    <3>2. u[n].values = << >>
      BY <2>1, <3>1 DEF KeepsValues
    <3>3. DOMAIN u[n].values = {}
      BY <3>2
    <3> QED
      BY <2>1, <3>3
  <2>3. u[n].values = t[n].values
    BY <2>2 DEF KeepsValues
  <2> QED
    BY <2>1, <2>2, <2>3, StoredIn
<1> QED
  BY <1>1, <1>2

(* The value that Insert leaves at the end of its walk.                    *)
Valued(t, n, v) == [t EXCEPT ![n].values = Append(@, v)]

LEMMA NodeValued ==
  ASSUME NEW nd \in Node, NEW v \in Nat
  PROVE  LET new == [nd EXCEPT !.values = Append(@, v)]
         IN /\ new \in Node /\ new.values = Append(nd.values, v)
            /\ new.params = nd.params /\ new.catchAlls = nd.catchAlls
<1> DEFINE vs == Append(nd.values, v)
           new == [nd EXCEPT !.values = vs]
<1>1. nd.params \in Seq(Params) /\ nd.catchAlls \in Seq(CatchAlls) /\ nd.values \in Seq(Nat)
  BY DEF Node
<1>2. vs \in Seq(Nat)
  BY <1>1
<1> HIDE DEF vs
<1>3. new = [params |-> nd.params, catchAlls |-> nd.catchAlls, values |-> vs]
  BY DEF Node
<1>4. /\ new \in Node /\ new.values = vs
      /\ new.params = nd.params /\ new.catchAlls = nd.catchAlls
  BY <1>1, <1>2, <1>3 DEF Node
<1> QED
  BY <1>4 DEF vs

(* The node n of t holds v.                                                *)
Holds(t, n, v) == n \in DOMAIN t /\ v \in ToSet(t[n].values)

(* Storing a value adds one and keeps the others.                          *)
LEMMA ValueAdded ==
  ASSUME NEW t, TreeInv(t), NEW n \in DOMAIN t, NEW v \in Nat, IsFiniteSet(Stored(t))
  PROVE  /\ TreeInv(Valued(t, n, v))
         /\ IsFiniteSet(Stored(Valued(t, n, v)))
         /\ Cardinality(Stored(Valued(t, n, v))) = Cardinality(Stored(t)) + 1
         /\ \A m, x : Holds(Valued(t, n, v), m, x) <=> Holds(t, m, x) \/ (m = n /\ x = v)
<1> DEFINE u == Valued(t, n, v)
           nd == [t[n] EXCEPT !.values = Append(@, v)]
           k == Len(t[n].values) + 1
<1>1. /\ DOMAIN t \subseteq Seq(Labels)
      /\ t \in [DOMAIN t -> Node]
      /\ << >> \in DOMAIN t
      /\ \A m \in Seq(Labels), s \in Seg :
           Append(m, Label(s)) \in DOMAIN t => m \in DOMAIN t
      /\ \A m \in DOMAIN t, s \in Seg :
           s.kind # "static" => (Append(m, Label(s)) \in DOMAIN t <=> Known(EdgesFor(t[m], s), s))
  BY DEF TreeInv
<1>2. t[n] \in Node
  BY <1>1
<1>3. /\ nd \in Node /\ nd.values = Append(t[n].values, v)
      /\ nd.params = t[n].params /\ nd.catchAlls = t[n].catchAlls
  BY <1>2, NodeValued
<1>4. u = [t EXCEPT ![n] = nd]
  BY DEF Valued
<1> HIDE DEF nd, u
<1>5. /\ DOMAIN u = DOMAIN t /\ u[n] = nd
      /\ \A m \in DOMAIN t : m # n => u[m] = t[m]
      /\ u \in [DOMAIN u -> Node]
  BY <1>1, <1>3, <1>4
<1>6. \A m \in DOMAIN t, s \in Seg : EdgesFor(u[m], s) = EdgesFor(t[m], s)
  BY <1>3, <1>5 DEF EdgesFor
<1>7. TreeInv(u)
  BY <1>1, <1>5, <1>6 DEF TreeInv
<1>8. t[n].values \in Seq(Nat)
  BY <1>2 DEF Node
<1>9. DOMAIN nd.values = DOMAIN t[n].values \cup {k} /\ k \notin DOMAIN t[n].values
  BY <1>3, <1>8
<1> HIDE DEF k
<1>10. Stored(u) = Stored(t) \cup {<<n, k>>} /\ <<n, k>> \notin Stored(t)
  <2>1. ASSUME NEW x
        PROVE  x \in Stored(u) <=> x \in Stored(t) \/ x = <<n, k>>
    <3>1. x \in Stored(u) <=> \E m \in DOMAIN t : \E i \in DOMAIN u[m].values : x = <<m, i>>
      BY <1>5, StoredIn
    <3>2. \A m \in DOMAIN t : DOMAIN u[m].values
            = IF m = n THEN DOMAIN t[m].values \cup {k} ELSE DOMAIN t[m].values
      BY <1>5, <1>9
    <3>3. x \in Stored(t) <=> \E m \in DOMAIN t : \E i \in DOMAIN t[m].values : x = <<m, i>>
      BY StoredIn
    <3> QED
      BY <3>1, <3>2, <3>3
  <2>2. <<n, k>> \notin Stored(t)
    BY <1>9, StoredIn
  <2> QED
    BY <2>1, <2>2
<1>11. /\ IsFiniteSet(Stored(t) \cup {<<n, k>>})
       /\ Cardinality(Stored(t) \cup {<<n, k>>}) = Cardinality(Stored(t)) + 1
  BY <1>10, FS_AddElement
<1>12. /\ IsFiniteSet(Stored(u))
       /\ Cardinality(Stored(u)) = Cardinality(Stored(t)) + 1
  <2>1. Stored(u) = Stored(t) \cup {<<n, k>>}
    BY <1>10
  <2> QED
    BY <1>11, <2>1, Zenon
<1>13. ToSet(nd.values) = ToSet(t[n].values) \cup {v}
  <2> DEFINE vs == t[n].values
  <2> HIDE DEF vs
  <2>1. vs \in Seq(Nat) /\ nd.values = Append(vs, v)
    BY <1>3, <1>8 DEF vs
  <2>2. /\ DOMAIN Append(vs, v) = DOMAIN vs \cup {Len(vs) + 1}
        /\ Len(vs) + 1 \in Nat \ DOMAIN vs
        /\ Append(vs, v)[Len(vs) + 1] = v
        /\ \A i \in DOMAIN vs : Append(vs, v)[i] = vs[i]
    BY <2>1, OneMore
  <2>3. ToSet(Append(vs, v)) = ToSet(vs) \cup {v}
    BY <2>2 DEF ToSet
  <2> QED
    BY <2>1, <2>3 DEF vs
<1>14. \A m, x : Holds(u, m, x) <=> Holds(t, m, x) \/ (m = n /\ x = v)
  BY <1>5, <1>13 DEF Holds
<1> QED
  BY <1>7, <1>12, <1>14, Zenon DEF u

(* Insert, as the walk and what it leaves.                                 *)
LEMMA InsertIs ==
  \A t, segs, v :
     LET w == FoldLeft(Descend, Before(t), segs)
     IN Insert(t, segs, v) =
          IF w.ok THEN [ok |-> TRUE, tree |-> Valued(w.tree, w.at, v)]
                  ELSE [ok |-> FALSE, tree |-> w.tree]
BY DEF Insert, Before, Valued

(* Insert keeps the tree in order.  It stores one value more, or refuses   *)
(* and leaves no trace.                                                    *)
LEMMA InsertFacts ==
  ASSUME NEW t, TreeInv(t), IsFiniteSet(Stored(t)), NEW segs \in Seq(Seg), NEW v \in Nat
  PROVE  LET ins == Insert(t, segs, v)
         IN \/ ins = [ok |-> FALSE, tree |-> t]
            \/ /\ ins.ok /\ TreeInv(ins.tree)
               /\ IsFiniteSet(Stored(ins.tree))
               /\ Cardinality(Stored(ins.tree)) = Cardinality(Stored(t)) + 1
               /\ \A m, x : Holds(ins.tree, m, x) <=>
                              Holds(t, m, x) \/ (m = Key(segs) /\ x = v)
<1> DEFINE w == FoldLeft(Descend, Before(t), segs)
           ins == Insert(t, segs, v)
<1>1. WalkInv(t, w) /\ (w.ok => w.at = Key(segs))
  BY DescendFold
<1>2. ins = IF w.ok THEN [ok |-> TRUE, tree |-> Valued(w.tree, w.at, v)]
                    ELSE [ok |-> FALSE, tree |-> w.tree]
  BY InsertIs, Zenon
<1> HIDE DEF w, ins
<1>3. CASE ~w.ok
  <2>1. w.tree = t
    BY <1>1, <1>3 DEF WalkInv
  <2> QED
    BY <1>2, <1>3, <2>1 DEF ins
<1>4. CASE w.ok
  <2> DEFINE u == w.tree
             n == w.at
             new == Valued(u, n, v)
  <2>1. TreeInv(u) /\ n \in DOMAIN u /\ KeepsValues(t, u) /\ n = Key(segs)
    BY <1>1, <1>4 DEF WalkInv
  <2>2. Stored(u) = Stored(t)
    BY <2>1, WalkStoresNothing
  <2> HIDE DEF u, n
  <2>3. /\ TreeInv(new)
        /\ IsFiniteSet(Stored(new)) /\ Cardinality(Stored(new)) = Cardinality(Stored(t)) + 1
        /\ \A m, x : Holds(new, m, x) <=> Holds(u, m, x) \/ (m = n /\ x = v)
    <3>1. IsFiniteSet(Stored(u))
      BY <2>2
    <3> QED
      BY <2>1, <2>2, <3>1, ValueAdded
  <2>4. ins = [ok |-> TRUE, tree |-> new]
    BY <1>2, <1>4 DEF u, n
  <2> HIDE DEF new
  <2>5. ins.ok /\ ins.tree = new
    BY <2>4
  <2>6. \A m, x : Holds(u, m, x) <=> Holds(t, m, x)
    <3>1. \A m, x : Holds(u, m, x) => m \in DOMAIN t
      BY <2>1 DEF KeepsValues, Holds, ToSet
    <3> QED
      BY <2>1, <3>1 DEF KeepsValues, Holds
  <2> QED
    BY <2>1, <2>3, <2>5, <2>6 DEF ins
<1> QED
  BY <1>3, <1>4

-----------------------------------------------------------------------------
(* Filing a route *)

(* The hosts that calls list, and what an entry holds.                     *)
Listed == UNION {{HostsOf(c)[i] : i \in DOMAIN HostsOf(c)} : c \in Calls}
ByMethod == UNION {[D -> Nat] : D \in (SUBSET STRING) \ {{}}}
Variant == [host : Listed, byMethod : ByMethod]
Templates == {s \in Seq(Seg) : WellFormed(s)}
Entry == [segs : Templates, priority : Int, hosts : [Buckets -> Seq(Variant)]]

(* The entry has r for the host h and the method m.                        *)
Files(e, h, m, r) ==
    \E v \in ToSet(Variants(e)) :
      v.host = h /\ m \in DOMAIN v.byMethod /\ v.byMethod[m] = r

LEMMA InConcat ==
  ASSUME NEW S, NEW s \in Seq(S), NEW t \in Seq(S), NEW x
  PROVE  x \in ToSet(s \o t) <=> x \in ToSet(s) \/ x \in ToSet(t)
<1>1. /\ Len(s) \in Nat /\ Len(t) \in Nat
      /\ DOMAIN s = 1 .. Len(s) /\ DOMAIN t = 1 .. Len(t)
      /\ DOMAIN (s \o t) = 1 .. Len(s) + Len(t)
      /\ \A i \in 1 .. Len(s) : (s \o t)[i] = s[i]
      /\ \A i \in 1 .. Len(t) : (s \o t)[Len(s) + i] = t[i]
  OBVIOUS
<1>2. ASSUME x \in ToSet(s \o t)
      PROVE  x \in ToSet(s) \/ x \in ToSet(t)
  <2>1. PICK i \in 1 .. Len(s) + Len(t) : x = (s \o t)[i]
    BY <1>1, <1>2 DEF ToSet
  <2>2. CASE i <= Len(s)
    <3>1. i \in DOMAIN s /\ x = s[i]
      BY <1>1, <2>1, <2>2
    <3> QED
      BY <3>1 DEF ToSet
  <2>3. CASE ~(i <= Len(s))
    <3>1. i - Len(s) \in 1 .. Len(t) /\ Len(s) + (i - Len(s)) = i
      BY <1>1, <2>1, <2>3
    <3>2. x = t[i - Len(s)]
      BY <1>1, <2>1, <3>1
    <3> QED
      BY <1>1, <3>1, <3>2 DEF ToSet
  <2> QED
    BY <2>2, <2>3
<1>3. ASSUME x \in ToSet(s)
      PROVE  x \in ToSet(s \o t)
  <2>1. PICK i \in 1 .. Len(s) : x = s[i]
    BY <1>1, <1>3 DEF ToSet
  <2>2. i \in DOMAIN (s \o t) /\ x = (s \o t)[i]
    BY <1>1, <2>1
  <2> QED
    BY <2>2 DEF ToSet
<1>4. ASSUME x \in ToSet(t)
      PROVE  x \in ToSet(s \o t)
  <2>1. PICK i \in 1 .. Len(t) : x = t[i]
    BY <1>1, <1>4 DEF ToSet
  <2>2. Len(s) + i \in DOMAIN (s \o t) /\ x = (s \o t)[Len(s) + i]
    BY <1>1, <2>1
  <2> QED
    BY <2>2 DEF ToSet
<1> QED
  BY <1>2, <1>3, <1>4

(* The variants of an entry are those of its buckets.                      *)
LEMMA InVariants ==
  ASSUME NEW e \in Entry, NEW v
  PROVE  v \in ToSet(Variants(e)) <=> \E b \in Buckets : v \in ToSet(e.hosts[b])
<1> DEFINE p == e.hosts["ported"]
           x == e.hosts["exact"]
           w == e.hosts["wild"]
           y == e.hosts["plain"]
<1>1. e.hosts \in [Buckets -> Seq(Variant)]
  BY DEF Entry
<1>2. p \in Seq(Variant) /\ x \in Seq(Variant) /\ w \in Seq(Variant) /\ y \in Seq(Variant)
  BY <1>1 DEF Buckets
<1>3. Variants(e) = p \o x \o w \o y
  BY DEF Variants
<1>4. (\E b \in Buckets : v \in ToSet(e.hosts[b])) <=>
        v \in ToSet(p) \/ v \in ToSet(x) \/ v \in ToSet(w) \/ v \in ToSet(y)
  BY DEF Buckets
<1> HIDE DEF p, x, w, y
<1>5. p \o x \in Seq(Variant) /\ p \o x \o w \in Seq(Variant)
  <2>1. p \o x \in Seq(Variant)
    BY <1>2
  <2> QED
    BY <1>2, <2>1
<1>a. \A s, t \in Seq(Variant) : v \in ToSet(s \o t) <=> v \in ToSet(s) \/ v \in ToSet(t)
  BY InConcat, Zenon
<1>6. v \in ToSet(p \o x) <=> v \in ToSet(p) \/ v \in ToSet(x)
  BY <1>2, <1>a, Zenon
<1>7. v \in ToSet(p \o x \o w) <=> v \in ToSet(p \o x) \/ v \in ToSet(w)
  BY <1>2, <1>5, <1>a, Zenon
<1>8. v \in ToSet(p \o x \o w \o y) <=> v \in ToSet(p \o x \o w) \/ v \in ToSet(y)
  <2> DEFINE front == p \o x \o w
  <2>1. front \in Seq(Variant)
    BY <1>5
  <2> HIDE DEF front
  <2>2. v \in ToSet(front \o y) <=> v \in ToSet(front) \/ v \in ToSet(y)
    BY <1>2, <1>a, <2>1, Zenon
  <2> QED
    BY <2>2 DEF front
<1> QED
  BY <1>3, <1>4, <1>6, <1>7, <1>8

(* Filing a handler under a method keeps those of other methods.           *)
LEMMA WithTyped ==
  ASSUME NEW f \in ByMethod, NEW m \in STRING, NEW r \in Nat
  PROVE  /\ With(f, m, r) \in ByMethod
         /\ DOMAIN With(f, m, r) = DOMAIN f \cup {m}
         /\ With(f, m, r)[m] = r
         /\ \A x \in DOMAIN f : x # m => With(f, m, r)[x] = f[x]
<1>1. PICK D \in (SUBSET STRING) \ {{}} : f \in [D -> Nat]
  BY DEF ByMethod
<1>2. With(f, m, r) \in [D \cup {m} -> Nat]
  BY <1>1 DEF With
<1>3. D \cup {m} \in SUBSET STRING /\ D \cup {m} # {}
  BY <1>1
<1>4. With(f, m, r) \in ByMethod
  <2>1. D \cup {m} \in (SUBSET STRING) \ {{}}
    BY <1>3, Zenon
  <2> QED
    BY <1>2, <2>1, Zenon DEF ByMethod
<1> QED
  BY <1>1, <1>4 DEF With

(* What File does to a list of variants.                                   *)
FiledIn(vs, h, m, r) ==
    IF \E v \in ToSet(vs) : v.host = h
    THEN [i \in DOMAIN vs |-> IF vs[i].host = h
                              THEN [vs[i] EXCEPT !.byMethod = With(@, m, r)]
                              ELSE vs[i]]
    ELSE InsertVariant(vs, [host |-> h, byMethod |-> [x \in {m} |-> r]])

LEMMA FileIs ==
  ASSUME NEW e \in Entry, NEW h, NEW m, NEW r
  PROVE  File(e, h, m, r) =
           [segs |-> e.segs, priority |-> e.priority,
            hosts |-> [e.hosts EXCEPT ![Bucket(h)] = FiledIn(e.hosts[Bucket(h)], h, m, r)]]
<1>1. File(e, h, m, r) = [e EXCEPT !.hosts[Bucket(h)] = FiledIn(e.hosts[Bucket(h)], h, m, r)]
  BY DEF File, FiledIn
<1> QED
  BY <1>1 DEF Entry

LEMMA Refiled ==
  ASSUME NEW v \in Variant, NEW m \in STRING, NEW r \in Nat
  PROVE  LET new == [v EXCEPT !.byMethod = With(@, m, r)]
         IN /\ new \in Variant /\ new.host = v.host
            /\ new.byMethod = With(v.byMethod, m, r)
<1> DEFINE f == With(v.byMethod, m, r)
           new == [v EXCEPT !.byMethod = f]
<1>1. v.host \in Listed /\ v.byMethod \in ByMethod
  BY DEF Variant
<1>2. f \in ByMethod
  BY <1>1, WithTyped
<1> HIDE DEF f
<1>3. new = [host |-> v.host, byMethod |-> f]
  BY DEF Variant
<1>4. new \in Variant /\ new.host = v.host /\ new.byMethod = f
  BY <1>1, <1>2, <1>3 DEF Variant
<1> QED
  BY <1>4 DEF f

(* The same of a list.                                                     *)
Lists(vs, h, m, r) ==
    \E v \in ToSet(vs) : v.host = h /\ m \in DOMAIN v.byMethod /\ v.byMethod[m] = r

(* Filing a route in a bucket of hosts adds it and loses none but the one  *)
(* it replaces.                                                            *)
LEMMA FiledInFacts ==
  ASSUME NEW vs \in Seq(Variant), NEW h \in Listed, NEW m \in STRING, NEW r \in Nat
  PROVE  /\ FiledIn(vs, h, m, r) \in Seq(Variant)
         /\ Lists(FiledIn(vs, h, m, r), h, m, r)
         /\ \A g, x, q : Lists(FiledIn(vs, h, m, r), g, x, q) =>
                           Lists(vs, g, x, q) \/ (g = h /\ x = m /\ q = r)
         /\ \A g, x, q : Lists(vs, g, x, q) /\ ~(g = h /\ x = m) =>
                           Lists(FiledIn(vs, h, m, r), g, x, q)
<1> DEFINE new == FiledIn(vs, h, m, r)
<1>1. CASE \E v \in ToSet(vs) : v.host = h
  <2> DEFINE up(v) == [v EXCEPT !.byMethod = With(@, m, r)]
  <2>1. \A v \in Variant : /\ up(v) \in Variant /\ up(v).host = v.host
                           /\ up(v).byMethod = With(v.byMethod, m, r)
    BY Refiled
  <2>2. new = [i \in DOMAIN vs |-> IF vs[i].host = h THEN up(vs[i]) ELSE vs[i]]
    BY <1>1 DEF FiledIn
  <2> HIDE DEF up, new
  <2>3. \A i \in DOMAIN vs : vs[i] \in Variant
    OBVIOUS
  <2>4. \A i \in DOMAIN vs : new[i] = IF vs[i].host = h THEN up(vs[i]) ELSE vs[i]
    BY <2>2
  <2>5. DOMAIN new = DOMAIN vs /\ new \in Seq(Variant)
    <3>1. \A i \in DOMAIN vs : new[i] \in Variant
      BY <2>1, <2>3, <2>4
    <3>2. DOMAIN vs = 1 .. Len(vs) /\ Len(vs) \in Nat
      OBVIOUS
    <3>3. new \in [1 .. Len(vs) -> Variant]
      BY <2>2, <3>1, <3>2
    <3> QED
      BY <2>2, <3>2, <3>3
  <2>6. \A i \in DOMAIN vs : vs[i].byMethod \in ByMethod
    BY <2>3 DEF Variant
  <2>7. \A i \in DOMAIN vs :
          /\ new[i].host = vs[i].host
          /\ vs[i].host = h => new[i].byMethod = With(vs[i].byMethod, m, r)
          /\ vs[i].host # h => new[i].byMethod = vs[i].byMethod
    BY <2>1, <2>3, <2>4
  <2>8. \A f \in ByMethod : /\ DOMAIN With(f, m, r) = DOMAIN f \cup {m}
                            /\ With(f, m, r)[m] = r
                            /\ \A x \in DOMAIN f : x # m => With(f, m, r)[x] = f[x]
    BY WithTyped
  <2>9. Lists(new, h, m, r)
    <3>1. PICK i \in DOMAIN vs : vs[i].host = h
      BY <1>1, Zenon DEF ToSet
    <3>2. new[i].host = h /\ m \in DOMAIN new[i].byMethod /\ new[i].byMethod[m] = r
      <4>1. new[i].host = h /\ new[i].byMethod = With(vs[i].byMethod, m, r)
        BY <2>7, <3>1
      <4>2. vs[i].byMethod \in ByMethod
        BY <2>6
      <4>3. /\ DOMAIN With(vs[i].byMethod, m, r) = DOMAIN vs[i].byMethod \cup {m}
            /\ With(vs[i].byMethod, m, r)[m] = r
        BY <2>8, <4>2, Zenon
      <4>4. m \in DOMAIN With(vs[i].byMethod, m, r)
        BY <4>3, Zenon
      <4> QED
        BY <4>1, <4>3, <4>4, Zenon
    <3> QED
      BY <2>5, <3>2 DEF Lists, ToSet
  <2>10. ASSUME NEW g, NEW x, NEW q, Lists(new, g, x, q), ~(g = h /\ x = m /\ q = r)
         PROVE  Lists(vs, g, x, q)
    <3>1. PICK i \in DOMAIN vs : new[i].host = g /\ x \in DOMAIN new[i].byMethod
                                 /\ new[i].byMethod[x] = q
      BY <2>5, <2>10 DEF Lists, ToSet
    <3>2. vs[i].host = g
      BY <2>7, <3>1
    <3>3. x \in DOMAIN vs[i].byMethod /\ vs[i].byMethod[x] = q
      <4>1. CASE g = h
        <5>1. /\ vs[i].byMethod \in ByMethod
              /\ new[i].byMethod = With(vs[i].byMethod, m, r)
          BY <2>6, <2>7, <3>2, <4>1
        <5>2. x # m
          BY <2>8, <2>10, <3>1, <4>1, <5>1
        <5>3. x \in DOMAIN vs[i].byMethod
          BY <2>8, <3>1, <5>1, <5>2
        <5> QED
          BY <2>8, <3>1, <5>1, <5>2, <5>3
      <4>2. CASE g # h
        BY <2>7, <3>1, <3>2, <4>2
      <4> QED
        BY <4>1, <4>2
    <3> QED
      BY <3>2, <3>3 DEF Lists, ToSet
  <2>11. ASSUME NEW g, NEW x, NEW q, Lists(vs, g, x, q), ~(g = h /\ x = m)
         PROVE  Lists(new, g, x, q)
    <3>1. PICK i \in DOMAIN vs : vs[i].host = g /\ x \in DOMAIN vs[i].byMethod
                                 /\ vs[i].byMethod[x] = q
      BY <2>11 DEF Lists, ToSet
    <3>2. new[i].host = g /\ x \in DOMAIN new[i].byMethod /\ new[i].byMethod[x] = q
      BY <2>6, <2>7, <2>8, <2>11, <3>1
    <3> QED
      BY <2>5, <3>2 DEF Lists, ToSet
  <2> QED
    BY <2>5, <2>9, <2>10, <2>11 DEF new
<1>2. CASE ~ \E v \in ToSet(vs) : v.host = h
  <2> DEFINE f == [x \in {m} |-> r]
             v == [host |-> h, byMethod |-> f]
             at == {i \in DOMAIN vs : ~Outranks(Score(v.host), Score(vs[i].host))}
  <2>1. new = InsertBehind(vs, at, v)
    BY <1>2 DEF FiledIn, InsertVariant
  <2>2. DOMAIN f = {m} /\ f[m] = r /\ f \in ByMethod
    <3>1. DOMAIN f = {m} /\ f[m] = r /\ f \in [{m} -> Nat]
      OBVIOUS
    <3>2. {m} \in (SUBSET STRING) \ {{}}
      OBVIOUS
    <3> HIDE DEF f
    <3> QED
      BY <3>1, <3>2, Zenon DEF ByMethod
  <2>3. at \in SUBSET DOMAIN vs
    OBVIOUS
  <2> HIDE DEF f, at
  <2>4. v \in Variant /\ v.host = h /\ v.byMethod = f
    BY <2>2 DEF Variant
  <2> HIDE DEF v, new
  <2>5. /\ new \in Seq(Variant)
        /\ \A i \in DOMAIN new : new[i] # v => \E j \in DOMAIN vs : vs[j] = new[i]
        /\ \E i \in DOMAIN new : new[i] = v
        /\ \A j \in DOMAIN vs : \E i \in DOMAIN new : new[i] = vs[j]
    BY <2>1, <2>3, <2>4, Inserted, SMTT(20)
  <2>6. Lists(new, h, m, r)
    BY <2>2, <2>4, <2>5 DEF Lists, ToSet
  <2>7. ASSUME NEW g, NEW x, NEW q, Lists(new, g, x, q), ~(g = h /\ x = m /\ q = r)
        PROVE  Lists(vs, g, x, q)
    BY <2>2, <2>4, <2>5, <2>7 DEF Lists, ToSet
  <2>8. ASSUME NEW g, NEW x, NEW q, Lists(vs, g, x, q)
        PROVE  Lists(new, g, x, q)
    BY <2>5, <2>8 DEF Lists, ToSet
  <2> QED
    BY <2>5, <2>6, <2>7, <2>8 DEF new
<1> QED
  BY <1>1, <1>2

(* A route is filed in an entry if some bucket lists it.                   *)
LEMMA FilesIs ==
  ASSUME NEW e \in Entry, NEW g, NEW x, NEW q
  PROVE  Files(e, g, x, q) <=> \E b \in Buckets : Lists(e.hosts[b], g, x, q)
<1>1. \A v : v \in ToSet(Variants(e)) <=> \E b \in Buckets : v \in ToSet(e.hosts[b])
  BY InVariants
<1> QED
  BY <1>1 DEF Files, Lists

(* File adds its route, where the entry had none, and takes nothing away.  *)
LEMMA FileFacts ==
  ASSUME NEW e \in Entry, NEW h \in Listed, NEW m \in STRING, NEW r \in Nat
  PROVE  LET new == File(e, h, m, r)
         IN /\ new \in Entry
            /\ new.segs = e.segs /\ new.priority = e.priority
            /\ Files(new, h, m, r)
            /\ \A g, x, q : Files(new, g, x, q) =>
                              Files(e, g, x, q) \/ (g = h /\ x = m /\ q = r)
            /\ \A g, x, q : Files(e, g, x, q) /\ ~(g = h /\ x = m) => Files(new, g, x, q)
<1> DEFINE new == File(e, h, m, r)
           b == Bucket(h)
           filed == FiledIn(e.hosts[b], h, m, r)
<1>1. e.segs \in Templates /\ e.priority \in Int /\ e.hosts \in [Buckets -> Seq(Variant)]
  BY DEF Entry
<1>2. b \in Buckets
  BY DEF Bucket, Buckets
<1>3. new = [segs |-> e.segs, priority |-> e.priority, hosts |-> [e.hosts EXCEPT ![b] = filed]]
  BY FileIs
<1> HIDE DEF b, new
<1>4. /\ filed \in Seq(Variant)
      /\ Lists(filed, h, m, r)
      /\ \A g, x, q : Lists(filed, g, x, q) =>
                        Lists(e.hosts[b], g, x, q) \/ (g = h /\ x = m /\ q = r)
      /\ \A g, x, q : Lists(e.hosts[b], g, x, q) /\ ~(g = h /\ x = m) =>
                        Lists(filed, g, x, q)
  <2>1. e.hosts[b] \in Seq(Variant)
    BY <1>1, <1>2
  <2> QED
    BY <2>1, FiledInFacts
<1> HIDE DEF filed
<1>5. new \in Entry
  BY <1>1, <1>3, <1>4 DEF Entry
<1>6. new.segs = e.segs /\ new.priority = e.priority
  BY <1>3
<1>7. /\ new.hosts[b] = filed
      /\ \A c \in Buckets : c # b => new.hosts[c] = e.hosts[c]
  BY <1>1, <1>2, <1>3
<1>8. \A g, x, q : Files(new, g, x, q) <=> \E c \in Buckets : Lists(new.hosts[c], g, x, q)
  BY <1>5, FilesIs
<1>9. \A g, x, q : Files(e, g, x, q) <=> \E c \in Buckets : Lists(e.hosts[c], g, x, q)
  BY FilesIs
<1>10. Files(new, h, m, r)
  BY <1>2, <1>4, <1>7, <1>8
<1>11. ASSUME NEW g, NEW x, NEW q, Files(new, g, x, q), ~(g = h /\ x = m /\ q = r)
       PROVE  Files(e, g, x, q)
  <2>1. PICK c \in Buckets : Lists(new.hosts[c], g, x, q)
    BY <1>8, <1>11
  <2>2. Lists(e.hosts[c], g, x, q)
    BY <1>4, <1>7, <1>11, <2>1
  <2> QED
    BY <1>9, <2>2
<1>12. ASSUME NEW g, NEW x, NEW q, Files(e, g, x, q), ~(g = h /\ x = m)
       PROVE  Files(new, g, x, q)
  <2>1. PICK c \in Buckets : Lists(e.hosts[c], g, x, q)
    BY <1>9, <1>12
  <2>2. Lists(new.hosts[c], g, x, q)
    BY <1>4, <1>7, <1>12, <2>1
  <2> QED
    BY <1>8, <2>2
<1> QED
  BY <1>5, <1>6, <1>10, <1>11, <1>12 DEF new

(* Filed, one host after the other.                                        *)
LEMMA FiledRuns ==
  ASSUME NEW e \in Entry, NEW call, HostsOf(call) \in Seq(Listed),
         call.method \in STRING, Len(routes) + 1 \in Nat
  PROVE  LET hs == HostsOf(call)
         IN \E f : /\ f[0] = e
                   /\ \A i \in 1 .. Len(hs) :
                        f[i] = File(f[i - 1], hs[i], call.method, Len(routes) + 1)
                   /\ Filed(e, call) = f[Len(hs)]
<1> DEFINE hs == HostsOf(call)
           n == Len(hs)
           m == call.method
           r == Len(routes) + 1
           F == [i \in 1 .. n |-> [x \in Entry |-> File(x, hs[i], m, r)]]
           Step(g, s) == IF s = {} THEN e
                         ELSE File(g[s \ {Max(s)}], hs[Max(s)], m, r)
           Def(g) == g = [s \in SUBSET DOMAIN hs |-> Step(g, s)]
           iter == CHOOSE g : Def(g)
           f == [i \in 0 .. n |-> iter[1 .. i]]
<1>0. n \in Nat /\ DOMAIN hs = 1 .. n
  OBVIOUS
<1>1. F \in [1 .. n -> [Entry -> Entry]]
  <2>1. \A i \in 1 .. n : hs[i] \in Listed
    BY <1>0
  <2> HIDE DEF hs, m, r
  <2>2. m \in STRING /\ r \in Nat
    BY DEF m, r
  <2>3. \A x \in Entry, h \in Listed : File(x, h, m, r) \in Entry
    BY <2>2, FileFacts
  <2> QED
    BY <2>1, <2>3
<1>2. PICK g : IsFold(g, n, Entry, e, F)
  <2> HIDE DEF n, F
  <2> QED
    BY <1>0, <1>1, FoldExists
<1>3. ASSUME NEW s \in SUBSET (1 .. n)
      PROVE  g[s] = Step(g, s)
  <2>1. CASE s # {}
    <3>1. Max(s) \in 1 .. n /\ s \ {Max(s)} \in SUBSET (1 .. n)
      BY <1>0, <2>1, MaxIsMember
    <3> QED
      BY <1>2, <2>1, <3>1 DEF IsFold
  <2> QED
    BY <1>2, <2>1 DEF IsFold
<1>4. Def(g)
  BY <1>0, <1>2, <1>3 DEF IsFold
<1>5. Def(iter)
  <2> HIDE DEF Def
  <2> QED
    BY <1>4
<1>6. Filed(e, call) = iter[DOMAIN hs]
  BY DEF Filed, FoldLeft, MapThenFoldSet
<1>7. /\ iter[1 .. 0] = e
      /\ \A i \in 1 .. n : iter[1 .. i] = File(iter[1 .. i - 1], hs[i], m, r)
  <2> HIDE DEF iter
  <2>1. \A s \in SUBSET (1 .. n) : iter[s] = Step(iter, s)
    BY <1>0, <1>5
  <2>2. 1 .. 0 = {} /\ 1 .. 0 \in SUBSET (1 .. n)
    OBVIOUS
  <2>3. iter[1 .. 0] = e
    BY <2>1, <2>2
  <2>4. ASSUME NEW i \in 1 .. n
        PROVE  iter[1 .. i] = File(iter[1 .. i - 1], hs[i], m, r)
    BY <1>0, <2>1, FoldPath
  <2> QED
    BY <2>3, <2>4
<1>8. /\ f[0] = e /\ f[n] = iter[DOMAIN hs]
      /\ \A i \in 1 .. n : f[i] = File(f[i - 1], hs[i], m, r)
  <2> HIDE DEF iter
  <2>1. \A i \in 1 .. n : i - 1 \in 0 .. n /\ i \in 0 .. n
    BY <1>0
  <2> QED
    BY <1>0, <1>7, <2>1
<1> QED
  <2> HIDE DEF f, iter
  <2> QED
    BY <1>6, <1>8

(* A call's route is filed under each of its hosts, if none of them had    *)
(* the method.  Nothing else comes, and nothing goes.                      *)
LEMMA FiledFacts ==
  ASSUME NEW e \in Entry, NEW call, HostsOf(call) \in Seq(Listed), HostsOf(call) # << >>,
         call.method \in STRING, Len(routes) + 1 \in Nat,
         \A h \in ToSet(HostsOf(call)) : ~Taken(e, h, call.method)
  PROVE  LET new == Filed(e, call)
             r == Len(routes) + 1
         IN /\ new \in Entry
            /\ new.segs = e.segs /\ new.priority = e.priority
            /\ \A g, x, q : Files(new, g, x, q) <=>
                 \/ Files(e, g, x, q)
                 \/ g \in ToSet(HostsOf(call)) /\ x = call.method /\ q = r
<1> DEFINE hs == HostsOf(call)
           n == Len(hs)
           m == call.method
           r == Len(routes) + 1
<1>1. PICK f : /\ f[0] = e
               /\ \A i \in 1 .. n : f[i] = File(f[i - 1], hs[i], m, r)
               /\ Filed(e, call) = f[n]
  BY FiledRuns
<1>2. n \in Nat /\ n # 0 /\ DOMAIN hs = 1 .. n /\ \A i \in 1 .. n : hs[i] \in Listed /\ hs[i] \in ToSet(hs)
  BY DEF ToSet
<1>3. \A h \in ToSet(hs) : ~Taken(e, h, m)
  OBVIOUS
<1>4. m \in STRING /\ r \in Nat
  OBVIOUS
<1> HIDE DEF hs, n, m, r
<1> DEFINE Good(k) ==
             /\ f[k] \in Entry /\ f[k].segs = e.segs /\ f[k].priority = e.priority
             /\ \A g, y, q : Files(f[k], g, y, q) <=>
                  Files(e, g, y, q) \/ ((\E i \in 1 .. k : g = hs[i]) /\ y = m /\ q = r)
           T == {k \in Nat : Good(k)}
<1>5. \A h \in ToSet(hs) : \A q : ~Files(e, h, m, q)
  BY <1>3 DEF Taken, Files
<1>6. ASSUME NEW k \in Nat, k < n, Good(k)
      PROVE  Good(k + 1)
  <2> DEFINE h == hs[k + 1]
             new == File(f[k], h, m, r)
  <2>1. k + 1 \in 1 .. n /\ k + 1 - 1 = k
    BY <1>2, <1>6
  <2>2. f[k + 1] = new /\ h \in Listed /\ h \in ToSet(hs)
    BY <1>1, <1>2, <2>1
  <2>3. /\ new \in Entry
        /\ new.segs = f[k].segs /\ new.priority = f[k].priority
        /\ Files(new, h, m, r)
        /\ \A g, y, q : Files(new, g, y, q) => Files(f[k], g, y, q) \/ (g = h /\ y = m /\ q = r)
        /\ \A g, y, q : Files(f[k], g, y, q) /\ ~(g = h /\ y = m) => Files(new, g, y, q)
    <3>1. f[k] \in Entry
      BY <1>6
    <3> HIDE DEF new, h, Good
    <3>2. h \in Listed
      BY <2>2
    <3> QED
      BY <1>4, <3>1, <3>2, FileFacts DEF new
  <2>4. \A q : ~Files(e, h, m, q)
    BY <1>5, <2>2
  <2>5. \A g : (\E i \in 1 .. k + 1 : g = hs[i]) <=> (\E i \in 1 .. k : g = hs[i]) \/ g = h
    <3>1. 1 .. k + 1 = (1 .. k) \cup {k + 1}
      OBVIOUS
    <3> QED
      BY <3>1
  <2> HIDE DEF new, h
  <2>6. \A g, y, q : Files(new, g, y, q) <=>
          Files(e, g, y, q) \/ ((\E i \in 1 .. k + 1 : g = hs[i]) /\ y = m /\ q = r)
    BY <1>6, <2>3, <2>4, <2>5
  <2> QED
    BY <1>6, <2>2, <2>3, <2>6
<1>7. 0 \in T
  BY <1>1
<1>8. \A k \in Nat : k < n /\ k \in T => k + 1 \in T
  BY <1>6
<1>9. n \in T
  <2> HIDE DEF T
  <2>1. \A k \in 0 .. n : k \in T
    BY <1>2, <1>7, <1>8, UpTo
  <2> QED
    BY <1>2, <2>1
<1>10. \A g : (\E i \in 1 .. n : g = hs[i]) <=> g \in ToSet(hs)
  BY <1>2 DEF ToSet
<1> QED
  BY <1>1, <1>9, <1>10 DEF m, r, hs

-----------------------------------------------------------------------------
(* The hosts of a call *)

LEMMA ContainsSome ==
  ASSUME NEW S, NEW s \in Seq(S), NEW x, Contains(s, x)
  PROVE  s # << >>
BY DEF Contains

(* The patterns of a list, each once: at least one, if there is any.       *)
LEMMA OnceRuns ==
  ASSUME NEW n \in Nat, n # 0, NEW parsed, DOMAIN parsed = 1 .. n
  PROVE  \E S : LET once == FoldLeft(AddOnce, << >>, parsed)
               IN /\ once \in Seq(S) \ {<< >>}
                  /\ \A x : x \in ToSet(once) <=> \E i \in 1 .. n : x = parsed[i][1]
<1> DEFINE S == {parsed[i][1] : i \in 1 .. n}
           F == [i \in 1 .. n |-> [acc \in Seq(S) |-> AddOnce(acc, parsed[i])]]
           Step(g, s) == IF s = {} THEN << >> ELSE AddOnce(g[s \ {Max(s)}], parsed[Max(s)])
           Def(g) == g = [s \in SUBSET DOMAIN parsed |-> Step(g, s)]
           iter == CHOOSE g : Def(g)
<1>1. ASSUME NEW acc \in Seq(S), NEW i \in 1 .. n
      PROVE  /\ AddOnce(acc, parsed[i]) \in Seq(S) \ {<< >>}
             /\ \A x : x \in ToSet(AddOnce(acc, parsed[i])) <=>
                      x \in ToSet(acc) \/ x = parsed[i][1]
  <2> DEFINE x == parsed[i][1]
  <2>1. x \in S
    OBVIOUS
  <2>2. AddOnce(acc, parsed[i]) = IF Contains(acc, x) THEN acc ELSE Append(acc, x)
    BY DEF AddOnce
  <2> HIDE DEF S, x
  <2>3. Append(acc, x) \in Seq(S) /\ Append(acc, x) # << >>
    BY <2>1
  <2>4. \A y : y \in ToSet(Append(acc, x)) <=> y \in ToSet(acc) \/ y = x
    BY <2>1, OneMore DEF ToSet
  <2>5. Contains(acc, x) => x \in ToSet(acc)
    BY DEF Contains, ToSet
  <2>6. AddOnce(acc, parsed[i]) \in Seq(S) \ {<< >>}
    BY <2>2, <2>3, ContainsSome
  <2>7. \A y : y \in ToSet(AddOnce(acc, parsed[i])) <=> y \in ToSet(acc) \/ y = x
    BY <2>2, <2>4, <2>5
  <2> QED
    BY <2>6, <2>7 DEF x
<1>2. F \in [1 .. n -> [Seq(S) -> Seq(S)]]
  <2> HIDE DEF S
  <2> QED
    BY <1>1
<1>3. << >> \in Seq(S)
  OBVIOUS
<1>4. PICK g : IsFold(g, n, Seq(S), << >>, F)
  <2> HIDE DEF F, S
  <2> QED
    BY <1>2, <1>3, FoldExists
<1> HIDE DEF S
<1>5. ASSUME NEW s \in SUBSET (1 .. n)
      PROVE  g[s] = Step(g, s)
  <2>1. CASE s # {}
    <3>1. Max(s) \in 1 .. n /\ s \ {Max(s)} \in SUBSET (1 .. n)
      BY <2>1, MaxIsMember
    <3> QED
      BY <1>4, <2>1, <3>1 DEF IsFold
  <2> QED
    BY <1>4, <2>1 DEF IsFold
<1>6. Def(g)
  BY <1>4, <1>5 DEF IsFold
<1>7. Def(iter)
  <2> HIDE DEF Def
  <2> QED
    BY <1>6
<1>8. FoldLeft(AddOnce, << >>, parsed) = iter[1 .. n]
  BY DEF FoldLeft, MapThenFoldSet
<1>9. \A s \in SUBSET (1 .. n) : iter[s] = Step(iter, s)
  BY <1>7
<1> HIDE DEF iter
<1> DEFINE Has(k) == /\ iter[1 .. k] \in Seq(S)
                     /\ \A x : x \in ToSet(iter[1 .. k]) <=>
                                 \E i \in 1 .. k : x = parsed[i][1]
<1>12. \A k \in 1 .. n : iter[1 .. k] = AddOnce(iter[1 .. k - 1], parsed[k])
  BY <1>9, FoldPath
<1>10. \A k \in 0 .. n : Has(k)
  <2> DEFINE T == {k \in Nat : Has(k)}
  <2>1. 0 \in T
    <3>1. 1 .. 0 = {} /\ 1 .. 0 \in SUBSET (1 .. n)
      OBVIOUS
    <3>2. iter[1 .. 0] = << >>
      BY <1>9, <3>1
    <3>3. ToSet(<< >>) = {}
      BY DEF ToSet
    <3> QED
      BY <1>3, <3>1, <3>2, <3>3
  <2>2. ASSUME NEW k \in Nat, k < n, k \in T
        PROVE  k + 1 \in T
    <3>1. k + 1 \in 1 .. n /\ k + 1 - 1 = k /\ k + 1 \in Nat
      BY <2>2
    <3>2. iter[1 .. k + 1] = AddOnce(iter[1 .. k], parsed[k + 1])
      BY <1>12, <3>1
    <3>3. \A i : i \in 1 .. k + 1 <=> i \in 1 .. k \/ i = k + 1
      BY <2>2
    <3>4. /\ AddOnce(iter[1 .. k], parsed[k + 1]) \in Seq(S)
          /\ \A x : x \in ToSet(AddOnce(iter[1 .. k], parsed[k + 1])) <=>
                      x \in ToSet(iter[1 .. k]) \/ x = parsed[k + 1][1]
      BY <1>1, <2>2, <3>1
    <3>5. Has(k + 1)
      BY <2>2, <3>2, <3>3, <3>4
    <3> QED
      BY <3>1, <3>5
  <2> HIDE DEF T
  <2>3. \A k \in 0 .. n : k \in T
    BY <2>1, <2>2, UpTo
  <2> QED
    BY <2>3 DEF T
<1>11. iter[1 .. n] # << >>
  <2>1. n \in 1 .. n /\ n - 1 \in 0 .. n
    OBVIOUS
  <2>2. iter[1 .. n - 1] \in Seq(S)
    BY <1>10, <2>1
  <2>3. iter[1 .. n] = AddOnce(iter[1 .. n - 1], parsed[n])
    BY <1>12, <2>1
  <2> QED
    BY <1>1, <2>1, <2>2, <2>3
<1>13. n \in 0 .. n
  OBVIOUS
<1> QED
  BY <1>8, <1>10, <1>11, <1>13

(* A call that passes the checks gives hosts that can be filed.            *)
LEMMA HostsListed ==
  ASSUME NEW call \in Calls, Compiled(call).ok
  PROVE  HostsOf(call) \in Seq(Listed) /\ HostsOf(call) # << >>
<1>1. \A i \in DOMAIN HostsOf(call) : HostsOf(call)[i] \in Listed
  BY DEF Listed
<1>2. \E n \in Nat \ {0} : HostsOf(call) = [i \in 1 .. n |-> HostsOf(call)[i]]
  <2>1. CASE call.hosts = << >>
    <3>1. HostsOf(call) = <<EveryHost>>
      BY <2>1 DEF HostsOf
    <3>2. 1 \in Nat \ {0} /\ HostsOf(call) = [i \in 1 .. 1 |-> HostsOf(call)[i]]
      BY <3>1
    <3> QED
      BY <3>2
  <2>2. CASE call.hosts # << >>
    <3> DEFINE n == Len(call.hosts)
               texts == [i \in DOMAIN call.hosts |-> call.hosts[i].text]
               parsed == [i \in DOMAIN texts |-> ParseHostPattern(texts[i])]
               pats == Compiled(call).pats
    <3>1. call.hosts \in Seq([form : Form, text : Seq(STRING)])
      BY CallsAssumption DEF Registration
    <3>2. n \in Nat /\ n # 0 /\ DOMAIN parsed = 1 .. n
      BY <2>2, <3>1
    <3>3. pats = FoldLeft(AddOnce, << >>, parsed)
      BY DEF Compiled, CompileHosts
    <3> HIDE DEF n, texts, parsed
    <3>4. PICK S : pats \in Seq(S) \ {<< >>}
      BY <3>2, <3>3, OnceRuns
    <3>5. HostsOf(call) = [i \in DOMAIN pats |-> HostOf(pats[i])]
      BY <2>2 DEF HostsOf
    <3> HIDE DEF pats
    <3>6. Len(pats) \in Nat \ {0} /\ DOMAIN pats = 1 .. Len(pats)
      BY <3>4
    <3>7. HostsOf(call) = [i \in 1 .. Len(pats) |-> HostsOf(call)[i]]
      BY <3>5, <3>6
    <3> QED
      BY <3>6, <3>7
  <2> QED
    BY <2>1, <2>2
<1>3. PICK n \in Nat \ {0} : HostsOf(call) = [i \in 1 .. n |-> HostsOf(call)[i]]
  BY <1>2
<1> DEFINE hs == HostsOf(call)
<1>4. hs = [i \in 1 .. n |-> hs[i]] /\ \A i \in DOMAIN hs : hs[i] \in Listed
  BY <1>1, <1>3
<1> HIDE DEF hs
<1>5. hs \in [1 .. n -> Listed]
  BY <1>4
<1>6. hs \in Seq(Listed) /\ hs # << >>
  BY <1>5
<1> QED
  BY <1>6 DEF hs

-----------------------------------------------------------------------------
(* Entries and routes *)

(* The calls that can become routes.                                       *)
AcceptedCalls == {c \in Calls : WellFormed(c.segs) /\ Compiled(c).ok}

(* An entry files just the routes of its template, under their methods and *)
(* each of their hosts, and neither is without the other.                  *)
FilesOwn(e, rs) ==
    \A h, m, r : Files(e, h, m, r) <=>
      /\ r \in DOMAIN rs /\ rs[r].method = m
      /\ Key(rs[r].segs) = Key(e.segs) /\ h \in ToSet(HostsOf(rs[r]))

EntriesInv(es, rs) ==
    /\ es \in Seq(Entry) /\ rs \in Seq(AcceptedCalls)
    /\ \A i \in DOMAIN es : FilesOwn(es[i], rs)
    /\ \A r \in DOMAIN rs : \E i \in DOMAIN es : Key(es[i].segs) = Key(rs[r].segs)
    /\ \A i \in DOMAIN es : \E r \in DOMAIN rs : Key(rs[r].segs) = Key(es[i].segs)

(* An entry goes on filing its own routes when one more comes, which it    *)
(* files if it is of its template.                                         *)
LEMMA StillOwn ==
  ASSUME NEW rs \in Seq(AcceptedCalls), NEW call \in AcceptedCalls, NEW e, FilesOwn(e, rs), NEW new,
         new.segs = e.segs,
         \A h, m, r : Files(new, h, m, r) <=> Files(e, h, m, r) \/
           /\ Key(call.segs) = Key(e.segs) /\ h \in ToSet(HostsOf(call))
           /\ m = call.method /\ r = Len(rs) + 1
  PROVE  FilesOwn(new, Append(rs, call))
<1> DEFINE more == Append(rs, call)
           n == Len(rs) + 1
<1>1. /\ DOMAIN more = DOMAIN rs \cup {n} /\ more[n] = call
      /\ n \notin DOMAIN rs /\ \A i \in DOMAIN rs : more[i] = rs[i]
  BY OneMore
<1> HIDE DEF more, n
<1>2. \A h, m, r : Files(new, h, m, r) <=> Files(e, h, m, r) \/
        /\ Key(call.segs) = Key(e.segs) /\ h \in ToSet(HostsOf(call))
        /\ m = call.method /\ r = n
  BY DEF n
<1>3. ASSUME NEW h, NEW m, NEW r
      PROVE  Files(new, h, m, r) <=>
               /\ r \in DOMAIN more /\ more[r].method = m
               /\ Key(more[r].segs) = Key(new.segs) /\ h \in ToSet(HostsOf(more[r]))
  <2>1. CASE r = n
    <3>1. ~Files(e, h, m, r)
      BY <1>1, <2>1 DEF FilesOwn
    <3> QED
      BY <1>1, <1>2, <2>1, <3>1
  <2>2. CASE r # n
    <3>1. Files(new, h, m, r) <=>
            /\ r \in DOMAIN rs /\ rs[r].method = m
            /\ Key(rs[r].segs) = Key(e.segs) /\ h \in ToSet(HostsOf(rs[r]))
      BY <1>2, <2>2 DEF FilesOwn
    <3>2. r \in DOMAIN more <=> r \in DOMAIN rs
      BY <1>1, <2>2
    <3>3. r \in DOMAIN rs => more[r] = rs[r]
      BY <1>1
    <3> QED
      BY <3>1, <3>2, <3>3
  <2> QED
    BY <2>1, <2>2
<1> QED
  BY <1>3 DEF FilesOwn, more

(* A template has one entry.                                               *)
OneEach(es) == \A i, j \in DOMAIN es : Key(es[i].segs) = Key(es[j].segs) => i = j

(* One more route in an entry the table has ...                            *)
LEMMA RouteAdded ==
  ASSUME NEW es, NEW rs, EntriesInv(es, rs), OneEach(es), NEW call \in AcceptedCalls,
         NEW i \in DOMAIN es, Key(es[i].segs) = Key(call.segs),
         NEW new \in Entry, new.segs = es[i].segs,
         \A h, m, r : Files(new, h, m, r) <=> Files(es[i], h, m, r) \/
           (h \in ToSet(HostsOf(call)) /\ m = call.method /\ r = Len(rs) + 1)
  PROVE  EntriesInv([es EXCEPT ![i] = new], Append(rs, call))
<1> DEFINE es2 == [es EXCEPT ![i] = new]
           more == Append(rs, call)
           n == Len(rs) + 1
<1>1. es \in Seq(Entry) /\ rs \in Seq(AcceptedCalls)
  BY DEF EntriesInv
<1>2. /\ more \in Seq(AcceptedCalls) /\ DOMAIN more = DOMAIN rs \cup {n} /\ more[n] = call
      /\ \A r \in DOMAIN rs : more[r] = rs[r]
  BY <1>1, OneMore
<1>3. /\ es2 \in Seq(Entry) /\ DOMAIN es2 = DOMAIN es /\ es2[i] = new
      /\ \A j \in DOMAIN es : j # i => es2[j] = es[j]
  BY <1>1
<1> HIDE DEF es2, more
<1>4. ASSUME NEW j \in DOMAIN es
      PROVE  FilesOwn(es2[j], more)
  <2>1. FilesOwn(es[j], rs)
    BY DEF EntriesInv
  <2>2. CASE j = i
    <3>1. FilesOwn(es[i], rs)
      BY <2>1, <2>2
    <3>2. \A h, m, r : Files(new, h, m, r) <=> Files(es[i], h, m, r) \/
            /\ Key(call.segs) = Key(es[i].segs) /\ h \in ToSet(HostsOf(call))
            /\ m = call.method /\ r = Len(rs) + 1
      OBVIOUS
    <3>3. FilesOwn(new, more)
      BY <1>1, <3>1, <3>2, StillOwn DEF more
    <3> QED
      BY <1>3, <2>2, <3>3
  <2>3. CASE j # i
    <3>1. Key(call.segs) # Key(es[j].segs)
      BY <2>3 DEF OneEach
    <3>2. FilesOwn(es[j], more)
      BY <1>1, <2>1, <3>1, StillOwn DEF more
    <3> QED
      BY <1>3, <2>3, <3>2
  <2> QED
    BY <2>2, <2>3
<1>5. ASSUME NEW r \in DOMAIN more
      PROVE  \E j \in DOMAIN es2 : Key(es2[j].segs) = Key(more[r].segs)
  <2>1. \A j \in DOMAIN es : es2[j].segs = es[j].segs
    BY <1>3
  <2>2. CASE r \in DOMAIN rs
    <3>1. PICK j \in DOMAIN es : Key(es[j].segs) = Key(rs[r].segs)
      BY <2>2 DEF EntriesInv
    <3> QED
      BY <1>2, <1>3, <2>1, <2>2, <3>1
  <2>3. CASE r = n
    BY <1>2, <1>3, <2>1, <2>3
  <2> QED
    BY <1>2, <2>2, <2>3
<1>6. ASSUME NEW j \in DOMAIN es2
      PROVE  \E r \in DOMAIN more : Key(more[r].segs) = Key(es2[j].segs)
  <2>1. es2[j].segs = es[j].segs /\ j \in DOMAIN es
    BY <1>3
  <2>2. PICK r \in DOMAIN rs : Key(rs[r].segs) = Key(es[j].segs)
    BY <2>1 DEF EntriesInv
  <2> QED
    BY <1>2, <2>1, <2>2
<1>7. EntriesInv(es2, more)
  BY <1>2, <1>3, <1>4, <1>5, <1>6 DEF EntriesInv
<1> QED
  BY <1>7 DEF es2, more

(* ... and in a new one.                                                   *)
LEMMA EntryAdded ==
  ASSUME NEW es, NEW rs, EntriesInv(es, rs), NEW call \in AcceptedCalls,
         \A j \in DOMAIN es : Key(es[j].segs) # Key(call.segs),
         NEW new \in Entry, new.segs = call.segs,
         \A h, m, r : Files(new, h, m, r) <=>
           h \in ToSet(HostsOf(call)) /\ m = call.method /\ r = Len(rs) + 1
  PROVE  EntriesInv(Append(es, new), Append(rs, call))
<1> DEFINE es2 == Append(es, new)
           more == Append(rs, call)
           n == Len(rs) + 1
           k == Len(es) + 1
<1>1. es \in Seq(Entry) /\ rs \in Seq(AcceptedCalls)
  BY DEF EntriesInv
<1>2. /\ more \in Seq(AcceptedCalls) /\ DOMAIN more = DOMAIN rs \cup {n} /\ more[n] = call
      /\ n \notin DOMAIN rs /\ \A r \in DOMAIN rs : more[r] = rs[r]
  BY <1>1, OneMore
<1>3. /\ es2 \in Seq(Entry) /\ DOMAIN es2 = DOMAIN es \cup {k} /\ es2[k] = new
      /\ \A j \in DOMAIN es : es2[j] = es[j]
  BY <1>1, OneMore
<1> HIDE DEF es2, more, k
<1>4. ASSUME NEW j \in DOMAIN es2
      PROVE  FilesOwn(es2[j], more)
  <2>1. CASE j \in DOMAIN es
    <3>1. FilesOwn(es[j], rs) /\ Key(call.segs) # Key(es[j].segs)
      BY <2>1 DEF EntriesInv
    <3>2. FilesOwn(es[j], more)
      BY <1>1, <3>1, StillOwn DEF more
    <3> QED
      BY <1>3, <2>1, <3>2
  <2>2. CASE j = k
    <3>1. \A r \in DOMAIN rs : Key(rs[r].segs) # Key(call.segs)
      BY DEF EntriesInv
    <3> HIDE DEF n
    <3>2. \A h, m, r : Files(new, h, m, r) <=>
            h \in ToSet(HostsOf(call)) /\ m = call.method /\ r = n
      BY DEF n
    <3>3. FilesOwn(new, more)
      BY <1>2, <3>1, <3>2 DEF FilesOwn
    <3> QED
      BY <1>3, <2>2, <3>3
  <2> QED
    BY <1>3, <2>1, <2>2
<1>5. ASSUME NEW r \in DOMAIN more
      PROVE  \E j \in DOMAIN es2 : Key(es2[j].segs) = Key(more[r].segs)
  <2>1. CASE r \in DOMAIN rs
    <3>1. PICK j \in DOMAIN es : Key(es[j].segs) = Key(rs[r].segs)
      BY <2>1 DEF EntriesInv
    <3> QED
      BY <1>2, <1>3, <2>1, <3>1
  <2>2. CASE r = n
    <3>1. k \in DOMAIN es2 /\ Key(es2[k].segs) = Key(more[r].segs)
      BY <1>2, <1>3, <2>2
    <3> QED
      BY <3>1
  <2> QED
    BY <1>2, <2>1, <2>2
<1>6. ASSUME NEW j \in DOMAIN es2
      PROVE  \E r \in DOMAIN more : Key(more[r].segs) = Key(es2[j].segs)
  <2>1. CASE j \in DOMAIN es
    <3>1. PICK r \in DOMAIN rs : Key(rs[r].segs) = Key(es[j].segs)
      BY <2>1 DEF EntriesInv
    <3> QED
      BY <1>2, <1>3, <2>1, <3>1
  <2>2. CASE j = k
    <3>1. n \in DOMAIN more /\ Key(more[n].segs) = Key(es2[j].segs)
      BY <1>2, <1>3, <2>2
    <3> QED
      BY <3>1
  <2> QED
    BY <1>3, <2>1, <2>2
<1>7. EntriesInv(es2, more)
  BY <1>2, <1>3, <1>4, <1>5, <1>6 DEF EntriesInv
<1> QED
  BY <1>7 DEF es2, more

-----------------------------------------------------------------------------
(* The inductive invariant *)

(* The tree holds the entries that have wildcards, and nothing else.       *)
TreeHas(t, es) ==
    \A n, i : Holds(t, n, i) <=>
      i \in DOMAIN es /\ Wildcards(es[i].segs) # {} /\ n = Key(es[i].segs)

(* The static map takes the other templates to theirs.                     *)
StaticInv(st, es) ==
    /\ IsFiniteSet(DOMAIN st)
    /\ \A i \in DOMAIN es : Wildcards(es[i].segs) = {} =>
         AsPath(es[i].segs) \in DOMAIN st /\ st[AsPath(es[i].segs)] = i
    /\ \A p \in DOMAIN st : /\ st[p] \in DOMAIN es
                            /\ AsPath(es[st[p]].segs) = p
                            /\ Wildcards(es[st[p]].segs) = {}

TableInv ==
    /\ TreeInv(tree) /\ IsFiniteSet(Stored(tree))
    /\ EntriesInv(entries, routes)
    /\ OneEach(entries) /\ TreeHas(tree, entries) /\ StaticInv(static, entries)
    /\ Len(entries) = Cardinality(DOMAIN static) + Cardinality(Stored(tree))
    /\ errs \in 0 .. MaxErrs

LEMMA SizeIsStored == \A t : Size(t) = Cardinality(Stored(t))
BY DEF Size, Stored

LEMMA EmptyStored == Stored(EmptyTree) = {}
<1>1. \A n \in DOMAIN EmptyTree : DOMAIN EmptyTree[n].values = {}
  BY DEF EmptyTree, EmptyNode
<1>2. \A x : x \notin Stored(EmptyTree)
  BY <1>1, StoredIn
<1> QED
  BY <1>2

(* The table of a new builder.                                             *)
LEMMA TableInvInit == TableInit => TableInv
<1> SUFFICES ASSUME TableInit PROVE TableInv
  OBVIOUS
<1>1. static = << >> /\ tree = EmptyTree /\ entries = << >> /\ routes = << >> /\ errs = 0
  BY DEF TableInit
<1>2. TreeInv(tree) /\ Stored(tree) = {}
  BY <1>1, EmptyTreeInv, EmptyStored
<1>3. DOMAIN static = {} /\ DOMAIN entries = {} /\ DOMAIN routes = {} /\ Len(entries) = 0
  BY <1>1
<1>4. EntriesInv(entries, routes)
  <2>1. entries \in Seq(Entry) /\ routes \in Seq(AcceptedCalls)
    BY <1>1
  <2> QED
    BY <1>3, <2>1 DEF EntriesInv
<1>5. IsFiniteSet({}) /\ Cardinality({}) = 0
  BY FS_EmptySet
<1>6. StaticInv(static, entries)
  BY <1>3, <1>5 DEF StaticInv
<1>9. OneEach(entries) /\ TreeHas(tree, entries)
  <2>1. \A n, i : ~Holds(tree, n, i)
    BY <1>1 DEF Holds, EmptyTree, EmptyNode, ToSet
  <2> QED
    BY <1>3, <2>1 DEF OneEach, TreeHas
<1>7. Len(entries) = Cardinality(DOMAIN static) + Cardinality(Stored(tree))
  BY <1>2, <1>3, <1>5
<1>8. errs \in 0 .. MaxErrs
  BY <1>1, BoundAssumption
<1> QED
  BY <1>2, <1>4, <1>5, <1>6, <1>7, <1>8, <1>9 DEF TableInv

(* What every accepted call is known to be.                                *)
LEMMA ValidCall ==
  ASSUME TableInv, NEW call \in Calls, Valid(call)
  PROVE  /\ call \in AcceptedCalls /\ call.segs \in Templates /\ call.segs \in Seq(Seg)
         /\ call.method \in STRING /\ call.priority \in Int
         /\ HostsOf(call) \in Seq(Listed) /\ HostsOf(call) # << >>
         /\ Len(routes) + 1 \in Nat
<1>1. call \in Registration
  BY CallsAssumption
<1>2. WellFormed(call.segs) /\ Compiled(call).ok
  BY DEF Valid
<1>3. routes \in Seq(AcceptedCalls)
  BY DEF TableInv, EntriesInv
<1>4. /\ call.segs \in Seq(Seg) /\ call.method \in STRING /\ call.priority \in Int
  BY <1>1 DEF Registration
<1>5. call \in AcceptedCalls /\ call.segs \in Templates
  BY <1>2, <1>4 DEF AcceptedCalls, Templates
<1> QED
  BY <1>2, <1>3, <1>4, <1>5, HostsListed

(* A fresh entry files nothing but the call's route.                       *)
LEMMA FreshEntry ==
  ASSUME TableInv, NEW call \in Calls, Valid(call)
  PROVE  LET new == Filed([segs |-> call.segs, priority |-> call.priority,
                           hosts |-> NoVariants], call)
         IN /\ new \in Entry /\ new.segs = call.segs
            /\ \A h, m, r : Files(new, h, m, r) <=>
                 h \in ToSet(HostsOf(call)) /\ m = call.method /\ r = Len(routes) + 1
<1> DEFINE e == [segs |-> call.segs, priority |-> call.priority, hosts |-> NoVariants]
<1>1. /\ call.segs \in Templates /\ call.method \in STRING /\ call.priority \in Int
      /\ HostsOf(call) \in Seq(Listed) /\ HostsOf(call) # << >>
      /\ Len(routes) + 1 \in Nat
  BY ValidCall
<1>2. NoVariants \in [Buckets -> Seq(Variant)] /\ \A b \in Buckets : NoVariants[b] = << >>
  BY DEF NoVariants
<1>3. e \in Entry /\ e.segs = call.segs /\ e.hosts = NoVariants
  BY <1>1, <1>2 DEF Entry
<1> HIDE DEF e
<1>4. \A v : v \notin ToSet(Variants(e))
  <2>1. \A b \in Buckets : ToSet(e.hosts[b]) = {}
    BY <1>2, <1>3 DEF ToSet
  <2> QED
    BY <1>3, <2>1, InVariants
<1>5. \A h : ~Taken(e, h, call.method)
  BY <1>4 DEF Taken
<1>6. \A h, m, r : ~Files(e, h, m, r)
  BY <1>4 DEF Files
<1> DEFINE new == Filed(e, call)
<1>7. /\ new \in Entry
      /\ new.segs = e.segs /\ new.priority = e.priority
      /\ \A g, x, q : Files(new, g, x, q) <=>
           \/ Files(e, g, x, q)
           \/ g \in ToSet(HostsOf(call)) /\ x = call.method /\ q = Len(routes) + 1
  BY <1>1, <1>3, <1>5, FiledFacts
<1> HIDE DEF new
<1>8. /\ new \in Entry /\ new.segs = call.segs
      /\ \A h, m, r : Files(new, h, m, r) <=>
           h \in ToSet(HostsOf(call)) /\ m = call.method /\ r = Len(routes) + 1
  BY <1>3, <1>6, <1>7
<1> QED
  BY <1>8 DEF e, new

(* A change of priority files nothing.                                     *)
LEMMA UrgedFiles ==
  ASSUME NEW e \in Entry, NEW p \in Int
  PROVE  /\ Urged(e, p) \in Entry /\ Urged(e, p).segs = e.segs
         /\ \A h, m, r : Files(Urged(e, p), h, m, r) <=> Files(e, h, m, r)
<1> DEFINE k == IF p < e.priority THEN p ELSE e.priority
           new == [e EXCEPT !.priority = k]
<1>1. k \in Int
  BY DEF Entry
<1> HIDE DEF k
<1>2. new \in Entry /\ new.segs = e.segs /\ new.hosts = e.hosts
  BY <1>1 DEF Entry
<1>3. Urged(e, p) = new
  BY DEF Urged, k
<1> HIDE DEF new
<1>4. Variants(new) = Variants(e)
  BY <1>2 DEF Variants
<1>5. \A h, m, r : Files(new, h, m, r) <=> Files(e, h, m, r)
  BY <1>4 DEF Files
<1> QED
  BY <1>2, <1>3, <1>5

(* Two templates without wildcards that make the same path have the same   *)
(* key.                                                                    *)
LEMMA StaticKeys ==
  ASSUME NEW x \in Seq(Seg), NEW y \in Seq(Seg), Wildcards(x) = {}, Wildcards(y) = {},
         AsPath(x) = AsPath(y)
  PROVE  Key(x) = Key(y)
<1>1. /\ \A i \in DOMAIN x : x[i].kind = "static"
      /\ \A i \in DOMAIN y : y[i].kind = "static"
  BY DEF Wildcards
<1>2. DOMAIN x = DOMAIN y /\ \A i \in DOMAIN x : x[i].text = y[i].text
  BY DEF AsPath
<1>3. \A i \in DOMAIN x : Label(x[i]) = Label(y[i])
  BY <1>1, <1>2 DEF Label
<1> QED
  BY <1>2, <1>3 DEF Key

(* Each outcome of handle keeps TableInv.                                  *)
LEMMA AddToEntryKeepsInv ==
  TableInv => \A call \in Calls : AddToEntry(call) => TableInv'
<1> SUFFICES ASSUME TableInv, NEW call \in Calls, AddToEntry(call)
             PROVE  TableInv'
  OBVIOUS
<1>1. /\ Valid(call) /\ routes' = Append(routes, call)
      /\ static' = static /\ tree' = tree /\ errs' = errs
  BY DEF AddToEntry, Record
<1>2. PICK i \in EntryFor(call.segs) :
        entries' = [entries EXCEPT ![i] = Urged(Filed(@, call), call.priority)]
  BY DEF AddToEntry
<1>3. /\ call \in AcceptedCalls /\ call.method \in STRING /\ call.priority \in Int
      /\ HostsOf(call) \in Seq(Listed) /\ HostsOf(call) # << >>
      /\ Len(routes) + 1 \in Nat
  BY <1>1, ValidCall
<1>4. /\ EntriesInv(entries, routes) /\ entries \in Seq(Entry) /\ OneEach(entries)
      /\ i \in DOMAIN entries /\ entries[i] \in Entry
      /\ Key(entries[i].segs) = Key(call.segs)
  BY <1>2 DEF TableInv, EntriesInv, EntryFor
<1> DEFINE e == entries[i]
           filed == Filed(e, call)
           new == Urged(filed, call.priority)
<1>5. /\ filed \in Entry /\ filed.segs = e.segs
      /\ \A g, x, q : Files(filed, g, x, q) <=>
           \/ Files(e, g, x, q)
           \/ g \in ToSet(HostsOf(call)) /\ x = call.method /\ q = Len(routes) + 1
  <2>1. \A h \in ToSet(HostsOf(call)) : ~Taken(e, h, call.method)
    BY <1>1, <1>2 DEF Valid
  <2>2. e \in Entry
    BY <1>4
  <2> HIDE DEF e
  <2> QED
    BY <1>3, <2>1, <2>2, FiledFacts
<1>6. entries' = [entries EXCEPT ![i] = new]
  BY <1>2, Zenon
<1> HIDE DEF filed
<1>8. /\ new \in Entry /\ new.segs = filed.segs
      /\ \A h, m, r : Files(new, h, m, r) <=> Files(filed, h, m, r)
  BY <1>3, <1>5, UrgedFiles
<1> HIDE DEF new
<1>9. EntriesInv([entries EXCEPT ![i] = new], Append(routes, call))
  <2>1. new.segs = entries[i].segs
    BY <1>5, <1>8
  <2>2. \A h, m, r : Files(new, h, m, r) <=> Files(entries[i], h, m, r) \/
          (h \in ToSet(HostsOf(call)) /\ m = call.method /\ r = Len(routes) + 1)
    BY <1>5, <1>8
  <2> QED
    BY <1>3, <1>4, <1>8, <2>1, <2>2, RouteAdded
<1>10. EntriesInv(entries', routes')
  BY <1>1, <1>6, <1>9
<1>11. /\ DOMAIN entries' = DOMAIN entries /\ Len(entries') = Len(entries)
       /\ \A j \in DOMAIN entries : entries'[j].segs = entries[j].segs
  BY <1>4, <1>5, <1>6, <1>8
<1>12. StaticInv(static', entries')
  <2>1. StaticInv(static, entries)
    BY DEF TableInv
  <2> QED
    BY <1>1, <1>11, <2>1 DEF StaticInv
<1>13. OneEach(entries') /\ TreeHas(tree', entries')
  <2>1. OneEach(entries) /\ TreeHas(tree, entries)
    BY DEF TableInv
  <2> QED
    BY <1>1, <1>11, <2>1 DEF OneEach, TreeHas
<1> QED
  BY <1>1, <1>10, <1>11, <1>12, <1>13 DEF TableInv

(* One more entry, for a template whose key no entry has.                  *)
LEMMA NewEntryAdded ==
  TableInv =>
    \A call \in Calls :
      /\ Valid(call) /\ EntryFor(call.segs) = {}
      /\ entries' = NewEntry(call) /\ routes' = Append(routes, call)
      => /\ EntriesInv(entries', routes') /\ OneEach(entries')
         /\ Len(entries') = Len(entries) + 1
         /\ DOMAIN entries' = DOMAIN entries \cup {Len(entries) + 1}
         /\ Len(entries) + 1 \in Nat \ DOMAIN entries
         /\ entries'[Len(entries) + 1].segs = call.segs
         /\ \A j \in DOMAIN entries : entries'[j] = entries[j]
<1> SUFFICES ASSUME TableInv, NEW call \in Calls, Valid(call), EntryFor(call.segs) = {},
                    entries' = NewEntry(call), routes' = Append(routes, call)
             PROVE  /\ EntriesInv(entries', routes') /\ OneEach(entries')
                    /\ Len(entries') = Len(entries) + 1
                    /\ DOMAIN entries' = DOMAIN entries \cup {Len(entries) + 1}
                    /\ Len(entries) + 1 \in Nat \ DOMAIN entries
                    /\ entries'[Len(entries) + 1].segs = call.segs
                    /\ \A j \in DOMAIN entries : entries'[j] = entries[j]
  OBVIOUS
<1> DEFINE new == Filed([segs |-> call.segs, priority |-> call.priority,
                         hosts |-> NoVariants], call)
<1>1. /\ call \in AcceptedCalls /\ new \in Entry /\ new.segs = call.segs
      /\ \A h, m, r : Files(new, h, m, r) <=>
           h \in ToSet(HostsOf(call)) /\ m = call.method /\ r = Len(routes) + 1
  BY FreshEntry, ValidCall
<1>2. entries' = Append(entries, new)
  BY DEF NewEntry
<1> HIDE DEF new
<1>3. EntriesInv(entries, routes) /\ entries \in Seq(Entry)
  BY DEF TableInv, EntriesInv
<1>4. EntriesInv(Append(entries, new), Append(routes, call))
  <2>1. \A j \in DOMAIN entries : Key(entries[j].segs) # Key(call.segs)
    BY DEF EntryFor
  <2> QED
    BY <1>1, <1>3, <2>1, EntryAdded
<1>5. /\ Len(Append(entries, new)) = Len(entries) + 1
      /\ DOMAIN Append(entries, new) = DOMAIN entries \cup {Len(entries) + 1}
      /\ Len(entries) + 1 \in Nat \ DOMAIN entries
      /\ Append(entries, new)[Len(entries) + 1] = new
      /\ \A j \in DOMAIN entries : Append(entries, new)[j] = entries[j]
  BY <1>1, <1>3, OneMore
<1>6. OneEach(Append(entries, new))
  <2>1. OneEach(entries)
    BY DEF TableInv
  <2>2. \A i \in DOMAIN entries : Key(entries[i].segs) # Key(new.segs)
    BY <1>1 DEF EntryFor
  <2> QED
    BY <1>5, <2>1, <2>2 DEF OneEach
<1> QED
  BY <1>1, <1>2, <1>4, <1>5, <1>6

LEMMA AddStaticKeepsInv ==
  TableInv => \A call \in Calls : AddStatic(call) => TableInv'
<1> SUFFICES ASSUME TableInv, NEW call \in Calls, AddStatic(call)
             PROVE  TableInv'
  OBVIOUS
<1> DEFINE p == AsPath(call.segs)
           k == Len(entries) + 1
<1>1. /\ Valid(call) /\ EntryFor(call.segs) = {} /\ Wildcards(call.segs) = {}
      /\ static' = With(static, p, k)
      /\ entries' = NewEntry(call) /\ routes' = Append(routes, call)
      /\ tree' = tree /\ errs' = errs
  BY DEF AddStatic, Record
<1>2. /\ EntriesInv(entries', routes') /\ OneEach(entries')
      /\ Len(entries') = Len(entries) + 1
      /\ DOMAIN entries' = DOMAIN entries \cup {k}
      /\ k \in Nat \ DOMAIN entries
      /\ entries'[k].segs = call.segs
      /\ \A j \in DOMAIN entries : entries'[j] = entries[j]
  BY <1>1, NewEntryAdded
<1>3. StaticInv(static, entries) /\ entries \in Seq(Entry)
  BY DEF TableInv, EntriesInv
<1>4. p \notin DOMAIN static
  <2> SUFFICES ASSUME p \in DOMAIN static
               PROVE  FALSE
    OBVIOUS
  <2> DEFINE other == entries[static[p]].segs
  <2>1. static[p] \in DOMAIN entries /\ AsPath(other) = p /\ Wildcards(other) = {}
    BY <1>3 DEF StaticInv
  <2>2. other \in Seq(Seg) /\ call.segs \in Seq(Seg)
    <3>1. entries[static[p]] \in Entry
      BY <1>3, <2>1
    <3> QED
      BY <1>1, <3>1, ValidCall DEF Entry, Templates
  <2>3. Key(other) = Key(call.segs)
    BY <1>1, <2>1, <2>2, StaticKeys
  <2> QED
    BY <1>1, <2>1, <2>3 DEF EntryFor
<1> HIDE DEF p, k
<1>5. /\ DOMAIN static' = DOMAIN static \cup {p} /\ static'[p] = k
      /\ \A x \in DOMAIN static : x # p => static'[x] = static[x]
  BY <1>1 DEF With
<1>6. /\ IsFiniteSet(DOMAIN static')
      /\ Cardinality(DOMAIN static') = Cardinality(DOMAIN static) + 1
  <2>1. IsFiniteSet(DOMAIN static)
    BY <1>3 DEF StaticInv
  <2> QED
    BY <1>4, <1>5, <2>1, FS_AddElement
<1>7. StaticInv(static', entries')
  <2>1. ASSUME NEW x \in DOMAIN static'
        PROVE  /\ static'[x] \in DOMAIN entries'
               /\ AsPath(entries'[static'[x]].segs) = x
               /\ Wildcards(entries'[static'[x]].segs) = {}
    <3>1. CASE x = p
      BY <1>1, <1>2, <1>5, <3>1 DEF p
    <3>2. CASE x # p
      <4>1. x \in DOMAIN static /\ static'[x] = static[x]
        BY <1>5, <3>2
      <4>2. /\ static[x] \in DOMAIN entries
            /\ AsPath(entries[static[x]].segs) = x
            /\ Wildcards(entries[static[x]].segs) = {}
        BY <1>3, <4>1 DEF StaticInv
      <4> QED
        BY <1>2, <4>1, <4>2
    <3> QED
      BY <3>1, <3>2
  <2>2. ASSUME NEW i \in DOMAIN entries', Wildcards(entries'[i].segs) = {}
        PROVE  AsPath(entries'[i].segs) \in DOMAIN static' /\ static'[AsPath(entries'[i].segs)] = i
    <3>1. CASE i = k
      BY <1>2, <1>5, <3>1 DEF p
    <3>2. CASE i # k
      <4>1. i \in DOMAIN entries /\ entries'[i] = entries[i]
        BY <1>2, <2>2, <3>2
      <4>2. AsPath(entries[i].segs) \in DOMAIN static /\ static[AsPath(entries[i].segs)] = i
        BY <1>3, <2>2, <4>1 DEF StaticInv
      <4> QED
        BY <1>4, <1>5, <4>1, <4>2
    <3> QED
      BY <3>1, <3>2
  <2> QED
    BY <1>6, <2>1, <2>2 DEF StaticInv
<1>9. TreeHas(tree', entries')
  <2>1. TreeHas(tree, entries)
    BY DEF TableInv
  <2> QED
    BY <1>1, <1>2, <2>1 DEF TreeHas
<1>8. Len(entries') = Cardinality(DOMAIN static') + Cardinality(Stored(tree'))
  <2>1. /\ Len(entries) = Cardinality(DOMAIN static) + Cardinality(Stored(tree))
        /\ IsFiniteSet(Stored(tree)) /\ IsFiniteSet(DOMAIN static)
    BY <1>3 DEF TableInv, StaticInv
  <2>2. Cardinality(DOMAIN static) \in Nat /\ Cardinality(Stored(tree)) \in Nat
    BY <2>1, FS_CardinalityType
  <2> QED
    BY <1>1, <1>2, <1>6, <2>1, <2>2
<1> QED
  BY <1>1, <1>2, <1>7, <1>8, <1>9 DEF TableInv

LEMMA AddToTreeKeepsInv ==
  TableInv => \A call \in Calls : AddToTree(call) => TableInv'
<1> SUFFICES ASSUME TableInv, NEW call \in Calls, AddToTree(call)
             PROVE  TableInv'
  OBVIOUS
<1> DEFINE k == Len(entries) + 1
           ins == Insert(tree, call.segs, k)
<1>1. /\ Valid(call) /\ EntryFor(call.segs) = {} /\ Wildcards(call.segs) # {}
      /\ tree' = ins.tree
      /\ \/ /\ ins.ok /\ entries' = NewEntry(call) /\ routes' = Append(routes, call)
            /\ static' = static /\ errs' = errs
         \/ /\ ~ins.ok /\ errs' = errs + 1 /\ errs < MaxErrs
            /\ static' = static /\ entries' = entries /\ routes' = routes
  BY DEF AddToTree, Record, Refuse
<1>2. /\ TreeInv(tree) /\ IsFiniteSet(Stored(tree)) /\ EntriesInv(entries, routes)
      /\ StaticInv(static, entries) /\ entries \in Seq(Entry)
      /\ Len(entries) = Cardinality(DOMAIN static) + Cardinality(Stored(tree))
      /\ errs \in 0 .. MaxErrs
  BY DEF TableInv, EntriesInv
<1>3. \/ ins = [ok |-> FALSE, tree |-> tree]
      \/ /\ ins.ok /\ TreeInv(ins.tree)
         /\ IsFiniteSet(Stored(ins.tree))
         /\ Cardinality(Stored(ins.tree)) = Cardinality(Stored(tree)) + 1
         /\ \A m, x : Holds(ins.tree, m, x) <=>
                        Holds(tree, m, x) \/ (m = Key(call.segs) /\ x = k)
  <2>1. k \in Nat
    BY <1>2
  <2>2. call.segs \in Seq(Seg)
    BY <1>1, ValidCall
  <2> HIDE DEF k
  <2> QED
    BY <1>2, <2>1, <2>2, InsertFacts
<1> HIDE DEF ins
<1>4. CASE ins.ok
  <2>1. /\ tree' = ins.tree /\ TreeInv(ins.tree) /\ IsFiniteSet(Stored(ins.tree))
        /\ Cardinality(Stored(ins.tree)) = Cardinality(Stored(tree)) + 1
        /\ \A m, x : Holds(ins.tree, m, x) <=>
                       Holds(tree, m, x) \/ (m = Key(call.segs) /\ x = k)
    BY <1>1, <1>3, <1>4
  <2>2. /\ Valid(call) /\ entries' = NewEntry(call) /\ routes' = Append(routes, call)
        /\ static' = static /\ errs' = errs
    BY <1>1, <1>4
  <2>3. /\ EntriesInv(entries', routes') /\ OneEach(entries')
        /\ Len(entries') = Len(entries) + 1
        /\ DOMAIN entries' = DOMAIN entries \cup {k}
        /\ entries'[k].segs = call.segs
        /\ \A j \in DOMAIN entries : entries'[j] = entries[j]
    BY <1>1, <2>2, NewEntryAdded
  <2>4. StaticInv(static', entries')
    <3>1. Wildcards(entries'[k].segs) # {}
      BY <1>1, <2>3
    <3> HIDE DEF k
    <3> QED
      BY <1>2, <2>2, <2>3, <3>1 DEF StaticInv
  <2>6. TreeHas(tree', entries')
    <3>1. \A n, i : Holds(tree, n, i) <=>
            i \in DOMAIN entries /\ Wildcards(entries[i].segs) # {} /\ n = Key(entries[i].segs)
      BY DEF TableInv, TreeHas
    <3>2. Wildcards(entries'[k].segs) # {} /\ k \notin DOMAIN entries
      BY <1>1, <1>2, <2>3
    <3> HIDE DEF k
    <3>3. \A n, i : Holds(tree', n, i) <=>
            i \in DOMAIN entries' /\ Wildcards(entries'[i].segs) # {} /\ n = Key(entries'[i].segs)
      BY <2>1, <2>3, <3>1, <3>2
    <3> QED
      BY <3>3 DEF TreeHas
  <2>5. Len(entries') = Cardinality(DOMAIN static') + Cardinality(Stored(tree'))
    <3>1. IsFiniteSet(DOMAIN static)
      BY <1>2 DEF StaticInv
    <3>2. Cardinality(DOMAIN static) \in Nat /\ Cardinality(Stored(tree)) \in Nat
      BY <1>2, <3>1, FS_CardinalityType
    <3> QED
      BY <1>2, <2>1, <2>2, <2>3, <3>2
  <2> QED
    BY <1>2, <2>1, <2>2, <2>3, <2>4, <2>5, <2>6 DEF TableInv
<1>5. CASE ~ins.ok
  <2>1. ins.tree = tree
    BY <1>3, <1>5
  <2>2. /\ tree' = tree /\ static' = static /\ entries' = entries /\ routes' = routes
        /\ errs' = errs + 1 /\ errs < MaxErrs
    BY <1>1, <1>5, <2>1
  <2>3. errs' \in 0 .. MaxErrs
    BY <1>2, <2>2, BoundAssumption
  <2> QED
    BY <1>2, <2>2, <2>3 DEF TableInv
<1> QED
  BY <1>4, <1>5

LEMMA RefuseInvalidKeepsInv ==
  TableInv => \A call \in Calls : RefuseInvalid(call) => TableInv'
<1> SUFFICES ASSUME TableInv, NEW call \in Calls, RefuseInvalid(call)
             PROVE  TableInv'
  OBVIOUS
<1>1. /\ tree' = tree /\ static' = static /\ entries' = entries /\ routes' = routes
      /\ errs' = errs + 1 /\ errs < MaxErrs
  BY DEF RefuseInvalid, Refuse
<1>2. errs' \in 0 .. MaxErrs
  BY <1>1, BoundAssumption DEF TableInv
<1> QED
  BY <1>1, <1>2 DEF TableInv

(* Every call keeps the invariant.                                         *)
LEMMA TableStep ==
  ASSUME TableInv, [\E call \in Calls : Handle(call)]_tableVars
  PROVE  TableInv'
<1>1. ASSUME NEW call \in Calls, Handle(call)
      PROVE  TableInv'
  BY <1>1, AddToEntryKeepsInv, AddStaticKeepsInv, AddToTreeKeepsInv, RefuseInvalidKeepsInv
     DEF Handle
<1>2. CASE UNCHANGED tableVars
  BY <1>2 DEF tableVars, TableInv
<1> QED
  BY <1>1, <1>2

(* The invariant holds of every table that calls can make.                 *)
THEOREM TableInvariance == TableSpec => []TableInv
<1>1. TableInit => TableInv
  BY TableInvInit
<1>2. TableInv /\ [\E call \in Calls : Handle(call)]_tableVars => TableInv'
  BY TableStep
<1> QED
  BY <1>1, <1>2, PTL DEF TableSpec

(* TableOK: every entry is reachable by exactly one of the static map and  *)
(* the tree and holds only routes of its own template, and every route     *)
(* stays filed, whatever is registered (Group.handle, table.go).           *)
THEOREM TableIsSound == TableSpec => []TableOK
<1>1. TableInv => TableOK
  <2> SUFFICES ASSUME TableInv PROVE TableOK
    OBVIOUS
  <2>1. /\ EntriesInv(entries, routes) /\ StaticInv(static, entries)
        /\ Len(entries) = Cardinality(DOMAIN static) + Cardinality(Stored(tree))
        /\ errs \in 0 .. MaxErrs
    BY DEF TableInv
  <2>2. ASSUME NEW i \in DOMAIN entries
        PROVE  Reachable(i)
    <3>1. TreeHas(tree, entries)
      BY DEF TableInv
    <3> QED
      BY <2>1, <3>1 DEF Reachable, StaticInv, TreeHas, Holds
  <2>3. Len(entries) = Cardinality(DOMAIN static) + Size(tree)
    BY <2>1, SizeIsStored
  <2>4. ASSUME NEW i \in DOMAIN entries, NEW v \in ToSet(Variants(entries[i])),
               NEW m \in DOMAIN v.byMethod
        PROVE  /\ routes[v.byMethod[m]].method = m
               /\ Key(routes[v.byMethod[m]].segs) = Key(entries[i].segs)
    <3>1. FilesOwn(entries[i], routes)
      BY <2>1 DEF EntriesInv
    <3>2. Files(entries[i], v.host, m, v.byMethod[m])
      BY <2>4 DEF Files
    <3> QED
      BY <3>1, <3>2 DEF FilesOwn
  <2>5. ASSUME NEW r \in DOMAIN routes
        PROVE  \E i \in DOMAIN entries : FiledAs(i, routes[r].method, r)
    <3>1. PICK i \in DOMAIN entries : Key(entries[i].segs) = Key(routes[r].segs)
      BY <2>1 DEF EntriesInv
    <3>2. routes[r] \in Calls /\ Compiled(routes[r]).ok
      BY <2>1 DEF EntriesInv, AcceptedCalls
    <3>3. HostsOf(routes[r]) \in Seq(Listed) /\ HostsOf(routes[r]) # << >>
      BY <3>2, HostsListed
    <3>4. \E h : h \in ToSet(HostsOf(routes[r]))
      <4> DEFINE hs == HostsOf(routes[r])
      <4> HIDE DEF hs
      <4>1. hs \in Seq(Listed) /\ hs # << >>
        BY <3>3 DEF hs
      <4>2. 1 \in DOMAIN hs
        BY <4>1
      <4>3. hs[1] \in ToSet(hs)
        BY <4>2 DEF ToSet
      <4> QED
        BY <4>3 DEF hs
    <3>5. FilesOwn(entries[i], routes)
      BY <2>1 DEF EntriesInv
    <3>6. \E h : Files(entries[i], h, routes[r].method, r)
      BY <3>1, <3>4, <3>5 DEF FilesOwn
    <3> QED
      BY <3>6 DEF Files, FiledAs
  <2>6. OneEach(entries)
    BY DEF TableInv
  <2> QED
    BY <2>1, <2>2, <2>3, <2>4, <2>5, <2>6 DEF TableOK, OneEach
<1> QED
  BY <1>1, TableInvariance, PTL

(* RefusedChangesNothing: a refused registration leaves the table as it    *)
(* was.  The tree is the part that could fail to, because its walk makes   *)
(* nodes before it is refused; but names clash only where the tree has     *)
(* been before, and there nothing has been made (tree.go, follow).         *)
THEOREM RefusalsChangeNothing == TableSpec => RefusedChangesNothing
<1>1. TableInv /\ [\E call \in Calls : Handle(call)]_tableVars
        => [errs' # errs => UNCHANGED <<static, tree, entries, routes>>]_tableVars
  <2> SUFFICES ASSUME TableInv, NEW call \in Calls, Handle(call), errs' # errs
               PROVE  UNCHANGED <<static, tree, entries, routes>>
    OBVIOUS
  <2>1. CASE AddToEntry(call)
    BY <2>1 DEF AddToEntry
  <2>2. CASE AddStatic(call)
    BY <2>2 DEF AddStatic
  <2>3. CASE AddToTree(call)
    <3> DEFINE ins == Insert(tree, call.segs, Len(entries) + 1)
    <3>1. /\ Valid(call) /\ tree' = ins.tree /\ ~ins.ok
          /\ static' = static /\ entries' = entries /\ routes' = routes
      BY <2>3 DEF AddToTree, Refuse
    <3>2. /\ TreeInv(tree) /\ IsFiniteSet(Stored(tree))
          /\ Len(entries) + 1 \in Nat /\ call.segs \in Seq(Seg)
      BY <3>1, ValidCall DEF TableInv, EntriesInv
    <3>3. ins.tree = tree
      <4> DEFINE k == Len(entries) + 1
      <4>1. k \in Nat
        BY <3>2
      <4> HIDE DEF k
      <4>2. \/ Insert(tree, call.segs, k) = [ok |-> FALSE, tree |-> tree]
            \/ Insert(tree, call.segs, k).ok
        BY <3>2, <4>1, InsertFacts
      <4> QED
        BY <3>1, <4>2 DEF k
    <3> QED
      BY <3>1, <3>3
  <2>4. CASE RefuseInvalid(call)
    BY <2>4 DEF RefuseInvalid, Refuse
  <2> QED
    BY <2>1, <2>2, <2>3, <2>4 DEF Handle
<1> QED
  BY <1>1, TableInvariance, PTL DEF TableSpec, RefusedChangesNothing

===============================================================================
