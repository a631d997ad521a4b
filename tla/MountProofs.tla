----------------------------- MODULE MountProofs -----------------------------
(***************************************************************************)
(* A theorem about Mount, for all groups, hosts, priorities, patterns,     *)
(* mount points and requests: what is at and below the prefix of a         *)
(* complete Mount is answered by it or by a route that overrules it, and   *)
(* nothing else by it.                                                     *)
(*                                                                         *)
(* The text of its second pattern hangs the catch-all below the text of    *)
(* the first, whatever prefixes they are joined to, so the template of the *)
(* second is that of the first with a catch-all behind.  MountsInv says    *)
(* that the routes of every Mount stay such a pair, on the same hosts and  *)
(* for every method.  What the table then finds is what the rule picks     *)
(* among them (BestRouteProofs), and as two patterns that match one path   *)
(* are never equally specific (NoTie), the rule prefers a route for the    *)
(* reasons that overrule the other, never for its place.                   *)
(***************************************************************************)
EXTENDS GroupsProofs, BestRouteProofs

-----------------------------------------------------------------------------
(* Texts *)

(* What prefixes are made of: no token is read as the blank that a slash   *)
(* leaves.                                                                 *)
NamedTokens == {t \in Tokens : IsSlash(t) \/ Segment(t) # Blank}

LEMMA BlankIs == Blank.kind = "static"
BY Zenon DEF Blank, Lit

LEMMA NamedTexts ==
  ASSUME TextsAreNamed
  PROVE  /\ "/" \in NamedTokens /\ MountParam \in NamedTokens
         /\ GroupPaths \subseteq Seq(NamedTokens) /\ MountPoints \subseteq Seq(NamedTokens)
<1>1. Segment(MountParam) # Blank
  <2>1. Segment(MountParam).kind # "static"
    BY DEF TextsAreNamed
  <2> QED
    BY <2>1, BlankIs
<1>2. "/" \in NamedTokens /\ MountParam \in NamedTokens
  BY <1>1, GivenTexts DEF NamedTokens, IsSlash
<1>3. ASSUME NEW text \in GroupPaths \cup MountPoints
      PROVE  text \in Seq(NamedTokens)
  <2>1. text \in Seq(Tokens)
    BY GivenTexts
  <2>2. ASSUME NEW i \in DOMAIN text
        PROVE  text[i] \in NamedTokens
    <3>1. text[i] \in Tokens
      BY <2>1
    <3>2. IsSlash(text[i]) \/ Segment(text[i]) # Blank
      BY Zenon DEF TextsAreNamed, IsSlash, Blank
    <3> QED
      BY <3>1, <3>2 DEF NamedTokens
  <2> QED
    BY <2>1, <2>2
<1> QED
  BY <1>2, <1>3

(* The texts of a Mount: the second hangs the catch-all below the first,   *)
(* behind one slash.                                                       *)
Below1 == <<MountParam>>
Below2 == <<"/", MountParam>>
Hangs(S, f, w) == w = f \o (IF Ends(S, f) THEN Below1 ELSE Below2)

LEMMA BelowIs ==
  ASSUME NEW S, "/" \in S, MountParam \in S
  PROVE  /\ Below1 \in Seq(S) /\ Below2 \in Seq(S) /\ <<"/">> \in Seq(S)
         /\ Len(Below1) = 1 /\ Below1[1] = MountParam
         /\ Len(Below2) = 2 /\ Below2[1] = "/" /\ Below2[2] = MountParam
         /\ Below2 = <<"/">> \o Below1 /\ Below2 # << >> /\ <<"/">> # << >>
         /\ Below2 # <<"/">> /\ Len(<<"/">>) = 1 /\ <<"/">>[1] = "/"
<1>1. ASSUME NEW c \in S, NEW m \in S
      PROVE  /\ <<m>> \in Seq(S) /\ <<c, m>> \in Seq(S) /\ <<c>> \in Seq(S)
             /\ Len(<<m>>) = 1 /\ <<m>>[1] = m
             /\ Len(<<c, m>>) = 2 /\ <<c, m>>[1] = c /\ <<c, m>>[2] = m
             /\ <<c, m>> = <<c>> \o <<m>> /\ <<c, m>> # << >> /\ <<c>> # << >>
             /\ <<c, m>> # <<c>> /\ Len(<<c>>) = 1 /\ <<c>>[1] = c
  <2>1. /\ <<m>> \in Seq(S) /\ <<c, m>> \in Seq(S) /\ <<c>> \in Seq(S)
        /\ Len(<<m>>) = 1 /\ <<m>>[1] = m /\ Len(<<c>>) = 1 /\ <<c>>[1] = c
        /\ Len(<<c, m>>) = 2 /\ <<c, m>>[1] = c /\ <<c, m>>[2] = m
    OBVIOUS
  <2>2. <<c, m>> # << >> /\ <<c>> # << >>
    OBVIOUS
  <2>3. <<c, m>> # <<c>>
    BY <2>1
  <2>4. <<c, m>> = <<c>> \o <<m>>
    <3>1. PICK x, y, z : x = <<c>> /\ y = <<m>> /\ z = <<c, m>>
      OBVIOUS
    <3>2. /\ x \in Seq(S) /\ y \in Seq(S) /\ z \in Seq(S)
          /\ Len(x) = 1 /\ x[1] = c /\ Len(y) = 1 /\ y[1] = m
          /\ Len(z) = 2 /\ z[1] = c /\ z[2] = m
      BY <2>1, <3>1
    <3>3. /\ x \o y \in Seq(S) /\ Len(x \o y) = 2
          /\ (x \o y)[1] = c /\ (x \o y)[2] = m
      <4>0. x \in Seq(S) /\ y \in Seq(S)
        BY <3>2
      <4>1. /\ x \o y \in Seq(S) /\ Len(x \o y) = Len(x) + Len(y)
            /\ \A i \in 1 .. Len(x) : (x \o y)[i] = x[i]
            /\ \A i \in 1 .. Len(y) : (x \o y)[Len(x) + i] = y[i]
        BY <4>0, ConcatIs
      <4>2. 1 \in 1 .. Len(x) /\ 1 \in 1 .. Len(y) /\ Len(x) + 1 = 2 /\ Len(x) + Len(y) = 2
        BY <3>2
      <4> QED
        BY <3>2, <4>1, <4>2
    <3>4. z = x \o y
      <4>1. \A i \in 1 .. Len(z) : i = 1 \/ i = 2
        BY <3>2
      <4> QED
        BY <3>2, <3>3, <4>1, SeqEqual
    <3> QED
      BY <3>1, <3>4
  <2> QED
    BY <2>1, <2>2, <2>3, <2>4
<1> QED
  BY <1>1, Zenon DEF Below1, Below2

(* What a mount point is without its slashes at the end.                   *)
LEMMA TrimmedIs ==
  ASSUME NEW S, NEW prefix \in Seq(S)
  PROVE  /\ TrimSlashes(prefix) \in Seq(S)
         /\ TrimSlashes(prefix) = << >> \/ ~Ends(S, TrimSlashes(prefix))
<1> DEFINE named == {i \in DOMAIN prefix : prefix[i] # "/"}
           n == Len(prefix)
           m == Max(named)
           t == SubSeq(prefix, 1, m)
<1>1. CASE named = {}
  <2>1. TrimSlashes(prefix) = << >>
    BY <1>1 DEF TrimSlashes
  <2> QED
    BY <2>1
<1>2. CASE named # {}
  <2>1. n \in Nat /\ named \in SUBSET (1 .. n) /\ \A i \in 1 .. n : prefix[i] \in S
    OBVIOUS
  <2>2. TrimSlashes(prefix) = t
    BY <1>2 DEF TrimSlashes
  <2>3. m \in named
    <3> HIDE DEF named, n
    <3> QED
      BY <1>2, <2>1, MaxIsMember
  <2>4. m \in 1 .. n /\ prefix[m] # "/"
    BY <2>1, <2>3
  <2> HIDE DEF named, n, m
  <2>5. m \in Nat /\ 1 <= m /\ 1 \in Int /\ m \in Int /\ (\A i \in 1 .. m : prefix[i] \in S)
        /\ m - 1 + 1 = m /\ m \in 1 .. m - 1 + 1 /\ 1 + m - 1 = m
    BY <2>1, <2>4
  <2>6. t \in Seq(S) /\ Len(t) = m /\ t[m] = prefix[m]
    BY <2>5, SubSeqProperties
  <2> HIDE DEF t
  <2>7. ~Ends(S, t)
    BY <2>4, <2>6 DEF Ends, IsSlash
  <2> QED
    BY <2>2, <2>6, <2>7
<1> QED
  BY <1>1, <1>2

(* mountPatterns: the root of the subtree, R, and what hangs below it.     *)
Rooting(S, R, both) ==
    /\ R \in Seq(S)
    /\ \/ R = << >> /\ both.self = <<"/">> /\ both.sub = Below2
       \/ Starts(S, R) /\ ~Ends(S, R) /\ both.self = R /\ both.sub = R \o Below2

LEMMA MountRoots ==
  ASSUME NEW S, "/" \in S, MountParam \in S, NEW prefix \in Seq(S)
  PROVE  \E R : Rooting(S, R, MountPatterns(prefix))
<1> DEFINE t == TrimSlashes(prefix)
           slash == <<"/">>
           R == IF t = << >> \/ StartsInSlash(t) THEN t ELSE slash \o t
<1>1. /\ MountPatterns(prefix).self = IF R = << >> THEN slash ELSE R
      /\ MountPatterns(prefix).sub = R \o Below2
  BY DEF MountPatterns, Below2
<1>2. t \in Seq(S) /\ (t = << >> \/ ~Ends(S, t))
  BY TrimmedIs
<1>3. slash \in Seq(S) /\ Len(slash) = 1 /\ IsSlash(slash[1]) /\ slash # << >> /\ Below2 \in Seq(S)
  BY BelowIs DEF IsSlash
<1>4. StartsInSlash(t) <=> Starts(S, t)
  <2>1. t # << >> => Head(t) = t[1]
    OBVIOUS
  <2> QED
    BY <2>1 DEF StartsInSlash, Starts, IsSlash
<1> HIDE DEF t, slash
<1>5. CASE t = << >>
  <2>1. R = << >>
    BY <1>5
  <2> HIDE DEF R
  <2>2. R \in Seq(S) /\ R \o Below2 = Below2
    <3>1. << >> \o Below2 = Below2
      BY <1>3, EmptyIs
    <3> QED
      BY <2>1, <3>1
  <2>3. MountPatterns(prefix).self = <<"/">> /\ MountPatterns(prefix).sub = Below2
    BY <1>1, <2>1, <2>2 DEF slash
  <2> QED
    BY <2>1, <2>2, <2>3 DEF Rooting
<1>6. CASE t # << >> /\ StartsInSlash(t)
  <2>1. R = t
    BY <1>6
  <2> QED
    BY <1>1, <1>2, <1>4, <1>6, <2>1 DEF Rooting
<1>7. CASE t # << >> /\ ~StartsInSlash(t)
  <2> DEFINE r == slash \o t
  <2>1. R = r
    BY <1>7
  <2> HIDE DEF R
  <2>2. /\ r \in Seq(S) /\ Len(r) = 1 + Len(t) /\ Len(t) \in Nat /\ Len(t) # 0 /\ r # << >>
        /\ r[1] = slash[1] /\ r[1 + Len(t)] = t[Len(t)]
    <3>1. Len(t) \in Nat /\ Len(t) # 0
      BY <1>2, <1>7, EmptyIs
    <3>2. /\ r \in Seq(S) /\ Len(r) = Len(slash) + Len(t)
          /\ \A i \in 1 .. Len(slash) : r[i] = slash[i]
          /\ \A i \in 1 .. Len(t) : r[Len(slash) + i] = t[i]
      <4>1. slash \in Seq(S) /\ t \in Seq(S)
        BY <1>2, <1>3
      <4> QED
        BY <4>1, ConcatIs
    <3> HIDE DEF r
    <3>3. Len(r) = 1 + Len(t) /\ 1 \in 1 .. Len(slash) /\ Len(t) \in 1 .. Len(t)
      BY <1>3, <3>1, <3>2
    <3>4. r # << >>
      BY <3>1, <3>2, <3>3, EmptyIs
    <3> QED
      BY <1>3, <3>1, <3>2, <3>3, <3>4
  <2> HIDE DEF r
  <2>3. Starts(S, r)
    BY <1>3, <2>2 DEF Starts
  <2>4. ~Ends(S, r)
    <3>1. ~IsSlash(t[Len(t)])
      BY <1>2, <1>7 DEF Ends
    <3> QED
      BY <2>2, <3>1 DEF Ends
  <2>5. MountPatterns(prefix).self = r /\ MountPatterns(prefix).sub = r \o Below2
    BY <1>1, <2>1, <2>2
  <2> QED
    BY <2>2, <2>3, <2>4, <2>5 DEF Rooting
<1> QED
  BY <1>5, <1>6, <1>7

(* Joined to the prefix of a group, the second still hangs below the       *)
(* first.                                                                  *)
LEMMA HangsOn ==
  ASSUME NEW S, "/" \in S, MountParam \in S, NEW b \in Seq(S), NEW R \in Seq(S),
         Starts(S, R), ~Ends(S, R)
  PROVE  Hangs(S, b \o R, b \o (R \o Below2))
<1>1. Below2 \in Seq(S)
  BY BelowIs
<1>2. b \o (R \o Below2) = (b \o R) \o Below2
  BY <1>1, ConcatAgain
<1> DEFINE f == b \o R
<1>3. /\ Len(f) = Len(b) + Len(R) /\ Len(b) \in Nat /\ Len(R) \in Nat
      /\ \A i \in 1 .. Len(R) : f[Len(b) + i] = R[i]
  BY ConcatIs
<1>4. Len(R) \in 1 .. Len(R)
  <2>1. Len(R) # 0
    BY EmptyIs DEF Starts
  <2> QED
    BY <1>3, <2>1
<1> HIDE DEF f
<1>5. f[Len(f)] = R[Len(R)]
  BY <1>3, <1>4
<1>6. ~Ends(S, f)
  BY <1>5 DEF Ends, Starts
<1> QED
  BY <1>2, <1>6 DEF Hangs, f

LEMMA JoinedHangs ==
  ASSUME NEW S, "/" \in S, MountParam \in S, NEW p \in Seq(S), NEW R, NEW both,
         Rooting(S, R, both)
  PROVE  Hangs(S, JoinPrefix(p, both.self), JoinPrefix(p, both.sub))
<1> DEFINE c == "/"
           e == EndsInSlash(p)
           b == IF e THEN Front(p) ELSE p
           f == JoinPrefix(p, both.self)
           w == JoinPrefix(p, both.sub)
<1>1. \A x : JoinPrefix(p, x) =
        IF p = << >> THEN x
        ELSE IF x \in {<< >>, <<c>>} THEN p
        ELSE (CASE e /\ StartsInSlash(x) -> Front(p)
                [] ~e /\ ~StartsInSlash(x) -> Append(p, c) [] OTHER -> p) \o x
  BY DEF JoinPrefix
<1>2. \A x \in Seq(S) : StartsInSlash(x) <=> Starts(S, x)
  <2>1. \A x \in Seq(S) : x # << >> => Head(x) = x[1]
    OBVIOUS
  <2> QED
    BY <2>1 DEF StartsInSlash, Starts, IsSlash
<1>3. e <=> Ends(S, p)
  BY DEF EndsInSlash, Last, Ends, IsSlash
<1>4. /\ Below1 \in Seq(S) /\ Below2 \in Seq(S) /\ <<c>> \in Seq(S)
      /\ Len(Below2) = 2 /\ Below2[1] = c /\ Below2 = <<c>> \o Below1 /\ Below2 # << >>
      /\ Below2 # <<c>> /\ Len(<<c>>) = 1 /\ <<c>>[1] = c /\ <<c>> # << >>
  BY BelowIs
<1>5. c \in S /\ IsSlash(c)
  BY DEF IsSlash
<1> HIDE DEF c, e
<1>6. CASE p = << >>
  <2>1. f = both.self /\ w = both.sub
    BY <1>1, <1>6
  <2>2. CASE R = << >> /\ both.self = <<"/">> /\ both.sub = Below2
    <3>1. f = <<c>> /\ w = <<c>> \o Below1
      BY <1>4, <2>1, <2>2 DEF c
    <3>2. Ends(S, f)
      BY <1>4, <1>5, <3>1 DEF Ends
    <3> QED
      BY <3>1, <3>2 DEF Hangs
  <2>3. CASE Starts(S, R) /\ ~Ends(S, R) /\ both.self = R /\ both.sub = R \o Below2
    BY <2>1, <2>3 DEF Hangs
  <2> QED
    BY <2>2, <2>3 DEF Rooting
<1>7. CASE p # << >>
  <2>1. b \in Seq(S)
    BY LastApart, <1>7
  <2>2. ASSUME NEW x \in Seq(S), Starts(S, x), x # <<c>>
        PROVE  JoinPrefix(p, x) = b \o x
    <3>1. x # << >> /\ StartsInSlash(x)
      BY <1>2, <2>2 DEF Starts
    <3> QED
      BY <1>1, <1>7, <2>2, <3>1
  <2>3. Starts(S, Below2)
    BY <1>4, <1>5 DEF Starts
  <2>4. CASE R = << >> /\ both.self = <<"/">> /\ both.sub = Below2
    <3>1. f = p
      BY <1>1, <1>7, <2>4 DEF c
    <3>2. w = b \o Below2
      BY <1>4, <2>2, <2>3, <2>4
    <3>3. CASE e
      <4>1. p = Front(p) \o <<p[Len(p)]>> /\ p[Len(p)] = c /\ Front(p) \in Seq(S)
        BY <1>3, <1>7, <3>3, LastApart DEF Ends, IsSlash, c
      <4>2. b \o Below2 = Front(p) \o (<<c>> \o Below1)
        BY <1>4, <3>3
      <4>3. Front(p) \o (<<c>> \o Below1) = (Front(p) \o <<c>>) \o Below1
        <5>1. PICK y, z : y = Front(p) /\ z = <<c>>
          OBVIOUS
        <5>2. y \in Seq(S) /\ z \in Seq(S) /\ Below1 \in Seq(S)
          BY <1>4, <4>1, <5>1
        <5>3. y \o (z \o Below1) = (y \o z) \o Below1
          BY <5>2, ConcatAgain, SMTT(20)
        <5> QED
          BY <5>1, <5>3
      <4>4. w = p \o Below1
        BY <3>2, <4>1, <4>2, <4>3
      <4> QED
        BY <1>3, <3>1, <3>3, <4>4 DEF Hangs
    <3>4. CASE ~e
      BY <1>3, <3>1, <3>2, <3>4 DEF Hangs
    <3> QED
      BY <3>3, <3>4
  <2>5. CASE Starts(S, R) /\ ~Ends(S, R) /\ both.self = R /\ both.sub = R \o Below2
    <3>1. R \in Seq(S)
      BY DEF Rooting
    <3>2. R # <<c>>
      BY <1>4, <1>5, <2>5 DEF Ends
    <3>3. f = b \o R
      BY <2>2, <2>5, <3>1, <3>2
    <3>4. R \o Below2 \in Seq(S) /\ Starts(S, R \o Below2) /\ R \o Below2 # <<c>>
      <4>1. /\ R \o Below2 \in Seq(S) /\ Len(R \o Below2) = Len(R) + Len(Below2)
            /\ Len(R) \in Nat
        BY <1>4, <3>1, ConcatIs
      <4>2. Starts(S, R \o Below2)
        BY <1>4, <2>5, <3>1, StartsOn
      <4>3. Len(R \o Below2) # Len(<<c>>)
        BY <1>4, <4>1
      <4> QED
        BY <4>1, <4>2, <4>3
    <3>5. w = b \o (R \o Below2)
      BY <2>2, <2>5, <3>4
    <3> HIDE DEF b, f, w
    <3>6. Hangs(S, f, w)
      BY <2>1, <2>5, <3>1, <3>3, <3>5, HangsOn
    <3> QED
      BY <3>6 DEF f, w
  <2> QED
    BY <2>4, <2>5 DEF Rooting
<1> QED
  BY <1>6, <1>7

-----------------------------------------------------------------------------
(* Templates *)

(* One token read, as StepIs says it and in full.                          *)
LEMMA FilledIs ==
  ASSUME NEW x \in Seq(Pieces), NEW t \in Tokens, ~IsSlash(t)
  PROVE  TemplateStep(x, t) = Append(Front(x), Segment(t))
BY DEF TemplateStep, IsSlash

LEMMA FrontOfAppend ==
  ASSUME NEW S, NEW x \in Seq(S), NEW b \in S
  PROVE  Front(Append(x, b)) = x
<1> DEFINE y == Append(x, b)
<1>1. y \in Seq(S) /\ y # << >> /\ Len(y) = Len(x) + 1 /\ Len(x) \in Nat
      /\ \A i \in 1 .. Len(x) : y[i] = x[i]
  BY AppendProperties
<1> HIDE DEF y
<1>2. Front(y) \in Seq(S) /\ Len(Front(y)) = Len(y) - 1
      /\ \A i \in 1 .. Len(y) - 1 : Front(y)[i] = y[i]
  BY <1>1, FrontIs
<1>3. Len(Front(y)) = Len(x) /\ \A i \in 1 .. Len(x) : Front(y)[i] = x[i]
  BY <1>1, <1>2
<1>4. Front(y) = x
  BY <1>2, <1>3, SeqEqual
<1> QED
  BY <1>4 DEF y

LEMMA NamedIsToken == Seq(NamedTokens) \subseteq Seq(Tokens)
<1>1. NamedTokens \subseteq Tokens
  BY DEF NamedTokens
<1> QED
  BY <1>1, SeqMonotonic

(* The template of what ends in a slash ends in a blank, and no other does *)
(* if no token is read as one.                                             *)
LEMMA SegmentsOfRead ==
  ASSUME NEW f \in Seq(NamedTokens), Starts(NamedTokens, f), NEW r, ReadSoFar(r, f)
  PROVE  /\ Ends(NamedTokens, f) =>
              r[Len(f)] = Append(SegmentsOf(r[Len(f)]), Blank)
         /\ ~Ends(NamedTokens, f) => r[Len(f)] = SegmentsOf(r[Len(f)])
         /\ SegmentsOf(r[Len(f)]) \in Seq(Pieces)
<1> DEFINE n == Len(f)
           t == f[n]
           x == r[n - 1]
           y == r[n]
           D == Pieces
           b == Blank
<1>1. f # << >> /\ n \in Nat /\ n # 0 /\ n \in 1 .. n /\ n - 1 \in 0 .. n /\ n \in 0 .. n
  <2>1. f # << >>
    BY DEF Starts
  <2>2. n \in Nat /\ n # 0
    BY <2>1, EmptyIs
  <2> QED
    BY <2>1, <2>2
<1>2. t \in NamedTokens /\ t \in Tokens
  BY <1>1 DEF NamedTokens
<1> HIDE DEF n
<1>3. x \in Seq(D) /\ y \in Seq(D) /\ y = TemplateStep(x, t)
  BY <1>1 DEF ReadSoFar, n
<1>4. Ends(NamedTokens, f) <=> IsSlash(t)
  BY <1>1 DEF Ends, n
<1>5. SegmentsOf(y) = IF y # << >> /\ y[Len(y)] = b THEN Front(y) ELSE y
  BY DEF SegmentsOf, Last, Blank
<1>6. b \in D /\ Segment(t) \in D
  BY <1>2 DEF Pieces
<1>7. CASE IsSlash(t)
  <2>1. y = Append(x, b)
    BY <1>2, <1>3, <1>7, StepIs
  <2> HIDE DEF x, y, D, b, t
  <2>2. y # << >> /\ Len(y) = Len(x) + 1 /\ y[Len(x) + 1] = b /\ Front(y) = x
    BY <1>3, <1>6, <2>1, AppendProperties, FrontOfAppend
  <2>3. SegmentsOf(y) = x
    BY <1>5, <2>2
  <2> QED
    BY <1>3, <1>4, <1>7, <2>1, <2>3 DEF n, x, y, b, D
<1>8. CASE ~IsSlash(t)
  <2> DEFINE s == Segment(t)
             z == Front(x)
  <2>1. y = Append(z, s)
    BY <1>2, <1>3, <1>8, FilledIs
  <2>2. s # b
    BY <1>2, <1>8 DEF NamedTokens
  <2>3. z \in Seq(D)
    <3>1. CASE x = << >>
      BY <3>1 DEF Front
    <3>2. CASE x # << >>
      BY <1>3, <3>2, LastApart
    <3> QED
      BY <3>1, <3>2
  <2>4. s \in D
    BY <1>6
  <2> HIDE DEF x, y, D, b, t, s, z
  <2>5. Len(y) = Len(z) + 1 /\ y[Len(z) + 1] = s
    BY <2>1, <2>3, <2>4, AppendProperties
  <2>6. SegmentsOf(y) = y
    BY <1>5, <2>2, <2>5
  <2> QED
    BY <1>3, <1>4, <1>8, <2>6 DEF n, y, D
<1> QED
  BY <1>7, <1>8

(* The template of a Mount's second pattern is that of its first, a        *)
(* trailing slash aside, and the catch-all behind.                         *)
LEMMA TemplateHangs ==
  ASSUME TextsAreNamed, NEW f \in Seq(NamedTokens), Starts(NamedTokens, f),
         NEW w, Hangs(NamedTokens, f, w)
  PROVE  /\ TemplateOf(w) = Append(SegmentsOf(TemplateOf(f)), Segment(MountParam))
         /\ TemplateOf(f) = SegmentsOf(TemplateOf(f))
              \/ TemplateOf(f) = Append(SegmentsOf(TemplateOf(f)), Blank)
         /\ SegmentsOf(TemplateOf(f)) \in Seq(Pieces)
<1> DEFINE S == NamedTokens
           n == Len(f)
           c == "/"
           m == MountParam
           behind == IF Ends(S, f) THEN Below1 ELSE Below2
           D == Pieces
           b == Blank
           g == Segment(m)
<1>1. /\ Below1 \in Seq(S) /\ Below2 \in Seq(S)
      /\ Len(Below1) = 1 /\ Below1[1] = m /\ Len(Below2) = 2 /\ Below2[1] = c /\ Below2[2] = m
  BY NamedTexts, BelowIs
<1>2. behind \in Seq(S) /\ w = f \o behind
  BY <1>1 DEF Hangs
<1> HIDE DEF behind
<1>3. /\ w \in Seq(S) /\ Len(w) = n + Len(behind) /\ n \in Nat /\ Len(behind) \in Nat
      /\ \A i \in 1 .. n : w[i] = f[i]
      /\ \A i \in 1 .. Len(behind) : w[n + i] = behind[i]
  BY <1>2, ConcatIs
<1>4. f \in Seq(Tokens) /\ w \in Seq(Tokens) /\ Starts(Tokens, f) /\ Starts(Tokens, w)
  <2>1. Starts(S, w)
    BY <1>2, StartsOn
  <2> QED
    BY <1>3, <2>1, NamedIsToken DEF Starts
<1>5. PICK r : ReadSoFar(r, f)
  BY <1>4, TemplateRuns
<1>6. PICK v : ReadSoFar(v, w)
  BY <1>4, TemplateRuns
<1>7. v[n] = r[n]
  BY <1>3, <1>4, <1>5, <1>6, SameRun
<1>8. TemplateOf(f) = r[n] /\ TemplateOf(w) = v[Len(w)]
  BY <1>4, <1>5, <1>6, StartsIs DEF TemplateOf, ReadSoFar
<1>9. /\ Ends(S, f) => r[n] = Append(SegmentsOf(r[n]), b)
      /\ ~Ends(S, f) => r[n] = SegmentsOf(r[n])
      /\ SegmentsOf(r[n]) \in Seq(D)
  BY <1>5, SegmentsOfRead
<1>10. /\ c \in Tokens /\ m \in Tokens /\ IsSlash(c) /\ ~IsSlash(m) /\ b \in D /\ g \in D
  <2>1. ~IsSlash(m)
    BY DEF IsSlash, MountParam
  <2>2. IsSlash(c) /\ b \in D /\ g \in D
    BY GivenTexts DEF IsSlash, Pieces
  <2> QED
    BY <2>1, <2>2, GivenTexts
<1>11. /\ \A i \in 1 .. Len(w) : v[i] = TemplateStep(v[i - 1], w[i])
       /\ \A i \in 0 .. Len(w) : v[i] \in Seq(D)
  BY <1>6 DEF ReadSoFar
<1> DEFINE P == SegmentsOf(r[n])
<1> HIDE DEF n, c, m, D, b, g, P
<1>12. CASE Ends(S, f)
  <2>1. Len(w) = n + 1 /\ w[n + 1] = m
    <3>1. behind = Below1
      BY <1>12 DEF behind
    <3>2. Len(behind) = 1 /\ behind[1] = m
      BY <1>1, <3>1
    <3> QED
      BY <1>3, <3>2
  <2>2. v[n + 1] = TemplateStep(v[n], m) /\ v[n] \in Seq(D)
    <3>1. n + 1 \in 1 .. Len(w) /\ n + 1 - 1 = n /\ n \in 0 .. Len(w)
      BY <1>3, <2>1
    <3> QED
      BY <1>11, <2>1, <3>1
  <2>3. v[n + 1] = Append(Front(v[n]), g)
    BY <1>10, <2>2, FilledIs DEF D, g
  <2>4. Front(v[n]) = P
    <3>1. v[n] = Append(P, b) /\ P \in Seq(D)
      BY <1>7, <1>9, <1>12 DEF P
    <3> QED
      BY <1>10, <3>1, FrontOfAppend
  <2> QED
    BY <1>8, <1>9, <1>12, <2>1, <2>3, <2>4 DEF P, n, g, m, D, b
<1>13. CASE ~Ends(S, f)
  <2>1. Len(w) = n + 2 /\ w[n + 1] = c /\ w[n + 2] = m
    <3>1. behind = Below2
      BY <1>13 DEF behind
    <3>2. Len(behind) = 2 /\ behind[1] = c /\ behind[2] = m
      BY <1>1, <3>1
    <3> QED
      BY <1>3, <3>2
  <2>2. /\ v[n + 1] = TemplateStep(v[n], c) /\ v[n] \in Seq(D)
        /\ v[n + 2] = TemplateStep(v[n + 1], m) /\ v[n + 1] \in Seq(D)
    <3>1. /\ n + 1 \in 1 .. Len(w) /\ n + 1 - 1 = n /\ n \in 0 .. Len(w)
          /\ n + 2 \in 1 .. Len(w) /\ n + 2 - 1 = n + 1 /\ n + 1 \in 0 .. Len(w)
      BY <1>3, <2>1
    <3> QED
      BY <1>11, <2>1, <3>1
  <2>3. v[n + 1] = Append(v[n], b)
    BY <1>10, <2>2, StepIs DEF D, b
  <2>4. v[n + 2] = Append(Front(v[n + 1]), g)
    BY <1>10, <2>2, FilledIs DEF D, g
  <2>5. Front(v[n + 1]) = v[n]
    BY <1>10, <2>2, <2>3, FrontOfAppend
  <2>6. v[n] = P
    BY <1>7, <1>9, <1>13 DEF P
  <2> QED
    BY <1>8, <1>9, <1>13, <2>1, <2>4, <2>5, <2>6 DEF P, n, g, m, D, b
<1> QED
  BY <1>12, <1>13

-----------------------------------------------------------------------------
(* What a Mount matches *)

(* The template of a Mount's second route, from that of its first.         *)
Continues(x, y) ==
    /\ y = Append(SegmentsOf(x), Segment(MountParam))
    /\ SegmentsOf(x) \in Seq(Pieces)
    /\ x = SegmentsOf(x) \/ x = Append(SegmentsOf(x), Blank)

(* A template without a catch-all matches paths of its own length.         *)
LEMMA FixedMatches ==
  ASSUME NEW D, NEW x \in Seq(D), x = << >> \/ x[Len(x)].kind # "catchAll", NEW path
  PROVE  PathMatches(x, path) <=>
           Len(path) = Len(x) /\ \A i \in 1 .. Len(x) : SegmentMatches(x[i], path[i])
BY DEF PathMatches, Last

(* What is at or below a prefix: the paths that begin with it.             *)
LEMMA UnderPrefix ==
  ASSUME NEW D, NEW P \in Seq(D), P = << >> \/ P[Len(P)].kind # "catchAll",
         NEW S, NEW path \in Seq(S)
  PROVE  Below(P, path) <=>
           Len(path) >= Len(P) /\ \A i \in 1 .. Len(P) : SegmentMatches(P[i], path[i])
<1> DEFINE n == Len(P)
           start == SubSeq(path, 1, n)
<1>1. n \in Nat /\ Len(path) \in Nat
  OBVIOUS
<1>2. CASE Len(path) >= n
  <2>1. /\ 1 \in Int /\ n \in Int /\ (\A i \in 1 .. n : path[i] \in S)
        /\ (IF 1 <= n THEN n - 1 + 1 ELSE 0) = n /\ n - 1 + 1 = n
        /\ \A i \in 1 .. n : 1 + i - 1 = i
    BY <1>1, <1>2
  <2> HIDE DEF n
  <2>2. Len(start) = n /\ \A i \in 1 .. n : start[i] = path[1 + i - 1]
    BY <2>1, SubSeqProperties
  <2> HIDE DEF start
  <2>3. \A i \in 1 .. n : start[i] = path[i]
    BY <2>1, <2>2
  <2>4. PathMatches(P, start) <=>
          Len(start) = n /\ \A i \in 1 .. n : SegmentMatches(P[i], start[i])
    BY FixedMatches DEF n
  <2>5. PathMatches(P, start) <=> \A i \in 1 .. n : SegmentMatches(P[i], path[i])
    BY <2>2, <2>3, <2>4
  <2> QED
    BY <1>2, <2>5 DEF Below, n, start
<1>3. CASE ~(Len(path) >= n)
  BY <1>3 DEF Below
<1> QED
  BY <1>2, <1>3

(* Its second route takes exactly these, and its first no other.           *)
LEMMA MountMatches ==
  ASSUME TextsAreNamed, NEW x, NEW y, Continues(x, y), y \in Templates,
         NEW S, NEW path \in Seq(S)
  PROVE  /\ PathMatches(y, path) <=> Below(SegmentsOf(x), path)
         /\ PathMatches(x, path) => Below(SegmentsOf(x), path)
<1> DEFINE P == SegmentsOf(x)
           n == Len(P)
           D == Pieces
           b == Blank
           c == Segment(MountParam)
           Fits(i) == SegmentMatches(P[i], path[i])
<1>1. /\ P \in Seq(D) /\ y = Append(P, c) /\ b \in D /\ c \in D
      /\ x = P \/ x = Append(P, b)
  BY GivenTexts DEF Continues, Pieces
<1>2. c.kind = "catchAll" /\ b.kind = "static"
  BY BlankIs DEF TextsAreNamed
<1> HIDE DEF P, D, b, c
<1>3. /\ n \in Nat /\ Len(y) = n + 1 /\ y # << >> /\ y[n + 1] = c
      /\ (\A i \in 1 .. n : y[i] = P[i]) /\ Len(path) \in Nat
  BY <1>1, AppendProperties
<1>4. P = << >> \/ P[Len(P)].kind # "catchAll"
  <2> SUFFICES ASSUME P # << >>
               PROVE  P[n].kind # "catchAll"
    OBVIOUS
  <2>1. n \in 1 .. n
    BY <1>1, <1>3, EmptyIs
  <2>2. y[n] = P[n] /\ n \in DOMAIN y /\ n # Len(y)
    BY <1>1, <1>3, <2>1
  <2> QED
    BY <2>2 DEF Templates, WellFormed
<1>5. Below(P, path) <=> Len(path) >= n /\ \A i \in 1 .. n : Fits(i)
  BY <1>1, <1>4, UnderPrefix
<1>6. PathMatches(y, path) <=> Len(path) >= n /\ \A i \in 1 .. n : Fits(i)
  <2>1. Last(y).kind = "catchAll"
    BY <1>2, <1>3 DEF Last
  <2>2. PathMatches(y, path) <=>
          /\ Len(path) >= Len(y) - 1
          /\ \A i \in 1 .. Len(y) - 1 : SegmentMatches(y[i], path[i])
    BY <1>3, <2>1 DEF PathMatches
  <2>3. Len(y) - 1 = n
    BY <1>3
  <2> QED
    BY <1>3, <2>2, <2>3
<1>7. CASE x = P
  <2>1. PathMatches(x, path) <=> Len(path) = n /\ \A i \in 1 .. n : Fits(i)
    BY <1>1, <1>4, <1>7, FixedMatches
  <2> QED
    BY <1>3, <1>5, <1>6, <2>1 DEF P
<1>8. CASE x = Append(P, b)
  <2>1. /\ x \in Seq(D) /\ Len(x) = n + 1 /\ x[n + 1] = b
        /\ \A i \in 1 .. n : x[i] = P[i]
    BY <1>1, <1>8, AppendProperties
  <2>2. x[Len(x)].kind # "catchAll"
    BY <1>2, <2>1
  <2>3. PathMatches(x, path) <=>
          Len(path) = Len(x) /\ \A i \in 1 .. Len(x) : SegmentMatches(x[i], path[i])
    BY <2>1, <2>2, FixedMatches
  <2>4. PathMatches(x, path) => Len(path) >= n /\ \A i \in 1 .. n : Fits(i)
    <3>1. \A i \in 1 .. n : i \in 1 .. Len(x)
      BY <1>3, <2>1
    <3>2. Len(x) >= n
      BY <1>3, <2>1
    <3> QED
      BY <2>1, <2>3, <3>1, <3>2
  <2> QED
    BY <1>5, <1>6, <2>4 DEF P
<1> QED
  BY <1>1, <1>7, <1>8

-----------------------------------------------------------------------------
(* What a Mount yields to *)

(* No template is more specific than one of its own pattern, nor than one  *)
(* that is more specific than it.                                          *)
LEMMA SpecificityOrders ==
  ASSUME NEW x \in Seq(Seg), NEW y \in Seq(Seg), Len(x) <= SpecDepth, Len(y) <= SpecDepth
  PROVE  /\ ~(MoreSpecific(x, y) /\ MoreSpecific(y, x))
         /\ SamePattern(x, y) => ~MoreSpecific(x, y)
<1>1. \A v, w \in {x, y} : /\ Outranks(Specificity(v), Specificity(w)) <=> Ahead(Key(v), Key(w), 1)
                           /\ MoreSpecific(v, w) <=> Ahead(Key(v), Key(w), 1)
  BY AheadIs
<1>2. \A v, w \in {x, y} : /\ Specificity(v) \in [1 .. SpecDepth -> Int]
                           /\ SpecDepth \in Nat
  BY SpecificityTyped, BoundAssumption
<1>3. \A v, w \in {x, y} :
        ~(Outranks(Specificity(v), Specificity(w)) /\ Outranks(Specificity(w), Specificity(v)))
  BY <1>2, OutranksOrders
<1>4. ~(MoreSpecific(x, y) /\ MoreSpecific(y, x))
  BY <1>1, <1>3
<1>5. SamePattern(x, y) => Key(x) = Key(y)
  BY SameTemplate
<1>6. ~Ahead(Key(x), Key(x), 1)
  BY <1>1, <1>3
<1> QED
  BY <1>1, <1>4, <1>5, <1>6

-----------------------------------------------------------------------------
(* Groups, and the calls they make *)

(* What n groups can make of a prefix, more can.                           *)
LEMMA NestedGrow ==
  ASSUME NEW Nested, MaxGroups \in Nat, PrefixesNest(Nested), NEW n \in 0 .. MaxGroups
  PROVE  Nested[n] \subseteq Nested[MaxGroups]
<1> DEFINE T == {k \in 0 .. MaxGroups : Nested[MaxGroups - k] \subseteq Nested[MaxGroups]}
<1>1. 0 \in T
  <2>1. MaxGroups - 0 = MaxGroups
    OBVIOUS
  <2> QED
    BY <2>1
<1>2. ASSUME NEW k \in Nat, k < MaxGroups, k \in T
      PROVE  k + 1 \in T
  <2>1. /\ MaxGroups - k \in 1 .. MaxGroups /\ MaxGroups - (k + 1) = MaxGroups - k - 1
        /\ k + 1 \in 0 .. MaxGroups
    BY <1>2
  <2>2. Nested[MaxGroups - k - 1] \subseteq Nested[MaxGroups - k]
    BY <2>1 DEF PrefixesNest
  <2> QED
    BY <1>2, <2>1, <2>2
<1> HIDE DEF T
<1>3. \A k \in 0 .. MaxGroups : k \in T
  BY <1>1, <1>2, UpTo
<1>4. MaxGroups - n \in 0 .. MaxGroups /\ MaxGroups - (MaxGroups - n) = n
  OBVIOUS
<1> QED
  BY <1>3, <1>4 DEF T

(* The prefix and the hosts of a group are what the constants let them be. *)
GroupFits(Nested, gs, g) ==
    /\ At(gs, g).prefix \in Nested[Len(gs)] /\ At(gs, g).prefix \in Seq(NamedTokens)
    /\ At(gs, g).hosts \in HostLists \cup {<< >>}

GroupsFit(Nested, gs) ==
    Len(gs) <= MaxGroups /\ \A g \in 0 .. Len(gs) : GroupFits(Nested, gs, g)

(* The routes of a complete Mount, and those of one under way in which m   *)
(* is still to be done.                                                    *)
PairedIn(rs, M) ==
    /\ M.self \in DOMAIN rs /\ M.sub \in DOMAIN rs
    /\ rs[M.sub].method = MethodAny /\ rs[M.sub].hosts = rs[M.self].hosts
    /\ Continues(rs[M.self].segs, rs[M.sub].segs)

HostsGiven(gs, g, opts) == IF opts.hosts = <<Inherited>> THEN At(gs, g).hosts ELSE opts.hosts

HalfIn(gs, rs, M, m) ==
    /\ M.self \in DOMAIN rs /\ m.sub \in Texts /\ m.opts \in Options
    /\ rs[M.self].hosts = HostsGiven(gs, m.group, m.opts)
    /\ Continues(rs[M.self].segs, TemplateOf(JoinPrefix(At(gs, m.group).prefix, m.sub)))

PairsInv(Nested) ==
    /\ GroupsFit(Nested, groups)
    /\ \A k \in DOMAIN mounts : mounts[k].sub # NoRoute => PairedIn(routes, mounts[k])
    /\ mounting # << >> => HalfIn(groups, routes, mounts[Len(mounts)], mounting[1])

MountsInv(Nested) == TableInv /\ OrderInv /\ GInv /\ PairsInv(Nested)

(* What the theorem assumes of the constants that registrations depend on. *)
ConstantsNest(Nested) ==
    MaxGroups \in Nat /\ PrefixesNest(Nested) /\ CallsListed(Nested) /\ TextsAreNamed

LEMMA InitPairs ==
  ASSUME NEW Nested, ConstantsNest(Nested), Init
  PROVE  MountsInv(Nested)
<1>1. TableInv /\ OrderInv /\ GInv
  BY TableInvInit, OrderInvInit, InitGInv DEF Init
<1>2. groups = << >> /\ routes = << >> /\ mounts = << >> /\ mounting = << >>
  BY DEF Init, TableInit
<1>3. Len(groups) = 0 /\ DOMAIN routes = {} /\ DOMAIN mounts = {}
  BY <1>2
<1>4. GroupsFit(Nested, groups)
  <2>1. Root.prefix = << >> /\ Root.hosts = << >> /\ << >> \in Seq(NamedTokens)
    BY DEF Root
  <2>2. << >> \in Nested[0]
    BY DEF ConstantsNest, PrefixesNest
  <2>3. \A g \in 0 .. 0 : g = 0
    OBVIOUS
  <2>4. GroupFits(Nested, groups, 0)
    BY <1>3, <2>1, <2>2 DEF GroupFits, At
  <2>5. 0 <= MaxGroups
    BY DEF ConstantsNest
  <2> QED
    BY <1>3, <2>3, <2>4, <2>5 DEF GroupsFit
<1> QED
  BY <1>1, <1>2, <1>3, <1>4 DEF MountsInv, PairsInv

(* A group makes calls of the list.                                        *)
LEMMA CallMade ==
  ASSUME NEW Nested, ConstantsNest(Nested), MountsInv(Nested),
         NEW g \in Groups, NEW method \in Methods \cup {MethodAny}, NEW text \in Texts,
         NEW opts \in Options, NEW call, call = Declared(g, method, text, opts)
  PROVE  /\ call \in Calls /\ call.method = method
         /\ call.segs = TemplateOf(JoinPrefix(At(groups, g).prefix, text))
         /\ call.hosts = HostsGiven(groups, g, opts)
<1> DEFINE p == GroupAt(g).prefix
           hs == IF opts.hosts = <<Inherited>> THEN GroupAt(g).hosts ELSE opts.hosts
<1>1. GroupAt(g) = At(groups, g)
  BY DEF GroupAt, At
<1>2. g \in 0 .. Len(groups) /\ Len(groups) \in 0 .. MaxGroups
  BY GroupsAreRooted DEF MountsInv, PairsInv, GroupsFit, Rooted, ConstantsNest
<1>3. GroupFits(Nested, groups, g)
  BY <1>2 DEF MountsInv, PairsInv, GroupsFit
<1>4. p \in Nested[MaxGroups]
  BY <1>1, <1>2, <1>3, NestedGrow DEF GroupFits, ConstantsNest
<1>5. /\ opts.hosts \in HostLists \cup {<<Inherited>>}
      /\ opts.priority \in Priorities \cup {DefaultPriority}
  BY DEF Options
<1>6. hs \in HostLists \cup {<< >>}
  BY <1>1, <1>3, <1>5 DEF GroupFits
<1>7. call = [method |-> method, segs |-> TemplateOf(JoinPrefix(p, text)), hosts |-> hs,
              priority |-> opts.priority, name |-> NoName]
  BY DEF Declared
<1>8. hs = HostsGiven(groups, g, opts) /\ p = At(groups, g).prefix
  BY <1>1 DEF HostsGiven
<1> HIDE DEF p, hs
<1>9. call \in CallsUnder(p)
  BY <1>5, <1>6, <1>7 DEF CallsUnder
<1>10. call \in Calls
  BY <1>4, <1>9 DEF ConstantsNest, CallsListed
<1>11. /\ call.method = method /\ call.hosts = hs
       /\ call.segs = TemplateOf(JoinPrefix(p, text))
  BY <1>7
<1> QED
  BY <1>8, <1>10, <1>11

(* A call is recorded behind the others or leaves the routes alone; it is  *)
(* only recorded if its template has a leading slash.                      *)
Gains(call) ==
    /\ routes' = Append(routes, call) /\ Len(routes') = Len(routes) + 1
    /\ Len(routes') \in DOMAIN routes' /\ routes'[Len(routes')] = call
    /\ call.segs # << >>

LEMMA CallCounts ==
  ASSUME TableInv, OrderInv, NEW call \in Calls, Handle(call)
  PROVE  /\ TableInv' /\ OrderInv'
         /\ DOMAIN routes \subseteq DOMAIN routes'
         /\ \A i \in DOMAIN routes : routes'[i] = routes[i]
         /\ Accepted => Gains(call)
<1>1. TableInv' /\ OrderInv'
  BY TableStep, OrderStep
<1>2. PICK C : routes \in Seq(C)
  BY DEF TableInv, EntriesInv
<1>3. CASE routes' = Append(routes, call)
  <2>1. /\ Len(routes') = Len(routes) + 1 /\ DOMAIN routes' = 1 .. Len(routes) + 1
        /\ \A i \in 1 .. Len(routes) : routes'[i] = routes[i]
        /\ routes'[Len(routes) + 1] = call
        /\ DOMAIN routes = 1 .. Len(routes) /\ Len(routes) \in Nat
    BY <1>2, <1>3, AppendIs
  <2>2. DOMAIN routes \subseteq DOMAIN routes' /\ Len(routes') \in DOMAIN routes'
    BY <2>1
  <2>3. call.segs # << >>
    <3>1. routes' \in Seq(AcceptedCalls)
      BY <1>1 DEF TableInv, EntriesInv
    <3>2. routes'[Len(routes')] \in AcceptedCalls
      BY <2>2, <3>1
    <3> QED
      BY <2>1, <3>2 DEF AcceptedCalls, WellFormed
  <2>4. Gains(call)
    BY <1>3, <2>1, <2>2, <2>3 DEF Gains
  <2> QED
    BY <1>1, <2>1, <2>2, <2>4
<1>4. CASE routes' = routes
  BY <1>1, <1>4 DEF Accepted
<1> QED
  BY <1>3, <1>4, HandleOutcome

-----------------------------------------------------------------------------
(* MountsInv is inductive *)

(* Pairs stay pairs, and halves halves, while routes and groups come.      *)
LEMMA PairsStay ==
  ASSUME NEW rs, NEW ss, DOMAIN rs \subseteq DOMAIN ss, \A i \in DOMAIN rs : ss[i] = rs[i],
         NEW gs, NEW hs, NEW M, NEW m,
         /\ At(hs, m.group).prefix = At(gs, m.group).prefix
         /\ At(hs, m.group).hosts = At(gs, m.group).hosts
  PROVE  /\ PairedIn(rs, M) => PairedIn(ss, M)
         /\ HalfIn(gs, rs, M, m) => HalfIn(hs, ss, M, m)
<1>1. PairedIn(rs, M) => PairedIn(ss, M)
  BY DEF PairedIn
<1>2. HalfIn(gs, rs, M, m) => HalfIn(hs, ss, M, m)
  BY DEF HalfIn, HostsGiven
<1> QED
  BY <1>1, <1>2

(* A step that registers nothing.                                          *)
LEMMA OnlyGroups ==
  ASSUME NEW Nested, ConstantsNest(Nested), MountsInv(Nested), GInv',
         UNCHANGED <<tableVars, mounts, mounting>>, Extended(groups, groups'),
         GroupsFit(Nested, groups')
  PROVE  MountsInv(Nested)'
<1>1. TableInv' /\ OrderInv'
  BY TableStep, OrderStep DEF MountsInv
<1>2. routes' = routes /\ mounts' = mounts /\ mounting' = mounting
  BY DEF tableVars
<1>3. ASSUME mounting # << >>
      PROVE  HalfIn(groups', routes, mounts[Len(mounts)], mounting[1])
  <2> DEFINE m == mounting[1]
             M == mounts[Len(mounts)]
  <2>1. m.group \in 0 .. Len(groups)
    BY <1>3, GroupsAreRooted DEF MountsInv, GInv, MountInv
  <2>2. HalfIn(groups, routes, M, m)
    BY <1>3 DEF MountsInv, PairsInv
  <2> HIDE DEF m, M
  <2>3. /\ At(groups', m.group).prefix = At(groups, m.group).prefix
        /\ At(groups', m.group).hosts = At(groups, m.group).hosts
    BY <2>1, SameGroup
  <2>4. HalfIn(groups', routes, M, m)
    BY <2>2, <2>3, PairsStay
  <2> QED
    BY <2>4 DEF m, M
<1>4. PairsInv(Nested)'
  BY <1>2, <1>3 DEF MountsInv, PairsInv
<1> QED
  BY <1>1, <1>4 DEF MountsInv

(* A group more.                                                           *)
LEMMA OneMoreGroup ==
  ASSUME NEW Nested, ConstantsNest(Nested), MountsInv(Nested), GInv',
         UNCHANGED <<tableVars, mounts, mounting>>, Len(groups) < MaxGroups,
         NEW p \in Groups, NEW node, groups' = Append(groups, node),
         \/ node.prefix = GroupAt(p).prefix
         \/ \E t \in GroupPaths : node.prefix = JoinPrefix(GroupAt(p).prefix, t),
         node.hosts \in HostLists \cup {GroupAt(p).hosts}
  PROVE  MountsInv(Nested)'
<1> DEFINE n == Len(groups)
           S == NamedTokens
<1>1. PICK P, H : groups \in Seq(GroupShape(P, H))
  BY DEF MountsInv, GInv, ShapeInv
<1>2. /\ Len(groups') = n + 1 /\ (\A g \in 1 .. n : groups'[g] = groups[g])
      /\ groups'[n + 1] = node /\ n \in Nat
  BY <1>1, AppendIs
<1>3. Rooted(groups) /\ Rooted(groups') /\ p \in 0 .. n
  <2>1. Rooted(groups')
    BY StillRooted
  <2> QED
    BY <2>1, GroupsAreRooted DEF MountsInv
<1>4. Extended(groups, groups')
  BY <1>2, <1>3 DEF Extended
<1>5. \A g \in 0 .. n : GroupFits(Nested, groups, g)
  BY DEF MountsInv, PairsInv, GroupsFit
<1>6. /\ \A x \in Nested[n] : x \in Nested[n + 1]
      /\ \A x \in Nested[n], t \in GroupPaths : JoinPrefix(x, t) \in Nested[n + 1]
      /\ n + 1 <= MaxGroups
  <2>1. n + 1 \in 1 .. MaxGroups /\ n + 1 - 1 = n
    BY <1>2 DEF ConstantsNest
  <2> QED
    BY <2>1 DEF ConstantsNest, PrefixesNest
<1>7. ASSUME NEW g \in 0 .. n
      PROVE  GroupFits(Nested, groups', g)
  <2>1. At(groups', g) = At(groups, g)
    BY <1>2 DEF At
  <2>2. GroupFits(Nested, groups, g)
    BY <1>5
  <2> QED
    BY <1>2, <1>6, <2>1, <2>2 DEF GroupFits
<1>8. GroupFits(Nested, groups', n + 1)
  <2> DEFINE x == At(groups, p).prefix
  <2>1. At(groups', n + 1) = node /\ GroupAt(p) = At(groups, p)
    BY <1>2 DEF At, GroupAt
  <2>2. x \in Nested[n] /\ x \in Seq(S) /\ At(groups, p).hosts \in HostLists \cup {<< >>}
    BY <1>3, <1>5 DEF GroupFits
  <2>3. node.prefix \in Nested[n + 1] /\ node.prefix \in Seq(S)
    <3>1. CASE node.prefix = x
      BY <1>6, <2>2, <3>1
    <3>2. ASSUME NEW t \in GroupPaths, node.prefix = JoinPrefix(x, t)
          PROVE  node.prefix \in Nested[n + 1] /\ node.prefix \in Seq(S)
      <4>1. t \in Seq(S) /\ "/" \in S
        BY NamedTexts DEF ConstantsNest
      <4>2. JoinPrefix(x, t) \in Seq(S)
        <5> HIDE DEF x, S
        <5> QED
          BY <2>2, <4>1, JoinExtends
      <4> QED
        BY <1>6, <2>2, <3>2, <4>2
    <3> QED
      BY <2>1, <3>1, <3>2
  <2>4. node.hosts \in HostLists \cup {<< >>}
    BY <2>1, <2>2
  <2> QED
    BY <1>2, <2>1, <2>3, <2>4 DEF GroupFits
<1>9. GroupsFit(Nested, groups')
  <2>1. \A g \in 0 .. n + 1 : g \in 0 .. n \/ g = n + 1
    BY <1>2
  <2> QED
    BY <1>2, <1>6, <1>7, <1>8, <2>1 DEF GroupsFit
<1> QED
  BY <1>4, <1>9, OnlyGroups

(* No group and no route more.                                             *)
LEMMA NothingMore ==
  ASSUME NEW Nested, ConstantsNest(Nested), MountsInv(Nested), GInv',
         UNCHANGED <<tableVars, mounts, mounting>>, Len(groups') = Len(groups),
         \A g \in 1 .. Len(groups) :
           /\ groups'[g].parent = groups[g].parent /\ groups'[g].prefix = groups[g].prefix
           /\ groups'[g].hosts = groups[g].hosts /\ groups'[g].declares = groups[g].declares
  PROVE  MountsInv(Nested)'
<1>1. Rooted(groups) /\ Rooted(groups')
  BY GroupsAreRooted, StillRooted DEF MountsInv
<1>2. Extended(groups, groups')
  BY <1>1 DEF Extended, Rooted
<1>3. GroupsFit(Nested, groups')
  <2>1. ASSUME NEW g \in 0 .. Len(groups)
        PROVE  GroupFits(Nested, groups', g)
    <3>1. GroupFits(Nested, groups, g)
      BY DEF MountsInv, PairsInv, GroupsFit
    <3>2. /\ At(groups', g).prefix = At(groups, g).prefix
          /\ At(groups', g).hosts = At(groups, g).hosts
      BY <1>2, SameGroup
    <3> QED
      BY <3>1, <3>2 DEF GroupFits
  <2> QED
    BY <2>1 DEF MountsInv, PairsInv, GroupsFit
<1> QED
  BY <1>2, <1>3, OnlyGroups

(* A registration.                                                         *)
LEMMA OnlyRoutes ==
  ASSUME NEW Nested, ConstantsNest(Nested), MountsInv(Nested),
         NEW g \in Groups, NEW method \in Methods \cup {MethodAny}, NEW text \in Texts,
         NEW opts \in Options, NEW own,
         Registered(g, method, text, opts, own), groups' = groups,
         NEW call, call = Declared(g, method, text, opts)
  PROVE  /\ TableInv' /\ OrderInv' /\ GroupsFit(Nested, groups')
         /\ \A i \in DOMAIN routes : i \in DOMAIN routes' /\ routes'[i] = routes[i]
         /\ \A M : PairedIn(routes, M) => PairedIn(routes', M)
         /\ \A M, m : HalfIn(groups, routes, M, m) => HalfIn(groups', routes', M, m)
         /\ Accepted => Gains(call)
<1>1. call \in Calls /\ Handle(call)
  <2>1. Handle(call)
    BY DEF Registered
  <2>2. call \in Calls
    BY CallMade
  <2> QED
    BY <2>1, <2>2
<1>2. /\ TableInv' /\ OrderInv'
      /\ DOMAIN routes \subseteq DOMAIN routes'
      /\ \A i \in DOMAIN routes : routes'[i] = routes[i]
      /\ Accepted => Gains(call)
  <2>1. TableInv /\ OrderInv
    BY DEF MountsInv
  <2> QED
    BY <1>1, <2>1, CallCounts
<1>3. ASSUME NEW M, NEW m
      PROVE  /\ PairedIn(routes, M) => PairedIn(routes', M)
             /\ HalfIn(groups, routes, M, m) => HalfIn(groups', routes', M, m)
  <2>1. /\ At(groups', m.group).prefix = At(groups, m.group).prefix
        /\ At(groups', m.group).hosts = At(groups, m.group).hosts
    OBVIOUS
  <2> QED
    BY <1>2, <2>1, PairsStay
<1>4. GroupsFit(Nested, groups')
  BY DEF MountsInv, PairsInv
<1>5. \A i \in DOMAIN routes : i \in DOMAIN routes' /\ routes'[i] = routes[i]
  BY <1>2
<1>6. /\ \A M : PairedIn(routes, M) => PairedIn(routes', M)
      /\ \A M, m : HalfIn(groups, routes, M, m) => HalfIn(groups', routes', M, m)
  BY <1>3, Zenon
<1> QED
  BY <1>2, <1>4, <1>5, <1>6, Zenon

LEMMA HandleInPairs ==
  ASSUME NEW Nested, ConstantsNest(Nested), MountsInv(Nested), GInv',
         NEW g \in Groups, NEW method \in Methods, NEW text \in Patterns,
         NEW opts \in Options, NEW own, HandleIn(g, method, text, opts, own)
  PROVE  MountsInv(Nested)'
<1>1. /\ Registered(g, method, text, opts, own)
      /\ groups' = groups /\ mounts' = mounts /\ mounting' = mounting
  BY DEF HandleIn
<1>2. PICK call : call = Declared(g, method, text, opts)
  OBVIOUS
<1>3. text \in Texts /\ method \in Methods \cup {MethodAny}
  BY DEF Texts
<1>4. /\ TableInv' /\ OrderInv' /\ GroupsFit(Nested, groups')
      /\ \A M : PairedIn(routes, M) => PairedIn(routes', M)
      /\ \A M, m : HalfIn(groups, routes, M, m) => HalfIn(groups', routes', M, m)
  BY <1>1, <1>2, <1>3, OnlyRoutes
<1>5. PairsInv(Nested)'
  BY <1>1, <1>4 DEF MountsInv, PairsInv
<1> QED
  BY <1>4, <1>5 DEF MountsInv

(* The first half of a Mount: what is under way would continue it.         *)
LEMMA HalfBegins ==
  ASSUME NEW Nested, ConstantsNest(Nested), MountsInv(Nested),
         NEW g \in Groups, NEW prefix \in MountPoints,
         TemplateOf(JoinPrefix(At(groups, g).prefix, MountPatterns(prefix).self)) # << >>
  PROVE  Continues(TemplateOf(JoinPrefix(At(groups, g).prefix, MountPatterns(prefix).self)),
                   TemplateOf(JoinPrefix(At(groups, g).prefix, MountPatterns(prefix).sub)))
<1> DEFINE S == NamedTokens
           p == At(groups, g).prefix
           both == MountPatterns(prefix)
           f == JoinPrefix(p, both.self)
           w == JoinPrefix(p, both.sub)
<1>1. TextsAreNamed /\ "/" \in S /\ MountParam \in S /\ prefix \in Seq(S)
  BY NamedTexts DEF ConstantsNest
<1>2. p \in Seq(S)
  BY GroupsAreRooted DEF MountsInv, PairsInv, GroupsFit, GroupFits
<1>3. both.self \in Seq(S)
  BY <1>1, MountTexts
<1>4. \E R : Rooting(S, R, both)
  BY <1>1, MountRoots
<1>5. f \in Seq(S)
  <2> HIDE DEF S, p, both
  <2> QED
    BY <1>1, <1>2, <1>3, JoinExtends
<1>6. Hangs(S, f, w)
  <2> HIDE DEF S, p, both
  <2> QED
    BY <1>1, <1>2, <1>4, JoinedHangs
<1>7. Starts(S, f)
  <2>1. f # << >> => Head(f) = f[1]
    BY <1>5
  <2>2. StartsInSlash(f)
    BY DEF TemplateOf
  <2> QED
    BY <2>1, <2>2 DEF StartsInSlash, Starts, IsSlash
<1> HIDE DEF f, w
<1>8. /\ TemplateOf(w) = Append(SegmentsOf(TemplateOf(f)), Segment(MountParam))
      /\ TemplateOf(f) = SegmentsOf(TemplateOf(f))
           \/ TemplateOf(f) = Append(SegmentsOf(TemplateOf(f)), Blank)
      /\ SegmentsOf(TemplateOf(f)) \in Seq(Pieces)
  BY <1>1, <1>5, <1>6, <1>7, TemplateHangs
<1>9. Continues(TemplateOf(f), TemplateOf(w))
  BY <1>8 DEF Continues
<1> QED
  BY <1>9 DEF f, w

LEMMA MountSelfPairs ==
  ASSUME NEW Nested, ConstantsNest(Nested), MountsInv(Nested), GInv',
         NEW g \in Groups, NEW prefix \in MountPoints, NEW opts \in Options,
         MountSelf(g, prefix, opts)
  PROVE  MountsInv(Nested)'
<1> DEFINE both == MountPatterns(prefix)
           new == [self |-> Len(routes'), sub |-> NoRoute]
           m == [group |-> g, sub |-> both.sub, opts |-> opts]
<1>1. /\ Registered(g, MethodAny, both.self, opts, << >>) /\ groups' = groups
      /\ mounting' = IF Accepted THEN <<m>> ELSE << >>
      /\ mounts' = IF Accepted THEN Append(mounts, new) ELSE mounts
  BY DEF MountSelf
<1>2. new.self = Len(routes') /\ new.sub = NoRoute /\ m.group = g /\ m.sub = both.sub
      /\ m.opts = opts
  OBVIOUS
<1>3. both.self \in Texts /\ both.sub \in Texts
  BY DEF Texts
<1>4. MethodAny \in Methods \cup {MethodAny}
  OBVIOUS
<1>5. PICK call : call = Declared(g, MethodAny, both.self, opts)
  OBVIOUS
<1> HIDE DEF both, new, m
<1>6. /\ TableInv' /\ OrderInv' /\ GroupsFit(Nested, groups')
      /\ \A M : PairedIn(routes, M) => PairedIn(routes', M)
      /\ Accepted => Gains(call)
  BY <1>1, <1>3, <1>4, <1>5, OnlyRoutes
<1>7. /\ call.segs = TemplateOf(JoinPrefix(At(groups, g).prefix, both.self))
      /\ call.hosts = HostsGiven(groups, g, opts)
  BY <1>3, <1>4, <1>5, CallMade
<1>8. mounts \in Seq(Pair)
  BY DEF MountsInv, GInv, MountInv
<1>9. \A k \in DOMAIN mounts : mounts[k].sub # NoRoute => PairedIn(routes', mounts[k])
  BY <1>6 DEF MountsInv, PairsInv
<1>10. CASE ~Accepted
  <2>1. mounting' = << >> /\ mounts' = mounts
    BY <1>1, <1>10
  <2>2. PairsInv(Nested)'
    BY <1>6, <1>9, <2>1 DEF PairsInv
  <2> QED
    BY <1>6, <2>2 DEF MountsInv
<1>11. CASE Accepted
  <2>1. mounting' = <<m>> /\ mounts' = Append(mounts, new)
    BY <1>1, <1>11
  <2>2. /\ mounting'[1] = m /\ mounts'[Len(mounts')] = new
        /\ \A k \in DOMAIN mounts' : \/ k \in DOMAIN mounts /\ mounts'[k] = mounts[k]
                                     \/ mounts'[k] = new
    <3>1. /\ Len(mounts') = Len(mounts) + 1 /\ DOMAIN mounts' = 1 .. Len(mounts) + 1
          /\ \A k \in 1 .. Len(mounts) : mounts'[k] = mounts[k]
          /\ mounts'[Len(mounts) + 1] = new
      BY <1>8, <2>1, AppendIs
    <3>2. DOMAIN mounts = 1 .. Len(mounts) /\ Len(mounts) \in Nat
      BY <1>8
    <3>3. \A k \in 1 .. Len(mounts) + 1 : k \in 1 .. Len(mounts) \/ k = Len(mounts) + 1
      BY <3>2
    <3>4. mounting'[1] = m
      BY <2>1
    <3> QED
      BY <3>1, <3>2, <3>3, <3>4
  <2>3. /\ Len(routes') \in DOMAIN routes' /\ routes'[Len(routes')] = call
        /\ call.segs # << >>
    BY <1>6, <1>11 DEF Gains
  <2>4. Continues(call.segs, TemplateOf(JoinPrefix(At(groups, g).prefix, both.sub)))
    BY <1>7, <2>3, HalfBegins DEF both
  <2>5. HalfIn(groups', routes', new, m)
    BY <1>1, <1>2, <1>3, <1>7, <2>3, <2>4 DEF HalfIn, HostsGiven
  <2>6. \A k \in DOMAIN mounts' : mounts'[k].sub # NoRoute => PairedIn(routes', mounts'[k])
    BY <1>2, <1>9, <2>2
  <2>7. HalfIn(groups', routes', mounts'[Len(mounts')], mounting'[1])
    BY <2>2, <2>5
  <2>8. PairsInv(Nested)'
    BY <1>6, <2>6, <2>7 DEF PairsInv
  <2> QED
    BY <1>6, <2>8 DEF MountsInv
<1> QED
  BY <1>10, <1>11

(* The second half makes it a pair.                                        *)
LEMMA MountSubPairs ==
  ASSUME NEW Nested, ConstantsNest(Nested), MountsInv(Nested), GInv', MountSub
  PROVE  MountsInv(Nested)'
<1> DEFINE m == mounting[1]
           n == Len(mounts)
<1>1. /\ Registered(m.group, MethodAny, m.sub, m.opts, << >>) /\ groups' = groups
      /\ mounting # << >> /\ mounting' = << >>
      /\ mounts' = IF Accepted THEN [mounts EXCEPT ![n].sub = Len(routes')] ELSE mounts
  BY DEF MountSub
<1>2. /\ m.group \in Groups /\ n \in DOMAIN mounts /\ mounts \in Seq(Pair)
      /\ HalfIn(groups, routes, mounts[n], m)
  <2>1. mounting # << >> => HalfIn(groups, routes, mounts[Len(mounts)], mounting[1])
    BY DEF MountsInv, PairsInv
  <2>2. m.group \in Groups /\ mounts # << >> /\ mounts \in Seq(Pair)
    BY <1>1 DEF MountsInv, GInv, MountInv
  <2> QED
    BY <1>1, <2>1, <2>2
<1> HIDE DEF m
<1>3. m.sub \in Texts
  BY <1>2 DEF HalfIn
<1>4. MethodAny \in Methods \cup {MethodAny} /\ m.opts \in Options
  BY <1>2 DEF HalfIn
<1>5. PICK call : call = Declared(m.group, MethodAny, m.sub, m.opts)
  OBVIOUS
<1>6. /\ TableInv' /\ OrderInv' /\ GroupsFit(Nested, groups')
      /\ \A i \in DOMAIN routes : i \in DOMAIN routes' /\ routes'[i] = routes[i]
      /\ \A M : PairedIn(routes, M) => PairedIn(routes', M)
      /\ Accepted => Gains(call)
  BY <1>1, <1>2, <1>3, <1>4, <1>5, OnlyRoutes
<1>7. /\ call.segs = TemplateOf(JoinPrefix(At(groups, m.group).prefix, m.sub))
      /\ call.hosts = HostsGiven(groups, m.group, m.opts) /\ call.method = MethodAny
  <2>1. m.group \in Groups
    BY <1>2
  <2>2. PICK g \in Groups, text \in Texts, opts \in Options :
          g = m.group /\ text = m.sub /\ opts = m.opts
    BY <1>3, <1>4, <2>1
  <2>3. call = Declared(g, MethodAny, text, opts)
    BY <1>5, <2>2
  <2>4. /\ call.segs = TemplateOf(JoinPrefix(At(groups, g).prefix, text))
        /\ call.hosts = HostsGiven(groups, g, opts) /\ call.method = MethodAny
    BY <1>4, <2>3, CallMade
  <2> QED
    BY <2>2, <2>4
<1>8. \A k \in DOMAIN mounts : mounts[k].sub # NoRoute => PairedIn(routes', mounts[k])
  BY <1>6 DEF MountsInv, PairsInv
<1>9. CASE ~Accepted
  <2>1. mounting' = << >> /\ mounts' = mounts
    BY <1>1, <1>9
  <2>2. PairsInv(Nested)'
    BY <1>6, <1>8, <2>1 DEF PairsInv
  <2> QED
    BY <1>6, <2>2 DEF MountsInv
<1>10. CASE Accepted
  <2>1. mounts' = [mounts EXCEPT ![n].sub = Len(routes')]
    BY <1>1, <1>10
  <2> HIDE DEF n
  <2>2. /\ DOMAIN mounts' = DOMAIN mounts
        /\ mounts'[n].self = mounts[n].self /\ mounts'[n].sub = Len(routes')
        /\ \A k \in DOMAIN mounts : k # n => mounts'[k] = mounts[k]
    <3>1. mounts[n] \in Pair
      BY <1>2
    <3> QED
      BY <1>2, <2>1, <3>1 DEF Pair
  <2>3. /\ Len(routes') \in DOMAIN routes' /\ routes'[Len(routes')] = call
    BY <1>6, <1>10 DEF Gains
  <2>4. PairedIn(routes', mounts'[n])
    <3>1. /\ mounts[n].self \in DOMAIN routes
          /\ routes[mounts[n].self].hosts = HostsGiven(groups, m.group, m.opts)
          /\ Continues(routes[mounts[n].self].segs,
                       TemplateOf(JoinPrefix(At(groups, m.group).prefix, m.sub)))
      BY <1>2 DEF HalfIn
    <3> QED
      BY <1>6, <1>7, <2>2, <2>3, <3>1 DEF PairedIn
  <2>5. \A k \in DOMAIN mounts' : mounts'[k].sub # NoRoute => PairedIn(routes', mounts'[k])
    BY <1>8, <2>2, <2>4
  <2>6. PairsInv(Nested)'
    BY <1>1, <1>6, <2>5 DEF PairsInv
  <2> QED
    BY <1>6, <2>6 DEF MountsInv
<1> QED
  BY <1>9, <1>10

LEMMA NextMountsInv ==
  ASSUME NEW Nested, ConstantsNest(Nested), MountsInv(Nested), [Next]_vars
  PROVE  MountsInv(Nested)'
<1>0. GInv'
  BY NextGInv DEF MountsInv
<1>1. ASSUME NEW p \in Groups, NEW prefix \in GroupPaths, NEW own, NewGroup(p, prefix, own)
      PROVE  MountsInv(Nested)'
  <2> DEFINE node == [parent |-> p, prefix |-> JoinPrefix(GroupAt(p).prefix, prefix),
                      hosts |-> GroupAt(p).hosts, own |-> own, declares |-> FALSE]
  <2>1. /\ groups' = Append(groups, node) /\ UNCHANGED <<tableVars, mounts, mounting>>
        /\ Len(groups) < MaxGroups
    BY <1>1 DEF NewGroup
  <2>2. node.prefix = JoinPrefix(GroupAt(p).prefix, prefix) /\ node.hosts = GroupAt(p).hosts
    OBVIOUS
  <2> HIDE DEF node
  <2> QED
    BY <1>0, <2>1, <2>2, OneMoreGroup
<1>2. ASSUME NEW p \in Groups, NEW hosts \in HostLists, Host(p, hosts)
      PROVE  MountsInv(Nested)'
  <2> DEFINE node == [parent |-> p, prefix |-> GroupAt(p).prefix, hosts |-> hosts,
                      own |-> << >>, declares |-> TRUE]
  <2>1. /\ groups' = Append(groups, node) /\ UNCHANGED <<tableVars, mounts, mounting>>
        /\ Len(groups) < MaxGroups
    BY <1>2 DEF Host
  <2>2. node.prefix = GroupAt(p).prefix /\ node.hosts = hosts
    OBVIOUS
  <2> HIDE DEF node
  <2> QED
    BY <1>0, <2>1, <2>2, OneMoreGroup
<1>3. ASSUME NEW g \in Groups \ {0}, GroupUse(g)
      PROVE  MountsInv(Nested)'
  <2>1. /\ groups' = [groups EXCEPT ![g].own = Append(@, NextMw)]
        /\ UNCHANGED <<tableVars, mounts, mounting>>
    BY <1>3 DEF GroupUse
  <2>2. PICK P, H : groups \in Seq(GroupShape(P, H))
    BY DEF MountsInv, GInv, ShapeInv
  <2>3. g \in DOMAIN groups
    BY <1>3, GroupUseTypes DEF MountsInv
  <2>4. /\ Len(groups') = Len(groups)
        /\ \A h \in 1 .. Len(groups) :
             /\ groups'[h].parent = groups[h].parent /\ groups'[h].prefix = groups[h].prefix
             /\ groups'[h].hosts = groups[h].hosts /\ groups'[h].declares = groups[h].declares
    <3> DEFINE x == [groups[g] EXCEPT !.own = Append(@, NextMw)]
    <3>1. /\ x.parent = groups[g].parent /\ x.prefix = groups[g].prefix
          /\ x.hosts = groups[g].hosts /\ x.declares = groups[g].declares
      BY <2>2, <2>3 DEF GroupShape
    <3>2. groups' = [groups EXCEPT ![g] = x]
      BY <2>1
    <3> HIDE DEF x
    <3>3. Len(groups') = Len(groups)
          /\ \A h \in 1 .. Len(groups) : groups'[h] = IF h = g THEN x ELSE groups[h]
      BY <2>2, <3>2
    <3> QED
      BY <3>1, <3>3
  <2> QED
    BY <1>0, <2>1, <2>4, NothingMore
<1>4. ASSUME NEW g \in Groups, NEW m \in Methods, NEW text \in Patterns,
             NEW opts \in Options, NEW own, HandleIn(g, m, text, opts, own)
      PROVE  MountsInv(Nested)'
  BY <1>0, <1>4, HandleInPairs
<1>5. ASSUME NEW g \in Groups, NEW prefix \in MountPoints, NEW opts \in Options,
             MountSelf(g, prefix, opts)
      PROVE  MountsInv(Nested)'
  BY <1>0, <1>5, MountSelfPairs
<1>6. ASSUME MountSub
      PROVE  MountsInv(Nested)'
  BY <1>0, <1>6, MountSubPairs
<1>7. ASSUME groups' = groups, UNCHANGED <<tableVars, mounts, mounting>>
      PROVE  MountsInv(Nested)'
  BY <1>0, <1>7, NothingMore
<1>8. ASSUME RouterUse \/ BuilderUse \/ Install \/ Recompile \/ UNCHANGED vars
      PROVE  MountsInv(Nested)'
  <2>1. groups' = groups /\ UNCHANGED <<tableVars, mounts, mounting>>
    BY <1>8 DEF RouterUse, BuilderUse, Install, Recompile, vars, groupVars
  <2> QED
    BY <1>7, <2>1
<1> QED
  BY <1>1, <1>2, <1>3, <1>4, <1>5, <1>6, <1>8 DEF Next

-----------------------------------------------------------------------------
(* What overrules a route *)

(* A template that matches a path has the path's own text wherever it has  *)
(* text at all.                                                            *)
LEMMA TextIsOfPath ==
  ASSUME NEW x \in Templates, NEW S, NEW path \in Seq(S), PathMatches(x, path),
         NEW i \in 1 .. Len(x), x[i].kind = "static"
  PROVE  x[i].text = path[i]
<1>1. x \in Seq(Seg) /\ x # << >> /\ Len(x) \in Nat
  BY DEF Templates, WellFormed
<1>2. SegmentMatches(x[i], path[i])
  <2>1. CASE Last(x).kind = "catchAll"
    <3>1. i # Len(x)
      BY <2>1 DEF Last
    <3>2. i \in 1 .. Len(x) - 1
      BY <1>1, <3>1
    <3> QED
      BY <1>1, <2>1, <3>2 DEF PathMatches
  <2>2. CASE Last(x).kind # "catchAll"
    BY <1>1, <2>2 DEF PathMatches
  <2> QED
    BY <2>1, <2>2
<1> QED
  BY <1>2 DEF SegmentMatches

(* What a segment is, its rank tells; past the end nothing ranks alike.    *)
LEMMA RankTells ==
  ASSUME NEW x \in Seq(Seg), NEW i \in Nat \ {0}
  PROVE  /\ i > Len(x) <=> Rank(x, i) = 2
         /\ ~(i > Len(x)) => /\ x[i].kind = "static" <=> Rank(x, i) = 5
                             /\ x[i].kind = "param" <=> Rank(x, i) = 3
                             /\ x[i].kind = "catchAll" <=> Rank(x, i) = 1
                             /\ x[i].kind \in {"static", "param", "catchAll"}
<1>1. CASE i > Len(x)
  BY <1>1 DEF Rank
<1>2. CASE ~(i > Len(x))
  <2>1. i \in 1 .. Len(x) /\ x[i] \in Seg
    BY <1>2
  <2>2. x[i].kind \in {"static", "param", "catchAll"}
    BY <2>1, SegKind
  <2>3. CASE x[i].kind = "static"
    <3>1. Rank(x, i) = 5
      BY Zenon, <1>2, <2>3 DEF Rank
    <3> QED
      BY <1>2, <2>3, <3>1
  <2>4. CASE x[i].kind = "param"
    <3>1. x[i] \in Params
      BY <2>1, <2>4 DEF Params
    <3>2. ~Checked(x[i])
      BY <3>1, ParamFacts
    <3>3. Rank(x, i) = 3
      BY Zenon, <1>2, <2>4, <3>2 DEF Rank
    <3> QED
      BY <1>2, <2>4, <3>3
  <2>5. CASE x[i].kind = "catchAll"
    <3>1. Rank(x, i) = 1
      BY Zenon, <1>2, <2>5 DEF Rank
    <3> QED
      BY <1>2, <2>5, <3>1
  <2> QED
    BY <2>2, <2>3, <2>4, <2>5
<1> QED
  BY <1>1, <1>2

(* Of two patterns that match one path, one is more specific.              *)
LEMMA NoTie ==
  ASSUME NEW x \in Templates, NEW y \in Templates, Len(x) <= SpecDepth, Len(y) <= SpecDepth,
         NEW S, NEW path \in Seq(S), PathMatches(x, path), PathMatches(y, path)
  PROVE  SamePattern(x, y) \/ MoreSpecific(x, y) \/ MoreSpecific(y, x)
<1> SUFFICES ASSUME ~MoreSpecific(x, y), ~MoreSpecific(y, x)
             PROVE  SamePattern(x, y)
  OBVIOUS
<1>1. /\ x \in Seq(Seg) /\ y \in Seq(Seg) /\ SpecDepth \in Nat
      /\ Len(x) \in Nat /\ Len(y) \in Nat
  BY BoundAssumption DEF Templates
<1>2. Specificity(x) = Specificity(y)
  <2>1. ~Outranks(Specificity(x), Specificity(y)) /\ ~Outranks(Specificity(y), Specificity(x))
    BY <1>1, AheadIs
  <2>2. /\ Specificity(x) \in [1 .. SpecDepth -> Int]
        /\ Specificity(y) \in [1 .. SpecDepth -> Int]
    BY <1>1, SpecificityTyped
  <2> QED
    BY <1>1, <2>1, <2>2, OutranksOrders
<1>3. \A i \in 1 .. SpecDepth : Rank(x, i) = Rank(y, i)
  BY <1>2 DEF Specificity
<1>4. Len(x) = Len(y)
  <2>1. ASSUME NEW v \in {x, y}, NEW w \in {x, y}
        PROVE  ~(Len(v) < Len(w))
    <3> SUFFICES ASSUME Len(v) < Len(w)
                 PROVE  FALSE
      OBVIOUS
    <3>1. Len(v) + 1 \in 1 .. SpecDepth /\ Len(v) + 1 > Len(v) /\ ~(Len(v) + 1 > Len(w))
      BY <1>1
    <3>2. Rank(v, Len(v) + 1) = Rank(w, Len(v) + 1)
      BY <1>3, <3>1
    <3> QED
      BY <1>1, <3>1, <3>2, RankTells
  <2> QED
    BY <1>1, <2>1
<1>5. ASSUME NEW i \in 1 .. Len(x)
      PROVE  /\ x[i].kind = y[i].kind /\ x[i].type = y[i].type
             /\ x[i].kind = "static" => x[i].text = y[i].text
  <2>1. /\ i \in Nat \ {0} /\ ~(i > Len(x)) /\ ~(i > Len(y)) /\ i \in 1 .. SpecDepth
        /\ i \in 1 .. Len(y)
    BY <1>1, <1>4
  <2>2. x[i].kind = y[i].kind
    <3>1. Rank(x, i) = Rank(y, i)
      BY <1>3, <2>1
    <3> QED
      BY <1>1, <2>1, <3>1, RankTells
  <2>3. x[i] \in Seg /\ y[i] \in Seg
    BY <1>1, <2>1
  <2>4. x[i].type = y[i].type
    <3>1. \A s \in Seg : s.type = IF s.kind = "catchAll" THEN "..." ELSE ""
      BY DEF Seg
    <3> QED
      BY <2>2, <2>3, <3>1
  <2>5. ASSUME x[i].kind = "static"
        PROVE  x[i].text = y[i].text
    <3>1. x[i].text = path[i]
      BY <2>5, TextIsOfPath
    <3>2. i \in 1 .. Len(y) /\ y[i].kind = "static"
      BY <2>1, <2>2, <2>5
    <3>3. y[i].text = path[i]
      BY <3>2, TextIsOfPath
    <3> QED
      BY <3>1, <3>3
  <2> QED
    BY <2>2, <2>4, <2>5
<1> QED
  BY <1>4, <1>5 DEF SamePattern

(* A pattern has one priority, whichever of its routes is asked.           *)
LEMMA PatternPriority ==
  ASSUME TableInv, OrderInv, NEW i \in DOMAIN routes, NEW j \in DOMAIN routes
  PROVE  /\ PriorityOf(routes, i) \in Int
         /\ SamePattern(routes[i].segs, routes[j].segs)
              => PriorityOf(routes, i) = PriorityOf(routes, j)
<1>1. routes[i].segs \in Seq(Seg) /\ routes[j].segs \in Seq(Seg)
  BY RouteFacts DEF Templates
<1>2. PICK e \in DOMAIN entries : Key(entries[e].segs) = Key(routes[i].segs)
  BY DEF TableInv, EntriesInv
<1>3. PriorityOf(routes, i) = entries[e].priority
  BY <1>2, PriorityIs
<1>4. PriorityOf(routes, i) \in Int
  <2>1. entries[e] \in Entry
    BY EntryFacts
  <2> QED
    BY <1>3, <2>1 DEF Entry
<1>5. ASSUME SamePattern(routes[i].segs, routes[j].segs)
      PROVE  PriorityOf(routes, i) = PriorityOf(routes, j)
  <2>1. Key(routes[j].segs) = Key(entries[e].segs)
    BY <1>1, <1>2, <1>5, SameTemplate
  <2> QED
    BY <1>3, <2>1, PriorityIs
<1> QED
  BY <1>4, <1>5

(* Of two routes that serve a request, one is preferred for the reasons    *)
(* that overrule the other, and for no others.                             *)
LEMMA PreferredOverrules ==
  ASSUME TableInv, OrderInv, WithinDepth, NEW S, NEW q, q.path \in Seq(S),
         NEW i \in Able(routes, q), NEW j \in Able(routes, q)
  PROVE  /\ Preferred(routes, i, j, q) <=> Overrules(i, j, q)
         /\ i = j => ~Overrules(i, j, q)
<1>1. PICK x, y, g, h : /\ x = routes[i].segs /\ y = routes[j].segs
                        /\ g = BestHost(routes, i, q) /\ h = BestHost(routes, j, q)
  OBVIOUS
<1>2. /\ i \in DOMAIN routes /\ j \in DOMAIN routes
      /\ PathMatches(x, q.path) /\ PathMatches(y, q.path)
  BY <1>1 DEF Able, Serves, OnPathAndHost
<1>3. /\ x \in Templates /\ y \in Templates /\ x \in Seq(Seg) /\ y \in Seq(Seg)
      /\ Len(x) <= SpecDepth /\ Len(y) <= SpecDepth
  BY <1>1, <1>2, RouteFacts DEF Templates, WithinDepth
<1>4. /\ PriorityOf(routes, i) \in Int /\ PriorityOf(routes, j) \in Int
      /\ SamePattern(x, y) => PriorityOf(routes, i) = PriorityOf(routes, j)
  BY <1>1, <1>2, PatternPriority
<1>5. /\ SamePattern(x, y) \/ MoreSpecific(x, y) \/ MoreSpecific(y, x)
      /\ SamePattern(x, y) => ~MoreSpecific(x, y)
  BY <1>2, <1>3, NoTie, SpecificityOrders
<1>6. Overrules(i, j, q) <=>
        \/ PriorityOf(routes, i) < PriorityOf(routes, j)
        \/ PriorityOf(routes, i) = PriorityOf(routes, j) /\ MoreSpecific(x, y)
        \/ SamePattern(x, y) /\ g # h /\ HostBefore(routes, i, g, h)
        \/ SamePattern(x, y) /\ g = h
             /\ MethodRank(routes[i].method, q.method) > MethodRank(routes[j].method, q.method)
  BY <1>1 DEF Overrules
<1>7. Preferred(routes, i, j, q) <=> Overrules(i, j, q)
  <2>1. CASE PriorityOf(routes, i) # PriorityOf(routes, j)
    <3>1. Preferred(routes, i, j, q) <=> PriorityOf(routes, i) < PriorityOf(routes, j)
      BY <2>1, PreferredCases
    <3> QED
      BY <1>4, <1>6, <2>1, <3>1
  <2>2. CASE PriorityOf(routes, i) = PriorityOf(routes, j) /\ ~SamePattern(x, y)
    <3>1. Preferred(routes, i, j, q) <=>
            \/ MoreSpecific(x, y)
            \/ ~MoreSpecific(y, x) /\ PlaceOf(routes, i) < PlaceOf(routes, j)
      BY <1>1, <2>2, PreferredCases
    <3> QED
      BY <1>4, <1>5, <1>6, <2>2, <3>1
  <2>3. CASE SamePattern(x, y) /\ g # h
    <3>1. Preferred(routes, i, j, q) <=> HostBefore(routes, i, g, h)
      BY <1>1, <1>4, <2>3, PreferredCases
    <3> QED
      BY <1>4, <1>5, <1>6, <2>3, <3>1
  <2>4. CASE SamePattern(x, y) /\ g = h
    <3>1. Preferred(routes, i, j, q) <=>
            MethodRank(routes[i].method, q.method) > MethodRank(routes[j].method, q.method)
      BY <1>1, <1>4, <2>4, PreferredCases
    <3> QED
      BY <1>4, <1>5, <1>6, <2>4, <3>1
  <2> QED
    BY <1>4, <2>1, <2>2, <2>3, <2>4
<1>8. ASSUME i = j
      PROVE  ~Overrules(i, j, q)
  <2>1. x = y /\ g = h
    BY <1>1, <1>8
  <2>2. ~MoreSpecific(x, y)
    BY <1>3, <1>5, <2>1, SameTemplate
  <2>3. MethodRank(routes[i].method, q.method) \in Int
    BY DEF MethodRank
  <2> QED
    BY <1>4, <1>6, <1>8, <2>1, <2>2, <2>3
<1> QED
  BY <1>7, <1>8

(* So the route that is found overrules every other that would serve, and  *)
(* no such route overrules it.                                             *)
LEMMA FoundOverrules ==
  ASSUME TableInv, OrderInv, WithinDepth, NEW S, NEW q, q.path \in Seq(S),
         NEW r \in Able(routes, q), OutdoesAll(routes, r, q), NEW i \in Able(routes, q)
  PROVE  /\ i # r => Overrules(r, i, q)
         /\ ~Overrules(i, r, q)
<1>1. CASE i = r
  BY <1>1, PreferredOverrules
<1>2. CASE i # r
  <2>1. Preferred(routes, r, i, q) /\ ~Preferred(routes, i, r, q)
    BY <1>2 DEF OutdoesAll
  <2> QED
    BY <2>1, PreferredOverrules
<1> QED
  BY <1>1, <1>2

-----------------------------------------------------------------------------
(* What a pair of routes takes *)

(* Of the requests that a pair owns the second route serves every one, and *)
(* neither serves any other.                                               *)
LEMMA PairServes ==
  ASSUME TextsAreNamed, TableInv, NEW M, PairedIn(routes, M), NEW S, NEW q, q.path \in Seq(S)
  PROVE  /\ Owns(M.self, q) => Serves(routes[M.sub], q)
         /\ \A r \in {M.self, M.sub} : Serves(routes[r], q) => Owns(M.self, q)
<1>1. /\ M.self \in DOMAIN routes /\ M.sub \in DOMAIN routes
      /\ routes[M.sub].method = MethodAny /\ routes[M.sub].hosts = routes[M.self].hosts
      /\ Continues(routes[M.self].segs, routes[M.sub].segs)
  BY DEF PairedIn
<1>2. routes[M.sub].segs \in Templates
  BY <1>1, RouteFacts
<1>3. /\ PathMatches(routes[M.sub].segs, q.path) <=>
           Below(SegmentsOf(routes[M.self].segs), q.path)
      /\ PathMatches(routes[M.self].segs, q.path) =>
           Below(SegmentsOf(routes[M.self].segs), q.path)
  BY <1>1, <1>2, MountMatches
<1>4. Admitting(routes[M.sub], q) = Admitting(routes[M.self], q)
  BY <1>1 DEF Admitting, FormsOf
<1>5. MethodRank(routes[M.sub].method, q.method) >= 0
  BY <1>1 DEF MethodRank, MethodAny
<1> QED
  BY <1>3, <1>4, <1>5 DEF Serves, OnPathAndHost, Owns

(* Every request at or below the prefix of a complete Mount, on its hosts  *)
(* and whatever the method, is answered by the mount or by a route that    *)
(* overrules it: one whose pattern has a lower priority or, at equal       *)
(* priority, is more specific, or one of the same pattern under a host     *)
(* that goes first or, on one host, with the method itself.  When the      *)
(* mount does answer, the request is below its prefix and nothing          *)
(* overrules it.  This is so for every option of the mount and of the      *)
(* routes around it, in any groups (mount.go, Mount and mountPatterns).    *)
THEOREM MountsOwnWhatIsBelow ==
  ASSUME NEW Nested, ConstantsNest(Nested), Readable, WithinDepth, \A q \in Arrived : RanksRead(q)
  PROVE  GroupSpec => []MountsOwnTheirSubtree
<1>1. Init => MountsInv(Nested)
  BY InitPairs
<1>2. MountsInv(Nested) /\ [Next]_vars => MountsInv(Nested)'
  BY NextMountsInv
<1>3. MountsInv(Nested) => MountsOwnTheirSubtree
  <2> SUFFICES ASSUME MountsInv(Nested), NEW M \in ToSet(mounts), M.sub # NoRoute,
                      NEW q \in Arrived
               PROVE  MountKeeps(M.self, M.sub, Find(q).route, q)
    BY DEF MountsOwnTheirSubtree
  <2> DEFINE r == Find(q).route
  <2>1. TableInv /\ OrderInv /\ TextsAreNamed
    BY DEF MountsInv, ConstantsNest
  <2>2. PairedIn(routes, M)
    BY DEF MountsInv, PairsInv, ToSet
  <2>3. q.path \in Seq(STRING) /\ HostsRead(q) /\ RanksRead(q)
    BY DEF Readable, Asks
  <2>4. /\ r = NoRoute => Able(routes, q) = {}
        /\ r # NoRoute => r \in Able(routes, q) /\ OutdoesAll(routes, r, q)
    BY <2>1, <2>3, FindIsSlow, SlowIsBest
  <2>5. M.self \in DOMAIN routes /\ M.sub \in DOMAIN routes
    BY <2>2 DEF PairedIn
  <2>6. M.self # NoRoute /\ M.sub # NoRoute
    BY <2>1, <2>5, RouteFacts
  <2>7. /\ Owns(M.self, q) => Serves(routes[M.sub], q)
        /\ \A s \in {M.self, M.sub} : Serves(routes[s], q) => Owns(M.self, q)
    BY <2>1, <2>2, <2>3, PairServes
  <2> HIDE DEF r
  <2>8. ASSUME r # NoRoute, NEW i \in DOMAIN routes, Serves(routes[i], q)
        PROVE  (i # r => Overrules(r, i, q)) /\ ~Overrules(i, r, q)
    <3>1. i \in Able(routes, q) /\ r \in Able(routes, q) /\ OutdoesAll(routes, r, q)
      BY <2>4, <2>8 DEF Able
    <3> QED
      BY <2>1, <2>3, <3>1, FoundOverrules
  <2>9. ASSUME Owns(M.self, q), r \notin {M.self, M.sub}
        PROVE  /\ r # NoRoute
               /\ \A half \in {M.self, M.sub} : Serves(routes[half], q) => Overrules(r, half, q)
    <3>1. r # NoRoute
      BY <2>4, <2>5, <2>7, <2>9 DEF Able
    <3> QED
      BY <2>5, <2>8, <2>9, <3>1
  <2>10. ASSUME r \in {M.self, M.sub}
         PROVE  /\ Owns(M.self, q)
                /\ \A i \in DOMAIN routes : Serves(routes[i], q) => ~Overrules(i, r, q)
    <3>1. r # NoRoute /\ Serves(routes[r], q)
      BY <2>4, <2>6, <2>10 DEF Able
    <3>2. Owns(M.self, q)
      BY <2>7, <2>10, <3>1
    <3>3. \A i \in DOMAIN routes : Serves(routes[i], q) => ~Overrules(i, r, q)
      BY <2>8, <3>1
    <3> QED
      BY <3>2, <3>3
  <2>11. MountKeeps(M.self, M.sub, r, q)
    BY <2>9, <2>10 DEF MountKeeps
  <2> QED
    BY <2>11 DEF r
<1> QED
  BY <1>1, <1>2, <1>3, PTL DEF GroupSpec
=============================================================================
