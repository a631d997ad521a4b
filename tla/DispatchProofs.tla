---------------------------- MODULE DispatchProofs ----------------------------
(***************************************************************************)
(* Theorems about Dispatch, for every table, every request and every       *)
(* middleware: the method survives every redirect, and every Location is   *)
(* clean, so that the same client is not sent to a clean path twice.       *)
(*                                                                         *)
(* cleanPath is a fold over the path: what it returns is shown by          *)
(* induction on the segments that have been read.                          *)
(***************************************************************************)
EXTENDS Dispatch, LookupProofs

-----------------------------------------------------------------------------
(* Redirects *)

(* A redirect leads to the clean form of the path that was looked up, or   *)
(* to its other slash form.                                                *)
Target(path, to) ==
    \/ to = cleanPath(path)
    \/ path \notin {<< >>, <<"">>} /\ to = trailingSlashAlternative(path)

IsRedirect(a, path, method) ==
    \E r, why, to : /\ a = redirect(r, why, to) /\ r.method = method
                    /\ Target(path, to)

(* Whatever way a redirect is answered, it leads to a target of the path   *)
(* that was looked up, and carries the request's method.                   *)
LEMMA UnmatchedRedirects ==
  ASSUME NEW o, NEW q, NEW pathMatched, answerUnmatched(o, q, pathMatched).kind = "redirect"
  PROVE  IsRedirect(answerUnmatched(o, q, pathMatched), q.path, q.method)
<1>1. CASE o.slash /\ AltMatched(q)
  BY <1>1 DEF answerUnmatched, AltMatched, HasAlternative, IsRedirect, Target
<1>2. CASE ~(o.slash /\ AltMatched(q))
  BY <1>2 DEF answerUnmatched
<1> QED
  BY <1>1, <1>2

LEMMA ResolvedRedirects ==
  ASSUME NEW o, NEW q, resolveUnmatched(o, q).kind = "redirect"
  PROVE  IsRedirect(resolveUnmatched(o, q), q.path, q.method)
<1>1. CASE Unclean(o, q)
  BY <1>1 DEF resolveUnmatched, IsRedirect, Target
<1>2. CASE ~Unclean(o, q)
  BY <1>2, UnmatchedRedirects DEF resolveUnmatched
<1> QED
  BY <1>1, <1>2

LEMMA ServedRedirects ==
  ASSUME NEW o, NEW q, {"path", "method"} \subseteq DOMAIN q,
         ServeHTTP(o, q).kind = "redirect"
  PROVE  \E path \in {q.path, Rewritten(q.path)} :
           IsRedirect(ServeHTTP(o, q), path, q.method)
<1> DEFINE r == [q EXCEPT !.path = Rewritten(@)]
<1>1. r.path = Rewritten(q.path) /\ r.method = q.method
  OBVIOUS
<1>2. CASE ServeHTTP(o, q) = Unmatched(o, q)
  <2>1. ServeHTTP(o, q) = resolveUnmatched(o, r)
    BY <1>2 DEF Unmatched
  <2> HIDE DEF r
  <2> QED
    BY <1>1, <2>1, ResolvedRedirects
<1>3. CASE ServeHTTP(o, q) = redirect(q, "clean", cleanPath(q.path))
  BY <1>3 DEF IsRedirect, Target
<1>4. CASE ServeHTTP(o, q) = Dispatched(o, q, Find(q))
  <2>1. Dispatched(o, q, Find(q)).kind = "redirect"
    BY <1>4
  <2>2. Dispatched(o, q, Find(q)) = Missed(o, q, Find(q).pathMatched)
    BY <2>1 DEF Dispatched
  <2>3. CASE o.wrapped
    BY <1>2, <1>4, <2>2, <2>3 DEF Missed
  <2>4. CASE ~o.wrapped
    BY <1>4, <2>2, <2>4, UnmatchedRedirects DEF Missed
  <2> QED
    BY <2>3, <2>4
<1> QED
  BY <1>2, <1>3, <1>4 DEF ServeHTTP

-----------------------------------------------------------------------------
(* The method *)

(* Only a GET or a HEAD is answered with a 301.                            *)
MethodInv ==
    /\ phase \in {"setup", "asking", "answered"}
    /\ phase = "setup" => req = None /\ answer = None
    /\ phase # "setup" => {"path", "method"} \subseteq DOMAIN req /\ req.method = first.method
    /\ answer.kind = "redirect" /\ answer.code = 301 => req.method \in {"GET", "HEAD"}

LEMMA NoneIsNoAnswer == None.kind # "redirect"
BY DEF None

(* A redirect with 301, which turns POST into GET, is only for GET and     *)
(* HEAD.                                                                   *)
LEMMA RedirectMethod ==
  ASSUME NEW a, NEW path, NEW method, IsRedirect(a, path, method), a.code = 301
  PROVE  method \in {"GET", "HEAD"}
<1>1. PICK r, why, to : a = redirect(r, why, to) /\ r.method = method
  BY DEF IsRedirect
<1> QED
  BY <1>1 DEF redirect

LEMMA ServedMethod ==
  ASSUME NEW o, NEW q, {"path", "method"} \subseteq DOMAIN q,
         ServeHTTP(o, q).kind = "redirect", ServeHTTP(o, q).code = 301
  PROVE  q.method \in {"GET", "HEAD"}
BY ServedRedirects, RedirectMethod

LEMMA InitMethodInv == Init => MethodInv
BY NoneIsNoAnswer DEF Init, MethodInv

LEMMA AskHasFields ==
  ASSUME NEW q \in Requests
  PROVE  {"path", "method"} \subseteq DOMAIN q /\ q.path \in Seq(STRING)
BY RequestsAssumption DEF Request

(* A client that is told 301 goes on with the method it had.               *)
LEMMA FollowedFields ==
  ASSUME NEW q, NEW a, {"path", "method"} \subseteq DOMAIN q,
         a.code = 301 => q.method \in {"GET", "HEAD"}
  PROVE  /\ DOMAIN Followed(q, a) = DOMAIN q
         /\ Followed(q, a).path = a.to /\ Followed(q, a).method = q.method
BY DEF Followed

(* MethodInv is inductive.                                                 *)
LEMMA NextMethodInv ==
  ASSUME MethodInv, [Next]_vars
  PROVE  MethodInv'
<1>1. CASE Register
  BY <1>1 DEF MethodInv, Register
<1>2. ASSUME NEW q \in Requests, Ask(q)
      PROVE  MethodInv'
  BY <1>2, AskHasFields, NoneIsNoAnswer DEF MethodInv, Ask
<1>3. CASE Serve
  <2>1. {"path", "method"} \subseteq DOMAIN req
    BY <1>3 DEF Serve, MethodInv
  <2>2. answer' = ServeHTTP(opts, req) /\ req' = req /\ first' = first /\ phase' = "answered"
    BY <1>3 DEF Serve
  <2>3. answer'.kind = "redirect" /\ answer'.code = 301 => req.method \in {"GET", "HEAD"}
    BY <2>1, <2>2, ServedMethod
  <2> QED
    BY <1>3, <2>2, <2>3 DEF MethodInv, Serve
<1>4. CASE Follow
  <2>1. {"path", "method"} \subseteq DOMAIN req /\ answer.kind = "redirect"
    BY <1>4 DEF Follow, MethodInv
  <2>2. DOMAIN req' = DOMAIN req /\ req'.method = req.method
    BY <1>4, <2>1, FollowedFields DEF Follow, MethodInv
  <2> QED
    BY <1>4, <2>1, <2>2, NoneIsNoAnswer DEF MethodInv, Follow
<1>5. CASE UNCHANGED vars
  BY <1>5 DEF MethodInv, vars
<1> QED
  BY <1>1, <1>2, <1>3, <1>4, <1>5 DEF Next

(* In every reachable state the method of the request under way is that of *)
(* the first, and a 301 answers only GET and HEAD (router.go, the two      *)
(* redirects).                                                             *)
THEOREM MethodInvariance == Spec => []MethodInv
<1>1. MethodInv /\ [Next]_vars => MethodInv'
  BY NextMethodInv
<1> QED
  BY InitMethodInv, <1>1, PTL DEF Spec

(* Whatever is registered, asked and rewritten by middleware, a client     *)
(* that follows the router's redirects keeps the method it began with.     *)
THEOREM RedirectsKeepTheMethod == Spec => []MethodSurvives
<1>1. MethodInv => MethodSurvives
  BY DEF MethodInv, MethodSurvives
<1> QED
  BY <1>1, MethodInvariance, PTL

-----------------------------------------------------------------------------
(* cleanPath *)

(* What one segment does to the path cleaned so far.                       *)
LEMMA CleanStepType ==
  ASSUME NEW S, NEW acc \in Seq(S), NEW s \in S
  PROVE  CleanStep(acc, s) \in Seq(S)
<1>1. acc # << >> => Front(acc) \in Seq(S)
  BY DEF Front
<1>2. Append(acc, s) \in Seq(S)
  OBVIOUS
<1> QED
  BY <1>1, <1>2, Zenon DEF CleanStep

(* The path that has been cleaned once i segments are read.                *)
LEMMA CleanFold ==
  ASSUME NEW S, NEW path \in Seq(S)
  PROVE  \E f : /\ f[0] = << >>
                /\ \A i \in 1 .. Len(path) : f[i] = CleanStep(f[i - 1], path[i])
                /\ FoldLeft(CleanStep, << >>, path) = f[Len(path)]
<1> DEFINE n == Len(path)
           F == [i \in 1 .. n |-> [acc \in Seq(S) |-> CleanStep(acc, path[i])]]
           Step(g, s) == IF s = {} THEN << >> ELSE CleanStep(g[s \ {Max(s)}], path[Max(s)])
           Def(g) == g = [s \in SUBSET DOMAIN path |-> Step(g, s)]
           iter == CHOOSE g : Def(g)
           f == [i \in 0 .. n |-> iter[1 .. i]]
<1>0. n \in Nat /\ DOMAIN path = 1 .. n
  OBVIOUS
<1>1. F \in [1 .. n -> [Seq(S) -> Seq(S)]]
  <2>1. \A i \in 1 .. n : path[i] \in S
    BY <1>0
  <2> QED
    BY <2>1, CleanStepType
<1>2. PICK g : IsFold(g, n, Seq(S), << >>, F)
  <2>1. << >> \in Seq(S)
    OBVIOUS
  <2> HIDE DEF n, F
  <2> QED
    BY <1>0, <1>1, <2>1, FoldExists
<1>3. ASSUME NEW s \in SUBSET (1 .. n)
      PROVE  g[s] = Step(g, s)
  <2>1. CASE s # {}
    <3>1. Max(s) \in 1 .. n /\ s \ {Max(s)} \in SUBSET (1 .. n)
      BY <1>0, <2>1, MaxIsMember
    <3> QED
      BY <1>2, <2>1, <3>1 DEF IsFold
  <2> QED
    BY <1>2, <2>1 DEF IsFold
<1>4. Def(g)
  BY <1>0, <1>2, <1>3 DEF IsFold
<1>5. Def(iter)
  <2> HIDE DEF Def
  <2> QED
    BY <1>4
<1>6. FoldLeft(CleanStep, << >>, path) = iter[DOMAIN path]
  BY DEF FoldLeft, MapThenFoldSet
<1>7. /\ iter[1 .. 0] = << >>
      /\ \A i \in 1 .. n : iter[1 .. i] = CleanStep(iter[1 .. i - 1], path[i])
  <2> HIDE DEF iter
  <2>1. \A s \in SUBSET (1 .. n) : iter[s] = Step(iter, s)
    BY <1>0, <1>5
  <2>2. 1 .. 0 = {} /\ 1 .. 0 \in SUBSET (1 .. n)
    OBVIOUS
  <2>3. iter[1 .. 0] = << >>
    BY <2>1, <2>2
  <2>4. ASSUME NEW i \in 1 .. n
        PROVE  iter[1 .. i] = CleanStep(iter[1 .. i - 1], path[i])
    BY <1>0, <2>1, FoldPath
  <2> QED
    BY <2>3, <2>4
<1>8. /\ f[0] = << >> /\ f[n] = iter[DOMAIN path]
      /\ \A i \in 1 .. n : f[i] = CleanStep(f[i - 1], path[i])
  <2> HIDE DEF iter
  <2>1. \A i \in 1 .. n : i - 1 \in 0 .. n /\ i \in 0 .. n
    BY <1>0
  <2> QED
    BY <1>0, <1>7, <2>1
<1> QED
  <2> HIDE DEF f, iter
  <2> QED
    BY <1>6, <1>8

(* Segments, by what cleanPath does with them.                             *)
Empty(s) == s = ""
Dots(s) == s \in {".", ".."}
Plain(s) == s \notin {"", ".", ".."}

LEMMA SegmentKinds ==
  /\ Empty("") /\ \A s : Empty(s) => ~Dots(s)
  /\ \A s : Plain(s) => ~Empty(s) /\ ~Dots(s)
BY DEF Empty, Dots, Plain

LEMMA CleanStepCases ==
  ASSUME NEW acc, NEW s
  PROVE  /\ Empty(s) => CleanStep(acc, s) = acc
         /\ Plain(s) => CleanStep(acc, s) = Append(acc, s)
         /\ \/ CleanStep(acc, s) = acc
            \/ acc # << >> /\ CleanStep(acc, s) = Front(acc)
            \/ Plain(s)
BY Zenon DEF CleanStep, Empty, Plain

(* What the fold has kept: no empty segment and no dot segment.            *)
PlainPath(S, np) == np \in Seq(S) /\ \A i \in DOMAIN np : Plain(np[i])

LEMMA EmptyIsPlain == \A S : PlainPath(S, << >>)
BY DEF PlainPath

(* No segment of a cleaned path is empty or made of dots.                  *)
LEMMA CleanStepPlain ==
  ASSUME NEW S, NEW acc, PlainPath(S, acc), NEW s \in S
  PROVE  PlainPath(S, CleanStep(acc, s))
<1>1. acc # << >> => PlainPath(S, Front(acc))
  BY DEF Front, PlainPath
<1>2. Plain(s) => PlainPath(S, Append(acc, s))
  BY DEF PlainPath
<1>3. \/ CleanStep(acc, s) = acc
      \/ acc # << >> /\ CleanStep(acc, s) = Front(acc)
      \/ Plain(s) /\ CleanStep(acc, s) = Append(acc, s)
  BY CleanStepCases, Zenon
<1> HIDE DEF PlainPath
<1> QED
  BY <1>1, <1>2, <1>3, Zenon

LEMMA FoldIsPlain ==
  ASSUME NEW S, NEW path \in Seq(S)
  PROVE  PlainPath(S, FoldLeft(CleanStep, << >>, path))
<1>1. PICK f : /\ f[0] = << >>
               /\ \A i \in 1 .. Len(path) : f[i] = CleanStep(f[i - 1], path[i])
               /\ FoldLeft(CleanStep, << >>, path) = f[Len(path)]
  BY CleanFold
<1> DEFINE T == {k \in Nat : PlainPath(S, f[k])}
<1>2. 0 \in T
  BY <1>1, EmptyIsPlain
<1>3. ASSUME NEW k \in Nat, k < Len(path), k \in T
      PROVE  k + 1 \in T
  <2>1. k + 1 \in 1 .. Len(path) /\ k + 1 - 1 = k
    BY <1>3
  <2>2. f[k + 1] = CleanStep(f[k], path[k + 1]) /\ path[k + 1] \in S
    BY <1>1, <2>1
  <2>3. PlainPath(S, CleanStep(f[k], path[k + 1]))
    BY <1>3, <2>2, CleanStepPlain
  <2> QED
    BY <2>2, <2>3
<1>4. \A k \in 0 .. Len(path) : k \in T
  <2> HIDE DEF T
  <2>1. Len(path) \in Nat
    OBVIOUS
  <2> QED
    BY <1>2, <1>3, <2>1, UpTo
<1>5. Len(path) \in 0 .. Len(path)
  OBVIOUS
<1> QED
  BY <1>1, <1>4, <1>5

(* A clean path: plain segments, with a slash behind them or not.          *)
IsClean(S, path) ==
    \E np : /\ PlainPath(S, np)
            /\ \/ \E e \in S : Empty(e) /\ path = Append(np, e)
               \/ np # << >> /\ path = np

LEMMA AppendToNone ==
  ASSUME NEW S, NEW e \in S
  PROVE  Append(<< >>, e) = <<e>>
OBVIOUS

(* cleanPath returns a clean path ...                                      *)
LEMMA CleanedIsClean ==
  ASSUME NEW S, "" \in S, NEW path \in Seq(S)
  PROVE  IsClean(S, cleanPath(path))
<1>1. Append(<< >>, "") = <<"">>
  BY AppendToNone
<1>2. CASE path = << >>
  <2>1. cleanPath(path) = Append(<< >>, "")
    BY <1>1, <1>2 DEF cleanPath
  <2> QED
    BY <2>1, EmptyIsPlain, SegmentKinds, Zenon DEF IsClean
<1>3. CASE path # << >>
  <2> DEFINE np == FoldLeft(CleanStep, << >>, path)
  <2>1. PlainPath(S, np)
    BY FoldIsPlain
  <2>2. cleanPath(path) = IF np = << >> \/ EndsInSlash(path) THEN Append(np, "") ELSE np
    BY <1>3 DEF cleanPath
  <2> HIDE DEF np
  <2> QED
    BY <2>1, <2>2, SegmentKinds, Zenon DEF IsClean
<1> QED
  BY <1>2, <1>3

(* cleanPath leaves a clean path as it is.                                 *)
LEMMA CleanIsCanonical ==
  ASSUME NEW S, NEW path, IsClean(S, path)
  PROVE  path \in Seq(S) /\ Canonical(path)
<1>1. PICK np : /\ PlainPath(S, np)
                /\ \/ \E e \in S : Empty(e) /\ path = Append(np, e)
                   \/ np # << >> /\ path = np
  BY DEF IsClean
<1>2. /\ path \in Seq(S) /\ path # << >>
      /\ \A i \in DOMAIN path : ~Dots(path[i]) /\ (Empty(path[i]) => i = Len(path))
  <2>1. ASSUME NEW e \in S, Empty(e), path = Append(np, e)
        PROVE  /\ path \in Seq(S) /\ path # << >>
               /\ \A i \in DOMAIN path : ~Dots(path[i]) /\ (Empty(path[i]) => i = Len(path))
    <3>0. np \in Seq(S) /\ \A i \in 1 .. Len(np) : Plain(np[i])
      BY <1>1 DEF PlainPath
    <3>1. np \in Seq(S) /\ \A i \in 1 .. Len(np) : ~Dots(np[i]) /\ ~Empty(np[i])
      BY <3>0, SegmentKinds, Zenon
    <3>2. /\ path \in Seq(S) /\ path # << >>
          /\ Len(path) = Len(np) + 1 /\ DOMAIN path = 1 .. Len(np) + 1
      BY <2>1, <3>1
    <3>3. \A i \in 1 .. Len(np) + 1 : path[i] = IF i = Len(np) + 1 THEN e ELSE np[i]
      BY <2>1, <3>1
    <3>4. ~Dots(e)
      BY <2>1, SegmentKinds, Zenon
    <3> QED
      BY <3>1, <3>2, <3>3, <3>4
  <2>2. CASE np # << >> /\ path = np
    BY <1>1, <2>2, SegmentKinds DEF PlainPath
  <2> QED
    BY <1>1, <2>1, <2>2
<1> QED
  BY <1>2, Zenon DEF Canonical, Empty, Dots

(* ... and leaves one alone.                                               *)
LEMMA CleanIsFixed ==
  ASSUME NEW S, NEW path, IsClean(S, path)
  PROVE  cleanPath(path) = path
<1>0. path \in Seq(S) /\ path # << >>
  BY CleanIsCanonical DEF Canonical
<1>1. PICK np : /\ PlainPath(S, np)
                /\ \/ \E e \in S : Empty(e) /\ path = Append(np, e)
                   \/ np # << >> /\ path = np
  BY DEF IsClean
<1>2. np \in Seq(S) /\ \A i \in 1 .. Len(np) : Plain(np[i])
  BY <1>1 DEF PlainPath
<1> DEFINE m == Len(np)
<1>3. m \in Nat /\ \A i \in 1 .. m : i \in 1 .. Len(path) /\ path[i] = np[i]
  BY <1>1, <1>2
<1>4. PICK f : /\ f[0] = << >>
               /\ \A i \in 1 .. Len(path) : f[i] = CleanStep(f[i - 1], path[i])
               /\ FoldLeft(CleanStep, << >>, path) = f[Len(path)]
  BY <1>0, CleanFold
<1> DEFINE T == {k \in 0 .. m : f[k] = SubSeq(np, 1, k)}
<1>5. 0 \in T
  <2>1. SubSeq(np, 1, 0) = << >> /\ 0 \in 0 .. m
    BY <1>2
  <2> QED
    BY <1>4, <2>1
<1>6. ASSUME NEW k \in Nat, k < m, k \in T
      PROVE  k + 1 \in T
  <2>1. k + 1 \in 1 .. m /\ k + 1 - 1 = k
    BY <1>2, <1>6
  <2>2. f[k + 1] = CleanStep(f[k], np[k + 1])
    BY <1>3, <1>4, <2>1
  <2>3. Plain(np[k + 1])
    BY <1>2, <2>1
  <2>4. f[k + 1] = Append(SubSeq(np, 1, k), np[k + 1])
    BY <1>6, <2>2, <2>3, CleanStepCases
  <2>5. Append(SubSeq(np, 1, k), np[k + 1]) = SubSeq(np, 1, k + 1)
    BY <1>2, <2>1
  <2>6. k + 1 \in 0 .. m
    BY <2>1
  <2> QED
    BY <2>4, <2>5, <2>6, Zenon
<1>7. f[m] = np
  <2>1. \A k \in 0 .. m : k \in T
    <3> HIDE DEF T, m
    <3> QED
      BY <1>3, <1>5, <1>6, UpTo
  <2>2. m \in T
    BY <1>3, <2>1
  <2> QED
    BY <1>2, <2>2
<1> DEFINE fold == FoldLeft(CleanStep, << >>, path)
<1>8. cleanPath(path) = IF fold = << >> \/ Empty(path[Len(path)])
                        THEN Append(fold, "") ELSE fold
  BY <1>0 DEF cleanPath, EndsInSlash, Last, Empty
<1> HIDE DEF fold
<1>9. ASSUME NEW e \in S, Empty(e), path = Append(np, e)
      PROVE  cleanPath(path) = path
  <2>1. Len(path) = m + 1 /\ path[m + 1] = e /\ m + 1 \in 1 .. Len(path)
    BY <1>2, <1>9
  <2>2. f[m + 1] = CleanStep(f[m], e)
    <3>1. m + 1 - 1 = m
      BY <1>3
    <3> QED
      BY <1>4, <2>1, <3>1
  <2>3. fold = np
    <3>1. CleanStep(np, e) = np
      BY <1>9, CleanStepCases
    <3>2. f[m + 1] = np
      BY <1>7, <1>9, <2>1, <2>2, <3>1
    <3> QED
      BY <1>4, <2>1, <3>2 DEF fold
  <2>4. cleanPath(path) = Append(np, "")
    BY <1>8, <1>9, <2>1, <2>3
  <2>5. e = ""
    BY <1>9 DEF Empty
  <2> QED
    BY <1>9, <2>4, <2>5
<1>10. ASSUME np # << >>, path = np
       PROVE  cleanPath(path) = path
  <2>1. Len(path) = m /\ m \in 1 .. m
    BY <1>2, <1>10
  <2>2. ~Empty(path[Len(path)])
    BY <1>2, <1>10, <2>1, SegmentKinds
  <2>3. fold = path
    BY <1>4, <1>7, <1>10, <2>1 DEF fold
  <2> QED
    BY <1>8, <1>10, <2>2, <2>3
<1> QED
  BY <1>1, <1>9, <1>10

-----------------------------------------------------------------------------
(* Locations *)

(* The other slash form of a path is a path.                               *)
LEMMA CollapsedIsPath ==
  ASSUME NEW S, NEW path \in Seq(S), path # << >>
  PROVE  Collapsed(path) \in Seq(S)
<1> DEFINE text == {i \in DOMAIN path : path[i] # "" \/ i = Len(path)}
           start == CHOOSE i \in text : \A j \in text : i <= j
<1>1. Len(path) \in Nat /\ DOMAIN path = 1 .. Len(path) /\ Len(path) # 0
  OBVIOUS
<1>2. text \in SUBSET Nat /\ text # {}
  <2>1. Len(path) \in DOMAIN path
    BY <1>1
  <2>2. Len(path) \in text
    BY <2>1, Zenon
  <2>3. text \subseteq DOMAIN path
    BY Zenon
  <2> HIDE DEF text
  <2> QED
    BY <1>1, <2>2, <2>3
<1>3. \E i \in text : \A j \in text : i <= j
  <2> HIDE DEF text
  <2> QED
    BY <1>2, LeastNumber
<1>4. start \in text
  <2> HIDE DEF text
  <2> QED
    BY <1>3, Zenon
<1>5. start \in 1 .. Len(path)
  <2>1. text \subseteq DOMAIN path
    BY Zenon
  <2> HIDE DEF text, start
  <2> QED
    BY <1>1, <1>4, <2>1
<1>6. Collapsed(path) = SubSeq(path, start, Len(path))
  BY Zenon DEF Collapsed
<1> HIDE DEF text, start
<1> QED
  BY <1>1, <1>5, <1>6

LEMMA WithLast ==
  ASSUME NEW S, NEW path \in Seq(S), NEW e \in S
  PROVE  Append(path, e) \in Seq(S) /\ Append(path, e) # << >>
<1>1. Append(path, e) \in Seq(S)
  OBVIOUS
<1>2. Len(Append(path, e)) # 0 /\ Len(<< >>) = 0
  OBVIOUS
<1> QED
  BY <1>1, <1>2, Zenon

LEMMA OneSegment ==
  ASSUME NEW S, NEW path \in Seq(S), Len(path) = 1
  PROVE  path = <<path[Len(path)]>>
<1>1. Len(<<path[Len(path)]>>) = 1 /\ <<path[Len(path)]>>[1] = path[Len(path)]
  OBVIOUS
<1>2. <<path[Len(path)]>> \in Seq(S)
  OBVIOUS
<1> QED
  BY <1>1, <1>2, SeqEqual

LEMMA WithoutLast ==
  ASSUME NEW S, NEW path \in Seq(S), path # << >>, Len(path) # 1
  PROVE  SubSeq(path, 1, Len(path) - 1) \in Seq(S) /\ SubSeq(path, 1, Len(path) - 1) # << >>
<1>0. Len(path) - 1 \in 1 .. Len(path)
  <2> DEFINE n == Len(path)
  <2>1. n \in Nat \ {0} /\ n # 1
    BY EmptySeq
  <2> HIDE DEF n
  <2>2. n - 1 \in 1 .. n
    BY <2>1
  <2> QED
    BY <2>2 DEF n
<1>1. SubSeq(path, 1, Len(path) - 1) \in Seq(S)
  BY <1>0
<1>2. Len(SubSeq(path, 1, Len(path) - 1)) # 0 /\ Len(<< >>) = 0
  BY <1>0
<1> QED
  BY <1>1, <1>2, Zenon

(* Where a redirect leads is a path, and clean once http.Redirect has      *)
(* cleaned it.                                                             *)
LEMMA TargetIsPath ==
  ASSUME NEW S, "" \in S, NEW path \in Seq(S), NEW to, Target(path, to)
  PROVE  to \in Seq(S) /\ to # << >>
<1>1. CASE to = cleanPath(path)
  BY <1>1, CleanedIsClean, CleanIsCanonical, Zenon DEF Canonical
<1>2. CASE path \notin {<< >>, <<"">>} /\ to = trailingSlashAlternative(path)
  <2>1. path # << >> /\ path # <<"">>
    BY <1>2, Zenon
  <2>2. CASE EndsInSlash(path)
    <3>1. to = SubSeq(path, 1, Len(path) - 1) /\ path[Len(path)] = ""
      BY <1>2, <2>2, Zenon DEF trailingSlashAlternative, Front, EndsInSlash, Last
    <3>2. Len(path) # 1
      BY <2>1, <3>1, OneSegment, Zenon
    <3> QED
      BY <2>1, <3>1, <3>2, WithoutLast, Zenon
  <2>3. CASE ~EndsInSlash(path)
    <3>1. to = Append(path, "")
      BY <1>2, <2>3, Zenon DEF trailingSlashAlternative
    <3> QED
      BY <3>1, WithLast, Zenon
  <2> QED
    BY <2>2, <2>3
<1> QED
  BY <1>1, <1>2 DEF Target

LEMMA RedirectLocation ==
  ASSUME NEW S, "" \in S, NEW path \in Seq(S), NEW a, NEW method, IsRedirect(a, path, method)
  PROVE  IsClean(S, a.to)
<1>1. PICK r, why, to : a = redirect(r, why, to) /\ Target(path, to)
  BY DEF IsRedirect
<1>2. a.to = cleanPath(Collapsed(to))
  BY <1>1 DEF redirect, Location
<1>3. Collapsed(to) \in Seq(S)
  BY <1>1, TargetIsPath, CollapsedIsPath
<1> QED
  BY <1>2, <1>3, CleanedIsClean

(* Texts: strings.  (That "" is one of them is not among the provers'      *)
(* facts, so it is said.)                                                  *)
Text == STRING \cup {""}

(* What router middleware passes on for a path is a path.                  *)
RewritesPaths == \A path \in Seq(Text) : Rewritten(path) \in Seq(Text)

LEMMA TextFacts == "" \in Text /\ Seq(STRING) \subseteq Seq(Text)
<1>1. "" \in Text /\ STRING \subseteq Text
  BY Zenon DEF Text
<1>2. ASSUME NEW S, NEW T, S \subseteq T
      PROVE  Seq(S) \subseteq Seq(T)
  BY <1>2
<1> QED
  BY <1>1, <1>2, Zenon

(* The paths a client asks for, and the clean ones it is sent to.          *)
PathInv ==
    /\ MethodInv
    /\ phase # "setup" => req.path \in Seq(Text)
    /\ phase = "setup" => asked = {}
    /\ answer.kind = "redirect" => IsClean(Text, answer.to)
    /\ asked # {} => IsClean(Text, req.path)

(* Middleware included, if it makes paths of paths.                        *)
LEMMA ServedLocation ==
  ASSUME RewritesPaths, NEW o, NEW q, {"path", "method"} \subseteq DOMAIN q,
         q.path \in Seq(Text), ServeHTTP(o, q).kind = "redirect"
  PROVE  IsClean(Text, ServeHTTP(o, q).to)
<1>1. PICK path \in {q.path, Rewritten(q.path)} : IsRedirect(ServeHTTP(o, q), path, q.method)
  BY ServedRedirects
<1>2. path \in Seq(Text)
  BY <1>1, Zenon DEF RewritesPaths
<1> QED
  BY <1>1, <1>2, TextFacts, RedirectLocation

LEMMA InitPathInv == Init => PathInv
<1> SUFFICES ASSUME Init PROVE PathInv
  OBVIOUS
<1>1. phase = "setup" /\ asked = {} /\ answer = None
  BY DEF Init
<1> QED
  BY <1>1, InitMethodInv, NoneIsNoAnswer DEF PathInv

(* PathInv is inductive.                                                   *)
LEMMA NextPathInv ==
  ASSUME RewritesPaths, PathInv, [Next]_vars
  PROVE  PathInv'
<1>0. MethodInv'
  BY NextMethodInv DEF PathInv
<1>1. CASE Register
  BY <1>0, <1>1 DEF PathInv, Register
<1>2. ASSUME NEW q \in Requests, Ask(q)
      PROVE  PathInv'
  <2>1. /\ phase = "setup" /\ phase' = "asking" /\ req' = q /\ asked' = asked /\ answer' = answer
        /\ q.path \in Seq(Text)
    BY <1>2, AskHasFields, TextFacts DEF Ask
  <2>2. asked' = {} /\ answer'.kind # "redirect"
    BY <2>1, NoneIsNoAnswer DEF PathInv, MethodInv
  <2> QED
    BY <1>0, <2>1, <2>2 DEF PathInv
<1>3. CASE Serve
  <2>1. /\ phase' = "answered" /\ answer' = ServeHTTP(opts, req)
        /\ req' = req /\ asked' = asked
        /\ {"path", "method"} \subseteq DOMAIN req /\ req.path \in Seq(Text)
    BY <1>3 DEF Serve, PathInv, MethodInv
  <2>2. answer'.kind = "redirect" => IsClean(Text, answer'.to)
    BY <2>1, ServedLocation
  <2> QED
    BY <1>0, <2>1, <2>2 DEF PathInv
<1>4. CASE Follow
  <2>1. /\ phase' = "asking" /\ answer' = None /\ req' = Followed(req, answer)
        /\ answer.kind = "redirect" /\ phase # "setup"
    BY <1>4 DEF Follow
  <2>2. req'.path = answer.to /\ IsClean(Text, answer.to)
    BY <2>1, FollowedFields DEF PathInv, MethodInv
  <2>3. IsClean(Text, req'.path) /\ req'.path \in Seq(Text)
    BY <2>2, CleanIsCanonical
  <2> QED
    BY <1>0, <2>1, <2>3, NoneIsNoAnswer DEF PathInv
<1>5. CASE UNCHANGED vars
  BY <1>0, <1>5 DEF PathInv, vars
<1> QED
  BY <1>1, <1>2, <1>3, <1>4, <1>5 DEF Next

(* In every reachable state a Location is clean, and so is the path of     *)
(* every request but the first (router.go, cleanPath and the trailing-     *)
(* slash form).                                                            *)
THEOREM PathInvariance == ASSUME RewritesPaths PROVE Spec => []PathInv
<1>1. PathInv /\ [Next]_vars => PathInv'
  BY NextPathInv
<1> QED
  BY InitPathInv, <1>1, PTL DEF Spec

(* Whatever a client asks for, and whatever middleware makes of it, the    *)
(* router sends it only to clean paths, which cleanPath leaves alone:      *)
(* CleanPath never redirects the same client twice.                        *)
THEOREM LocationsAreClean == ASSUME RewritesPaths PROVE Spec => []LocationIsClean
<1>1. PathInv => LocationIsClean
  BY CleanIsCanonical, CleanIsFixed, Zenon DEF PathInv, LocationIsClean
<1> QED
  BY <1>1, PathInvariance, PTL

-----------------------------------------------------------------------------
(* Middleware *)

(* Middleware that passes a request on as it is.                           *)
RewritesNothing == \A path : Rewritten(path) = path

IsFunction(q) == q = [x \in DOMAIN q |-> q[x]]

(* The answer at the far end of such middleware is the answer without it:  *)
(* the clean-path redirect that was put off comes first there, and a miss  *)
(* is worked out from the same lookup.                                     *)
LEMMA PassedOnUnchanged ==
  ASSUME RewritesNothing, NEW q, IsFunction(q)
  PROVE  [q EXCEPT !.path = Rewritten(@)] = q
<1>1. [q EXCEPT !.path = Rewritten(@)] = [q EXCEPT !.path = q.path]
  BY DEF RewritesNothing
<1> QED
  BY <1>1 DEF IsFunction

(* A request that middleware passes on unchanged is answered as without    *)
(* it.                                                                     *)
LEMMA SameAnswerBehindMiddleware ==
  ASSUME RewritesNothing, NEW o \in Options, NEW q, IsFunction(q)
  PROVE  ServeHTTP(o, q) = ServeHTTP([o EXCEPT !.wrapped = FALSE], q)
<1> DEFINE bare == [o EXCEPT !.wrapped = FALSE]
<1> SUFFICES ServeHTTP(o, q) = ServeHTTP(bare, q)
  OBVIOUS
<1>1. bare.clean = o.clean /\ bare.slash = o.slash /\ ~bare.wrapped
  BY DEF Options
<1>2. Unmatched(o, q) = resolveUnmatched(o, q)
  BY PassedOnUnchanged DEF Unmatched
<1>3. \A pathMatched : answerUnmatched(bare, q, pathMatched) = answerUnmatched(o, q, pathMatched)
  BY <1>1 DEF answerUnmatched
<1>4. Unclean(bare, q) <=> Unclean(o, q)
  BY <1>1 DEF Unclean
<1> HIDE DEF bare
<1>5. CASE Unclean(o, q)
  <2>1. resolveUnmatched(o, q) = redirect(q, "clean", cleanPath(q.path))
    BY <1>5 DEF resolveUnmatched
  <2>2. ServeHTTP(o, q) = redirect(q, "clean", cleanPath(q.path))
    BY <1>2, <1>5, <2>1 DEF ServeHTTP
  <2>3. ServeHTTP(bare, q) = redirect(q, "clean", cleanPath(q.path))
    BY <1>1, <1>4, <1>5 DEF ServeHTTP
  <2> QED
    BY <2>2, <2>3, Zenon
<1>6. CASE ~Unclean(o, q)
  <2>1. Missed(o, q, Find(q).pathMatched) = answerUnmatched(o, q, Find(q).pathMatched)
    BY <1>2, <1>6 DEF Missed, resolveUnmatched
  <2>2. Missed(bare, q, Find(q).pathMatched) = answerUnmatched(o, q, Find(q).pathMatched)
    BY <1>1, <1>3 DEF Missed
  <2>3. Dispatched(o, q, Find(q)) = Dispatched(bare, q, Find(q))
    BY <2>1, <2>2, Zenon DEF Dispatched
  <2>4. ServeHTTP(o, q) = Dispatched(o, q, Find(q))
    BY <1>6, Zenon DEF ServeHTTP
  <2>5. ServeHTTP(bare, q) = Dispatched(bare, q, Find(q))
    BY <1>4, <1>6, Zenon DEF ServeHTTP
  <2> QED
    BY <2>3, <2>4, <2>5, Zenon
<1> QED
  BY <1>5, <1>6

LEMMA FollowedIsFunction ==
  ASSUME NEW q, NEW a
  PROVE  IsFunction(Followed(q, a))
<1> DEFINE f == [q EXCEPT !.path = a.to]
<1>1. \/ Followed(q, a) = [f EXCEPT !.method = "GET"]
      \/ Followed(q, a) = [f EXCEPT !.method = @]
  BY DEF Followed
<1>2. IsFunction([f EXCEPT !.method = "GET"]) /\ IsFunction([f EXCEPT !.method = @])
  BY DEF IsFunction
<1> QED
  BY <1>1, <1>2, Zenon

(* The options are those of Init, and what the client sends is a request.  *)
RequestInv ==
    /\ opts \in Options
    /\ phase = "setup" => req = None
    /\ phase # "setup" => IsFunction(req)

(* RequestInv is inductive.                                                *)
LEMMA NextRequestInv ==
  ASSUME RequestInv, [Next]_vars
  PROVE  RequestInv'
<1>1. CASE Register
  BY <1>1 DEF RequestInv, Register
<1>2. ASSUME NEW q \in Requests, Ask(q)
      PROVE  RequestInv'
  <2>1. IsFunction(q)
    BY RequestsAssumption DEF Request, IsFunction
  <2>2. opts' = opts /\ phase' = "asking" /\ req' = q
    BY <1>2 DEF Ask
  <2> QED
    BY <2>1, <2>2 DEF RequestInv
<1>3. CASE Serve
  BY <1>3 DEF RequestInv, Serve
<1>4. CASE Follow
  <2>1. opts' = opts /\ phase' = "asking" /\ req' = Followed(req, answer)
    BY <1>4 DEF Follow
  <2> QED
    BY <2>1, FollowedIsFunction DEF RequestInv
<1>5. CASE UNCHANGED vars
  BY <1>5 DEF RequestInv, vars
<1> QED
  BY <1>1, <1>2, <1>3, <1>4, <1>5 DEF Next

(* A router whose middleware passes requests on as they are answers every  *)
(* one of them as it would without middleware.                             *)
THEOREM MiddlewareChangesNoAnswer ==
  ASSUME RewritesNothing
  PROVE  Spec => MiddlewareIsTransparent
<1>1. Init => RequestInv
  BY DEF Init, RequestInv
<1>2. RequestInv /\ [Next]_vars => RequestInv'
  BY NextRequestInv
<1>3. RequestInv /\ [Next]_vars =>
        [answer' \notin {answer, None} =>
           answer' = ServeHTTP([opts EXCEPT !.wrapped = FALSE], req)]_vars
  <2> SUFFICES ASSUME RequestInv, Next, answer' \notin {answer, None}
               PROVE  answer' = ServeHTTP([opts EXCEPT !.wrapped = FALSE], req)
    BY DEF vars
  <2>1. Serve
    <3>1. Register \/ (\E q \in Requests : Ask(q)) => answer' = answer
      BY DEF Register, Ask
    <3>2. Follow => answer' = None
      BY DEF Follow
    <3> QED
      BY <3>1, <3>2 DEF Next
  <2>2. answer' = ServeHTTP(opts, req) /\ phase = "asking"
    BY <2>1 DEF Serve
  <2> QED
    BY <2>2, SameAnswerBehindMiddleware DEF RequestInv
<1> QED
  BY <1>1, <1>2, <1>3, PTL DEF Spec, MiddlewareIsTransparent

-----------------------------------------------------------------------------
(* What a client is told *)

(* What a client has sent: a request, with a host that the table's         *)
(* patterns were read for as they are meant.                               *)
Sent(q) ==
    /\ IsFunction(q) /\ DOMAIN q = {"path", "method", "host", "port", "asked"}
    /\ q.path \in Seq(Text) /\ HostsRead(q)

At(q, path) == [q EXCEPT !.path = path]

LEMMA AtFacts ==
  ASSUME NEW q, Sent(q), NEW path \in Seq(Text)
  PROVE  /\ Sent(At(q, path))
         /\ At(q, path).path = path /\ At(q, path).method = q.method
         /\ At(q, path).asked = q.asked
         /\ At(q, q.path) = q
         /\ \A other : At(At(q, path), other) = At(q, other)
<1> DEFINE r == At(q, path)
<1>1. /\ IsFunction(r) /\ DOMAIN r = {"path", "method", "host", "port", "asked"}
      /\ r.path = path /\ r.method = q.method
      /\ r.host = q.host /\ r.port = q.port /\ r.asked = q.asked
  BY DEF Sent, At, IsFunction
<1>2. HostsRead(r)
  BY <1>1 DEF HostsRead, FormsRead, Sent
<1>3. At(q, q.path) = q /\ \A other : At(r, other) = At(q, other)
  BY DEF Sent, At, IsFunction
<1> QED
  BY <1>1, <1>2, <1>3 DEF Sent

(* The method survives, so a client goes on with the request it had.       *)
LEMMA FollowedIsAt ==
  ASSUME NEW q, Sent(q), NEW a, a.code = 301 => q.method \in {"GET", "HEAD"}
  PROVE  Followed(q, a) = At(q, a.to)
<1>1. /\ IsFunction(q) /\ DOMAIN q = {"path", "method", "host", "port", "asked"}
  BY DEF Sent
<1> DEFINE f == [q EXCEPT !.path = a.to]
<1>2. f.method = q.method /\ [f EXCEPT !.method = f.method] = f
  BY <1>1 DEF IsFunction
<1>3. CASE a.code = 301 /\ q.method # "HEAD"
  <2>1. q.method = "GET"
    BY <1>3
  <2>2. Followed(q, a) = [f EXCEPT !.method = "GET"]
    BY <1>2, <1>3 DEF Followed
  <2> QED
    BY <1>2, <2>1, <2>2 DEF At
<1>4. CASE ~(a.code = 301 /\ q.method # "HEAD")
  BY <1>2, <1>4 DEF Followed, At
<1> QED
  BY <1>3, <1>4

LEMMA AskIsSent ==
  ASSUME NEW q \in Requests, HostsRead(q)
  PROVE  Sent(q)
BY RequestsAssumption, TextFacts DEF Request, Sent, IsFunction

-----------------------------------------------------------------------------
(* The two slash forms of a path *)

LEMMA FrontOfAppend ==
  ASSUME NEW S, NEW path \in Seq(S), NEW e
  PROVE  Front(Append(path, e)) = path /\ Last(Append(path, e)) = e
<1>1. Len(Append(path, e)) = Len(path) + 1 /\ Append(path, e)[Len(path) + 1] = e
  OBVIOUS
<1>2. Len(path) + 1 - 1 = Len(path) /\ SubSeq(Append(path, e), 1, Len(path)) = path
  OBVIOUS
<1> QED
  BY <1>1, <1>2 DEF Front, Last

(* The other form of a clean path is clean, and its other form is the      *)
(* path.                                                                   *)
LEMMA SlashForms ==
  ASSUME NEW S, NEW slash \in S, Empty(slash),
         NEW path, IsClean(S, path), HasAlternative(path)
  PROVE  /\ IsClean(S, trailingSlashAlternative(path))
         /\ trailingSlashAlternative(path) # path
         /\ HasAlternative(trailingSlashAlternative(path))
         /\ trailingSlashAlternative(trailingSlashAlternative(path)) = path
<1>1. PICK np, e : /\ PlainPath(S, np) /\ Empty(e) /\ e \in S
                   /\ \/ path = Append(np, e)
                      \/ np # << >> /\ path = np
  BY Zenon DEF IsClean
<1>2. e = ""
  BY <1>1 DEF Empty
<1>3. np \in Seq(S) /\ \A i \in 1 .. Len(np) : Plain(np[i])
  BY <1>1 DEF PlainPath
<1>4. /\ Front(Append(np, e)) = np /\ EndsInSlash(Append(np, e))
      /\ Append(np, e) # np /\ Append(np, e) # << >>
  <2>1. Front(Append(np, e)) = np /\ Last(Append(np, e)) = e
    BY <1>3, FrontOfAppend
  <2>2. Len(Append(np, e)) = Len(np) + 1
    BY <1>3
  <2>3. Append(np, e) # np /\ Append(np, e) # << >>
    BY <1>3, <2>2
  <2> QED
    BY <1>2, <2>1, <2>3, Zenon DEF EndsInSlash
<1>5. np # << >> => ~EndsInSlash(np) /\ Append(np, e) # <<e>> /\ np # <<e>>
  <2> SUFFICES ASSUME np # << >>
               PROVE  ~EndsInSlash(np) /\ Append(np, e) # <<e>> /\ np # <<e>>
    OBVIOUS
  <2>1. Len(np) \in 1 .. Len(np) /\ 1 \in 1 .. Len(np)
    BY <1>3, EmptySeq
  <2>2. ~Empty(np[Len(np)]) /\ ~Empty(np[1])
    BY <1>3, <2>1, SegmentKinds
  <2>3. ~EndsInSlash(np)
    BY <2>2, Zenon DEF EndsInSlash, Last, Empty
  <2>4. Append(np, e)[1] = np[1] /\ <<e>>[1] = e
    BY <1>3, <2>1
  <2> QED
    BY <1>1, <2>2, <2>3, <2>4, Zenon
<1>6. np = << >> => Append(np, e) = <<e>>
  BY <1>1, AppendToNone
<1>7. CASE path = Append(np, e)
  <2>1. np # << >>
    BY <1>2, <1>6, <1>7, Zenon DEF HasAlternative
  <2>2. trailingSlashAlternative(path) = np
    BY <1>4, <1>7, Zenon DEF trailingSlashAlternative
  <2>3. trailingSlashAlternative(np) = path
    BY <1>2, <1>5, <1>7, <2>1, Zenon DEF trailingSlashAlternative
  <2>4. IsClean(S, np) /\ HasAlternative(np)
    BY <1>1, <1>2, <1>5, <2>1, Zenon DEF IsClean, HasAlternative
  <2> QED
    BY <1>4, <1>7, <2>2, <2>3, <2>4
<1>8. CASE np # << >> /\ path = np
  <2>1. trailingSlashAlternative(path) = Append(np, e)
    BY <1>2, <1>5, <1>8, Zenon DEF trailingSlashAlternative
  <2>2. trailingSlashAlternative(Append(np, e)) = np
    BY <1>4, Zenon DEF trailingSlashAlternative
  <2>3. IsClean(S, Append(np, e)) /\ HasAlternative(Append(np, e))
    BY <1>1, <1>2, <1>4, <1>5, <1>8, Zenon DEF IsClean, HasAlternative
  <2> QED
    BY <1>4, <1>8, <2>1, <2>2, <2>3
<1> QED
  BY <1>1, <1>7, <1>8

LEMMA WholeSeq ==
  ASSUME NEW S, NEW path \in Seq(S)
  PROVE  SubSeq(path, 1, Len(path)) = path
OBVIOUS

(* A redirect to a clean path leads to that path.                          *)
LEMMA CleanLocation ==
  ASSUME NEW S, NEW path, IsClean(S, path)
  PROVE  Location(Collapsed(path)) = path
<1>1. path \in Seq(S) /\ path # << >>
  BY CleanIsCanonical DEF Canonical
<1>2. PICK n : n = Len(path) /\ n \in Nat /\ n # 0 /\ DOMAIN path = 1 .. n
  BY <1>1, EmptySeq
<1>3. 1 \in 1 .. n
  BY <1>2
<1> DEFINE text == {i \in DOMAIN path : path[i] # "" \/ i = Len(path)}
           start == CHOOSE i \in text : \A j \in text : i <= j
<1>4. 1 \in text
  BY <1>1, <1>2, <1>3, CleanIsCanonical, Zenon DEF Canonical
<1>5. \A i \in text : i \in Nat /\ 1 <= i
  <2>1. text \subseteq DOMAIN path
    BY Zenon
  <2> HIDE DEF text
  <2> QED
    BY <1>2, <2>1
<1>6. start = 1
  <2> HIDE DEF text
  <2>1. \E i \in text : \A j \in text : i <= j
    BY <1>4, <1>5
  <2>2. start \in text /\ \A j \in text : start <= j
    BY <2>1, Zenon
  <2> HIDE DEF start
  <2> QED
    BY <1>4, <1>5, <2>2
<1>7. Collapsed(path) = SubSeq(path, start, Len(path))
  BY Zenon DEF Collapsed
<1> HIDE DEF text, start
<1>8. Collapsed(path) = path
  BY <1>1, <1>6, <1>7, WholeSeq
<1> QED
  BY <1>8, CleanIsFixed, Zenon DEF Location

-----------------------------------------------------------------------------
(* What a sent request is answered *)

Alternative(q) == At(q, trailingSlashAlternative(q.path))

(* Whether some route serves a request.                                    *)
Served(q) == \E r \in DOMAIN routes : Serves(routes[r], q)

LEMMA BestServes ==
  ASSUME NEW q
  PROVE  /\ BestRoute(routes, q) # NoRoute => Served(q)
         /\ ~Served(q) => BestRoute(routes, q) = NoRoute
BY DEF BestRoute, NoRoute, Served

(* A route that serves a request has its path and host.                    *)
LEMMA ServedIsOnRoute == \A q : Served(q) => OnSomeRoute(routes, q)
BY DEF Served, Serves, OnSomeRoute

LEMMA SentIsFound ==
  ASSUME TableInv, NEW q, Sent(q)
  PROVE  /\ Find(q).route # NoRoute <=> Served(q)
         /\ Find(q).pathMatched <=> OnSomeRoute(routes, q)
BY FindFacts DEF Sent, Served

LEMMA AlternativeIsSent ==
  ASSUME NEW q, Sent(q), HasAlternative(q.path)
  PROVE  /\ Sent(Alternative(q))
         /\ Alternative(q).path = trailingSlashAlternative(q.path)
         /\ Alternative(q).method = q.method
         /\ IsClean(Text, Location(Collapsed(trailingSlashAlternative(q.path))))
<1> DEFINE alt == trailingSlashAlternative(q.path)
<1>1. alt \in Seq(Text) /\ alt # << >>
  BY TextFacts, TargetIsPath, Zenon DEF Sent, HasAlternative, Target
<1>2. Collapsed(alt) \in Seq(Text)
  BY <1>1, CollapsedIsPath
<1>3. IsClean(Text, Location(Collapsed(alt)))
  BY <1>2, TextFacts, CleanedIsClean DEF Location
<1> HIDE DEF alt
<1>4. Sent(At(q, alt)) /\ At(q, alt).path = alt /\ At(q, alt).method = q.method
  BY <1>1, AtFacts
<1> QED
  BY <1>3, <1>4 DEF Alternative, alt

LEMMA AltMatchedIs ==
  ASSUME TableInv, NEW q, Sent(q)
  PROVE  AltMatched(q) <=>
           HasAlternative(q.path) /\ OnSomeRoute(routes, Alternative(q))
<1>1. [q EXCEPT !.path = trailingSlashAlternative(@)] = Alternative(q)
  BY DEF Alternative, At
<1>2. HasAlternative(q.path) =>
        (Find(Alternative(q)).pathMatched <=> OnSomeRoute(routes, Alternative(q)))
  BY AlternativeIsSent, SentIsFound
<1> QED
  BY <1>1, <1>2 DEF AltMatched

(* With middleware that passes requests on as they are, an answer is one   *)
(* of five.                                                                *)
Cleaning(o, q, a) == Unclean(o, q) /\ a = redirect(q, "clean", cleanPath(q.path))
Serving(o, q, a) == ~Unclean(o, q) /\ Served(q) /\ a.kind = "served"
Turning(o, q, a) ==
    /\ ~Unclean(o, q) /\ ~Served(q) /\ o.slash
    /\ HasAlternative(q.path) /\ OnSomeRoute(routes, Alternative(q))
    /\ a = redirect(q, "slash", trailingSlashAlternative(q.path))
Missing(o, q, a) ==
    /\ ~Unclean(o, q) /\ ~Served(q)
    /\ ~(o.slash /\ HasAlternative(q.path) /\ OnSomeRoute(routes, Alternative(q)))
    /\ \/ a.kind = "405" /\ OnSomeRoute(routes, q) /\ a.allow = Allowed(q)
       \/ a.kind = "404" /\ ~OnSomeRoute(routes, q)

LEMMA AnswersAre ==
  ASSUME TableInv, RewritesNothing, NEW o \in Options, NEW q, Sent(q)
  PROVE  \/ Cleaning(o, q, ServeHTTP(o, q)) \/ Serving(o, q, ServeHTTP(o, q))
         \/ Turning(o, q, ServeHTTP(o, q)) \/ Missing(o, q, ServeHTTP(o, q))
<1> DEFINE bare == [o EXCEPT !.wrapped = FALSE]
<1>1. ServeHTTP(o, q) = ServeHTTP(bare, q)
  BY SameAnswerBehindMiddleware DEF Sent
<1>2. bare.slash = o.slash /\ bare.clean = o.clean /\ ~bare.wrapped
  BY DEF Options
<1>3. Unclean(bare, q) <=> Unclean(o, q)
  BY <1>2 DEF Unclean
<1>4. /\ Find(q).route # NoRoute <=> Served(q)
      /\ Find(q).pathMatched <=> OnSomeRoute(routes, q)
      /\ AltMatched(q) <=> HasAlternative(q.path) /\ OnSomeRoute(routes, Alternative(q))
  BY SentIsFound, AltMatchedIs
<1> HIDE DEF bare
<1>5. CASE Unclean(o, q)
  <2>1. ServeHTTP(bare, q) = redirect(q, "clean", cleanPath(q.path))
    BY <1>2, <1>3, <1>5 DEF ServeHTTP
  <2> QED
    BY <1>1, <1>5, <2>1 DEF Cleaning
<1>6. CASE ~Unclean(o, q)
  <2>1. ServeHTTP(o, q) = Dispatched(bare, q, Find(q))
    BY <1>1, <1>3, <1>6, Zenon DEF ServeHTTP
  <2>2. CASE Served(q)
    BY <1>4, <1>6, <2>1, <2>2 DEF Dispatched, Serving
  <2>3. CASE ~Served(q)
    <3>1. ServeHTTP(o, q) = answerUnmatched(bare, q, Find(q).pathMatched)
      BY <1>2, <1>4, <2>1, <2>3 DEF Dispatched, Missed
    <3>2. CASE o.slash /\ AltMatched(q)
      BY <1>2, <1>4, <1>6, <2>3, <3>1, <3>2 DEF answerUnmatched, Turning
    <3>3. CASE ~(o.slash /\ AltMatched(q))
      BY <1>2, <1>4, <1>6, <2>3, <3>1, <3>3 DEF answerUnmatched, Missing
    <3> QED
      BY <3>2, <3>3
  <2> QED
    BY <2>2, <2>3
<1> QED
  BY <1>5, <1>6

-----------------------------------------------------------------------------
(* Clients *)

(* What the theorems below ask: middleware that passes requests on as they *)
(* are, and requests for whose hosts the patterns were read as meant.      *)
HostsAreRead == \A q \in Requests : HostsRead(q)

(* Who asks a table, and what the client has asked.                        *)
ClientInv ==
    /\ PathInv /\ RequestInv /\ TableInv
    /\ phase # "setup" => Sent(req)

LEMMA RewritingNothing == RewritesNothing => RewritesPaths
BY DEF RewritesNothing, RewritesPaths

(* What ClientInv says of a client that has been answered.                 *)
LEMMA ClientFacts ==
  ASSUME ClientInv
  PROVE  /\ opts \in Options
         /\ phase = "setup" => req = None /\ answer = None /\ asked = {}
         /\ phase # "setup" => req.method = first.method
         /\ asked # {} => IsClean(Text, req.path)
         /\ phase # "setup" /\ answer.kind = "redirect" =>
              /\ Followed(req, answer) = At(req, answer.to)
              /\ IsClean(Text, answer.to) /\ answer.to \in Seq(Text)
              /\ Sent(Followed(req, answer))
<1>1. phase # "setup" /\ answer.kind = "redirect" =>
        Followed(req, answer) = At(req, answer.to)
  BY FollowedIsAt DEF ClientInv, PathInv, MethodInv
<1>2. phase # "setup" /\ answer.kind = "redirect" =>
        IsClean(Text, answer.to) /\ answer.to \in Seq(Text)
  BY CleanIsCanonical DEF ClientInv, PathInv
<1>3. phase # "setup" /\ answer.kind = "redirect" => Sent(Followed(req, answer))
  BY <1>1, <1>2, AtFacts DEF ClientInv
<1> QED
  BY <1>1, <1>2, <1>3 DEF ClientInv, PathInv, MethodInv, RequestInv

LEMMA InitClientInv == Init => ClientInv
<1> SUFFICES ASSUME Init PROVE ClientInv
  OBVIOUS
<1>1. TableInit /\ phase = "setup"
  BY DEF Init
<1>2. RequestInv
  BY DEF Init, RequestInv
<1> QED
  BY <1>1, <1>2, InitPathInv, TableInvInit DEF ClientInv

LEMMA NextTableInv ==
  ASSUME TableInv, [Next]_vars
  PROVE  TableInv'
<1>1. Register \/ UNCHANGED tableVars
  BY DEF Next, Ask, Serve, Follow, vars
<1>2. [\E call \in Calls : Handle(call)]_tableVars
  BY <1>1 DEF Register
<1> QED
  BY <1>2, TableStep

(* ClientInv is inductive.                                                 *)
LEMMA NextClientInv ==
  ASSUME RewritesNothing, HostsAreRead, ClientInv, [Next]_vars
  PROVE  ClientInv'
<1>1. PathInv' /\ RequestInv' /\ TableInv'
  BY NextPathInv, NextRequestInv, NextTableInv, RewritingNothing DEF ClientInv
<1>2. (phase # "setup" => Sent(req))'
  <2>1. CASE Register \/ UNCHANGED vars
    BY <2>1 DEF ClientInv, Register, vars
  <2>2. ASSUME NEW q \in Requests, Ask(q)
        PROVE  Sent(req)'
    BY <2>2, AskIsSent DEF HostsAreRead, Ask
  <2>3. CASE Serve
    BY <2>3 DEF ClientInv, Serve
  <2>4. CASE Follow
    BY <2>4, ClientFacts DEF Follow
  <2> QED
    BY <2>1, <2>2, <2>3, <2>4 DEF Next
<1> QED
  BY <1>1, <1>2 DEF ClientInv

(* Middleware aside, every client asks a sound table, and asks for paths   *)
(* that are clean from the first redirect on (router.go, ServeHTTP).       *)
THEOREM ClientInvariance ==
  ASSUME RewritesNothing, HostsAreRead
  PROVE  Spec => []ClientInv
<1>1. ClientInv /\ [Next]_vars => ClientInv'
  BY NextClientInv
<1> QED
  BY InitClientInv, <1>1, PTL DEF Spec

(* A step that changes the answer gives one or forgets it.                 *)
LEMMA AnswerSteps ==
  ASSUME ClientInv, [Next]_vars, RewritesNothing
  PROVE  \/ UNCHANGED <<routes, opts, first, req, asked, answer>>
         \/ answer' = None
         \/ /\ Serve /\ UNCHANGED <<routes, opts, first, req, asked>>
            /\ Sent(req) /\ phase = "asking" /\ phase' = "answered"
            /\ \/ Cleaning(opts, req, answer') \/ Serving(opts, req, answer')
               \/ Turning(opts, req, answer') \/ Missing(opts, req, answer')
<1>1. CASE Register \/ (\E q \in Requests : Ask(q))
  BY <1>1, ClientFacts DEF Register, Ask
<1>2. CASE Serve
  BY <1>2, AnswersAre DEF Serve, ClientInv, RequestInv, tableVars
<1>3. CASE Follow \/ UNCHANGED vars
  BY <1>3 DEF Follow, vars, tableVars
<1> QED
  BY <1>1, <1>2, <1>3 DEF Next

(* A 405 is never for a method of its own Allow header.                    *)
LEMMA MissedIsUnserved ==
  ASSUME TableInv, NEW q, Sent(q), ~Served(q)
  PROVE  q.method \notin Allowed(q)
<1>1. \A r \in DOMAIN routes : OnPathAndHost(routes[r], q) =>
        routes[r].method # q.method /\ ~(routes[r].method = "GET" /\ q.method = "HEAD")
  BY DEF Served, Serves, MethodRank
<1> QED
  BY <1>1, AllowedFacts DEF Sent

(* Behind middleware or not, no client is told 405 about a method that     *)
(* the Allow header of the same answer lists (router.go, the comment on    *)
(* MethodNotAllowed).                                                      *)
THEOREM RefusedMethodsAreUnserved ==
  ASSUME RewritesNothing, HostsAreRead
  PROVE  Spec => []RefusedMethodIsUnserved
<1>1. Init => RefusedMethodIsUnserved
  BY DEF Init, RefusedMethodIsUnserved, None
<1>2. ClientInv /\ RefusedMethodIsUnserved /\ [Next]_vars => RefusedMethodIsUnserved'
  <2> SUFFICES ASSUME ClientInv, RefusedMethodIsUnserved, [Next]_vars
               PROVE  RefusedMethodIsUnserved'
    OBVIOUS
  <2>1. None.kind # "405"
    BY DEF None
  <2>2. ASSUME Missing(opts, req, answer'), Sent(req), answer'.kind = "405"
        PROVE  req.method \notin answer'.allow
    BY <2>2, MissedIsUnserved DEF Missing, ClientInv
  <2>3. ASSUME Cleaning(opts, req, answer') \/ Serving(opts, req, answer')
                 \/ Turning(opts, req, answer')
        PROVE  answer'.kind # "405"
    BY <2>3 DEF Cleaning, Serving, Turning, redirect
  <2> QED
    BY <2>1, <2>2, <2>3, AnswerSteps DEF RefusedMethodIsUnserved
<1> QED
  BY <1>1, <1>2, ClientInvariance, PTL DEF Spec

-----------------------------------------------------------------------------
(* The other slash form *)

(* What a client f means to ask for, and asks for first or is sent to.     *)
Wanted(o, f) == IF o.clean THEN cleanPath(f.path) ELSE f.path
Intended(o, f) == At(f, Wanted(o, f))
There(o, f) == At(f, trailingSlashAlternative(Wanted(o, f)))

(* Only the other form has routes, and one of them serves the method.      *)
OnlyThere(o, f, rts) ==
    /\ o.slash /\ cleanPath(Wanted(o, f)) = Wanted(o, f) /\ HasAlternative(Wanted(o, f))
    /\ ~OnSomeRoute(rts, Intended(o, f)) /\ BestRoute(rts, There(o, f)) # NoRoute

(* An answer that gets a client there.                                     *)
Guides(o, f, q, a) ==
    /\ a.kind \notin {"404", "405"}
    /\ a.kind = "redirect" => Followed(q, a) \in {Intended(o, f), There(o, f)}

LEMMA RedirectIsFollowed ==
  ASSUME NEW q, Sent(q), NEW why, NEW to
  PROVE  Followed(q, redirect(q, why, to)) = At(q, Location(Collapsed(to)))
<1> DEFINE a == redirect(q, why, to)
<1>1. a.to = Location(Collapsed(to)) /\ (a.code = 301 => q.method \in {"GET", "HEAD"})
  BY DEF redirect
<1> HIDE DEF a
<1> QED
  BY <1>1, FollowedIsAt DEF a

LEMMA SlashIsText == "" \in Text /\ Empty("")
BY TextFacts, SegmentKinds

(* Where such a client goes.                                               *)
LEMMA ClientPlaces ==
  ASSUME NEW o, NEW f, Sent(f), OnlyThere(o, f, routes)
  PROVE  LET wanted == Wanted(o, f)
             alt == trailingSlashAlternative(wanted)
         IN /\ IsClean(Text, wanted) /\ IsClean(Text, alt)
            /\ Intended(o, f).path = wanted /\ There(o, f).path = alt
            /\ Sent(Intended(o, f)) /\ Sent(There(o, f))
            /\ Alternative(Intended(o, f)) = There(o, f)
            /\ \A path : At(Intended(o, f), path) = At(f, path)
<1> DEFINE wanted == Wanted(o, f)
           alt == trailingSlashAlternative(wanted)
<1>1. f.path \in Seq(Text)
  BY DEF Sent
<1>2. wanted \in Seq(Text)
  BY <1>1, TextFacts, CleanedIsClean, CleanIsCanonical, Zenon DEF Wanted
<1>3. IsClean(Text, wanted) /\ HasAlternative(wanted)
  BY <1>2, TextFacts, CleanedIsClean DEF OnlyThere
<1>4. IsClean(Text, alt) /\ alt \in Seq(Text)
  BY <1>3, SlashIsText, SlashForms, CleanIsCanonical, Zenon
<1> HIDE DEF alt, wanted
<1>5. /\ At(f, wanted).path = wanted /\ At(f, alt).path = alt
      /\ Sent(At(f, wanted)) /\ Sent(At(f, alt))
      /\ \A path : At(At(f, wanted), path) = At(f, path)
  BY <1>2, <1>4, AtFacts
<1> QED
  BY <1>3, <1>4, <1>5 DEF Intended, There, Alternative, wanted, alt

(* From each of these places the client is sent on to the next or served.  *)
LEMMA Guided ==
  ASSUME NEW o, NEW f, Sent(f), OnlyThere(o, f, routes), NEW a,
         NEW q \in {f, Intended(o, f), There(o, f)}, Sent(q),
         \/ Cleaning(o, q, a) \/ Serving(o, q, a)
         \/ Turning(o, q, a) \/ Missing(o, q, a)
  PROVE  Guides(o, f, q, a)
<1>1. PICK wanted, alt, here, there :
        /\ wanted = Wanted(o, f) /\ alt = trailingSlashAlternative(wanted)
        /\ here = Intended(o, f) /\ there = There(o, f)
  OBVIOUS
<1>2. /\ IsClean(Text, wanted) /\ IsClean(Text, alt)
      /\ here.path = wanted /\ there.path = alt
      /\ Alternative(here) = there
      /\ \A path : At(here, path) = At(f, path)
      /\ here = At(f, wanted) /\ there = At(f, alt)
  BY <1>1, ClientPlaces DEF Intended, There
<1>3. /\ Location(Collapsed(wanted)) = wanted /\ Location(Collapsed(alt)) = alt
      /\ cleanPath(wanted) = wanted /\ cleanPath(alt) = alt
  BY <1>2, CleanLocation, CleanIsFixed
<1>4. /\ ~Served(here) /\ Served(there) /\ OnSomeRoute(routes, there)
      /\ o.slash /\ HasAlternative(wanted)
  BY <1>1, BestServes, ServedIsOnRoute DEF OnlyThere
<1>5. CASE q = here
  <2>1. ~Unclean(o, q)
    BY <1>2, <1>3, <1>5 DEF Unclean
  <2>2. Turning(o, q, a)
    BY <1>2, <1>4, <1>5, <2>1 DEF Cleaning, Serving, Missing
  <2>3. a = redirect(q, "slash", alt)
    BY <1>1, <1>2, <1>5, <2>2 DEF Turning
  <2>4. Followed(q, a) = there
    BY <1>2, <1>3, <1>5, <2>3, RedirectIsFollowed
  <2> QED
    BY <1>1, <2>3, <2>4 DEF Guides, redirect
<1>6. CASE q = there
  <2>1. ~Unclean(o, q)
    BY <1>2, <1>3, <1>6 DEF Unclean
  <2> QED
    BY <1>4, <1>6, <2>1 DEF Cleaning, Serving, Missing, Turning, Guides
<1>7. CASE q = f
  <2>1. CASE Unclean(o, q)
    <3>1. wanted = cleanPath(f.path)
      BY <1>1, <1>7, <2>1 DEF Unclean, Wanted
    <3>2. a = redirect(q, "clean", wanted)
      BY <1>7, <2>1, <3>1 DEF Cleaning, Serving, Turning, Missing
    <3>3. Followed(q, a) = here
      BY <1>2, <1>3, <1>7, <3>2, RedirectIsFollowed
    <3> QED
      BY <1>1, <3>2, <3>3 DEF Guides, redirect
  <2>2. CASE ~Unclean(o, q)
    <3>1. wanted = f.path
      BY <1>1, <1>7, <2>2 DEF Unclean, Wanted
    <3>2. here = f
      BY <1>2, <3>1, AtFacts DEF Sent
    <3> QED
      BY <1>5, <1>7, <3>2
  <2> QED
    BY <2>1, <2>2
<1> QED
  BY <1>1, <1>5, <1>6, <1>7

(* Such a client is on its way there.                                      *)
GuidedInv ==
    /\ phase # "setup" => Sent(first)
    /\ phase # "setup" /\ OnlyThere(opts, first, routes) =>
         /\ req \in {first, Intended(opts, first), There(opts, first)}
         /\ Guides(opts, first, req, answer)

LEMMA NoneGuides == \A o, f, q : Guides(o, f, q, None)
BY DEF Guides, None

(* GuidedInv is inductive.                                                 *)
LEMMA NextGuidedInv ==
  ASSUME RewritesNothing, HostsAreRead, ClientInv, GuidedInv, [Next]_vars
  PROVE  GuidedInv'
<1>1. CASE Register
  BY <1>1 DEF GuidedInv, Register
<1>2. ASSUME NEW q \in Requests, Ask(q)
      PROVE  GuidedInv'
  <2>1. first' = q /\ req' = q /\ answer' = None /\ Sent(q)
    BY <1>2, AskIsSent, ClientFacts DEF Ask, HostsAreRead
  <2> QED
    BY <2>1, NoneGuides DEF GuidedInv
<1>3. CASE Serve
  <2>1. /\ phase = "asking" /\ answer' = ServeHTTP(opts, req) /\ Sent(req)
        /\ UNCHANGED <<routes, opts, first, req>>
    BY <1>3 DEF Serve, tableVars, ClientInv
  <2>2. \/ Cleaning(opts, req, answer') \/ Serving(opts, req, answer')
        \/ Turning(opts, req, answer') \/ Missing(opts, req, answer')
    BY <2>1, AnswersAre, ClientFacts DEF ClientInv
  <2>3. OnlyThere(opts, first, routes) => Guides(opts, first, req, answer')
    BY <2>1, <2>2, Guided DEF GuidedInv
  <2> QED
    BY <1>3, <2>1, <2>3 DEF GuidedInv, Serve
<1>4. CASE Follow
  <2>1. /\ phase = "answered" /\ answer.kind = "redirect"
        /\ req' = Followed(req, answer) /\ answer' = None
        /\ UNCHANGED <<routes, opts, first>>
    BY <1>4 DEF Follow, tableVars
  <2> QED
    BY <2>1, NoneGuides DEF GuidedInv, Guides
<1>5. CASE UNCHANGED vars
  BY <1>5 DEF GuidedInv, vars, tableVars
<1> QED
  BY <1>1, <1>2, <1>3, <1>4, <1>5 DEF Next

(* A client that asks for one slash form of a canonical path, when only    *)
(* the other has routes and one of them serves the method, is never told   *)
(* 404 or 405, however many redirects it takes to get there (router.go,    *)
(* answerUnmatched and trailingSlashAlternative).                          *)
THEOREM NoMissIsFalse ==
  ASSUME RewritesNothing, HostsAreRead
  PROVE  Spec => []NoFalseMiss
<1>1. Init => GuidedInv
  BY DEF Init, GuidedInv
<1>2. ClientInv /\ GuidedInv /\ [Next]_vars => GuidedInv'
  BY NextGuidedInv
<1>3. ClientInv /\ GuidedInv => NoFalseMiss
  <2> SUFFICES ASSUME ClientInv, GuidedInv, answer.kind \in {"405", "404"}
               PROVE  ~OnlyThere(opts, first, routes)
    BY DEF NoFalseMiss, OnlyThere, Intended, There, Wanted, At
  <2>1. phase # "setup"
    BY ClientFacts DEF None
  <2> QED
    BY <2>1 DEF GuidedInv, Guides
<1> QED
  BY <1>1, <1>2, <1>3, ClientInvariance, PTL DEF Spec

-----------------------------------------------------------------------------
(* Going in circles *)

(* What a redirect, to a, says of the request that was given it.           *)
IsTurn(o, rts, q, to) ==
    /\ o.slash /\ HasAlternative(q.path)
    /\ OnSomeRoute(rts, Alternative(q)) /\ BestRoute(rts, q) = NoRoute
    /\ to = Location(Collapsed(trailingSlashAlternative(q.path)))

Tells(o, rts, q, to) ==
    \/ Unclean(o, q) /\ to = cleanPath(q.path)
    \/ IsTurn(o, rts, q, to)

(* What is known of a request that was redirected.                         *)
Redirected(rts, q) ==
    Sent(q) /\ (IsClean(Text, q.path) => OnSomeRoute(rts, Alternative(q)))

TurnsInv ==
    /\ phase = "answered" /\ answer.kind = "redirect" =>
         Tells(opts, routes, req, answer.to)
    /\ phase # "answered" => answer = None
    /\ \A q \in asked : Redirected(routes, q)

LEMMA RedirectTells ==
  ASSUME NEW o, NEW q, Sent(q), NEW a, a.kind = "redirect",
         \/ Cleaning(o, q, a) \/ Serving(o, q, a)
         \/ Turning(o, q, a) \/ Missing(o, q, a)
  PROVE  Tells(o, routes, q, a.to)
<1>1. CASE Cleaning(o, q, a)
  <2>1. q.path \in Seq(Text)
    BY DEF Sent
  <2>2. Location(Collapsed(cleanPath(q.path))) = cleanPath(q.path)
    BY <2>1, TextFacts, CleanedIsClean, CleanLocation
  <2> QED
    BY <1>1, <2>2 DEF Cleaning, Tells, redirect
<1>2. CASE Turning(o, q, a)
  BY <1>2, BestServes DEF Turning, Tells, IsTurn, redirect
<1>3. ~Serving(o, q, a) /\ ~Missing(o, q, a)
  BY DEF Serving, Missing
<1> QED
  BY <1>1, <1>2, <1>3

LEMMA ToldIsRedirected ==
  ASSUME NEW q, Sent(q), NEW to, Tells(opts, routes, q, to)
  PROVE  Redirected(routes, q)
BY CleanIsFixed DEF Tells, IsTurn, Redirected, Unclean

(* TurnsInv is inductive.                                                  *)
LEMMA NextTurnsInv ==
  ASSUME RewritesNothing, ClientInv, TurnsInv, [Next]_vars
  PROVE  TurnsInv'
<1>1. CASE Register
  <2>1. asked' = {} /\ phase' = "setup" /\ answer' = None
    BY <1>1, ClientFacts DEF Register
  <2> QED
    BY <2>1 DEF TurnsInv
<1>2. ASSUME NEW q \in Requests, Ask(q)
      PROVE  TurnsInv'
  <2>1. asked' = {} /\ phase' = "asking" /\ answer' = None
    BY <1>2, ClientFacts DEF Ask
  <2> QED
    BY <2>1 DEF TurnsInv
<1>3. CASE Serve
  <2>1. /\ phase = "asking" /\ answer' = ServeHTTP(opts, req) /\ Sent(req)
        /\ phase' = "answered" /\ UNCHANGED <<routes, opts, req, asked>>
    BY <1>3 DEF Serve, tableVars, ClientInv
  <2>2. \/ Cleaning(opts, req, answer') \/ Serving(opts, req, answer')
        \/ Turning(opts, req, answer') \/ Missing(opts, req, answer')
    BY <2>1, AnswersAre, ClientFacts DEF ClientInv
  <2>3. answer'.kind = "redirect" => Tells(opts, routes, req, answer'.to)
    BY <2>1, <2>2, RedirectTells
  <2> QED
    BY <2>1, <2>3 DEF TurnsInv
<1>4. CASE Follow
  <2>1. /\ phase = "answered" /\ answer.kind = "redirect"
        /\ phase' = "asking" /\ answer' = None /\ asked' = asked \cup {req}
        /\ routes' = routes
    BY <1>4 DEF Follow, tableVars
  <2>2. Redirected(routes, req)
    BY <2>1, ToldIsRedirected DEF TurnsInv, ClientInv
  <2> QED
    BY <2>1, <2>2 DEF TurnsInv
<1>5. CASE UNCHANGED vars
  BY <1>5 DEF TurnsInv, vars, tableVars
<1> QED
  BY <1>1, <1>2, <1>3, <1>4, <1>5 DEF Next

(* A redirect to the other slash form of a clean path can be followed by   *)
(* one back only when both forms have routes.                              *)
LEMMA TurnIsNoCircle ==
  ASSUME NEW q, Sent(q), NEW to, IsTurn(opts, routes, q, to)
  PROVE  /\ At(q, to) # q
         /\ IsClean(Text, q.path) /\ Redirected(routes, At(q, to)) =>
              OnSomeRoute(routes, At(q, to)) /\ OnSomeRoute(routes, q)
<1>1. PICK alt : alt = trailingSlashAlternative(q.path)
  OBVIOUS
<1>2. q.path \in Seq(Text) /\ HasAlternative(q.path) /\ to = Location(Collapsed(alt))
  BY <1>1 DEF Sent, IsTurn
<1>3. IsClean(Text, to) /\ to \in Seq(Text)
  BY <1>1, <1>2, AlternativeIsSent, CleanIsCanonical
<1>4. At(q, to).path = to
  BY <1>3, AtFacts
<1>5. IsClean(Text, q.path) =>
        /\ IsClean(Text, alt) /\ alt # q.path /\ to = alt
        /\ trailingSlashAlternative(alt) = q.path
  BY <1>1, <1>2, SlashIsText, SlashForms, CleanLocation, Zenon
<1>6. At(q, to) # q
  BY <1>3, <1>4, <1>5
<1>7. ASSUME IsClean(Text, q.path), Redirected(routes, At(q, to))
      PROVE  OnSomeRoute(routes, At(q, to)) /\ OnSomeRoute(routes, q)
  <2>1. Alternative(q) = At(q, to)
    BY <1>1, <1>5, <1>7 DEF Alternative
  <2>2. Alternative(At(q, to)) = q
    BY <1>3, <1>4, <1>5, <1>7, AtFacts DEF Alternative
  <2>3. IsClean(Text, At(q, to).path)
    BY <1>3, <1>4
  <2> QED
    BY <1>7, <2>1, <2>2, <2>3 DEF Redirected, IsTurn
<1> QED
  BY <1>6, <1>7

(* A client that is sent back to where it has been is on a path of which   *)
(* both slash forms have routes, none of them for its method; no other     *)
(* redirects go in a circle (router.go, answerUnmatched).                  *)
THEOREM CirclesAreBetweenForms ==
  ASSUME RewritesNothing, HostsAreRead
  PROVE  Spec => []LoopsOnlyBetweenForms
<1>1. Init => TurnsInv
  BY DEF Init, TurnsInv
<1>2. ClientInv /\ TurnsInv /\ [Next]_vars => TurnsInv'
  BY NextTurnsInv
<1>3. ClientInv /\ TurnsInv => LoopsOnlyBetweenForms
  <2> SUFFICES ASSUME ClientInv, TurnsInv, answer.kind = "redirect",
                      Followed(req, answer) \in asked \cup {req}
               PROVE  /\ opts.slash
                      /\ OnSomeRoute(routes, req)
                      /\ OnSomeRoute(routes, Followed(req, answer))
                      /\ BestRoute(routes, req) = NoRoute
    BY DEF LoopsOnlyBetweenForms
  <2>1. phase = "answered" /\ phase # "setup" /\ Sent(req)
    BY NoneIsNoAnswer DEF TurnsInv, ClientInv
  <2>2. /\ Followed(req, answer) = At(req, answer.to) /\ answer.to \in Seq(Text)
        /\ asked # {} => IsClean(Text, req.path)
    BY <2>1, ClientFacts
  <2>3. ~Unclean(opts, req) \/ answer.to # cleanPath(req.path)
    <3> SUFFICES ASSUME Unclean(opts, req), answer.to = cleanPath(req.path)
                 PROVE  FALSE
      OBVIOUS
    <3>1. asked = {} /\ answer.to # req.path
      BY <2>2, CleanIsFixed DEF Unclean
    <3>2. At(req, answer.to).path = answer.to
      BY <2>1, <2>2, AtFacts
    <3> QED
      BY <2>2, <3>1, <3>2
  <2>4. IsTurn(opts, routes, req, answer.to)
    BY <2>1, <2>3 DEF TurnsInv, Tells
  <2>5. Followed(req, answer) \in asked
    BY <2>1, <2>2, <2>4, TurnIsNoCircle
  <2>6. Redirected(routes, At(req, answer.to)) /\ IsClean(Text, req.path)
    BY <2>2, <2>5 DEF TurnsInv
  <2> QED
    BY <2>1, <2>2, <2>4, <2>6, TurnIsNoCircle DEF IsTurn
<1> QED
  BY <1>1, <1>2, <1>3, ClientInvariance, PTL DEF Spec
===============================================================================
