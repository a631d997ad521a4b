----------------------------- MODULE RoutingRule -----------------------------
(***************************************************************************)
(* Which route serves a request, stated over the list of registered routes *)
(* and nothing else: no tree, no index, no fast path, no buckets.  It is   *)
(* the rule the comments on WithPriority, specificity, pathEntry and       *)
(* hostVariant.route give, as one comparison of two routes that both       *)
(* serve the request.                                                      *)
(***************************************************************************)
EXTENDS PathTree, HostForms

(* The patterns of a route that accept the request's host, "*" if it has   *)
(* none of its own.                                                        *)
Unconstrained == AnyHost(NoName, NoPort)
FormsOf(rt) == IF rt.hosts = << >> THEN {Unconstrained} ELSE {h.form : h \in ToSet(rt.hosts)}
Admitting(rt, q) == {f \in FormsOf(rt) : FormAdmits(f, q.asked)}

MethodRank(m, asked) ==
    CASE m = asked -> 2
      [] m # asked /\ m = "GET" /\ asked = "HEAD" -> 1
      [] m # asked /\ m = "*" -> 0
      [] OTHER -> -1

OnPathAndHost(rt, q) == PathMatches(rt.segs, q.path) /\ Admitting(rt, q) # {}
Serves(rt, q) == OnPathAndHost(rt, q) /\ MethodRank(rt.method, q.method) >= 0

-----------------------------------------------------------------------------
(* Ranking, over a list of routes in registration order *)

SamePattern(x, y) ==
    /\ Len(x) = Len(y)
    /\ \A i \in DOMAIN x : x[i].kind = y[i].kind /\ x[i].type = y[i].type
                           /\ (x[i].kind = "static" => x[i].text = y[i].text)

(* Routes of one pattern share the lowest priority any of them asks for,   *)
(* and the place of the first.                                             *)
Siblings(rts, i) == {j \in DOMAIN rts : SamePattern(rts[j].segs, rts[i].segs)}
Least(S) == CHOOSE x \in S : \A y \in S : x <= y
PriorityOf(rts, i) == Least({rts[j].priority : j \in Siblings(rts, i)})
PlaceOf(rts, i) == Least(Siblings(rts, i))

SegmentRank(s) == CASE s.kind = "static" -> 5 [] s.kind = "catchAll" -> 1
                    [] s.kind = "param" -> IF Checked(s) THEN 4 ELSE 3

(* More specific at the first segment where the two differ; a template     *)
(* that ends beats only a catch-all.                                       *)
MoreSpecific(x, y) ==
    LET rank(segs, i) == IF i > Len(segs) THEN 2 ELSE SegmentRank(segs[i])
    IN \E i \in 1 .. Len(x) + Len(y) :
         rank(x, i) > rank(y, i) /\ \A j \in 1 .. i - 1 : rank(x, j) = rank(y, j)

(* The host a route answers under: the highest scored of its admitting     *)
(* patterns, the earliest filed under the pattern among equals.            *)
FirstUnder(rts, i, h) ==
    Least({j \in Siblings(rts, i) : h \in FormsOf(rts[j])})

HostBefore(rts, i, g, h) ==
    \/ Outranks(FormScore(g), FormScore(h))
    \/ FormScore(g) = FormScore(h) /\ h = Unconstrained /\ g # h
    \/ FormScore(g) = FormScore(h) /\ Unconstrained \notin {g, h}
         /\ FirstUnder(rts, i, g) < FirstUnder(rts, i, h)

BestHost(rts, i, q) ==
    CHOOSE h \in Admitting(rts[i], q) :
      \A g \in Admitting(rts[i], q) : ~HostBefore(rts, i, g, h)

(* Route i is to be preferred to route j for q.                            *)
Preferred(rts, i, j, q) ==
    LET pi == PriorityOf(rts, i)
        pj == PriorityOf(rts, j)
        x == rts[i].segs
        y == rts[j].segs
        g == BestHost(rts, i, q)
        h == BestHost(rts, j, q)
    IN CASE pi # pj -> pi < pj
         [] pi = pj /\ ~SamePattern(x, y) ->
              \/ MoreSpecific(x, y)
              \/ ~MoreSpecific(y, x) /\ PlaceOf(rts, i) < PlaceOf(rts, j)
         [] pi = pj /\ SamePattern(x, y) /\ g # h -> HostBefore(rts, i, g, h)
         [] OTHER -> MethodRank(rts[i].method, q.method)
                       > MethodRank(rts[j].method, q.method)

(* The route that serves q, or 0.                                          *)
BestRoute(rts, q) ==
    LET able == {i \in DOMAIN rts : Serves(rts[i], q)}
    IN IF able = {} THEN 0
       ELSE CHOOSE i \in able : \A j \in able \ {i} : Preferred(rts, i, j, q)

(* The parameters route i captures: the host's first, then the path's.     *)
ParamsOf(rts, i, q) ==
    IF i = 0 THEN << >>
    ELSE FormCaptures(BestHost(rts, i, q), q.asked) \o Bindings(rts[i].segs, q.path)

(* A path that is served on this host at all is a 405, never a 404.        *)
OnSomeRoute(rts, q) == \E i \in DOMAIN rts : OnPathAndHost(rts[i], q)

(* What a 405 lists: every method that a route is registered for, and HEAD *)
(* for GET, with which the request would have been served.                 *)
MethodsNamed(rts) == {rts[i].method : i \in DOMAIN rts} \ {"*"}
ServedMethods(rts, q) ==
    {m \in MethodsNamed(rts) \cup {"HEAD"} :
       \E i \in DOMAIN rts : Serves(rts[i], [q EXCEPT !.method = m])}
=============================================================================
